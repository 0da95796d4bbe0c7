----------------------------- MODULE Statistics -----------------------------
(***************************************************************************)
(* The motion statistics (src/statistics.c) and the rows kept of them in   *)
(* the SQLite table (insert_item in src/sqlite_utils.c), as operators on   *)
(* the values of struct motion_t, struct stats and the table.              *)
(*                                                                         *)
(* Times are whole seconds, as time_t is used by the code.  The duration   *)
(* member of struct motion_t is end - start and is not kept apart.  The    *)
(* next pointers are abstracted: motion_list is the sequence of the list's *)
(* elements, its first element being the head.                             *)
(***************************************************************************)
EXTENDS Integers, Sequences, LocalClock

CONSTANT NULL       \* the null pointer: no current motion, no video path

Motion ==
  [start: Nat, end: Nat, pictures: Nat, video_frames: Nat,
   video_path: Nat \cup {NULL}]

ASSUME NullIsNoMotion == NULL \notin Motion
ASSUME NullIsNoTime == NULL \notin Nat

\* struct stats, without its mutex.
Stats ==
  [current_motion: Motion \cup {NULL}, motion_list: Seq(Motion),
   num_motions: Nat, total_pictures: Nat, total_video_frames: Nat]

new_statistics ==
  [current_motion |-> NULL, motion_list |-> <<>>, num_motions |-> 0,
   total_pictures |-> 0, total_video_frames |-> 0]

\* A new motion whose start time has been set.
new_motion(start) ==
  [start |-> start, end |-> 0, pictures |-> 0, video_frames |-> 0,
   video_path |-> NULL]

\* Mutant of add_motion: the motion counter is not advanced.
add_motion_uncounted(stats, motion) ==
  [stats EXCEPT !.motion_list = <<motion>> \o @,
                !.total_pictures = @ + motion.pictures,
                !.total_video_frames = @ + motion.video_frames]

\* The first motion sets the totals, every later one adds to them.
add_motion(stats, motion) ==
  IF stats.motion_list = <<>>
  THEN [stats EXCEPT !.motion_list = <<motion>>,
                     !.num_motions = 1,
                     !.total_pictures = motion.pictures,
                     !.total_video_frames = motion.video_frames]
  ELSE [stats EXCEPT !.motion_list = <<motion>> \o @,
                     !.num_motions = @ + 1,
                     !.total_pictures = @ + motion.pictures,
                     !.total_video_frames = @ + motion.video_frames]

\* The first detection of a motion creates it, later ones change nothing.
begin_motion(stats, now) ==
  IF stats.current_motion = NULL
  THEN [stats EXCEPT !.current_motion = new_motion(now)]
  ELSE stats

\* The current motion with its end time set.
ended(stats, now) == [stats.current_motion EXCEPT !.end = now]

\* Mutant of end_motion: the pointer to the current motion is not reset.
end_motion_keeping_current(stats, now) ==
  IF stats.current_motion = NULL
  THEN stats
  ELSE add_motion(stats, ended(stats, now))

\* Move the current motion, if there is one, to the list.
end_motion(stats, now) ==
  IF stats.current_motion = NULL
  THEN stats
  ELSE [add_motion(stats, ended(stats, now)) EXCEPT !.current_motion = NULL]

\* Mutant of count_picture: a picture written after the end of its motion
\* is counted on the newest closed motion instead of being dropped.
count_picture_late(stats) ==
  IF stats.current_motion = NULL /\ stats.motion_list # <<>>
  THEN [stats EXCEPT !.motion_list[1].pictures = @ + 1]
  ELSE IF stats.current_motion = NULL
       THEN stats
       ELSE [stats EXCEPT !.current_motion.pictures = @ + 1]

\* picture_thread's accounting: only a current motion is counted on.
count_picture(stats) ==
  IF stats.current_motion = NULL
  THEN stats
  ELSE [stats EXCEPT !.current_motion.pictures = @ + 1]

\* video_thread's accounting: a frame encoded after the end of its motion is
\* counted on the head of motion_list, which has to exist.
count_frame(stats) ==
  IF stats.current_motion = NULL
  THEN [stats EXCEPT !.motion_list[1].video_frames = @ + 1]
  ELSE [stats EXCEPT !.current_motion.video_frames = @ + 1]

\* video_thread names the current motion's video file.
name_video(stats, path) ==
  IF stats.current_motion = NULL
  THEN stats
  ELSE [stats EXCEPT !.current_motion.video_path = path]

\* There is a motion to count a frame on.
has_motion(stats) ==
  \/ stats.current_motion # NULL
  \/ stats.motion_list # <<>>

\* dump_statistics' assertion on the list it walked
well_counted(stats) == Len(stats.motion_list) = stats.num_motions

-----------------------------------------------------------------------------
(***************************************************************************)
(* The table.  start_time is its PRIMARY KEY, the local time that ctime_r  *)
(* prints with a resolution of one second: a motion whose start has the    *)
(* text of an earlier row's is rejected, and insert_item's result is       *)
(* ignored.                                                                *)
(***************************************************************************)
insert_item(table, motion) ==
  IF \E row \in table : LocalTime(row.start) = LocalTime(motion.start)
  THEN table
  ELSE table \cup {motion}

\* Mutant of store_current: the row is written after current_motion is reset.
store_nothing(table, stats, now) == table

\* The row of the motion that end_motion closes.
store_current(table, stats, now) ==
  IF stats.current_motion = NULL
  THEN table
  ELSE insert_item(table, ended(stats, now))
=============================================================================
