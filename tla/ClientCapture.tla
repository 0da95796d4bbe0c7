---------------------------- MODULE ClientCapture ----------------------------
(***************************************************************************)
(* The capturing client of openDMD: the main thread's capture loop         *)
(* (src/client/image_capture.c and the client part of src/main.c), the     *)
(* picture thread (src/client/picture_thread.c), the video thread          *)
(* (src/client/video_thread.c) and the SIGINT handler                      *)
(* (src/signal_handler.c), which runs on top of whichever thread the       *)
(* kernel delivers the signal to.                                          *)
(*                                                                         *)
(* mpc, ppc and vpc are the control points of the three threads; hpc[t] is *)
(* the control point of the handler when it runs on top of thread t, which *)
(* does not advance meanwhile.  A mutex is the thread that owns it.  It is *)
(* taken and given back in separate steps wherever the signal can find the *)
(* main thread in between; critical sections that nothing else can observe *)
(* half way are one step.  The reader side of bufferYUYV_rwlock and        *)
(* total_thread_mutex are of that kind, so that only the writer of the     *)
(* former appears here and the latter does not.                            *)
(*                                                                         *)
(* A frame is its sequence number.  File names are the data they are made  *)
(* from: the second (FLV) or the second and counter_in_second (JPEG).      *)
(***************************************************************************)
EXTENDS Statistics, FiniteSets

CONSTANTS
  working_mode,     \* "picture", "video" or "all"
  video_duration,   \* seconds without motion after which recording stops
  UIntMax,          \* largest unsigned int, the type of total_thread
  SignalPoints,     \* control points of main at which SIGINT may find it
  Faults,           \* what may fail: subset of {"camera", "disk", "database"}
  MaxClock,         \* bound on the seconds that pass
  MaxFrames,        \* bound on the frames the camera delivers
  MaxSigint         \* bound on the number of SIGINTs

Threads == {"main", "picture", "video"}

MainLabels ==
  {"create_picture", "count_picture", "create_video", "count_video", "open",
   "loop", "select", "motion_lock", "motion", "write_lock", "write",
   "notify_picture_lock", "notify_picture", "notify_video_lock",
   "notify_video", "check_switch", "check_elapsed", "end_lock", "end",
   "qbuf", "last_lock", "last", "total_thread", "exit_video_lock",
   "exit_video", "exit_picture_lock", "exit_picture", "free", "join",
   "dump_lock", "dump", "exited"}

\* Control points of main between the lock and the unlock of a lock.
MainHolds ==
  {"motion", "write", "notify_picture", "notify_video", "end", "last",
   "exit_video", "exit_picture", "dump"}

PictureLabels ==
  {"none", "lock", "wait", "read", "write", "count", "decrement", "done"}

VideoLabels ==
  {"none", "lock", "wait", "switch", "name", "path", "read", "count",
   "decrement", "done"}

HandlerLabels == {"idle", "picture", "video", "stop"}

Targets == {"none", "picture", "video", "exit"}

ASSUME ModeAssumption == working_mode \in {"picture", "video", "all"}
ASSUME DurationAssumption == video_duration \in Nat
ASSUME UIntAssumption == UIntMax \in Nat /\ UIntMax >= 2
ASSUME EnvironmentAssumption ==
  /\ SignalPoints \subseteq MainLabels
  /\ Faults \subseteq {"camera", "disk", "database"}
ASSUME BoundsAssumption ==
  /\ MaxClock \in Nat
  /\ MaxFrames \in Nat
  /\ MaxSigint \in Nat

HasPicture == working_mode \in {"picture", "all"}
HasVideo == working_mode \in {"video", "all"}

VARIABLES
  mpc, ppc, vpc, hpc,
  client_running,             \* signal_handler.c
  total_thread,               \* global_context.c
  picture_target, video_target,
  video_capturing_switch,     \* video_thread.c: TRUE is VIDEO_CAPTURING_ON
  picture_mutex, video_mutex, \* owner, or "none"
  stats_mutex,                \* global_stats->mutex
  bufferYUYV_rwlock,          \* its writer, or "none"
  now,                        \* process_image's local: time of the frame
  moving,                     \* process_image's local: motion was detected
  lasttime, counter_in_second,
  bufferingYUYV422,           \* the frame in the shared buffer
  pyuyv422buffer,             \* the frame the picture thread copied
  flv_filepath,               \* video_thread's local: the FLV file's name
  stats,                      \* *global_stats
  table,                      \* rows of DEFAULT_TABLE
  jpegs, flvs,                \* the files stored
  crash,                      \* "no", or what aborted the process
  clock, frames, sigints      \* the environment

controls == <<client_running, total_thread>>
targets == <<picture_target, video_target>>
locks == <<picture_mutex, video_mutex, stats_mutex, bufferYUYV_rwlock>>
detection == <<now, moving, lasttime, counter_in_second>>
buffers == <<bufferingYUYV422, pyuyv422buffer>>
files == <<flv_filepath, jpegs, flvs>>
record == <<stats, table>>
environment == <<clock, frames, sigints>>

vars ==
  <<mpc, ppc, vpc, hpc, controls, targets, video_capturing_switch, locks,
    detection, buffers, files, record, crash, environment>>

\* Everything but control points, which every action states itself.
data ==
  <<controls, targets, video_capturing_switch, locks, detection, buffers,
    files, record, crash, environment>>

-----------------------------------------------------------------------------
(* Values *)

Mutex == Threads \cup {"none"}

JpegName == [second: Nat, counter: Nat]
Jpeg == [name: JpegName, frame: Nat]
Flv == [name: Nat \cup {NULL}, frames: SUBSET Nat]

TypeOK ==
  /\ mpc \in MainLabels
  /\ ppc \in PictureLabels
  /\ vpc \in VideoLabels
  /\ hpc \in [Threads -> HandlerLabels]
  /\ client_running \in {0, 1}
  /\ total_thread \in 0 .. UIntMax
  /\ picture_target \in Targets \ {"video"}
  /\ video_target \in Targets \ {"picture"}
  /\ video_capturing_switch \in BOOLEAN
  /\ picture_mutex \in Mutex
  /\ video_mutex \in Mutex
  /\ stats_mutex \in {"none", "main"}
  /\ bufferYUYV_rwlock \in {"none", "main"}
  /\ now \in Nat
  /\ moving \in BOOLEAN
  /\ lasttime \in Nat
  /\ counter_in_second \in Nat
  /\ bufferingYUYV422 \in Nat
  /\ pyuyv422buffer \in Nat
  /\ flv_filepath \in Nat \cup {NULL}
  /\ stats \in Stats
  /\ table \in SUBSET Motion
  /\ jpegs \in SUBSET Jpeg
  /\ flvs \in SUBSET Flv
  /\ crash \in {"no", "camera", "disk", "video_assert", "dump_assert"}
  /\ clock \in 0 .. MaxClock
  /\ frames \in 0 .. MaxFrames
  /\ sigints \in 0 .. MaxSigint

Init ==
  /\ mpc = IF HasPicture THEN "create_picture" ELSE "create_video"
  /\ ppc = "none"
  /\ vpc = "none"
  /\ hpc = [t \in Threads |-> "idle"]
  /\ client_running = 1
  /\ total_thread = 0
  /\ picture_target = "none"
  /\ video_target = "none"
  /\ video_capturing_switch = FALSE
  /\ picture_mutex = "none"
  /\ video_mutex = "none"
  /\ stats_mutex = "none"
  /\ bufferYUYV_rwlock = "none"
  /\ now = 0
  /\ moving = FALSE
  /\ lasttime = 0
  /\ counter_in_second = 0
  /\ bufferingYUYV422 = 0
  /\ pyuyv422buffer = 0
  /\ flv_filepath = NULL
  /\ stats = new_statistics
  /\ table = {}
  /\ jpegs = {}
  /\ flvs = {}
  /\ crash = "no"
  /\ clock = 0
  /\ frames = 0
  /\ sigints = 0

-----------------------------------------------------------------------------
(* Thread t executes its own code: the process lives and no signal handler *)
(* runs on top of it.                                                      *)
Runs(t) == crash = "no" /\ hpc[t] = "idle"

\* An assertion fails, or a fault is met by one: abort().
Abort(reason) ==
  /\ crash' = reason
  /\ UNCHANGED <<mpc, ppc, vpc, hpc, controls, targets,
                 video_capturing_switch, locks, detection, buffers, files,
                 record, environment>>

\* unsigned int arithmetic on total_thread
Increment(n) == IF n = UIntMax THEN 0 ELSE n + 1

\* Mutant of Decrement: signed arithmetic.
DecrementSigned(n) == n - 1

Decrement(n) == IF n = 0 THEN UIntMax ELSE n - 1

\* Mutant of Signalled: the signal is lost.
Unsignalled(pc) == pc

\* pthread_cond_signal: a waiting thread goes for the mutex again.
Signalled(pc) == IF pc = "wait" THEN "lock" ELSE pc

\* The main thread goes on at label; the control of the others stands.
MainAt(label) == mpc' = label /\ UNCHANGED <<ppc, vpc, hpc>>

-----------------------------------------------------------------------------
(* The main thread: client_create_thread *)

CreatePicture ==
  /\ Runs("main") /\ mpc = "create_picture"
  /\ ppc' = "lock"
  /\ mpc' = "count_picture"
  /\ UNCHANGED <<vpc, hpc, data>>

CreateVideo ==
  /\ Runs("main") /\ mpc = "create_video"
  /\ vpc' = "lock"
  /\ mpc' = "count_video"
  /\ UNCHANGED <<ppc, hpc, data>>

\* Mutant of CountThread: the thread is not counted in.
CountThreadForgotten ==
  /\ Runs("main") /\ mpc \in {"count_picture", "count_video"}
  /\ MainAt(IF mpc = "count_picture" /\ HasVideo THEN "create_video"
                                                 ELSE "open")
  /\ UNCHANGED data

\* The created thread may already be running, and even be done.
CountThread ==
  /\ Runs("main") /\ mpc \in {"count_picture", "count_video"}
  /\ total_thread' = Increment(total_thread)
  /\ MainAt(IF mpc = "count_picture" /\ HasVideo THEN "create_video"
                                                 ELSE "open")
  /\ UNCHANGED <<client_running, targets, video_capturing_switch, locks,
                 detection, buffers, files, record, crash, environment>>

\* client_working_progress up to dmd_image_capture: every step is asserted.
OpenDevice ==
  /\ Runs("main") /\ mpc = "open"
  /\ \/ MainAt("loop") /\ UNCHANGED data
     \/ "camera" \in Faults /\ Abort("camera")

-----------------------------------------------------------------------------
(* The main thread: dmd_image_capture and read_frame *)

LoopTest ==
  /\ Runs("main") /\ mpc = "loop"
  /\ MainAt(IF client_running = 1 THEN "select" ELSE "last_lock")
  /\ UNCHANGED data

\* select() is interrupted by a signal (SIGINT, or SIGHUP, whose handler
\* does nothing but log).
SelectInterrupted ==
  /\ Runs("main") /\ mpc = "select"
  /\ MainAt("loop")
  /\ UNCHANGED data

\* select() fails or times out: dmd_image_capture returns -1, on which its
\* caller asserts.
SelectFails ==
  /\ Runs("main") /\ mpc = "select"
  /\ "camera" \in Faults
  /\ Abort("camera")

\* VIDIOC_DQBUF or VIDIOC_QBUF fails: the loop is left.
BufferIoctlFails ==
  /\ Runs("main") /\ mpc \in {"select", "qbuf"}
  /\ "camera" \in Faults
  /\ MainAt("last_lock")
  /\ UNCHANGED data

\* A frame is ready, is dequeued, and process_image looks for motion in it.
Capture(motion) ==
  /\ Runs("main") /\ mpc = "select"
  /\ frames < MaxFrames
  /\ frames' = frames + 1
  /\ now' = clock
  /\ moving' = motion
  /\ MainAt(IF motion THEN "motion_lock"
            ELSE IF HasVideo THEN "check_switch" ELSE "end_lock")
  /\ UNCHANGED <<controls, targets, video_capturing_switch, locks, lasttime,
                 counter_in_second, buffers, files, record, crash, clock,
                 sigints>>

RequeueBuffer ==
  /\ Runs("main") /\ mpc = "qbuf"
  /\ MainAt("loop")
  /\ UNCHANGED data

-----------------------------------------------------------------------------
(* The main thread: process_image *)

\* pthread_mutex_lock(&global_stats->mutex), at each of main's five calls.
LockStats ==
  /\ Runs("main")
  /\ stats_mutex = "none"
  /\ stats_mutex' = "main"
  /\ \/ mpc = "motion_lock" /\ MainAt("motion")
     \/ mpc = "end_lock" /\ MainAt("end")
     \/ mpc = "last_lock" /\ MainAt("last")
     \/ mpc = "dump_lock" /\ MainAt("dump")
  /\ UNCHANGED <<controls, targets, video_capturing_switch, picture_mutex,
                 video_mutex, bufferYUYV_rwlock, detection, buffers, files,
                 record, crash, environment>>

\* The motion starts or goes on; the detection time is refreshed.
MotionDetected ==
  /\ Runs("main") /\ mpc = "motion"
  /\ stats' = begin_motion(stats, now)
  /\ stats_mutex' = "none"
  /\ counter_in_second' =
       IF ~HasPicture THEN counter_in_second
       ELSE IF lasttime = now THEN counter_in_second + 1 ELSE 0
  /\ lasttime' = now
  /\ MainAt("write_lock")
  /\ UNCHANGED <<controls, targets, video_capturing_switch, picture_mutex,
                 video_mutex, bufferYUYV_rwlock, now, moving, buffers, files,
                 table, crash, environment>>

LockBuffer ==
  /\ Runs("main") /\ mpc = "write_lock"
  /\ bufferYUYV_rwlock = "none"
  /\ bufferYUYV_rwlock' = "main"
  /\ MainAt("write")
  /\ UNCHANGED <<controls, targets, video_capturing_switch, picture_mutex,
                 video_mutex, stats_mutex, detection, buffers, files, record,
                 crash, environment>>

\* A frame without motion is for the video thread only.
WriteBuffer ==
  /\ Runs("main") /\ mpc = "write"
  /\ bufferingYUYV422' = frames
  /\ bufferYUYV_rwlock' = "none"
  /\ MainAt(IF moving /\ HasPicture THEN "notify_picture_lock"
                                    ELSE "notify_video_lock")
  /\ UNCHANGED <<controls, targets, video_capturing_switch, picture_mutex,
                 video_mutex, stats_mutex, detection, pyuyv422buffer, files,
                 record, crash, environment>>

\* pthread_mutex_lock(&...picture_mutex) in notify_picture and at the exit
LockPicture ==
  /\ Runs("main")
  /\ picture_mutex = "none"
  /\ picture_mutex' = "main"
  /\ \/ mpc = "notify_picture_lock" /\ MainAt("notify_picture")
     \/ mpc = "exit_picture_lock" /\ MainAt("exit_picture")
  /\ UNCHANGED <<controls, targets, video_capturing_switch, video_mutex,
                 stats_mutex, bufferYUYV_rwlock, detection, buffers, files,
                 record, crash, environment>>

\* pthread_mutex_lock(&...video_mutex) in notify_video and at the exit
LockVideo ==
  /\ Runs("main")
  /\ video_mutex = "none"
  /\ video_mutex' = "main"
  /\ \/ mpc = "notify_video_lock" /\ MainAt("notify_video")
     \/ mpc = "exit_video_lock" /\ MainAt("exit_video")
  /\ UNCHANGED <<controls, targets, video_capturing_switch, picture_mutex,
                 stats_mutex, bufferYUYV_rwlock, detection, buffers, files,
                 record, crash, environment>>

\* Mutant of TellPicture: the mutex is not given back.
TellPictureKeeping ==
  /\ Runs("main") /\ mpc \in {"notify_picture", "exit_picture"}
  /\ picture_target' = IF mpc = "notify_picture" THEN "picture" ELSE "exit"
  /\ ppc' = Signalled(ppc)
  /\ mpc' = IF mpc = "exit_picture" THEN "total_thread"
            ELSE IF HasVideo THEN "notify_video_lock" ELSE "qbuf"
  /\ UNCHANGED <<vpc, hpc, controls, video_target, video_capturing_switch,
                 locks, detection, buffers, files, record, crash, environment>>

\* notify_picture, or the exit told to the picture thread: set the target,
\* signal the condition, unlock.
TellPicture ==
  /\ Runs("main") /\ mpc \in {"notify_picture", "exit_picture"}
  /\ picture_target' = IF mpc = "notify_picture" THEN "picture" ELSE "exit"
  /\ ppc' = Signalled(ppc)
  /\ picture_mutex' = "none"
  /\ mpc' = IF mpc = "exit_picture" THEN "total_thread"
            ELSE IF HasVideo THEN "notify_video_lock" ELSE "qbuf"
  /\ UNCHANGED <<vpc, hpc, controls, video_target, video_capturing_switch,
                 video_mutex, stats_mutex, bufferYUYV_rwlock, detection,
                 buffers, files, record, crash, environment>>

\* notify_video, or the exit told to the video thread.
TellVideo ==
  /\ Runs("main") /\ mpc \in {"notify_video", "exit_video"}
  /\ video_target' = IF mpc = "notify_video" THEN "video" ELSE "exit"
  /\ vpc' = Signalled(vpc)
  /\ video_mutex' = "none"
  /\ mpc' = IF mpc = "exit_video"
            THEN IF HasPicture THEN "exit_picture_lock" ELSE "total_thread"
            ELSE IF moving THEN "qbuf" ELSE "check_elapsed"
  /\ UNCHANGED <<ppc, hpc, controls, picture_target, video_capturing_switch,
                 picture_mutex, stats_mutex, bufferYUYV_rwlock, detection,
                 buffers, files, record, crash, environment>>

\* Mutant of CheckSwitch: a frame without motion is always encoded.
CheckSwitchIgnored ==
  /\ Runs("main") /\ mpc = "check_switch"
  /\ MainAt("write_lock")
  /\ UNCHANGED data

\* No motion: a recording that is on goes on.
CheckSwitch ==
  /\ Runs("main") /\ mpc = "check_switch"
  /\ MainAt(IF video_capturing_switch THEN "write_lock" ELSE "check_elapsed")
  /\ UNCHANGED data

\* No motion for video_duration seconds: the recording is switched off.
CheckElapsed ==
  /\ Runs("main") /\ mpc = "check_elapsed"
  /\ IF now - lasttime >= video_duration /\ video_capturing_switch
     THEN video_capturing_switch' = FALSE /\ MainAt("end_lock")
     ELSE UNCHANGED video_capturing_switch /\ MainAt("qbuf")
  /\ UNCHANGED <<controls, targets, locks, detection, buffers, files, record,
                 crash, environment>>

\* insert_item's result is ignored: a database that is busy (the web process
\* is reading it) or fails loses the row.
StoreCurrent(time) ==
  \/ table' = store_current(table, stats, time)
  \/ "database" \in Faults /\ UNCHANGED table

\* The current motion ends.  In picture mode it gets no row in the table.
EndMotion ==
  /\ Runs("main") /\ mpc = "end"
  /\ stats' = end_motion(stats, now)
  /\ IF HasVideo THEN StoreCurrent(now) ELSE UNCHANGED table
  /\ stats_mutex' = "none"
  /\ MainAt("qbuf")
  /\ UNCHANGED <<controls, targets, video_capturing_switch, picture_mutex,
                 video_mutex, bufferYUYV_rwlock, detection, buffers, files,
                 crash, environment>>

-----------------------------------------------------------------------------
(* The main thread: the end of dmd_image_capture and of main *)

\* The capture loop is left: the last motion is recorded.
LastMotion ==
  /\ Runs("main") /\ mpc = "last"
  /\ stats' = end_motion(stats, clock)
  /\ StoreCurrent(clock)
  /\ stats_mutex' = "none"
  /\ MainAt("total_thread")
  /\ UNCHANGED <<controls, targets, video_capturing_switch, picture_mutex,
                 video_mutex, bufferYUYV_rwlock, detection, buffers, files,
                 crash, environment>>

\* Mutant of TotalThread: the exit is not told again.
TotalThreadOnce ==
  /\ Runs("main") /\ mpc = "total_thread"
  /\ total_thread = 0
  /\ MainAt("free")
  /\ UNCHANGED data

\* while (total_thread != 0): the threads are told to exit again and again.
TotalThread ==
  /\ Runs("main") /\ mpc = "total_thread"
  /\ MainAt(IF total_thread = 0 THEN "free"
            ELSE IF HasVideo THEN "exit_video_lock" ELSE "exit_picture_lock")
  /\ UNCHANGED data

\* The device is closed and release_client frees the image buffers, before
\* it joins the threads.
FreeBuffers ==
  /\ Runs("main") /\ mpc = "free"
  /\ \/ MainAt("join") /\ UNCHANGED data
     \/ "camera" \in Faults /\ Abort("camera")

\* pthread_join, then the locks are destroyed.
JoinThreads ==
  /\ Runs("main") /\ mpc = "join"
  /\ HasPicture => ppc = "done"
  /\ HasVideo => vpc = "done"
  /\ MainAt("dump_lock")
  /\ UNCHANGED data

\* dump_statistics walks the list and asserts its length; then the program
\* releases what is left and exits.
DumpStatistics ==
  /\ Runs("main") /\ mpc = "dump"
  /\ crash' = IF stats.num_motions = 0 \/ well_counted(stats)
              THEN "no" ELSE "dump_assert"
  /\ stats_mutex' = "none"
  /\ MainAt("exited")
  /\ UNCHANGED <<controls, targets, video_capturing_switch, picture_mutex,
                 video_mutex, bufferYUYV_rwlock, detection, buffers, files,
                 record, environment>>

MainStep ==
  \/ CreatePicture \/ CreateVideo \/ CountThread \/ OpenDevice
  \/ LoopTest \/ SelectInterrupted \/ SelectFails \/ BufferIoctlFails
  \/ \E motion \in BOOLEAN : Capture(motion)
  \/ RequeueBuffer
  \/ LockStats \/ MotionDetected \/ LockBuffer \/ WriteBuffer
  \/ LockPicture \/ LockVideo \/ TellPicture \/ TellVideo
  \/ CheckSwitch \/ CheckElapsed \/ EndMotion
  \/ LastMotion \/ TotalThread \/ FreeBuffers \/ JoinThreads \/ DumpStatistics

-----------------------------------------------------------------------------
(* The picture thread *)

\* Where a thread goes on that has taken its target: it waits, exits or works.
AfterTaking(target, work) ==
  IF target = "none" THEN "wait"
  ELSE IF target = "exit" THEN "decrement" ELSE work

PictureAt(label) == ppc' = label /\ UNCHANGED <<mpc, vpc, hpc>>

\* pthread_cond_wait may return unsignalled.
PictureWakes ==
  /\ Runs("picture") /\ ppc = "wait"
  /\ PictureAt("lock")
  /\ UNCHANGED data

\* Mutant of PictureTakes: the mutex is kept on the way out.
PictureTakesKeeping ==
  /\ Runs("picture") /\ ppc = "lock"
  /\ picture_mutex = "none"
  /\ picture_target' = "none"
  /\ picture_mutex' = IF picture_target = "none" THEN "none" ELSE "picture"
  /\ PictureAt(AfterTaking(picture_target, "read"))
  /\ UNCHANGED <<controls, video_target, video_capturing_switch, video_mutex,
                 stats_mutex, bufferYUYV_rwlock, detection, buffers, files,
                 record, crash, environment>>

\* With the mutex, the target is taken: waiting gives the mutex back, a
\* picture keeps it until it is written, an exit gives it back.
PictureTakes ==
  /\ Runs("picture") /\ ppc = "lock"
  /\ picture_mutex = "none"
  /\ picture_target' = "none"
  /\ picture_mutex' = IF picture_target = "picture" THEN "picture" ELSE "none"
  /\ PictureAt(AfterTaking(picture_target, "read"))
  /\ UNCHANGED <<controls, video_target, video_capturing_switch, video_mutex,
                 stats_mutex, bufferYUYV_rwlock, detection, buffers, files,
                 record, crash, environment>>

PictureReads ==
  /\ Runs("picture") /\ ppc = "read"
  /\ bufferYUYV_rwlock = "none"
  /\ pyuyv422buffer' = bufferingYUYV422
  /\ PictureAt("write")
  /\ UNCHANGED <<controls, targets, video_capturing_switch, locks, detection,
                 bufferingYUYV422, files, record, crash, environment>>

\* client_get_filepath(JPEG_FILE), with its own reading of the clock
JpegPath == [second |-> LocalTime(clock), counter |-> counter_in_second]

\* write_jpeg opens the file with "wb+": a file of that name is replaced.
PictureWrites ==
  /\ Runs("picture") /\ ppc = "write"
  /\ \/ /\ jpegs' = {file \in jpegs : file.name # JpegPath}
                      \cup {[name |-> JpegPath, frame |-> pyuyv422buffer]}
        /\ PictureAt("count")
        /\ UNCHANGED <<controls, targets, video_capturing_switch, locks,
                       detection, buffers, flv_filepath, flvs, record, crash,
                       environment>>
     \/ "disk" \in Faults /\ Abort("disk")

PictureCounts ==
  /\ Runs("picture") /\ ppc = "count"
  /\ stats_mutex = "none"
  /\ stats' = count_picture(stats)
  /\ picture_mutex' = "none"
  /\ PictureAt("lock")
  /\ UNCHANGED <<controls, targets, video_capturing_switch, video_mutex,
                 stats_mutex, bufferYUYV_rwlock, detection, buffers, files,
                 table, crash, environment>>

PictureExits ==
  /\ Runs("picture") /\ ppc = "decrement"
  /\ total_thread' = Decrement(total_thread)
  /\ PictureAt("done")
  /\ UNCHANGED <<client_running, targets, video_capturing_switch, locks,
                 detection, buffers, files, record, crash, environment>>

PictureStep ==
  \/ PictureTakes \/ PictureReads \/ PictureWrites \/ PictureCounts
  \/ PictureExits

-----------------------------------------------------------------------------
(* The video thread *)

VideoAt(label) == vpc' = label /\ UNCHANGED <<mpc, ppc, hpc>>

VideoWakes ==
  /\ Runs("video") /\ vpc = "wait"
  /\ VideoAt("lock")
  /\ UNCHANGED data

VideoTakes ==
  /\ Runs("video") /\ vpc = "lock"
  /\ video_mutex = "none"
  /\ video_target' = "none"
  /\ video_mutex' = IF video_target = "video" THEN "video" ELSE "none"
  /\ VideoAt(AfterTaking(video_target, "switch"))
  /\ UNCHANGED <<controls, picture_target, video_capturing_switch,
                 picture_mutex, stats_mutex, bufferYUYV_rwlock, detection,
                 buffers, files, record, crash, environment>>

\* Mutant of VideoSwitches: the new recording gets no file.
VideoSwitchesUnnamed ==
  /\ Runs("video") /\ vpc = "switch"
  /\ video_capturing_switch' = TRUE
  /\ VideoAt("read")
  /\ UNCHANGED <<controls, targets, locks, detection, buffers, files, record,
                 crash, environment>>

\* A recording that is off is switched on and gets a new file.
VideoSwitches ==
  /\ Runs("video") /\ vpc = "switch"
  /\ video_capturing_switch' = TRUE
  /\ VideoAt(IF video_capturing_switch THEN "read" ELSE "name")
  /\ UNCHANGED <<controls, targets, locks, detection, buffers, files, record,
                 crash, environment>>

\* client_get_filepath(FLV_FILE)
VideoNames ==
  /\ Runs("video") /\ vpc = "name"
  /\ flv_filepath' = LocalTime(clock)
  /\ VideoAt("path")
  /\ UNCHANGED <<controls, targets, video_capturing_switch, locks, detection,
                 buffers, jpegs, flvs, record, crash, environment>>

\* The motion learns its file; encapulate_flvheader appends a header to it.
VideoSetsPath ==
  /\ Runs("video") /\ vpc = "path"
  /\ stats_mutex = "none"
  /\ \/ /\ stats' = name_video(stats, flv_filepath)
        /\ flvs' = IF \E file \in flvs : file.name = flv_filepath
                   THEN flvs
                   ELSE flvs \cup {[name |-> flv_filepath, frames |-> {}]}
        /\ VideoAt("read")
        /\ UNCHANGED <<controls, targets, video_capturing_switch, locks,
                       detection, buffers, flv_filepath, jpegs, table, crash,
                       environment>>
     \/ "disk" \in Faults /\ Abort("disk")

\* The frame is copied and encoded.  write_nals opens the file with "wb" for
\* every frame: what the file held before is gone.
VideoEncodes ==
  /\ Runs("video") /\ vpc = "read"
  /\ bufferYUYV_rwlock = "none"
  /\ \/ /\ flvs' = {file \in flvs : file.name # flv_filepath}
                     \cup {[name |-> flv_filepath,
                            frames |-> {bufferingYUYV422}]}
        /\ VideoAt("count")
        /\ UNCHANGED <<controls, targets, video_capturing_switch, locks,
                       detection, buffers, flv_filepath, jpegs, record, crash,
                       environment>>
     \/ "disk" \in Faults /\ Abort("disk")

\* assert(global_stats->motion_list != NULL) when there is no current motion
VideoCounts ==
  /\ Runs("video") /\ vpc = "count"
  /\ stats_mutex = "none"
  /\ crash' = IF has_motion(stats) THEN "no" ELSE "video_assert"
  /\ stats' = IF has_motion(stats) THEN count_frame(stats) ELSE stats
  /\ video_mutex' = "none"
  /\ VideoAt("lock")
  /\ UNCHANGED <<controls, targets, video_capturing_switch, picture_mutex,
                 stats_mutex, bufferYUYV_rwlock, detection, buffers, files,
                 table, environment>>

VideoExits ==
  /\ Runs("video") /\ vpc = "decrement"
  /\ total_thread' = Decrement(total_thread)
  /\ VideoAt("done")
  /\ UNCHANGED <<client_running, targets, video_capturing_switch, locks,
                 detection, buffers, files, record, crash, environment>>

VideoStep ==
  \/ VideoTakes \/ VideoSwitches \/ VideoNames \/ VideoSetsPath
  \/ VideoEncodes \/ VideoCounts \/ VideoExits

-----------------------------------------------------------------------------
(* The SIGINT handler, on top of thread t *)

Alive(t) ==
  /\ t = "main" => mpc # "exited"
  /\ t = "picture" => ppc \notin {"none", "done"}
  /\ t = "video" => vpc \notin {"none", "done"}

\* The kernel delivers SIGINT to the main thread, unless the main thread is
\* in the handler and so blocks the signal: then to another thread.
Interrupt(t) ==
  /\ crash = "no" /\ mpc # "exited"
  /\ sigints < MaxSigint
  /\ hpc[t] = "idle" /\ Alive(t)
  /\ IF t = "main" THEN mpc \in SignalPoints ELSE hpc["main"] # "idle"
  /\ sigints' = sigints + 1
  /\ hpc' = [hpc EXCEPT ![t] = IF HasPicture THEN "picture" ELSE "video"]
  /\ UNCHANGED <<mpc, ppc, vpc, controls, targets, video_capturing_switch,
                 locks, detection, buffers, files, record, crash, clock,
                 frames>>

\* The handler locks, tells the thread to exit and unlocks.  It blocks, and
\* with it thread t, while anyone, t included, owns the mutex.
HandlerTellsPicture(t) ==
  /\ crash = "no" /\ hpc[t] = "picture"
  /\ picture_mutex = "none"
  /\ picture_target' = "exit"
  /\ ppc' = Signalled(ppc)
  /\ hpc' = [hpc EXCEPT ![t] = IF HasVideo THEN "video" ELSE "stop"]
  /\ UNCHANGED <<mpc, vpc, controls, video_target, video_capturing_switch,
                 locks, detection, buffers, files, record, crash,
                 environment>>

HandlerTellsVideo(t) ==
  /\ crash = "no" /\ hpc[t] = "video"
  /\ video_mutex = "none"
  /\ video_target' = "exit"
  /\ vpc' = Signalled(vpc)
  /\ hpc' = [hpc EXCEPT ![t] = "stop"]
  /\ UNCHANGED <<mpc, ppc, controls, picture_target, video_capturing_switch,
                 locks, detection, buffers, files, record, crash,
                 environment>>

HandlerStops(t) ==
  /\ crash = "no" /\ hpc[t] = "stop"
  /\ client_running' = 0
  /\ hpc' = [hpc EXCEPT ![t] = "idle"]
  /\ UNCHANGED <<mpc, ppc, vpc, total_thread, targets,
                 video_capturing_switch, locks, detection, buffers, files,
                 record, crash, environment>>

HandlerStep(t) ==
  HandlerTellsPicture(t) \/ HandlerTellsVideo(t) \/ HandlerStops(t)

-----------------------------------------------------------------------------
(* The specification *)

\* A second passes.
Tick ==
  /\ crash = "no" /\ mpc # "exited"
  /\ clock < MaxClock
  /\ clock' = clock + 1
  /\ UNCHANGED <<mpc, ppc, vpc, hpc, controls, targets,
                 video_capturing_switch, locks, detection, buffers, files,
                 record, crash, frames, sigints>>

\* The process is gone.
Gone ==
  /\ mpc = "exited" \/ crash # "no"
  /\ UNCHANGED vars

Next ==
  \/ MainStep
  \/ PictureStep \/ PictureWakes
  \/ VideoStep \/ VideoWakes
  \/ \E t \in Threads : Interrupt(t) \/ HandlerStep(t)
  \/ Tick
  \/ Gone

Spec == Init /\ [][Next]_vars

\* Every thread that can go on infinitely often goes on: the kernel runs all
\* threads, and a thread contending for a mutex gets it at some time.
\* Signals, spurious wake-ups and the clock are not promised.
Fairness ==
  /\ SF_vars(MainStep)
  /\ SF_vars(PictureStep)
  /\ SF_vars(VideoStep)
  /\ \A t \in Threads : SF_vars(HandlerStep(t))

FairSpec == Spec /\ Fairness

-----------------------------------------------------------------------------
(* Properties *)

\* No assertion on the statistics fails: whenever the video thread finds no
\* current motion to count its frame on there is a motion in motion_list
\* (video_thread.c:134), and the list that dump_statistics walks has
\* num_motions elements (statistics.c:180).
AssertionsHold == crash \notin {"video_assert", "dump_assert"}

\* release_client frees the image buffers before it joins the threads, on
\* the strength of an unlocked reading of total_thread: by then every thread
\* that was created has counted itself out and touches nothing any more.
ThreadsDoneWhenFreed ==
  mpc \in {"free", "join", "dump_lock", "dump", "exited"} =>
    /\ ppc = IF HasPicture THEN "done" ELSE "none"
    /\ vpc = IF HasVideo THEN "done" ELSE "none"

\* No wake-up is lost: a thread asleep on its condition has no target
\* pending, whoever set it, the main thread or the signal handler.
NoLostWakeup ==
  /\ ppc = "wait" => picture_target = "none"
  /\ vpc = "wait" => video_target = "none"

\* The video thread has a file name whenever it uses flv_filepath->path.
FileIsNamed == vpc \in {"path", "read", "count"} => flv_filepath # NULL

\* The motion has its own row in the table, with its start and end times.
Stored(motion) ==
  \E row \in table : row.start = motion.start /\ row.end = motion.end

\* The table's primary key rejects the motion for one recorded before local
\* time was put back, whose start has the same text.
Rejected(motion) ==
  \E row \in table :
    /\ PutBack(row.start, motion.start)
    /\ LocalTime(row.start) = LocalTime(motion.start)

\* Every closed motion of a recording client is stored: two motions never
\* start in the same second, which the table's primary key would reject.
\* Only the hour that is counted again at the end of daylight saving time
\* loses motions.
MotionsStored ==
  HasVideo =>
    \A i \in 1 .. Len(stats.motion_list) :
      \/ Stored(stats.motion_list[i])
      \/ Rejected(stats.motion_list[i])

\* The counters of the motions of a list, in the order in which they ended
Pictures(list) ==
  [k \in 1 .. Len(list) |-> list[Len(list) + 1 - k].pictures]

VideoFrames(list) ==
  [k \in 1 .. Len(list) |-> list[Len(list) + 1 - k].video_frames]

\* One element for every unit of every counter, and so their sum
Units(counters) ==
  UNION {{k} \X (1 .. counters[k]) : k \in DOMAIN counters}

Total(counters) == Cardinality(Units(counters))

\* The totals that dump_statistics prints: total_pictures is the sum of the
\* pictures of the listed motions at any time, although pictures are still
\* counted while motions end; total_video_frames never exceeds the frames
\* of the listed motions (frames encoded after the end of their motion are
\* counted on the motion and not in the total).
TotalsConsistent ==
  /\ stats.total_pictures = Total(Pictures(stats.motion_list))
  /\ stats.total_video_frames <= Total(VideoFrames(stats.motion_list))

\* Thread t, or the handler on top of it, is about to take a lock.
WantsPicture(t) ==
  \/ hpc[t] = "picture"
  \/ /\ hpc[t] = "idle"
     /\ \/ t = "main" /\ mpc \in {"notify_picture_lock", "exit_picture_lock"}
        \/ t = "picture" /\ ppc = "lock"

WantsVideo(t) ==
  \/ hpc[t] = "video"
  \/ /\ hpc[t] = "idle"
     /\ \/ t = "main" /\ mpc \in {"notify_video_lock", "exit_video_lock"}
        \/ t = "video" /\ vpc = "lock"

WantsStats(t) ==
  /\ hpc[t] = "idle"
  /\ \/ t = "main"
        /\ mpc \in {"motion_lock", "end_lock", "last_lock", "dump_lock"}
     \/ t = "picture" /\ ppc = "count"
     \/ t = "video" /\ vpc \in {"path", "count"}

WantsBuffer(t) ==
  /\ hpc[t] = "idle"
  /\ \/ t = "main" /\ mpc = "write_lock"
     \/ t = "picture" /\ ppc = "read"
     \/ t = "video" /\ vpc = "read"

\* Thread t waits for a lock that owner has.
Waits(t, owner) ==
  \/ WantsPicture(t) /\ picture_mutex = owner
  \/ WantsVideo(t) /\ video_mutex = owner
  \/ WantsStats(t) /\ stats_mutex = owner
  \/ WantsBuffer(t) /\ bufferYUYV_rwlock = owner

\* No deadlock: the owner of a lock that somebody waits for does not wait
\* for a lock itself, not even for its own one in the signal handler.  The
\* threads nest the locks (picture_thread and video_thread take the
\* buffer's and the statistics' inside their mutex) and the handler adds
\* two more on top of whatever its thread owns.
NoWaitForWaiter ==
  \A t, u, v \in Threads : ~(Waits(t, u) /\ Waits(u, v))

\* The motions as MotionLog sees them
LogOf(motion) ==
  [start |-> motion.start, end |-> motion.end, pictures |-> motion.pictures,
   video_path |-> motion.video_path]

OpenMotion ==
  IF stats.current_motion = NULL THEN NULL ELSE stats.current_motion.start

MotionsLogged ==
  [i \in 1 .. Len(stats.motion_list) |-> LogOf(stats.motion_list[i])]

Log == INSTANCE MotionLog
         WITH NoMotion <- NULL, open <- OpenMotion, log <- MotionsLogged

\* The three threads together keep the motion log as MotionLog promises: one
\* motion at a time, in the order of time, nothing but the frame counter of
\* the newest one changed after its end.
LogKept == Log!Spec

\* A thread that was notified of a picture, a video frame or the exit takes
\* notice of it, or is done anyway.
TargetsTaken ==
  /\ picture_target # "none"
       ~> picture_target = "none" \/ ppc = "done" \/ crash # "no"
  /\ video_target # "none"
       ~> video_target = "none" \/ vpc = "done" \/ crash # "no"

\* Ctrl-C ends the program: a SIGINT is followed by the end of the process.
SigintExits == sigints > 0 ~> mpc = "exited" \/ crash # "no"
=============================================================================
