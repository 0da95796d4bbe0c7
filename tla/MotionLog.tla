------------------------------ MODULE MotionLog ------------------------------
(***************************************************************************)
(* What the motion statistics promise to whoever reads them (the dump at   *)
(* the end of the program): motions follow one another in time without     *)
(* overlapping, each is logged once, when it ends, in front of the earlier *)
(* ones, and nothing but the number of video frames of the newest one      *)
(* changes afterwards, because frames may still be on their way to the     *)
(* encoder.                                                                *)
(***************************************************************************)
EXTENDS Integers, Sequences

CONSTANT NoMotion

VARIABLES
  open,     \* start of the motion going on, or NoMotion
  log       \* the motions that ended, newest first

LogEntry ==
  [start: Nat, end: Nat, pictures: Nat, video_path: Nat \cup {NoMotion}]

Init == open = NoMotion /\ log = <<>>

\* A motion starts, not before the last one ended.
Start ==
  /\ open = NoMotion
  /\ open' \in Nat
  /\ log # <<>> => open' >= log[1].end
  /\ UNCHANGED log

\* It ends, not before it started, and is logged in front of the others.
End ==
  /\ open # NoMotion
  /\ open' = NoMotion
  /\ log' # <<>>
  /\ Tail(log') = log
  /\ log'[1] \in LogEntry
  /\ log'[1].start = open
  /\ log'[1].end >= open

Next == Start \/ End

Spec == Init /\ [][Next]_<<open, log>>
=============================================================================
