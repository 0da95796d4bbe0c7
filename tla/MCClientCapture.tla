-------------------------- MODULE MCClientCapture --------------------------
(***************************************************************************)
(* Instances of ClientCapture for TLC: where SIGINT may find the main      *)
(* thread, and what may fail.                                              *)
(***************************************************************************)
EXTENDS ClientCapture

\* SIGINT may find the main thread anywhere.
AnyPoint == MainLabels

\* SIGINT finds the main thread where it owns no lock.
LockFree == MainLabels \ MainHolds

AllFaults == {"camera", "disk", "database"}
DeviceFaults == {"camera", "disk"}
NoFaults == {}
=============================================================================
