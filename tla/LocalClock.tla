----------------------------- MODULE LocalClock -----------------------------
(***************************************************************************)
(* Local time, as localtime_r() and ctime_r() give it and as the names of  *)
(* files and the key of the table show it: year, month, day, hour, minute  *)
(* and second of a time zone, without the offset from universal time.  It  *)
(* is put back once, at the end of daylight saving time, after which the   *)
(* last DstShift seconds are counted again.                                *)
(***************************************************************************)
EXTENDS Integers

CONSTANTS
    DstEnd,         \* the second at which local time is put back
    DstShift        \* by how many seconds; 0 in a zone that never does

ASSUME DstAssumption == DstEnd \in Nat /\ DstShift \in Nat

\* The local time of second t
LocalTime(t) == IF t < DstEnd THEN t + DstShift ELSE t

\* Local time is put back after second s and not after second t.
PutBack(s, t) == DstShift > 0 /\ s < DstEnd /\ DstEnd <= t
=============================================================================
