--------------------------- MODULE OrderedChannel ---------------------------
(***************************************************************************)
(* What the RTP path promises the recordings of the server: fragments may  *)
(* be lost and repeated, but those of one run of a client never change     *)
(* their order, and none appears that was not sent.  The order is promised *)
(* until the fragments of a restarted client are queued behind a backlog   *)
(* of those it sent before: their numbers have nothing to do with each     *)
(* other.                                                                  *)
(***************************************************************************)
EXTENDS Naturals, Sequences

CONSTANTS Runs      \* the runs of the client: it may be restarted

VARIABLES sent,     \* sent[r]: the fragments sent in run r
          last,     \* last[r]: the last of them that was handed over
          mixed     \* fragments of two runs have met in the queue

Init == sent = [r \in Runs |-> 0] /\ last = [r \in Runs |-> 0] /\ mixed = FALSE

Send(r) == sent' = [sent EXCEPT ![r] = @ + 1] /\ UNCHANGED <<last, mixed>>

Hand(r, n) ==
    /\ mixed \/ last[r] <= n
    /\ last' = [last EXCEPT ![r] = n]
    /\ UNCHANGED <<sent, mixed>>

Mix == mixed' = TRUE /\ UNCHANGED <<sent, last>>

Next == Mix \/ \E r \in Runs : Send(r) \/ \E n \in 1..sent[r] : Hand(r, n)

Spec == Init /\ [][Next]_<<sent, last, mixed>>
=============================================================================
