----------------------------- MODULE RtpStream -----------------------------
(***************************************************************************)
(* One RTP stream of a cluster: rtp_send() of the client cuts a NAL unit   *)
(* into fragments, the network loses, repeats and reorders them, and oRTP  *)
(* on the server side (rtp_session_rtp_parse, rtp_putq, rtp_getq) queues   *)
(* them and hands them to deal_with_client().  Sequence numbers and time   *)
(* stamps have a width.  The client may be restarted, which gives it a new *)
(* SSRC and starts its counters again.                                     *)
(***************************************************************************)
EXTENDS Integers, Sequences, FiniteSets, FiniteSetsExt, SequencesExt

CONSTANTS
    SEQ_MOD,         \* 2^16: sequence numbers
    TS_MOD,          \* 2^32, in units of VIDEO_TIME_STAMP_INC
    MaxRqSize,      \* jbp.max_packets
    SsrcThres,      \* ssrc_changed_thres
    SEND_LEN,       \* bytes of a full fragment
    Lengths,        \* lengths of the NAL units
    Starts,         \* how many fragments the first run has sent before
    Runs,           \* 1..R, the runs of the client
    MaxRepeats,     \* bound on the datagrams that the network repeats
    MaxSent,        \* bound on the fragments of a run
    Reorder         \* a datagram is not overtaken by Reorder later ones

ASSUME WidthAssumption ==
    /\ SEQ_MOD \in Nat /\ TS_MOD \in Nat
    /\ 2 * (Reorder + 1) <= SEQ_MOD /\ 2 * (Reorder + 1) <= TS_MOD
    /\ Reorder \in Nat \ {0} /\ Reorder <= SsrcThres
ASSUME SizeAssumption ==
    /\ MaxRqSize \in Nat \ {0} /\ SEND_LEN \in Nat \ {0}
    /\ Lengths \subseteq Nat \ {0}
ASSUME RunsAssumption ==
    /\ Runs \subseteq Nat \ {0} /\ 1 \in Runs /\ Starts \subseteq Nat
    /\ MaxSent \in Nat /\ MaxRepeats \in Nat /\ SsrcThres \in Nat

VARIABLES
    start,      \* fragments sent before the first one of the model
    run,        \* the run of the client
    sent,       \* sent[r]: fragments sent in run r
    remainlen,  \* bytes of the NAL unit that rtp_send() has not sent yet
    net,        \* datagrams in the network
    rq,         \* session->rtp.rq: the queued fragments
    ssrc,       \* session->rcv.ssrc, 0 while not set
    candidate,  \* inc_ssrc_candidate and
    same,       \*   inc_same_ssrc_count
    recvsync,   \* RTP_SESSION_RECV_SYNC
    delivered,  \* RTP_SESSION_FIRST_PACKET_DELIVERED
    rcv_last_ts,
    last,       \* last[r]: the last fragment of run r that was handed to
                \*   deal_with_client(), 0 before the first
    mixed,      \* history: fragments of two runs have met in the queue
    repeats     \* how many more datagrams the network may repeat

vars == <<start, run, sent, remainlen, net, rq, ssrc, candidate, same,
          recvsync, delivered, rcv_last_ts, last, mixed, repeats>>
session == <<rq, ssrc, candidate, same, recvsync, delivered, rcv_last_ts>>

\* A fragment: run r (which is also its SSRC), the n-th of the run
Fragment(r, n, len) ==
    LET count == IF r = 1 THEN start + n - 1 ELSE n - 1 IN
    [run |-> r, n |-> n, len |-> len,
     seq |-> count % SEQ_MOD, ts |-> count % TS_MOD]

\* Mutant of SeqGreater: plain comparison.
SeqGreaterPlain(a, b) == a > b

\* RTP_SEQ_IS_GREATER and the comparisons of rtp.h
SeqGreater(a, b) == (a - b) % SEQ_MOD < SEQ_MOD \div 2
TsNewer(a, b) == (a - b) % TS_MOD < TS_MOD \div 2
TsStrictlyNewer(a, b) == TsNewer(a, b) /\ a # b

Init ==
    /\ start \in Starts
    /\ run = 1
    /\ sent = [r \in Runs |-> 0]
    /\ remainlen = 0
    /\ net = {} /\ rq = <<>>
    /\ ssrc = 0 /\ candidate = 0 /\ same = 0
    /\ recvsync = TRUE /\ delivered = FALSE /\ rcv_last_ts = 0
    /\ last = [r \in Runs |-> 0] /\ mixed = FALSE
    /\ repeats = MaxRepeats

----------------------------------------------------------------------------
(* The client *)

\* rtp_send() is called with a NAL unit of len bytes
rtp_send(len) ==
    /\ remainlen = 0
    /\ remainlen' = len
    /\ UNCHANGED <<start, run, sent, net, last, mixed, repeats>>
    /\ UNCHANGED session

\* One turn of its loop.  The result of rtp_session_send_with_ts() is not
\* looked at; too old datagrams are lost by then.
SendFragment ==
    /\ remainlen > 0 /\ sent[run] < MaxSent
    /\ LET len == IF remainlen < SEND_LEN THEN remainlen ELSE SEND_LEN
           n == sent[run] + 1
       IN /\ net' = {d \in net : d.n > n - Reorder}
                        \cup {Fragment(run, n, len)}
          /\ remainlen' = remainlen - len
          /\ sent' = [sent EXCEPT ![run] = n]
    /\ UNCHANGED <<start, run, last, mixed, repeats>>
    /\ UNCHANGED session

\* The client ends and is started again: a new session, user_ts = 0, with an
\* SSRC of its own, as long as the environment variable SSRC does not give
\* every run the same one.  That takes longer than a poll of the server, which
\* is every 20 ms.
Restart ==
    /\ run + 1 \in Runs
    /\ recvsync => rq = <<>>
    /\ run' = run + 1
    /\ remainlen' = 0
    /\ net' = {}
    /\ UNCHANGED <<start, sent, last, mixed, repeats>>
    /\ UNCHANGED session

\* The network loses a datagram
Lose(d) ==
    /\ net' = net \ {d}
    /\ UNCHANGED <<start, run, sent, remainlen, last, mixed, repeats>>
    /\ UNCHANGED session

----------------------------------------------------------------------------
(* The session of the server *)

\* rtp_putq(): behind the last packet it is newer than; not if it is there
rtp_putq(q, p) ==
    LET stop == {i \in DOMAIN q : q[i].seq = p.seq \/ SeqGreater(p.seq, q[i].seq)}
        at == Max(stop \cup {0})
    IN IF at > 0 /\ q[IF at > 0 THEN at ELSE 1].seq = p.seq THEN q
       ELSE InsertAt(q, at + 1, p)

\* Mutant of queue_packet: nothing is thrown away.
queue_packet_unbounded(q, p) == rtp_putq(q, p)

\* queue_packet(): the oldest ones are thrown away when there are too many
queue_packet(q, p) ==
    LET all == rtp_putq(q, p)
        extra == IF Len(all) > MaxRqSize THEN Len(all) - MaxRqSize ELSE 0
    IN SubSeq(all, extra + 1, Len(all))

\* The packet is from the source the session is locked on, or the lock
\* changes: SsrcThres packets in a row came from another one
Locked(p) == ssrc \in {0, p.run}
SameCount(p) == IF candidate = p.run THEN same + 1 ELSE 0

\* Mutant of TooOld: late packets are taken.
NeverTooOld(p, ts) == FALSE

\* Packets behind the last one that was handed over come too late
TooOld(p, ts) == delivered /\ TsStrictlyNewer(ts, p.ts)

\* rtp_session_rtp_parse() of a packet of the locked source
Accept(p, ts) ==
    /\ rcv_last_ts' = ts
    /\ rq' = IF TooOld(p, ts) THEN rq ELSE queue_packet(rq, p)
    /\ UNCHANGED <<recvsync, delivered>>

ParseLocked(p) ==
    /\ Locked(p)
    /\ ssrc' = p.run
    /\ same' = IF ssrc = 0 THEN same ELSE 0
    /\ candidate' = candidate
    /\ Accept(p, rcv_last_ts)

ParseSsrcChange(p) ==
    /\ ~Locked(p)
    /\ candidate' = p.run
    /\ same' = SameCount(p)
    /\ IF same' >= SsrcThres
       THEN ssrc' = p.run /\ Accept(p, p.ts)
       ELSE UNCHANGED <<rq, ssrc, recvsync, delivered, rcv_last_ts>>

\* A datagram arrives; it may arrive again
rtp_session_rtp_parse(d, again) ==
    /\ again => repeats > 0
    /\ repeats' = IF again THEN repeats - 1 ELSE repeats
    /\ net' = IF again THEN net ELSE net \ {d}
    /\ ParseLocked(d) \/ ParseSsrcChange(d)
    /\ mixed' = (mixed \/ \E i, j \in DOMAIN rq' : rq'[i].run # rq'[j].run)
    /\ UNCHANGED <<start, run, sent, remainlen, last>>

\* Mutant of Due: the last packet is kept.
DueButLast(q, wanted) ==
    {k \in DOMAIN q :
        /\ k < Len(q)
        /\ \A i \in 1..k : TsNewer(wanted, q[i].ts)
        /\ \A i \in 2..k : q[i].ts # q[i - 1].ts}

\* rtp_getq(): the packets up to the wanted time stamp leave the queue, the
\* newest of them is returned; of two with one time stamp the first
Due(q, wanted) ==
    {k \in DOMAIN q :
        /\ \A i \in 1..k : TsNewer(wanted, q[i].ts)
        /\ \A i \in 2..k : q[i].ts # q[i - 1].ts}

\* rtp_session_recvm_with_ts(), whatever time stamp the jitter control makes
\* of the server's user_ts
rtp_session_recvm(wanted) ==
    /\ rq # <<>>
    /\ ssrc' = IF recvsync THEN Head(rq).run ELSE ssrc
    /\ recvsync' = FALSE
    /\ LET due == Due(rq, wanted)
           k == Max(due \cup {0})
       IN IF k = 0
          THEN UNCHANGED <<rq, delivered, rcv_last_ts, last>>
          ELSE /\ rq' = SubSeq(rq, k + 1, Len(rq))
               /\ delivered' = TRUE
               /\ rcv_last_ts' = rq[k].ts
               /\ last' = [last EXCEPT ![rq[k].run] = rq[k].n]
    /\ UNCHANGED <<start, run, sent, remainlen, net, candidate, same,
                   mixed, repeats>>

\* The time stamp of the server has reached the oldest queued packet
ReceiveDue ==
    /\ rq # <<>>
    /\ \E wanted \in 0..TS_MOD - 1 :
         TsNewer(wanted, Head(rq).ts) /\ rtp_session_recvm(wanted)

Next ==
    \/ \E len \in Lengths : rtp_send(len)
    \/ SendFragment
    \/ Restart
    \/ \E d \in net : Lose(d) \/ \E again \in BOOLEAN : rtp_session_rtp_parse(d, again)
    \/ \E wanted \in 0..TS_MOD - 1 : rtp_session_recvm(wanted)

\* The server polls its sessions for ever, and its user_ts grows with time
Spec == Init /\ [][Next]_vars /\ WF_vars(ReceiveDue)

----------------------------------------------------------------------------
Fragments == [run : Runs, n : 1..MaxSent, len : 1..SEND_LEN,
              seq : 0..SEQ_MOD - 1, ts : 0..TS_MOD - 1]

\* The variables have their types; no fragment is longer than SEND_LEN.
TypeOK ==
    /\ run \in Runs /\ sent \in [Runs -> 0..MaxSent]
    /\ remainlen \in Nat
    /\ net \subseteq Fragments
    /\ rq \in Seq(Fragments) /\ Len(rq) <= MaxRqSize
    /\ ssrc \in Runs \cup {0} /\ candidate \in Runs \cup {0} /\ same \in Nat
    /\ recvsync \in BOOLEAN /\ delivered \in BOOLEAN
    /\ rcv_last_ts \in 0..TS_MOD - 1
    /\ last \in [Runs -> 0..MaxSent] /\ mixed \in BOOLEAN /\ repeats \in 0..MaxRepeats

\* rtp_putq() keeps the fragments of a run in the order in which they were
\* sent, each once, although it compares 16-bit numbers that wrap around and
\* fragments overtake each other.  Only across a fragment of another run,
\* left in the queue when the client was restarted, may the order be wrong.
QueueSorted ==
    \A i, j \in DOMAIN rq :
        i < j /\ (\A k \in i..j : rq[k].run = rq[i].run) => rq[i].n < rq[j].n

\* Whatever the network does, the recorded fragments are those of an ordered,
\* lossy channel: deal_with_client() appends to its file what it is handed.
Channel == INSTANCE OrderedChannel
RecordedInOrder == Channel!Spec

\* What is queued is handed out or thrown away as the server's clock goes on.
QueueDrains == []<>(rq = <<>>)
=============================================================================
