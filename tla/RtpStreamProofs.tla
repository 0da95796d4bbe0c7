-------------------------- MODULE RtpStreamProofs --------------------------
(***************************************************************************)
(* Theorems about one RTP stream: for every width of the numbers, every    *)
(* queue, every length of a run and every number of restarts, the queue of *)
(* oRTP is sorted and what it hands over is an ordered channel.            *)
(***************************************************************************)
EXTENDS RtpStream, WellFoundedInduction, TLAPS

----------------------------------------------------------------------------
(* Numbers that wrap around *)

\* Whole turns do not change a number.
LEMMA ModShift ==
  ASSUME NEW M \in Nat \ {0}, NEW q \in Int, NEW r \in Int
  PROVE  (M * q + r) % M = r % M
  <1> DEFINE a == r \div M
             b == r % M
  <1>1. a \in Int /\ b \in 0..M - 1 /\ r = M * a + b
    OBVIOUS
  <1> HIDE DEF a, b
  <1>2. M * q \in Int /\ M * a \in Int /\ M * (q + a) = M * q + M * a
    BY <1>1
  <1>3. (M * (q + a) + b) % M = b
    BY <1>1
  <1>4. M * q + r = M * (q + a) + b
    BY <1>1, <1>2
  <1> QED
    BY <1>3, <1>4 DEF b

\* The difference of two wrapped numbers is that of the numbers.
LEMMA ModDifference ==
  ASSUME NEW M \in Nat \ {0}, NEW a \in Int, NEW b \in Int
  PROVE  ((a % M) - (b % M)) % M = (a - b) % M
  <1> DEFINE p == a \div M
             r == a % M
             q == b \div M
             s == b % M
  <1>1. p \in Int /\ r \in Int /\ a = M * p + r
    OBVIOUS
  <1>2. q \in Int /\ s \in Int /\ b = M * q + s
    OBVIOUS
  <1> HIDE DEF p, q, r, s
  <1>3. M * p \in Int /\ M * q \in Int /\ M * (p - q) = M * p - M * q
    BY <1>1, <1>2
  <1>4. a - b = M * (p - q) + (r - s)
    BY <1>1, <1>2, <1>3
  <1>5. p - q \in Int /\ r - s \in Int
    BY <1>1, <1>2
  <1>6. (M * (p - q) + (r - s)) % M = (r - s) % M
    BY <1>5, ModShift
  <1> QED
    BY <1>4, <1>6 DEF r, s

\* Two numbers that are less than half the range apart are compared rightly
\* when they have wrapped around.
LEMMA WindowOrder ==
  ASSUME NEW M \in Nat \ {0}, NEW a \in Int, NEW b \in Int,
         a - b < M \div 2, b - a <= M - (M \div 2), b - a < M
  PROVE  /\ ((a % M) - (b % M)) % M < M \div 2 <=> a >= b
         /\ (a % M) = (b % M) => a = b
  <1>1. ((a % M) - (b % M)) % M = (a - b) % M
    BY ModDifference
  <1>2. M \div 2 \in Nat /\ M \div 2 <= M /\ M \div 2 < M
    OBVIOUS
  <1>3. CASE a >= b
    <2>1. a - b \in 0..M - 1
      BY <1>2, <1>3
    <2>2. (a - b) % M = a - b
      BY <2>1
    <2>3. (a % M) = (b % M) => (a - b) % M = 0
      <3>1. (a % M) \in Int /\ (b % M) \in Int /\ 0 % M = 0
        OBVIOUS
      <3> QED
        BY <1>1, <3>1
    <2> QED
      BY <1>1, <1>3, <2>1, <2>2, <2>3
  <1>4. CASE a < b
    <2>1. a - b + M \in 0..M - 1 /\ a - b + M >= M \div 2 /\ a - b + M # 0
      BY <1>2, <1>4
    <2>2. (a - b) % M = a - b + M
      <3> DEFINE c == a - b + M
                 t == 0 - 1
      <3>1. c \in Int /\ t \in Int /\ M * t + c = a - b
        OBVIOUS
      <3>2. c % M = c
        BY <2>1
      <3> HIDE DEF c, t
      <3>3. (M * t + c) % M = c % M
        BY <3>1, ModShift
      <3> QED
        BY <3>1, <3>2, <3>3 DEF c
    <2>3. (a % M) = (b % M) => (a - b) % M = 0
      <3>1. (a % M) \in Int /\ (b % M) \in Int /\ 0 % M = 0
        OBVIOUS
      <3> QED
        BY <1>1, <3>1
    <2> QED
      BY <1>1, <1>4, <2>1, <2>2, <2>3
  <1> QED
    BY <1>3, <1>4

\* A time stamp that is behind by less than half the range is found too old.
LEMMA BehindIsOlder ==
  ASSUME NEW M \in Nat \ {0}, NEW a \in Int, NEW b \in Int,
         a - b < M \div 2, a > b
  PROVE  /\ ((a % M) - (b % M)) % M < M \div 2
         /\ (a % M) # (b % M)
  <1>1. ((a % M) - (b % M)) % M = (a - b) % M
    BY ModDifference
  <1>2. a - b \in 1..M - 1
    OBVIOUS
  <1>3. (a - b) % M = a - b
    BY <1>2
  <1>4. (a % M) = (b % M) => (a - b) % M = 0
    <2>1. (a % M) \in Int /\ (b % M) \in Int /\ 0 % M = 0
      OBVIOUS
    <2> QED
      BY <1>1, <2>1
  <1> QED
    BY <1>1, <1>2, <1>3, <1>4

----------------------------------------------------------------------------
(* Positions in a queue *)

\* A bounded set of numbers with 0 added has a greatest element, which is
\* what Max returns.
LEMMA LastPosition ==
  ASSUME NEW n \in Nat, NEW S \in SUBSET (1..n)
  PROVE  /\ Max(S \cup {0}) \in 0..n
         /\ Max(S \cup {0}) # 0 => Max(S \cup {0}) \in S
         /\ \A x \in S : x <= Max(S \cup {0})
  <1> DEFINE U == {u \in Nat : \A x \in S : x <= u}
             R == OpToRel(<, Nat)
             Z == S \cup {0}
  <1>1. IsWellFoundedOn(R, Nat)
    BY NatLessThanWellFounded
  <1>2. n \in U /\ U \subseteq Nat
    OBVIOUS
  <1>3. PICK u \in U : \A y \in U : ~(<<y, u>> \in R)
    BY <1>1, <1>2, WFMin
  <1>4. \A y \in U : ~(y < u)
    BY <1>3 DEF OpToRel
  <1>5. u \in Nat /\ \A x \in S : x <= u
    BY <1>3
  <1>6. u \in Z
    <2> SUFFICES ASSUME u \notin S, u # 0 PROVE FALSE
      OBVIOUS
    <2>1. u - 1 \in Nat /\ u - 1 < u
      BY <1>5
    <2>2. \A x \in S : x <= u - 1
      BY <1>5
    <2> QED
      BY <1>4, <2>1, <2>2
  <1>7. \A y \in Z : u >= y
    BY <1>5
  <1>8. Max(Z) \in Z /\ \A y \in Z : Max(Z) >= y
    BY <1>6, <1>7, Zenon DEF Max
  <1> DEFINE m == Max(Z)
  <1>9. m \in Z /\ \A y \in Z : m >= y
    BY <1>8
  <1> HIDE DEF m
  <1>10. m \in 0..n /\ (m # 0 => m \in S) /\ \A x \in S : x <= m
    BY <1>9
  <1> QED
    BY <1>10 DEF m

\* One sequence behind another.
LEMMA Joined ==
  ASSUME NEW a \in Seq(Fragments), NEW b \in Seq(Fragments)
  PROVE  /\ a \o b \in Seq(Fragments) /\ Len(a \o b) = Len(a) + Len(b)
         /\ \A i \in 1..Len(a) : (a \o b)[i] = a[i]
         /\ \A i \in Len(a) + 1..Len(a) + Len(b) :
                (a \o b)[i] = b[i - Len(a)]
  OBVIOUS

\* t is the queue q with p behind the first at elements
IsInsertion(t, q, at, p) ==
    /\ t \in Seq(Fragments) /\ Len(t) = Len(q) + 1
    /\ \A i \in 1..at : t[i] = q[i]
    /\ t[at + 1] = p
    /\ \A i \in at + 2..Len(q) + 1 : t[i] = q[i - 1]

\* InsertAt() inserts an element behind the first at ones.
LEMMA Inserted ==
  ASSUME NEW q \in Seq(Fragments), NEW p \in Fragments, NEW at \in 0..Len(q)
  PROVE  IsInsertion(InsertAt(q, at + 1, p), q, at, p)
  <1> DEFINE a == SubSeq(q, 1, at)
             b == SubSeq(q, at + 1, Len(q))
             t == InsertAt(q, at + 1, p)
  <1>1. a \in Seq(Fragments) /\ Len(a) = at /\ \A i \in 1..at : a[i] = q[i]
    OBVIOUS
  <1>2. b \in Seq(Fragments) /\ Len(b) = Len(q) - at
        /\ \A i \in 1..Len(q) - at : b[i] = q[i + at]
    OBVIOUS
  <1>3. InsertAt(q, at + 1, p) = (a \o <<p>>) \o b
    <2>1. (at + 1) - 1 = at
      OBVIOUS
    <2> QED
      BY <2>1, Zenon DEF InsertAt
  <1> HIDE DEF a, b
  <1> DEFINE c == a \o <<p>>
  <1>4. /\ c \in Seq(Fragments) /\ Len(c) = at + 1
        /\ \A i \in 1..at : c[i] = q[i]
        /\ c[at + 1] = p
    BY <1>1
  <1> HIDE DEF c
  <1>0. t = c \o b
    BY <1>3 DEF c
  <1> HIDE DEF t
  <1>5. /\ t \in Seq(Fragments) /\ Len(t) = Len(c) + Len(b)
        /\ \A i \in 1..Len(c) : t[i] = c[i]
        /\ \A i \in Len(c) + 1..Len(c) + Len(b) : t[i] = b[i - Len(c)]
    <2>1. c \in Seq(Fragments) /\ b \in Seq(Fragments)
      BY <1>2, <1>4
    <2>2. /\ c \o b \in Seq(Fragments) /\ Len(c \o b) = Len(c) + Len(b)
          /\ \A i \in 1..Len(c) : (c \o b)[i] = c[i]
          /\ \A i \in Len(c) + 1..Len(c) + Len(b) : (c \o b)[i] = b[i - Len(c)]
      BY <2>1, Joined
    <2> QED
      BY <1>0, <2>2, Zenon
  <1>7. Len(t) = Len(q) + 1
    BY <1>2, <1>4, <1>5
  <1>8. \A i \in 1..at : t[i] = q[i]
    BY <1>4, <1>5
  <1>9. t[at + 1] = p
    BY <1>4, <1>5
  <1>10. \A i \in at + 2..Len(q) + 1 : t[i] = q[i - 1]
    <2> TAKE i \in at + 2..Len(q) + 1
    <2>1. i \in Len(c) + 1..Len(c) + Len(b) /\ i - Len(c) \in 1..Len(q) - at
          /\ (i - Len(c)) + at = i - 1
      BY <1>2, <1>4
    <2> QED
      BY <1>2, <1>5, <2>1
  <1> QED
    BY <1>5, <1>7, <1>8, <1>9, <1>10, Zenon DEF IsInsertion, t

\* The first e elements leave a queue.
LEMMA Dropped ==
  ASSUME NEW q \in Seq(Fragments), NEW e \in 0..Len(q),
         NEW t, t = SubSeq(q, e + 1, Len(q))
  PROVE  /\ t \in Seq(Fragments) /\ Len(t) = Len(q) - e
         /\ \A i \in 1..Len(q) - e : t[i] = q[i + e]
  OBVIOUS

----------------------------------------------------------------------------
(* rtp_putq() and queue_packet() *)

\* rtp_putq() leaves the queue alone when it finds the number of the packet;
\* otherwise it inserts the packet behind the last one with an older number.
LEMMA PutqPlace ==
  ASSUME NEW q \in Seq(Fragments), NEW p \in Fragments
  PROVE  \/ rtp_putq(q, p) = q /\ Len(q) > 0
         \/ \E at \in 0..Len(q) :
              /\ IsInsertion(rtp_putq(q, p), q, at, p)
              /\ at > 0 => /\ SeqGreater(p.seq, q[at].seq)
                           /\ q[at].seq # p.seq
              /\ \A i \in at + 1..Len(q) : ~SeqGreater(p.seq, q[i].seq)
  <1> DEFINE stop == {i \in DOMAIN q : q[i].seq = p.seq
                                         \/ SeqGreater(p.seq, q[i].seq)}
             at == Max(stop \cup {0})
  <1>1. stop \in SUBSET (1..Len(q)) /\ Len(q) \in Nat
    OBVIOUS
  <1>2. \A i \in 1..Len(q) : i \in stop <=> q[i].seq = p.seq
                                         \/ SeqGreater(p.seq, q[i].seq)
    OBVIOUS
  <1>3. rtp_putq(q, p) =
          IF at > 0 /\ q[IF at > 0 THEN at ELSE 1].seq = p.seq THEN q
          ELSE InsertAt(q, at + 1, p)
    BY Zenon DEF rtp_putq
  <1> HIDE DEF stop
  <1>4. at \in 0..Len(q) /\ (at # 0 => at \in stop)
        /\ \A x \in stop : x <= at
    BY <1>1, LastPosition
  <1> HIDE DEF at
  <1>5. CASE at > 0 /\ q[at].seq = p.seq
    BY <1>3, <1>4, <1>5
  <1>6. CASE ~(at > 0 /\ q[at].seq = p.seq)
    <2>1. IsInsertion(rtp_putq(q, p), q, at, p)
      <3>1. rtp_putq(q, p) = InsertAt(q, at + 1, p)
        BY <1>3, <1>4, <1>6
      <3> QED
        BY <1>4, <3>1, Inserted, Zenon
    <2>2. at > 0 => SeqGreater(p.seq, q[at].seq) /\ q[at].seq # p.seq
      BY <1>1, <1>2, <1>4, <1>6
    <2>3. \A i \in at + 1..Len(q) : ~SeqGreater(p.seq, q[i].seq)
      BY <1>1, <1>2, <1>4
    <2> QED
      BY <1>4, <2>1, <2>2, <2>3
  <1> QED
    BY <1>5, <1>6

\* The queue that rtp_putq() leaves holds what was there and perhaps p; it
\* is not empty and at most one longer.
LEMMA PutqElements ==
  ASSUME NEW q \in Seq(Fragments), NEW p \in Fragments
  PROVE  LET t == rtp_putq(q, p)
         IN /\ t \in Seq(Fragments) /\ Len(t) >= Len(q)
            /\ Len(t) \in 1..Len(q) + 1
            /\ \A i \in 1..Len(t) : t[i] = p \/ \E j \in 1..Len(q) : t[i] = q[j]
  <1> DEFINE t == rtp_putq(q, p)
  <1>0. Len(q) \in Nat
    OBVIOUS
  <1>1. CASE t = q /\ Len(q) > 0
    BY <1>0, <1>1
  <1>2. ASSUME NEW at \in 0..Len(q), IsInsertion(t, q, at, p)
        PROVE  /\ t \in Seq(Fragments) /\ Len(t) >= Len(q)
               /\ Len(t) \in 1..Len(q) + 1
               /\ \A i \in 1..Len(t) :
                    t[i] = p \/ \E j \in 1..Len(q) : t[i] = q[j]
    <2> HIDE DEF t
    <2>1. /\ t \in Seq(Fragments) /\ Len(t) = Len(q) + 1
          /\ \A i \in 1..at : t[i] = q[i]
          /\ t[at + 1] = p
          /\ \A i \in at + 2..Len(q) + 1 : t[i] = q[i - 1]
      BY <1>2 DEF IsInsertion
    <2>2. ASSUME NEW i \in 1..Len(t)
          PROVE  t[i] = p \/ \E j \in 1..Len(q) : t[i] = q[j]
      <3>1. i \in 1..at \/ i = at + 1
            \/ (i \in at + 2..Len(q) + 1 /\ i - 1 \in 1..Len(q))
        BY <1>0, <2>1
      <3> QED
        BY <1>0, <2>1, <3>1
    <2> QED
      BY <1>0, <2>1, <2>2
  <1>3. \/ t = q /\ Len(q) > 0
        \/ \E at \in 0..Len(q) : IsInsertion(t, q, at, p)
    BY PutqPlace
  <1>4. CASE \E at \in 0..Len(q) : IsInsertion(t, q, at, p)
    BY <1>2, <1>4, Zenon
  <1> QED
    BY <1>1, <1>3, <1>4, Zenon

\* queue_packet() drops the first ones of what rtp_putq() leaves.
LEMMA QueueDrops ==
  ASSUME NEW q \in Seq(Fragments), NEW p \in Fragments, Len(q) <= MaxRqSize
  PROVE  LET t == queue_packet(q, p)
             all == rtp_putq(q, p)
         IN /\ t \in Seq(Fragments) /\ Len(t) \in 1..MaxRqSize
            /\ \E e \in 0..Len(all) :
                 /\ Len(t) = Len(all) - e
                 /\ \A i \in 1..Len(t) : t[i] = all[i + e]
  <1> DEFINE t == queue_packet(q, p)
             all == rtp_putq(q, p)
             e == IF Len(all) > MaxRqSize THEN Len(all) - MaxRqSize ELSE 0
  <1>1. all \in Seq(Fragments) /\ Len(all) \in Nat /\ Len(all) >= 1
    BY PutqElements
  <1>2. t = SubSeq(all, e + 1, Len(all))
    BY Zenon DEF queue_packet
  <1> HIDE DEF t, all
  <1>3. e \in 0..Len(all) /\ Len(all) - e \in 1..MaxRqSize
    BY <1>1, SizeAssumption
  <1> HIDE DEF e
  <1>4. /\ t \in Seq(Fragments) /\ Len(t) = Len(all) - e
        /\ \A i \in 1..Len(all) - e : t[i] = all[i + e]
    BY <1>1, <1>2, <1>3, Dropped
  <1>5. /\ t \in Seq(Fragments) /\ Len(t) \in 1..MaxRqSize
        /\ \E x \in 0..Len(all) :
             /\ Len(t) = Len(all) - x
             /\ \A i \in 1..Len(t) : t[i] = all[i + x]
    BY <1>3, <1>4
  <1> QED
    BY <1>5 DEF t, all

\* The queue that queue_packet() leaves holds what was there and perhaps p.
LEMMA QueueElements ==
  ASSUME NEW q \in Seq(Fragments), NEW p \in Fragments, Len(q) <= MaxRqSize
  PROVE  LET t == queue_packet(q, p)
         IN /\ t \in Seq(Fragments) /\ Len(t) \in 1..MaxRqSize
            /\ \A i \in 1..Len(t) : t[i] = p \/ \E j \in 1..Len(q) : t[i] = q[j]
  <1> DEFINE t == queue_packet(q, p)
             all == rtp_putq(q, p)
  <1>1. /\ all \in Seq(Fragments)
        /\ \A i \in 1..Len(all) : all[i] = p \/ \E j \in 1..Len(q) : all[i] = q[j]
    BY PutqElements, Zenon
  <1>2. /\ t \in Seq(Fragments) /\ Len(t) \in 1..MaxRqSize
        /\ \E e \in 0..Len(all) :
             /\ Len(t) = Len(all) - e
             /\ \A i \in 1..Len(t) : t[i] = all[i + e]
    BY QueueDrops
  <1> HIDE DEF t, all
  <1>3. \A i \in 1..Len(t) : t[i] = p \/ \E j \in 1..Len(q) : t[i] = q[j]
    <2> TAKE i \in 1..Len(t)
    <2>1. PICK e \in 0..Len(all) : /\ Len(t) = Len(all) - e
                                   /\ \A k \in 1..Len(t) : t[k] = all[k + e]
      BY <1>2
    <2>2. i + e \in 1..Len(all) /\ t[i] = all[i + e]
      BY <1>1, <2>1
    <2> QED
      BY <1>1, <2>2
  <1>4. /\ t \in Seq(Fragments) /\ Len(t) \in 1..MaxRqSize
        /\ \A i \in 1..Len(t) : t[i] = p \/ \E j \in 1..Len(q) : t[i] = q[j]
    BY <1>2, <1>3
  <1> QED
    BY <1>4 DEF t

----------------------------------------------------------------------------
(* The inductive invariant *)

\* The n-th fragment of run r has Count(s, r, n) fragments before it; its
\* sequence number and time stamp are that count, wrapped around.
Count(s, r, n) == IF r = 1 THEN s + n - 1 ELSE n - 1
Numbered(s, d) == /\ d.seq = Count(s, d.run, d.n) % SEQ_MOD
                  /\ d.ts = Count(s, d.run, d.n) % TS_MOD

TypeInv == TypeOK /\ start \in Starts

\* The network holds the last Reorder fragments of the present run.
NetInv ==
    \A d \in net : /\ d.run = run /\ d.n <= sent[run]
                   /\ sent[run] - d.n < Reorder /\ Numbered(start, d)

\* The queue holds fragments that were sent.
QueueInv ==
    \A i \in 1..Len(rq) :
        /\ Numbered(start, rq[i]) /\ rq[i].n <= sent[rq[i].run]
        /\ rq[i].run <= ssrc

\* The session is locked on the present run or on one before it, and nothing
\* of a later run was handed over.
SourceInv ==
    /\ ssrc <= run
    /\ \A r \in Runs : last[r] <= sent[r] /\ (r > ssrc => last[r] = 0)

\* While the session waits for its first packet, nothing was handed over and
\* the queue holds the present run.
SyncInv ==
    recvsync =>
        /\ ~delivered
        /\ Len(rq) = 0 => ssrc = 0
        /\ Len(rq) > 0 => ssrc = run
        /\ \A i \in 1..Len(rq) : rq[i].run = run

\* Until fragments of two runs meet, all in the queue are of one run.
MixInv == mixed \/ \A i, j \in 1..Len(rq) : rq[i].run = rq[j].run

StreamInv == TypeInv /\ NetInv /\ QueueInv /\ SourceInv /\ SyncInv /\ MixInv

\* No fragment of the present run stays in the queue until half the range of
\* the sequence numbers has been sent after it.
Fresh ==
    \A i \in 1..Len(rq) :
        rq[i].run = run => sent[run] - rq[i].n < SEQ_MOD \div 2

\* The session remembers the time stamp of what it handed over last, and
\* holds nothing older, until fragments of two runs meet.
OrderInv ==
    mixed \/ /\ \A i \in 1..Len(rq) : rq[i].n >= last[rq[i].run]
             /\ ssrc # 0 /\ last[ssrc] # 0 =>
                   /\ delivered /\ rcv_last_ts = Count(start, ssrc, last[ssrc]) % TS_MOD
                   /\ \A i \in 1..Len(rq) : rq[i].run = ssrc

\* The fields of a fragment are numbers.
LEMMA FragmentTypes ==
  ASSUME NEW d \in Fragments
  PROVE  /\ d.run \in Runs /\ d.run \in Nat \ {0}
         /\ d.n \in 1..MaxSent /\ d.n \in Nat \ {0}
         /\ d.seq \in 0..SEQ_MOD - 1 /\ d.ts \in 0..TS_MOD - 1
  <1>1. /\ d.run \in Runs /\ d.n \in 1..MaxSent
        /\ d.seq \in 0..SEQ_MOD - 1 /\ d.ts \in 0..TS_MOD - 1
    BY DEF Fragments
  <1>2. \A r \in Runs : r \in Nat \ {0}
    BY RunsAssumption
  <1>3. \A n \in 1..MaxSent : n \in Nat \ {0}
    BY RunsAssumption
  <1> QED
    BY <1>1, <1>2, <1>3, Zenon

\* What is queued are fragments.
LEMMA QueuedTypes ==
  ASSUME TypeInv, NEW i \in 1..Len(rq)
  PROVE  rq[i] \in Fragments
  BY DEF TypeInv, TypeOK

----------------------------------------------------------------------------
(* What the steps of the session do *)

\* What a datagram does to the session: it is not taken, it comes too late,
\* or it is queued.
LEMMA ParseEffect ==
  ASSUME TypeInv, NetInv, SourceInv, NEW d \in net, NEW again \in BOOLEAN,
         rtp_session_rtp_parse(d, again)
  PROVE  /\ d \in Fragments /\ d.run = run
         /\ UNCHANGED <<start, run, sent, remainlen, last, recvsync, delivered>>
         /\ net' \subseteq net /\ repeats' \in 0..MaxRepeats
         /\ candidate' \in Runs \cup {0} /\ same' \in Nat
         /\ mixed' \in BOOLEAN /\ (mixed => mixed')
         /\ \A i, j \in DOMAIN rq' : mixed' \/ rq'[i].run = rq'[j].run
         /\ \/ ssrc > 0 /\ ssrc < run /\ UNCHANGED <<rq, ssrc, rcv_last_ts>>
            \/ /\ ssrc' = run
               /\ rcv_last_ts' = IF ssrc \in {0, run} THEN rcv_last_ts ELSE d.ts
               /\ \/ TooOld(d, rcv_last_ts') /\ rq' = rq
                  \/ ~TooOld(d, rcv_last_ts') /\ rq' = queue_packet(rq, d)
  <1>1. d \in Fragments /\ d.run = run
    BY DEF TypeInv, TypeOK, NetInv
  <1>2. d.run \in Runs /\ run \in Nat \ {0} /\ ssrc \in Nat /\ ssrc <= run
        /\ candidate \in Runs \cup {0} /\ same \in Nat
        /\ repeats \in 0..MaxRepeats /\ MaxRepeats \in Nat /\ mixed \in BOOLEAN
    BY <1>1, RunsAssumption DEF TypeInv, TypeOK, SourceInv
  <1>3. /\ again => repeats > 0
        /\ repeats' = IF again THEN repeats - 1 ELSE repeats
        /\ net' = IF again THEN net ELSE net \ {d}
        /\ ParseLocked(d) \/ ParseSsrcChange(d)
        /\ mixed' = (mixed \/ \E i, j \in DOMAIN rq' : rq'[i].run # rq'[j].run)
        /\ UNCHANGED <<start, run, sent, remainlen, last>>
    BY Zenon DEF rtp_session_rtp_parse
  <1>4. net' \subseteq net /\ repeats' \in 0..MaxRepeats
    BY <1>2, <1>3
  <1>5. /\ mixed' \in BOOLEAN /\ (mixed => mixed')
        /\ \A i, j \in DOMAIN rq' : mixed' \/ rq'[i].run = rq'[j].run
    BY <1>2, <1>3, Zenon
  <1>6. CASE ParseLocked(d)
    <2>1. /\ candidate' \in Runs \cup {0} /\ same' \in Nat
          /\ UNCHANGED <<recvsync, delivered>>
      BY <1>2, <1>6 DEF ParseLocked, Accept
    <2>2. /\ ssrc' = run
          /\ rcv_last_ts' = IF ssrc \in {0, run} THEN rcv_last_ts ELSE d.ts
          /\ \/ TooOld(d, rcv_last_ts') /\ rq' = rq
             \/ ~TooOld(d, rcv_last_ts') /\ rq' = queue_packet(rq, d)
      BY <1>1, <1>6, Zenon DEF ParseLocked, Locked, Accept
    <2> QED
      BY <1>1, <1>3, <1>4, <1>5, <2>1, <2>2, Zenon
  <1>7. CASE ParseSsrcChange(d)
    <2>1. candidate' \in Runs \cup {0} /\ same' \in Nat
      BY <1>2, <1>7 DEF ParseSsrcChange, SameCount
    <2>2. UNCHANGED <<recvsync, delivered>>
      BY <1>7, Zenon DEF ParseSsrcChange, Accept
    <2>3. \/ ssrc > 0 /\ ssrc < run /\ UNCHANGED <<rq, ssrc, rcv_last_ts>>
          \/ /\ ssrc' = run
             /\ rcv_last_ts' = IF ssrc \in {0, run} THEN rcv_last_ts ELSE d.ts
             /\ \/ TooOld(d, rcv_last_ts') /\ rq' = rq
                \/ ~TooOld(d, rcv_last_ts') /\ rq' = queue_packet(rq, d)
      <3>1. ssrc \notin {0, run}
        BY <1>1, <1>7, Zenon DEF ParseSsrcChange, Locked
      <3>2. ssrc > 0 /\ ssrc < run
        BY <1>2, <3>1
      <3> QED
        BY <1>1, <1>7, <3>1, <3>2, Zenon DEF ParseSsrcChange, Accept
    <2> QED
      BY <1>1, <1>3, <1>4, <1>5, <2>1, <2>2, <2>3, Zenon
  <1> QED
    BY <1>3, <1>6, <1>7

\* After a datagram the queue holds what was there and perhaps the datagram.
LEMMA ParseElements ==
  ASSUME TypeInv, NetInv, SourceInv, NEW d \in net, NEW again \in BOOLEAN,
         rtp_session_rtp_parse(d, again)
  PROVE  /\ rq' \in Seq(Fragments) /\ Len(rq') \in 0..MaxRqSize
         /\ \A i \in 1..Len(rq') :
              rq'[i] = d \/ \E j \in 1..Len(rq) : rq'[i] = rq[j]
         /\ rq' # rq => ssrc' = run /\ Len(rq') > 0
  <1>1. rq \in Seq(Fragments) /\ Len(rq) <= MaxRqSize /\ Len(rq) \in 0..MaxRqSize
        /\ MaxRqSize \in Nat
    BY SizeAssumption DEF TypeInv, TypeOK
  <1>2. d \in Fragments /\ (rq' = rq \/ (rq' = queue_packet(rq, d) /\ ssrc' = run))
    BY ParseEffect, Zenon
  <1>3. CASE rq' = rq
    BY <1>1, <1>3, Zenon
  <1>4. CASE rq' = queue_packet(rq, d) /\ ssrc' = run
    <2>1. /\ rq' \in Seq(Fragments) /\ Len(rq') \in 1..MaxRqSize
          /\ \A i \in 1..Len(rq') :
               rq'[i] = d \/ \E j \in 1..Len(rq) : rq'[i] = rq[j]
      BY <1>1, <1>2, <1>4, QueueElements, Zenon
    <2>2. Len(rq') \in 0..MaxRqSize /\ Len(rq') > 0
      BY <1>1, <2>1
    <2> QED
      BY <1>4, <2>1, <2>2, Zenon
  <1> QED
    BY <1>2, <1>3, <1>4

\* What recvm does: nothing is due, or the packets up to the k-th leave the
\* queue and the k-th is handed over.
LEMMA ReceiveEffect ==
  ASSUME TypeInv, NEW wanted, rtp_session_recvm(wanted)
  PROVE  /\ UNCHANGED <<start, run, sent, remainlen, net, candidate, same,
                        mixed, repeats>>
         /\ Len(rq) > 0 /\ recvsync' = FALSE
         /\ ssrc' = IF recvsync THEN rq[1].run ELSE ssrc
         /\ \/ UNCHANGED <<rq, delivered, rcv_last_ts, last>>
            \/ \E k \in 1..Len(rq) :
                 /\ rq' \in Seq(Fragments) /\ Len(rq') = Len(rq) - k
                 /\ \A i \in 1..Len(rq') : i + k \in 1..Len(rq) /\ rq'[i] = rq[i + k]
                 /\ delivered' = TRUE
                 /\ rcv_last_ts' = rq[k].ts
                 /\ last' = [last EXCEPT ![rq[k].run] = rq[k].n]
  <1> DEFINE due == Due(rq, wanted)
             k == Max(due \cup {0})
  <1>1. rq \in Seq(Fragments) /\ Len(rq) \in Nat
    BY DEF TypeInv, TypeOK
  <1>2. /\ rq # <<>>
        /\ ssrc' = IF recvsync THEN Head(rq).run ELSE ssrc
        /\ recvsync' = FALSE
        /\ UNCHANGED <<start, run, sent, remainlen, net, candidate, same,
                       mixed, repeats>>
    BY Zenon DEF rtp_session_recvm
  <1>3. IF k = 0
        THEN UNCHANGED <<rq, delivered, rcv_last_ts, last>>
        ELSE /\ rq' = SubSeq(rq, k + 1, Len(rq))
             /\ delivered' = TRUE
             /\ rcv_last_ts' = rq[k].ts
             /\ last' = [last EXCEPT ![rq[k].run] = rq[k].n]
    BY Zenon DEF rtp_session_recvm
  <1>4. due \in SUBSET (1..Len(rq))
    BY <1>1 DEF Due
  <1> HIDE DEF due
  <1>5. k \in 0..Len(rq)
    BY <1>1, <1>4, LastPosition
  <1> HIDE DEF k
  <1>6. Len(rq) > 0 /\ Head(rq) = rq[1]
    BY <1>1, <1>2
  <1>7. CASE k = 0
    BY <1>2, <1>3, <1>6, <1>7, Zenon
  <1>8. CASE k # 0
    <2>1. k \in 1..Len(rq) /\ rq' = SubSeq(rq, k + 1, Len(rq))
      BY <1>1, <1>3, <1>5, <1>8
    <2>2. /\ rq' \in Seq(Fragments) /\ Len(rq') = Len(rq) - k
          /\ \A i \in 1..Len(rq) - k : rq'[i] = rq[i + k]
      BY <1>1, <1>5, <2>1, Dropped
    <2>3. \A i \in 1..Len(rq') : i + k \in 1..Len(rq) /\ rq'[i] = rq[i + k]
      BY <1>1, <2>1, <2>2
    <2> QED
      BY <1>2, <1>3, <1>6, <1>8, <2>1, <2>2, <2>3, Zenon
  <1> QED
    BY <1>7, <1>8

----------------------------------------------------------------------------
(* The invariant holds in every state *)

\* A wrapped number is in its range.
LEMMA ModRange ==
  ASSUME NEW M \in Nat \ {0}, NEW a \in Int
  PROVE  (a % M) \in 0..M - 1
  OBVIOUS

\* The invariant holds at the start.
LEMMA StreamInit == Init => StreamInv
  <1> SUFFICES ASSUME Init PROVE StreamInv
    OBVIOUS
  <1>1. TypeInv
    <2>1. TS_MOD \in Nat /\ TS_MOD > 0
      BY WidthAssumption
    <2>2. rcv_last_ts \in 0..TS_MOD - 1 /\ rq \in Seq(Fragments) /\ Len(rq) = 0
      BY <2>1 DEF Init
    <2>3. 0 \in 0..MaxSent /\ MaxRepeats \in 0..MaxRepeats /\ 0 <= MaxRqSize
      BY SizeAssumption, RunsAssumption
    <2>4. sent \in [Runs -> 0..MaxSent] /\ last \in [Runs -> 0..MaxSent]
      BY <2>3 DEF Init
    <2>5. run \in Runs /\ net \subseteq Fragments /\ remainlen \in Nat
          /\ ssrc \in Runs \cup {0} /\ candidate \in Runs \cup {0} /\ same \in Nat
      BY RunsAssumption DEF Init
    <2> QED
      BY <2>2, <2>3, <2>4, <2>5 DEF Init, TypeInv, TypeOK
  <1>2. NetInv /\ QueueInv /\ SyncInv /\ MixInv
    BY DEF Init, NetInv, QueueInv, SyncInv, MixInv
  <1>3. SourceInv
    BY RunsAssumption DEF Init, SourceInv
  <1> QED
    BY <1>1, <1>2, <1>3 DEF StreamInv

\* A call of rtp_send() and its end keep the invariant.
LEMMA StreamSend ==
  ASSUME StreamInv, NEW len \in Lengths, rtp_send(len)
  PROVE  StreamInv'
  <1>1. UNCHANGED <<start, run, sent, net, last, mixed, repeats, rq, ssrc,
                    candidate, same, recvsync, delivered, rcv_last_ts>>
        /\ remainlen' = len
    BY DEF rtp_send, session
  <1>2. TypeInv'
    BY <1>1, SizeAssumption DEF StreamInv, TypeInv, TypeOK
  <1>3. NetInv' /\ QueueInv'
    BY <1>1 DEF StreamInv, NetInv, QueueInv
  <1>4. SourceInv' /\ SyncInv' /\ MixInv'
    BY <1>1 DEF StreamInv, SourceInv, SyncInv, MixInv
  <1> QED
    BY <1>2, <1>3, <1>4 DEF StreamInv

\* So does the loss of a datagram.
LEMMA StreamLose ==
  ASSUME StreamInv, NEW d \in net, Lose(d)
  PROVE  StreamInv'
  <1>1. UNCHANGED <<start, run, sent, remainlen, last, mixed, repeats, rq, ssrc,
                    candidate, same, recvsync, delivered, rcv_last_ts>>
        /\ net' \subseteq net
    BY DEF Lose, session
  <1>2. TypeInv'
    BY <1>1 DEF StreamInv, TypeInv, TypeOK
  <1>3. NetInv' /\ QueueInv'
    BY <1>1 DEF StreamInv, NetInv, QueueInv
  <1>4. SourceInv' /\ SyncInv' /\ MixInv'
    BY <1>1 DEF StreamInv, SourceInv, SyncInv, MixInv
  <1> QED
    BY <1>2, <1>3, <1>4 DEF StreamInv

\* So does a restart of the client.
LEMMA StreamRestart ==
  ASSUME StreamInv, Restart
  PROVE  StreamInv'
  <1>1. UNCHANGED <<start, sent, last, mixed, repeats, rq, ssrc,
                    candidate, same, recvsync, delivered, rcv_last_ts>>
        /\ net' = {} /\ remainlen' = 0 /\ run' = run + 1 /\ run + 1 \in Runs
        /\ (recvsync => rq = <<>>)
    BY DEF Restart, session
  <1>2. TypeInv'
    BY <1>1 DEF StreamInv, TypeInv, TypeOK
  <1>3. NetInv' /\ QueueInv'
    BY <1>1 DEF StreamInv, NetInv, QueueInv
  <1>4. SourceInv'
    <2>1. ssrc \in Int /\ run \in Int
      BY RunsAssumption DEF StreamInv, TypeInv, TypeOK
    <2> QED
      BY <1>1, <2>1 DEF StreamInv, SourceInv
  <1>5. MixInv'
    BY <1>1 DEF StreamInv, MixInv
  <1>6. SyncInv'
    <2>1. rq = <<>> => Len(rq) = 0
      OBVIOUS
    <2> QED
      BY <1>1, <2>1 DEF StreamInv, SyncInv
  <1> QED
    BY <1>2, <1>3, <1>4, <1>5, <1>6 DEF StreamInv

\* So does a fragment that is sent: it is numbered, and what the network
\* still holds was not overtaken by too many.
LEMMA StreamFragment ==
  ASSUME StreamInv, SendFragment
  PROVE  StreamInv'
  <1> DEFINE len == IF remainlen < SEND_LEN THEN remainlen ELSE SEND_LEN
             n == sent[run] + 1
             f == Fragment(run, n, len)
  <1>1. /\ remainlen > 0 /\ sent[run] < MaxSent
        /\ net' = {d \in net : d.n > n - Reorder} \cup {f}
        /\ remainlen' = remainlen - len
        /\ sent' = [sent EXCEPT ![run] = n]
        /\ UNCHANGED <<start, run, last, mixed, repeats, rq, ssrc, candidate,
                       same, recvsync, delivered, rcv_last_ts>>
    BY Zenon DEF SendFragment, session
  <1>2. /\ run \in Runs /\ sent \in [Runs -> 0..MaxSent] /\ MaxSent \in Nat
        /\ remainlen \in Nat /\ net \subseteq Fragments /\ start \in Nat
        /\ Reorder \in Nat \ {0} /\ SEND_LEN \in Nat \ {0}
    BY RunsAssumption, WidthAssumption, SizeAssumption DEF StreamInv, TypeInv, TypeOK
  <1>3. len \in 1..SEND_LEN /\ remainlen - len \in Nat
    BY <1>1, <1>2
  <1>4. n \in 1..MaxSent /\ n \in Nat /\ n = sent[run] + 1
    BY <1>1, <1>2
  <1> DEFINE c == Count(start, run, n)
  <1>5. c \in Int
    BY <1>2, <1>4 DEF Count
  <1>6. f = [run |-> run, n |-> n, len |-> len,
             seq |-> c % SEQ_MOD, ts |-> c % TS_MOD]
    BY DEF Fragment, Count
  <1> HIDE DEF len, n, c, f
  <1>7. c % SEQ_MOD \in 0..SEQ_MOD - 1 /\ c % TS_MOD \in 0..TS_MOD - 1
    <2>1. SEQ_MOD \in Nat \ {0} /\ TS_MOD \in Nat \ {0}
      BY WidthAssumption
    <2> QED
      BY <1>5, <2>1, ModRange
  <1>8. f \in Fragments /\ f.run = run /\ f.n = n /\ Numbered(start, f)
    <2>1. f \in Fragments
      BY <1>2, <1>3, <1>4, <1>6, <1>7 DEF Fragments
    <2>2. /\ f.run = run /\ f.n = n
          /\ f.seq = c % SEQ_MOD /\ f.ts = c % TS_MOD
      BY <1>6
    <2> QED
      BY <2>1, <2>2 DEF Numbered, c
  <1>9. /\ sent' \in [Runs -> 0..MaxSent] /\ sent'[run] = n
        /\ \A r \in Runs : sent[r] <= sent'[r] /\ sent[r] \in Nat
    BY <1>1, <1>2, <1>4
  <1>10. TypeInv'
    <2>1. net' \subseteq Fragments
      BY <1>1, <1>2, <1>8
    <2> QED
      BY <1>1, <1>3, <1>9, <2>1 DEF StreamInv, TypeInv, TypeOK
  <1>11. NetInv'
    <2> SUFFICES ASSUME NEW d \in net'
                 PROVE  /\ d.run = run' /\ d.n <= sent'[run']
                        /\ sent'[run'] - d.n < Reorder /\ Numbered(start, d)
      BY <1>1 DEF NetInv
    <2>2. CASE d = f
      BY <1>1, <1>2, <1>4, <1>8, <1>9, <2>2
    <2>3. CASE d \in net /\ d.n > n - Reorder
      <3>1. d.n \in Nat
        BY <1>2, <2>3 DEF Fragments
      <3>2. d.run = run /\ d.n <= sent[run] /\ Numbered(start, d)
        BY <2>3 DEF StreamInv, NetInv
      <3>3. d.n <= n /\ n - d.n < Reorder
        BY <1>2, <1>4, <2>3, <3>1, <3>2
      <3> QED
        BY <1>1, <1>9, <3>2, <3>3
    <2> QED
      BY <1>1, <2>2, <2>3
  <1>12. QueueInv'
    <2> SUFFICES ASSUME NEW i \in 1..Len(rq)
                 PROVE  /\ Numbered(start, rq[i]) /\ rq[i].n <= sent'[rq[i].run]
                        /\ rq[i].run <= ssrc
      BY <1>1 DEF QueueInv
    <2>1. Numbered(start, rq[i]) /\ rq[i].n <= sent[rq[i].run] /\ rq[i].run <= ssrc
      BY DEF StreamInv, QueueInv
    <2>2. rq[i].run \in Runs /\ rq[i].n \in Nat
      BY FragmentTypes, QueuedTypes DEF StreamInv
    <2>4. rq[i].n <= sent'[rq[i].run]
      BY <1>9, <2>1, <2>2
    <2> QED
      BY <2>1, <2>4
  <1>13. SourceInv'
    <2> SUFFICES ASSUME NEW r \in Runs
                 PROVE  last[r] <= sent'[r]
      BY <1>1 DEF StreamInv, SourceInv
    <2>1. last[r] \in Nat /\ last[r] <= sent[r]
      BY <1>2 DEF StreamInv, SourceInv, TypeInv, TypeOK
    <2>2. sent'[r] \in Nat
      BY <1>2, <1>9
    <2> QED
      BY <1>9, <2>1, <2>2
  <1>14. SyncInv' /\ MixInv'
    BY <1>1 DEF StreamInv, SyncInv, MixInv
  <1> QED
    BY <1>10, <1>11, <1>12, <1>13, <1>14 DEF StreamInv

\* So does a datagram that arrives.
LEMMA StreamParse ==
  ASSUME StreamInv, NEW d \in net, NEW again \in BOOLEAN,
         rtp_session_rtp_parse(d, again)
  PROVE  StreamInv'
  <1>0. TypeInv /\ NetInv /\ QueueInv /\ SourceInv /\ SyncInv /\ MixInv
    BY DEF StreamInv
  <1>1. /\ d \in Fragments /\ d.run = run
        /\ UNCHANGED <<start, run, sent, remainlen, last, recvsync, delivered>>
        /\ net' \subseteq net /\ repeats' \in 0..MaxRepeats
        /\ candidate' \in Runs \cup {0} /\ same' \in Nat
        /\ mixed' \in BOOLEAN /\ (mixed => mixed')
        /\ \A i, j \in DOMAIN rq' : mixed' \/ rq'[i].run = rq'[j].run
    BY <1>0, ParseEffect, Zenon
  <1>2. \/ ssrc > 0 /\ ssrc < run /\ UNCHANGED <<rq, ssrc, rcv_last_ts>>
        \/ /\ ssrc' = run
           /\ rcv_last_ts' = IF ssrc \in {0, run} THEN rcv_last_ts ELSE d.ts
           /\ \/ TooOld(d, rcv_last_ts') /\ rq' = rq
              \/ ~TooOld(d, rcv_last_ts') /\ rq' = queue_packet(rq, d)
    BY <1>0, ParseEffect, Zenon
  <1>3. /\ rq' \in Seq(Fragments) /\ Len(rq') \in 0..MaxRqSize
        /\ \A i \in 1..Len(rq') :
             rq'[i] = d \/ \E j \in 1..Len(rq) : rq'[i] = rq[j]
        /\ rq' # rq => ssrc' = run /\ Len(rq') > 0
    BY <1>0, ParseElements, Zenon
  <1>4. /\ run \in Runs /\ run \in Nat \ {0} /\ ssrc \in Runs \cup {0}
        /\ ssrc \in Nat /\ ssrc <= run /\ sent \in [Runs -> 0..MaxSent]
        /\ rcv_last_ts \in 0..TS_MOD - 1 /\ MaxRqSize \in Nat
    BY <1>0, RunsAssumption, SizeAssumption DEF TypeInv, TypeOK, SourceInv
  <1>5. ssrc' \in Runs \cup {0} /\ ssrc' \in Nat /\ ssrc <= ssrc' /\ ssrc' <= run
    BY <1>2, <1>4
  <1>6. rcv_last_ts' \in 0..TS_MOD - 1
    BY <1>1, <1>2, <1>4, FragmentTypes
  <1>7. TypeInv'
    <2>1. Len(rq') <= MaxRqSize
      BY <1>3, <1>4
    <2> QED
      BY <1>0, <1>1, <1>3, <1>5, <1>6, <2>1 DEF TypeInv, TypeOK
  <1>8. NetInv'
    <2> SUFFICES ASSUME NEW e \in net'
                 PROVE  /\ e.run = run /\ e.n <= sent[run]
                        /\ sent[run] - e.n < Reorder /\ Numbered(start, e)
      BY <1>1 DEF NetInv
    <2> QED
      BY <1>0, <1>1 DEF NetInv
  <1>9. QueueInv'
    <2> SUFFICES ASSUME NEW i \in 1..Len(rq')
                 PROVE  /\ Numbered(start, rq'[i]) /\ rq'[i].n <= sent[rq'[i].run]
                        /\ rq'[i].run <= ssrc'
      BY <1>1 DEF QueueInv
    <2>2. CASE rq' # rq /\ rq'[i] = d
      BY <1>0, <1>1, <1>3, <1>4, <2>2 DEF NetInv
    <2>3. ASSUME NEW j \in 1..Len(rq), rq'[i] = rq[j]
          PROVE  /\ Numbered(start, rq'[i]) /\ rq'[i].n <= sent[rq'[i].run]
                 /\ rq'[i].run <= ssrc'
      <3>1. Numbered(start, rq[j]) /\ rq[j].n <= sent[rq[j].run] /\ rq[j].run <= ssrc
        BY <1>0 DEF QueueInv
      <3>2. rq[j].run \in Nat
        BY <1>0, FragmentTypes, QueuedTypes
      <3> QED
        BY <1>4, <1>5, <2>3, <3>1, <3>2
    <2>4. CASE rq' = rq
      BY <2>3, <2>4
    <2> QED
      BY <1>3, <2>2, <2>3, <2>4
  <1>10. SourceInv'
    <2> SUFFICES ASSUME NEW r \in Runs
                 PROVE  last[r] <= sent[r] /\ (r > ssrc' => last[r] = 0)
      BY <1>1, <1>5 DEF SourceInv
    <2>1. r \in Nat /\ (r > ssrc' => r > ssrc)
      BY <1>4, <1>5, RunsAssumption
    <2> QED
      BY <1>0, <2>1 DEF SourceInv
  <1>11. SyncInv'
    <2> SUFFICES ASSUME recvsync
                 PROVE  /\ ~delivered
                        /\ Len(rq') = 0 => ssrc' = 0
                        /\ Len(rq') > 0 => ssrc' = run
                        /\ \A i \in 1..Len(rq') : rq'[i].run = run
      BY <1>1 DEF SyncInv
    <2>1. /\ ~delivered
          /\ Len(rq) = 0 => ssrc = 0
          /\ Len(rq) > 0 => ssrc = run
          /\ \A i \in 1..Len(rq) : rq[i].run = run
      BY <1>0 DEF SyncInv
    <2>2. Len(rq) \in Nat
      BY <1>0 DEF TypeInv, TypeOK
    <2>3. ssrc \in {0, run}
      BY <2>1, <2>2
    <2>4. ~TooOld(d, rcv_last_ts')
      BY <2>1 DEF TooOld
    <2>5. ssrc' = run /\ rq' = queue_packet(rq, d)
      BY <1>2, <1>4, <2>3, <2>4
    <2>6. Len(rq') \in 1..MaxRqSize
      <3>1. rq \in Seq(Fragments) /\ Len(rq) <= MaxRqSize
        BY <1>0 DEF TypeInv, TypeOK
      <3> QED
        BY <1>1, <2>5, <3>1, QueueElements
    <2>7. \A i \in 1..Len(rq') : rq'[i].run = run
      BY <1>1, <1>3, <2>1
    <2> QED
      BY <1>4, <2>1, <2>5, <2>6, <2>7
  <1>12. MixInv'
    BY <1>1, <1>3 DEF MixInv
  <1> QED
    BY <1>7, <1>8, <1>9, <1>10, <1>11, <1>12 DEF StreamInv

\* So does a poll of the server.
LEMMA StreamReceive ==
  ASSUME StreamInv, NEW wanted, rtp_session_recvm(wanted)
  PROVE  StreamInv'
  <1>0. TypeInv /\ NetInv /\ QueueInv /\ SourceInv /\ SyncInv /\ MixInv
    BY DEF StreamInv
  <1>1. /\ UNCHANGED <<start, run, sent, remainlen, net, candidate, same,
                       mixed, repeats>>
        /\ Len(rq) > 0 /\ recvsync' = FALSE
        /\ ssrc' = IF recvsync THEN rq[1].run ELSE ssrc
    BY <1>0, ReceiveEffect, Zenon
  <1>2. \/ UNCHANGED <<rq, delivered, rcv_last_ts, last>>
        \/ \E k \in 1..Len(rq) :
             /\ rq' \in Seq(Fragments) /\ Len(rq') = Len(rq) - k
             /\ \A i \in 1..Len(rq') : i + k \in 1..Len(rq) /\ rq'[i] = rq[i + k]
             /\ delivered' = TRUE
             /\ rcv_last_ts' = rq[k].ts
             /\ last' = [last EXCEPT ![rq[k].run] = rq[k].n]
    BY <1>0, ReceiveEffect, Zenon
  <1>3. ssrc' = ssrc
    <2>1. 1 \in 1..Len(rq)
      BY <1>0, <1>1 DEF TypeInv, TypeOK
    <2> QED
      BY <1>0, <1>1, <2>1 DEF SyncInv
  <1>4. SyncInv'
    BY <1>1 DEF SyncInv
  <1>5. NetInv'
    BY <1>0, <1>1 DEF NetInv
  <1>6. CASE UNCHANGED <<rq, delivered, rcv_last_ts, last>>
    <2>1. TypeInv'
      BY <1>0, <1>1, <1>3, <1>6 DEF TypeInv, TypeOK
    <2>2. QueueInv'
      BY <1>0, <1>1, <1>3, <1>6 DEF QueueInv
    <2>3. SourceInv' /\ MixInv'
      BY <1>0, <1>1, <1>3, <1>6 DEF SourceInv, MixInv
    <2> QED
      BY <1>4, <1>5, <2>1, <2>2, <2>3 DEF StreamInv
  <1>7. ASSUME NEW k \in 1..Len(rq),
               rq' \in Seq(Fragments), Len(rq') = Len(rq) - k,
               \A i \in 1..Len(rq') : i + k \in 1..Len(rq) /\ rq'[i] = rq[i + k],
               delivered' = TRUE, rcv_last_ts' = rq[k].ts,
               last' = [last EXCEPT ![rq[k].run] = rq[k].n]
        PROVE  StreamInv'
    <2>1. /\ Len(rq) \in Nat /\ Len(rq) <= MaxRqSize /\ MaxRqSize \in Nat
          /\ last \in [Runs -> 0..MaxSent]
      BY <1>0, SizeAssumption DEF TypeInv, TypeOK
    <2>2. /\ rq[k].run \in Runs /\ rq[k].run \in Nat /\ rq[k].n \in 1..MaxSent
          /\ rq[k].ts \in 0..TS_MOD - 1 /\ rq[k].n \in Nat
      BY <1>0, FragmentTypes, QueuedTypes
    <2>3. TypeInv'
      <3>1. Len(rq') <= MaxRqSize
        BY <1>7, <2>1
      <3>2. last' \in [Runs -> 0..MaxSent]
        BY <1>7, <2>1, <2>2
      <3>3. recvsync' \in BOOLEAN /\ delivered' \in BOOLEAN
        BY <1>1, <1>7
      <3> QED
        BY <1>0, <1>1, <1>3, <1>7, <2>2, <3>1, <3>2, <3>3 DEF TypeInv, TypeOK
    <2>4. QueueInv'
      <3> SUFFICES ASSUME NEW i \in 1..Len(rq')
                   PROVE  /\ Numbered(start, rq'[i]) /\ rq'[i].n <= sent[rq'[i].run]
                          /\ rq'[i].run <= ssrc
        BY <1>1, <1>3 DEF QueueInv
      <3> QED
        BY <1>0, <1>7 DEF QueueInv
    <2>5. SourceInv'
      <3> SUFFICES ASSUME NEW r \in Runs
                   PROVE  last'[r] <= sent[r] /\ (r > ssrc => last'[r] = 0)
        BY <1>0, <1>1, <1>3 DEF SourceInv
      <3>1. last[r] <= sent[r] /\ (r > ssrc => last[r] = 0)
        BY <1>0 DEF SourceInv
      <3>2. rq[k].n <= sent[rq[k].run] /\ rq[k].run <= ssrc
        BY <1>0 DEF QueueInv
      <3>3. ssrc \in Nat /\ r \in Nat
        BY <1>0, RunsAssumption DEF TypeInv, TypeOK
      <3>4. last'[r] = IF r = rq[k].run THEN rq[k].n ELSE last[r]
        BY <1>7, <2>1
      <3> QED
        BY <2>2, <3>1, <3>2, <3>3, <3>4
    <2>6. MixInv'
      BY <1>0, <1>1, <1>7 DEF MixInv
    <2> QED
      BY <1>4, <1>5, <2>3, <2>4, <2>5, <2>6 DEF StreamInv
  <1>8. CASE \E k \in 1..Len(rq) :
             /\ rq' \in Seq(Fragments) /\ Len(rq') = Len(rq) - k
             /\ \A i \in 1..Len(rq') : i + k \in 1..Len(rq) /\ rq'[i] = rq[i + k]
             /\ delivered' = TRUE
             /\ rcv_last_ts' = rq[k].ts
             /\ last' = [last EXCEPT ![rq[k].run] = rq[k].n]
    BY <1>7, <1>8, Zenon
  <1> QED
    BY <1>2, <1>6, <1>8

\* Every step keeps the invariant.
LEMMA StreamStep == StreamInv /\ [Next]_vars => StreamInv'
  <1> SUFFICES ASSUME StreamInv, [Next]_vars PROVE StreamInv'
    OBVIOUS
  <1>1. CASE UNCHANGED vars
    <2>1. UNCHANGED <<start, run, sent, remainlen, net, rq, ssrc, candidate,
                      same, recvsync, delivered, rcv_last_ts, last, mixed,
                      repeats>>
      BY <1>1 DEF vars
    <2>2. TypeInv' /\ SourceInv' /\ SyncInv' /\ MixInv'
      BY <2>1 DEF StreamInv, TypeInv, TypeOK, SourceInv, SyncInv, MixInv
    <2>3. NetInv' /\ QueueInv'
      BY <2>1 DEF StreamInv, NetInv, QueueInv
    <2> QED
      BY <2>2, <2>3 DEF StreamInv
  <1>2. CASE Next
    BY <1>2, StreamSend, StreamFragment, StreamRestart, StreamLose, StreamParse,
       StreamReceive DEF Next
  <1> QED
    BY <1>1, <1>2

\* The numbers, the network and the session of every reachable state fit
\* together: fragments are numbered modulo the widths, the network holds the
\* last ones of the present run, and the session follows one run at a time.
THEOREM StreamInvariant == Spec => []StreamInv
  BY StreamInit, StreamStep, PTL DEF Spec

\* The variables have their types, the queue has at most MaxRqSize packets
\* and no fragment is longer than SEND_LEN.
THEOREM StreamTypeCorrect == Spec => []TypeOK
  <1>1. StreamInv => TypeOK
    BY DEF StreamInv, TypeInv
  <1> QED
    BY <1>1, StreamInvariant, PTL

----------------------------------------------------------------------------
(* The queue is sorted *)

Sorted(q) ==
    \A i, j \in 1..Len(q) :
        i < j /\ (\A k \in i..j : q[k].run = q[i].run) => q[i].n < q[j].n

\* rtp_putq() compares a datagram rightly with every queued fragment of its
\* run.
LEMMA SeqOrder ==
  ASSUME StreamInv, Fresh, NEW d \in net, NEW i \in 1..Len(rq), rq[i].run = run
  PROVE  /\ SeqGreater(d.seq, rq[i].seq) <=> d.n >= rq[i].n
         /\ d.seq = rq[i].seq => d.n = rq[i].n
  <1> DEFINE a == Count(start, run, d.n)
             b == Count(start, run, rq[i].n)
             M == SEQ_MOD
  <1>1. /\ d.run = run /\ d.n <= sent[run] /\ sent[run] - d.n < Reorder
        /\ Numbered(start, d)
    BY DEF StreamInv, NetInv
  <1>2. Numbered(start, rq[i]) /\ rq[i].n <= sent[run]
    BY DEF StreamInv, QueueInv
  <1>3. sent[run] - rq[i].n < M \div 2
    BY DEF Fresh
  <1>4. d.n \in Nat /\ rq[i].n \in Nat
    BY FragmentTypes, QueuedTypes DEF StreamInv, TypeInv, TypeOK
  <1>5. sent[run] \in Nat /\ start \in Nat
    BY RunsAssumption DEF StreamInv, TypeInv, TypeOK
  <1>6. a \in Int /\ b \in Int /\ a - b = d.n - rq[i].n
    <2>1. CASE run = 1
      BY <1>4, <1>5, <2>1 DEF Count
    <2>2. CASE run # 1
      BY <1>4, <1>5, <2>2 DEF Count
    <2> QED
      BY <2>1, <2>2
  <1>7. d.seq = a % M /\ rq[i].seq = b % M
    BY <1>1, <1>2 DEF Numbered
  <1>8. M \in Nat \ {0} /\ Reorder \in Nat /\ Reorder < M \div 2
        /\ 2 * (Reorder + 1) <= M
    BY WidthAssumption
  <1> HIDE DEF a, b, M
  <1>9. a - b < M \div 2 /\ b - a <= M - (M \div 2) /\ b - a < M
    <2>1. M \div 2 \in Nat /\ M \div 2 + M \div 2 <= M /\ M \div 2 < M
      BY <1>8
    <2>2. b - a < Reorder
      BY <1>1, <1>2, <1>4, <1>5, <1>6, <1>8
    <2> QED
      BY <1>1, <1>3, <1>4, <1>5, <1>6, <1>8, <2>1, <2>2
  <1>10. /\ ((a % M) - (b % M)) % M < M \div 2 <=> a >= b
         /\ (a % M) = (b % M) => a = b
    BY <1>6, <1>8, <1>9, WindowOrder
  <1>11. (a >= b <=> d.n >= rq[i].n) /\ (a = b => d.n = rq[i].n)
    BY <1>4, <1>6
  <1> QED
    BY <1>7, <1>10, <1>11 DEF SeqGreater, M

\* rtp_putq() keeps the queue sorted.
LEMMA PutqSorted ==
  ASSUME StreamInv, Fresh, Sorted(rq), NEW d \in net
  PROVE  Sorted(rtp_putq(rq, d))
  <1> DEFINE t == rtp_putq(rq, d)
  <1>1. rq \in Seq(Fragments) /\ Len(rq) \in Nat /\ d \in Fragments
        /\ d.run = run
    BY DEF StreamInv, TypeInv, TypeOK, NetInv
  <1>2. \/ t = rq
        \/ \E at \in 0..Len(rq) :
             /\ IsInsertion(t, rq, at, d)
             /\ at > 0 => /\ SeqGreater(d.seq, rq[at].seq)
                          /\ rq[at].seq # d.seq
             /\ \A i \in at + 1..Len(rq) : ~SeqGreater(d.seq, rq[i].seq)
    BY <1>1, PutqPlace, Zenon
  <1> HIDE DEF t
  <1>3. CASE t = rq
    BY <1>3 DEF t
  <1>4. ASSUME NEW at \in 0..Len(rq), IsInsertion(t, rq, at, d),
               at > 0 => SeqGreater(d.seq, rq[at].seq) /\ rq[at].seq # d.seq,
               \A i \in at + 1..Len(rq) : ~SeqGreater(d.seq, rq[i].seq)
        PROVE  Sorted(t)
    <2>1. /\ Len(t) = Len(rq) + 1
          /\ \A i \in 1..at : t[i] = rq[i]
          /\ t[at + 1] = d
          /\ \A i \in at + 2..Len(rq) + 1 : t[i] = rq[i - 1]
      BY <1>4 DEF IsInsertion
    <2>2. d.n \in Nat /\ \A i \in 1..Len(rq) : rq[i].n \in Nat
      BY <1>1, FragmentTypes, QueuedTypes DEF StreamInv
    <2>3. at > 0 /\ rq[at].run = run => rq[at].n < d.n
      <3> SUFFICES ASSUME at > 0, rq[at].run = run PROVE rq[at].n < d.n
        OBVIOUS
      <3>1. at \in 1..Len(rq)
        BY <1>1
      <3>2. d.n >= rq[at].n
        BY <1>4, <3>1, SeqOrder
      <3>3. d.n # rq[at].n
        <4>1. d.n = rq[at].n => d.seq = rq[at].seq
          <5>1. Numbered(start, rq[at]) /\ Numbered(start, d)
            BY <3>1 DEF StreamInv, QueueInv, NetInv
          <5> QED
            BY <1>1, <5>1 DEF Numbered
        <4> QED
          BY <1>4, <4>1
      <3> QED
        BY <2>2, <3>1, <3>2, <3>3
    <2>4. \A i \in at + 1..Len(rq) : rq[i].run = run => d.n < rq[i].n
      <3> SUFFICES ASSUME NEW i \in at + 1..Len(rq), rq[i].run = run
                   PROVE  d.n < rq[i].n
        OBVIOUS
      <3>1. i \in 1..Len(rq)
        BY <1>1
      <3>2. ~(d.n >= rq[i].n)
        BY <1>4, <3>1, SeqOrder
      <3> QED
        BY <2>2, <3>1, <3>2
    <2> SUFFICES ASSUME NEW i \in 1..Len(t), NEW j \in 1..Len(t), i < j,
                        \A k \in i..j : t[k].run = t[i].run
                 PROVE  t[i].n < t[j].n
      BY DEF Sorted
    <2> DEFINE x == IF i <= at THEN i ELSE i - 1
               y == IF j <= at THEN j ELSE j - 1
    <2>5. CASE i # at + 1 /\ j # at + 1
      <3>1. /\ x \in 1..Len(rq) /\ y \in 1..Len(rq) /\ x < y
            /\ t[i] = rq[x] /\ t[j] = rq[y]
        BY <1>1, <2>1, <2>5
      <3>2. \A k \in x..y : rq[k].run = rq[x].run
        <4> SUFFICES ASSUME NEW k \in x..y PROVE rq[k].run = rq[x].run
          OBVIOUS
        <4> DEFINE z == IF k <= at THEN k ELSE k + 1
        <4>1. z \in i..j /\ z \in 1..Len(rq) + 1 /\ z # at + 1
          BY <1>1, <2>1, <2>5
        <4>2. t[z] = rq[k]
          BY <1>1, <2>1, <2>5, <4>1
        <4> QED
          BY <3>1, <4>1, <4>2
      <3> HIDE DEF x, y
      <3> QED
        BY <3>1, <3>2 DEF Sorted
    <2>6. CASE i = at + 1
      <3>1. j - 1 \in at + 1..Len(rq) /\ t[j] = rq[j - 1] /\ t[i] = d
        BY <1>1, <2>1, <2>6
      <3>2. rq[j - 1].run = run
        BY <1>1, <3>1
      <3> QED
        BY <2>4, <3>1, <3>2
    <2>7. CASE j = at + 1
      <3>1. at > 0 /\ i \in 1..at /\ at \in 1..Len(rq) /\ i \in 1..Len(rq)
            /\ t[i] = rq[i] /\ t[at] = rq[at] /\ t[j] = d
            /\ at \in i..j /\ j \in i..j
        BY <1>1, <2>1, <2>7
      <3>2. rq[at].run = run /\ rq[at].n < d.n
        BY <1>1, <2>3, <3>1
      <3>3. i = at \/ rq[i].n < rq[at].n
        <4> SUFFICES ASSUME i < at PROVE rq[i].n < rq[at].n
          BY <3>1
        <4>1. \A k \in i..at : rq[k].run = rq[i].run
          BY <1>1, <2>1, <2>7, <3>1
        <4> QED
          BY <3>1, <4>1 DEF Sorted
      <3> QED
        BY <2>2, <3>1, <3>2, <3>3
    <2> QED
      BY <2>5, <2>6, <2>7
  <1>5. CASE \E at \in 0..Len(rq) :
             /\ IsInsertion(t, rq, at, d)
             /\ at > 0 => /\ SeqGreater(d.seq, rq[at].seq)
                          /\ rq[at].seq # d.seq
             /\ \A i \in at + 1..Len(rq) : ~SeqGreater(d.seq, rq[i].seq)
    BY <1>4, <1>5, Zenon DEF t
  <1> QED
    BY <1>2, <1>3, <1>5 DEF t

\* The end of a sorted queue is sorted.
LEMMA SuffixSorted ==
  ASSUME NEW q, NEW t, NEW e \in Nat, Sorted(q), Len(q) \in Nat, Len(t) = Len(q) - e,
         \A i \in 1..Len(t) : t[i] = q[i + e]
  PROVE  Sorted(t)
  <1> SUFFICES ASSUME NEW i \in 1..Len(t), NEW j \in 1..Len(t), i < j,
                      \A k \in i..j : t[k].run = t[i].run
               PROVE  t[i].n < t[j].n
    BY DEF Sorted
  <1>1. i + e \in 1..Len(q) /\ j + e \in 1..Len(q) /\ i + e < j + e
    OBVIOUS
  <1>2. \A k \in i + e..j + e : q[k].run = q[i + e].run
    <2> SUFFICES ASSUME NEW k \in i + e..j + e PROVE q[k].run = q[i + e].run
      OBVIOUS
    <2>1. k - e \in i..j /\ k - e \in 1..Len(t) /\ (k - e) + e = k
      OBVIOUS
    <2>2. t[k - e] = q[k] /\ t[i] = q[i + e]
      BY <2>1
    <2> QED
      BY <2>1, <2>2
  <1>3. q[i + e].n < q[j + e].n
    BY <1>1, <1>2 DEF Sorted
  <1> QED
    BY <1>3

\* QueueSorted is Sorted(rq).
LEMMA SortedQueue == TypeInv => (QueueSorted <=> Sorted(rq))
  <1>1. TypeInv => DOMAIN rq = 1..Len(rq)
    BY DEF TypeInv, TypeOK
  <1> QED
    BY <1>1, Zenon DEF QueueSorted, Sorted

\* Every step keeps the queue sorted.
LEMMA SortedStep ==
  StreamInv /\ Fresh /\ Sorted(rq) /\ [Next]_vars => Sorted(rq')
  <1> SUFFICES ASSUME StreamInv, Fresh, Sorted(rq), [Next]_vars
               PROVE  Sorted(rq')
    OBVIOUS
  <1>0. TypeInv /\ NetInv /\ SourceInv
    BY DEF StreamInv
  <1>1. CASE rq' = rq
    BY <1>1
  <1>2. ASSUME NEW d \in net, NEW again \in BOOLEAN,
               rtp_session_rtp_parse(d, again)
        PROVE  Sorted(rq')
    <2>1. rq' = rq \/ rq' = queue_packet(rq, d)
      BY <1>0, <1>2, ParseEffect, Zenon
    <2>2. CASE rq' = queue_packet(rq, d)
      <3> DEFINE all == rtp_putq(rq, d)
      <3>1. rq \in Seq(Fragments) /\ d \in Fragments /\ Len(rq) <= MaxRqSize
        BY <1>0 DEF TypeInv, TypeOK
      <3>2. \E e \in 0..Len(all) :
              /\ Len(rq') = Len(all) - e
              /\ \A i \in 1..Len(rq') : rq'[i] = all[i + e]
        BY <2>2, <3>1, QueueDrops, Zenon
      <3>3. all \in Seq(Fragments)
        BY <3>1, PutqElements, Zenon
      <3>4. Sorted(all)
        BY PutqSorted
      <3> HIDE DEF all
      <3>5. PICK e \in 0..Len(all) :
              /\ Len(rq') = Len(all) - e
              /\ \A i \in 1..Len(rq') : rq'[i] = all[i + e]
        BY <3>2
      <3>6. e \in Nat /\ Len(all) \in Nat
        BY <3>3
      <3> QED
        BY <3>4, <3>5, <3>6, SuffixSorted, Zenon
    <2> QED
      BY <1>1, <2>1, <2>2
  <1>3. ASSUME NEW wanted, rtp_session_recvm(wanted)
        PROVE  Sorted(rq')
    <2>1. \/ rq' = rq
          \/ \E k \in 1..Len(rq) :
               /\ Len(rq') = Len(rq) - k
               /\ \A i \in 1..Len(rq') : rq'[i] = rq[i + k]
      BY <1>0, <1>3, ReceiveEffect, Zenon
    <2>2. CASE \E k \in 1..Len(rq) :
                 /\ Len(rq') = Len(rq) - k
                 /\ \A i \in 1..Len(rq') : rq'[i] = rq[i + k]
      <3>1. PICK k \in 1..Len(rq) :
                 /\ Len(rq') = Len(rq) - k
                 /\ \A i \in 1..Len(rq') : rq'[i] = rq[i + k]
        BY <2>2
      <3>2. k \in Nat /\ Len(rq) \in Nat
        BY <1>0 DEF TypeInv, TypeOK
      <3> QED
        BY <3>1, <3>2, SuffixSorted, Zenon
    <2> QED
      BY <1>1, <2>1, <2>2
  <1>4. CASE UNCHANGED vars
    BY <1>1, <1>4 DEF vars
  <1>5. CASE SendFragment \/ Restart \/ (\E len \in Lengths : rtp_send(len))
             \/ \E d \in net : Lose(d)
    BY <1>1, <1>5 DEF SendFragment, Restart, rtp_send, Lose, session
  <1> QED
    BY <1>2, <1>3, <1>4, <1>5 DEF Next

\* As long as no fragment of the present run stays in the queue until half
\* the range of the sequence numbers has been sent after it, rtp_putq() keeps
\* the fragments of a run in the order in which they were sent, each once:
\* for every width of the numbers, however the network loses, repeats and
\* reorders, and across restarts of the client.
THEOREM QueueIsSorted == Spec /\ []Fresh => []QueueSorted
  <1>1. Init => Sorted(rq)
    BY DEF Init, Sorted
  <1>2. Init /\ StreamInv => Sorted(rq)
    BY <1>1
  <1>3. StreamInv /\ Sorted(rq) => QueueSorted
    BY SortedQueue DEF StreamInv
  <1> DEFINE S == Sorted(rq)
  <1>4. Init => S
    BY <1>1
  <1>5. StreamInv /\ Fresh /\ S /\ [Next]_vars => S'
    <2>1. S' <=> Sorted(rq')
      BY DEF Sorted
    <2> QED
      BY <2>1, SortedStep
  <1>6. StreamInv /\ S => QueueSorted
    BY <1>3
  <1> HIDE DEF S
  <1> QED
    BY <1>4, <1>5, <1>6, StreamInvariant, PTL DEF Spec

----------------------------------------------------------------------------
(* What is handed over is an ordered channel *)

\* The session takes no datagram that is older than what it handed over last.
LEMMA NotBehind ==
  ASSUME StreamInv, NEW d \in net, NEW n \in Nat, n <= sent[run],
         rcv_last_ts = Count(start, run, n) % TS_MOD, delivered,
         ~TooOld(d, rcv_last_ts)
  PROVE  n <= d.n
  <1> DEFINE a == Count(start, run, n)
             b == Count(start, run, d.n)
             M == TS_MOD
  <1> SUFFICES ASSUME n > d.n PROVE FALSE
    <2>1. d.n \in Nat
      BY FragmentTypes DEF StreamInv, TypeInv, TypeOK
    <2> QED
      BY <2>1
  <1>1. /\ d.run = run /\ sent[run] - d.n < Reorder /\ Numbered(start, d)
    BY DEF StreamInv, NetInv
  <1>2. d.n \in Nat /\ sent[run] \in Nat /\ start \in Nat
    BY FragmentTypes, RunsAssumption DEF StreamInv, TypeInv, TypeOK
  <1>3. a \in Int /\ b \in Int /\ a - b = n - d.n
    <2>1. CASE run = 1
      BY <1>2, <2>1 DEF Count
    <2>2. CASE run # 1
      BY <1>2, <2>2 DEF Count
    <2> QED
      BY <2>1, <2>2
  <1>4. d.ts = b % M
    BY <1>1 DEF Numbered
  <1>5. M \in Nat \ {0} /\ Reorder \in Nat /\ Reorder < M \div 2
    BY WidthAssumption
  <1>6. rcv_last_ts = a % M
    OBVIOUS
  <1> HIDE DEF a, b, M
  <1>7. a - b < M \div 2 /\ a > b
    <2>1. M \div 2 \in Int
      BY <1>5
    <2> QED
      BY <1>1, <1>2, <1>3, <1>5, <2>1
  <1>8. ((a % M) - (b % M)) % M < M \div 2 /\ (a % M) # (b % M)
    BY <1>3, <1>5, <1>7, BehindIsOlder
  <1>9. TsStrictlyNewer(rcv_last_ts, d.ts)
    BY <1>4, <1>6, <1>8 DEF TsStrictlyNewer, TsNewer, M
  <1> QED
    BY <1>9 DEF TooOld

\* A datagram keeps the order.
LEMMA OrderParse ==
  ASSUME StreamInv, OrderInv, NEW d \in net, NEW again \in BOOLEAN,
         rtp_session_rtp_parse(d, again), ~mixed'
  PROVE  OrderInv'
  <1>0. TypeInv /\ NetInv /\ QueueInv /\ SourceInv /\ SyncInv /\ MixInv
    BY DEF StreamInv
  <1>1. /\ d \in Fragments /\ d.run = run /\ ~mixed
        /\ UNCHANGED <<start, run, sent, last, delivered>>
    BY <1>0, ParseEffect, Zenon
  <1>2. \/ UNCHANGED <<rq, ssrc, rcv_last_ts>>
        \/ /\ ssrc' = run
           /\ rcv_last_ts' = IF ssrc \in {0, run} THEN rcv_last_ts ELSE d.ts
           /\ \/ rq' = rq
              \/ ~TooOld(d, rcv_last_ts') /\ rq' = queue_packet(rq, d)
    BY <1>0, ParseEffect, Zenon
  <1>3. \A i \in 1..Len(rq') :
          rq'[i] = d \/ \E j \in 1..Len(rq) : rq'[i] = rq[j]
    BY <1>0, ParseElements, Zenon
  <1>4. /\ \A i \in 1..Len(rq) : rq[i].n >= last[rq[i].run]
        /\ ssrc # 0 /\ last[ssrc] # 0 =>
             /\ delivered /\ rcv_last_ts = Count(start, ssrc, last[ssrc]) % TS_MOD
             /\ \A i \in 1..Len(rq) : rq[i].run = ssrc
    BY <1>1 DEF OrderInv
  <1>5. CASE UNCHANGED <<rq, ssrc, rcv_last_ts>>
    BY <1>1, <1>4, <1>5 DEF OrderInv
  <1>6. CASE /\ ssrc' = run
             /\ rcv_last_ts' = IF ssrc \in {0, run} THEN rcv_last_ts ELSE d.ts
             /\ \/ rq' = rq
                \/ ~TooOld(d, rcv_last_ts') /\ rq' = queue_packet(rq, d)
    <2>1. /\ run \in Runs /\ run \in Nat \ {0} /\ ssrc \in Nat /\ ssrc <= run
          /\ last[run] \in Nat /\ last[run] <= sent[run] /\ d.n \in Nat
      BY <1>0, <1>1, RunsAssumption, FragmentTypes DEF TypeInv, TypeOK, SourceInv
    <2>2. last[run] # 0 =>
             /\ ssrc = run /\ rcv_last_ts' = rcv_last_ts
             /\ delivered /\ rcv_last_ts = Count(start, run, last[run]) % TS_MOD
             /\ \A i \in 1..Len(rq) : rq[i].run = run
      <3>1. last[run] # 0 => ssrc = run
        BY <1>0, <2>1 DEF SourceInv
      <3> QED
        BY <1>4, <1>6, <2>1, <3>1
    <2>3. rq' # rq => d.n >= last[run]
      <3>1. CASE last[run] = 0
        BY <2>1, <3>1
      <3>2. CASE last[run] # 0
        BY <1>6, <2>1, <2>2, <3>2, NotBehind
      <3> QED
        BY <3>1, <3>2
    <2>4. \A i \in 1..Len(rq') : rq'[i].n >= last[rq'[i].run]
      <3>1. CASE rq' = rq
        BY <1>4, <3>1
      <3>2. CASE rq' # rq
        BY <1>1, <1>3, <1>4, <2>3, <3>2
      <3> QED
        BY <3>1, <3>2
    <2>5. last[run] # 0 => \A i \in 1..Len(rq') : rq'[i].run = run
      BY <1>1, <1>3, <2>2
    <2> QED
      BY <1>1, <1>6, <2>2, <2>4, <2>5 DEF OrderInv
  <1> QED
    BY <1>2, <1>5, <1>6

\* The receiver hands over the next in order: what recvm hands over is not
\* older than the last one, and what stays in the queue is newer.
LEMMA OrderReceive ==
  ASSUME StreamInv, Sorted(rq), OrderInv, ~mixed, NEW wanted,
         rtp_session_recvm(wanted)
  PROVE  OrderInv'
  <1>0. TypeInv /\ QueueInv /\ SourceInv /\ SyncInv /\ MixInv
    BY DEF StreamInv
  <1>1. /\ start' = start /\ mixed' = mixed /\ Len(rq) > 0
        /\ ssrc' = IF recvsync THEN rq[1].run ELSE ssrc
    BY <1>0, ReceiveEffect, Zenon
  <1>2. \/ UNCHANGED <<rq, delivered, rcv_last_ts, last>>
        \/ \E k \in 1..Len(rq) :
             /\ Len(rq') = Len(rq) - k
             /\ \A i \in 1..Len(rq') : i + k \in 1..Len(rq) /\ rq'[i] = rq[i + k]
             /\ delivered' = TRUE
             /\ rcv_last_ts' = rq[k].ts
             /\ last' = [last EXCEPT ![rq[k].run] = rq[k].n]
    BY <1>0, ReceiveEffect, Zenon
  <1>3. ssrc' = ssrc
    <2>1. 1 \in 1..Len(rq)
      BY <1>0, <1>1 DEF TypeInv, TypeOK
    <2> QED
      BY <1>0, <1>1, <2>1 DEF SyncInv
  <1>4. /\ \A i \in 1..Len(rq) : rq[i].n >= last[rq[i].run]
        /\ ssrc # 0 /\ last[ssrc] # 0 =>
             /\ delivered /\ rcv_last_ts = Count(start, ssrc, last[ssrc]) % TS_MOD
             /\ \A i \in 1..Len(rq) : rq[i].run = ssrc
    BY DEF OrderInv
  <1>5. CASE UNCHANGED <<rq, delivered, rcv_last_ts, last>>
    BY <1>1, <1>3, <1>4, <1>5 DEF OrderInv
  <1>6. ASSUME NEW k \in 1..Len(rq), Len(rq') = Len(rq) - k,
               \A i \in 1..Len(rq') : i + k \in 1..Len(rq) /\ rq'[i] = rq[i + k],
               delivered' = TRUE, rcv_last_ts' = rq[k].ts,
               last' = [last EXCEPT ![rq[k].run] = rq[k].n]
        PROVE  OrderInv'
    <2>1. last \in [Runs -> 0..MaxSent] /\ ssrc \in Runs \cup {0}
          /\ Len(rq) \in Nat
      BY <1>0 DEF TypeInv, TypeOK
    <2>2. \A i \in 1..Len(rq) : rq[i].run = rq[k].run /\ rq[i].run \in Runs
                                 /\ rq[i].n \in Nat
      BY <1>0, FragmentTypes, QueuedTypes DEF MixInv
    <2>3. last'[rq[k].run] = rq[k].n
      BY <1>6, <2>1, <2>2
    <2>4. ASSUME NEW i \in 1..Len(rq')
          PROVE  rq'[i].n >= last'[rq'[i].run] /\ rq'[i].run = rq[k].run
      <3>1. i + k \in 1..Len(rq) /\ rq'[i] = rq[i + k] /\ k < i + k
        BY <1>6, <2>1
      <3>2. \A j \in k..i + k : j \in 1..Len(rq)
        BY <2>1, <3>1
      <3>3. rq[k].n < rq[i + k].n
        BY <2>2, <3>1, <3>2 DEF Sorted
      <3> QED
        BY <2>2, <2>3, <3>1, <3>3
    <2>5. ssrc # 0 /\ last'[ssrc] # 0 =>
            /\ rcv_last_ts' = Count(start, ssrc, last'[ssrc]) % TS_MOD
            /\ rq[k].run = ssrc
      <3>1. CASE rq[k].run = ssrc
        <4>1. rq[k].ts = Count(start, rq[k].run, rq[k].n) % TS_MOD
          BY <1>0 DEF QueueInv, Numbered
        <4> QED
          BY <1>6, <2>3, <3>1, <4>1
      <3>2. CASE rq[k].run # ssrc
        <4>1. ssrc # 0 => last'[ssrc] = last[ssrc]
          BY <1>6, <2>1, <3>2
        <4> QED
          BY <1>4, <3>2, <4>1
      <3> QED
        BY <3>1, <3>2
    <2> QED
      BY <1>1, <1>3, <1>6, <2>4, <2>5 DEF OrderInv
  <1>7. CASE \E k \in 1..Len(rq) :
             /\ Len(rq') = Len(rq) - k
             /\ \A i \in 1..Len(rq') : i + k \in 1..Len(rq) /\ rq'[i] = rq[i + k]
             /\ delivered' = TRUE
             /\ rcv_last_ts' = rq[k].ts
             /\ last' = [last EXCEPT ![rq[k].run] = rq[k].n]
    BY <1>6, <1>7, Zenon
  <1> QED
    BY <1>2, <1>5, <1>7

\* Every step keeps the order.
LEMMA OrderStep ==
  StreamInv /\ Sorted(rq) /\ OrderInv /\ [Next]_vars => OrderInv'
  <1> SUFFICES ASSUME StreamInv, Sorted(rq), OrderInv, [Next]_vars
               PROVE  OrderInv'
    OBVIOUS
  <1>0. TypeInv /\ NetInv /\ SourceInv
    BY DEF StreamInv
  <1>1. CASE UNCHANGED <<start, rq, ssrc, delivered, rcv_last_ts, last, mixed>>
    BY <1>1 DEF OrderInv
  <1>2. ASSUME NEW d \in net, NEW again \in BOOLEAN,
               rtp_session_rtp_parse(d, again)
        PROVE  OrderInv'
    <2>1. CASE mixed'
      BY <2>1 DEF OrderInv
    <2> QED
      BY <1>2, <2>1, OrderParse
  <1>3. ASSUME NEW wanted, rtp_session_recvm(wanted)
        PROVE  OrderInv'
    <2>1. CASE mixed
      <3>1. mixed'
        BY <1>0, <1>3, <2>1, ReceiveEffect, Zenon
      <3> QED
        BY <3>1 DEF OrderInv
    <2> QED
      BY <1>3, <2>1, OrderReceive
  <1>4. CASE UNCHANGED vars
    BY <1>1, <1>4 DEF vars
  <1>5. CASE SendFragment \/ Restart \/ (\E len \in Lengths : rtp_send(len))
             \/ \E d \in net : Lose(d)
    BY <1>1, <1>5 DEF SendFragment, Restart, rtp_send, Lose, session
  <1> QED
    BY <1>2, <1>3, <1>4, <1>5 DEF Next

\* Every step is a step of the ordered channel, or changes nothing of it.
LEMMA ChannelStep ==
  StreamInv /\ OrderInv /\ [Next]_vars => [Channel!Next]_<<sent, last, mixed>>
  <1> SUFFICES ASSUME StreamInv, OrderInv, [Next]_vars
               PROVE  [Channel!Next]_<<sent, last, mixed>>
    OBVIOUS
  <1>0. TypeInv /\ NetInv /\ QueueInv /\ SourceInv
    BY DEF StreamInv
  <1>1. CASE UNCHANGED <<sent, last, mixed>>
    BY <1>1
  <1>2. CASE SendFragment
    <2>1. run \in Runs /\ sent' = [sent EXCEPT ![run] = sent[run] + 1]
          /\ UNCHANGED <<last, mixed>>
      BY <1>0, <1>2 DEF SendFragment, TypeInv, TypeOK
    <2>2. Channel!Send(run)
      BY <2>1 DEF Channel!Send
    <2> QED
      BY <2>1, <2>2 DEF Channel!Next
  <1>3. ASSUME NEW d \in net, NEW again \in BOOLEAN,
               rtp_session_rtp_parse(d, again)
        PROVE  [Channel!Next]_<<sent, last, mixed>>
    <2>1. UNCHANGED <<sent, last>> /\ mixed \in BOOLEAN /\ mixed' \in BOOLEAN
          /\ (mixed => mixed')
      BY <1>0, <1>3, ParseEffect, Zenon DEF TypeInv, TypeOK
    <2>2. CASE mixed' = TRUE
      BY <2>1, <2>2, Zenon DEF Channel!Next, Channel!Mix
    <2>3. CASE mixed' = FALSE
      BY <1>1, <2>1, <2>3, Zenon
    <2> QED
      BY <2>1, <2>2, <2>3
  <1>4. ASSUME NEW wanted, rtp_session_recvm(wanted)
        PROVE  [Channel!Next]_<<sent, last, mixed>>
    <2>1. UNCHANGED <<sent, mixed>>
      BY <1>0, <1>4, ReceiveEffect, Zenon
    <2>2. \/ last' = last
          \/ \E k \in 1..Len(rq) : last' = [last EXCEPT ![rq[k].run] = rq[k].n]
      BY <1>0, <1>4, ReceiveEffect, Zenon
    <2>3. ASSUME NEW k \in 1..Len(rq),
                 last' = [last EXCEPT ![rq[k].run] = rq[k].n]
          PROVE  Channel!Next
      <3> DEFINE r == rq[k].run
                 n == rq[k].n
      <3>1. r \in Runs /\ n \in Nat \ {0}
        BY <1>0, FragmentTypes, QueuedTypes
      <3>0. \A q \in Runs : sent[q] \in Nat /\ last[q] \in Nat
        BY <1>0, RunsAssumption DEF TypeInv, TypeOK
      <3>2. n <= sent[r] /\ sent[r] \in Nat
        BY <1>0, <3>0, <3>1 DEF QueueInv
      <3>3. n \in 1..sent[r]
        BY <3>1, <3>2
      <3>4. mixed \/ last[r] <= n
        <4>1. mixed \/ n >= last[r]
          BY DEF OrderInv
        <4>2. last[r] \in Nat
          BY <3>0, <3>1
        <4> QED
          BY <3>1, <4>1, <4>2
      <3>5. last' = [last EXCEPT ![r] = n]
        BY <2>3
      <3> HIDE DEF r, n
      <3>6. Channel!Hand(r, n)
        BY <2>1, <3>4, <3>5, Zenon DEF Channel!Hand
      <3> QED
        BY <3>1, <3>3, <3>6, Zenon DEF Channel!Next
    <2> QED
      BY <1>1, <2>1, <2>2, <2>3
  <1>5. CASE UNCHANGED vars
    BY <1>1, <1>5 DEF vars
  <1>6. CASE Restart \/ (\E len \in Lengths : rtp_send(len))
             \/ \E d \in net : Lose(d)
    BY <1>1, <1>6 DEF Restart, rtp_send, Lose
  <1> QED
    BY <1>2, <1>3, <1>4, <1>5, <1>6 DEF Next

\* Under the same condition, what deal_with_client() is handed and appends
\* to its file is an ordered, lossy channel: the session implements
\* OrderedChannel.
THEOREM HandedOverInOrder == Spec /\ []Fresh => RecordedInOrder
  <1> DEFINE S == Sorted(rq)
  <1>1. Init => OrderInv
    BY DEF Init, OrderInv
  <1>2. Init => Channel!Init
    BY DEF Init, Channel!Init
  <1>3. StreamInv /\ S /\ OrderInv /\ [Next]_vars => OrderInv'
    BY OrderStep
  <1>4. StreamInv /\ QueueSorted => S
    BY SortedQueue DEF StreamInv
  <1> HIDE DEF S
  <1> QED
    BY <1>1, <1>2, <1>3, <1>4, ChannelStep, StreamInvariant, QueueIsSorted, PTL
    DEF Spec, RecordedInOrder, Channel!Spec

\* In particular when no run is longer than half the range.
THEOREM ShortRunsAreOrdered ==
  ASSUME MaxSent <= SEQ_MOD \div 2
  PROVE  Spec => []QueueSorted /\ RecordedInOrder
  <1>1. StreamInv => Fresh
    <2> SUFFICES ASSUME StreamInv, NEW i \in 1..Len(rq), rq[i].run = run
                 PROVE  sent[run] - rq[i].n < SEQ_MOD \div 2
      BY DEF Fresh
    <2>1. rq[i].n \in Nat \ {0}
      BY FragmentTypes, QueuedTypes DEF StreamInv
    <2>2. sent[run] \in 0..MaxSent /\ MaxSent \in Nat
      BY RunsAssumption DEF StreamInv, TypeInv, TypeOK
    <2>3. SEQ_MOD \div 2 \in Nat
      BY WidthAssumption
    <2> QED
      BY <2>1, <2>2, <2>3
  <1> QED
    BY <1>1, StreamInvariant, QueueIsSorted, HandedOverInOrder, PTL
=============================================================================
