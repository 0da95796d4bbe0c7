---------------------------- MODULE CameraProofs ----------------------------
(***************************************************************************)
(* Theorems about the camera's buffers and frames: for every number of     *)
(* buffers, every image size and every image.                              *)
(***************************************************************************)
EXTENDS Camera, ImageConvertProofs

----------------------------------------------------------------------------
(* The elements of a queue *)

\* A buffer that is queued joins the elements.
LEMMA ElementsAppend ==
  ASSUME NEW s \in Seq(Nat), NEW e \in Nat
  PROVE  /\ Append(s, e) \in Seq(Nat) /\ Len(Append(s, e)) = Len(s) + 1
         /\ Elements(Append(s, e)) = Elements(s) \cup {e}
  <1>1. /\ Append(s, e) \in Seq(Nat) /\ Len(Append(s, e)) = Len(s) + 1
        /\ DOMAIN s = 1..Len(s) /\ DOMAIN Append(s, e) = 1..Len(s) + 1
        /\ Len(s) \in Nat
    OBVIOUS
  <1>2. /\ \A k \in 1..Len(s) : Append(s, e)[k] = s[k]
        /\ Append(s, e)[Len(s) + 1] = e
    OBVIOUS
  <1>3. \A k \in 1..Len(s) + 1 : k \in 1..Len(s) \/ k = Len(s) + 1
    BY <1>1
  <1>4. Len(s) + 1 \in 1..Len(s) + 1 /\ \A k \in 1..Len(s) : k \in 1..Len(s) + 1
    BY <1>1
  <1> QED
    BY <1>1, <1>2, <1>3, <1>4 DEF Elements

\* A queue consists of its head and its tail.
LEMMA ElementsTail ==
  ASSUME NEW s \in Seq(Nat), s # <<>>
  PROVE  /\ Head(s) \in Nat /\ Tail(s) \in Seq(Nat) /\ Len(s) = Len(Tail(s)) + 1
         /\ Elements(s) = Elements(Tail(s)) \cup {Head(s)}
  <1>1. /\ Head(s) \in Nat /\ Tail(s) \in Seq(Nat) /\ Len(s) = Len(Tail(s)) + 1
        /\ DOMAIN s = 1..Len(s) /\ DOMAIN Tail(s) = 1..Len(s) - 1
        /\ Len(s) \in Nat \ {0} /\ Head(s) = s[1]
    OBVIOUS
  <1>2. \A k \in 1..Len(s) - 1 : Tail(s)[k] = s[k + 1]
    OBVIOUS
  <1>3. \A k \in 1..Len(s) : k = 1 \/ (k - 1 \in 1..Len(s) - 1 /\ (k - 1) + 1 = k)
    BY <1>1
  <1>4. 1 \in 1..Len(s) /\ \A k \in 1..Len(s) - 1 : k + 1 \in 1..Len(s)
    BY <1>1
  <1>5. ASSUME NEW x \in Elements(s) PROVE x \in Elements(Tail(s)) \cup {Head(s)}
    <2>1. PICK k \in 1..Len(s) : x = s[k]
      BY <1>1 DEF Elements
    <2>2. CASE k = 1
      BY <1>1, <2>1, <2>2
    <2>3. CASE k # 1
      <3>1. k - 1 \in DOMAIN Tail(s) /\ Tail(s)[k - 1] = s[k]
        BY <1>1, <1>2, <1>3, <2>3
      <3> QED
        BY <2>1, <3>1 DEF Elements
    <2> QED
      BY <2>2, <2>3
  <1>6. ASSUME NEW x \in Elements(Tail(s)) \cup {Head(s)} PROVE x \in Elements(s)
    <2>1. CASE x = Head(s)
      BY <1>1, <1>4, <2>1 DEF Elements
    <2>2. CASE x \in Elements(Tail(s))
      <3>1. PICK k \in 1..Len(s) - 1 : x = Tail(s)[k]
        BY <1>1, <2>2 DEF Elements
      <3>2. k + 1 \in DOMAIN s /\ s[k + 1] = x
        BY <1>1, <1>2, <1>4, <3>1
      <3> QED
        BY <3>2 DEF Elements
    <2> QED
      BY <2>1, <2>2
  <1> QED
    BY <1>1, <1>5, <1>6

\* Two queues, one after the other
LEMMA ElementsConcat ==
  ASSUME NEW s \in Seq(Nat), NEW t \in Seq(Nat)
  PROVE  /\ s \o t \in Seq(Nat) /\ Len(s \o t) = Len(s) + Len(t)
         /\ Elements(s \o t) = Elements(s) \cup Elements(t)
  <1>1. /\ s \o t \in Seq(Nat) /\ Len(s \o t) = Len(s) + Len(t)
        /\ Len(s) \in Nat /\ Len(t) \in Nat
        /\ DOMAIN s = 1..Len(s) /\ DOMAIN t = 1..Len(t)
        /\ DOMAIN (s \o t) = 1..Len(s) + Len(t)
    OBVIOUS
  <1>2. /\ \A k \in 1..Len(s) : k \in 1..Len(s) + Len(t) /\ (s \o t)[k] = s[k]
        /\ \A k \in 1..Len(t) : /\ Len(s) + k \in 1..Len(s) + Len(t)
                                /\ (s \o t)[Len(s) + k] = t[k]
    BY <1>1
  <1>3. \A k \in 1..Len(s) + Len(t) :
          \/ k \in 1..Len(s)
          \/ k - Len(s) \in 1..Len(t) /\ Len(s) + (k - Len(s)) = k
    BY <1>1
  <1>4. ASSUME NEW x \in Elements(s \o t) PROVE x \in Elements(s) \cup Elements(t)
    <2>1. PICK k \in 1..Len(s) + Len(t) : x = (s \o t)[k]
      BY <1>1 DEF Elements
    <2>2. CASE k \in 1..Len(s)
      BY <1>1, <1>2, <2>1, <2>2 DEF Elements
    <2>3. CASE k - Len(s) \in 1..Len(t) /\ Len(s) + (k - Len(s)) = k
      <3>1. x = t[k - Len(s)]
        BY <1>2, <2>1, <2>3
      <3> QED
        BY <1>1, <2>3, <3>1 DEF Elements
    <2> QED
      BY <1>3, <2>2, <2>3
  <1>5. Elements(s) \subseteq Elements(s \o t)
    BY <1>1, <1>2 DEF Elements
  <1>6. Elements(t) \subseteq Elements(s \o t)
    <2> SUFFICES ASSUME NEW k \in 1..Len(t) PROVE t[k] \in Elements(s \o t)
      BY <1>1 DEF Elements
    <2>1. Len(s) + k \in DOMAIN (s \o t) /\ t[k] = (s \o t)[Len(s) + k]
      BY <1>1, <1>2
    <2> QED
      BY <2>1 DEF Elements
  <1> QED
    BY <1>1, <1>4, <1>5, <1>6

\* As many places as buffers, and every buffer in one of them: then no buffer
\* is in two.
LEMMA NoneTwice ==
  ASSUME NEW n \in Nat, NEW s \in Seq(Nat), Len(s) = n, Elements(s) = 0..n - 1
  PROVE  \A j, k \in 1..n : s[j] = s[k] => j = k
  <1>1. s \in [1..n -> 0..n - 1]
    BY DEF Elements
  <1>2. \A b \in 0..n - 1 : \E k \in 1..n : s[k] = b
    BY DEF Elements
  <1>3. s \in Surjection(1..n, 0..n - 1)
    BY <1>1, <1>2, Fun_IsSurj
  <1>4. /\ IsFiniteSet(1..n) /\ IsFiniteSet(0..n - 1)
        /\ Cardinality(1..n) = Cardinality(0..n - 1)
    BY FS_Interval
  <1>5. s \in Injection(1..n, 0..n - 1)
    BY <1>3, <1>4, FS_SurjSameCardinalityImpliesInj
  <1> QED
    BY <1>5, Fun_InjectionProperties

\* The buffer that is examined is not the one that is filled next.
LEMMA HeadNotHeld ==
  ASSUME NEW q \in Seq(Nat), NEW f \in Seq(Nat), NEW b \in Nat, q # <<>>,
         Len(q) + Len(f) + 1 = ReqCount,
         Elements(q) \cup Elements(f) \cup {b} = Buffers
  PROVE  Head(q) # b
  <1> DEFINE all == (q \o f) \o <<b>>
  <1>1. <<b>> \in Seq(Nat) /\ Len(<<b>>) = 1 /\ Elements(<<b>>) = {b}
    BY DEF Elements
  <1>2. /\ q \o f \in Seq(Nat) /\ Len(q \o f) = Len(q) + Len(f)
        /\ Elements(q \o f) = Elements(q) \cup Elements(f)
    BY ElementsConcat
  <1>3. /\ all \in Seq(Nat) /\ Len(all) = ReqCount /\ Elements(all) = 0..ReqCount - 1
    BY <1>1, <1>2, ElementsConcat DEF Buffers
  <1>4. Len(q) \in Nat \ {0} /\ Len(f) \in Nat /\ ReqCount \in Nat
    BY CountAssumption
  <1>5. all[1] = Head(q) /\ all[ReqCount] = b
    <2> DEFINE s == q \o f
    <2>1. s[1] = Head(q)
      BY <1>4
    <2>2. s \in Seq(Nat) /\ Len(s) + 1 = ReqCount /\ Len(s) >= 1
      BY <1>2, <1>4
    <2> HIDE DEF s
    <2>3. (s \o <<b>>)[1] = s[1] /\ (s \o <<b>>)[Len(s) + 1] = b
      BY <2>2
    <2> QED
      BY <2>1, <2>2, <2>3 DEF s
  <1> HIDE DEF all
  <1>6. \A j, k \in 1..ReqCount : all[j] = all[k] => j = k
    BY <1>3, <1>4, NoneTwice
  <1>7. 1 \in 1..ReqCount /\ ReqCount \in 1..ReqCount /\ 1 # ReqCount
    BY <1>4
  <1> QED
    BY <1>5, <1>6, <1>7

----------------------------------------------------------------------------
(* The invariant *)

InSetup == {"open", "capability", "input", "fmtdesc", "setfmt", "getfmt", "fps", "reqbufs"}
Capturing == {"loop", "dqbuf", "process", "requeue"}

BufferTypes ==
  /\ pc \in InSetup \cup Capturing \cup {"mmap", "qbuf", "streamoff", "munmap"} \cup Final
  /\ i \in Nat /\ granted \in Nat
  /\ queued \in Seq(Nat) /\ filled \in Seq(Nat) /\ bufindex \in Nat \cup {NoBuffer}

\* Where the buffers are: the driver has none, then gets them in their order,
\* and then they go round
BufferPlaces ==
  /\ pc \in InSetup \cup {"mmap"} => queued = <<>> /\ filled = <<>>
  /\ pc = "qbuf" =>
       /\ i <= ReqCount /\ filled = <<>>
       /\ Len(queued) = i /\ Elements(queued) = 0..i - 1
  /\ pc \in InSetup \cup {"mmap", "qbuf", "loop", "dqbuf"} => bufindex = NoBuffer
  /\ pc \in {"loop", "dqbuf"} =>
       /\ Len(queued) + Len(filled) = ReqCount
       /\ Elements(queued) \cup Elements(filled) = Buffers
  /\ pc \in {"process", "requeue"} =>
       /\ bufindex \in Nat
       /\ Len(queued) + Len(filled) + 1 = ReqCount
       /\ Elements(queued) \cup Elements(filled) \cup {bufindex} = Buffers

\* Which buffers are mapped
BufferMaps ==
  /\ pc \in InSetup => mapped = {}
  /\ pc = "mmap" => i <= ReqCount /\ mapped \subseteq 0..i - 1
  /\ pc \in Capturing \cup {"qbuf", "streamoff"} => mapped \subseteq Buffers
  /\ pc = "munmap" => mapped \subseteq i..ReqCount - 1
  /\ pc = "released" => mapped = {}

\* What is examined is what was dequeued, and the motion is that of the two
\* frames
FrameInv ==
  /\ pc \in {"process", "requeue"} => image = captured /\ captured \in Frames
  /\ pc = "requeue" => (motion <=> YUYV422_motion_detect(previous, captured))

CameraInv == BufferTypes /\ BufferPlaces /\ BufferMaps /\ FrameInv

\* The invariant holds at first and every step keeps it.
LEMMA CameraInvariant == Spec => []CameraInv
  <1> USE CountAssumption
  <1>1. Init => CameraInv
    BY DEF Init, CameraInv, BufferTypes, BufferPlaces, BufferMaps, FrameInv, InSetup,
           Capturing, Final, NoBuffer
  <1>2. CameraInv /\ [Next]_vars => CameraInv'
    <2> SUFFICES ASSUME CameraInv, [Next]_vars PROVE CameraInv'
      OBVIOUS
    <2>0. BufferTypes /\ BufferPlaces /\ BufferMaps /\ FrameInv
      BY DEF CameraInv
    <2> USE DEF InSetup, Capturing, Final
    <2>1. ASSUME NEW fails \in BOOLEAN, NEW size \in BOOLEAN, SetupCall(fails, size)
          PROVE  CameraInv'
      <3>1. pc \in InSetup \ {"reqbufs"} /\ pc' \in InSetup \cup {"aborted"}
        BY <2>1 DEF SetupCall, Setup
      <3> QED
        BY <2>0, <2>1, <3>1 DEF SetupCall, driver, picture, CameraInv, BufferTypes,
              BufferPlaces, BufferMaps, FrameInv
    <2>2. ASSUME NEW n \in Grants, NEW fails \in BOOLEAN, RequestBuffers(n, fails)
          PROVE  CameraInv'
      BY <2>0, <2>2 DEF RequestBuffers, driver, picture, CameraInv, BufferTypes,
            BufferPlaces, BufferMaps, FrameInv
    <2>3. ASSUME NEW fails \in BOOLEAN, MapBuffer(fails) PROVE CameraInv'
      <3>1. pc = "mmap" /\ pc' \in {"mmap", "aborted", "undefined", "qbuf"}
        BY <2>3 DEF MapBuffer
      <3>2. BufferTypes'
        BY <2>0, <2>3, <3>1 DEF MapBuffer, driver, BufferTypes
      <3>3. BufferPlaces'
        BY <2>0, <2>3, <3>1 DEF MapBuffer, driver, BufferTypes, BufferPlaces, Elements
      <3>4. BufferMaps'
        <4>1. CASE i < granted /\ ~fails /\ i < ReqCount
          BY <2>0, <2>3, <3>1, <4>1 DEF MapBuffer, BufferTypes, BufferMaps, Buffers
        <4>2. CASE i < granted /\ (fails \/ i >= ReqCount)
          BY <2>0, <2>3, <3>1, <4>2 DEF MapBuffer, BufferTypes, BufferMaps, Buffers
        <4>3. CASE ~(i < granted)
          BY <2>0, <2>3, <3>1, <4>3 DEF MapBuffer, BufferTypes, BufferMaps, Buffers
        <4>4. i < ReqCount \/ i >= ReqCount
          BY <2>0 DEF BufferTypes
        <4> QED
          BY <4>1, <4>2, <4>3, <4>4
      <3>5. FrameInv'
        BY <3>1 DEF FrameInv
      <3> QED
        BY <3>2, <3>3, <3>4, <3>5 DEF CameraInv
    <2>4. ASSUME NEW fails \in BOOLEAN, QueueBuffer(fails) PROVE CameraInv'
      <3>1. pc = "qbuf" /\ pc' \in {"qbuf", "aborted"} /\ i < ReqCount
        BY <2>4 DEF QueueBuffer
      <3> DEFINE longer == Append(queued, i)
      <3>2. /\ longer \in Seq(Nat) /\ Len(longer) = Len(queued) + 1
            /\ Elements(longer) = Elements(queued) \cup {i}
        BY <2>0, ElementsAppend DEF BufferTypes
      <3>7. \/ pc' = "aborted" /\ queued' = queued
            \/ pc' = "qbuf" /\ queued' = longer
        BY <2>4 DEF QueueBuffer
      <3> HIDE DEF longer
      <3>3. BufferTypes'
        <4>1. queued' \in Seq(Nat)
          BY <2>0, <3>2, <3>7 DEF BufferTypes
        <4> QED
          BY <2>0, <2>4, <3>1, <4>1 DEF QueueBuffer, device, BufferTypes
      <3>4. BufferPlaces'
        <4>1. CASE pc' = "aborted"
          BY <4>1 DEF BufferPlaces
        <4>2. CASE pc' = "qbuf"
          <5>1. queued' = longer /\ i' = i + 1 /\ filled' = filled /\ bufindex' = bufindex
            BY <2>4, <3>7, <4>2 DEF QueueBuffer
          <5>2. i \in Nat /\ Len(queued) = i /\ Elements(queued) = 0..i - 1 /\ filled = <<>>
                /\ bufindex = NoBuffer
            BY <2>0, <3>1 DEF BufferTypes, BufferPlaces
          <5>3. (0..i - 1) \cup {i} = 0..(i + 1) - 1
            BY <5>2
          <5>4. /\ i' <= ReqCount /\ filled' = <<>>
                /\ Len(queued') = i' /\ Elements(queued') = 0..i' - 1 /\ bufindex' = NoBuffer
            <6>1. i' <= ReqCount /\ filled' = <<>> /\ bufindex' = NoBuffer
              BY <3>1, <5>1, <5>2
            <6>2. Len(queued') = i'
              BY <3>2, <5>1, <5>2
            <6>3. Elements(queued') = 0..i' - 1
              BY <3>2, <5>1, <5>2, <5>3, Zenon
            <6> QED
              BY <6>1, <6>2, <6>3
          <5> QED
            BY <4>2, <5>4 DEF BufferPlaces
        <4> QED
          BY <3>1, <4>1, <4>2
      <3>5. BufferMaps'
        BY <2>0, <2>4, <3>1 DEF QueueBuffer, device, BufferMaps
      <3>6. FrameInv'
        BY <3>1 DEF FrameInv
      <3> QED
        BY <3>3, <3>4, <3>5, <3>6 DEF CameraInv
    <2>5. ASSUME NEW fails \in BOOLEAN, StreamOn(fails) PROVE CameraInv'
      <3>1. Elements(<<>>) = {} /\ Len(<<>>) = 0
        BY DEF Elements
      <3>2. /\ pc = "qbuf" /\ i = ReqCount /\ filled = <<>> /\ Len(queued) = ReqCount
            /\ Elements(queued) = Buffers /\ bufindex = NoBuffer
        BY <2>0, <2>5 DEF StreamOn, BufferTypes, BufferPlaces, Buffers
      <3>3. pc' \in {"loop", "aborted"} /\ UNCHANGED <<i, device, driver, bufindex, picture>>
        BY <2>5 DEF StreamOn
      <3>4. BufferTypes' /\ BufferMaps' /\ FrameInv'
        BY <2>0, <3>2, <3>3 DEF device, driver, BufferTypes, BufferMaps, FrameInv
      <3>5. BufferPlaces'
        BY <3>1, <3>2, <3>3 DEF driver, BufferPlaces, Buffers
      <3> QED
        BY <3>4, <3>5 DEF CameraInv
    <2>6. ASSUME NEW fails \in BOOLEAN, StreamOff(fails) PROVE CameraInv'
      <3>1. pc = "streamoff" /\ pc' \in {"munmap", "aborted"} /\ i' = 0
            /\ UNCHANGED <<device, bufindex>> /\ queued' = <<>> /\ filled' = <<>>
        BY <2>6 DEF StreamOff
      <3>2. BufferTypes' /\ BufferPlaces' /\ FrameInv'
        BY <2>0, <3>1 DEF device, BufferTypes, BufferPlaces, FrameInv
      <3>3. BufferMaps'
        BY <2>0, <3>1 DEF device, BufferMaps, Buffers
      <3> QED
        BY <3>2, <3>3 DEF CameraInv
    <2>7. ASSUME NEW fails \in BOOLEAN, Unmap(fails) PROVE CameraInv'
      <3>1. pc = "munmap" /\ pc' \in {"munmap", "aborted", "released"}
            /\ UNCHANGED <<granted, driver, bufindex>>
        BY <2>7 DEF Unmap
      <3>2. BufferTypes' /\ BufferPlaces' /\ FrameInv'
        BY <2>0, <2>7, <3>1 DEF Unmap, driver, BufferTypes, BufferPlaces, FrameInv
      <3>3. BufferMaps'
        <4>1. mapped \subseteq i..ReqCount - 1 /\ i \in Nat
          BY <2>0, <3>1 DEF BufferMaps, BufferTypes
        <4>2. CASE i < ReqCount
          <5>1. pc' = "aborted" \/ (pc' = "munmap" /\ mapped' = mapped \ {i} /\ i' = i + 1)
            BY <2>7, <4>2, <3>1 DEF Unmap
          <5>2. mapped \ {i} \subseteq (i + 1)..ReqCount - 1
            BY <4>1, CountAssumption
          <5>3. CASE pc' = "aborted"
            BY <5>3 DEF BufferMaps
          <5>4. CASE pc' = "munmap" /\ mapped' = mapped \ {i} /\ i' = i + 1
            BY <5>2, <5>4 DEF BufferMaps
          <5> QED
            BY <5>1, <5>3, <5>4
        <4>3. CASE ~(i < ReqCount)
          <5>1. pc' = "released" /\ mapped' = mapped
            BY <2>7, <4>3 DEF Unmap
          <5>2. mapped = {}
            BY <4>1, <4>3
          <5> QED
            BY <5>1, <5>2 DEF BufferMaps
        <4> QED
          BY <4>2, <4>3
      <3> QED
        BY <3>2, <3>3 DEF CameraInv
    <2>8. ASSUME NEW outcome \in Outcomes, Select(outcome) PROVE CameraInv'
      <3>1. pc = "loop" /\ pc' \in {"dqbuf", "loop", "aborted"}
            /\ UNCHANGED <<i, device, driver, bufindex, picture>>
        BY <2>8 DEF Select, AfterSelect
      <3> QED
        BY <2>0, <3>1 DEF device, driver, picture, CameraInv, BufferTypes, BufferPlaces,
              BufferMaps, FrameInv
    <2>9. CASE LeaveLoop
      BY <2>0, <2>9 DEF LeaveLoop, device, driver, picture, CameraInv, BufferTypes,
            BufferPlaces, BufferMaps, FrameInv
    <2>10. CASE ReadFrameFails
      BY <2>0, <2>10 DEF ReadFrameFails, device, driver, picture, CameraInv, BufferTypes,
            BufferPlaces, BufferMaps, FrameInv
    <2>11. CASE Process
      <3>1. pc = "process" /\ pc' = "requeue" /\ UNCHANGED <<i, device, driver, bufindex>>
            /\ UNCHANGED <<image, captured>> /\ previous' = referenceYUYV422
            /\ motion' = YUYV422_motion_detect(referenceYUYV422, image)
        BY <2>11 DEF Process
      <3>2. BufferTypes' /\ BufferPlaces' /\ BufferMaps'
        BY <2>0, <3>1 DEF device, driver, BufferTypes, BufferPlaces, BufferMaps
      <3>3. FrameInv'
        BY <2>0, <3>1 DEF FrameInv
      <3> QED
        BY <3>2, <3>3 DEF CameraInv
    <2>12. CASE Requeue
      <3> DEFINE longer == Append(queued, bufindex)
      <3>1. pc = "requeue" /\ pc' = "loop" /\ UNCHANGED <<i, device, filled>>
            /\ bufindex' = NoBuffer /\ queued' = longer
        BY <2>12 DEF Requeue, RequeuedIndex
      <3>2. bufindex \in Nat /\ queued \in Seq(Nat) /\ filled \in Seq(Nat)
        BY <2>0, <3>1 DEF BufferTypes, BufferPlaces
      <3>3. /\ longer \in Seq(Nat) /\ Len(longer) = Len(queued) + 1
            /\ Elements(longer) = Elements(queued) \cup {bufindex}
        BY <3>2, ElementsAppend
      <3> HIDE DEF longer
      <3>4. BufferTypes' /\ BufferMaps' /\ FrameInv'
        BY <2>0, <3>1, <3>3 DEF device, BufferTypes, BufferMaps, FrameInv
      <3>5. /\ Len(queued') + Len(filled') = ReqCount
            /\ Elements(queued') \cup Elements(filled') = Buffers
        BY <2>0, <3>1, <3>2, <3>3 DEF BufferPlaces
      <3>6. BufferPlaces'
        BY <3>1, <3>5 DEF BufferPlaces
      <3> QED
        BY <3>4, <3>6 DEF CameraInv
    <2>13. ASSUME NEW f \in Frames, Dequeue(f) PROVE CameraInv'
      <3> DEFINE first == Head(filled)
                 rest == Tail(filled)
      <3>1. pc = "dqbuf" /\ filled # <<>> /\ pc' \in {"process", "aborted"}
            /\ bufindex' = first /\ filled' = rest /\ image' = f /\ captured' = f
            /\ UNCHANGED <<i, device, queued>>
        BY <2>13 DEF Dequeue
      <3>2. queued \in Seq(Nat) /\ filled \in Seq(Nat)
        BY <2>0 DEF BufferTypes
      <3>3. /\ first \in Nat /\ rest \in Seq(Nat) /\ Len(filled) = Len(rest) + 1
            /\ Elements(filled) = Elements(rest) \cup {first}
        BY <3>1, <3>2, ElementsTail
      <3> HIDE DEF first, rest
      <3>4. BufferTypes' /\ BufferMaps' /\ FrameInv'
        BY <2>0, <3>1, <3>3 DEF device, BufferTypes, BufferMaps, FrameInv
      <3>5. /\ bufindex' \in Nat
            /\ Len(queued') + Len(filled') + 1 = ReqCount
            /\ Elements(queued') \cup Elements(filled') \cup {bufindex'} = Buffers
        BY <2>0, <3>1, <3>2, <3>3 DEF BufferPlaces
      <3>6. BufferPlaces'
        BY <3>1, <3>5 DEF BufferPlaces
      <3> QED
        BY <3>4, <3>6 DEF CameraInv
    <2>14. CASE Fill
      <3> DEFINE first == Head(queued)
                 rest == Tail(queued)
                 longer == Append(filled, first)
      <3>1. pc \in Capturing \cup {"streamoff"} /\ queued # <<>>
            /\ queued' = rest /\ filled' = longer
            /\ UNCHANGED <<pc, i, device, bufindex, captured, previous, motion>>
            /\ (bufindex # first => image' = image)
        BY <2>14 DEF Fill, Streaming
      <3>2. queued \in Seq(Nat) /\ filled \in Seq(Nat)
        BY <2>0 DEF BufferTypes
      <3>3. /\ first \in Nat /\ rest \in Seq(Nat) /\ Len(queued) = Len(rest) + 1
            /\ Elements(queued) = Elements(rest) \cup {first}
        BY <3>1, <3>2, ElementsTail
      <3> HIDE DEF first, rest
      <3>4. /\ longer \in Seq(Nat) /\ Len(longer) = Len(filled) + 1
            /\ Elements(longer) = Elements(filled) \cup {first}
        BY <3>2, <3>3, ElementsAppend
      <3> HIDE DEF longer
      <3>5. BufferTypes' /\ BufferMaps'
        BY <2>0, <3>1, <3>3, <3>4 DEF device, BufferTypes, BufferMaps
      <3>6. /\ Len(queued') + Len(filled') = Len(queued) + Len(filled)
            /\ Elements(queued') \cup Elements(filled') = Elements(queued) \cup Elements(filled)
        BY <3>1, <3>2, <3>3, <3>4
      <3>7. BufferPlaces'
        BY <2>0, <3>1, <3>6 DEF BufferPlaces
      <3>8. pc \in {"process", "requeue"} => bufindex # first
        <4> SUFFICES ASSUME pc \in {"process", "requeue"} PROVE bufindex # first
          OBVIOUS
        <4>1. /\ bufindex \in Nat /\ Len(queued) + Len(filled) + 1 = ReqCount
              /\ Elements(queued) \cup Elements(filled) \cup {bufindex} = Buffers
          BY <2>0 DEF BufferPlaces
        <4> QED
          BY <3>1, <3>2, <4>1, HeadNotHeld DEF first
      <3>9. FrameInv'
        BY <2>0, <3>1, <3>8 DEF FrameInv
      <3> QED
        BY <3>5, <3>7, <3>9 DEF CameraInv
    <2>15. CASE Sigint \/ UNCHANGED vars
      <3>1. UNCHANGED <<pc, i, device, driver, bufindex, picture>>
        BY <2>15 DEF Sigint, vars
      <3>2. BufferTypes'
        BY <2>0, <3>1 DEF device, driver, BufferTypes
      <3>3. BufferPlaces'
        BY <2>0, <3>1 DEF driver, BufferPlaces
      <3>4. BufferMaps'
        BY <2>0, <3>1 DEF device, BufferMaps
      <3>5. FrameInv'
        BY <2>0, <3>1 DEF picture, FrameInv
      <3> QED
        BY <3>2, <3>3, <3>4, <3>5 DEF CameraInv
    <2> QED
      BY <2>1, <2>2, <2>3, <2>4, <2>5, <2>6, <2>7, <2>8, <2>9, <2>10, <2>11, <2>12, <2>13,
         <2>14, <2>15 DEF Next, Program
  <1> QED
    BY <1>1, <1>2, PTL DEF Spec

----------------------------------------------------------------------------
(* The theorems *)

\* read_frame() and the driver lose no buffer and hold none twice, for every
\* number of buffers asked for and granted, and dmd_video_close() leaves none
\* mapped.
THEOREM BuffersAreConserved == Spec => []BuffersConserved
  <1>1. CameraInv => BuffersConserved
    <2> SUFFICES ASSUME CameraInv PROVE BuffersConserved
      OBVIOUS
    <2> DEFINE held == IF bufindex = NoBuffer THEN <<>> ELSE <<bufindex>>
               both == queued \o filled
    <2>1. BufferTypes /\ BufferPlaces /\ BufferMaps
      BY DEF CameraInv
    <2>2. queued \in Seq(Nat) /\ filled \in Seq(Nat)
      BY <2>1 DEF BufferTypes
    <2>3. /\ both \in Seq(Nat) /\ Len(both) = Len(queued) + Len(filled)
          /\ Elements(both) = Elements(queued) \cup Elements(filled)
      BY <2>2, ElementsConcat
    <2> HIDE DEF both
    <2>4. Len(queued) \in Nat /\ Len(filled) \in Nat
      BY <2>2
    <2>5. CASE pc \in {"loop", "dqbuf"}
      <3>1. held \in Seq(Nat) /\ Len(held) = 0 /\ Elements(held) = {}
        BY <2>1, <2>5 DEF BufferPlaces, Elements
      <3> HIDE DEF held
      <3>2. /\ Len(both \o held) = Len(both) + Len(held)
            /\ Elements(both \o held) = Elements(both) \cup Elements(held)
        BY <2>3, <3>1, ElementsConcat
      <3>3. Len(both \o held) = ReqCount /\ Elements(both \o held) = Buffers
        BY <2>1, <2>3, <2>4, <2>5, <3>1, <3>2 DEF BufferPlaces
      <3> QED
        BY <2>5, <3>3 DEF BuffersConserved, both, held
    <2>6. CASE pc \in {"process", "requeue"}
      <3>1. bufindex \in Nat /\ bufindex # NoBuffer
        BY <2>1, <2>6 DEF BufferPlaces, NoBuffer
      <3>2. held \in Seq(Nat) /\ Len(held) = 1 /\ Elements(held) = {bufindex}
        BY <3>1 DEF Elements
      <3> HIDE DEF held
      <3>3. /\ Len(both \o held) = Len(both) + Len(held)
            /\ Elements(both \o held) = Elements(both) \cup Elements(held)
        BY <2>3, <3>2, ElementsConcat
      <3>4. Len(both \o held) = ReqCount /\ Elements(both \o held) = Buffers
        BY <2>1, <2>3, <2>4, <2>6, <3>2, <3>3 DEF BufferPlaces
      <3> QED
        BY <2>6, <3>4 DEF BuffersConserved, both, held
    <2>7. CASE pc \notin Capturing
      BY <2>1, <2>7 DEF BuffersConserved, BufferMaps, Streaming, Capturing
    <2> QED
      BY <2>5, <2>6, <2>7 DEF Capturing
  <1> QED
    BY <1>1, CameraInvariant, PTL

\* The motion detection of process_image() reports motion exactly if at least
\* diff_pixels pixels differ from the frame before, for every image size and
\* every image.
THEOREM MotionIsTheChange == Spec => []MotionIsChange
  <1>1. CameraInv => MotionIsChange
    BY DetectsChange DEF CameraInv, FrameInv, MotionIsChange
  <1> QED
    BY <1>1, CameraInvariant, PTL

\* YUYV422toYUV420P() puts every sample of every image where the planes have
\* it, and fills them.
THEOREM PlanarConversionIsExact == Spec => []PlanarIsExact
  <1>1. CameraInv => PlanarIsExact
    BY PlanarExact, PlanarFilled DEF PlanarIsExact
  <1> QED
    BY <1>1, CameraInvariant, PTL

\* YUYV422toRGB888INT() stays within 2.04 of the formulas it stands for, in
\* every pixel of every image.
THEOREM RgbConversionIsClose == Spec => []RgbIsClose
  <1>1. CameraInv => RgbIsClose
    <2> SUFFICES ASSUME CameraInv, pc = "process",
                        NEW l \in 0..Height - 1, NEW c \in 0..Width - 1, NEW channel \in 1..3
                 PROVE  Abs(100000 * YUYV422toRGB888INT(image, l * Width + c)[channel]
                            - ExactRGB(image, l, c)[channel]) < 204000
      BY DEF RgbIsClose
    <2>1. image \in [Offsets -> 0..255]
      BY FramesAssumption DEF CameraInv, FrameInv
    <2> QED
      BY <2>1, RgbClose
  <1> QED
    BY <1>1, CameraInvariant, PTL
=============================================================================
