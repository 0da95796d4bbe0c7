------------------------- MODULE ClientCaptureProofs -------------------------
(***************************************************************************)
(* Proofs about the capturing client, for every working mode, duration and *)
(* bound.                                                                  *)
(***************************************************************************)
EXTENDS ClientCapture, FiniteSetTheorems, TLAPS

-----------------------------------------------------------------------------
(* The statistics operators *)

\* A new motion is a motion, and so not NULL.
LEMMA NewMotionType ==
  ASSUME NEW time \in Nat
  PROVE  new_motion(time) \in Motion /\ new_motion(time) # NULL
  BY NullIsNoMotion DEF new_motion, Motion

\* add_motion puts the motion in front of the list and leaves current_motion
\* alone.
LEMMA AddMotionType ==
  ASSUME NEW s \in Stats, NEW m \in Motion
  PROVE  /\ add_motion(s, m) \in Stats
         /\ add_motion(s, m).motion_list = <<m>> \o s.motion_list
         /\ add_motion(s, m).current_motion = s.current_motion
  <1>0. /\ s.motion_list \in Seq(Motion)
        /\ m.pictures \in Nat /\ m.video_frames \in Nat
        /\ s.num_motions \in Nat /\ s.total_pictures \in Nat
        /\ s.total_video_frames \in Nat
    BY DEF Stats, Motion
  <1>a. <<m>> \in Seq(Motion)
    OBVIOUS
  <1>b. <<m>> \o s.motion_list \in Seq(Motion)
    BY <1>0, <1>a
  <1>1. CASE s.motion_list = <<>>
    <2>1. <<m>> \o s.motion_list = <<m>>
      BY <1>1, <1>a
    <2> QED
      BY <1>0, <1>1, <1>a, <2>1 DEF add_motion, Stats
  <1>2. CASE s.motion_list # <<>>
    <2> DEFINE l == <<m>> \o s.motion_list
               n == s.num_motions + 1
               p == s.total_pictures + m.pictures
               v == s.total_video_frames + m.video_frames
    <2>1. l \in Seq(Motion) /\ n \in Nat /\ p \in Nat /\ v \in Nat
      BY <1>0, <1>b
    <2>2. add_motion(s, m) = [s EXCEPT !.motion_list = l, !.num_motions = n,
                                       !.total_pictures = p,
                                       !.total_video_frames = v]
      BY <1>2 DEF add_motion
    <2> HIDE DEF l, n, p, v
    <2>3. /\ add_motion(s, m) \in Stats
          /\ add_motion(s, m).motion_list = l
          /\ add_motion(s, m).current_motion = s.current_motion
      BY <2>1, <2>2 DEF Stats
    <2> QED
      BY <2>3 DEF l
  <1> QED
    BY <1>1, <1>2

\* The closed motion is the current one with its end time set.
LEMMA EndedType ==
  ASSUME NEW s \in Stats, NEW time \in Nat, s.current_motion # NULL
  PROVE  /\ ended(s, time) \in Motion
         /\ ended(s, time).start = s.current_motion.start
         /\ ended(s, time).end = time
  BY DEF ended, Stats, Motion

\* After begin_motion there is a current motion; the list stands.
LEMMA BeginMotionType ==
  ASSUME NEW s \in Stats, NEW time \in Nat
  PROVE  /\ begin_motion(s, time) \in Stats
         /\ begin_motion(s, time).current_motion # NULL
         /\ begin_motion(s, time).motion_list = s.motion_list
  BY NewMotionType DEF begin_motion, Stats

\* After end_motion there is no current motion: it is in front of the list.
LEMMA EndMotionType ==
  ASSUME NEW s \in Stats, NEW time \in Nat
  PROVE  /\ end_motion(s, time) \in Stats
         /\ end_motion(s, time).current_motion = NULL
         /\ s.current_motion = NULL => end_motion(s, time) = s
         /\ s.current_motion # NULL =>
              end_motion(s, time).motion_list
                = <<ended(s, time)>> \o s.motion_list
  <1>1. CASE s.current_motion = NULL
    BY <1>1 DEF end_motion
  <1>2. CASE s.current_motion # NULL
    <2> DEFINE a == add_motion(s, ended(s, time))
    <2>1. a \in Stats /\ a.motion_list = <<ended(s, time)>> \o s.motion_list
      BY <1>2, EndedType, AddMotionType
    <2>2. end_motion(s, time) = [a EXCEPT !.current_motion = NULL]
      BY <1>2 DEF end_motion
    <2> HIDE DEF a
    <2> QED
      BY <1>2, <2>1, <2>2 DEF Stats
  <1> QED
    BY <1>1, <1>2

\* Counting a picture touches the current motion only.
LEMMA CountPictureType ==
  ASSUME NEW s \in Stats
  PROVE  /\ count_picture(s) \in Stats
         /\ count_picture(s).motion_list = s.motion_list
         /\ count_picture(s).current_motion = NULL <=> s.current_motion = NULL
  <1>1. CASE s.current_motion = NULL
    BY <1>1 DEF count_picture
  <1>2. CASE s.current_motion # NULL
    <2> DEFINE m == [s.current_motion EXCEPT !.pictures = @ + 1]
    <2>0. s.current_motion \in Motion
      BY <1>2 DEF Stats
    <2>1. m \in Motion /\ m # NULL
      BY <2>0, NullIsNoMotion DEF Motion
    <2>2. count_picture(s) = [s EXCEPT !.current_motion = m]
      BY <1>2 DEF count_picture, Stats
    <2> HIDE DEF m
    <2> QED
      BY <1>2, <2>1, <2>2 DEF Stats
  <1> QED
    BY <1>1, <1>2

\* Naming the video touches the current motion only.
LEMMA NameVideoType ==
  ASSUME NEW s \in Stats, NEW path \in Nat \cup {NULL}
  PROVE  /\ name_video(s, path) \in Stats
         /\ name_video(s, path).motion_list = s.motion_list
         /\ name_video(s, path).current_motion = NULL
              <=> s.current_motion = NULL
  <1>1. CASE s.current_motion = NULL
    BY <1>1 DEF name_video
  <1>2. CASE s.current_motion # NULL
    <2> DEFINE m == [s.current_motion EXCEPT !.video_path = path]
    <2>0. s.current_motion \in Motion
      BY <1>2 DEF Stats
    <2>1. m \in Motion /\ m # NULL
      BY <2>0, NullIsNoMotion DEF Motion
    <2>2. name_video(s, path) = [s EXCEPT !.current_motion = m]
      BY <1>2 DEF name_video, Stats
    <2> HIDE DEF m
    <2> QED
      BY <1>2, <2>1, <2>2 DEF Stats
  <1> QED
    BY <1>1, <1>2

\* Counting a frame leaves a motion to count on.
LEMMA CountFrameType ==
  ASSUME NEW s \in Stats, has_motion(s)
  PROVE  /\ count_frame(s) \in Stats
         /\ has_motion(count_frame(s))
  <1>1. CASE s.current_motion = NULL
    <2> DEFINE m == [s.motion_list[1] EXCEPT !.video_frames = @ + 1]
               l == [s.motion_list EXCEPT ![1] = m]
    <2>0. s.motion_list \in Seq(Motion) /\ s.motion_list # <<>>
      BY <1>1 DEF has_motion, Stats
    <2>1. s.motion_list[1] \in Motion
      BY <2>0
    <2>2. m \in Motion
      BY <2>1 DEF Motion
    <2>3. l \in Seq(Motion) /\ l # <<>>
      BY <2>0, <2>2
    <2>4. count_frame(s) = [s EXCEPT !.motion_list = l]
      BY <1>1 DEF count_frame, Stats
    <2> HIDE DEF l
    <2> QED
      BY <1>1, <2>3, <2>4 DEF Stats, has_motion
  <1>2. CASE s.current_motion # NULL
    <2> DEFINE m == [s.current_motion EXCEPT !.video_frames = @ + 1]
    <2>0. s.current_motion \in Motion
      BY <1>2 DEF Stats
    <2>1. m \in Motion /\ m # NULL
      BY <2>0, NullIsNoMotion DEF Motion
    <2>2. count_frame(s) = [s EXCEPT !.current_motion = m]
      BY <1>2 DEF count_frame, Stats
    <2> HIDE DEF m
    <2> QED
      BY <1>2, <2>1, <2>2 DEF Stats, has_motion
  <1> QED
    BY <1>1, <1>2

\* The table holds motions.
LEMMA StoreCurrentType ==
  ASSUME NEW s \in Stats, NEW rows \in SUBSET Motion, NEW time \in Nat
  PROVE  store_current(rows, s, time) \in SUBSET Motion
  BY EndedType DEF store_current, insert_item

-----------------------------------------------------------------------------
(* Types *)

\* Initially the variables have their types.
LEMMA InitTypeOK == Init => TypeOK
  <1> SUFFICES ASSUME Init PROVE TypeOK
    OBVIOUS
  <1>1. stats \in Stats
    BY DEF Init, new_statistics, Stats
  <1>2. mpc \in MainLabels
    BY DEF Init, MainLabels
  <1>3. hpc \in [Threads -> HandlerLabels]
    BY DEF Init, HandlerLabels
  <1>4. /\ picture_mutex \in Mutex
        /\ video_mutex \in Mutex
        /\ stats_mutex \in {"none", "main"}
        /\ bufferYUYV_rwlock \in {"none", "main"}
    BY DEF Init, Mutex
  <1>5. /\ video_capturing_switch \in BOOLEAN
        /\ moving \in BOOLEAN
    BY DEF Init
  <1>6. /\ table \in SUBSET Motion
        /\ jpegs \in SUBSET Jpeg
        /\ flvs \in SUBSET Flv
    BY DEF Init
  <1> QED
    BY <1>1, <1>2, <1>3, <1>4, <1>5, <1>6, UIntAssumption, BoundsAssumption
       DEF Init, TypeOK, PictureLabels, VideoLabels, Targets, Mutex

\* An aborted process keeps the types of its last state.
LEMMA AbortTypeOK ==
  ASSUME TypeOK, NEW reason \in {"camera", "disk"}, Abort(reason)
  PROVE  TypeOK'
  BY DEF TypeOK, Abort, controls, targets, locks, detection, buffers, files,
         record, environment

\* The main thread's steps keep the types.
LEMMA MainTypeOK == ASSUME TypeOK, MainStep PROVE TypeOK'
  <1> USE BoundsAssumption, UIntAssumption
      DEF TypeOK, MainAt, data, controls, targets, locks, detection, buffers,
          files, record, environment, MainLabels, PictureLabels, VideoLabels,
          Targets, Mutex, Threads
  <1>1. CASE CreatePicture
    BY <1>1 DEF CreatePicture
  <1>2. CASE CreateVideo
    BY <1>2 DEF CreateVideo
  <1>3. CASE CountThread
    BY <1>3 DEF CountThread, Increment
  <1>4. CASE OpenDevice
    BY <1>4, AbortTypeOK DEF OpenDevice
  <1>5. CASE LoopTest
    BY <1>5 DEF LoopTest
  <1>6. CASE SelectInterrupted
    BY <1>6 DEF SelectInterrupted
  <1>7. CASE SelectFails
    BY <1>7, AbortTypeOK DEF SelectFails
  <1>8. CASE BufferIoctlFails
    BY <1>8 DEF BufferIoctlFails
  <1>9. ASSUME NEW motion \in BOOLEAN, Capture(motion) PROVE TypeOK'
    BY <1>9 DEF Capture
  <1>10. CASE RequeueBuffer
    BY <1>10 DEF RequeueBuffer
  <1>11. CASE LockStats
    BY <1>11 DEF LockStats
  <1>12. CASE MotionDetected
    BY <1>12, BeginMotionType DEF MotionDetected
  <1>13. CASE LockBuffer
    BY <1>13 DEF LockBuffer
  <1>14. CASE WriteBuffer
    BY <1>14 DEF WriteBuffer
  <1>15. CASE LockPicture
    BY <1>15 DEF LockPicture
  <1>16. CASE LockVideo
    BY <1>16 DEF LockVideo
  <1>17. CASE TellPicture
    BY <1>17 DEF TellPicture, Signalled
  <1>18. CASE TellVideo
    BY <1>18 DEF TellVideo, Signalled
  <1>19. CASE CheckSwitch
    BY <1>19 DEF CheckSwitch
  <1>20. CASE CheckElapsed
    <2>1. video_capturing_switch' \in BOOLEAN
      BY <1>20 DEF CheckElapsed
    <2>2. mpc' \in MainLabels /\ UNCHANGED <<ppc, vpc, hpc>>
      BY <1>20 DEF CheckElapsed
    <2> QED
      BY <1>20, <2>1, <2>2 DEF CheckElapsed
  <1>21. CASE EndMotion
    <2>1. stats' \in Stats
      BY <1>21, EndMotionType DEF EndMotion
    <2>2. table' \in SUBSET Motion
      BY <1>21, StoreCurrentType DEF EndMotion, StoreCurrent
    <2> QED
      BY <1>21, <2>1, <2>2 DEF EndMotion
  <1>22. CASE LastMotion
    <2>0. clock \in Nat
      OBVIOUS
    <2>1. stats' \in Stats
      BY <1>22, <2>0, EndMotionType DEF LastMotion
    <2>2. table' \in SUBSET Motion
      BY <1>22, <2>0, StoreCurrentType DEF LastMotion, StoreCurrent
    <2> QED
      BY <1>22, <2>1, <2>2 DEF LastMotion
  <1>23. CASE TotalThread
    BY <1>23 DEF TotalThread
  <1>24. CASE FreeBuffers
    BY <1>24, AbortTypeOK DEF FreeBuffers
  <1>25. CASE JoinThreads
    BY <1>25 DEF JoinThreads
  <1>26. CASE DumpStatistics
    BY <1>26 DEF DumpStatistics
  <1> QED
    BY <1>1, <1>2, <1>3, <1>4, <1>5, <1>6, <1>7, <1>8, <1>9, <1>10, <1>11,
       <1>12, <1>13, <1>14, <1>15, <1>16, <1>17, <1>18, <1>19, <1>20, <1>21,
       <1>22, <1>23, <1>24, <1>25, <1>26 DEF MainStep

\* A local time is a number of seconds.
LEMMA LocalTimeType ==
  ASSUME TypeOK PROVE LocalTime(clock) \in Nat
  <1>1. clock \in Nat
    BY BoundsAssumption DEF TypeOK
  <1> QED
    BY <1>1, DstAssumption DEF LocalTime

\* The picture thread's steps keep the types.
LEMMA PictureTypeOK ==
  ASSUME TypeOK, PictureStep \/ PictureWakes PROVE TypeOK'
  <1> USE BoundsAssumption, UIntAssumption
      DEF TypeOK, PictureAt, data, controls, targets, locks, detection,
          buffers, files, record, environment, PictureLabels, Targets, Mutex,
          Threads
  <1>1. CASE PictureWakes
    BY <1>1 DEF PictureWakes
  <1>2. CASE PictureTakes
    BY <1>2 DEF PictureTakes, AfterTaking
  <1>3. CASE PictureReads
    BY <1>3 DEF PictureReads
  <1>4. CASE PictureWrites
    <2>1. CASE Abort("disk")
      BY <2>1, AbortTypeOK
    <2>2. CASE ~Abort("disk")
      <3>1. jpegs' \in SUBSET Jpeg
        BY <1>4, <2>2, LocalTimeType DEF PictureWrites, JpegPath, Jpeg, JpegName
      <3> QED
        BY <1>4, <2>2, <3>1 DEF PictureWrites
    <2> QED
      BY <2>1, <2>2
  <1>5. CASE PictureCounts
    BY <1>5, CountPictureType DEF PictureCounts
  <1>6. CASE PictureExits
    BY <1>6 DEF PictureExits, Decrement
  <1> QED
    BY <1>1, <1>2, <1>3, <1>4, <1>5, <1>6 DEF PictureStep

\* The video thread's steps keep the types.
LEMMA VideoTypeOK ==
  ASSUME TypeOK, VideoStep \/ VideoWakes PROVE TypeOK'
  <1> USE BoundsAssumption, UIntAssumption
      DEF TypeOK, VideoAt, data, controls, targets, locks, detection,
          buffers, files, record, environment, VideoLabels, Targets, Mutex,
          Threads
  <1>1. CASE VideoWakes
    BY <1>1 DEF VideoWakes
  <1>2. CASE VideoTakes
    BY <1>2 DEF VideoTakes, AfterTaking
  <1>3. CASE VideoSwitches
    BY <1>3 DEF VideoSwitches
  <1>4. CASE VideoNames
    BY <1>4, LocalTimeType DEF VideoNames
  <1>5. CASE VideoSetsPath
    <2>1. CASE Abort("disk")
      BY <2>1, AbortTypeOK
    <2>2. CASE ~Abort("disk")
      <3>1. stats' \in Stats
        BY <1>5, <2>2, NameVideoType DEF VideoSetsPath
      <3>2. flvs' \in SUBSET Flv
        BY <1>5, <2>2 DEF VideoSetsPath, Flv
      <3> QED
        BY <1>5, <2>2, <3>1, <3>2 DEF VideoSetsPath
    <2> QED
      BY <2>1, <2>2
  <1>6. CASE VideoEncodes
    <2>1. CASE Abort("disk")
      BY <2>1, AbortTypeOK
    <2>2. CASE ~Abort("disk")
      <3>1. flvs' \in SUBSET Flv
        BY <1>6, <2>2 DEF VideoEncodes, Flv
      <3> QED
        BY <1>6, <2>2, <3>1 DEF VideoEncodes
    <2> QED
      BY <2>1, <2>2
  <1>7. CASE VideoCounts
    BY <1>7, CountFrameType DEF VideoCounts
  <1>8. CASE VideoExits
    BY <1>8 DEF VideoExits, Decrement
  <1> QED
    BY <1>1, <1>2, <1>3, <1>4, <1>5, <1>6, <1>7, <1>8 DEF VideoStep

\* The signal handler's steps keep the types.
LEMMA HandlerTypeOK ==
  ASSUME TypeOK, NEW t \in Threads, Interrupt(t) \/ HandlerStep(t)
  PROVE  TypeOK'
  <1> USE BoundsAssumption
      DEF TypeOK, controls, targets, locks, detection, buffers, files,
          record, environment, PictureLabels, VideoLabels, HandlerLabels,
          Targets
  <1>1. CASE Interrupt(t)
    BY <1>1 DEF Interrupt
  <1>2. CASE HandlerTellsPicture(t)
    BY <1>2 DEF HandlerTellsPicture, Signalled
  <1>3. CASE HandlerTellsVideo(t)
    BY <1>3 DEF HandlerTellsVideo, Signalled
  <1>4. CASE HandlerStops(t)
    BY <1>4 DEF HandlerStops
  <1> QED
    BY <1>1, <1>2, <1>3, <1>4 DEF HandlerStep

\* The clock and the end of the process keep the types.
LEMMA EnvironmentTypeOK ==
  ASSUME TypeOK, Tick \/ Gone \/ UNCHANGED vars PROVE TypeOK'
  BY BoundsAssumption
     DEF TypeOK, Tick, Gone, vars, controls, targets, locks, detection,
         buffers, files, record, environment

\* Every variable has its type in every reachable state; in particular
\* total_thread stays an unsigned int although a thread may count itself out
\* before the main thread has counted it in (src/main.c client_create_thread).
THEOREM TypeCorrect == Spec => []TypeOK
  <1>1. TypeOK /\ [Next]_vars => TypeOK'
    BY MainTypeOK, PictureTypeOK, VideoTypeOK, HandlerTypeOK,
       EnvironmentTypeOK DEF Next
  <1> QED
    BY InitTypeOK, <1>1, PTL DEF Spec

-----------------------------------------------------------------------------
(* The assertions of video_thread and dump_statistics *)

\* Wherever a frame is on its way to the video thread, in it, or may be sent
\* to it because the recording is on, there is a motion to count it on.
MotionForFrames ==
  \/ video_capturing_switch = TRUE
  \/ video_target = "video"
  \/ vpc \in {"switch", "name", "path", "read", "count"}
  \/ mpc \in {"write_lock", "write", "notify_picture_lock", "notify_picture",
              "notify_video_lock", "notify_video"}
  => has_motion(stats)

AssertInv ==
  /\ MotionForFrames
  /\ well_counted(stats)
  /\ AssertionsHold

\* What the changes of the statistics preserve.
StatsKept ==
  /\ has_motion(stats) => has_motion(stats')
  /\ well_counted(stats) => well_counted(stats')

\* begin_motion gives a motion to count on and keeps the list counted.
LEMMA BeginMotionKept ==
  ASSUME NEW s \in Stats, NEW time \in Nat
  PROVE  /\ has_motion(begin_motion(s, time))
         /\ well_counted(s) => well_counted(begin_motion(s, time))
  BY BeginMotionType DEF has_motion, well_counted, begin_motion, Stats

\* end_motion takes no motion away and keeps the list counted.
LEMMA EndMotionKept ==
  ASSUME NEW s \in Stats, NEW time \in Nat
  PROVE  /\ has_motion(s) => has_motion(end_motion(s, time))
         /\ well_counted(s) => well_counted(end_motion(s, time))
  <1>1. CASE s.current_motion = NULL
    BY <1>1, EndMotionType
  <1>2. CASE s.current_motion # NULL
    <2> DEFINE m == ended(s, time)
               a == add_motion(s, m)
    <2>0. m \in Motion
      BY <1>2, EndedType
    <2>1. a \in Stats /\ a.motion_list = <<m>> \o s.motion_list
      BY <2>0, AddMotionType
    <2>2. s.motion_list \in Seq(Motion) /\ s.num_motions \in Nat
      BY DEF Stats
    <2>3. Len(<<m>> \o s.motion_list) = Len(s.motion_list) + 1
      BY <2>0, <2>2
    <2>4. <<m>> \o s.motion_list # <<>>
      BY <2>0, <2>2
    <2>5. well_counted(s) => a.num_motions = Len(s.motion_list) + 1
      <3>1. CASE s.motion_list = <<>>
        BY <3>1, <2>2 DEF add_motion, well_counted, Stats
      <3>2. CASE s.motion_list # <<>>
        BY <3>2, <2>2 DEF add_motion, well_counted, Stats
      <3> QED
        BY <3>1, <3>2
    <2>6. /\ end_motion(s, time).motion_list = <<m>> \o s.motion_list
          /\ end_motion(s, time).num_motions = a.num_motions
      BY <1>2, <2>1 DEF end_motion, Stats
    <2> QED
      BY <2>3, <2>4, <2>5, <2>6 DEF has_motion, well_counted
  <1> QED
    BY <1>1, <1>2

\* Counting a picture takes no motion away and keeps the list counted.
LEMMA CountPictureKept ==
  ASSUME NEW s \in Stats
  PROVE  /\ has_motion(s) => has_motion(count_picture(s))
         /\ well_counted(s) => well_counted(count_picture(s))
  <1>1. count_picture(s).num_motions = s.num_motions
    BY DEF count_picture, Stats
  <1> QED
    BY <1>1, CountPictureType DEF has_motion, well_counted

\* Naming the video takes no motion away and keeps the list counted.
LEMMA NameVideoKept ==
  ASSUME NEW s \in Stats, NEW path \in Nat \cup {NULL}
  PROVE  /\ has_motion(s) => has_motion(name_video(s, path))
         /\ well_counted(s) => well_counted(name_video(s, path))
  <1>1. name_video(s, path).num_motions = s.num_motions
    BY DEF name_video, Stats
  <1> QED
    BY <1>1, NameVideoType DEF has_motion, well_counted

\* Counting a frame keeps the list counted.
LEMMA CountFrameKept ==
  ASSUME NEW s \in Stats, has_motion(s)
  PROVE  well_counted(s) => well_counted(count_frame(s))
  <1>1. count_frame(s).num_motions = s.num_motions
    BY DEF count_frame, Stats
  <1>2. Len(count_frame(s).motion_list) = Len(s.motion_list)
    BY DEF count_frame, Stats
  <1> QED
    BY <1>1, <1>2 DEF well_counted

\* The main thread keeps AssertInv: it starts a motion before it hands the
\* frame on, and hands frames without motion on only while recording.
LEMMA MainAssert ==
  ASSUME TypeOK, AssertInv, MainStep PROVE AssertInv'
  <1> USE DEF AssertInv, MotionForFrames, AssertionsHold, MainAt, Abort, data,
          controls, targets, locks, detection, buffers, files, record,
          environment
  <1>0. stats \in Stats /\ now \in Nat /\ clock \in Nat
    BY BoundsAssumption DEF TypeOK
  <1>1. CASE CreatePicture
    BY <1>1 DEF CreatePicture
  <1>2. CASE CreateVideo
    BY <1>2 DEF CreateVideo
  <1>3. CASE CountThread
    BY <1>3 DEF CountThread
  <1>4. CASE OpenDevice
    BY <1>4 DEF OpenDevice
  <1>5. CASE LoopTest
    BY <1>5 DEF LoopTest
  <1>6. CASE SelectInterrupted
    BY <1>6 DEF SelectInterrupted
  <1>7. CASE SelectFails
    BY <1>7 DEF SelectFails
  <1>8. CASE BufferIoctlFails
    BY <1>8 DEF BufferIoctlFails
  <1>9. ASSUME NEW motion \in BOOLEAN, Capture(motion) PROVE AssertInv'
    BY <1>9 DEF Capture
  <1>10. CASE RequeueBuffer
    BY <1>10 DEF RequeueBuffer
  <1>11. CASE LockStats
    BY <1>11 DEF LockStats
  <1>12. CASE MotionDetected
    <2>1. has_motion(stats)' /\ well_counted(stats)'
      BY <1>0, <1>12, BeginMotionKept DEF MotionDetected
    <2> QED
      BY <1>12, <2>1 DEF MotionDetected
  <1>13. CASE LockBuffer
    BY <1>13 DEF LockBuffer
  <1>14. CASE WriteBuffer
    BY <1>14 DEF WriteBuffer
  <1>15. CASE LockPicture
    BY <1>15 DEF LockPicture
  <1>16. CASE LockVideo
    BY <1>16 DEF LockVideo
  <1>17. CASE TellPicture
    BY <1>17 DEF TellPicture
  <1>18. CASE TellVideo
    BY <1>18 DEF TellVideo, Signalled
  <1>19. CASE CheckSwitch
    <2>1. mpc' = "write_lock" => video_capturing_switch = TRUE
      BY <1>19 DEF CheckSwitch, TypeOK
    <2>2. mpc' \in {"write_lock", "check_elapsed"}
      BY <1>19 DEF CheckSwitch
    <2> QED
      BY <1>19, <2>1, <2>2 DEF CheckSwitch
  <1>20. CASE CheckElapsed
    <2>1. video_capturing_switch' = TRUE => video_capturing_switch = TRUE
      BY <1>20 DEF CheckElapsed, TypeOK
    <2>2. mpc' \in {"end_lock", "qbuf"} /\ UNCHANGED vpc
      BY <1>20 DEF CheckElapsed
    <2> QED
      BY <1>20, <2>1, <2>2 DEF CheckElapsed
  <1>21. CASE EndMotion
    <2>1. StatsKept
      BY <1>0, <1>21, EndMotionKept DEF EndMotion, StatsKept
    <2> QED
      BY <1>21, <2>1 DEF EndMotion, StatsKept
  <1>22. CASE LastMotion
    <2>1. StatsKept
      BY <1>0, <1>22, EndMotionKept DEF LastMotion, StatsKept
    <2> QED
      BY <1>22, <2>1 DEF LastMotion, StatsKept
  <1>23. CASE TotalThread
    BY <1>23 DEF TotalThread
  <1>24. CASE FreeBuffers
    BY <1>24 DEF FreeBuffers
  <1>25. CASE JoinThreads
    BY <1>25 DEF JoinThreads
  <1>26. CASE DumpStatistics
    BY <1>26 DEF DumpStatistics
  <1> QED
    BY <1>1, <1>2, <1>3, <1>4, <1>5, <1>6, <1>7, <1>8, <1>9, <1>10, <1>11,
       <1>12, <1>13, <1>14, <1>15, <1>16, <1>17, <1>18, <1>19, <1>20, <1>21,
       <1>22, <1>23, <1>24, <1>25, <1>26 DEF MainStep

\* The picture thread keeps AssertInv: it only changes the current motion.
LEMMA PictureAssert ==
  ASSUME TypeOK, AssertInv, PictureStep \/ PictureWakes PROVE AssertInv'
  <1> USE DEF AssertInv, MotionForFrames, AssertionsHold, PictureAt, Abort,
          data, controls, targets, locks, detection, buffers, files, record,
          environment
  <1>1. CASE PictureWakes
    BY <1>1 DEF PictureWakes
  <1>2. CASE PictureTakes
    BY <1>2 DEF PictureTakes
  <1>3. CASE PictureReads
    BY <1>3 DEF PictureReads
  <1>4. CASE PictureWrites
    BY <1>4 DEF PictureWrites
  <1>5. CASE PictureCounts
    <2>1. StatsKept
      BY <1>5, CountPictureKept DEF PictureCounts, StatsKept, TypeOK
    <2> QED
      BY <1>5, <2>1 DEF PictureCounts, StatsKept
  <1>6. CASE PictureExits
    BY <1>6 DEF PictureExits
  <1> QED
    BY <1>1, <1>2, <1>3, <1>4, <1>5, <1>6 DEF PictureStep

\* The video thread keeps AssertInv: it switches the recording on and counts
\* frames only for a frame it was told of, for which there is a motion.
LEMMA VideoAssert ==
  ASSUME TypeOK, AssertInv, VideoStep \/ VideoWakes PROVE AssertInv'
  <1> USE DEF AssertInv, MotionForFrames, AssertionsHold, VideoAt, Abort,
          data, controls, targets, locks, detection, buffers, files, record,
          environment
  <1>1. CASE VideoWakes
    BY <1>1 DEF VideoWakes
  <1>2. CASE VideoTakes
    BY <1>2 DEF VideoTakes, AfterTaking, TypeOK, Targets
  <1>3. CASE VideoSwitches
    BY <1>3 DEF VideoSwitches
  <1>4. CASE VideoNames
    BY <1>4, LocalTimeType DEF VideoNames
  <1>5. CASE VideoSetsPath
    <2>1. CASE Abort("disk")
      BY <2>1
    <2>2. CASE ~Abort("disk")
      <3>1. stats' = name_video(stats, flv_filepath) /\ crash' = crash
        BY <1>5, <2>2 DEF VideoSetsPath
      <3>2. StatsKept
        BY <3>1, NameVideoKept DEF StatsKept, TypeOK
      <3>3. has_motion(stats)
        BY <1>5 DEF VideoSetsPath
      <3> QED
        BY <3>1, <3>2, <3>3 DEF StatsKept
    <2> QED
      BY <2>1, <2>2
  <1>6. CASE VideoEncodes
    BY <1>6 DEF VideoEncodes
  <1>7. CASE VideoCounts
    <2>1. has_motion(stats)
      BY <1>7 DEF VideoCounts
    <2>2. stats' = count_frame(stats) /\ crash' = "no"
      BY <1>7, <2>1 DEF VideoCounts
    <2>3. has_motion(stats)' /\ well_counted(stats)'
      BY <2>1, <2>2, CountFrameType, CountFrameKept DEF TypeOK
    <2> QED
      BY <2>2, <2>3
  <1>8. CASE VideoExits
    BY <1>8 DEF VideoExits
  <1> QED
    BY <1>1, <1>2, <1>3, <1>4, <1>5, <1>6, <1>7, <1>8 DEF VideoStep

\* The handler and the environment keep AssertInv: they send no frame.
LEMMA OtherAssert ==
  ASSUME TypeOK, AssertInv,
         \/ \E t \in Threads : Interrupt(t) \/ HandlerStep(t)
         \/ Tick \/ Gone \/ UNCHANGED vars
  PROVE  AssertInv'
  <1> USE DEF AssertInv, MotionForFrames, AssertionsHold, controls, targets,
          locks, detection, buffers, files, record, environment
  <1>1. ASSUME NEW t \in Threads, Interrupt(t) \/ HandlerStep(t)
        PROVE  AssertInv'
    <2>1. CASE Interrupt(t)
      BY <2>1 DEF Interrupt
    <2>2. CASE HandlerTellsPicture(t)
      BY <2>2 DEF HandlerTellsPicture
    <2>3. CASE HandlerTellsVideo(t)
      BY <2>3 DEF HandlerTellsVideo, Signalled
    <2>4. CASE HandlerStops(t)
      BY <2>4 DEF HandlerStops
    <2> QED
      BY <1>1, <2>1, <2>2, <2>3, <2>4 DEF HandlerStep
  <1>2. CASE Tick \/ Gone \/ UNCHANGED vars
    BY <1>2 DEF Tick, Gone, vars
  <1> QED
    BY <1>1, <1>2

\* AssertInv holds in every reachable state.
LEMMA AssertInvariant == Spec => []AssertInv
  <1>1. Init => AssertInv
    <2> SUFFICES ASSUME Init PROVE AssertInv
      OBVIOUS
    <2>1. well_counted(stats) /\ video_capturing_switch # TRUE
      BY DEF Init, new_statistics, well_counted
    <2> QED
      BY <2>1 DEF Init, AssertInv, MotionForFrames, AssertionsHold
  <1>2. TypeOK /\ AssertInv /\ [Next]_vars => AssertInv'
    BY MainAssert, PictureAssert, VideoAssert, OtherAssert DEF Next
  <1> QED
    BY TypeCorrect, <1>1, <1>2, PTL DEF Spec

\* Neither assertion on the statistics can fail, whatever the interleaving
\* of the threads and the signal handler (src/client/video_thread.c:134,
\* src/statistics.c:180).
THEOREM AssertionsNeverFail == Spec => []AssertionsHold
  <1>1. AssertInv => AssertionsHold
    BY DEF AssertInv
  <1> QED
    BY AssertInvariant, <1>1, PTL

-----------------------------------------------------------------------------
(* What the steps do to the control of the threads *)

Creation == {"create_picture", "count_picture", "create_video", "count_video"}

Freed == {"free", "join", "dump_lock", "dump", "exited"}

\* A thread's pc and target as main or the handler may change them.
ToldOrSame(pc, target) ==
  \/ UNCHANGED <<pc, target>>
  \/ pc' = Signalled(pc)

\* A step of main other than those that create, count or test threads
MainControl ==
  /\ mpc \notin Creation /\ mpc' \notin Creation
  /\ mpc' \in Freed => mpc \in Freed
  /\ UNCHANGED <<total_thread, flv_filepath>>
  /\ video_capturing_switch' = TRUE => video_capturing_switch = TRUE
  /\ ToldOrSame(ppc, picture_target)
  /\ ToldOrSame(vpc, video_target)

\* Main's other steps have the effects MainControl names.
LEMMA MainControlled ==
  ASSUME TypeOK, MainStep,
         ~CreatePicture, ~CreateVideo, ~CountThread, ~TotalThread
  PROVE  MainControl
  <1> USE DEF MainControl, Creation, Freed, ToldOrSame, MainAt, Abort, data,
          controls, targets, locks, detection, buffers, files, record,
          environment
  <1>1. CASE OpenDevice \/ LoopTest \/ SelectInterrupted \/ SelectFails
    BY <1>1 DEF OpenDevice, LoopTest, SelectInterrupted, SelectFails
  <1>2. CASE BufferIoctlFails \/ RequeueBuffer
    BY <1>2 DEF BufferIoctlFails, RequeueBuffer
  <1>3. ASSUME NEW motion \in BOOLEAN, Capture(motion) PROVE MainControl
    BY <1>3 DEF Capture
  <1>4. CASE LockStats
    BY <1>4 DEF LockStats
  <1>5. CASE MotionDetected \/ LockBuffer \/ WriteBuffer
    BY <1>5 DEF MotionDetected, LockBuffer, WriteBuffer
  <1>6. CASE LockPicture \/ LockVideo
    BY <1>6 DEF LockPicture, LockVideo
  <1>7. CASE TellPicture
    BY <1>7 DEF TellPicture
  <1>8. CASE TellVideo
    BY <1>8 DEF TellVideo
  <1>9. CASE CheckSwitch
    BY <1>9 DEF CheckSwitch
  <1>10. CASE CheckElapsed
    <2>1. video_capturing_switch' = TRUE => video_capturing_switch = TRUE
      BY <1>10 DEF CheckElapsed, TypeOK
    <2>2. mpc' \in {"end_lock", "qbuf"} /\ UNCHANGED <<ppc, vpc>>
      BY <1>10 DEF CheckElapsed
    <2> QED
      BY <1>10, <2>1, <2>2 DEF CheckElapsed
  <1>11. CASE EndMotion \/ LastMotion
    BY <1>11 DEF EndMotion, LastMotion
  <1>12. CASE FreeBuffers \/ JoinThreads \/ DumpStatistics
    BY <1>12 DEF FreeBuffers, JoinThreads, DumpStatistics
  <1> QED
    BY <1>1, <1>2, <1>3, <1>4, <1>5, <1>6, <1>7, <1>8, <1>9, <1>10, <1>11,
       <1>12 DEF MainStep

\* The picture thread changes only its own control, and total_thread when
\* it exits.
LEMMA PictureControlled ==
  ASSUME TypeOK, PictureStep \/ PictureWakes
  PROVE  /\ UNCHANGED <<mpc, vpc, video_target, flv_filepath,
                        video_capturing_switch>>
         /\ \/ UNCHANGED <<ppc, picture_target>>
            \/ ppc \notin {"none", "done"} /\ ppc' \notin {"none", "done"}
            \/ PictureExits
         /\ PictureExits \/ UNCHANGED total_thread
         /\ ppc' = "wait" => picture_target' = "none"
  <1> USE DEF PictureAt, Abort, data, controls, targets, locks, detection,
          buffers, files, record, environment
  <1>1. CASE PictureWakes \/ PictureTakes
    BY <1>1 DEF PictureWakes, PictureTakes, AfterTaking
  <1>2. CASE PictureReads \/ PictureWrites \/ PictureCounts
    BY <1>2 DEF PictureReads, PictureWrites, PictureCounts
  <1>3. CASE PictureExits
    BY <1>3 DEF PictureExits
  <1> QED
    BY <1>1, <1>2, <1>3 DEF PictureStep

\* The video thread changes only its own control, and total_thread when it
\* exits; it has a file name whenever it is past naming.
LEMMA VideoControlled ==
  ASSUME TypeOK, VideoStep \/ VideoWakes
  PROVE  /\ UNCHANGED <<mpc, ppc, picture_target>>
         /\ \/ UNCHANGED <<vpc, video_target>>
            \/ vpc \notin {"none", "done"} /\ vpc' \notin {"none", "done"}
            \/ VideoExits
         /\ VideoExits \/ UNCHANGED total_thread
         /\ vpc' = "wait" => video_target' = "none"
  <1> USE DEF VideoAt, Abort, data, controls, targets, locks, detection,
          buffers, files, record, environment
  <1>1. CASE VideoWakes \/ VideoTakes
    BY <1>1 DEF VideoWakes, VideoTakes, AfterTaking
  <1>2. CASE VideoSwitches \/ VideoNames
    BY <1>2 DEF VideoSwitches, VideoNames
  <1>3. CASE VideoSetsPath \/ VideoEncodes \/ VideoCounts
    BY <1>3 DEF VideoSetsPath, VideoEncodes, VideoCounts
  <1>4. CASE VideoExits
    BY <1>4 DEF VideoExits
  <1> QED
    BY <1>1, <1>2, <1>3, <1>4 DEF VideoStep

\* The handler tells the threads to exit and changes nothing else here.
LEMMA OtherControlled ==
  ASSUME TypeOK,
         \/ \E t \in Threads : Interrupt(t) \/ HandlerStep(t)
         \/ Tick \/ Gone \/ UNCHANGED vars
  PROVE  /\ UNCHANGED <<mpc, total_thread, flv_filepath,
                        video_capturing_switch>>
         /\ ToldOrSame(ppc, picture_target)
         /\ ToldOrSame(vpc, video_target)
  <1> USE DEF ToldOrSame, controls, targets, locks, detection, buffers, files,
          record, environment
  <1> DEFINE Effects == /\ UNCHANGED <<mpc, total_thread, flv_filepath,
                                       video_capturing_switch>>
                        /\ ToldOrSame(ppc, picture_target)
                        /\ ToldOrSame(vpc, video_target)
  <1>1. ASSUME NEW t \in Threads, Interrupt(t) \/ HandlerStep(t)
        PROVE  Effects
    BY <1>1 DEF Interrupt, HandlerStep, HandlerTellsPicture,
                HandlerTellsVideo, HandlerStops
  <1>2. CASE Tick \/ Gone \/ UNCHANGED vars
    BY <1>2 DEF Tick, Gone, vars
  <1> QED
    BY <1>1, <1>2

-----------------------------------------------------------------------------
(* No lost wake-up *)

\* A thread never sleeps on its condition while it has something to do:
\* whoever sets a target, in src/client/image_capture.c or in
\* src/signal_handler.c, also wakes the thread.
THEOREM NoWakeupIsLost == Spec => []NoLostWakeup
  <1>1. Init => NoLostWakeup
    BY DEF Init, NoLostWakeup
  <1>2. ASSUME TypeOK, NoLostWakeup, [Next]_vars PROVE NoLostWakeup'
    <2> USE DEF NoLostWakeup, ToldOrSame, Signalled
    <2>1. CASE CreatePicture
      BY <1>2, <2>1 DEF CreatePicture, data, targets
    <2>2. CASE CreateVideo
      BY <1>2, <2>2 DEF CreateVideo, data, targets
    <2>3. CASE CountThread
      BY <1>2, <2>3 DEF CountThread, MainAt, targets
    <2>4. CASE TotalThread
      BY <1>2, <2>4 DEF TotalThread, MainAt, data, targets
    <2>5. CASE MainStep /\ ~CreatePicture /\ ~CreateVideo /\ ~CountThread
               /\ ~TotalThread
      BY <1>2, <2>5, MainControlled DEF MainControl
    <2>6. CASE PictureStep \/ PictureWakes
      BY <1>2, <2>6, PictureControlled
    <2>7. CASE VideoStep \/ VideoWakes
      BY <1>2, <2>7, VideoControlled
    <2>8. CASE \/ \E t \in Threads : Interrupt(t) \/ HandlerStep(t)
               \/ Tick \/ Gone \/ UNCHANGED vars
      BY <1>2, <2>8, OtherControlled
    <2> QED
      BY <1>2, <2>1, <2>2, <2>3, <2>4, <2>5, <2>6, <2>7, <2>8 DEF Next
  <1> QED
    BY TypeCorrect, <1>1, <1>2, PTL DEF Spec

-----------------------------------------------------------------------------
(* The threads are done when the buffers are freed *)

\* The threads main has counted in, less those that counted themselves out
Balance ==
  (IF HasPicture /\ mpc \notin {"create_picture", "count_picture"}
   THEN 1 ELSE 0)
  + (IF HasVideo /\ mpc \notin Creation THEN 1 ELSE 0)
  - (IF ppc = "done" THEN 1 ELSE 0)
  - (IF vpc = "done" THEN 1 ELSE 0)

ThreadInv ==
  /\ mpc \in {"create_picture", "count_picture"} => HasPicture
  /\ mpc \in {"create_video", "count_video"} => HasVideo
  /\ ppc # "none" <=> HasPicture /\ mpc # "create_picture"
  /\ vpc # "none" <=> HasVideo /\ mpc \notin Creation \ {"count_video"}
  /\ total_thread = IF Balance < 0 THEN Balance + UIntMax + 1 ELSE Balance
  /\ ThreadsDoneWhenFreed

\* total_thread is the balance of counted threads, modulo its width, at
\* every step: when main finds it 0 after all were counted in, all are out.
LEMMA ThreadInvKept ==
  ASSUME TypeOK, ThreadInv, [Next]_vars PROVE ThreadInv'
  <1> USE UIntAssumption
      DEF ThreadInv, Balance, Creation, Freed, ThreadsDoneWhenFreed,
          ToldOrSame, Signalled
  <1>0. total_thread \in 0 .. UIntMax
    BY DEF TypeOK
  <1>1. CASE CreatePicture
    BY <1>1 DEF CreatePicture, data, controls
  <1>2. CASE CreateVideo
    BY <1>2 DEF CreateVideo, data, controls
  <1>3. CASE CountThread
    BY <1>0, <1>3 DEF CountThread, Increment, MainAt, HasPicture, HasVideo
  <1>4. CASE TotalThread
    BY <1>0, <1>4 DEF TotalThread, MainAt, data, controls
  <1>5. CASE MainStep /\ ~CreatePicture /\ ~CreateVideo /\ ~CountThread
             /\ ~TotalThread
    BY <1>5, MainControlled DEF MainControl
  <1>6. CASE PictureStep \/ PictureWakes
    <2>1. CASE PictureExits
      BY <1>0, <1>6, <2>1, PictureControlled
         DEF PictureExits, Decrement, PictureAt
    <2>2. CASE ~PictureExits
      BY <1>6, <2>2, PictureControlled
    <2> QED
      BY <2>1, <2>2
  <1>7. CASE VideoStep \/ VideoWakes
    <2>1. CASE VideoExits
      BY <1>0, <1>7, <2>1, VideoControlled DEF VideoExits, Decrement, VideoAt
    <2>2. CASE ~VideoExits
      BY <1>7, <2>2, VideoControlled
    <2> QED
      BY <2>1, <2>2
  <1>8. CASE \/ \E t \in Threads : Interrupt(t) \/ HandlerStep(t)
             \/ Tick \/ Gone \/ UNCHANGED vars
    BY <1>8, OtherControlled
  <1> QED
    BY <1>1, <1>2, <1>3, <1>4, <1>5, <1>6, <1>7, <1>8 DEF Next

\* ThreadInv holds in every reachable state.
LEMMA ThreadInvariant == Spec => []ThreadInv
  <1>1. Init => ThreadInv
    BY ModeAssumption
       DEF Init, ThreadInv, Balance, Creation, ThreadsDoneWhenFreed,
           HasPicture, HasVideo
  <1> QED
    BY TypeCorrect, <1>1, ThreadInvKept, PTL DEF Spec

\* Whatever the order in which main counts the threads in and they count
\* themselves out, no thread is left running when release_client frees the
\* image buffers (src/global_context.c:383-399).
THEOREM FreeIsSafe == Spec => []ThreadsDoneWhenFreed
  <1>1. ThreadInv => ThreadsDoneWhenFreed
    BY DEF ThreadInv
  <1> QED
    BY ThreadInvariant, <1>1, PTL

-----------------------------------------------------------------------------
(* The recording has a file *)

\* Once the recording is on its file has been named, or is about to be.
FileInv ==
  /\ video_capturing_switch = TRUE => vpc = "name" \/ flv_filepath # NULL
  /\ FileIsNamed

\* The video thread's own steps keep FileInv.
LEMMA VideoFileInv ==
  ASSUME TypeOK, FileInv, VideoStep \/ VideoWakes PROVE FileInv'
  <1> USE DEF FileInv, FileIsNamed, VideoAt, Abort, data, controls, targets,
          locks, detection, buffers, files, record, environment
  <1>1. CASE VideoWakes \/ VideoTakes
    BY <1>1 DEF VideoWakes, VideoTakes, AfterTaking, TypeOK, Targets
  <1>2. CASE VideoSwitches
    <2>1. vpc' = "read" => video_capturing_switch = TRUE
      BY <1>2 DEF VideoSwitches, TypeOK
    <2>2. vpc = "switch" /\ vpc' \in {"read", "name"} /\ UNCHANGED flv_filepath
      BY <1>2 DEF VideoSwitches
    <2> QED
      BY <2>1, <2>2
  <1>3. CASE VideoNames
    <2>1. LocalTime(clock) # NULL
      BY LocalTimeType, NullIsNoTime
    <2> QED
      BY <1>3, <2>1 DEF VideoNames
  <1>4. CASE VideoSetsPath \/ VideoEncodes \/ VideoCounts \/ VideoExits
    BY <1>4 DEF VideoSetsPath, VideoEncodes, VideoCounts, VideoExits
  <1> QED
    BY <1>1, <1>2, <1>3, <1>4 DEF VideoStep

\* The video thread never uses flv_filepath before it is set, although main
\* switches the recording off at any point of it
\* (src/client/video_thread.c:78-125).
THEOREM FileIsAlwaysNamed == Spec => []FileIsNamed
  <1>1. Init => FileInv
    BY DEF Init, FileInv, FileIsNamed
  <1>2. ASSUME TypeOK, ThreadInv, FileInv, [Next]_vars PROVE FileInv'
    <2> USE DEF FileInv, FileIsNamed, ToldOrSame, Signalled
    <2>1. CASE CreatePicture
      BY <1>2, <2>1 DEF CreatePicture, data, files
    <2>2. CASE CreateVideo
      BY <1>2, <2>2 DEF CreateVideo, ThreadInv, Creation, data, files
    <2>3. CASE CountThread
      BY <1>2, <2>3 DEF CountThread, MainAt, files
    <2>4. CASE TotalThread
      BY <1>2, <2>4 DEF TotalThread, MainAt, data, files
    <2>5. CASE MainStep /\ ~CreatePicture /\ ~CreateVideo /\ ~CountThread
               /\ ~TotalThread
      BY <1>2, <2>5, MainControlled DEF MainControl
    <2>6. CASE PictureStep \/ PictureWakes
      BY <1>2, <2>6, PictureControlled
    <2>7. CASE VideoStep \/ VideoWakes
      BY <1>2, <2>7, VideoFileInv
    <2>8. CASE \/ \E t \in Threads : Interrupt(t) \/ HandlerStep(t)
               \/ Tick \/ Gone \/ UNCHANGED vars
      BY <1>2, <2>8, OtherControlled
    <2> QED
      BY <1>2, <2>1, <2>2, <2>3, <2>4, <2>5, <2>6, <2>7, <2>8 DEF Next
  <1>3. FileInv => FileIsNamed
    BY DEF FileInv
  <1> QED
    BY TypeCorrect, ThreadInvariant, <1>1, <1>2, <1>3, PTL DEF Spec

-----------------------------------------------------------------------------
(* The times of the motions *)

\* Main has left the capture loop and recorded the last motion.
Ended ==
  {"total_thread", "exit_video_lock", "exit_video", "exit_picture_lock",
   "exit_picture"} \cup Freed

\* Detections are in the order of time, the motion that goes on started no
\* later than the last of them, and the newest closed motion ended no later
\* than the frame that main looks at.
TimeInv ==
  /\ now <= clock
  /\ lasttime <= now
  /\ stats.current_motion # NULL => stats.current_motion.start <= lasttime
  /\ stats.motion_list # <<>> =>
       /\ stats.motion_list[1].end <= clock
       /\ mpc \notin Ended => stats.motion_list[1].end <= now
  /\ HasVideo /\ mpc \in {"end_lock", "end"} =>
       now - lasttime >= video_duration

\* A step that changes neither times nor statistics nor table
QuietStep ==
  /\ UNCHANGED <<stats, table, now, lasttime, clock>>
  /\ mpc \in Ended => mpc' \in Ended
  /\ HasVideo /\ mpc' \in {"end_lock", "end"} =>
       mpc \in {"end_lock", "end"} \/ now - lasttime >= video_duration

\* Every other step of main is quiet.
LEMMA MainIsQuiet ==
  ASSUME TypeOK, MainStep, ~MotionDetected, ~EndMotion, ~LastMotion,
         \A motion \in BOOLEAN : ~Capture(motion)
  PROVE  QuietStep
  <1> USE DEF QuietStep, Ended, Freed, MainAt, Abort, data, controls, targets,
          locks, detection, buffers, files, record, environment
  <1>1. CASE CreatePicture \/ CreateVideo \/ CountThread
    BY <1>1 DEF CreatePicture, CreateVideo, CountThread
  <1>2. CASE OpenDevice \/ LoopTest \/ SelectInterrupted \/ SelectFails
    BY <1>2 DEF OpenDevice, LoopTest, SelectInterrupted, SelectFails
  <1>3. CASE BufferIoctlFails \/ RequeueBuffer
    BY <1>3 DEF BufferIoctlFails, RequeueBuffer
  <1>4. CASE LockStats
    BY <1>4 DEF LockStats
  <1>5. CASE LockBuffer \/ WriteBuffer
    BY <1>5 DEF LockBuffer, WriteBuffer
  <1>6. CASE LockPicture \/ LockVideo
    BY <1>6 DEF LockPicture, LockVideo
  <1>7. CASE TellPicture
    BY <1>7 DEF TellPicture
  <1>8. CASE TellVideo
    BY <1>8 DEF TellVideo
  <1>9. CASE CheckSwitch \/ CheckElapsed
    BY <1>9 DEF CheckSwitch, CheckElapsed
  <1>10. CASE TotalThread \/ FreeBuffers \/ JoinThreads
    BY <1>10 DEF TotalThread, FreeBuffers, JoinThreads
  <1>11. CASE DumpStatistics
    BY <1>11 DEF DumpStatistics
  <1> QED
    BY <1>1, <1>2, <1>3, <1>4, <1>5, <1>6, <1>7, <1>8, <1>9, <1>10, <1>11
       DEF MainStep

\* So is every step of the threads that counts or names nothing, and every
\* step of the handler.
LEMMA OthersAreQuiet ==
  ASSUME TypeOK,
         \/ PictureStep /\ ~PictureCounts
         \/ VideoStep /\ ~VideoSetsPath /\ ~VideoCounts
         \/ PictureWakes \/ VideoWakes \/ Gone \/ UNCHANGED vars
         \/ \E t \in Threads : Interrupt(t) \/ HandlerStep(t)
  PROVE  QuietStep
  <1> USE DEF QuietStep, PictureAt, VideoAt, Abort, data, controls, targets,
          locks, detection, buffers, files, record, environment
  <1>1. CASE PictureStep /\ ~PictureCounts
    BY <1>1 DEF PictureStep, PictureTakes, PictureReads, PictureWrites,
                PictureExits
  <1>2. CASE VideoStep /\ ~VideoSetsPath /\ ~VideoCounts
    BY <1>2 DEF VideoStep, VideoTakes, VideoSwitches, VideoNames,
                VideoEncodes, VideoExits
  <1>3. CASE PictureWakes \/ VideoWakes \/ Gone \/ UNCHANGED vars
    BY <1>3 DEF PictureWakes, VideoWakes, Gone, vars
  <1>4. ASSUME NEW t \in Threads, Interrupt(t) \/ HandlerStep(t)
        PROVE  QuietStep
    BY <1>4 DEF Interrupt, HandlerStep, HandlerTellsPicture,
                HandlerTellsVideo, HandlerStops
  <1> QED
    BY <1>1, <1>2, <1>3, <1>4

\* begin_motion starts a motion at the time given, unless one goes on.
LEMMA BeginMotionTime ==
  ASSUME NEW s \in Stats, NEW time \in Nat
  PROVE  begin_motion(s, time).current_motion.start =
           IF s.current_motion = NULL THEN time ELSE s.current_motion.start
  BY DEF begin_motion, new_motion, Stats, Motion

\* Counting a picture leaves the start of the current motion alone.
LEMMA CountPictureTime ==
  ASSUME NEW s \in Stats
  PROVE  s.current_motion # NULL =>
           count_picture(s).current_motion.start = s.current_motion.start
  BY DEF count_picture, Stats, Motion

\* Naming its file leaves the start of the current motion alone.
LEMMA NameVideoTime ==
  ASSUME NEW s \in Stats, NEW path
  PROVE  s.current_motion # NULL =>
           name_video(s, path).current_motion.start = s.current_motion.start
  BY DEF name_video, Stats, Motion

\* Counting a frame changes nothing that MotionLog sees: of the motion that
\* goes on, or of the newest in the list, only the frame counter.
LEMMA CountFrameTime ==
  ASSUME NEW s \in Stats, has_motion(s)
  PROVE  /\ (s.current_motion = NULL) <=> (count_frame(s).current_motion = NULL)
         /\ s.current_motion # NULL =>
              count_frame(s).current_motion.start = s.current_motion.start
         /\ Len(count_frame(s).motion_list) = Len(s.motion_list)
         /\ \A i \in 1 .. Len(s.motion_list) :
              LogOf(count_frame(s).motion_list[i]) = LogOf(s.motion_list[i])
  <1>0. s.motion_list \in Seq(Motion)
    BY DEF Stats
  <1>1. CASE s.current_motion = NULL
    <2> DEFINE m == [s.motion_list[1] EXCEPT !.video_frames = @ + 1]
               l == [s.motion_list EXCEPT ![1] = m]
    <2>1. s.motion_list # <<>>
      BY <1>1 DEF has_motion
    <2>2. s.motion_list[1] \in Motion /\ 1 \in 1 .. Len(s.motion_list)
      BY <1>0, <2>1
    <2>3. LogOf(m) = LogOf(s.motion_list[1])
      BY <2>2 DEF LogOf, Motion
    <2>4. count_frame(s) = [s EXCEPT !.motion_list = l]
      BY <1>1 DEF count_frame, Stats
    <2>5. Len(l) = Len(s.motion_list)
      BY <1>0
    <2>6. \A i \in 1 .. Len(s.motion_list) : LogOf(l[i]) = LogOf(s.motion_list[i])
      <3> HIDE DEF m
      <3> TAKE i \in 1 .. Len(s.motion_list)
      <3>1. l[i] = IF i = 1 THEN m ELSE s.motion_list[i]
        BY <1>0
      <3> QED
        BY <2>3, <3>1
    <2> HIDE DEF l
    <2> QED
      BY <1>1, <2>4, <2>5, <2>6 DEF Stats
  <1>2. CASE s.current_motion # NULL
    <2> DEFINE m == [s.current_motion EXCEPT !.video_frames = @ + 1]
    <2>1. s.current_motion \in Motion
      BY <1>2 DEF Stats
    <2>2. m \in Motion /\ m # NULL /\ m.start = s.current_motion.start
      BY <2>1, NullIsNoMotion DEF Motion
    <2>3. count_frame(s) = [s EXCEPT !.current_motion = m]
      BY <1>2 DEF count_frame, Stats
    <2> HIDE DEF m
    <2> QED
      BY <1>2, <2>2, <2>3 DEF Stats
  <1> QED
    BY <1>1, <1>2

\* The times in the head of a list that a motion was put in front of
LEMMA HeadOfList ==
  ASSUME NEW m \in Motion, NEW l \in Seq(Motion)
  PROVE  /\ (<<m>> \o l) \in Seq(Motion)
         /\ <<m>> \o l # <<>>
         /\ Len(<<m>> \o l) = Len(l) + 1
         /\ (<<m>> \o l)[1] = m
         /\ \A i \in 1 .. Len(l) : (<<m>> \o l)[i + 1] = l[i]
  OBVIOUS

\* Every step keeps the order of times: a frame is timed by the clock when it
\* is captured, detections are timed by their frame, motions by detections.
LEMMA TimeInvKept ==
  ASSUME TypeOK, AssertInv, TimeInv, [Next]_vars PROVE TimeInv'
  <1> USE DEF TimeInv
  <1>0. /\ stats \in Stats /\ now \in Nat /\ clock \in Nat /\ lasttime \in Nat
        /\ stats.motion_list \in Seq(Motion)
    BY BoundsAssumption DEF TypeOK, Stats
  <1>1. CASE QuietStep
    BY <1>1 DEF QuietStep
  <1>2. ASSUME NEW motion \in BOOLEAN, Capture(motion) PROVE TimeInv'
    <2>1. now' = clock /\ UNCHANGED <<stats, lasttime, clock>>
      BY <1>2 DEF Capture, record
    <2>2. HasVideo => mpc' \notin {"end_lock", "end"}
      BY <1>2 DEF Capture, MainAt
    <2>3. stats.motion_list # <<>> => stats.motion_list[1].end <= clock
      OBVIOUS
    <2> QED
      BY <1>0, <2>1, <2>2, <2>3
  <1>3. CASE MotionDetected
    <2>1. /\ stats' = begin_motion(stats, now) /\ lasttime' = now
          /\ UNCHANGED <<now, clock>>
          /\ mpc = "motion" /\ mpc' = "write_lock"
      BY <1>3 DEF MotionDetected, MainAt, environment
    <2>2. stats'.current_motion.start <= now
      <3>1. CASE stats.current_motion = NULL
        BY <1>0, <2>1, <3>1, BeginMotionTime
      <3>2. CASE stats.current_motion # NULL
        <4>1. stats.current_motion.start \in Nat
          BY <1>0, <3>2 DEF Stats, Motion
        <4> QED
          BY <1>0, <2>1, <3>2, <4>1, BeginMotionTime
      <3> QED
        BY <3>1, <3>2
    <2>3. stats'.motion_list = stats.motion_list
      BY <1>0, <2>1, BeginMotionType
    <2>4. mpc \notin Ended /\ mpc' \notin {"end_lock", "end"}
      BY <2>1 DEF Ended, Freed
    <2> QED
      BY <1>0, <2>1, <2>2, <2>3, <2>4
  <1>4. ASSUME NEW time \in Nat, stats' = end_motion(stats, time),
               \/ time = now /\ mpc \notin Ended
               \/ time = clock /\ mpc' \in Ended,
               mpc' \notin {"end_lock", "end"}, UNCHANGED <<now, clock, lasttime>>
        PROVE  TimeInv'
    <2>1. stats'.current_motion = NULL
      BY <1>0, <1>4, EndMotionType
    <2>2. CASE stats.current_motion = NULL
      BY <1>0, <1>4, <2>1, <2>2, EndMotionType
    <2>3. CASE stats.current_motion # NULL
      <3>1. stats'.motion_list = <<ended(stats, time)>> \o stats.motion_list
        BY <1>0, <1>4, <2>3, EndMotionType
      <3>2. ended(stats, time) \in Motion /\ ended(stats, time).end = time
        BY <1>0, <2>3, EndedType
      <3>3. stats'.motion_list[1].end = time
        BY <1>0, <3>1, <3>2, HeadOfList
      <3> QED
        BY <1>0, <1>4, <2>1, <3>3
    <2> QED
      BY <2>2, <2>3
  <1>5. CASE EndMotion
    <2>1. /\ stats' = end_motion(stats, now) /\ UNCHANGED <<now, clock, lasttime>>
          /\ mpc \notin Ended /\ mpc' \notin {"end_lock", "end"}
      BY <1>5 DEF EndMotion, MainAt, detection, environment, Ended, Freed
    <2> HIDE DEF TimeInv
    <2> QED
      BY <1>0, <1>4, <2>1
  <1>6. CASE LastMotion
    <2>1. /\ stats' = end_motion(stats, clock) /\ UNCHANGED <<now, clock, lasttime>>
          /\ mpc' \in Ended /\ mpc' \notin {"end_lock", "end"}
      BY <1>6 DEF LastMotion, MainAt, detection, environment, Ended
    <2> HIDE DEF TimeInv
    <2> QED
      BY <1>0, <1>4, <2>1
  <1>7. CASE PictureCounts
    <2>1. stats' = count_picture(stats) /\ UNCHANGED <<mpc, now, clock, lasttime>>
      BY <1>7 DEF PictureCounts, PictureAt, detection, environment
    <2> QED
      BY <1>0, <2>1, CountPictureType, CountPictureTime
  <1>8. CASE VideoSetsPath
    <2>1. /\ stats' = name_video(stats, flv_filepath) \/ UNCHANGED stats
          /\ UNCHANGED <<mpc, now, clock, lasttime>>
      BY <1>8 DEF VideoSetsPath, VideoAt, Abort, detection, environment, record
    <2>2. flv_filepath \in Nat \cup {NULL}
      BY DEF TypeOK
    <2>3. /\ stats'.motion_list = stats.motion_list
          /\ stats'.current_motion # NULL =>
               /\ stats.current_motion # NULL
               /\ stats'.current_motion.start = stats.current_motion.start
      <3>1. CASE stats' = name_video(stats, flv_filepath)
        BY <1>0, <2>2, <3>1, NameVideoType, NameVideoTime
      <3>2. CASE UNCHANGED stats
        BY <3>2
      <3> QED
        BY <2>1, <3>1, <3>2
    <2> QED
      BY <1>0, <2>1, <2>3
  <1>9. CASE VideoCounts
    <2>1. /\ has_motion(stats) /\ stats' = count_frame(stats)
          /\ UNCHANGED <<mpc, now, clock, lasttime>>
      BY <1>9 DEF VideoCounts, VideoAt, detection, environment, AssertInv,
                  MotionForFrames
    <2>2. /\ Len(stats'.motion_list) = Len(stats.motion_list)
          /\ stats'.motion_list \in Seq(Motion)
      BY <1>0, <2>1, CountFrameTime, CountFrameType DEF Stats
    <2>3. stats'.motion_list # <<>> =>
            /\ stats.motion_list # <<>>
            /\ stats'.motion_list[1].end = stats.motion_list[1].end
      <3> SUFFICES ASSUME stats'.motion_list # <<>>
                   PROVE  /\ stats.motion_list # <<>>
                          /\ stats'.motion_list[1].end = stats.motion_list[1].end
        OBVIOUS
      <3>1. 1 \in 1 .. Len(stats.motion_list)
        BY <1>0, <2>2
      <3>2. LogOf(stats'.motion_list[1]) = LogOf(stats.motion_list[1])
        BY <1>0, <2>1, <3>1, CountFrameTime
      <3> QED
        BY <1>0, <3>1, <3>2 DEF LogOf
    <2>4. stats'.current_motion # NULL =>
            /\ stats.current_motion # NULL
            /\ stats'.current_motion.start = stats.current_motion.start
      BY <1>0, <2>1, CountFrameTime
    <2> QED
      BY <1>0, <2>1, <2>3, <2>4
  <1>10. CASE Tick
    <2>1. clock' = clock + 1 /\ UNCHANGED <<mpc, now, lasttime, stats>>
      BY <1>10 DEF Tick, detection, record
    <2>2. stats.motion_list # <<>> => stats.motion_list[1].end \in Nat
      <3>1. stats.motion_list # <<>> => stats.motion_list[1] \in Motion
        BY <1>0
      <3> QED
        BY <3>1 DEF Motion
    <2> QED
      BY <1>0, <2>1, <2>2
  <1> QED
    BY <1>1, <1>2, <1>3, <1>5, <1>6, <1>7, <1>8, <1>9, <1>10, MainIsQuiet,
       OthersAreQuiet DEF Next, PictureStep, VideoStep

\* TimeInv holds in every reachable state.
LEMMA TimeInvariant == Spec => []TimeInv
  <1>1. Init => TimeInv
    BY DEF Init, TimeInv, new_statistics
  <1> QED
    BY TypeCorrect, AssertInvariant, <1>1, TimeInvKept, PTL DEF Spec

-----------------------------------------------------------------------------
(* Every closed motion has its row *)

\* No row has the start time of the motion that goes on, because every row's
\* motion ended after it started and before the frame that main looks at.
StoredInv ==
  /\ mpc \notin Ended =>
       \A row \in table : row.start < row.end /\ row.end <= now
  /\ mpc \notin Ended /\ stats.current_motion # NULL =>
       \A row \in table : row.start < stats.current_motion.start
  /\ MotionsStored

\* Two seconds with the same local time are an hour apart: local time was put
\* back between them.
LEMMA SameLocalTime ==
  ASSUME NEW s \in Nat, NEW t \in Nat, s < t, LocalTime(s) = LocalTime(t)
  PROVE  PutBack(s, t)
  BY DstAssumption DEF LocalTime, PutBack

\* A closed motion gets its row, or a row of before local time was put back
\* has its key, if every row's motion started earlier.
LEMMA StoreCurrentRow ==
  ASSUME NEW s \in Stats, NEW rows \in SUBSET Motion, NEW time \in Nat,
         s.current_motion # NULL,
         \A row \in rows : row.start < s.current_motion.start
  PROVE  \/ store_current(rows, s, time) = rows \cup {ended(s, time)}
         \/ /\ store_current(rows, s, time) = rows
            /\ \E row \in rows :
                 /\ PutBack(row.start, s.current_motion.start)
                 /\ LocalTime(row.start) = LocalTime(s.current_motion.start)
  <1>1. /\ s.current_motion.start \in Nat
        /\ ended(s, time).start = s.current_motion.start
    BY EndedType DEF Stats, Motion
  <1>2. CASE \E row \in rows :
               LocalTime(row.start) = LocalTime(ended(s, time).start)
    <2>1. PICK row \in rows :
                 LocalTime(row.start) = LocalTime(ended(s, time).start)
      BY <1>2
    <2>2. row.start \in Nat /\ row.start < s.current_motion.start
      BY DEF Motion
    <2>3. PutBack(row.start, s.current_motion.start)
      BY <1>1, <2>1, <2>2, SameLocalTime
    <2>4. store_current(rows, s, time) = rows
      BY <1>2 DEF store_current, insert_item
    <2> QED
      BY <1>1, <2>1, <2>3, <2>4
  <1>3. CASE ~\E row \in rows :
               LocalTime(row.start) = LocalTime(ended(s, time).start)
    BY <1>3 DEF store_current, insert_item
  <1> QED
    BY <1>2, <1>3

\* The end of a motion stores it, or its key is taken.
LEMMA EndStores ==
  ASSUME TypeOK, TimeInv, StoredInv, HasVideo,
         NEW time \in Nat, stats' = end_motion(stats, time),
         table' = store_current(table, stats, time), UNCHANGED now,
         mpc \notin Ended, mpc' \in Ended \/ (time = now /\ lasttime < now)
  PROVE  StoredInv'
  <1>0. /\ stats \in Stats /\ now \in Nat /\ lasttime \in Nat
        /\ table \in SUBSET Motion /\ stats.motion_list \in Seq(Motion)
    BY DEF TypeOK, Stats
  <1>1. stats'.current_motion = NULL
    BY <1>0, EndMotionType
  <1>2. CASE stats.current_motion = NULL
    <2>1. stats' = stats /\ table' = table
      BY <1>0, <1>2, EndMotionType DEF store_current
    <2> QED
      BY <1>1, <2>1 DEF StoredInv, MotionsStored, Stored, Rejected
  <1>3. CASE stats.current_motion # NULL
    <2> DEFINE m == ended(stats, time)
    <2>1. m \in Motion /\ m.start = stats.current_motion.start /\ m.end = time
      BY <1>0, <1>3, EndedType
    <2>2. \/ table' = table \cup {m}
          \/ /\ table' = table
             /\ \E row \in table :
                  /\ PutBack(row.start, m.start)
                  /\ LocalTime(row.start) = LocalTime(m.start)
      BY <1>0, <1>3, <2>1, StoreCurrentRow DEF StoredInv
    <2>3. stats'.motion_list = <<m>> \o stats.motion_list
      BY <1>0, <1>3, EndMotionType
    <2> HIDE DEF m
    <2>4. mpc' \notin Ended =>
            \A row \in table' : row.start < row.end /\ row.end <= now'
      <3> SUFFICES ASSUME mpc' \notin Ended, NEW row \in table'
                   PROVE  row.start < row.end /\ row.end <= now'
        OBVIOUS
      <3>1. CASE row \in table
        BY <3>1 DEF StoredInv
      <3>2. CASE row = m
        <4>1. m.start <= lasttime /\ lasttime < now /\ time = now
          BY <1>3, <2>1 DEF TimeInv
        <4>2. m.start \in Nat
          BY <2>1 DEF Motion
        <4> QED
          BY <1>0, <2>1, <3>2, <4>1, <4>2
      <3> QED
        BY <2>2, <3>1, <3>2
    <2>5. \/ \E row \in table' : row.start = m.start /\ row.end = m.end
          \/ \E row \in table' :
               /\ PutBack(row.start, m.start)
               /\ LocalTime(row.start) = LocalTime(m.start)
      BY <2>2
    <2>6. MotionsStored'
      <3> SUFFICES ASSUME NEW i \in 1 .. Len(stats'.motion_list)
                   PROVE  \/ Stored(stats.motion_list[i])'
                          \/ Rejected(stats.motion_list[i])'
        BY DEF MotionsStored
      <3>1. CASE i = 1
        <4>1. stats'.motion_list[1] = m
          BY <1>0, <2>1, <2>3, HeadOfList
        <4> QED
          BY <2>5, <3>1, <4>1 DEF Stored, Rejected
      <3>2. CASE i # 1
        <4>1. i - 1 \in 1 .. Len(stats.motion_list)
          BY <1>0, <2>1, <2>3, <3>2, HeadOfList
        <4>2. stats'.motion_list[i] = stats.motion_list[i - 1]
          <5>1. stats'.motion_list[(i - 1) + 1] = stats.motion_list[i - 1]
            BY <1>0, <2>1, <2>3, <4>1, HeadOfList
          <5>2. (i - 1) + 1 = i
            BY <1>0, <2>1, <2>3, HeadOfList
          <5> QED
            BY <5>1, <5>2
        <4>3. \/ Stored(stats.motion_list[i - 1])
              \/ Rejected(stats.motion_list[i - 1])
          BY <4>1 DEF StoredInv, MotionsStored
        <4>4. table \subseteq table'
          BY <2>2
        <4> QED
          BY <4>2, <4>3, <4>4 DEF Stored, Rejected
      <3> QED
        BY <3>1, <3>2
    <2> QED
      BY <1>1, <2>4, <2>6 DEF StoredInv
  <1> QED
    BY <1>2, <1>3

\* Counting and naming change no start and no end of a listed motion, nor the
\* start of the one that goes on: the rows stay theirs.
LEMMA SameTimesStored ==
  ASSUME TypeOK, StoredInv, UNCHANGED <<table, now, mpc>>,
         Len(stats'.motion_list) = Len(stats.motion_list),
         \A i \in 1 .. Len(stats.motion_list) :
           LogOf(stats'.motion_list[i]) = LogOf(stats.motion_list[i]),
         stats'.current_motion # NULL =>
           /\ stats.current_motion # NULL
           /\ stats'.current_motion.start = stats.current_motion.start
  PROVE  StoredInv'
  <1>1. ASSUME NEW i \in 1 .. Len(stats.motion_list)
        PROVE  /\ stats'.motion_list[i].start = stats.motion_list[i].start
               /\ stats'.motion_list[i].end = stats.motion_list[i].end
    BY <1>1 DEF LogOf
  <1>2. MotionsStored'
    BY <1>1 DEF StoredInv, MotionsStored, Stored, Rejected
  <1> QED
    BY <1>2 DEF StoredInv

\* Every step of a recording client keeps StoredInv.
LEMMA StoredInvKept ==
  ASSUME TypeOK, AssertInv, TimeInv, StoredInv, [Next]_vars, HasVideo,
         video_duration >= 1, "database" \notin Faults
  PROVE  StoredInv'
  <1>0. /\ stats \in Stats /\ now \in Nat /\ clock \in Nat /\ lasttime \in Nat
        /\ table \in SUBSET Motion /\ flv_filepath \in Nat \cup {NULL}
    BY BoundsAssumption DEF TypeOK
  <1>1. CASE QuietStep
    BY <1>1 DEF QuietStep, StoredInv, MotionsStored, Stored, Rejected
  <1>2. ASSUME NEW motion \in BOOLEAN, Capture(motion) PROVE StoredInv'
    <2>1. now' = clock /\ UNCHANGED <<stats, table>> /\ mpc = "select"
      BY <1>2 DEF Capture, record
    <2>2. now <= clock /\ mpc \notin Ended
      BY <2>1 DEF TimeInv, Ended, Freed
    <2>3. \A row \in table : row.end \in Nat
      BY <1>0 DEF Motion
    <2> QED
      BY <1>0, <2>1, <2>2, <2>3 DEF StoredInv, MotionsStored, Stored, Rejected
  <1>3. CASE MotionDetected
    <2>1. /\ stats' = begin_motion(stats, now) /\ UNCHANGED <<now, table>>
          /\ mpc \notin Ended
      BY <1>3 DEF MotionDetected, MainAt, Ended, Freed
    <2>2. stats'.motion_list = stats.motion_list
      BY <1>0, <2>1, BeginMotionType
    <2>3. \A row \in table : row.start < stats'.current_motion.start
      <3> TAKE row \in table
      <3>1. row.start < row.end /\ row.end <= now /\ row.start \in Nat /\ row.end \in Nat
        BY <1>0, <2>1 DEF StoredInv, Motion
      <3>2. CASE stats.current_motion = NULL
        BY <1>0, <2>1, <3>1, <3>2, BeginMotionTime
      <3>3. CASE stats.current_motion # NULL
        BY <1>0, <2>1, <3>3, BeginMotionTime DEF StoredInv
      <3> QED
        BY <3>2, <3>3
    <2> QED
      BY <2>1, <2>2, <2>3 DEF StoredInv, MotionsStored, Stored, Rejected
  <1>4. CASE EndMotion
    <2>1. /\ stats' = end_motion(stats, now) /\ UNCHANGED now
          /\ table' = store_current(table, stats, now)
          /\ mpc = "end" /\ mpc \notin Ended
      BY <1>4 DEF EndMotion, StoreCurrent, detection, Ended, Freed
    <2>2. lasttime < now
      BY <1>0, <2>1, DurationAssumption DEF TimeInv
    <2> QED
      BY <1>0, <2>1, <2>2, EndStores
  <1>5. CASE LastMotion
    <2>1. /\ stats' = end_motion(stats, clock) /\ UNCHANGED now
          /\ table' = store_current(table, stats, clock)
          /\ mpc \notin Ended /\ mpc' \in Ended
      BY <1>5 DEF LastMotion, StoreCurrent, MainAt, detection, Ended, Freed
    <2> QED
      BY <1>0, <2>1, EndStores
  <1>6. CASE PictureCounts
    <2>1. stats' = count_picture(stats) /\ UNCHANGED <<mpc, now, table>>
      BY <1>6 DEF PictureCounts, PictureAt, detection
    <2> QED
      BY <1>0, <2>1, SameTimesStored, CountPictureType, CountPictureTime
  <1>7. CASE VideoSetsPath
    <2>1. /\ stats' = name_video(stats, flv_filepath) \/ UNCHANGED stats
          /\ UNCHANGED <<mpc, now, table>>
      BY <1>7 DEF VideoSetsPath, VideoAt, Abort, detection, record
    <2>2. CASE stats' = name_video(stats, flv_filepath)
      BY <1>0, <2>1, <2>2, SameTimesStored, NameVideoType, NameVideoTime
    <2>3. CASE UNCHANGED stats
      BY <2>1, <2>3, SameTimesStored
    <2> QED
      BY <2>1, <2>2, <2>3
  <1>8. CASE VideoCounts
    <2>1. /\ has_motion(stats) /\ stats' = count_frame(stats)
          /\ UNCHANGED <<mpc, now, table>>
      BY <1>8 DEF VideoCounts, VideoAt, detection, AssertInv, MotionForFrames
    <2> QED
      BY <1>0, <2>1, SameTimesStored, CountFrameTime
  <1>9. CASE Tick
    BY <1>9 DEF Tick, detection, record, StoredInv, MotionsStored, Stored,
                Rejected
  <1> QED
    BY <1>1, <1>2, <1>3, <1>4, <1>5, <1>6, <1>7, <1>8, <1>9, MainIsQuiet,
       OthersAreQuiet DEF Next, PictureStep, VideoStep

\* Every closed motion of a recording client gets its own row, if a recording
\* lasts a second at least and the database takes what it is given: no two
\* motions start in the same second, so the primary key of the table rejects
\* one only for a row of before local time was put back
\* (src/client/image_capture.c:169-188, 288-309).
THEOREM MotionsAreStored ==
  ASSUME video_duration >= 1, "database" \notin Faults
  PROVE  Spec => []MotionsStored
  <1>1. CASE HasVideo
    <2>1. Init => StoredInv
      BY DEF Init, StoredInv, MotionsStored, new_statistics
    <2>2. TypeOK /\ AssertInv /\ TimeInv /\ StoredInv /\ [Next]_vars => StoredInv'
      BY <1>1, StoredInvKept
    <2>3. StoredInv => MotionsStored
      BY DEF StoredInv
    <2> QED
      BY <2>1, <2>2, <2>3, TypeCorrect, AssertInvariant, TimeInvariant, PTL
         DEF Spec
  <1>2. CASE ~HasVideo
    <2>1. MotionsStored
      BY <1>2 DEF MotionsStored
    <2> QED
      BY <2>1, PTL
  <1> QED
    BY <1>1, <1>2

-----------------------------------------------------------------------------
(* The motion log *)

\* What MotionLog sees of a state: nothing has changed.
SameLog ==
  /\ OpenMotion' = OpenMotion
  /\ MotionsLogged' = MotionsLogged

\* The log is the same if what it is made from is.
LEMMA SameLogged ==
  ASSUME TypeOK,
         Len(stats'.motion_list) = Len(stats.motion_list),
         \A i \in 1 .. Len(stats.motion_list) :
           LogOf(stats'.motion_list[i]) = LogOf(stats.motion_list[i]),
         (stats'.current_motion = NULL) <=> (stats.current_motion = NULL),
         stats.current_motion # NULL =>
           stats'.current_motion.start = stats.current_motion.start
  PROVE  SameLog
  BY DEF SameLog, OpenMotion, MotionsLogged

\* A motion with its counters is an entry of the log.
LEMMA EntryType ==
  ASSUME NEW m \in Motion
  PROVE  /\ LogOf(m) \in Log!LogEntry
         /\ LogOf(m).start = m.start /\ LogOf(m).end = m.end
  BY DEF LogOf, Log!LogEntry, Motion

\* The end of a motion is an End of the log, or changes nothing.
LEMMA EndIsLogged ==
  ASSUME TypeOK, TimeInv, NEW time \in Nat, lasttime <= time,
         stats' = end_motion(stats, time)
  PROVE  Log!End \/ SameLog
  <1>0. stats \in Stats /\ stats.motion_list \in Seq(Motion) /\ lasttime \in Nat
    BY DEF TypeOK, Stats
  <1>1. CASE stats.current_motion = NULL
    BY <1>0, <1>1, EndMotionType DEF SameLog, OpenMotion, MotionsLogged
  <1>2. CASE stats.current_motion # NULL
    <2> DEFINE m == ended(stats, time)
               l == stats.motion_list
    <2>1. /\ m \in Motion /\ m.start = stats.current_motion.start
          /\ m.end = time /\ m.start \in Nat
      BY <1>0, <1>2, EndedType DEF Motion
    <2>2. stats'.motion_list = <<m>> \o l /\ stats'.current_motion = NULL
      BY <1>0, <1>2, EndMotionType
    <2>3. m.start <= time
      BY <1>0, <1>2, <2>1 DEF TimeInv
    <2>4. OpenMotion = m.start /\ OpenMotion' = NULL /\ OpenMotion # NULL
      BY <1>2, <2>1, <2>2, NullIsNoTime DEF OpenMotion
    <2> HIDE DEF m
    <2>5. /\ Len(<<m>> \o l) = Len(l) + 1 /\ Len(l) \in Nat
          /\ (<<m>> \o l)[1] = m
          /\ \A i \in 1 .. Len(l) : (<<m>> \o l)[i + 1] = l[i]
      BY <1>0, <2>1, HeadOfList
    <2> DEFINE ll == [i \in 1 .. Len(l) + 1 |-> LogOf((<<m>> \o l)[i])]
    <2>6. MotionsLogged' = ll
      BY <2>2, <2>5 DEF MotionsLogged
    <2>7. ll \in Seq(Log!LogEntry) /\ Len(ll) = Len(l) + 1 /\ ll # <<>>
      <3>1. \A i \in 1 .. Len(l) + 1 : LogOf((<<m>> \o l)[i]) \in Log!LogEntry
        <4> TAKE i \in 1 .. Len(l) + 1
        <4>1. (<<m>> \o l)[i] \in Motion
          BY <1>0, <2>1, <2>5, HeadOfList
        <4> QED
          BY <4>1, EntryType
      <3> QED
        BY <2>5, <3>1
    <2>8. ll[1] = LogOf(m)
      BY <2>5
    <2>9. Tail(ll) = MotionsLogged
      <3>1. Tail(ll) = [i \in 1 .. Len(l) |-> ll[i + 1]]
        BY <2>5, <2>7
      <3>2. \A i \in 1 .. Len(l) : ll[i + 1] = LogOf(l[i])
        BY <2>5
      <3> QED
        BY <3>1, <3>2 DEF MotionsLogged
    <2> HIDE DEF ll, l
    <2> QED
      BY <2>1, <2>3, <2>4, <2>6, <2>7, <2>8, <2>9, EntryType DEF Log!End
  <1> QED
    BY <1>1, <1>2

\* Every step of the three threads, the handler and the clock is a step of
\* the motion log, or nothing the log sees.
LEMMA StepIsLogged ==
  ASSUME TypeOK, AssertInv, TimeInv, [Next]_vars
  PROVE  Log!Next \/ SameLog
  <1>0. /\ stats \in Stats /\ now \in Nat /\ clock \in Nat /\ lasttime \in Nat
        /\ stats.motion_list \in Seq(Motion)
        /\ flv_filepath \in Nat \cup {NULL}
    BY BoundsAssumption DEF TypeOK, Stats
  <1>1. CASE UNCHANGED stats
    BY <1>1, SameLogged
  <1>2. CASE QuietStep
    BY <1>1, <1>2 DEF QuietStep
  <1>3. ASSUME NEW motion \in BOOLEAN, Capture(motion) PROVE UNCHANGED stats
    BY <1>3 DEF Capture, record
  <1>4. CASE MotionDetected
    <2>1. stats' = begin_motion(stats, now) /\ mpc = "motion"
      BY <1>4 DEF MotionDetected
    <2>2. CASE stats.current_motion # NULL
      BY <1>0, <1>1, <2>1, <2>2 DEF begin_motion
    <2>3. CASE stats.current_motion = NULL
      <3>1. /\ stats'.motion_list = stats.motion_list
            /\ stats'.current_motion # NULL
            /\ stats'.current_motion.start = now
        BY <1>0, <2>1, <2>3, BeginMotionType, BeginMotionTime
      <3>2. OpenMotion = NULL /\ OpenMotion' = now /\ MotionsLogged' = MotionsLogged
        BY <2>3, <3>1 DEF OpenMotion, MotionsLogged
      <3>3. MotionsLogged # <<>> => now >= MotionsLogged[1].end
        <4> SUFFICES ASSUME MotionsLogged # <<>>
                     PROVE  now >= MotionsLogged[1].end
          OBVIOUS
        <4>1. stats.motion_list # <<>>
          BY <1>0 DEF MotionsLogged
        <4>2. MotionsLogged[1].end = stats.motion_list[1].end
          BY <1>0, <4>1 DEF MotionsLogged, LogOf
        <4>3. stats.motion_list[1].end <= now /\ stats.motion_list[1] \in Motion
          BY <1>0, <2>1, <4>1 DEF TimeInv, Ended, Freed
        <4> QED
          BY <1>0, <4>2, <4>3 DEF Motion
      <3> QED
        BY <1>0, <3>2, <3>3 DEF Log!Next, Log!Start
    <2> QED
      BY <2>2, <2>3
  <1>5. CASE EndMotion
    <2>1. stats' = end_motion(stats, now) /\ lasttime <= now
      BY <1>5 DEF EndMotion, TimeInv
    <2> QED
      BY <1>0, <2>1, EndIsLogged DEF Log!Next
  <1>6. CASE LastMotion
    <2>1. stats' = end_motion(stats, clock) /\ lasttime <= clock
      BY <1>0, <1>6 DEF LastMotion, TimeInv
    <2> QED
      BY <1>0, <2>1, EndIsLogged DEF Log!Next
  <1>7. CASE PictureCounts
    BY <1>0, <1>7, SameLogged, CountPictureType, CountPictureTime
       DEF PictureCounts
  <1>8. CASE VideoSetsPath
    <2>1. stats' = name_video(stats, flv_filepath) \/ UNCHANGED stats
      BY <1>8 DEF VideoSetsPath, Abort, record
    <2>2. CASE stats' = name_video(stats, flv_filepath)
      BY <1>0, <2>2, SameLogged, NameVideoType, NameVideoTime
    <2> QED
      BY <1>1, <2>1, <2>2
  <1>9. CASE VideoCounts
    <2>1. has_motion(stats) /\ stats' = count_frame(stats)
      BY <1>9 DEF VideoCounts, AssertInv, MotionForFrames
    <2> QED
      BY <1>0, <2>1, SameLogged, CountFrameTime
  <1>10. CASE Tick
    BY <1>1, <1>10 DEF Tick, record
  <1> QED
    BY <1>1, <1>2, <1>3, <1>4, <1>5, <1>6, <1>7, <1>8, <1>9, <1>10,
       MainIsQuiet, OthersAreQuiet DEF Next, PictureStep, VideoStep

\* The capturing client implements MotionLog, in every mode and with every
\* fault: motions follow one another in time, each is logged once, when it
\* ends, and afterwards only the frame counter of the newest one changes,
\* although three threads and a signal handler share the statistics
\* (src/statistics.c, src/client/image_capture.c:85-216).
THEOREM TheLogIsKept == Spec => LogKept
  <1>1. Init => Log!Init
    BY DEF Init, Log!Init, OpenMotion, MotionsLogged, new_statistics
  <1>2. TypeOK /\ AssertInv /\ TimeInv /\ [Next]_vars
          => [Log!Next]_<<OpenMotion, MotionsLogged>>
    BY StepIsLogged DEF SameLog
  <1> QED
    BY <1>1, <1>2, TypeCorrect, AssertInvariant, TimeInvariant, PTL
       DEF Spec, LogKept, Log!Spec

-----------------------------------------------------------------------------
(* The totals of the statistics *)

\* A new counter adds its value to the total.
LEMMA TotalAppended ==
  ASSUME NEW n \in Nat, NEW f \in [1 .. n -> Nat],
         NEW g \in [1 .. n + 1 -> Nat], \A k \in 1 .. n : g[k] = f[k],
         IsFiniteSet(Units(f))
  PROVE  IsFiniteSet(Units(g)) /\ Total(g) = Total(f) + g[n + 1]
  <1> DEFINE p == g[n + 1]
             new == {n + 1} \X (1 .. p)
  <1>0. p \in Nat /\ DOMAIN g = 1 .. n + 1 /\ DOMAIN f = 1 .. n
    OBVIOUS
  <1>1. Units(g) = Units(f) \cup new
    <2>1. 1 .. n + 1 = (1 .. n) \cup {n + 1}
      OBVIOUS
    <2>2. ASSUME NEW u \in Units(g) PROVE u \in Units(f) \cup new
      <3>1. PICK k \in 1 .. n + 1 : u \in {k} \X (1 .. g[k])
        BY <1>0 DEF Units
      <3>2. CASE k \in 1 .. n
        BY <1>0, <3>1, <3>2 DEF Units
      <3>3. CASE k = n + 1
        BY <3>1, <3>3
      <3> QED
        BY <2>1, <3>2, <3>3
    <2>3. ASSUME NEW u \in Units(f) PROVE u \in Units(g)
      <3>1. PICK k \in 1 .. n : u \in {k} \X (1 .. f[k])
        BY <1>0 DEF Units
      <3> QED
        BY <1>0, <2>1, <3>1 DEF Units
    <2>4. new \subseteq Units(g)
      BY <1>0, <2>1 DEF Units
    <2> QED
      BY <2>2, <2>3, <2>4
  <1>2. Units(f) \cap new = {}
    <2> SUFFICES ASSUME NEW u \in Units(f), u \in new PROVE FALSE
      OBVIOUS
    <2>1. PICK k \in 1 .. n : u \in {k} \X (1 .. f[k])
      BY <1>0 DEF Units
    <2> QED
      BY <2>1
  <1>3. IsFiniteSet(new) /\ Cardinality(new) = p
    <2>1. IsFiniteSet(1 .. p) /\ Cardinality(1 .. p) = p
      BY <1>0, FS_Interval
    <2>2. IsFiniteSet({n + 1}) /\ Cardinality({n + 1}) = 1
      BY FS_Singleton
    <2>3. IsFiniteSet(new) /\ Cardinality(new) = 1 * p
      <3> DEFINE S == {n + 1}
                 U == 1 .. p
      <3>1. IsFiniteSet(S) /\ IsFiniteSet(U)
        BY <2>1, <2>2
      <3> HIDE DEF S, U
      <3>2. IsFiniteSet(S \X U)
              /\ Cardinality(S \X U) = Cardinality(S) * Cardinality(U)
        BY <3>1, FS_Product
      <3> QED
        BY <2>1, <2>2, <3>2 DEF S, U
    <2>4. \A q \in Nat : 1 * q = q
      OBVIOUS
    <2> HIDE DEF p, new
    <2> QED
      BY <1>0, <2>3, <2>4
  <1> HIDE DEF p, new
  <1>4. Cardinality(Units(f)) \in Nat
    BY FS_CardinalityType
  <1>5. /\ IsFiniteSet(Units(f) \cup new)
        /\ Cardinality(Units(f) \cup new)
             = Cardinality(Units(f)) + p - Cardinality({})
    BY <1>2, <1>3, FS_Union
  <1>6. Cardinality({}) = 0
    BY FS_EmptySet
  <1> QED
    BY <1>0, <1>1, <1>4, <1>5, <1>6 DEF Total, p

\* One more unit on the last counter adds one to the total.
LEMMA TotalIncremented ==
  ASSUME NEW n \in Nat \ {0}, NEW f \in [1 .. n -> Nat],
         NEW g \in [1 .. n -> Nat], g = [f EXCEPT ![n] = @ + 1],
         IsFiniteSet(Units(f))
  PROVE  IsFiniteSet(Units(g)) /\ Total(g) = Total(f) + 1
  <1> DEFINE new == <<n, f[n] + 1>>
  <1>0. /\ DOMAIN g = 1 .. n /\ DOMAIN f = 1 .. n /\ n \in 1 .. n
        /\ f[n] \in Nat /\ g[n] = f[n] + 1
        /\ \A k \in 1 .. n : k # n => g[k] = f[k]
    OBVIOUS
  <1>a. 1 .. g[n] = (1 .. f[n]) \cup {f[n] + 1} /\ f[n] + 1 \notin 1 .. f[n]
    BY <1>0
  <1>1. Units(g) = Units(f) \cup {new}
    <2>2. ASSUME NEW u \in Units(g) PROVE u \in Units(f) \cup {new}
      <3>1. PICK k \in 1 .. n : u \in {k} \X (1 .. g[k])
        BY <1>0 DEF Units
      <3>2. CASE k # n
        BY <1>0, <3>1, <3>2 DEF Units
      <3>3. CASE k = n
        BY <1>0, <1>a, <3>1, <3>3 DEF Units
      <3> QED
        BY <3>2, <3>3
    <2>3. ASSUME NEW u \in Units(f) PROVE u \in Units(g)
      <3>1. PICK k \in 1 .. n : u \in {k} \X (1 .. f[k])
        BY <1>0 DEF Units
      <3>2. 1 .. f[k] \subseteq 1 .. g[k]
        BY <1>0, <1>a
      <3> QED
        BY <1>0, <3>1, <3>2 DEF Units
    <2>4. new \in Units(g)
      BY <1>0, <1>a DEF Units
    <2> QED
      BY <2>2, <2>3, <2>4
  <1>2. new \notin Units(f)
    <2> SUFFICES ASSUME new \in Units(f) PROVE FALSE
      OBVIOUS
    <2>1. PICK k \in 1 .. n : new \in {k} \X (1 .. f[k])
      BY <1>0 DEF Units
    <2>2. k = n /\ f[n] + 1 \in 1 .. f[k]
      BY <2>1
    <2> QED
      BY <1>a, <2>2
  <1> HIDE DEF new
  <1>3. /\ IsFiniteSet(Units(f) \cup {new})
        /\ Cardinality(Units(f) \cup {new}) =
             IF new \in Units(f) THEN Cardinality(Units(f))
             ELSE Cardinality(Units(f)) + 1
    BY FS_AddElement
  <1> QED
    BY <1>1, <1>2, <1>3 DEF Total

\* The totals of the statistics s agree with its list.
Totalled(s) ==
  /\ IsFiniteSet(Units(Pictures(s.motion_list)))
  /\ IsFiniteSet(Units(VideoFrames(s.motion_list)))
  /\ s.total_pictures = Total(Pictures(s.motion_list))
  /\ s.total_video_frames <= Total(VideoFrames(s.motion_list))

\* No counters, no units.
LEMMA TotalOfNone ==
  ASSUME NEW f, DOMAIN f = {} PROVE IsFiniteSet(Units(f)) /\ Total(f) = 0
  <1>1. Units(f) = {}
    BY DEF Units
  <1> QED
    BY <1>1, FS_EmptySet DEF Total

\* The counters are natural numbers.
LEMMA CountersType ==
  ASSUME NEW list \in Seq(Motion)
  PROVE  /\ Pictures(list) \in [1 .. Len(list) -> Nat]
         /\ VideoFrames(list) \in [1 .. Len(list) -> Nat]
  <1>1. \A k \in 1 .. Len(list) : list[Len(list) + 1 - k] \in Motion
    <2> TAKE k \in 1 .. Len(list)
    <2>1. Len(list) \in Nat /\ Len(list) + 1 - k \in 1 .. Len(list)
      OBVIOUS
    <2> QED
      BY <2>1
  <1>2. \A m \in Motion : m.pictures \in Nat /\ m.video_frames \in Nat
    BY DEF Motion
  <1> QED
    BY <1>1, <1>2 DEF Pictures, VideoFrames

\* A motion in front of the list appends its counters to theirs.
LEMMA CountersAppended ==
  ASSUME NEW list \in Seq(Motion), NEW m \in Motion
  PROVE  LET n == Len(list)
             more == <<m>> \o list
         IN  /\ Pictures(more) \in [1 .. n + 1 -> Nat]
             /\ VideoFrames(more) \in [1 .. n + 1 -> Nat]
             /\ \A k \in 1 .. n :
                  /\ Pictures(more)[k] = Pictures(list)[k]
                  /\ VideoFrames(more)[k] = VideoFrames(list)[k]
             /\ Pictures(more)[n + 1] = m.pictures
             /\ VideoFrames(more)[n + 1] = m.video_frames
  <1> DEFINE n == Len(list)
             more == <<m>> \o list
  <1>1. /\ more \in Seq(Motion) /\ Len(more) = n + 1 /\ n \in Nat
        /\ more[1] = m
        /\ \A i \in 1 .. n : more[i + 1] = list[i]
    BY HeadOfList
  <1> HIDE DEF more
  <1>2. /\ Pictures(more) \in [1 .. n + 1 -> Nat]
        /\ VideoFrames(more) \in [1 .. n + 1 -> Nat]
    BY <1>1, CountersType
  <1>3. \A k \in 1 .. n : more[(n + 1) + 1 - k] = list[n + 1 - k]
    <2> TAKE k \in 1 .. n
    <2>1. n + 1 - k \in 1 .. n /\ (n + 1) + 1 - k = (n + 1 - k) + 1
      BY <1>1
    <2> QED
      BY <1>1, <2>1
  <1>4. \A k \in 1 .. n : /\ Pictures(more)[k] = Pictures(list)[k]
                          /\ VideoFrames(more)[k] = VideoFrames(list)[k]
    <2> TAKE k \in 1 .. n
    <2>1. k \in 1 .. n + 1
      BY <1>1
    <2>2. /\ Pictures(more)[k] = more[(n + 1) + 1 - k].pictures
          /\ VideoFrames(more)[k] = more[(n + 1) + 1 - k].video_frames
      BY <1>1, <2>1 DEF Pictures, VideoFrames
    <2>3. /\ Pictures(list)[k] = list[n + 1 - k].pictures
          /\ VideoFrames(list)[k] = list[n + 1 - k].video_frames
      BY DEF Pictures, VideoFrames
    <2> QED
      BY <1>3, <2>2, <2>3
  <1>5. /\ Pictures(more)[n + 1] = m.pictures
        /\ VideoFrames(more)[n + 1] = m.video_frames
    <2>1. n + 1 \in 1 .. n + 1 /\ (n + 1) + 1 - (n + 1) = 1
      BY <1>1
    <2> QED
      BY <1>1, <2>1 DEF Pictures, VideoFrames
  <1> QED
    BY <1>2, <1>4, <1>5 DEF more

\* Moving the current motion to the list keeps the totals.
LEMMA EndMotionTotals ==
  ASSUME NEW s \in Stats, NEW time \in Nat, Totalled(s)
  PROVE  Totalled(end_motion(s, time))
  <1>1. CASE s.current_motion = NULL
    BY <1>1 DEF end_motion
  <1>2. CASE s.current_motion # NULL
    <2> DEFINE m == ended(s, time)
               l == s.motion_list
               more == <<m>> \o l
               e == end_motion(s, time)
    <2>0. m \in Motion /\ m.pictures \in Nat /\ m.video_frames \in Nat
      BY <1>2, EndedType DEF Motion
    <2>1. /\ l \in Seq(Motion) /\ Len(l) \in Nat
          /\ s.total_pictures \in Nat /\ s.total_video_frames \in Nat
      BY DEF Stats
    <2>2. e.motion_list = more
      BY <1>2, EndMotionType
    <2>3. /\ e.total_pictures = s.total_pictures + m.pictures
          /\ e.total_video_frames <= s.total_video_frames + m.video_frames
      <3>1. CASE l = <<>>
        <4>1. /\ e.total_pictures = m.pictures
              /\ e.total_video_frames = m.video_frames
          BY <1>2, <3>1 DEF end_motion, add_motion, Stats
        <4>2. DOMAIN Pictures(l) = {}
          BY <3>1 DEF Pictures
        <4>3. s.total_pictures = 0
          BY <4>2, TotalOfNone DEF Totalled
        <4> HIDE DEF m, e
        <4> QED
          BY <2>0, <2>1, <4>1, <4>3
      <3>2. CASE l # <<>>
        <4>1. /\ e.total_pictures = s.total_pictures + m.pictures
              /\ e.total_video_frames = s.total_video_frames + m.video_frames
          BY <1>2, <3>2 DEF end_motion, add_motion, Stats
        <4> HIDE DEF m, e
        <4> QED
          BY <2>0, <2>1, <4>1
      <3> QED
        BY <3>1, <3>2
    <2> HIDE DEF m, e
    <2>4. /\ Pictures(more) \in [1 .. Len(l) + 1 -> Nat]
          /\ VideoFrames(more) \in [1 .. Len(l) + 1 -> Nat]
          /\ \A k \in 1 .. Len(l) :
                  /\ Pictures(more)[k] = Pictures(l)[k]
                  /\ VideoFrames(more)[k] = VideoFrames(l)[k]
          /\ Pictures(more)[Len(l) + 1] = m.pictures
          /\ VideoFrames(more)[Len(l) + 1] = m.video_frames
      BY <2>0, <2>1, CountersAppended
    <2>5. /\ Pictures(l) \in [1 .. Len(l) -> Nat]
          /\ VideoFrames(l) \in [1 .. Len(l) -> Nat]
      BY <2>1, CountersType
    <2> HIDE DEF l, more
    <2>6. /\ IsFiniteSet(Units(Pictures(l)))
          /\ IsFiniteSet(Units(VideoFrames(l)))
          /\ s.total_pictures = Total(Pictures(l))
          /\ s.total_video_frames <= Total(VideoFrames(l))
      BY DEF Totalled, l
    <2>7. /\ IsFiniteSet(Units(Pictures(more)))
          /\ Total(Pictures(more)) = Total(Pictures(l)) + m.pictures
      BY <2>1, <2>4, <2>5, <2>6, TotalAppended
    <2>8. /\ IsFiniteSet(Units(VideoFrames(more)))
          /\ Total(VideoFrames(more))
               = Total(VideoFrames(l)) + m.video_frames
      BY <2>1, <2>4, <2>5, <2>6, TotalAppended
    <2>9. Total(VideoFrames(l)) \in Nat
      BY <2>6, FS_CardinalityType DEF Total
    <2>10. e.total_video_frames \in Nat
      BY EndMotionType DEF e, Stats
    <2>11. e.total_video_frames <= Total(VideoFrames(more))
      BY <2>0, <2>1, <2>3, <2>6, <2>8, <2>9, <2>10
    <2>12. Totalled(e)
      BY <2>2, <2>3, <2>6, <2>7, <2>8, <2>11 DEF Totalled
    <2> QED
      BY <2>12 DEF e
  <1> QED
    BY <1>1, <1>2

\* Counting a frame, on the current motion or on the newest one of the list,
\* keeps the totals: the latter makes the sum larger than the total.
LEMMA CountFrameTotals ==
  ASSUME NEW s \in Stats, has_motion(s), Totalled(s)
  PROVE  Totalled(count_frame(s))
  <1> DEFINE l == s.motion_list
             n == Len(l)
             c == count_frame(s)
  <1>0. l \in Seq(Motion) /\ n \in Nat
    BY DEF Stats
  <1>1. /\ c.total_pictures = s.total_pictures
        /\ c.total_video_frames = s.total_video_frames
    BY DEF count_frame, Stats
  <1>2. CASE s.current_motion # NULL
    <2>1. c.motion_list = l
      BY <1>2 DEF count_frame, Stats
    <2> QED
      BY <1>1, <2>1 DEF Totalled
  <1>3. CASE s.current_motion = NULL
    <2> DEFINE m == [l[1] EXCEPT !.video_frames = @ + 1]
               more == [l EXCEPT ![1] = m]
    <2>1. l # <<>> /\ n # 0
      BY <1>0, <1>3 DEF has_motion
    <2>2. l[1] \in Motion
      BY <1>0, <2>1
    <2>3. /\ m \in Motion /\ m.pictures = l[1].pictures
          /\ m.video_frames = l[1].video_frames + 1
      BY <2>2 DEF Motion
    <2>4. c.motion_list = more
      BY <1>3 DEF count_frame, Stats
    <2> HIDE DEF m, l, c
    <2>5. /\ more \in Seq(Motion) /\ Len(more) = n
          /\ \A i \in 1 .. n : more[i] = IF i = 1 THEN m ELSE l[i]
      BY <1>0, <2>1, <2>3
    <2> HIDE DEF more, n
    <2>a. Len(l) = n
      BY DEF n
    <2>6. /\ Pictures(l) \in [1 .. n -> Nat] /\ Pictures(more) \in [1 .. n -> Nat]
          /\ VideoFrames(l) \in [1 .. n -> Nat]
          /\ VideoFrames(more) \in [1 .. n -> Nat]
      BY <1>0, <2>5, <2>a, CountersType
    <2>7. \A k \in 1 .. n :
            /\ n + 1 - k \in 1 .. n
            /\ n + 1 - k = 1 <=> k = n
      BY <1>0
    <2>8. \A k \in 1 .. n : Pictures(more)[k] = Pictures(l)[k]
      BY <2>3, <2>5, <2>7, <2>a DEF Pictures
    <2>9. Pictures(more) = Pictures(l)
      <3>1. Pictures(more) = [k \in 1 .. n |-> Pictures(more)[k]]
        BY <2>6
      <3>2. Pictures(l) = [k \in 1 .. n |-> Pictures(l)[k]]
        BY <2>6
      <3>3. [k \in 1 .. n |-> Pictures(more)[k]]
              = [k \in 1 .. n |-> Pictures(l)[k]]
        BY <2>8, Zenon
      <3> QED
        BY <3>1, <3>2, <3>3
    <2>10. /\ VideoFrames(more)[n] = VideoFrames(l)[n] + 1
           /\ \A k \in 1 .. n : k # n => VideoFrames(more)[k] = VideoFrames(l)[k]
      <3>1. n \in 1 .. n /\ n + 1 - n = 1 /\ 1 \in 1 .. n
        BY <1>0, <2>1
      <3>2. VideoFrames(more)[n] = VideoFrames(l)[n] + 1
        BY <2>3, <2>5, <2>a, <3>1 DEF VideoFrames
      <3>3. \A k \in 1 .. n : k # n => VideoFrames(more)[k] = VideoFrames(l)[k]
        BY <2>5, <2>7, <2>a DEF VideoFrames
      <3> QED
        BY <3>2, <3>3
    <2>11. VideoFrames(more) = [VideoFrames(l) EXCEPT ![n] = @ + 1]
      BY <2>6, <2>10
    <2>12. /\ IsFiniteSet(Units(Pictures(l)))
           /\ IsFiniteSet(Units(VideoFrames(l)))
           /\ s.total_pictures = Total(Pictures(l))
           /\ s.total_video_frames <= Total(VideoFrames(l))
      BY DEF Totalled, l
    <2>13. /\ IsFiniteSet(Units(VideoFrames(more)))
           /\ Total(VideoFrames(more)) = Total(VideoFrames(l)) + 1
      BY <1>0, <2>1, <2>6, <2>11, <2>12, TotalIncremented
    <2>14. Total(VideoFrames(l)) \in Nat /\ s.total_video_frames \in Nat
      BY <2>12, FS_CardinalityType DEF Total, Stats
    <2>15. s.total_video_frames <= Total(VideoFrames(more))
      BY <2>12, <2>13, <2>14
    <2>16. Totalled(c)
      BY <1>1, <2>4, <2>9, <2>12, <2>13, <2>15 DEF Totalled
    <2> QED
      BY <2>16 DEF c
  <1> QED
    BY <1>2, <1>3

\* The totals agree with the list in every reachable state: end_motion is
\* the only operation that touches either, but for frames counted late.
LEMMA TotalsInvariant == Spec => []Totalled(stats)
  <1>1. Init => Totalled(stats)
    <2> SUFFICES ASSUME Init PROVE Totalled(stats)
      OBVIOUS
    <2>1. stats = new_statistics
      BY DEF Init
    <2>2. /\ stats.motion_list = <<>> /\ stats.total_pictures = 0
          /\ stats.total_video_frames = 0
      BY <2>1 DEF new_statistics
    <2>3. /\ DOMAIN Pictures(stats.motion_list) = {}
          /\ DOMAIN VideoFrames(stats.motion_list) = {}
      BY <2>2 DEF Pictures, VideoFrames
    <2> QED
      BY <2>2, <2>3, TotalOfNone DEF Totalled
  <1>2. TypeOK /\ AssertInv /\ Totalled(stats) /\ [Next]_vars
          => Totalled(stats)'
    <2> SUFFICES ASSUME TypeOK, AssertInv, Totalled(stats), [Next]_vars
                 PROVE  Totalled(stats)'
      OBVIOUS
    <2>0. stats \in Stats /\ now \in Nat /\ clock \in Nat
      BY BoundsAssumption DEF TypeOK
    <2>1. CASE UNCHANGED stats
      BY <2>1
    <2>2. CASE MotionDetected
      <3>1. stats' = begin_motion(stats, now)
        BY <2>2 DEF MotionDetected
      <3>2. /\ stats'.motion_list = stats.motion_list
            /\ stats'.total_pictures = stats.total_pictures
            /\ stats'.total_video_frames = stats.total_video_frames
        BY <2>0, <3>1 DEF begin_motion, Stats
      <3> QED
        BY <3>2 DEF Totalled
    <2>3. CASE EndMotion
      BY <2>0, <2>3, EndMotionTotals DEF EndMotion
    <2>4. CASE LastMotion
      BY <2>0, <2>4, EndMotionTotals DEF LastMotion
    <2>5. CASE PictureCounts
      <3>1. stats' = count_picture(stats)
        BY <2>5 DEF PictureCounts
      <3>2. /\ stats'.motion_list = stats.motion_list
            /\ stats'.total_pictures = stats.total_pictures
            /\ stats'.total_video_frames = stats.total_video_frames
        BY <2>0, <3>1 DEF count_picture, Stats
      <3> QED
        BY <3>2 DEF Totalled
    <2>6. CASE VideoCounts
      <3>1. has_motion(stats)
        BY <2>6 DEF VideoCounts, AssertInv, MotionForFrames
      <3>2. stats' = count_frame(stats)
        BY <2>6, <3>1 DEF VideoCounts
      <3> QED
        BY <2>0, <3>1, <3>2, CountFrameTotals
    <2>7. CASE VideoSetsPath /\ stats' = name_video(stats, flv_filepath)
      <3>2. /\ stats'.motion_list = stats.motion_list
            /\ stats'.total_pictures = stats.total_pictures
            /\ stats'.total_video_frames = stats.total_video_frames
        BY <2>0, <2>7 DEF name_video, Stats
      <3> QED
        BY <3>2 DEF Totalled
    <2>8. CASE VideoSetsPath /\ Abort("disk")
      BY <2>8 DEF Abort, record
    <2>9. CASE \E motion \in BOOLEAN : Capture(motion)
      BY <2>9 DEF Capture, record
    <2>10. CASE Tick
      BY <2>10 DEF Tick, record
    <2>11. VideoSetsPath =>
             stats' = name_video(stats, flv_filepath) \/ Abort("disk")
      BY DEF VideoSetsPath
    <2> QED
      BY <2>1, <2>2, <2>3, <2>4, <2>5, <2>6, <2>7, <2>8, <2>9, <2>10, <2>11,
         MainIsQuiet, OthersAreQuiet DEF Next, QuietStep
  <1> QED
    BY TypeCorrect, AssertInvariant, <1>1, <1>2, PTL DEF Spec

\* What dump_statistics prints agrees with the motions it lists, at any time
\* and for any number of motions: the first motion sets the totals and every
\* later one adds to them (src/statistics.c:121), while the threads go on
\* counting (src/client/picture_thread.c, src/client/video_thread.c).
THEOREM TotalsAreConsistent == Spec => []TotalsConsistent
  <1>1. Totalled(stats) => TotalsConsistent
    BY DEF Totalled, TotalsConsistent
  <1> QED
    BY TotalsInvariant, <1>1, PTL

-----------------------------------------------------------------------------
(* The locks *)

\* A lock is owned exactly between its lock and its unlock, by the thread
\* that is there.
LocksOwned ==
  /\ picture_mutex = "main" <=> mpc \in {"notify_picture", "exit_picture"}
  /\ picture_mutex = "picture" <=> ppc \in {"read", "write", "count"}
  /\ picture_mutex # "video"
  /\ video_mutex = "main" <=> mpc \in {"notify_video", "exit_video"}
  /\ video_mutex = "video" <=>
       vpc \in {"switch", "name", "path", "read", "count"}
  /\ video_mutex # "picture"
  /\ stats_mutex = "main" <=> mpc \in {"motion", "end", "last", "dump"}
  /\ bufferYUYV_rwlock = "main" <=> mpc = "write"

\* Main keeps LocksOwned: it takes a lock only when it is free and gives it
\* back in the next step.
LEMMA MainLocks ==
  ASSUME TypeOK, ThreadInv, LocksOwned, MainStep PROVE LocksOwned'
  <1> USE DEF LocksOwned, MainAt, Abort, data, controls, targets, locks,
          detection, buffers, files, record, environment
  <1>1. CASE CreatePicture \/ CreateVideo
    <2>1. CASE CreatePicture
      <3>1. ppc = "none"
        BY <2>1 DEF CreatePicture, ThreadInv
      <3> QED
        BY <2>1, <3>1 DEF CreatePicture
    <2>2. CASE CreateVideo
      <3>1. vpc = "none"
        BY <2>2 DEF CreateVideo, ThreadInv, Creation
      <3> QED
        BY <2>2, <3>1 DEF CreateVideo
    <2> QED
      BY <1>1, <2>1, <2>2
  <1>2. CASE CountThread
    BY <1>2 DEF CountThread
  <1>3. CASE OpenDevice \/ LoopTest \/ SelectInterrupted \/ SelectFails
    BY <1>3 DEF OpenDevice, LoopTest, SelectInterrupted, SelectFails
  <1>4. CASE BufferIoctlFails \/ RequeueBuffer
    BY <1>4 DEF BufferIoctlFails, RequeueBuffer
  <1>5. ASSUME NEW motion \in BOOLEAN, Capture(motion) PROVE LocksOwned'
    BY <1>5 DEF Capture
  <1>6. CASE LockStats
    BY <1>6 DEF LockStats
  <1>7. CASE MotionDetected
    BY <1>7 DEF MotionDetected
  <1>8. CASE LockBuffer
    BY <1>8 DEF LockBuffer
  <1>9. CASE WriteBuffer
    BY <1>9 DEF WriteBuffer
  <1>10. CASE LockPicture
    BY <1>10 DEF LockPicture
  <1>11. CASE LockVideo
    BY <1>11 DEF LockVideo
  <1>12. CASE TellPicture
    BY <1>12 DEF TellPicture, Signalled
  <1>13. CASE TellVideo
    BY <1>13 DEF TellVideo, Signalled
  <1>14. CASE CheckSwitch \/ CheckElapsed
    BY <1>14 DEF CheckSwitch, CheckElapsed
  <1>15. CASE EndMotion
    BY <1>15 DEF EndMotion
  <1>16. CASE LastMotion
    BY <1>16 DEF LastMotion
  <1>17. CASE TotalThread \/ FreeBuffers \/ JoinThreads
    BY <1>17 DEF TotalThread, FreeBuffers, JoinThreads
  <1>18. CASE DumpStatistics
    BY <1>18 DEF DumpStatistics
  <1> QED
    BY <1>1, <1>2, <1>3, <1>4, <1>5, <1>6, <1>7, <1>8, <1>9, <1>10, <1>11,
       <1>12, <1>13, <1>14, <1>15, <1>16, <1>17, <1>18 DEF MainStep

\* The threads keep LocksOwned: they have their mutex while they work on a
\* frame, and give it back before they wait and before they exit.
LEMMA ThreadsLocks ==
  ASSUME TypeOK, LocksOwned,
         PictureStep \/ PictureWakes \/ VideoStep \/ VideoWakes
  PROVE  LocksOwned'
  <1> USE DEF LocksOwned, PictureAt, VideoAt, Abort, data, controls, targets,
          locks, detection, buffers, files, record, environment
  <1>1. CASE PictureWakes \/ PictureExits
    BY <1>1 DEF PictureWakes, PictureExits
  <1>2. CASE PictureTakes
    BY <1>2 DEF PictureTakes, AfterTaking, TypeOK, Targets
  <1>3. CASE PictureReads \/ PictureWrites
    BY <1>3 DEF PictureReads, PictureWrites
  <1>4. CASE PictureCounts
    BY <1>4 DEF PictureCounts
  <1>5. CASE VideoWakes \/ VideoExits
    BY <1>5 DEF VideoWakes, VideoExits
  <1>6. CASE VideoTakes
    BY <1>6 DEF VideoTakes, AfterTaking, TypeOK, Targets
  <1>7. CASE VideoSwitches \/ VideoNames
    BY <1>7 DEF VideoSwitches, VideoNames
  <1>8. CASE VideoSetsPath \/ VideoEncodes
    BY <1>8 DEF VideoSetsPath, VideoEncodes
  <1>9. CASE VideoCounts
    BY <1>9 DEF VideoCounts
  <1> QED
    BY <1>1, <1>2, <1>3, <1>4, <1>5, <1>6, <1>7, <1>8, <1>9
       DEF PictureStep, VideoStep

\* The handler and the environment keep LocksOwned.
LEMMA OtherLocks ==
  ASSUME TypeOK, LocksOwned,
         \/ \E t \in Threads : Interrupt(t) \/ HandlerStep(t)
         \/ Tick \/ Gone \/ UNCHANGED vars
  PROVE  LocksOwned'
  <1> USE DEF LocksOwned, controls, targets, locks, detection, buffers, files,
          record, environment
  <1>1. ASSUME NEW t \in Threads, Interrupt(t) \/ HandlerStep(t)
        PROVE  LocksOwned'
    <2>1. CASE Interrupt(t) \/ HandlerStops(t)
      BY <2>1 DEF Interrupt, HandlerStops
    <2>2. CASE HandlerTellsPicture(t)
      BY <2>2 DEF HandlerTellsPicture, Signalled
    <2>3. CASE HandlerTellsVideo(t)
      BY <2>3 DEF HandlerTellsVideo, Signalled
    <2> QED
      BY <1>1, <2>1, <2>2, <2>3 DEF HandlerStep
  <1>2. CASE Tick \/ Gone \/ UNCHANGED vars
    BY <1>2 DEF Tick, Gone, vars
  <1> QED
    BY <1>1, <1>2

\* Mutual exclusion, wherever signals arrive and whatever fails: at most one
\* thread is between the lock and the unlock of a mutex, and every way out
\* of the critical sections of src/client/image_capture.c,
\* src/client/picture_thread.c and src/client/video_thread.c (the wait, the
\* exit, the end of the work) has given the mutex back.
THEOREM LocksAreOwned == Spec => []LocksOwned
  <1>1. Init => LocksOwned
    BY DEF Init, LocksOwned
  <1>2. TypeOK /\ ThreadInv /\ LocksOwned /\ [Next]_vars => LocksOwned'
    BY MainLocks, ThreadsLocks, OtherLocks DEF Next
  <1> QED
    BY TypeCorrect, ThreadInvariant, <1>1, <1>2, PTL DEF Spec

\* Up to the first SIGINT that is not the only one, the handler runs on top
\* of main only, and finds it outside its critical sections.
HandlerOwnsNothing ==
  sigints <= 1 =>
    /\ hpc["picture"] = "idle"
    /\ hpc["video"] = "idle"
    /\ sigints = 0 => hpc["main"] = "idle"
    /\ hpc["main"] # "idle" => mpc \notin MainHolds

\* A step of main takes place outside the handler and leaves it alone.
LEMMA MainRuns ==
  ASSUME TypeOK, MainStep
  PROVE  hpc["main"] = "idle" /\ UNCHANGED <<hpc, sigints>>
  <1> USE DEF Runs, MainAt, Abort, data, environment
  <1>1. CASE CreatePicture \/ CreateVideo \/ CountThread
    BY <1>1 DEF CreatePicture, CreateVideo, CountThread
  <1>2. CASE OpenDevice \/ LoopTest \/ SelectInterrupted \/ SelectFails
    BY <1>2 DEF OpenDevice, LoopTest, SelectInterrupted, SelectFails
  <1>3. CASE BufferIoctlFails \/ RequeueBuffer
    BY <1>3 DEF BufferIoctlFails, RequeueBuffer
  <1>4. CASE \E motion \in BOOLEAN : Capture(motion)
    BY <1>4 DEF Capture
  <1>5. CASE LockStats
    BY <1>5 DEF LockStats
  <1>6. CASE MotionDetected \/ LockBuffer \/ WriteBuffer
    BY <1>6 DEF MotionDetected, LockBuffer, WriteBuffer
  <1>7. CASE LockPicture \/ LockVideo
    BY <1>7 DEF LockPicture, LockVideo
  <1>8. CASE TellPicture \/ TellVideo
    BY <1>8 DEF TellPicture, TellVideo
  <1>9. CASE CheckSwitch \/ CheckElapsed
    BY <1>9 DEF CheckSwitch, CheckElapsed
  <1>10. CASE EndMotion \/ LastMotion
    BY <1>10 DEF EndMotion, LastMotion
  <1>11. CASE TotalThread \/ FreeBuffers \/ JoinThreads \/ DumpStatistics
    BY <1>11 DEF TotalThread, FreeBuffers, JoinThreads, DumpStatistics
  <1> QED
    BY <1>1, <1>2, <1>3, <1>4, <1>5, <1>6, <1>7, <1>8, <1>9, <1>10, <1>11
       DEF MainStep

\* A step of the other threads leaves main and the handler alone.
LEMMA ThreadsLeaveHandler ==
  ASSUME PictureStep \/ PictureWakes \/ VideoStep \/ VideoWakes
  PROVE  UNCHANGED <<mpc, hpc, sigints>>
  <1> USE DEF PictureAt, VideoAt, Abort, data, environment
  <1>1. CASE PictureStep \/ PictureWakes
    BY <1>1 DEF PictureStep, PictureWakes, PictureTakes, PictureReads,
                PictureWrites, PictureCounts, PictureExits
  <1>2. CASE VideoStep \/ VideoWakes
    BY <1>2 DEF VideoStep, VideoWakes, VideoTakes, VideoSwitches, VideoNames,
                VideoSetsPath, VideoEncodes, VideoCounts, VideoExits
  <1> QED
    BY <1>1, <1>2

\* When SIGINT finds main outside its critical sections only, a handler
\* owns no lock until there is a second SIGINT.
LEMMA HandlerInvariant ==
  ASSUME SignalPoints \cap MainHolds = {}
  PROVE  Spec => []HandlerOwnsNothing
  <1>1. Init => HandlerOwnsNothing
    BY DEF Init, HandlerOwnsNothing, Threads
  <1>2. ASSUME TypeOK, HandlerOwnsNothing, [Next]_vars
        PROVE  HandlerOwnsNothing'
    <2> USE DEF HandlerOwnsNothing
    <2>0. sigints \in Nat /\ hpc \in [Threads -> HandlerLabels]
      BY <1>2, BoundsAssumption DEF TypeOK
    <2>1. CASE MainStep
      BY <1>2, <2>1, MainRuns
    <2>2. CASE PictureStep \/ PictureWakes \/ VideoStep \/ VideoWakes
      BY <1>2, <2>2, ThreadsLeaveHandler
    <2>3. ASSUME NEW t \in Threads, Interrupt(t) PROVE HandlerOwnsNothing'
      <3>1. /\ sigints' = sigints + 1 /\ mpc' = mpc
            /\ hpc' = [hpc EXCEPT ![t] =
                         IF HasPicture THEN "picture" ELSE "video"]
            /\ IF t = "main" THEN mpc \in SignalPoints
                             ELSE hpc["main"] # "idle"
        BY <2>3 DEF Interrupt
      <3>2. CASE sigints = 0
        <4>1. t = "main" /\ mpc \notin MainHolds
          BY <1>2, <3>1, <3>2
        <4>2. hpc'["picture"] = "idle" /\ hpc'["video"] = "idle"
          BY <1>2, <2>0, <3>1, <3>2, <4>1 DEF Threads
        <4> QED
          BY <3>1, <3>2, <4>1, <4>2
      <3>3. CASE sigints # 0
        BY <2>0, <3>1, <3>3
      <3> QED
        BY <3>2, <3>3
    <2>4. ASSUME NEW t \in Threads, HandlerStep(t) PROVE HandlerOwnsNothing'
      <3>1. /\ sigints' = sigints /\ mpc' = mpc /\ hpc[t] # "idle"
            /\ \E l \in HandlerLabels : hpc' = [hpc EXCEPT ![t] = l]
        BY <2>4 DEF HandlerStep, HandlerTellsPicture, HandlerTellsVideo,
                    HandlerStops, HandlerLabels, environment
      <3> QED
        BY <1>2, <2>0, <3>1 DEF Threads
    <2>5. CASE Tick \/ Gone \/ UNCHANGED vars
      BY <1>2, <2>5 DEF Tick, Gone, vars, environment
    <2> QED
      BY <1>2, <2>1, <2>2, <2>3, <2>4, <2>5 DEF Next
  <1> QED
    BY TypeCorrect, <1>1, <1>2, PTL DEF Spec

\* Nobody waits for a thread that waits.
LEMMA WaitersOwnNothingWanted ==
  ASSUME TypeOK, LocksOwned, HandlerOwnsNothing, sigints <= 1
  PROVE  NoWaitForWaiter
  <1> SUFFICES ASSUME NEW t \in Threads, NEW u \in Threads, NEW v \in Threads,
                      Waits(t, u), Waits(u, v)
               PROVE  FALSE
    BY DEF NoWaitForWaiter
  <1> USE DEF Waits, WantsPicture, WantsVideo, WantsStats, WantsBuffer
  <1>0. /\ hpc["picture"] = "idle" /\ hpc["video"] = "idle"
        /\ hpc["main"] # "idle" => mpc \notin MainHolds
        /\ stats_mutex \in {"none", "main"}
        /\ bufferYUYV_rwlock \in {"none", "main"}
    BY DEF HandlerOwnsNothing, TypeOK
  <1>1. CASE u = "main"
    <2>1. mpc \notin MainHolds
      BY <1>0, <1>1 DEF MainHolds
    <2> QED
      BY <1>1, <2>1 DEF LocksOwned, MainHolds
  <1>2. CASE u = "picture"
    <2>1. picture_mutex = "picture" /\ WantsPicture(t)
      BY <1>0, <1>2 DEF LocksOwned
    <2>2. t = "main" /\ mpc \notin {"motion", "end", "last", "dump", "write"}
      BY <1>0, <2>1 DEF LocksOwned, Threads, MainHolds
    <2>3. stats_mutex = "none" /\ bufferYUYV_rwlock = "none"
      BY <1>0, <2>2 DEF LocksOwned
    <2> QED
      BY <1>0, <1>2, <2>1, <2>3 DEF LocksOwned, Threads
  <1>3. CASE u = "video"
    <2>1. video_mutex = "video" /\ WantsVideo(t)
      BY <1>0, <1>3 DEF LocksOwned
    <2>2. t = "main" /\ mpc \notin {"motion", "end", "last", "dump", "write"}
      BY <1>0, <2>1 DEF LocksOwned, Threads, MainHolds
    <2>3. stats_mutex = "none" /\ bufferYUYV_rwlock = "none"
      BY <1>0, <2>2 DEF LocksOwned
    <2> QED
      BY <1>0, <1>3, <2>1, <2>3 DEF LocksOwned, Threads
  <1> QED
    BY <1>1, <1>2, <1>3 DEF Threads

\* No deadlock on locks as long as a SIGINT finds main outside its critical
\* sections and is the only one so far: what src/signal_handler.c:62 needs
\* to be allowed to lock the threads' mutexes.
THEOREM NobodyWaitsForAWaiter ==
  ASSUME SignalPoints \cap MainHolds = {}
  PROVE  Spec => [](sigints <= 1 => NoWaitForWaiter)
  <1>1. TypeOK /\ LocksOwned /\ HandlerOwnsNothing
          => (sigints <= 1 => NoWaitForWaiter)
    BY WaitersOwnNothingWanted
  <1> QED
    BY TypeCorrect, LocksAreOwned, HandlerInvariant, <1>1, PTL
=============================================================================
