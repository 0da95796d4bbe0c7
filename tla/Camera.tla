------------------------------- MODULE Camera -------------------------------
(***************************************************************************)
(* The camera and the frames it delivers: src/client/video.c, video_mmap() *)
(* and the other calls of src/v4l2_utils.c, and read_frame() with its loop *)
(* in src/client/image_capture.c.  The driver (external) grants buffers,   *)
(* fills the ones it has been given and may overwrite those at any time.   *)
(* What else process_image() does with a frame is in ClientCapture.        *)
(***************************************************************************)
EXTENDS Integers, Sequences, FiniteSets, ImageConvert

CONSTANTS
    ReqCount,       \* req_count
    Grants,         \* how many buffers the driver may grant
    Frames          \* what a frame may look like

ASSUME CountAssumption == ReqCount \in Nat \ {0} /\ Grants \subseteq Nat \ {0}
ASSUME FramesAssumption == Frames \subseteq [Offsets -> 0..255]

VARIABLES
    pc,             \* where main is, from dmd_video_open() on
    i,              \* the loop variable of the loops over buffers
    granted,        \* req.count as VIDIOC_REQBUFS returns it
    fits,           \* the length of a buffer is width * height * 2
    mapped,         \* the buffers that are mapped
    queued,         \* the driver's queue of empty buffers
    filled,         \* its queue of filled ones
    bufindex,         \* buf.index of read_frame()
    image,          \* what is in that buffer
    captured,       \* history: what was in it when it was dequeued
    previous,       \* history: the frame examined before, <<>> at first
    referenceYUYV422,
    motion,         \* what YUYV422_motion_detect() said of the frame
    client_running

device == <<granted, fits, mapped>>
driver == <<queued, filled>>
picture == <<image, captured, previous, referenceYUYV422, motion>>
vars == <<pc, i, device, driver, bufindex, picture, client_running>>

NoFrame == <<>>
Black == [d \in Offsets |-> 0]
NoBuffer == -1

Init ==
    /\ pc = "open" /\ i = 0 /\ granted = 0 /\ fits = TRUE /\ mapped = {}
    /\ queued = <<>> /\ filled = <<>> /\ bufindex = NoBuffer
    /\ image = NoFrame /\ captured = NoFrame /\ previous = NoFrame
    /\ referenceYUYV422 = Black     \* set_buffering()
    /\ motion = FALSE /\ client_running = TRUE

----------------------------------------------------------------------------
(* dmd_video_open(), dmd_video_init(), dmd_video_streamon() *)

\* The calls that change nothing here, in their order; the program asserts
\* that each of them succeeds
Setup == <<"open", "capability", "input", "fmtdesc", "setfmt", "getfmt", "fps",
           "reqbufs">>

\* VIDIOC_S_FMT succeeds with another size if the camera does not have ours
SetupCall(fails, size) ==
    /\ \E k \in 1..Len(Setup) - 1 :
         /\ pc = Setup[k]
         /\ pc' = IF fails THEN "aborted" ELSE Setup[k + 1]
    /\ fits' = IF pc = "setfmt" THEN size ELSE fits
    /\ UNCHANGED <<i, granted, mapped, driver, bufindex, picture, client_running>>

\* The driver may grant fewer buffers or more; fewer are only logged
RequestBuffers(n, fails) ==
    /\ pc = "reqbufs"
    /\ pc' = IF fails THEN "aborted" ELSE "mmap"
    /\ granted' = n /\ i' = 0
    /\ UNCHANGED <<fits, mapped, driver, bufindex, picture, client_running>>

\* buffers[] has ReqCount elements: to write behind them is undefined
MapBuffer(fails) ==
    /\ pc = "mmap"
    /\ IF i < granted
       THEN /\ pc' = CASE fails -> "aborted"
                       [] ~fails /\ i >= ReqCount -> "undefined"
                       [] OTHER -> pc
            /\ mapped' = IF fails THEN mapped ELSE mapped \cup {i}
            /\ i' = i + 1
       ELSE pc' = "qbuf" /\ i' = 0 /\ UNCHANGED mapped
    /\ UNCHANGED <<granted, fits, driver, bufindex, picture, client_running>>

\* VIDIOC_QBUF fails for a buffer that was not granted
QueueBuffer(fails) ==
    /\ pc = "qbuf" /\ i < ReqCount
    /\ i' = i + 1
    /\ IF fails \/ i >= granted
       THEN pc' = "aborted" /\ UNCHANGED queued
       ELSE queued' = Append(queued, i) /\ UNCHANGED pc
    /\ UNCHANGED <<device, filled, bufindex, picture, client_running>>

StreamOn(fails) ==
    /\ pc = "qbuf" /\ i >= ReqCount
    /\ pc' = IF fails THEN "aborted" ELSE "loop"
    /\ UNCHANGED <<i, device, driver, bufindex, picture, client_running>>

----------------------------------------------------------------------------
(* The driver *)

Streaming == pc \in {"loop", "dqbuf", "process", "requeue", "streamoff"}

\* Frames go into the buffers in their order; what the program sees of a
\* buffer that the driver has changes with it
Fill ==
    /\ Streaming /\ queued # <<>>
    /\ filled' = Append(filled, Head(queued)) /\ queued' = Tail(queued)
    /\ image' \in IF bufindex = Head(queued) THEN Frames ELSE {image}
    /\ UNCHANGED <<pc, i, device, bufindex, captured, previous,
                   referenceYUYV422, motion, client_running>>

----------------------------------------------------------------------------
(* dmd_image_capture() and read_frame() *)

\* Mutant of AfterSelect: the loop starts again when there is a frame.
AfterSelectRepeats(outcome) ==
    IF outcome \in {"ready", "interrupted"} THEN "loop" ELSE "aborted"

AfterSelect(outcome) ==
    CASE outcome = "ready" -> "dqbuf"
      [] outcome = "interrupted" -> "loop"
      [] OTHER -> "aborted"

\* select() says that there is a frame, was interrupted, failed, or saw none
\* for two seconds; main asserts that the last two do not happen
Select(outcome) ==
    /\ pc = "loop" /\ client_running
    /\ outcome = "ready" => filled # <<>>
    /\ outcome = "timeout" => filled = <<>>
    /\ pc' = AfterSelect(outcome)
    /\ UNCHANGED <<i, device, driver, bufindex, picture, client_running>>

LeaveLoop ==
    /\ pc = "loop" /\ ~client_running
    /\ pc' = "streamoff"
    /\ UNCHANGED <<i, device, driver, bufindex, picture, client_running>>

\* VIDIOC_DQBUF, and the assertion on the length
Dequeue(f) ==
    /\ pc = "dqbuf" /\ filled # <<>>
    /\ bufindex' = Head(filled) /\ filled' = Tail(filled)
    /\ image' = f /\ captured' = f
    /\ pc' = IF fits THEN "process" ELSE "aborted"
    /\ UNCHANGED <<i, device, queued, previous, referenceYUYV422, motion,
                   client_running>>

\* The motion detection of process_image(): the reference is refreshed
\* whatever it says
Process ==
    /\ pc = "process"
    /\ motion' = YUYV422_motion_detect(referenceYUYV422, image)
    /\ referenceYUYV422' = image
    /\ previous' = referenceYUYV422
    /\ pc' = "requeue"
    /\ UNCHANGED <<i, device, driver, bufindex, image, captured, client_running>>

\* Mutant of RequeuedIndex: buf was cleared.
RequeuedFirst == 0

RequeuedIndex == bufindex

Requeue ==
    /\ pc = "requeue"
    /\ queued' = Append(queued, RequeuedIndex)
    /\ pc' = "loop" /\ bufindex' = NoBuffer
    /\ image' = NoFrame /\ captured' = NoFrame
    /\ previous' = NoFrame /\ motion' = FALSE
    /\ UNCHANGED <<i, device, filled, referenceYUYV422, client_running>>

\* Either ioctl() fails: the loop is left, the program goes on to its end
ReadFrameFails ==
    /\ pc \in {"dqbuf", "requeue"}
    /\ pc' = "streamoff" /\ bufindex' = NoBuffer
    /\ UNCHANGED <<i, device, driver, picture, client_running>>

Sigint ==
    /\ client_running /\ client_running' = FALSE
    /\ UNCHANGED <<pc, i, device, driver, bufindex, picture>>

----------------------------------------------------------------------------
(* dmd_video_streamoff(), dmd_video_close(), dmd_video_release() *)

StreamOff(fails) ==
    /\ pc = "streamoff"
    /\ pc' = IF fails THEN "aborted" ELSE "munmap"
    /\ i' = 0 /\ queued' = <<>> /\ filled' = <<>>
    /\ UNCHANGED <<device, bufindex, picture, client_running>>

Unmap(fails) ==
    /\ pc = "munmap"
    /\ IF i < ReqCount
       THEN /\ pc' = IF fails THEN "aborted" ELSE pc
            /\ mapped' = IF fails THEN mapped ELSE mapped \ {i}
            /\ i' = i + 1
       ELSE pc' = "released" /\ UNCHANGED <<mapped, i>>
    /\ UNCHANGED <<granted, fits, driver, bufindex, picture, client_running>>

Outcomes == {"ready", "interrupted", "timeout", "error"}

Program ==
    \/ \E fails \in BOOLEAN, size \in BOOLEAN : SetupCall(fails, size)
    \/ \E n \in Grants, fails \in BOOLEAN : RequestBuffers(n, fails)
    \/ \E fails \in BOOLEAN :
         MapBuffer(fails) \/ QueueBuffer(fails) \/ StreamOn(fails)
           \/ StreamOff(fails) \/ Unmap(fails)
    \/ \E outcome \in Outcomes : Select(outcome)
    \/ LeaveLoop \/ ReadFrameFails \/ Process \/ Requeue
    \/ \E f \in Frames : Dequeue(f)

Next == Program \/ Fill \/ Sigint

\* The steps of the program that succeed
Success ==
    \/ SetupCall(FALSE, TRUE) \/ RequestBuffers(ReqCount, FALSE)
    \/ MapBuffer(FALSE) \/ QueueBuffer(FALSE) \/ StreamOn(FALSE)
    \/ Select("ready") \/ (\E f \in Frames : Dequeue(f)) \/ Process \/ Requeue
    \/ LeaveLoop \/ StreamOff(FALSE) \/ Unmap(FALSE)

\* The program runs, its calls may fail but need not, and the camera delivers
Spec == Init /\ [][Next]_vars /\ WF_vars(Success) /\ WF_vars(Fill)

----------------------------------------------------------------------------
Final == {"aborted", "undefined", "released"}
Buffers == 0..ReqCount - 1
Elements(s) == {s[k] : k \in DOMAIN s}

\* While frames are captured no buffer is lost and none is held twice: each is
\* queued, filled or being examined, and so the driver does not write into
\* the frame that is examined.  A camera that granted fewer buffers never
\* gets here.  When the program ends in order none is mapped any more.
BuffersConserved ==
    /\ Streaming /\ pc # "streamoff" =>
         LET held == IF bufindex = NoBuffer THEN <<>> ELSE <<bufindex>>
             all == queued \o filled \o held
         IN Len(all) = ReqCount /\ Elements(all) = Buffers
    /\ pc = "released" => mapped = {}

\* Motion is reported exactly if at least diff_pixels pixels differ from the
\* frame before (from a black one at first), although the loop stops early
\* and walks two images with five pointers.
MotionIsChange ==
    pc = "requeue" =>
        (motion <=> Cardinality(ChangedPixels(previous, captured)) >= DiffPixels)

\* The conversion for the encoder puts every sample of the frame where the
\* planes of YUV420P have it, and fills them.
PlanarIsExact ==
    pc = "process" =>
        /\ YUYV422toYUV420P(image) = PlanarImage(image)
        /\ {x[1] : x \in YUYV422toYUV420P(image)} = Planar

\* The integer conversion for the JPEG files stays within 2.04 of the formulas
\* it stands for, in every pixel and also where it clips (the worst is a green
\* that is 2.03586 too bright).
RgbIsClose ==
    pc = "process" =>
        \A l \in 0..Height - 1, c \in 0..Width - 1 : \A channel \in 1..3 :
            Abs(100000 * YUYV422toRGB888INT(image, l * Width + c)[channel]
                - ExactRGB(image, l, c)[channel]) < 204000

\* A filled buffer goes round again: it is examined and queued for the driver,
\* or the program ends.
BuffersCirculate ==
    \A b \in Buffers :
        b \in Elements(filled) ~> b \in Elements(queued) \/ pc \in Final
=============================================================================
