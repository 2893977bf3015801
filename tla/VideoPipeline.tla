--------------------------- MODULE VideoPipeline ---------------------------
(***************************************************************************)
(* The camera operator's capture-and-encode pipeline                       *)
(* (video-core/src/pipeline/video_pipeline.cpp) with the capture device it *)
(* owns (video-core/src/capture/camera_capture.cpp) and the encoder it     *)
(* drives (video-core/src/encode).  Three threads meet in it:              *)
(*                                                                         *)
(*   - the caller, which runs initialize(), start() and stop();            *)
(*   - the capture thread, which pulls samples from GStreamer, pushes them *)
(*     on a bounded queue under queueMutex_ and notifies queueCondition_;  *)
(*   - the encode thread, which waits on queueCondition_, pops a frame and *)
(*     hands it to the encoder, whose packets go to the packet callback.   *)
(*                                                                         *)
(* Every action is one step between two points where another thread can    *)
(* interfere.  A critical section of queueMutex_ is one step, except the   *)
(* one in which the encode thread has found nothing to do: the stop token  *)
(* is not protected by the mutex, so evaluating the wait predicate and     *)
(* blocking are two steps ("check" and "block").                           *)
(* GStreamer and libav are external: samples arrive or the bus reports an  *)
(* error, the codec accepts or refuses a frame and may delay its packet.   *)
(***************************************************************************)
EXTENDS Integers, Sequences

CONSTANTS
    QueueCapacity,  \* QUEUE_CAPACITY
    CodecDepth,     \* most frames the codec holds back before it emits a packet
    MaxFrames,      \* bound: samples the camera delivers in a behaviour
    NvencAvailable  \* whether libav offers h264_nvenc, as createEncoder probes

ASSUME ConstantsAssumption ==
    /\ QueueCapacity \in Nat \ {0}
    /\ CodecDepth \in Nat
    /\ MaxFrames \in Nat
    /\ NvencAvailable \in BOOLEAN

VARIABLES
    ctl,            \* where the caller is inside start() or stop()
    device,         \* captureDevice_: absent, present without or with a GStreamer pipeline
    gst,            \* state of the device's GStreamer pipeline
    capRunning,     \* CameraCapture::running_
    capThread,      \* CameraCapture::captureThread_; "done" is finished but joinable
    capStop,        \* stop token of captureThread_
    captured,       \* samples pulled so far; also the name of the newest frame
    encoder,        \* encoder_: absent, created, or initialized ("open")
    encThread,      \* encodeThread_
    encStop,        \* stop token of encodeThread_
    frameQueue,     \* frameQueue_, frames named by capture order
    held,           \* the frame popped by the encode thread, as a sequence of length 0 or 1
    codec,          \* frames accepted by the codec whose packet is still to come
    packets,        \* frames whose packet reached the packet callback
    frameCount,     \* frameCount_
    framesDropped,  \* framesDropped_
    framesEncoded,  \* framesEncoded_
    encodeErrors,   \* frames that encodeFrame() refused; the code only discards the result
    forceKeyframe   \* SoftwareEncoder::forceKeyframe_

capVars == <<device, gst, capRunning, capThread, capStop, captured>>
encVars == <<encoder, encThread, encStop, held, codec, forceKeyframe>>
statVars == <<frameCount, framesDropped, framesEncoded, encodeErrors>>
vars == <<ctl, capVars, encVars, frameQueue, packets, statVars>>

Starting == {"start_capture", "start_thread"}
Stopping == {"stop_capture", "stop_join_capture", "stop_notify",
             "stop_request", "stop_join", "stop_encoder"}

Init ==
    /\ ctl = "idle"
    /\ device = "none" /\ gst = "null" /\ capRunning = FALSE
    /\ capThread = "none" /\ capStop = FALSE /\ captured = 0
    /\ encoder = "none" /\ encThread = "none" /\ encStop = FALSE
    /\ frameQueue = <<>> /\ held = <<>> /\ codec = <<>> /\ packets = <<>>
    /\ frameCount = 0 /\ framesDropped = 0 /\ framesEncoded = 0
    /\ encodeErrors = 0
    /\ forceKeyframe = FALSE

-----------------------------------------------------------------------------
(***************************************************************************)
(* The caller.                                                             *)
(***************************************************************************)

\* ~CameraCapture of the device that is replaced: a finished capture thread is
\* joined and GStreamer brought to NULL.
DestroyDevice ==
    gst' = "null" /\ capRunning' = FALSE /\ capThread' = "none" /\ capStop' = FALSE

\* buildPipeline() tries the camera's compressed and raw formats and, if installed,
\* four ways through PipeWire.  The first candidate that is parsed and reaches
\* READY is kept, every other is brought to NULL and released.
Candidates == {"v4l2 jpeg", "v4l2 raw", "pipewire"}
BuildPipeline(ready) == IF ready = {} THEN "unbuilt" ELSE "built"

\* initialize(): when no candidate works the call returns with the new device in
\* place and encoder_ as it was.  Otherwise a new encoder replaces the old one.
\* CameraSession::start calls it only while not running.
Initialize ==
    /\ ctl = "idle" /\ encThread = "none"
    /\ DestroyDevice
    /\ \E ready \in SUBSET Candidates :
          /\ device' = BuildPipeline(ready)
          /\ IF ready = {}
             THEN UNCHANGED <<encoder, forceKeyframe>>
             ELSE encoder' = "created" /\ forceKeyframe' = FALSE
    /\ UNCHANGED <<ctl, captured, encThread, encStop, frameQueue, held, codec,
                   packets, statVars>>

\* start(), up to encoder_->initialize.  When that fails start() returns and
\* nothing has changed; the two guards of start() are conjuncts here.
StartEncoder ==
    /\ ctl = "idle"
    /\ device # "none" /\ encoder # "none"
    /\ encThread = "none"
    /\ encoder' = "open"
    /\ ctl' = "start_capture"
    /\ UNCHANGED <<capVars, encThread, encStop, held, codec, forceKeyframe,
                   frameQueue, packets, statVars>>

\* captureDevice_->start fails: no GStreamer pipeline, an earlier capture
\* thread never joined, or PLAYING not reached.  start() returns at once and
\* leaves the encoder initialized.
StartCaptureFails ==
    /\ ctl = "start_capture"
    /\ gst' = IF device = "built" /\ capThread = "none" THEN "null" ELSE gst
    /\ ctl' = "idle"
    /\ UNCHANGED <<device, capRunning, capThread, capStop, captured, encVars,
                   frameQueue, packets, statVars>>

\* captureDevice_->start succeeds: from here on the capture thread runs,
\* although there is no encode thread yet.
StartCapture ==
    /\ ctl = "start_capture"
    /\ device = "built" /\ ~capRunning /\ capThread = "none"
    /\ gst' = "playing" /\ capRunning' = TRUE
    /\ capThread' = "pull" /\ capStop' = FALSE
    /\ ctl' = "start_thread"
    /\ UNCHANGED <<device, captured, encVars, frameQueue, packets, statVars>>

StartEncodeThread ==
    /\ ctl = "start_thread"
    /\ encThread' = "loop" /\ encStop' = FALSE
    /\ ctl' = "idle"
    /\ UNCHANGED <<capVars, encoder, held, codec, forceKeyframe, frameQueue,
                   packets, statVars>>

\* stop() first asks captureDevice_->isRunning(), which is false when there is
\* no device, when it never started and when the capture loop ended by itself.
StopBegin ==
    /\ ctl = "idle"
    /\ ctl' = IF capRunning THEN "stop_capture" ELSE "stop_notify"
    /\ UNCHANGED <<capVars, encVars, frameQueue, packets, statVars>>

\* Mutant: the device is told to stop but its thread is not joined.
StopCaptureUnjoined ==
    /\ ctl = "stop_capture"
    /\ capRunning' = FALSE /\ capStop' = TRUE
    /\ ctl' = "stop_notify"
    /\ UNCHANGED <<device, gst, capThread, captured, encVars, frameQueue,
                   packets, statVars>>

\* Mutant: the thread is joined without a stop request.
StopCaptureUnasked ==
    /\ ctl = "stop_capture"
    /\ capRunning' = FALSE
    /\ ctl' = "stop_join_capture"
    /\ UNCHANGED <<device, gst, capThread, capStop, captured, encVars, frameQueue,
                   packets, statVars>>

\* CameraCapture::stop reads running_ again and returns early if the capture
\* loop has cleared it in between.
StopCapture ==
    /\ ctl = "stop_capture"
    /\ IF capRunning
       THEN /\ capRunning' = FALSE /\ capStop' = TRUE
            /\ ctl' = "stop_join_capture"
       ELSE /\ ctl' = "stop_notify"
            /\ UNCHANGED <<capRunning, capStop>>
    /\ UNCHANGED <<device, gst, capThread, captured, encVars, frameQueue,
                   packets, statVars>>

StopJoinCapture ==
    /\ ctl = "stop_join_capture"
    /\ capThread = "done"
    /\ capThread' = "none" /\ gst' = "null"
    /\ ctl' = "stop_notify"
    /\ UNCHANGED <<device, capRunning, capStop, captured, encVars, frameQueue,
                   packets, statVars>>

\* The encode thread is the only waiter, so notify_one and notify_all both
\* move it from waiting to evaluating its predicate again.
Notified(thread) == IF thread = "waiting" THEN "check" ELSE thread

\* queueCondition_.notify_all(), before the stop token is set.
StopNotify ==
    /\ ctl = "stop_notify"
    /\ encThread' = Notified(encThread)
    /\ ctl' = "stop_request"
    /\ UNCHANGED <<capVars, encoder, encStop, held, codec, forceKeyframe,
                   frameQueue, packets, statVars>>

\* Mutant: the encode thread is detached.
StopRequestDetached ==
    /\ ctl = "stop_request"
    /\ encStop' = TRUE
    /\ ctl' = "stop_encoder"
    /\ UNCHANGED <<capVars, encoder, encThread, held, codec, forceKeyframe,
                   frameQueue, packets, statVars>>

\* encodeThread_ = std::jthread(): request_stop() and join() when joinable.
StopRequest ==
    /\ ctl = "stop_request"
    /\ IF encThread = "none"
       THEN ctl' = "stop_encoder" /\ UNCHANGED encStop
       ELSE ctl' = "stop_join" /\ encStop' = TRUE
    /\ UNCHANGED <<capVars, encoder, encThread, held, codec, forceKeyframe,
                   frameQueue, packets, statVars>>

StopJoin ==
    /\ ctl = "stop_join"
    /\ encThread = "done"
    /\ encThread' = "none"
    /\ ctl' = "stop_encoder"
    /\ UNCHANGED <<capVars, encoder, encStop, held, codec, forceKeyframe,
                   frameQueue, packets, statVars>>

\* encoder_->stop(): drains the codec into the packet callback and frees it.
StopEncoder ==
    /\ ctl = "stop_encoder"
    /\ ctl' = "idle"
    /\ IF encoder = "open"
       THEN /\ packets' = packets \o codec
            /\ framesEncoded' = framesEncoded + Len(codec)
            /\ codec' = <<>>
            /\ encoder' = "created"
       ELSE UNCHANGED <<packets, framesEncoded, codec, encoder>>
    /\ UNCHANGED <<capVars, encThread, encStop, held, forceKeyframe, frameQueue,
                   frameCount, framesDropped, encodeErrors>>

\* requestKeyframe(), called from a GStreamer thread at any time.  Only the
\* software encoder overrides it.
RequestKeyframe ==
    /\ encoder # "none" /\ ~NvencAvailable
    /\ forceKeyframe' = TRUE
    /\ UNCHANGED <<ctl, capVars, encoder, encThread, encStop, held, codec,
                   frameQueue, packets, statVars>>

-----------------------------------------------------------------------------
(***************************************************************************)
(* The capture thread (captureLoop and the callback it runs).              *)
(***************************************************************************)

\* A sample arrives and is copied into a frame.
CapturePull ==
    /\ capThread = "pull" /\ ~capStop
    /\ captured < MaxFrames
    /\ captured' = captured + 1
    /\ capThread' = "push"
    /\ UNCHANGED <<ctl, device, gst, capRunning, capStop, encVars, frameQueue,
                   packets, statVars>>

\* A pull times out and the bus holds an error or an end of stream: the loop
\* breaks although nobody asked it to.
CaptureBusError ==
    /\ capThread = "pull" /\ ~capStop
    /\ capThread' = "exit"
    /\ UNCHANGED <<ctl, device, gst, capRunning, capStop, captured, encVars,
                   frameQueue, packets, statVars>>

\* while (!stop_requested()) ends the loop.
CaptureLeaveLoop ==
    /\ capThread = "pull" /\ capStop
    /\ capThread' = "exit"
    /\ UNCHANGED <<ctl, device, gst, capRunning, capStop, captured, encVars,
                   frameQueue, packets, statVars>>

\* Mutants: one frame too many fits in, and a dropped frame is not counted.
CapturePushOneMore ==
    /\ capThread = "push" /\ encThread # "block"
    /\ IF Len(frameQueue) > QueueCapacity
       THEN /\ frameQueue' = Append(Tail(frameQueue), captured)
            /\ framesDropped' = framesDropped + 1
       ELSE /\ frameQueue' = Append(frameQueue, captured)
            /\ UNCHANGED framesDropped
    /\ capThread' = "notify"
    /\ UNCHANGED <<ctl, device, gst, capRunning, capStop, captured, encVars,
                   packets, frameCount, framesEncoded, encodeErrors>>

CapturePushUncounted ==
    /\ capThread = "push" /\ encThread # "block"
    /\ frameQueue' = Append(IF Len(frameQueue) >= QueueCapacity
                            THEN Tail(frameQueue) ELSE frameQueue, captured)
    /\ capThread' = "notify"
    /\ UNCHANGED <<ctl, device, gst, capRunning, capStop, captured, encVars,
                   packets, statVars>>

\* The callback's critical section: the oldest frame makes room.  The encode
\* thread holds queueMutex_ only while it is at "block".
CapturePush ==
    /\ capThread = "push" /\ encThread # "block"
    /\ IF Len(frameQueue) >= QueueCapacity
       THEN /\ frameQueue' = Append(Tail(frameQueue), captured)
            /\ framesDropped' = framesDropped + 1
       ELSE /\ frameQueue' = Append(frameQueue, captured)
            /\ UNCHANGED framesDropped
    /\ capThread' = "notify"
    /\ UNCHANGED <<ctl, device, gst, capRunning, capStop, captured, encVars,
                   packets, frameCount, framesEncoded, encodeErrors>>

\* Mutant: notify_one is left out.
CaptureNotifyNobody ==
    /\ capThread = "notify"
    /\ capThread' = "count"
    /\ UNCHANGED <<ctl, device, gst, capRunning, capStop, captured, encVars,
                   frameQueue, packets, statVars>>

CaptureNotify ==
    /\ capThread = "notify"
    /\ encThread' = Notified(encThread)
    /\ capThread' = "count"
    /\ UNCHANGED <<ctl, device, gst, capRunning, capStop, captured, encoder,
                   encStop, held, codec, forceKeyframe, frameQueue, packets,
                   statVars>>

CaptureCount ==
    /\ capThread = "count"
    /\ frameCount' = frameCount + 1
    /\ capThread' = "pull"
    /\ UNCHANGED <<ctl, device, gst, capRunning, capStop, captured, encVars,
                   frameQueue, packets, framesDropped, framesEncoded, encodeErrors>>

\* Mutant: running_ stays set when the loop ends by itself.
CaptureExitStillRunning ==
    /\ capThread = "exit"
    /\ capThread' = "done"
    /\ UNCHANGED <<ctl, device, gst, capRunning, capStop, captured, encVars,
                   frameQueue, packets, statVars>>

CaptureExit ==
    /\ capThread = "exit"
    /\ capRunning' = FALSE
    /\ capThread' = "done"
    /\ UNCHANGED <<ctl, device, gst, capStop, captured, encVars, frameQueue,
                   packets, statVars>>

\* What the capture thread does on its own account; what the camera does to it.
CaptureThread ==
    \/ CaptureLeaveLoop \/ CapturePush \/ CaptureNotify
    \/ CaptureCount \/ CaptureExit

Camera == CapturePull \/ CaptureBusError

-----------------------------------------------------------------------------
(***************************************************************************)
(* The encode thread (encodeLoop).                                         *)
(***************************************************************************)

\* while (!stop_requested())
EncodeLoopTest ==
    /\ encThread = "loop"
    /\ encThread' = IF encStop THEN "done" ELSE "check"
    /\ UNCHANGED <<ctl, capVars, encoder, encStop, held, codec, forceKeyframe,
                   frameQueue, packets, statVars>>

\* Mutant: the newest frame is taken first.
EncodeCheckNewest ==
    /\ encThread = "check"
    /\ \/ /\ frameQueue # <<>>
          /\ held' = <<frameQueue[Len(frameQueue)]>>
          /\ frameQueue' = SubSeq(frameQueue, 1, Len(frameQueue) - 1)
          /\ encThread' = "encode"
       \/ /\ frameQueue = <<>>
          /\ encThread' = IF encStop THEN "done" ELSE "block"
          /\ UNCHANGED <<held, frameQueue>>
    /\ UNCHANGED <<ctl, capVars, encoder, encStop, codec, forceKeyframe,
                   packets, statVars>>

\* Under queueMutex_: the predicate of wait(), the break, and the pop.
EncodeCheck ==
    /\ encThread = "check"
    /\ \/ /\ frameQueue # <<>>
          /\ held' = <<Head(frameQueue)>>
          /\ frameQueue' = Tail(frameQueue)
          /\ encThread' = "encode"
       \/ /\ frameQueue = <<>>
          /\ encThread' = IF encStop THEN "done" ELSE "block"
          /\ UNCHANGED <<held, frameQueue>>
    /\ UNCHANGED <<ctl, capVars, encoder, encStop, codec, forceKeyframe,
                   packets, statVars>>

\* wait() blocks and releases queueMutex_ in one step.
EncodeBlock ==
    /\ encThread = "block"
    /\ encThread' = "waiting"
    /\ UNCHANGED <<ctl, capVars, encoder, encStop, held, codec, forceKeyframe,
                   frameQueue, packets, statVars>>

\* A condition variable may wake without being notified.
EncodeWakeSpuriously ==
    /\ encThread = "waiting"
    /\ encThread' = "check"
    /\ UNCHANGED <<ctl, capVars, encoder, encStop, held, codec, forceKeyframe,
                   frameQueue, packets, statVars>>

\* encodeFrame() refuses the frame: forceKeyframe_ has been consumed already
\* and the loop ignores the result.
EncodeFrameFails ==
    /\ encThread = "encode"
    /\ held' = <<>>
    /\ forceKeyframe' = FALSE
    /\ encodeErrors' = encodeErrors + 1
    /\ encThread' = "loop"
    /\ UNCHANGED <<ctl, capVars, encoder, encStop, codec, frameQueue, packets,
                   frameCount, framesDropped, framesEncoded>>

\* encodeFrame() sends the frame and delivers the packets that are ready, in
\* order: the first n of those the codec holds.
EncodeFrame ==
    /\ encThread = "encode" /\ encoder = "open"
    /\ \E n \in 0..(Len(codec) + 1) :
          /\ Len(codec) + 1 - n <= CodecDepth
          /\ packets' = packets \o SubSeq(codec \o held, 1, n)
          /\ codec' = SubSeq(codec \o held, n + 1, Len(codec) + 1)
          /\ framesEncoded' = framesEncoded + n
    /\ held' = <<>>
    /\ forceKeyframe' = FALSE
    /\ encThread' = "loop"
    /\ UNCHANGED <<ctl, capVars, encoder, encStop, frameQueue, frameCount,
                   framesDropped, encodeErrors>>

EncodeThread ==
    \/ EncodeLoopTest \/ EncodeCheck \/ EncodeBlock
    \/ EncodeFrame \/ EncodeFrameFails

-----------------------------------------------------------------------------
\* The caller's steps once it is inside start() or stop().
CallerReturns ==
    \/ StartCapture \/ StartCaptureFails \/ StartEncodeThread
    \/ StopCapture \/ StopJoinCapture \/ StopNotify
    \/ StopRequest \/ StopJoin \/ StopEncoder

Next ==
    \/ Initialize \/ StartEncoder \/ StopBegin
    \/ CallerReturns
    \/ RequestKeyframe
    \/ Camera \/ CaptureThread
    \/ EncodeThread \/ EncodeWakeSpuriously

Spec == Init /\ [][Next]_vars

\* The operating system schedules every thread that can run, and queueMutex_,
\* held for a moment at a time, is not withheld from the capture callback for
\* ever (strong fairness).  Nothing obliges the user to call start or stop, the
\* camera to deliver, or a wait to wake without a notification.
Fairness ==
    /\ WF_vars(CallerReturns)
    /\ WF_vars(CaptureThread)
    /\ SF_vars(CapturePush)
    /\ WF_vars(EncodeThread)

FairSpec == Spec /\ Fairness
-----------------------------------------------------------------------------
(***************************************************************************)
(* Properties.                                                             *)
(***************************************************************************)

\* Frames are named by the order in which they were pulled.
Frames == Nat \ {0}

FlagsOK ==
    /\ capRunning \in BOOLEAN /\ capStop \in BOOLEAN
    /\ encStop \in BOOLEAN /\ forceKeyframe \in BOOLEAN

\* Every variable has its type and the queue never exceeds QUEUE_CAPACITY
\* frames, whatever the three threads do (video_pipeline.cpp, capture callback).
TypeOK ==
    /\ FlagsOK
    /\ ctl \in {"idle"} \cup Starting \cup Stopping
    /\ device \in {"none", "unbuilt", "built"}
    /\ gst \in {"null", "playing"}
    /\ capThread \in {"none", "pull", "push", "notify", "count", "exit", "done"}
    /\ captured \in Nat /\ (capThread = "push" => captured # 0)
    /\ encoder \in {"none", "created", "open"}
    /\ encThread \in {"none", "loop", "check", "block", "waiting", "encode", "done"}
    /\ frameQueue \in Seq(Frames) /\ Len(frameQueue) <= QueueCapacity
    /\ held \in Seq(Frames) /\ Len(held) = IF encThread = "encode" THEN 1 ELSE 0
    /\ codec \in Seq(Frames)
    /\ packets \in Seq(Frames)
    /\ frameCount \in Nat /\ framesDropped \in Nat
    /\ framesEncoded \in Nat /\ encodeErrors \in Nat

\* The frames that have reached the queue, by where they are now.
Accounted ==
    framesDropped + Len(frameQueue) + Len(held) + Len(codec)
        + framesEncoded + encodeErrors

\* The statistics the pipeline reports (getFrameCount, getDroppedFrames,
\* framesEncoded_) account for every sample pulled: each one is dropped, queued,
\* in the encode thread's hands, in the codec, delivered or refused, across any
\* number of starts and stops.
FrameAccounting ==
    /\ IF capThread \in {"push", "notify", "count"}
       THEN captured = frameCount + 1
       ELSE captured = frameCount
    /\ IF capThread = "push" THEN captured = Accounted + 1 ELSE captured = Accounted
    /\ framesEncoded = Len(packets)

\* The frames that have left the camera, oldest first.
InFlight == packets \o codec \o held \o frameQueue

\* s is strictly increasing and holds nothing above b.
IncreasingUpTo(s, b) ==
    /\ \A i, j \in 1..Len(s) : i < j => s[i] < s[j]
    /\ \A i \in 1..Len(s) : s[i] <= b

\* No frame overtakes another or is delivered twice on its way from the capture
\* callback to the packet callback, drops and restarts included.
DeliveryOrder ==
    IncreasingUpTo(InFlight, IF capThread = "push" THEN captured - 1 ELSE captured)

\* The packet callback sees the stream that FrameStream describes: every step of
\* the three threads is a capture, a delivery of newer frames behind the ones
\* already delivered, or invisible.
Stream == INSTANCE FrameStream WITH output <- packets
ImplementsFrameStream == Stream!Spec

\* The encode thread never sleeps on a non-empty queue unless the notification
\* for it is still to come: notify_one runs after the mutex is released, so the
\* frame is visible before the wake-up (video_pipeline.cpp, capture callback).
NoMissedFrame ==
    encThread = "waiting" /\ frameQueue # <<>> => capThread = "notify"

\* The encoder is opened, flushed, freed or replaced only while no encode
\* thread exists, and the encode thread only ever finds it open: encoder_ is
\* not protected by a lock and relies on this order of start() and stop().
EncoderConfined ==
    /\ ctl \in {"start_capture", "start_thread", "stop_encoder"} => encThread = "none"
    /\ encThread # "none" => encoder = "open"
    /\ codec # <<>> => encoder = "open"

\* Once stop() has joined the encode thread (and until start() brings the device
\* up again, which it does just before it creates that thread) the capture
\* callback cannot run: the capture thread is joined or has left its loop, even
\* when it left by itself and stop() skipped the device.
CaptureQuiescent ==
    encThread = "none" /\ ctl # "start_thread" => capThread \in {"none", "done"}

\* The strengthening that makes the invariants above inductive: which caller step
\* goes with which state of the two threads (the order of the calls in start()
\* and stop(), and running_ being cleared by whoever ends the capture).
ThreadDiscipline ==
    /\ encThread = "block" => frameQueue = <<>>
    /\ codec # <<>> => encThread # "none" \/ ctl = "stop_encoder"
    /\ capRunning <=> capThread \notin {"none", "done"} /\ ctl # "stop_join_capture"
    /\ ctl = "stop_join_capture" => capThread # "none"
    /\ ctl \in {"stop_notify", "stop_request", "stop_join", "stop_encoder"}
          => capThread \in {"none", "done"}
    /\ ctl = "stop_join" => encThread # "none"
    /\ ctl \in Starting => encoder = "open"

\* A frame that is queued while the encode thread runs leaves the queue, unless
\* the pipeline is stopped.
FrameProgress ==
    \A f \in 1..MaxFrames :
        (f \in {frameQueue[i] : i \in 1..Len(frameQueue)} /\ encThread # "none")
            ~> (\/ f \notin {frameQueue[i] : i \in 1..Len(frameQueue)}
                \/ encStop)

\* The part of stop() that stops the camera returns: the capture thread looks at
\* its stop token after every pull and never blocks for good in its callback.
CaptureJoinReturns == ctl = "stop_join_capture" ~> ctl = "stop_notify"

\* What the comment in stop() promises ("Wake up encode thread to exit"): a call
\* of stop() returns.  The notification precedes the stop request, so an encode
\* thread that re-evaluates its predicate in between waits for ever.
StopReturns == ctl \in Stopping ~> ctl = "idle"
=============================================================================
