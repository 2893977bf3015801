--------------------------- MODULE CameraSession ---------------------------
(***************************************************************************)
(* The camera operator's side of the client: CameraSessionController,      *)
(* which lives in the UI thread, CameraSession::start, which it runs on a  *)
(* thread of QtConcurrent's pool, CameraSession::stop, which it calls      *)
(* itself, and the WHIPPublisher they drive.  SessionPage.qml calls        *)
(* controller.start when a page is completed and controller.stop when it   *)
(* is destroyed.                                                           *)
(*                                                                         *)
(* An operation of the UI thread is one step unless it waits for another   *)
(* thread; a task is one step per call it makes.  The finished signal of a *)
(* QFutureWatcher reaches the UI thread as an event.  The video pipeline   *)
(* appears only as running or not; VideoPipeline has its threads.          *)
(***************************************************************************)
EXTENDS Integers, Sequences, FiniteSets

CONSTANTS
    MaxPages,    \* bound: operator pages on the page stack at a time
    MaxTasks     \* bound: tasks handed to QtConcurrent

ASSUME BoundsAssumption == MaxPages \in Nat \ {0} /\ MaxTasks \in Nat \ {0}

Tasks == 1..MaxTasks

VARIABLES
    pages,          \* operator pages on the stack of Main.qml
    ui,             \* where the UI thread is
    startWatcher,   \* startWatcher_: the task it watches, 0 for nullptr
    task,           \* the call each task makes next, or its result
    events,         \* finished events posted to the UI thread
    isRunning,      \* CameraSession::isRunning_
    pipeline,       \* VideoPipeline: "none", "ready" (initialized) or "running"
    whip,           \* WHIPPublisher::pipeline_: "none", "built" or "playing"
    running         \* WHIPPublisher::running_

vars == <<pages, ui, startWatcher, task, events, isRunning, pipeline, whip, running>>
session == <<isRunning, pipeline, whip, running>>

\* The steps of a task before its future is finished; QFutureWatcher::isRunning.
Body == {"init_pipeline", "init_publisher", "start_publisher", "start_pipeline", "mark"}
Unfinished == Body \cup {"check", "return_true", "return_false"}

Init ==
    /\ pages = 0
    /\ ui = "loop"
    /\ startWatcher = 0
    /\ task = [t \in Tasks |-> "none"]
    /\ events = <<>>
    /\ isRunning = FALSE
    /\ pipeline = "none"
    /\ whip = "none"
    /\ running = FALSE

Goto(t, at) == task' = [task EXCEPT ![t] = at]

-----------------------------------------------------------------------------
(***************************************************************************)
(* The UI thread.                                                          *)
(***************************************************************************)

\* CameraSessionController::start, on a task number that is unused.
Launch ==
    \E t \in Tasks :
        /\ task[t] = "none" /\ \A u \in 1..(t - 1) : task[u] # "none"
        /\ Goto(t, "check")
        /\ startWatcher' = t

\* cameraJoined pushes a page, whose onCompleted calls start.  The call returns
\* without a word while the future of the current watcher is unfinished.
OpenPage ==
    /\ ui = "loop" /\ pages < MaxPages
    /\ pages' = pages + 1
    /\ IF startWatcher # 0 /\ task[startWatcher] \in Unfinished
       THEN UNCHANGED <<task, startWatcher>>
       ELSE Launch
    /\ UNCHANGED <<ui, events, session>>

\* Mutant: a page is popped without asking whether there is one.
ClosePageBlindly ==
    /\ ui = "loop"
    /\ pages' = pages - 1
    /\ ui' = IF isRunning THEN "stop_pipeline" ELSE "loop"
    /\ UNCHANGED <<startWatcher, task, events, session>>

\* The top page is popped and its onDestruction calls stop, which does nothing
\* while isRunning_ is false; sessionStopped is emitted in any case.
ClosePage ==
    /\ ui = "loop" /\ pages > 0
    /\ pages' = pages - 1
    /\ ui' = IF isRunning THEN "stop_pipeline" ELSE "loop"
    /\ UNCHANGED <<startWatcher, task, events, session>>

\* CameraSession::stop: pipeline_.stop(), which joins the pipeline's threads.
StopPipeline ==
    /\ ui = "stop_pipeline"
    /\ pipeline' = "ready"
    /\ ui' = "stop_publisher"
    /\ UNCHANGED <<pages, startWatcher, task, events, isRunning, whip, running>>

\* WHIPPublisher::stop: nothing to do without a pipeline or when not running;
\* otherwise end of stream is sent and waited for, in vain or not, and the
\* GStreamer pipeline is released.
PublisherStopped ==
    IF whip = "none" \/ ~running
    THEN UNCHANGED <<whip, running>>
    ELSE whip' = "none" /\ running' = FALSE

StopPublisher ==
    /\ ui = "stop_publisher"
    /\ PublisherStopped
    /\ isRunning' = FALSE
    /\ ui' = "loop"
    /\ UNCHANGED <<pages, startWatcher, task, events, pipeline>>

\* Mutant: the slot gives its watcher up before the result is there.
FinishedSlotEarly ==
    /\ ui = "loop" /\ events # <<>>
    /\ events' = Tail(events)
    /\ startWatcher' = 0
    /\ UNCHANGED <<pages, ui, task, session>>

\* The slot of a finished signal calls startWatcher_->result(), whichever
\* watcher that is by now; a null one ends the program.
FinishedSlot ==
    /\ ui = "loop" /\ events # <<>>
    /\ events' = Tail(events)
    /\ ui' = IF startWatcher = 0 THEN "crashed" ELSE "result"
    /\ UNCHANGED <<pages, startWatcher, task, session>>

\* result() returns once that watcher's future is finished.
ResultReady ==
    /\ ui = "result"
    /\ task[startWatcher] \notin Unfinished
    /\ startWatcher' = 0
    /\ ui' = "loop"
    /\ UNCHANGED <<pages, task, events, session>>

UI == OpenPage \/ ClosePage \/ StopPipeline \/ StopPublisher \/ FinishedSlot \/ ResultReady

-----------------------------------------------------------------------------
(***************************************************************************)
(* A task: CameraSession::start.                                           *)
(***************************************************************************)

\* Mutant: the session is marked as running at once.
CheckMarksRunning(t) ==
    /\ task[t] = "check"
    /\ Goto(t, IF isRunning THEN "return_false" ELSE "init_pipeline")
    /\ isRunning' = TRUE
    /\ UNCHANGED <<pages, ui, startWatcher, events, pipeline, whip, running>>

\* Mutant: without the early return.
CheckNothing(t) ==
    /\ task[t] = "check"
    /\ Goto(t, "init_pipeline")
    /\ UNCHANGED <<pages, ui, startWatcher, events, session>>

Check(t) ==
    /\ task[t] = "check"
    /\ Goto(t, IF isRunning THEN "return_false" ELSE "init_pipeline")
    /\ UNCHANGED <<pages, ui, startWatcher, events, session>>

\* pipeline_.initialize.  A failure leaves a new device without a working source.
InitPipeline(t) ==
    /\ task[t] = "init_pipeline"
    /\ \/ pipeline' = "ready" /\ Goto(t, "init_publisher")
       \/ pipeline' = "none" /\ Goto(t, "return_false")
    /\ UNCHANGED <<pages, ui, startWatcher, events, isRunning, whip, running>>

\* whipPublisher_.initialize overwrites pipeline_.  A missing element leaves the
\* new one in place, a failed link releases it.
InitPublisher(t) ==
    /\ task[t] = "init_publisher"
    /\ \/ whip' = "built" /\ Goto(t, "start_publisher")
       \/ whip' \in {"none", "built"} /\ Goto(t, "return_false")
    /\ UNCHANGED <<pages, ui, startWatcher, events, isRunning, pipeline, running>>

\* Mutant: an asynchronous state change counts as success and is not waited for.
StartPublisherAsync(t) ==
    /\ task[t] = "start_publisher"
    /\ whip' = "playing" /\ Goto(t, "start_pipeline")
    /\ UNCHANGED <<pages, ui, startWatcher, events, isRunning, pipeline, running>>

\* whipPublisher_.start: refused, failed, timed out in the handshake, or playing.
\* On failure pipeline_.stop() finds nothing to stop.
StartPublisher(t) ==
    /\ task[t] = "start_publisher"
    /\ \/ whip' = "playing" /\ running' = TRUE /\ Goto(t, "start_pipeline")
       \/ Goto(t, "return_false") /\ UNCHANGED <<whip, running>>
    /\ UNCHANGED <<pages, ui, startWatcher, events, isRunning, pipeline>>

\* pipeline_.start, after which packets flow; on failure whipPublisher_.stop().
StartPipeline(t) ==
    /\ task[t] = "start_pipeline"
    /\ \/ pipeline' = "running" /\ Goto(t, "mark") /\ UNCHANGED <<whip, running>>
       \/ PublisherStopped /\ Goto(t, "return_false") /\ UNCHANGED pipeline
    /\ UNCHANGED <<pages, ui, startWatcher, events, isRunning>>

MarkRunning(t) ==
    /\ task[t] = "mark"
    /\ isRunning' = TRUE
    /\ Goto(t, "return_true")
    /\ UNCHANGED <<pages, ui, startWatcher, events, pipeline, whip, running>>

\* The future is finished and its watcher's event posted.
Finish(t) ==
    /\ task[t] \in {"return_true", "return_false"}
    /\ Goto(t, IF task[t] = "return_true" THEN "true" ELSE "false")
    /\ events' = Append(events, t)
    /\ UNCHANGED <<pages, ui, startWatcher, session>>

Work(t) ==
    \/ Check(t) \/ InitPipeline(t) \/ InitPublisher(t) \/ StartPublisher(t)
    \/ StartPipeline(t) \/ MarkRunning(t) \/ Finish(t)

Next == UI \/ \E t \in Tasks : Work(t)

Spec == Init /\ [][Next]_vars
-----------------------------------------------------------------------------
(***************************************************************************)
(* Properties.                                                             *)
(***************************************************************************)

\* Pages, threads, watcher, events and session have their types; no more pages
\* are destroyed than were pushed.
TypeOK ==
    /\ pages \in 0..MaxPages
    /\ ui \in {"loop", "stop_pipeline", "stop_publisher", "result", "crashed"}
    /\ startWatcher \in 0..MaxTasks
    /\ task \in [Tasks -> Unfinished \cup {"none", "true", "false"}]
    /\ events \in Seq(Tasks)
    /\ isRunning \in BOOLEAN /\ running \in BOOLEAN
    /\ pipeline \in {"none", "ready", "running"}
    /\ whip \in {"none", "built", "playing"}

\* CameraSession has no lock: CameraSession::start runs on at most one thread,
\* although the slot of an old task replaces and clears the watcher by which
\* controller.start recognises a running one.
StartsExclusive ==
    \A t, u \in Tasks : task[t] \in Unfinished /\ task[u] \in Unfinished => t = u

\* Nor do start and stop work on the pipeline and the publisher at once: stop goes
\* ahead only once start has set isRunning_, its last action, and a start that is
\* under way reads isRunning_ before stop clears it.
StopExclusive ==
    ui \in {"stop_pipeline", "stop_publisher"} => \A t \in Tasks : task[t] \notin Body

\* A start never initializes a pipeline that is running or a publisher that is
\* publishing, whatever starts, failures and stops came before: initialize would
\* destroy the capture device under its thread and lose a playing GStreamer pipeline.
InitializedIdle ==
    \A t \in Tasks :
        /\ task[t] = "init_pipeline" => pipeline # "running"
        /\ task[t] \in {"init_pipeline", "init_publisher"} => whip # "playing" /\ ~running

\* camera_session.cpp: "The WHIP publisher is started first to set running_ to true
\* before producing frames to avoid dropping frames during publisher startup".
\* pushPacket drops what comes while running_ is false: as long as the pipeline
\* produces, also in every stop and failed start, the publisher accepts.
NoPacketDropped == pipeline = "running" => running /\ whip = "playing"

\* test_operator_session.cpp asserts "!is_cam_running" once stop has been called and
\* sessionStopped has come.  A page that is left while its start is under way has
\* stopped nothing, and the stream goes on with no page to stop it.
StoppedStaysStopped ==
    pages = 0 /\ ui = "loop" /\ (\A t \in Tasks : task[t] \notin Unfinished)
        => pipeline # "running"
=============================================================================
