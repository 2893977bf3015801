------------------------------- MODULE Client -------------------------------
(***************************************************************************)
(* The threads of the client application: one UI thread and one thread     *)
(* pool (QThreadPool::globalInstance) carry the camera session of the      *)
(* operator (CameraSession) and the tracks of the director (VideoTrack).   *)
(* One process shows pages of either role: after a logout the tasks of the *)
(* earlier role may still be running.                                      *)
(***************************************************************************)
EXTENDS CameraSession, VideoTrack

CONSTANT PoolSize   \* threads of the pool

ASSUME PoolAssumption == PoolSize \in Nat \ {0}

clientVars == <<vars, trackVars>>

ClientInit == Init /\ TrackInit

\* A start task occupies its thread from its first call to its last.
PoolFree ==
    Cardinality({t \in Tasks : task[t] \in Unfinished \ {"check"}}) + Cardinality(Readers) < PoolSize

\* The UI thread handles its next event or click.
UIFree == ui = "loop" /\ releasing = {}

\* result() runs a start task that is still queued itself.
TaskBegins(t) == Check(t) /\ (PoolFree \/ (ui = "result" /\ startWatcher = t))

TaskSteps(t) ==
    \/ TaskBegins(t) \/ InitPipeline(t) \/ InitPublisher(t) \/ StartPublisher(t)
    \/ StartPipeline(t) \/ MarkRunning(t) \/ Finish(t)

\* What the UI thread does on behalf of the user, of QML and of LiveKit's events.
UIEvent ==
    \/ releasing = {} /\ (OpenPage \/ ClosePage \/ FinishedSlot) /\ UNCHANGED trackVars
    \/ UIFree /\ (\E t \in Tracks : SetTrack(t) \/ SetVideoSink(t) \/ UnsetTrack(t)) /\ UNCHANGED vars

\* The pipeline's stop returns to it, if the encode thread can be joined.
UIJoined == StopPipeline /\ UNCHANGED trackVars

\* The other steps in which it is inside an operation that waits.
UIReturn ==
    \/ (StopPublisher \/ ResultReady) /\ UNCHANGED trackVars
    \/ (\E t \in Tracks : RunQueued(t) \/ Release(t)) /\ UNCHANGED vars

Pool(t) == (ReadBegins(t, PoolFree) \/ PushFrame(t) \/ ReadEnds(t)) /\ UNCHANGED vars

LiveKit(t) == (ReadFrame(t) \/ StreamEnds(t)) /\ UNCHANGED vars

ClientNext ==
    \/ UIEvent \/ UIJoined \/ UIReturn
    \/ (\E t \in Tasks : TaskSteps(t)) /\ UNCHANGED trackVars
    \/ \E t \in Tracks : Pool(t) \/ LiveKit(t)

\* Threads that can run do run, and the calls they make return: the handshake of
\* WHIPPublisher::start and the end-of-stream of its stop have timeouts.  One call
\* need not return: VideoPipeline::stop waits for an encode thread that may sleep
\* through the stop request, so nothing is assumed of UIJoined.  Nobody has to click,
\* and no camera has to send.
ClientFairness ==
    /\ WF_clientVars(UIReturn)
    /\ \A t \in Tasks : WF_clientVars(TaskSteps(t) /\ UNCHANGED trackVars)
    /\ \A t \in Tracks : WF_clientVars(Pool(t))

ClientSpec == ClientInit /\ [][ClientNext]_clientVars /\ ClientFairness
-----------------------------------------------------------------------------
\* The UI thread comes back to its event loop from every wait but the one for the
\* pipeline's encode thread: from the publisher's stop, from the result of a start,
\* and from the read loop of a track that is destroyed, which the pool may not even
\* have begun.
UIReturns == ~UIFree ~> UIFree \/ ui \in {"crashed", "stop_pipeline"}

\* A track that has been given a sink is read, as long as the pool has a thread
\* for every track beside the one start: its loop is under way unless the stream
\* ends or the track goes.
TrackIsRead ==
    \A t \in Tracks :
        sink[t] /\ stream[t] = "open"
            ~> (\E n \in 1..MaxReads : reader[t][n] \in Reading) \/ stream[t] # "open"
=============================================================================
