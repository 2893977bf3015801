------------------------ MODULE CameraSessionProofs ------------------------
(***************************************************************************)
(* For any number of pages and tasks, CameraSession is used by one thread  *)
(* at a time, is never initialized while it runs, and its publisher        *)
(* accepts whatever its pipeline produces.                                 *)
(*                                                                         *)
(* The argument: an unfinished task is always the one startWatcher_        *)
(* watches (WatcherCurrent), because the slot that clears the watcher has  *)
(* waited for that very task; hence there is one.  isRunning_ is false     *)
(* throughout the body of start and true throughout stop (FlagSplits),     *)
(* and a running pipeline or publisher belongs to one of the two phases    *)
(* (PhaseOwns).                                                            *)
(***************************************************************************)
EXTENDS CameraSession, TLAPS

WatcherCurrent ==
    /\ \A t \in Tasks : task[t] \in Unfinished => startWatcher = t
    /\ ui = "result" => startWatcher \in Tasks

FlagSplits ==
    /\ \A t \in Tasks : task[t] \in Body => ~isRunning
    /\ ui \in {"stop_pipeline", "stop_publisher"} => isRunning

PhaseOwns ==
    /\ pipeline = "running" => isRunning \/ \E t \in Tasks : task[t] = "mark"
    /\ ui = "stop_publisher" => pipeline # "running"
    /\ running => isRunning \/ \E t \in Tasks : task[t] \in {"start_pipeline", "mark"}
    /\ \A t \in Tasks : task[t] \in {"start_pipeline", "mark"} => running
    /\ whip = "playing" <=> running
    /\ pipeline = "running" => running

IndInv == TypeOK /\ WatcherCurrent /\ FlagSplits /\ PhaseOwns

\* Task numbers are positive, so a watcher that is not null is a task.
LEMMA TasksAre == Tasks \subseteq Nat \ {0} /\ Tasks \subseteq 0..MaxTasks
  BY BoundsAssumption DEF Tasks

\* A client that has just come up satisfies the invariant.
LEMMA InitOK == Init => IndInv
<1> SUFFICES ASSUME Init PROVE IndInv
  OBVIOUS
<1>1. TypeOK
  <2>1. pages \in 0..MaxPages /\ startWatcher \in 0..MaxTasks
    BY BoundsAssumption DEF Init, BoundsAssumption
  <2>2. events \in Seq(Tasks)
    BY DEF Init
  <2> QED
    BY <2>1, <2>2 DEF Init, TypeOK
<1>2. WatcherCurrent /\ FlagSplits /\ PhaseOwns
  BY DEF Init, WatcherCurrent, FlagSplits, PhaseOwns, Unfinished, Body
<1> QED
  BY <1>1, <1>2 DEF IndInv

\* Every step of the UI thread or of a task keeps the types.
LEMMA TypeStep == TypeOK /\ [Next]_vars => TypeOK'
<1> SUFFICES ASSUME TypeOK, [Next]_vars PROVE TypeOK'
  OBVIOUS
<1> USE BoundsAssumption
<1>1. CASE OpenPage
  BY <1>1, TasksAre DEF TypeOK, OpenPage, Launch, Goto, session, Unfinished
<1>2. CASE ClosePage
  BY <1>2 DEF TypeOK, ClosePage, session
<1>3. CASE StopPipeline
  BY <1>3 DEF TypeOK, StopPipeline
<1>4. CASE StopPublisher
  BY <1>4 DEF TypeOK, StopPublisher, PublisherStopped
<1>5. CASE FinishedSlot
  BY <1>5 DEF TypeOK, FinishedSlot, session
<1>6. CASE ResultReady
  BY <1>6 DEF TypeOK, ResultReady, session
<1>7. ASSUME NEW t \in Tasks, Work(t) PROVE TypeOK'
  <2> USE DEF TypeOK, Goto, Unfinished, Body
  <2>1. CASE Check(t)
    BY <2>1 DEF Check, session
  <2>2. CASE InitPipeline(t)
    BY <2>2 DEF InitPipeline
  <2>3. CASE InitPublisher(t)
    BY <2>3 DEF InitPublisher
  <2>4. CASE StartPublisher(t)
    BY <2>4 DEF StartPublisher
  <2>5. CASE StartPipeline(t)
    BY <2>5 DEF StartPipeline, PublisherStopped
  <2>6. CASE MarkRunning(t)
    BY <2>6 DEF MarkRunning
  <2>7. CASE Finish(t)
    BY <2>7 DEF Finish, session
  <2> QED
    BY <1>7, <2>1, <2>2, <2>3, <2>4, <2>5, <2>6, <2>7 DEF Work
<1>8. CASE UNCHANGED vars
  BY <1>8 DEF TypeOK, vars
<1> QED
  BY <1>1, <1>2, <1>3, <1>4, <1>5, <1>6, <1>7, <1>8 DEF Next, UI

\* Every step keeps the invariant: one case per step of the UI thread and of a task.
LEMMA IndStep == IndInv /\ [Next]_vars => IndInv'
<1> SUFFICES ASSUME IndInv, [Next]_vars PROVE (WatcherCurrent /\ FlagSplits /\ PhaseOwns)'
  BY TypeStep DEF IndInv
<1> USE TasksAre DEF IndInv, TypeOK, WatcherCurrent, FlagSplits, PhaseOwns, Unfinished, Body
<1>1. CASE OpenPage
  <2>1. CASE UNCHANGED <<task, startWatcher>>
    BY <1>1, <2>1 DEF OpenPage, session
  <2>2. CASE ~UNCHANGED <<task, startWatcher>>
    <3>1. PICK t \in Tasks : /\ task[t] = "none"
                             /\ task' = [task EXCEPT ![t] = "check"]
                             /\ startWatcher' = t
      BY <1>1, <2>2 DEF OpenPage, Launch, Goto
    <3>2. \A u \in Tasks : task[u] \notin Unfinished
      BY <1>1, <2>2 DEF OpenPage
    <3> QED
      BY <1>1, <3>1, <3>2 DEF OpenPage, session
  <2> QED
    BY <2>1, <2>2
<1>2. CASE ClosePage
  BY <1>2 DEF ClosePage, session
<1>3. CASE StopPipeline
  BY <1>3 DEF StopPipeline
<1>4. CASE StopPublisher
  BY <1>4 DEF StopPublisher, PublisherStopped
<1>5. CASE FinishedSlot
  BY <1>5 DEF FinishedSlot, session, Tasks
<1>6. CASE ResultReady
  BY <1>6 DEF ResultReady, session
<1>7. ASSUME NEW t \in Tasks, Work(t) PROVE (WatcherCurrent /\ FlagSplits /\ PhaseOwns)'
  <2>1. startWatcher = t /\ \A u \in Tasks \ {t} : task[u] \notin Unfinished
    BY <1>7 DEF Work, Check, InitPipeline, InitPublisher, StartPublisher, StartPipeline,
       MarkRunning, Finish
  <2>2. CASE Check(t)
    BY <2>1, <2>2 DEF Check, Goto, session
  <2>3. CASE InitPipeline(t)
    BY <2>1, <2>3 DEF InitPipeline, Goto
  <2>4. CASE InitPublisher(t)
    BY <2>1, <2>4 DEF InitPublisher, Goto
  <2>5. CASE StartPublisher(t)
    BY <2>1, <2>5 DEF StartPublisher, Goto
  <2>6. CASE StartPipeline(t)
    BY <2>1, <2>6 DEF StartPipeline, PublisherStopped, Goto
  <2>7. CASE MarkRunning(t)
    BY <2>1, <2>7 DEF MarkRunning, Goto
  <2>8. CASE Finish(t)
    BY <2>1, <2>8 DEF Finish, Goto, session
  <2> QED
    BY <1>7, <2>2, <2>3, <2>4, <2>5, <2>6, <2>7, <2>8 DEF Work
<1>8. CASE UNCHANGED vars
  BY <1>8 DEF vars
<1> QED
  BY <1>1, <1>2, <1>3, <1>4, <1>5, <1>6, <1>7, <1>8 DEF Next, UI

\* The invariant holds throughout.
LEMMA Inductive == Spec => []IndInv
  BY InitOK, IndStep, PTL DEF Spec

-----------------------------------------------------------------------------
\* Every variable keeps its type, for any number of pages and tasks.
THEOREM TypeCorrect == Spec => []TypeOK
<1>1. IndInv => TypeOK
  BY DEF IndInv
<1> QED
  BY <1>1, Inductive, PTL

\* CameraSession::start runs on at most one thread, for any number of pages and
\* tasks.
THEOREM OneStart == Spec => []StartsExclusive
<1>1. IndInv => StartsExclusive
  BY DEF IndInv, WatcherCurrent, StartsExclusive
<1> QED
  BY <1>1, Inductive, PTL

\* CameraSession::stop and the body of CameraSession::start exclude each other.
THEOREM StartOrStop == Spec => []StopExclusive
<1>1. IndInv => StopExclusive
  BY DEF IndInv, FlagSplits, StopExclusive
<1> QED
  BY <1>1, Inductive, PTL

\* No start initializes a running pipeline or a publishing publisher.
THEOREM InitializesIdle == Spec => []InitializedIdle
<1>1. IndInv => InitializedIdle
  BY DEF IndInv, WatcherCurrent, FlagSplits, PhaseOwns, InitializedIdle, Unfinished, Body
<1> QED
  BY <1>1, Inductive, PTL

\* While the pipeline produces, the publisher is running.
THEOREM PublisherReady == Spec => []NoPacketDropped
<1>1. IndInv => NoPacketDropped
  BY DEF IndInv, PhaseOwns, NoPacketDropped
<1> QED
  BY <1>1, Inductive, PTL
=============================================================================
