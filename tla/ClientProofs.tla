---------------------------- MODULE ClientProofs ----------------------------
(***************************************************************************)
(* The client with its shared threads, for any number of pages, tasks,     *)
(* tracks, read loops and pool threads: it is an implementation of         *)
(* CameraSession, whose theorems therefore hold of it, and no read loop    *)
(* outlives its track.                                                     *)
(***************************************************************************)
EXTENDS Client, CameraSessionProofs

\* A step of the client is a step of the camera session or leaves it alone.
LEMMA StepOfSession ==
    ASSUME ClientNext
    PROVE  [Next]_vars
<1>1. CASE UIEvent
    BY <1>1 DEF UIEvent, Next, UI
<1>2. CASE UIJoined \/ UIReturn
    BY <1>2 DEF UIJoined, UIReturn, Next, UI
<1>3. ASSUME NEW t \in Tasks, TaskSteps(t) PROVE Next
    BY <1>3 DEF TaskSteps, TaskBegins, Next, Work
<1>4. ASSUME NEW t \in Tracks, Pool(t) \/ LiveKit(t) PROVE UNCHANGED vars
    BY <1>4 DEF Pool, LiveKit
<1> QED BY <1>1, <1>2, <1>3, <1>4 DEF ClientNext

\* The client implements CameraSession: a pool that is busy with read loops only
\* delays a start, and a UI thread that waits for a loop only delays a stop.
THEOREM ClientImplementsSession == ClientSpec => Spec
<1>1. ClientInit => Init
    BY DEF ClientInit
<1>2. [ClientNext]_clientVars => [Next]_vars
    BY StepOfSession DEF clientVars
<1> QED BY <1>1, <1>2, PTL DEF ClientSpec, Spec

\* In the client, too, one thread at a time works on the camera session: starts
\* exclude each other and a stop, nothing running is initialized again, and no
\* packet meets a publisher that is not running.
THEOREM SessionConfined ==
    ClientSpec => [](StartsExclusive /\ StopExclusive /\ InitializedIdle /\ NoPacketDropped)
BY ClientImplementsSession, OneStart, StartOrStop, InitializesIdle, PublisherReady, PTL
-----------------------------------------------------------------------------
(***************************************************************************)
(* Read loops.                                                             *)
(***************************************************************************)
ReaderStates == {"none", "queued", "read", "push", "done"}

TracksOK ==
    /\ stream \in [Tracks -> {"none", "open", "ended"}]
    /\ future \in [Tracks -> 0..MaxReads]
    /\ reader \in [Tracks -> [1..MaxReads -> ReaderStates]]

\* An object that waits in unsetTrack() is still there.
TrackInv == TracksOK /\ ReaderConfined /\ \A t \in releasing : stream[t] # "none"

\* A loop goes from one state to the next while its object exists.
LEMMA LoopMoves ==
    ASSUME TrackInv, NEW t \in Tracks, NEW n \in 1..MaxReads, NEW at \in {"read", "push", "done"},
           reader[t][n] \in {"queued", "read", "push"}, ReaderGoto(t, n, at),
           UNCHANGED <<stream, sink, future, releasing>>
    PROVE  TrackInv'
<1>1. \A u \in Tracks, m \in 1..MaxReads :
         reader'[u][m] = IF u = t /\ m = n THEN at ELSE reader[u][m]
    BY DEF TrackInv, TracksOK, ReaderGoto
<1>2. TracksOK'
    BY DEF TrackInv, TracksOK, ReaderGoto, ReaderStates
<1>3. ReaderConfined'
    BY <1>1 DEF TrackInv, ReaderConfined, Reading
<1> QED BY <1>2, <1>3 DEF TrackInv

\* A loop is queued only when the object has none.
LEMMA LoopQueued ==
    ASSUME TrackInv, NEW t \in Tracks, SetVideoSink(t)
    PROVE  TrackInv'
<1>1. CASE stream[t] = "none" \/ IsRunning(t)
    BY <1>1 DEF TrackInv, TracksOK, ReaderConfined, SetVideoSink, StartRead
<1>2. CASE ~(stream[t] = "none" \/ IsRunning(t))
    <2>1. /\ future[t] < MaxReads /\ future' = [future EXCEPT ![t] = @ + 1]
          /\ ReaderGoto(t, future[t] + 1, "queued")
          /\ UNCHANGED <<stream, releasing>>
        BY <1>2 DEF SetVideoSink, StartRead
    <2>2. future[t] \in 0..MaxReads /\ MaxReads \in Nat
        BY TracksAssumption DEF TrackInv, TracksOK
    <2>3. future[t] + 1 \in 1..MaxReads
        BY <2>1, <2>2
    <2>4. \A n \in 1..MaxReads : reader[t][n] \notin {"queued"} \cup Reading
        BY <1>2, <2>2 DEF TrackInv, ReaderConfined, IsRunning
    <2>5. TracksOK'
        BY <2>1, <2>2, <2>3 DEF TrackInv, TracksOK, ReaderGoto, ReaderStates
    <2>6. \A u \in Tracks, m \in 1..MaxReads :
             reader'[u][m] = IF u = t /\ m = future[t] + 1 THEN "queued" ELSE reader[u][m]
        BY <2>1, <2>3 DEF TrackInv, TracksOK, ReaderGoto
    <2>7. \A u \in Tracks : future'[u] = IF u = t THEN future[t] + 1 ELSE future[u]
        BY <2>1 DEF TrackInv, TracksOK
    <2>8. ReaderConfined'
        BY <1>2, <2>1, <2>4, <2>6, <2>7 DEF TrackInv, ReaderConfined
    <2> QED BY <2>1, <2>5, <2>8 DEF TrackInv
<1> QED BY <1>1, <1>2

\* The object goes only when no loop is left.
LEMMA ObjectReleased ==
    ASSUME TrackInv, NEW t \in Tracks, Release(t)
    PROVE  TrackInv'
<1>1. t \in releasing /\ ~IsRunning(t) /\ Forget(t)
    BY DEF Release
<1>2. \A n \in 1..MaxReads : reader[t][n] \notin {"queued"} \cup Reading
    BY <1>1, TracksAssumption DEF TrackInv, ReaderConfined, IsRunning
<1>3. \A n \in 1..MaxReads : reader'[t][n] \notin {"queued"} \cup Reading
    BY <1>1, <1>2 DEF Forget, TrackInv, TracksOK, Reading
<1>4. \A u \in Tracks \ {t} : reader'[u] = reader[u] /\ stream'[u] = stream[u] /\ future'[u] = future[u]
    BY <1>1 DEF Forget, TrackInv, TracksOK
<1>5. TracksOK'
    BY <1>1, TracksAssumption DEF Forget, TrackInv, TracksOK, ReaderStates
<1>6. ReaderConfined'
    BY <1>3, <1>4 DEF TrackInv, ReaderConfined
<1>7. \A u \in releasing' : stream'[u] # "none"
    BY <1>1 DEF Forget, TrackInv, TracksOK
<1> QED BY <1>5, <1>6, <1>7 DEF TrackInv

\* A stream that opens or ends, and the begin of unsetTrack(), disturb no loop.
LEMMA StreamChanges ==
    ASSUME TrackInv, NEW t \in Tracks, SetTrack(t) \/ UnsetTrack(t) \/ StreamEnds(t)
    PROVE  TrackInv'
<1>1. PICK s \in {"open", "ended"} : stream' = [stream EXCEPT ![t] = s]
    BY DEF SetTrack, UnsetTrack, StreamEnds
<1>2. UNCHANGED <<future, reader>> /\ releasing' \subseteq releasing \cup {t}
    BY DEF SetTrack, UnsetTrack, StreamEnds
<1>3. \A u \in Tracks : stream'[u] = IF u = t THEN s ELSE stream[u]
    BY <1>1 DEF TrackInv, TracksOK
<1>4. TracksOK'
    BY <1>1, <1>2 DEF TrackInv, TracksOK
<1>5. ReaderConfined'
    BY <1>2, <1>3 DEF TrackInv, ReaderConfined
<1>6. \A u \in releasing' : stream'[u] # "none"
    BY <1>1, <1>2 DEF TrackInv, TracksOK
<1> QED BY <1>4, <1>5, <1>6 DEF TrackInv

\* While a read loop is queued or under way its object exists and the loop is the
\* one the object would wait for, in the client with its busy pool and UI thread.
THEOREM ReadersConfined == ClientSpec => []ReaderConfined
<1>1. ClientInit => TrackInv
    BY TracksAssumption DEF ClientInit, TrackInit, TrackInv, TracksOK, ReaderConfined, ReaderStates, Reading
<1>2. TrackInv /\ [ClientNext]_clientVars => TrackInv'
    <2> SUFFICES ASSUME TrackInv, [ClientNext]_clientVars PROVE TrackInv'
        OBVIOUS
    <2>1. CASE UNCHANGED trackVars
        BY <2>1 DEF trackVars, TrackInv, TracksOK, ReaderConfined
    <2>2. CASE UIEvent
        BY <2>1, <2>2, LoopQueued, StreamChanges DEF UIEvent
    <2>3. ASSUME NEW t \in Tracks, RunQueued(t) PROVE TrackInv'
        <3>1. future[t] \in 1..MaxReads
            BY <2>3, TracksAssumption DEF RunQueued, TrackInv, TracksOK
        <3> QED BY <2>3, <3>1, LoopMoves DEF RunQueued
    <2>4. CASE UIJoined \/ UIReturn
        BY <2>1, <2>3, <2>4, ObjectReleased DEF UIJoined, UIReturn
    <2>5. ASSUME NEW t \in Tracks, ReadBegins(t, PoolFree) \/ PushFrame(t) \/ ReadEnds(t) \/ ReadFrame(t)
          PROVE  TrackInv'
        BY <2>5, LoopMoves DEF ReadBegins, PushFrame, ReadEnds, ReadFrame
    <2>6. ASSUME NEW t \in Tracks, Pool(t) \/ LiveKit(t) PROVE TrackInv'
        BY <2>5, <2>6, StreamChanges DEF Pool, LiveKit
    <2> QED BY <2>1, <2>2, <2>4, <2>6 DEF ClientNext, clientVars
<1>3. TrackInv => ReaderConfined
    BY DEF TrackInv
<1> QED BY <1>1, <1>2, <1>3, PTL DEF ClientSpec
=============================================================================
