------------------------- MODULE DirectorTransport -------------------------
(***************************************************************************)
(* DirectorTransport and the DirectorSession it owns: how a director joins *)
(* a LiveKit room and leaves it, and how LiveKit's callbacks, which run on *)
(* LiveKit's threads, reach the UI thread as queued events.  LiveKit       *)
(* itself is modelled by the callbacks it may make.                        *)
(*                                                                         *)
(* The operators here say what happens to the transport; DirectorView adds *)
(* the page that reacts to it and the specification.                       *)
(***************************************************************************)
EXTENDS Integers, Sequences, FiniteSets

CONSTANTS
    Sids,          \* track SIDs, numbers in the order of std::map
    Unreadable,    \* those VideoStream::fromTrack makes no stream of
    MaxConnects,   \* bound: tasks handed to QtConcurrent
    MaxEvents      \* bound: events queued for the UI thread when LiveKit adds one

ASSUME TransportAssumption ==
    /\ Sids \subseteq Nat /\ IsFiniteSet(Sids)
    /\ MaxConnects \in Nat \ {0} /\ MaxEvents \in Nat \ {0}

Connects == 1..MaxConnects

VARIABLES
    connectionState,   \* m_connection_state
    room,              \* whether m_room is set
    watcher,           \* m_connectWatcher: the task it watches, 0 for nullptr
    connect,           \* each task: m_room->Connect
    session,           \* whether m_session is set
    tracks,            \* the keys of its m_trackMap
    joined,            \* LiveKit: the room is connected to the server
    streaming,         \* LiveKit: video tracks the room is subscribed to
    events,            \* events queued for the UI thread
    ui                 \* where the UI thread is

transport == <<connectionState, room, watcher, connect, session, tracks>>
livekit == <<joined, streaming>>

\* QFutureWatcher::isRunning
Unfinished == {"queued", "connecting", "joined"}

TransportInit ==
    /\ connectionState = "disconnected"
    /\ room = FALSE
    /\ watcher = 0
    /\ connect = [t \in Connects |-> "none"]
    /\ session = FALSE
    /\ tracks = {}
    /\ joined = FALSE
    /\ streaming = {}
    /\ events = <<>>
    /\ ui = "loop"

\* What invokeMethod, a watcher and deleteLater post.
TrackEvent(kind, s) == [kind |-> kind, sid |-> s]
StateEvent(state) == [kind |-> "state", state |-> state]
Event(kind) == [kind |-> kind]

EventSet ==
    [kind : {"attach", "detach"}, sid : Sids]
        \cup [kind : {"state"}, state : {"connecting", "connected", "disconnected"}]
        \cup [kind : {"finished", "disconnected", "destroy"}]

-----------------------------------------------------------------------------
(***************************************************************************)
(* Calls of the UI thread.                                                 *)
(***************************************************************************)

\* Mutant: a connection in progress is not looked for.
ConnectToRoomAgain ==
    \E t \in Connects :
        /\ connect[t] = "none" /\ \A u \in 1..(t - 1) : connect[u] # "none"
        /\ connect' = [connect EXCEPT ![t] = "queued"]
        /\ watcher' = t
        /\ connectionState' = "connecting"
        /\ room' = TRUE
        /\ UNCHANGED <<session, tracks, livekit>>

\* connectToRoom.  A call while a connection is in progress has no effect.  A room
\* that is still there is used again.
ConnectToRoom ==
    IF watcher # 0 /\ connect[watcher] \in Unfinished
    THEN UNCHANGED <<transport, livekit>>
    ELSE \E t \in Connects :
            /\ connect[t] = "none" /\ \A u \in 1..(t - 1) : connect[u] # "none"
            /\ connect' = [connect EXCEPT ![t] = "queued"]
            /\ watcher' = t
            /\ connectionState' = "connecting"
            /\ room' = TRUE
            /\ UNCHANGED <<session, tracks, livekit>>

\* disconnectFromRoom: nothing when the state says so, else the session with its
\* tracks and the room are destroyed.
DisconnectFromRoom ==
    IF connectionState = "disconnected"
    THEN UNCHANGED <<transport, livekit>>
    ELSE /\ connectionState' = "disconnected"
         /\ session' = FALSE /\ tracks' = {}
         /\ room' = FALSE
         /\ joined' = FALSE /\ streaming' = {}
         /\ UNCHANGED <<watcher, connect>>

\* The finished slot once m_connectWatcher->result() has returned: a disconnect that
\* came first cancels the session, and otherwise a new one replaces the old.
FinishedEnds ==
    /\ connect[watcher] \notin Unfinished
    /\ watcher' = 0
    /\ IF connectionState # "disconnected" /\ connect[watcher] = "true"
       THEN session' = TRUE /\ tracks' = {}
       ELSE UNCHANGED <<session, tracks>>
    /\ UNCHANGED <<connectionState, room, connect, livekit>>

\* attachTrack, detachTrack and the connection state, as the callbacks post them.
\* Without a session a track is forgotten.
AttachTrack(s) ==
    /\ tracks' = IF session /\ s \notin Unreadable THEN tracks \cup {s} ELSE tracks
    /\ UNCHANGED <<connectionState, room, watcher, connect, session, livekit>>

DetachTrack(s) ==
    /\ tracks' = IF session THEN tracks \ {s} ELSE tracks
    /\ UNCHANGED <<connectionState, room, watcher, connect, session, livekit>>

SetConnectionState(state) ==
    /\ connectionState' = state
    /\ UNCHANGED <<room, watcher, connect, session, tracks, livekit>>

-----------------------------------------------------------------------------
(***************************************************************************)
(* The task that connects.                                                 *)
(***************************************************************************)

\* The lambda dereferences m_room, which a disconnect may have reset meanwhile.
ConnectBegins(t) ==
    /\ connect[t] = "queued"
    /\ IF room THEN connect' = [connect EXCEPT ![t] = "connecting"] /\ UNCHANGED ui
               ELSE ui' = "crashed" /\ UNCHANGED connect
    /\ UNCHANGED <<connectionState, room, watcher, session, tracks, livekit, events>>

\* Connect has reached the server; callbacks may come from here on.
Joins(t) ==
    /\ connect[t] = "connecting" /\ room
    /\ connect' = [connect EXCEPT ![t] = "joined"]
    /\ joined' = TRUE
    /\ events' = Append(events, StateEvent("connected"))
    /\ UNCHANGED <<connectionState, room, watcher, session, tracks, streaming, ui>>

\* Connect returns, the future is finished and its event posted.  In a room that
\* was destroyed under it Connect may return anything, or the program ends.
ConnectReturns(t) ==
    /\ connect[t] \in {"connecting", "joined"}
    /\ \/ /\ \E ok \in IF room THEN {connect[t] = "joined"} ELSE BOOLEAN :
                connect' = [connect EXCEPT ![t] = IF ok THEN "true" ELSE "false"]
          /\ events' = Append(events, Event("finished"))
          /\ UNCHANGED ui
       \/ /\ ~room /\ ui' = "crashed"
          /\ UNCHANGED <<connect, events>>
    /\ UNCHANGED <<connectionState, room, watcher, session, tracks, livekit>>

Task(t) == ConnectBegins(t) \/ Joins(t) \/ ConnectReturns(t)

-----------------------------------------------------------------------------
(***************************************************************************)
(* LiveKit's callbacks.                                                    *)
(***************************************************************************)

Post(event) ==
    /\ Len(events) < MaxEvents
    /\ events' = Append(events, event)
    /\ UNCHANGED <<transport, ui>>

OnTrackSubscribed(s) ==
    /\ joined /\ s \notin streaming
    /\ streaming' = streaming \cup {s}
    /\ Post(TrackEvent("attach", s))
    /\ UNCHANGED joined

\* Mutant: a track that ends is not reported to the session.
OnTrackUnsubscribedSilently(s) ==
    /\ s \in streaming
    /\ streaming' = streaming \ {s}
    /\ UNCHANGED <<transport, ui, events, joined>>

OnTrackUnsubscribed(s) ==
    /\ s \in streaming
    /\ streaming' = streaming \ {s}
    /\ Post(TrackEvent("detach", s))
    /\ UNCHANGED joined

OnTrackSubscriptionFailed(s) ==
    /\ joined /\ s \notin streaming
    /\ Post(TrackEvent("detach", s))
    /\ UNCHANGED livekit

\* The connection is lost and LiveKit tries again, with success.
OnReconnecting == joined /\ Post(StateEvent("connecting")) /\ UNCHANGED livekit
OnReconnected == joined /\ Post(StateEvent("connected")) /\ UNCHANGED livekit

\* The server ends the connection: the new state and the disconnect are posted.
OnDisconnected ==
    /\ joined
    /\ joined' = FALSE /\ streaming' = {}
    /\ Len(events) < MaxEvents
    /\ events' = events \o <<StateEvent("disconnected"), Event("disconnected")>>
    /\ UNCHANGED <<transport, ui>>

Callback ==
    \/ \E s \in Sids :
          OnTrackSubscribed(s) \/ OnTrackUnsubscribed(s) \/ OnTrackSubscriptionFailed(s)
    \/ OnReconnecting \/ OnReconnected \/ OnDisconnected
=============================================================================
