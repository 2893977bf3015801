---------------------------- MODULE DirectorView ----------------------------
(***************************************************************************)
(* The director's client: session pages on the page stack, each with a     *)
(* SessionDirectorView that shows one track large and all of them in a     *)
(* list, over the transport they share.  The pages keep a position in the  *)
(* session's sorted tracks, which moves as tracks come and go.             *)
(***************************************************************************)
EXTENDS DirectorTransport, SequencesExt

CONSTANTS
    MaxCameras,    \* max_camera_count: slots of the camera list
    MaxPages       \* bound: session pages on the stack

ASSUME ViewAssumption == MaxCameras \in Nat /\ MaxPages \in Nat \ {0}

VARIABLE pages     \* the session pages on the stack, the current one last

vars == <<transport, livekit, events, ui, pages>>

NoTrack == -1

\* A view: activeCamera, dl_active_camera.assigned_track, and whether all_tracks holds
\* the session's tracks.  It does from the first change after the view was made or
\* the session replaced until the session is destroyed, which leaves null entries.
NewView == [active |-> -1, feed |-> NoTrack, listed |-> FALSE]

\* std::distance from m_trackMap.begin(), and tracks[i] of the list made from it.
Position(s, T) == Cardinality({u \in T : u < s})
TrackAt(i, T) ==
    IF \E s \in T : Position(s, T) = i THEN CHOOSE s \in T : Position(s, T) = i ELSE NoTrack

ViewSet == [active : Nat \cup {-1}, feed : Sids \cup {NoTrack}, listed : BOOLEAN]

Init == TransportInit /\ pages = <<>>

-----------------------------------------------------------------------------
(***************************************************************************)
(* Handlers of a view.                                                     *)
(***************************************************************************)

\* onActiveCameraChanged: the new position's track is shown large.
Activate(v, i, T) == [v EXCEPT !.active = i, !.feed = TrackAt(i, T)]

\* A reference from QML to a destroyed VideoTrack becomes null.
LoseFeed(v, gone) == [v EXCEPT !.feed = IF @ \in gone THEN NoTrack ELSE @]
LoseSession(v) == [v EXCEPT !.feed = NoTrack, !.listed = FALSE]

\* Mutant: a track that comes to the active position does not move it.
OnTrackAddedStrict(v, index, T) ==
    LET w == [v EXCEPT !.listed = TRUE]
    IN  IF index < v.active THEN Activate(w, v.active + 1, T) ELSE w

OnTrackAdded(v, index, T) ==
    LET w == [v EXCEPT !.listed = TRUE]
    IN  IF index <= v.active THEN Activate(w, v.active + 1, T) ELSE w

\* Mutant: whatever goes, the position moves.
OnTrackRemovedAlways(v, index, T) ==
    Activate([v EXCEPT !.listed = TRUE], v.active - 1, T)

\* Mutant: only the loss of the active track is looked at.
OnTrackRemovedOther(v, index, T) ==
    LET w == [v EXCEPT !.listed = TRUE]
    IN  IF index = v.active THEN Activate(w, -1, T) ELSE w

OnTrackRemoved(v, index, T) ==
    LET w == [v EXCEPT !.listed = TRUE]
    IN  CASE index = v.active -> Activate(w, -1, T)
          [] index < v.active -> Activate(w, v.active - 1, T)
          [] OTHER -> w

-----------------------------------------------------------------------------
(***************************************************************************)
(* The UI thread: the user, replies, and posted events.                    *)
(***************************************************************************)

\* directorJoined pushes a page, whose onCompleted connects.
OpenPage ==
    /\ ui = "loop" /\ Len(pages) < MaxPages /\ Len(events) < MaxEvents
    /\ ConnectToRoom
    /\ pages' = Append(pages, NewView)
    /\ UNCHANGED <<events, ui>>

\* The current page, if there is one, is popped, and destroyed by deleteLater.
PopPage(ps, queue) ==
    IF ps = <<>> THEN pages' = ps /\ events' = queue
    ELSE pages' = Front(ps) /\ events' = Append(queue, Event("destroy"))

\* The Leave button, or sessionClosed.
ClosePage ==
    /\ ui = "loop" /\ pages # <<>>
    /\ PopPage(pages, events)
    /\ UNCHANGED <<transport, livekit, ui>>

\* The user clicks a slot of the list that has a track.
Select(i) ==
    /\ ui = "loop" /\ pages # <<>> /\ Last(pages).listed
    /\ i < MaxCameras /\ TrackAt(i, tracks) # NoTrack /\ i # Last(pages).active
    /\ pages' = [pages EXCEPT ![Len(pages)] = Activate(@, i, tracks)]
    /\ UNCHANGED <<transport, livekit, events, ui>>

Handles(kind) == ui = "loop" /\ events # <<>> /\ Head(events).kind = kind

\* The slot first waits in m_connectWatcher->result(), whichever watcher that is by
\* now; a null one ends the program.
HandleFinished ==
    /\ Handles("finished")
    /\ events' = Tail(events)
    /\ ui' = IF watcher = 0 THEN "crashed" ELSE "result"
    /\ UNCHANGED <<transport, livekit, pages>>

ResultReady ==
    /\ ui = "result"
    /\ FinishedEnds
    /\ ui' = "loop"
    /\ pages' = IF connectionState # "disconnected" /\ connect[watcher] = "true"
                THEN [p \in DOMAIN pages |-> LoseSession(pages[p])]
                ELSE pages
    /\ UNCHANGED events

HandleAttach ==
    /\ Handles("attach")
    /\ events' = Tail(events)
    /\ LET s == Head(events).sid IN
        /\ AttachTrack(s)
        /\ pages' = IF tracks' = tracks THEN pages
                    ELSE [p \in DOMAIN pages |->
                             OnTrackAdded(pages[p], Position(s, tracks'), tracks')]
    /\ UNCHANGED ui

HandleDetach ==
    /\ Handles("detach")
    /\ events' = Tail(events)
    /\ LET s == Head(events).sid IN
        /\ DetachTrack(s)
        /\ pages' = IF tracks' = tracks THEN pages
                    ELSE [p \in DOMAIN pages |->
                             OnTrackRemoved(LoseFeed(pages[p], {s}), Position(s, tracks), tracks')]
    /\ UNCHANGED ui

HandleState ==
    /\ Handles("state")
    /\ events' = Tail(events)
    /\ SetConnectionState(Head(events).state)
    /\ UNCHANGED <<ui, pages>>

\* The disconnected signal: the current page closes itself.
HandleDisconnected ==
    /\ Handles("disconnected")
    /\ PopPage(pages, Tail(events))
    /\ UNCHANGED <<transport, livekit, ui>>

\* A popped page's onDestruction disconnects, and the signal reaches the next page.
HandleDestroy ==
    /\ Handles("destroy")
    /\ DisconnectFromRoom
    /\ IF connectionState = "disconnected" THEN events' = Tail(events) /\ UNCHANGED pages
       ELSE PopPage([p \in DOMAIN pages |-> LoseSession(pages[p])], Tail(events))
    /\ UNCHANGED ui

Dispatch ==
    \/ HandleFinished \/ HandleAttach \/ HandleDetach \/ HandleState
    \/ HandleDisconnected \/ HandleDestroy

UI == OpenPage \/ ClosePage \/ (\E i \in 0..(MaxCameras - 1) : Select(i)) \/ ResultReady \/ Dispatch

\* The other threads of a program that has not crashed.
Others == ui # "crashed" /\ UNCHANGED pages /\ (Callback \/ \E t \in Connects : Task(t))

Next == UI \/ Others

Spec == Init /\ [][Next]_vars
-----------------------------------------------------------------------------
(***************************************************************************)
(* Properties.                                                             *)
(***************************************************************************)

Pending(event) == \E k \in DOMAIN events : events[k] = event

\* The transport, LiveKit's side, the queue and the pages have their types; no more
\* pages are popped than were pushed, and a position is -1 or counts tracks.
TypeOK ==
    /\ connectionState \in {"connecting", "connected", "disconnected"}
    /\ room \in BOOLEAN /\ session \in BOOLEAN /\ joined \in BOOLEAN
    /\ watcher \in 0..MaxConnects
    /\ connect \in [Connects -> Unfinished \cup {"none", "true", "false"}]
    /\ tracks \subseteq Sids /\ streaming \subseteq Sids
    /\ ui \in {"loop", "result", "crashed"}
    /\ events \in Seq(EventSet)
    /\ pages \in Seq(ViewSet) /\ Len(pages) <= MaxPages

\* m_room is used by at most one Connect at a time, although the slot of an old
\* connection replaces and clears the watcher by which connectToRoom recognises
\* one that is in progress.
ConnectsExclusive ==
    \A t, u \in Connects : connect[t] \in Unfinished /\ connect[u] \in Unfinished => t = u

\* In every view, a hidden one too, the large feed shows the track at activeCamera,
\* the slot the list marks as casting, however tracks and sessions have come and
\* gone since the click.
FeedMatches ==
    \A p \in DOMAIN pages : pages[p].feed = TrackAt(pages[p].active, tracks)

\* The large feed changes by a click only, unless its track has ended: tracks that
\* come or go at other positions never switch the picture.
FeedFollows ==
    [][\A p \in DOMAIN pages \cap DOMAIN pages' :
          pages'[p].feed # pages[p].feed =>
              \/ \E i \in 0..(MaxCameras - 1) : Select(i)
              \/ pages'[p].feed = NoTrack /\ pages[p].feed \notin tracks']_vars

\* Within the client's first connection no track stays in the session that has ended
\* at LiveKit: its detach event is still to come, and comes after its attach event.
NoGhostTrack ==
    joined /\ (\A t \in Connects \ {1} : connect[t] = "none") =>
        \A s \in tracks \ streaming : Pending(TrackEvent("detach", s))

\* SessionDirectorView.qml: "As operators join a room, video tracks appear as a list
\* camera feeds."  The session is made by the finished slot, and a track whose event
\* is handled before it never appears.
TracksAppear ==
    joined /\ watcher = 0 /\ events = <<>> /\ ui = "loop" => streaming \ Unreadable \subseteq tracks
=============================================================================
