----------------------------- MODULE VideoTrack -----------------------------
(***************************************************************************)
(* A track of the director's session: VideoTrack and its FrameReader       *)
(* (client/src/videotrack.cpp, framereader.cpp).  The UI thread makes the  *)
(* object, gives it a video sink and destroys it; a read loop on a thread  *)
(* of QtConcurrent's pool takes frames from the LiveKit stream and pushes  *)
(* them into the sink.  m_stream and m_readFuture have no lock: what keeps *)
(* the two threads apart is that a loop is started only when the last one  *)
(* is over, and that unsetTrack() closes the stream and waits for the loop *)
(* before it lets go of the stream.                                        *)
(* A module that uses this one says when the UI thread is free (Client).   *)
(***************************************************************************)
EXTENDS Integers, FiniteSets

CONSTANTS
    Tracks,      \* VideoTrack objects of the session
    MaxReads     \* bound: read loops started for one object

ASSUME TracksAssumption == IsFiniteSet(Tracks) /\ MaxReads \in Nat \ {0}

VARIABLES
    stream,      \* m_stream: none, open, or ended (closed, or ended by LiveKit)
    sink,        \* whether m_videoSink is set
    future,      \* the read loop m_readFuture refers to, 0 for none
    reader,      \* where each read loop is
    releasing    \* tracks the UI thread waits for in unsetTrack()

trackVars == <<stream, sink, future, reader, releasing>>

TrackInit ==
    /\ stream = [t \in Tracks |-> "none"]
    /\ sink = [t \in Tracks |-> FALSE]
    /\ future = [t \in Tracks |-> 0]
    /\ reader = [t \in Tracks |-> [n \in 1..MaxReads |-> "none"]]
    /\ releasing = {}

\* QFuture::isRunning, from the moment the task is queued.
Reading == {"read", "push"}
IsRunning(t) == future[t] # 0 /\ reader[t][future[t]] \in {"queued"} \cup Reading

\* The pool threads that are inside a read loop.
Readers == {r \in Tracks \X (1..MaxReads) : reader[r[1]][r[2]] \in Reading}

ReaderGoto(t, n, at) == reader' = [reader EXCEPT ![t][n] = at]

-----------------------------------------------------------------------------
(***************************************************************************)
(* The UI thread.                                                          *)
(***************************************************************************)

\* DirectorSession::attachTrack makes a VideoTrack, whose setTrack opens the
\* stream.  It has no sink yet, so nothing is read; without a stream the new
\* object is thrown away.
SetTrack(t) ==
    /\ stream[t] = "none"
    /\ stream' = [stream EXCEPT ![t] = "open"]
    /\ UNCHANGED <<sink, future, reader, releasing>>

\* Mutant: no loop is started.
StartReadNever(t) == UNCHANGED <<future, reader>>

\* onVideoSinkChanged and startRead.
StartRead(t) ==
    IF stream[t] = "none" \/ IsRunning(t)
    THEN UNCHANGED <<future, reader>>
    ELSE /\ future[t] < MaxReads
         /\ future' = [future EXCEPT ![t] = @ + 1]
         /\ ReaderGoto(t, future[t] + 1, "queued")

\* A feed takes the track over: setVideoSink with another sink gives it the
\* placeholder and, through videoSinkChanged, starts the loop.
SetVideoSink(t) ==
    /\ stream[t] # "none"
    /\ sink' = [sink EXCEPT ![t] = TRUE]
    /\ StartRead(t)
    /\ UNCHANGED <<stream, releasing>>

\* Mutant: the stream is not closed before the wait.
UnsetTrackOpen(t) ==
    /\ stream[t] # "none"
    /\ releasing' = releasing \cup {t}
    /\ UNCHANGED <<stream, sink, future, reader>>

\* The destructor's unsetTrack() closes the stream and, if a loop is running or
\* queued, waits for it.
UnsetTrack(t) ==
    /\ stream[t] # "none"
    /\ stream' = [stream EXCEPT ![t] = "ended"]
    /\ releasing' = releasing \cup {t}
    /\ UNCHANGED <<sink, future, reader>>

\* waitForFinished() takes a loop that is still queued off the pool's queue and
\* runs it: the stream is closed and the loop ends at once.
RunQueued(t) ==
    /\ t \in releasing /\ future[t] # 0 /\ reader[t][future[t]] = "queued"
    /\ ReaderGoto(t, future[t], "done")
    /\ UNCHANGED <<stream, sink, future, releasing>>

\* The object and its members are gone, and a later track is another object.
Forget(t) ==
    /\ releasing' = releasing \ {t}
    /\ stream' = [stream EXCEPT ![t] = "none"]
    /\ sink' = [sink EXCEPT ![t] = FALSE]
    /\ future' = [future EXCEPT ![t] = 0]
    /\ reader' = [reader EXCEPT ![t] = [n \in 1..MaxReads |->
                     IF @[n] = "done" THEN "none" ELSE @[n]]]

\* Mutant: the stream is let go without the wait.
ReleaseEarly(t) == t \in releasing /\ Forget(t)

\* m_stream.reset() and the end of the destructor, once the loop is over.
Release(t) == t \in releasing /\ ~IsRunning(t) /\ Forget(t)

-----------------------------------------------------------------------------
(***************************************************************************)
(* The pool and LiveKit.                                                   *)
(***************************************************************************)

\* A pool thread begins a queued loop; free says whether there is one.
ReadBegins(t, free) ==
    /\ free
    /\ \E n \in 1..MaxReads : reader[t][n] = "queued" /\ ReaderGoto(t, n, "read")
    /\ UNCHANGED <<stream, sink, future, releasing>>

\* m_stream->read returns a frame.
ReadFrame(t) ==
    /\ stream[t] = "open"
    /\ \E n \in 1..MaxReads : reader[t][n] = "read" /\ ReaderGoto(t, n, "push")
    /\ UNCHANGED <<stream, sink, future, releasing>>

\* FrameReader::pushFrame(frame) gives the sink the frame, converted if it has to
\* be, or the placeholder, or nothing when neither can be mapped; the loop goes on
\* in each case.
PushFrame(t) ==
    /\ \E n \in 1..MaxReads : reader[t][n] = "push" /\ ReaderGoto(t, n, "read")
    /\ UNCHANGED <<stream, sink, future, releasing>>

\* m_stream is null or read returns false: the loop ends.
ReadEnds(t) ==
    /\ stream[t] # "open"
    /\ \E n \in 1..MaxReads : reader[t][n] = "read" /\ ReaderGoto(t, n, "done")
    /\ UNCHANGED <<stream, sink, future, releasing>>

\* The camera stops publishing.
StreamEnds(t) ==
    /\ stream[t] = "open"
    /\ stream' = [stream EXCEPT ![t] = "ended"]
    /\ UNCHANGED <<sink, future, reader, releasing>>

-----------------------------------------------------------------------------
\* A read loop works on the stream, the frame reader and the object itself
\* without a lock: while one is queued or under way the object exists, and it is
\* the loop that m_readFuture, and so the wait in unsetTrack(), refers to.
ReaderConfined ==
    \A t \in Tracks, n \in 1..MaxReads :
        reader[t][n] \in {"queued"} \cup Reading => stream[t] # "none" /\ n = future[t]
=============================================================================
