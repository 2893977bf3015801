# direct-link: specifications, model checking and proofs

DirectLink lets a director watch the cameras of several operators with low
latency. Operators publish video by WHIP to LiveKit, directors subscribe to it,
and a signaling server hands out the credentials. This directory holds TLA+
modules of the parts whose correctness depends on the order in which threads,
requests, events and failures interleave, TLC configurations for small instances
of them, and TLAPS proofs for all instances.

Paths below are relative to `src/`.

## 1. The system

| Part | State it keeps | Operations | Where |
|---|---|---|---|
| Video pipeline | bounded frame queue, encode thread, statistics | `initialize`, `start`, `stop`, `requestKeyframe`, capture callback, `encodeLoop` | `video-core/src/pipeline` |
| Camera capture | GStreamer pipeline, capture thread, `running_` | `initialize`, `start`, `stop`, `captureLoop` | `video-core/src/capture` |
| Encoders | libav codec with frames inside, `running_`, `forceKeyframe_` | `createEncoder`, `initialize`, `encodeFrame`, `stop`, `requestKeyframe` | `video-core/src/encode` |
| WHIP publisher | GStreamer pipeline, `running_` | `initialize`, `start`, `stop`, `pushPacket` | `networking/src` |
| Camera session and controller | `isRunning_`, `startWatcher_`, future, preview sink | `start` on a pool thread, `stop` on the UI thread, finished slot | `client/src/session` |
| Director transport, session, tracks | LiveKit room, connection state, list of tracks; per track a stream, a sink and a read loop on a pool thread | `connectToRoom`, `disconnectFromRoom`, LiveKit callbacks, attach and detach | `client/src/directortransport.cpp`, `directorsession.cpp`, `videotrack.cpp`, `framereader.cpp` |
| Client application | page stack, `current_operation`, `last_room`, `pending_close_room` | QML pages, replies and errors of the signaling client | `client/src/application`, `client/src/network` |
| Signaling server | none of its own; a goroutine per request | `CreateSession`, `JoinSession`, `CloseSession`, `GetMySessions`, `GetServerTime` | `backend/internal/signaling` |
| Session store | Redis keys, most with a TTL | one Go method per command or pipeline, `retryRedisOp` | `backend/pkg/session` |
| Janitor | Redis lock, `instanceID`, store health | `Run`, `WatchStore`, `SweepAt` | `backend/internal/worker/janitor` |
| Server lifecycle | listeners, store connection | `ListenAndServe`, `shutdown`, health endpoints | `backend/internal/signaling/server.go`, `http.go` |
| Decoders | libav context, frames, device, `initialized_` | `createDecoder`, `initialize`, `decodePacket`, `stop` | `video-core/src/decode` |

How they interact. A client calls the signaling server by gRPC. Handlers call
Redis (with retries) and LiveKit (without); the janitor of every server process
calls the same two. Handlers and sweeps share nothing but Redis and LiveKit. In
the operator's client the QML page calls the controller, the controller runs
`CameraSession::start` on a QtConcurrent thread and learns of its end by a queued
event, and the session drives pipeline and publisher. The pipeline's capture
thread calls back into the pipeline, whose encode thread calls back into the
publisher. In the director's client LiveKit threads post to the UI thread, and a
read loop per track, on the same pool as the starts, pushes frames into the sinks
of the page.

What is hard here:

- three threads in the pipeline, a condition variable notified outside its
  mutex, an encoder without a lock, a capture thread that may end by itself;
- requests of several calls each, between which other requests, sweeps, key
  expiry, lost answers and crashes come;
- a lock with a TTL, shared by two goroutines of a process under one identity;
- a start on a pool thread against a stop on the UI thread, and results that
  arrive as events after the state they speak of has changed;
- a thread pool that starts and read loops share, and a UI thread that waits for
  both;
- libav objects behind raw pointers, acquired one by one by an `initialize` that may
  fail between any two, and released in part by `stop`.

`PROJECT.json` lists these hazards one by one, at the line where they bite, each
with the properties that would catch it going wrong.

## 2. Modules

| Module | Models | Uses |
|---|---|---|
| `FrameStream` | abstract: what the receiver of packets may rely on | |
| `VideoPipeline` | `VideoPipeline`, `CameraCapture`, the encoders as far as the threads see them | instantiates `FrameStream` |
| `VideoPipelineProofs` | proofs | extends `VideoPipeline` |
| `Codecs` | the two encoders and the two decoders, from factory to destructor | |
| `CodecsProofs` | proofs | extends `Codecs` |
| `SessionStore` | Redis keys, the store's commands, expiry | |
| `Signaling` | gRPC handlers, `deleteRoom`, `NewRoomCode`, failed calls | extends `SessionStore` |
| `SessionLife` | abstract: the life of a session as its users may rely on it | |
| `Janitor` | sweeps, lock, crashes, TTLs; the whole backend | extends `Signaling`, instantiates `SessionLife` |
| `MCJanitor` | symmetry for TLC | extends `Janitor` |
| `JanitorProofs` | proofs of what holds with or without failures | extends `Janitor` |
| `BackendProofs` | proofs of what holds while no call fails, and of the refinement | extends `JanitorProofs` |
| `CameraSession` | controller, `CameraSession`, `WHIPPublisher` | |
| `CameraSessionProofs` | proofs | extends `CameraSession` |
| `VideoTrack` | `VideoTrack`, `FrameReader`, the read loops | |
| `Client` | UI thread and thread pool of the application | extends `CameraSession`, `VideoTrack` |
| `ClientProofs` | proofs | extends `Client`, `CameraSessionProofs` |
| `DirectorTransport` | `DirectorTransport`, `DirectorSession`, LiveKit's callbacks | |
| `DirectorView` | session pages, `SessionDirectorView`, `CameraList`; the director's client | extends `DirectorTransport` |
| `DirectorViewProofs` | proofs | extends `DirectorView` |

Operators whose comment begins with "Mutant" are not used by any specification.
Each is a faulty variant of the definition that follows it, the way a plausible
mistake in the code would make it; substituted for that definition it must break
a property (the list is in `PROJECT.json`). They show that the properties are
about the code.

### VideoPipeline

`ctl` is where the caller is inside `start` or `stop`; `capThread` and
`encThread` are the program counters of the two threads; `device`, `gst`,
`capRunning`, `capStop`, `encoder`, `encStop` are members of the classes.
A frame is the number of the sample it came from. It is in `frameQueue`, `held` by
the encode thread, inside the `codec`, or among the delivered `packets`.

- `BuildPipeline` tries the `Candidates`; if none reaches READY the new capture stays
  without a pipeline. `DestroyDevice` is the destructor of the capture that
  `Initialize` replaces.
- `Initialize`, `StartEncoder`, `StartCapture`, `StartCaptureFails`,
  `StartEncodeThread`: `initialize` and `start`.
- `StopBegin` to `StopEncoder`: `stop`, split where another thread can act, in
  particular between the notification, the stop request and the join.
- `CapturePull`, `CapturePush`, `CaptureNotify`, `CaptureCount`, `CaptureExit`
  and `CaptureBusError`: `captureLoop` and the callback. Pushing (under the
  mutex) and notifying (after it) are two steps.
- `EncodeLoopTest`, `EncodeCheck`, `EncodeBlock`, `EncodeFrame`,
  `EncodeFrameFails`: `encodeLoop`. Evaluating the wait predicate and
  blocking are separate, as the stop token is set without the mutex; the
  capture callback, which takes the mutex, cannot come in between.
- `EncodeWakeSpuriously`, `RequestKeyframe`: what the standard library and
  GStreamer may do at any time.

Two things are assumed of the caller: calls come from one thread at a
time, and `initialize` is called only while no stream runs. That is what
`CameraSession` guarantees (`StopExclusive`, `StartsExclusive`, `InitializedIdle`).

`Stream` instantiates `FrameStream` with the delivered packets as its output. The
abstract specification knows neither queue nor threads nor codec: the camera
delivers, and newer frames are appended to the output, never fewer than before.
Everything else the pipeline does, restarts and failures included, is a stuttering
step of it.

### Codecs

One codec at a time, of one of the four classes (`kind`). `ptr` says what each of the
members `codecCtx_`, `frame_`, `cpuFrame_` and `hwDeviceCtx_` refers to, `lost`
counts the objects that no member refers to and nobody freed. A call of `initialize`
is one of a few runs, each a record of what it did to the pointers before it
returned: the sets `EncoderRuns`, `SoftwareRuns` and `NvdecRuns` have one for every
return statement. Inputs are numbered; `pending` are those the context holds,
`delivered` those whose output reached a callback, with the callback they were meant
for and the one they got. libav is external: any call may fail, any input may be
refused, an output may be late by `CodecDepth`.

No `initialize` asks whether the codec is in use, and callers do call it on a codec that
is: `test_decoder.cpp` twice in a row, `VideoPipeline::start` after a capture that did
not start. `Assign` is therefore possible between any two calls. It puts the
new callback in place first; a run that fails before the context is touched
leaves what is pending, which then comes out to the new callback, and one that goes
further replaces the context with whatever was in it (`overwritten`). A failure does not
clear `running_` or `initialized_`: the codec stays ready over what the run has left, an
unopened context, which refuses every input, or a null pointer, whose use is the action
`UseNull` and ends the program (`step` is "crashed"). `failed` remembers which calls of
`initialize` returned an error, so that the properties can say how far the promise
of each reaches.

`encodeFrame` of the software encoder takes two steps, since `requestKeyframe` may
set the atomic flag between the exchange and the send; `due` is a history variable
for a request that has not been answered.

### SessionStore, Signaling, Janitor

A session is named after the request that creates it, an ingress after the
request that created it. `hash[s]` is the status field of `session:<id>`,
"partial" when the hash has nothing else, which `UpdateSessionStatus` causes on
a hash that expires between its `EXISTS` and its `HSET`. Time is one fact per session:
`s \in lapsed` once its TTL has run out; then each of its keys may expire, in any
order. Members of the active set never expire.

Every handler is a process with one step per call to Redis or LiveKit
(`pc`), and what it computes between two calls belongs to the step before.
`Lookup` and `Load` are the two commands of `GetSessionByRoomCode`; `NewIngress`,
`GrantExists`, `Grant`, `Record`, `Rollback` are `joinAsCamera`; `GetIngressIDs`,
`DeleteIngress`, `DeleteRoom` are `deleteRoom`; `StatusExists`, `SetStatus`,
`ZRem` are `UpdateSessionStatus`, for a handler or a sweep. A call can fail for
good (`CallFails`, `CloseCallFails`, `SweepCallFails`), take effect and lose its
answer (`...Lost`, after which it is made again), break off in the middle of a
pipeline (`CreateInterrupted`), and a handler's process can die (`RequestDies`).

`Janitor` adds two sweepers per server process, `<<i, "run">>` and `<<i, "watch">>`.
`lock` is the sweeper whose `SET NX` made the key; the release script compares
instance IDs only, so it is `InstanceOf(lock)` that counts. `LockExpires` is the
lock's TTL, which is not tied to the sweep's end. The script may also run, lose its
answer and be sent again by go-redis, by which time the key may be that of the
process's other sweep (`ReleaseLost`). `overdue` remembers the sweepers that lost the
lock in one of these ways before their sweep was over. `PingFails` and `Reconnect` are
what makes `WatchStore` sweep; a failed ping is no call of a handler or a sweep and not
counted among the `faults`. `Crash` ends both sweepers of a process.

`Life` instantiates `SessionLife`, which knows neither handlers nor sweeps nor keys: a
session is opened once, for one user; closed only when that user has asked for it or
its TTL is over; never opened again; and gone only after its TTL. Its status is read
off the hash (a "partial" one is no session any more), its owner is the user of the
request that created it, and the users who have asked for a close are those of the
`CloseSession` requests that have begun.

### CameraSession

`startWatcher` is the task the controller watches, `task[t]` the next call of each
task (a run of `CameraSession::start`) or its result, `events` the finished
events queued for the UI thread, `ui` whether that thread is in its event loop,
in `stop`, in `result()`, or gone. `OpenPage` and `ClosePage` are `SessionPage`'s
`onCompleted` and `onDestruction` for an operator, with the calls of the
controller they make. Several pages may be on the stack: each `cameraJoined`
pushes one. Every step of `CameraSession::start` may fail as in the code.

The finished slot uses the member `startWatcher_` and not the watcher that
signalled. A start that comes between the end of a task and its event makes the
slot wait for the new task and clear its watcher; that task's own slot then finds
a null pointer. In the model the program is then "crashed"; `StartsExclusive`
shows that at least no two starts overlap on the way there.

### VideoTrack, Client

A `VideoTrack` has a `stream` (none, open, or ended), a `sink` or none, and the
`future` of its last read loop; `reader` says where each loop is: queued, reading,
pushing or done. `SetTrack`, `SetVideoSink`, `UnsetTrack` and `Release` are
operations of the UI thread, `ReadBegins` to `ReadEnds` the loop. `UnsetTrack` and
`Release` are the two ends of `unsetTrack`: between them the UI thread is in
`waitForFinished` (`releasing`), which, as Qt does, runs a loop itself that no pool
thread has begun (`RunQueued`). `PushFrame` stands for the whole of
`FrameReader::pushFrame`, whose outcomes differ in what the sink shows, not in what
the loop does next.

`Client` puts the operator's `CameraSession` and the director's tracks into one
process: one UI thread, which while it waits handles nothing else, and a pool of
`PoolSize` threads on which both starts and loops run. In this composition
`VideoPipeline::stop` is a call that returns.

### DirectorTransport, DirectorView

`connectionState`, `room`, `session`, `watcher` and `tracks` are the members of
`DirectorTransport` and the keys of `DirectorSession::m_trackMap`; `connect[t]` is
each task that calls `Room::Connect` on a pool thread. `joined` and `streaming` are
LiveKit's side, which the model drives by the callbacks it may make. Callbacks
only post: `events` is the queue of the UI thread, with the lambdas of
`invokeMethod`, the watchers' finished events and the `deleteLater` of popped pages,
and `Dispatch` handles them in order. What the user does and replies of the server
come at any time.

`pages` are the session pages on the stack. A view keeps `active`
(`activeCamera`, a position), `feed` (the track shown large) and `listed` (whether
`all_tracks` holds the session's tracks). SIDs are numbers in the order of the map;
`Unreadable` are the tracks of which LiveKit makes no stream. All views of the
stack hear the session's signals; only the current page's `closePage` is heard by
`Main.qml`. Home and logout pop several pages, which is `ClosePage` repeated.

A room that `disconnectFromRoom` destroys while `Connect` runs in it is undefined
behaviour: the call may return anything or end the program. The finished slot has
the fault described for the camera session. About LiveKit it is assumed that
`Connect` may succeed or fail at any time, that callbacks come once it has reached the
server, before or after it returns, and that a destroyed room makes none.

## 3. Runs

Bounds are named constants. They are as small as lets every interleaving of
interest happen; the properties marked (P) are also proved without bounds.

| Run | Instance | Checks |
|---|---|---|
| `pipeline` | queue of 2, codec delay 1, 4 frames, software encoder | `TypeOK` (P), `FrameAccounting` (P), `DeliveryOrder` (P), `NoMissedFrame` (P), `EncoderConfined` (P), `CaptureQuiescent` (P), `ThreadDiscipline` (P), `FrameProgress`, `CaptureJoinReturns`, `ImplementsFrameStream` (P) |
| `codecs` | codec delay 2, 4 inputs, 3 initializations, all four classes | `TypeOK` (P), `ReadyIsUsable` (P), `OutputsReachTheirCallback` (P), `EncoderKeepsAll` (P), `OneInitializeReleasesAll` (P), `KeyframeNotLost` (P) |
| `backend_requests` | 3 requests, 2 users, 1 code, 1 failure, no sweeps | `TypeOK` (P), `CloseAuthorised` (P), `SessionsListed` (P), `IngressTracked` (P), `ClosedPreventsJoins` (P) |
| `backend_overlap` | a creation, a close and 2 sweepers of a process, the hash expiring, no failed call, fair | `ActiveSetAgrees` (P), `ImplementsSessionLife` (P), `SweptSessionsClose` |
| `backend_lock` | 2 processes with 4 sweepers, 2 failures, fair | `LockHeld` (P), `SweepExclusion` (P), `SweepsGoOn` |
| `camera_session` | the module `Client`: 2 pages, 4 starts, 1 track with 3 loops, pool of 2, fair | `TypeOK` (P), `StartsExclusive` (P), `StopExclusive` (P), `InitializedIdle` (P), `NoPacketDropped` (P), `ReaderConfined` (P), `UIReturns`, `TrackIsRead` |
| `director_view` | 2 pages, 2 connections, 3 tracks, one of them unreadable, 2 slots | `TypeOK` (P), `ConnectsExclusive` (P), `FeedMatches` (P), `FeedFollows` (P), `NoGhostTrack` (P) |

Why these bounds are enough. A queue of two with four frames overflows, is
drained and refilled across a restart, and each frame can be in a different
place. Three initializations are one that succeeds, one that fails or succeeds while the
codec is in use, and one after a failure or a stop; four inputs with a delay of two
leave something in the context at a stop or a second initialization and give the next
one inputs of its own. Three requests are a creation, a join or a second creation, and a close;
with one code every second creation collides, and an expired code can be drawn
again. In `backend_overlap` (`OverlapSpec` of `MCJanitor`) one request creates the
session and the other closes it, while the two sweeps of the process, of which the second
gets the lock when the first outlasts it, close it too: all three can be between
`EXISTS` and `ZREM` at once. Joins, listings and the expiry of the other keys are left to
`backend_requests`; the theorems have all of them together. Two processes with two
sweepers each let a lock be lost by one, taken by the other process, and released by the second sweeper of the first, which must fail,
or by that of the other, which succeeds. Four starts on two pages allow a
task to be replaced while its event is pending, and again after that; three loops
on one object allow one to end by itself and others to follow, and the object that
comes after a release begins anew. A pool of two is one thread for the start and one for the track,
what the property `TrackIsRead` presupposes; Qt makes as many threads as the
machine has cores. Two readable tracks come before
and after each other in the list, a third is refused; with two connections a page
meets a room and a session that an earlier one has left.

Deadlock is checked for `pipeline`. In `codecs` the program may end in a null pointer.
In the backend runs everything may end: every request has been answered and every
process has crashed or its bounded faults are used up; in `camera_session` and `director_view` the tasks may be used up
or the program has crashed. These runs switch the check off.

Symmetry is used in `backend_requests` and `backend_ingress_leak` only, over requests, users,
codes and processes, none of which the model distinguishes; the runs with a liveness
property do without.

### Where code and documentation disagree

| Run | Property | What happens |
|---|---|---|
| `pipeline_stop_hangs` | `StopReturns` | `stop` notifies before it requests the stop and holds no mutex; an encode thread that has just found the queue empty and no stop requested goes to sleep after both, and the join waits for ever. |
| `backend_lapsed` | `LapsedSessionsClosed` | The hash has the same TTL as the entry in the active set; the sweep finds the entry without its hash, skips it, and nothing is ever cleaned up. |
| `backend_ingress_leak` | `ClosedSessionHasNoIngress` | A camera join that has read the status records its ingress after the close has deleted the recorded ones. |
| `camera_session_stopped` | `StoppedStaysStopped` | Leaving the page while the start is under way stops nothing; the stream comes up with no page left to stop it. |
| `director_tracks` | `TracksAppear` | A track whose event is handled before the finished slot has made the session is dropped and never shown. |

`PROJECT.json` quotes the comment, document or test that each contradicts. What
the models also show, without a property of its own: two creations can store the
same unused room code (check and `SET` are two commands); a repeated close
decrements the gauge of active sessions again; `max_cameras` is never compared
with anything; a sweep that outlasts its lock overlaps with the next one, and a
release by the other goroutine of its process then removes that one's lock
(`SweepExclusion` and `LockHeld` state what is left), as does a release script that is
sent twice; frames queued at a stop
are encoded after the next start; a keyframe request is consumed by a frame the
codec refuses; a creation whose answer was lost is made again and sets a session
active that was closed meanwhile; a director who leaves while the connection is
being made destroys the room under `Connect`; one who comes back before that
connect has ended gets a page without a connection; a late "connected" event
undoes the cancellation and makes a session without a room; a codec that is
initialized again leaks what the earlier call made (`decode/software_decoder.cpp:39`,
`decode/nvdec_decoder.cpp:43-65`, `encode/software_encoder.cpp:38`), also when it is
ready or its pipeline failed to start, which is why `OneInitializeReleasesAll` speaks of
one initialization, whereas `video-core/tests/unit/decode/test_decoder.cpp:109` wants a
second one not to leak; an encoder that is initialized while it holds frames loses them;
a codec whose second `initialize` fails stays ready, and may then use a null pointer;
`NVENCEncoder` inherits a `requestKeyframe` that does nothing, so the keyframe that
`whip_publisher.cpp:134` asks for comes from the software encoder only; an appsink
that is missing from a camera pipeline would be released twice
(`camera_capture.cpp:168-202`), but every candidate string names one.

### Fairness

`VideoPipeline`: weak fairness of each thread, as the operating system schedules
every thread that can run, and strong fairness of the push under `queueMutex_`,
which the encode thread holds for moments only. The user need not call, the
camera need not deliver, and no spurious wake-up is relied on.

`Janitor`: weak fairness of each handler and each sweeper (goroutines), of the
ticker and the reconnect check,
and of the lock's TTL. No client
has to call, no call and no ping has to fail, and no other key has to expire.
`SweepsGoOn` needs the TTL only where nobody can release: after a crash, a lost
answer or a failed release.

`Client`: weak fairness of the UI thread inside an operation that waits, of each
start task and of each track's loop on the pool. The calls they wait for return: the
handshake of `WHIPPublisher::start` and the end of stream of its `stop` have timeouts,
and a closed stream ends a read. Nothing is assumed of the pipeline's `stop`, the
action `UIJoined`, because `StopReturns` shows that it may not return; `UIReturns`
leaves that wait out and speaks of the others. Nobody has to click and no camera has to send.

`DirectorView` has no liveness property in a passing run: `Connect` has no timeout of
the client's own, and a crash is among the outcomes.

## 4. Proofs

All for arbitrary constants under the assumptions named in the modules
(`ConstantsAssumption`, `StoreAssumption`, `SignalingAssumption`,
`ReplyAssumption`, `ProcessAssumption`, `BoundsAssumption`, `TransportAssumption`, `ViewAssumption`,
`TracksAssumption`, `PoolAssumption`:
capacities and bounds are positive, the
identities of requests, sweepers and `None` are distinct, and `None` is not a reply).

**VideoPipelineProofs.** `IndInv == TypeOK /\ Control /\ FrameAccounting /\
DeliveryOrder`, with `Control` the four thread invariants. They are proved
together: what the encode thread holds is well typed only because the caller
creates and joins that thread in the right order, and the order of delivery rests on
the codec being empty whenever there is no encode thread. `ThreadDiscipline` is the strengthening: it ties each
step of `start` and `stop` to the states of the threads. `CodecSplit` is the fact
about sequences on which accounting and order rest. Theorems: `TypeCorrect`,
`FramesAccounted`, `FramesOrdered`, `NoFrameMissed`, `EncoderUnshared`,
`CaptureStops`, `ThreadsInOrder`.

`PipelineImplementsStream` is the refinement, from the same invariant. `PacketsGrow`:
no action takes a packet back or changes one. `DeliveredInOrder`: by `DeliveryOrder`
in the next state the packets are in the order of capture, and by `TypeOK` and
`FrameAccounting` they are numbers of captured frames. So a step that appends packets
is `Deliver`, the one step that counts up `captured` is `Capture`, and every other
step changes neither.

**JanitorProofs.** `IndInv` is `TypeOK` with `LocalsReady` (which locals each
step of a handler or sweep has set), `CreatorKnown` (a session that anything
refers to has a creator whose request stays as it was), `OwnerCloses`,
`SweepScope` (everything a sweep holds has lapsed) and `LockHeld`. The owner check
of `CloseSession` is several calls old when the status is written; it stays valid
because `cur` does not change in between and `CreatorKnown` fixes the owner.
`SweepExclusion` follows from `LockHeld` for two sweepers. Theorems:
`TypeCorrect`, `ClosesAuthorised`, `LockSafe`, `SweepsExclusive`.

**BackendProofs.** What follows holds while no call has failed, and only then: a
creation that is repeated after a lost answer sets a closed session active again, a
record that fails leaves its ingress untracked, a failed `ZREM` leaves a closed session
in the active set. The invariant is `Calm`, that is `faults = 0 => Undisturbed`.
`FaultFree` says that a step after which the count is zero is one of the steps of
`Good`, in which nothing fails, so that only these need to keep `Undisturbed`. Its parts:

- `Births`: a session exists only after its creator's pipeline, its TTL ends
  only after that request, and a process that closes or drops a session found it made. So
  `HSET` never makes a hash of a session that did not exist, and no hash is made twice.
- `Endings`: what is being removed from the active set is not active, and what a
  request saw closed at its start stays so.
- `Roles`: the step a handler is at tells the operation it serves.
- `Listing`, `Listed`: what `GetMySessions` has read was created before, so a member
  whose hash it does not find has lapsed; pruning it hides no live session, although
  the set was read several calls earlier.
- `Tracking`: a live ingress is on its way to the record, or in it, or its
  session's TTL is over; the cleanup of a close takes an ingress out of the record
  only by deleting it.
- `Joining`: a join past the status check is for a session that was not closed when
  the join began, since it loads the session after that.
- `Membership`: `ActiveSetAgrees` without its condition.

There is one lemma per part (`BirthsKept` to `MembershipKept`) with one step per action.
Actions with several outcomes first get a lemma that lists those (`LookupTo`,
`GrantTo`, ...). Theorems: `ActiveSetCorrect`, `SessionsFound`, `IngressesTracked`,
`ClosedStaysClosed`.

`BackendImplementsLife` is the refinement: a behaviour of the backend with no failure in
it is one of `SessionLife`. `RequestsFixed`: between the begins of requests nobody's
operation or user changes, so owners and closers are fixed. `StatusMoves`: only
`Create`, `SetStatus`, `Lapse` and the expiry of a hash can change what `SessionLife`
sees. By `Births`, `Create` meets an unborn session and is `Open`; by `OwnerCloses` and
`SweepScope`, `SetStatus` on an active hash is a `Close` that is allowed, and on any
other hash it changes nothing: a second close, or an `HSET` on an expired hash.

**CameraSessionProofs.** An unfinished task is always the one the watcher
watches, because the slot that clears the watcher has waited for that very task
(`WatcherCurrent`); `isRunning_` is false in the body of `start` and true in
`stop` (`FlagSplits`); a running pipeline or publisher belongs to one of these
phases (`PhaseOwns`). Theorems: `TypeCorrect`, `OneStart`, `StartOrStop`,
`InitializesIdle`, `PublisherReady`.

**CodecsProofs.** `Ownership`: a codec holds nothing before its first `initialize` and
only what its class has members for, so the first call overwrites nothing and the
destructor frees everything. `OnceInitialized`: a ready codec has had a successful
`initialize`, whatever came after; so a null pointer is met only after a failure on a
ready codec. `PendingIsNew`: what the context holds came in after all that has come
out, under a callback that only failed calls have replaced since, because the run that
succeeds replaces the context too; a codec that is not ready holds nothing. `AcceptKeeps`
and `FlushKeeps` show it for any delay, `RunsFit` and `AssignKeeps` for every return
of every `initialize`. Theorems: `TypeCorrect`, `ReadyUsable`, `OutputsInPlace`,
`EncoderComplete`, `NothingLeaks`, `KeyframeKept`.

**ClientProofs.** `ClientImplementsSession`: every step of the client is a step of
`CameraSession` or leaves its variables alone, so the theorems above hold of the client
(`SessionConfined`). `ReadersConfined` needs little more than itself: a loop is queued
only when the last one is over, and an object goes only when no loop is left.

**DirectorViewProofs.** `IndInv` is `TypeOK`, `FeedMatches` and `WatcherCurrent` (as
above). The heart is `InsertShifts`: a track that enters a sorted set moves those
from its position on by one and no others, also for positions past the end, so
`onTrackAdded` and `onTrackRemoved` (an insertion backwards) keep
`feed = TrackAt(active)`. It follows from `InsertPosition` and `PositionMonotone`
about cardinalities, without induction. Theorems: `TypeCorrect`, `OneConnect`,
`FeedShowsActive`, `FeedSteady`; the last is an action property.

`TracksEnd` (`NoGhostTrack`) needs a second invariant, `EndingsReported`, about the
order of the queue: for a track that does not stream, an event that would attach it, or
its being in the session already, is followed by its detach event. It is
about the client's first connection; later ones may meet events of an
earlier room. A queue that is popped in front and appended to behind keeps the fact
(`AnsweredTail`, `AnsweredAppend`), and LiveKit posts the detach in the step that ends the
track.

Only model-checked: the liveness properties `FrameProgress`, `CaptureJoinReturns`,
`SweptSessionsClose`, `SweepsGoOn`, `UIReturns` and `TrackIsRead` (the prover does not
handle fairness). Every other property of a passing run is proved. That the
code departs from its documents is shown by TLC's counterexamples.

## 5. Not modelled

- `SessionClient` and the reply handling of `Main.qml`: which operation a reply is
  attributed to, and which page it pops. Pages open and close at any time instead.
- Which `CameraFeed` owns the sink a track or the preview callback holds, and how long
  that lives.
- Destructors of pipeline, publisher and session at the end of the program.
- `retryRedisOp`'s count and back-off: a call fails for good or is repeated.
- Startup, shutdown and health endpoints of the server, and the LiveKit webhook,
  which only logs.
- Requests that fail validation, `GetServerTime`: they change nothing.
- `DeleteSession`, `RevokeAccess`, `HasAccess`, `GetRole` of the store: the server
  does not call them.
- Statistics other than the frame counters, pixel formats, GStreamer pipeline
  strings, tokens, timestamps of packets (`pushPacket` is modelled by whether it meets
  a running publisher), what a sink shows.
- Generated code; deployment files.

## 6. Plan

Done: `VideoPipeline` with its refinement of `FrameStream`, `Codecs`,
`SessionStore`, `Signaling`, `Janitor` with its refinement of `SessionLife`, `CameraSession`, `VideoTrack`, `Client`,
`DirectorTransport` and `DirectorView`. In order of importance, next:

1. `ClientApp`: attribution of replies and errors to the single
   `current_operation`, `last_room` and `pending_close_room` of `Main.qml`,
   composed with the pages of `CameraSession` and `DirectorView`; a page that has
   closed itself and the reply of a close must not pop two pages.
2. The timestamps of `pushPacket` across restarts, with their width: frames that
   stayed in the queue at a stop come before those of the new device.
3. What is left of the theorems of `BackendProofs` after a failure: each failure can
   spoil only the session whose call failed.
4. `RetryPolicy` (`retryRedisOp` with contexts and back-off) and the server's
   shutdown order against running handlers.
