------------------------------ MODULE Janitor ------------------------------
(***************************************************************************)
(* The janitor of internal/worker/janitor/janitor.go on top of the request *)
(* handlers: the whole signaling backend, several server processes sharing *)
(* one Redis and one LiveKit.                                              *)
(*                                                                         *)
(* cmd/signaling/main.go starts two goroutines per process, Run (a sweep   *)
(* per tick) and WatchStore (a sweep when Redis answers again).  Both      *)
(* sweep under one Redis key, set with NX and a TTL and released by a      *)
(* script that compares its value with the process's instanceID.  The      *)
(* lock variable names the sweeper whose SET created the key; the value    *)
(* stored in Redis is the first component of that pair.                    *)
(***************************************************************************)
EXTENDS Signaling

VARIABLES
    lock,      \* janitor:lock
    expired,   \* the sessions GetExpiredSessions has collected for a sweep
    healthy,   \* wasHealthy of each process's WatchStore
    overdue    \* history: sweepers that lost the lock before their sweep was over

janVars == <<lock, expired, healthy, overdue>>
vars == <<sigVars, janVars>>

Init ==
    /\ SignalingInit
    /\ lock = None
    /\ expired = [w \in Sweepers |-> {}]
    /\ healthy = [i \in Instances |-> TRUE]
    /\ overdue = {}

InstanceOf(w) == w[1]

\* Between taking the lock and letting go of it.
Closing == {"get_ingresses", "delete_ingresses", "status_exists", "set_status", "zrem"}
InSweep(w) == pc[w] \in {"range", "fetch", "drop", "next", "release"} \cup Closing

-----------------------------------------------------------------------------
(***************************************************************************)
(* What starts a sweep.                                                    *)
(***************************************************************************)

\* Mutant: the sweep takes sessions whatever their TTL.
TickAll(i) ==
    /\ pc[<<i, "run">>] = "rest"
    /\ todo' = [todo EXCEPT ![<<i, "run">>] = Sessions]
    /\ Goto(<<i, "run">>, "lock")
    /\ UNCHANGED <<storeVars, req, cur, tries, reply, ingress, gauge, faults, endedBefore, janVars>>

\* Run: at startup and at every tick.  SweepAt gets the time, so the sessions
\* it will look for are those whose TTL has run out by now.
Tick(i) ==
    /\ pc[<<i, "run">>] = "rest"
    /\ todo' = [todo EXCEPT ![<<i, "run">>] = lapsed]
    /\ Goto(<<i, "run">>, "lock")
    /\ UNCHANGED <<storeVars, req, cur, tries, reply, ingress, gauge, faults, endedBefore, janVars>>

\* WatchStore: the store answers a ping again.
Reconnect(i) ==
    /\ pc[<<i, "watch">>] = "rest" /\ ~healthy[i]
    /\ healthy' = [healthy EXCEPT ![i] = TRUE]
    /\ todo' = [todo EXCEPT ![<<i, "watch">>] = lapsed]
    /\ Goto(<<i, "watch">>, "lock")
    /\ UNCHANGED <<storeVars, req, cur, tries, reply, ingress, gauge, faults,
                   endedBefore, lock, expired, overdue>>

\* A ping fails, and nothing else has to: it is no call of a handler or a sweep.
PingFails(i) ==
    /\ pc[<<i, "watch">>] = "rest" /\ healthy[i]
    /\ healthy' = [healthy EXCEPT ![i] = FALSE]
    /\ UNCHANGED <<sigVars, lock, expired, overdue>>

-----------------------------------------------------------------------------
(***************************************************************************)
(* SweepAt.                                                                *)
(***************************************************************************)

\* Mutant: SET without NX.
LockAlways(w) ==
    /\ pc[w] = "lock"
    /\ lock' = w /\ Goto(w, "range")
    /\ UNCHANGED <<storeVars, req, cur, todo, tries, reply, ingress, gauge, faults,
                   endedBefore, expired, healthy, overdue>>

\* SET janitor:lock <instanceID> NX with a TTL.
Lock(w) ==
    /\ pc[w] = "lock"
    /\ IF lock = None THEN lock' = w /\ Goto(w, "range")
                      ELSE Goto(w, "rest") /\ UNCHANGED lock
    /\ UNCHANGED <<storeVars, req, cur, todo, tries, reply, ingress, gauge, faults,
                   endedBefore, expired, healthy, overdue>>

\* GetExpiredSessions: the members of the active set with a score up to now.
Range(w) ==
    /\ pc[w] = "range"
    /\ todo' = [todo EXCEPT ![w] = @ \cap active]
    /\ expired' = [expired EXCEPT ![w] = {}]
    /\ Goto(w, "fetch")
    /\ UNCHANGED <<storeVars, req, cur, tries, reply, ingress, gauge, faults,
                   endedBefore, lock, healthy, overdue>>

\* Its loop: an absent session is skipped and keeps its entry, a closed one loses
\* it, an active one is returned, and a hash that cannot be read ends the sweep.
Fetch(w, s) ==
    /\ pc[w] = "fetch" /\ s \in todo[w]
    /\ todo' = [todo EXCEPT ![w] = @ \ {s}]
    /\ cur' = [cur EXCEPT ![w] = s]
    /\ expired' = IF hash[s] = "active" THEN [expired EXCEPT ![w] = @ \cup {s}] ELSE expired
    /\ CASE hash[s] = "closed" -> Goto(w, "drop")
         [] hash[s] = "partial" -> Goto(w, "release")
         [] OTHER -> UNCHANGED pc
    /\ UNCHANGED <<storeVars, req, tries, reply, ingress, gauge, faults,
                   endedBefore, lock, healthy, overdue>>

Drop(w) ==
    /\ pc[w] = "drop"
    /\ RemoveActive(cur[w])
    /\ Goto(w, "fetch")
    /\ UNCHANGED <<req, cur, todo, tries, reply, ingress, gauge, faults, endedBefore, janVars>>

FetchDone(w) ==
    /\ pc[w] = "fetch" /\ todo[w] = {}
    /\ Goto(w, "next")
    /\ UNCHANGED <<storeVars, req, cur, todo, tries, reply, ingress, gauge, faults, endedBefore, janVars>>

\* Mutant: an expired session is counted and not closed.
CloseExpiredNot(w, s) ==
    /\ pc[w] = "next" /\ s \in expired[w]
    /\ expired' = [expired EXCEPT ![w] = @ \ {s}]
    /\ UNCHANGED <<sigVars, lock, healthy, overdue>>

\* closeExpiredSession(s), whose calls are those of Close in Signaling.
CloseExpired(w, s) ==
    /\ pc[w] = "next" /\ s \in expired[w]
    /\ expired' = [expired EXCEPT ![w] = @ \ {s}]
    /\ cur' = [cur EXCEPT ![w] = s]
    /\ Goto(w, "get_ingresses")
    /\ UNCHANGED <<storeVars, req, todo, tries, reply, ingress, gauge, faults,
                   endedBefore, lock, healthy, overdue>>

SweepDone(w) ==
    /\ pc[w] = "next" /\ expired[w] = {}
    /\ Goto(w, "release")
    /\ UNCHANGED <<storeVars, req, cur, todo, tries, reply, ingress, gauge, faults, endedBefore, janVars>>

\* Mutant: DEL without comparing the value.
ReleaseAny(w) ==
    /\ pc[w] = "release"
    /\ lock' = None
    /\ Goto(w, "rest")
    /\ cur' = [cur EXCEPT ![w] = None]
    /\ todo' = [todo EXCEPT ![w] = {}]
    /\ expired' = [expired EXCEPT ![w] = {}]
    /\ UNCHANGED <<storeVars, req, tries, reply, ingress, gauge, faults, endedBefore,
                   healthy, overdue>>

\* releaseLockScript, deferred: delete the key if it holds our instanceID.  The
\* locals of SweepAt are gone.
Release(w) ==
    /\ pc[w] = "release"
    /\ lock' = IF lock # None /\ InstanceOf(lock) = InstanceOf(w) THEN None ELSE lock
    /\ Goto(w, "rest")
    /\ cur' = [cur EXCEPT ![w] = None]
    /\ todo' = [todo EXCEPT ![w] = {}]
    /\ expired' = [expired EXCEPT ![w] = {}]
    /\ UNCHANGED <<storeVars, req, tries, reply, ingress, gauge, faults, endedBefore,
                   healthy, overdue>>

-----------------------------------------------------------------------------
(***************************************************************************)
(* Failures and time.                                                      *)
(***************************************************************************)

\* A call of the sweep fails.  Failing to fetch ends the sweep, failing to drop
\* an entry does not, and a failed release leaves the key to its TTL.
SweepCallFails(w) ==
    /\ Fault
    /\ \/ pc[w] = "lock" /\ Goto(w, "rest")
       \/ pc[w] = "range" /\ Goto(w, "release")
       \/ pc[w] = "fetch" /\ todo[w] # {} /\ Goto(w, "release")
       \/ pc[w] = "drop" /\ Goto(w, "fetch")
       \/ pc[w] = "release" /\ Goto(w, "rest")
    /\ UNCHANGED <<storeVars, req, cur, todo, tries, reply, ingress, gauge, endedBefore, janVars>>

\* The SET succeeds and its answer is lost: the sweeper gives up while the key
\* stands in its name.
LockLost(w) ==
    /\ pc[w] = "lock" /\ lock = None /\ Fault
    /\ lock' = w
    /\ Goto(w, "rest")
    /\ UNCHANGED <<storeVars, req, cur, todo, tries, reply, ingress, gauge,
                   endedBefore, expired, healthy, overdue>>

\* The release script succeeds and its answer is lost: go-redis sends it again, and by
\* then the key may be the one of the process's other goroutine.
ReleaseLost(w) ==
    /\ pc[w] = "release" /\ Fault
    /\ lock' = IF lock # None /\ InstanceOf(lock) = InstanceOf(w) THEN None ELSE lock
    /\ overdue' = overdue \cup {w}
    /\ UNCHANGED <<storeVars, local, ingress, gauge, endedBefore, expired, healthy>>

\* A process dies.  Its successor has an instanceID of its own: another member
\* of Instances.
Crash(i) ==
    /\ \E w \in Sweepers : InstanceOf(w) = i /\ pc[w] # "dead"
    /\ Fault
    /\ pc' = [p \in Processes |-> IF p \in Sweepers /\ InstanceOf(p) = i THEN "dead" ELSE pc[p]]
    /\ UNCHANGED <<storeVars, req, cur, todo, tries, reply, ingress, gauge, endedBefore, janVars>>

\* Mutant: the lock is set without a TTL.
LockNeverExpires == lock # None /\ lock' = lock /\ UNCHANGED <<sigVars, expired, healthy, overdue>>

\* The TTL of the lock runs out, whether or not the sweep is over.
LockExpires ==
    /\ lock # None
    /\ lock' = None
    /\ overdue' = IF InSweep(lock) THEN overdue \cup {lock} ELSE overdue
    /\ UNCHANGED <<sigVars, expired, healthy>>

\* The TTL of a session runs out.  A request lasts seconds, the TTL 24 hours, so
\* the one that created the session is over.
Lapse(s) ==
    /\ hash[s] # "absent" /\ s \notin lapsed
    /\ pc[s] = "done"
    /\ lapsed' = lapsed \cup {s}
    /\ UNCHANGED <<keys, local, ingress, gauge, faults, endedBefore, janVars>>

Expire == Expiry /\ UNCHANGED <<local, ingress, gauge, faults, endedBefore, janVars>>

-----------------------------------------------------------------------------
Request(r) == (Begin(r) \/ Handle(r) \/ HandleFault(r)) /\ UNCHANGED janVars

CloseStep(p) == (Close(p) \/ CloseFault(p)) /\ UNCHANGED janVars

Sweep(w) ==
    \/ Lock(w) \/ Range(w) \/ (\E s \in Sessions : Fetch(w, s)) \/ Drop(w) \/ FetchDone(w)
    \/ (\E s \in Sessions : CloseExpired(w, s)) \/ SweepDone(w) \/ Release(w)

Next ==
    \/ \E r \in Requests : Request(r)
    \/ \E p \in Processes : CloseStep(p)
    \/ \E w \in Sweepers : Sweep(w) \/ SweepCallFails(w) \/ LockLost(w) \/ ReleaseLost(w)
    \/ \E i \in Instances : Tick(i) \/ Reconnect(i) \/ PingFails(i) \/ Crash(i)
    \/ \E s \in Sessions : Lapse(s)
    \/ LockExpires
    \/ Expire

Spec == Init /\ [][Next]_vars

\* The runtime schedules every goroutine, the ticker keeps ticking, and the lock's
\* TTL runs out.  No client has to call, no key has to expire, nothing has to fail.
Fairness ==
    /\ \A r \in Requests : WF_vars((Handle(r) \/ Close(r)) /\ UNCHANGED janVars)
    /\ \A w \in Sweepers : WF_vars(Sweep(w) \/ (Close(w) /\ UNCHANGED janVars))
    /\ \A i \in Instances : WF_vars(Tick(i)) /\ WF_vars(Reconnect(i))
    /\ WF_vars(LockExpires)

FairSpec == Spec /\ Fairness
-----------------------------------------------------------------------------
(***************************************************************************)
(* Properties that hold.                                                   *)
(***************************************************************************)

HandlerSteps ==
    {"idle", "pick_code", "check_code", "create", "lookup", "load", "new_ingress",
     "grant_exists", "grant", "rollback", "record", "list", "load_each", "forget", "done"}

SweepSteps == {"rest", "lock", "range", "fetch", "drop", "next", "release", "dead"}

\* Every variable of handlers, sweeps and store has its type.
TypeOK ==
    /\ SignalingTypeOK
    /\ pc \in [Processes -> HandlerSteps \cup SweepSteps \cup Closing]
    /\ lock \in Sweepers \cup {None}
    /\ expired \in [Sweepers -> SUBSET Sessions]
    /\ healthy \in [Instances -> BOOLEAN]
    /\ overdue \subseteq Sweepers

\* A session is torn down and closed only on behalf of the user who created it
\* or, by a sweep, after its TTL: the owner check of CloseSession and the range of
\* GetExpiredSessions are several calls old when the status is written, and the
\* room code may lead to another session by then.
CloseAuthorised ==
    /\ \A r \in Requests : pc[r] \in Closing => req[r].user = req[cur[r]].user
    /\ \A w \in Sweepers : pc[w] \in Closing => cur[w] \in lapsed

\* While no call fails, the active set that the janitor works from agrees with the
\* hashes: an active session is in it, and a closed one, or one whose hash expired
\* while it was being closed, only until the ZREM of the process that closes it,
\* whichever handlers and sweeps overlap.  A hash without its fields in the active
\* set would end every later sweep.
ActiveSetAgrees ==
    faults = 0 =>
        \A s \in Sessions :
            /\ hash[s] = "active" => s \in active
            /\ hash[s] \in {"closed", "partial"} /\ s \in active =>
                  \E p \in Processes : pc[p] = "zrem" /\ cur[p] = s

\* While no call fails, GetMySessions finds every session of the user whose hash can be
\* read and whose TTL has not run out: pruning expired members drops no live one.
SessionsListed ==
    faults = 0 =>
        \A s \in Sessions \ lapsed : Readable(s) => s \in userSessions[req[s].user]

\* While no call fails, every live ingress is either recorded for the cleanup of its
\* session or in the hands of the join that made it, which records it or rolls it
\* back; the record of a join that succeeded may expire with its TTL.
IngressTracked ==
    faults = 0 =>
        \A r \in Requests : ingress[r] = "live" =>
            \/ pc[r] \in {"grant_exists", "grant", "rollback", "record"}
            \/ r \in ingressIDs[cur[r]]
            \/ reply[r] = "ok" /\ cur[r] \in lapsed

\* client_grpc_guide.md says a closed session "prevents new joins": a join that
\* begins after the session was closed gets no credentials, although it reads the
\* room code and the session in two calls.
ClosedPreventsJoins ==
    faults = 0 =>
        \A r \in Requests :
            req[r].op \in {"camera", "director"} /\ reply[r] = "ok" =>
                cur[r] \notin endedBefore[r]

\* What SessionLife sees: a hash with nothing but a status, which HSET makes after the
\* session's own has expired, is no session.
LifeStatus ==
    [s \in Sessions |->
        CASE hash[s] = "active" -> "open"
          [] hash[s] = "closed" -> "closed"
          [] hash[s] = "absent" /\ s \notin lapsed -> "unborn"
          [] OTHER -> "gone"]
LifeOwner == [s \in Sessions |-> IF LifeStatus[s] = "unborn" THEN None ELSE req[s].user]
LifeClosers == {req[r].user : r \in {q \in Requests : pc[q] # "idle" /\ req[q].op = "close"}}

Life == INSTANCE SessionLife
            WITH status <- LifeStatus, owner <- LifeOwner, closers <- LifeClosers, over <- lapsed

\* When no call fails, handlers, sweeps and expiry together lead every session through
\* the life that SessionLife describes: closing twice, closing while a sweep closes and
\* an HSET on an expired hash included, none is opened twice, opened again, closed
\* without its creator or the TTL, or lost before it.
ImplementsSessionLife == Life!Spec

\* A sweep whose process has never lost the lock early holds the key: nobody else,
\* another process's release script included, takes it away.
LockHeld ==
    \A w \in Sweepers :
        InSweep(w) /\ (\A v \in overdue : InstanceOf(v) # InstanceOf(w)) => lock = w

\* Two sweeps overlap only after the lock's TTL has run out during a sweep of one of
\* the two processes or a release of its lock had to be repeated, crashes and lost
\* answers included.
SweepExclusion ==
    \A v, w \in Sweepers :
        v # w /\ InSweep(v) /\ InSweep(w) =>
            \E o \in overdue : InstanceOf(o) \in {InstanceOf(v), InstanceOf(w)}

\* As long as a process lives, sweeps keep beginning: a sweeper that dies or gives up
\* with the key in its name, whose answer is lost or whose release fails delays the
\* others by the lock's TTL and no more.
SweepsGoOn ==
    []<>(\/ \E w \in Sweepers : pc[w] = "range"
         \/ \A i \in Instances : pc[<<i, "run">>] = "dead")

\* A session that a sweep has fetched as expired leaves the active set, although its
\* owner may close it and, the lock having run out, the process's other sweep may work
\* on it too.  Only when its hash expires in the middle may the entry stay.
SweptSessionsClose ==
    \A s \in Sessions :
        (\E w \in Sweepers : s \in expired[w])
            ~> (s \notin active \/ hash[s] = "absent" \/ faults > 0)

-----------------------------------------------------------------------------
(***************************************************************************)
(* What comments and documents say, and the code does not do.              *)
(***************************************************************************)

\* janitor.go: "periodically sweeps for sessions whose TTL has elapsed and closes
\* them, including LiveKit and ingress cleanup".  The hash expires with the same
\* TTL, and GetExpiredSessions skips a session without one.
LapsedSessionsClosed ==
    \A s \in Sessions : s \in lapsed /\ hash[s] = "active" ~> s \notin active

\* livekit.go: deleteRoom "handles cleanup when a session is closed or expires,
\* including deleting the LiveKit room and any associated ingresses".
ClosedSessionHasNoIngress ==
    (\A p \in Processes : pc[p] \in {"idle", "done", "rest"}) =>
        \A r \in Requests : ingress[r] = "live" => hash[cur[r]] # "closed"
=============================================================================
