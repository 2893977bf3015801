--------------------------- MODULE BackendProofs ---------------------------
(***************************************************************************)
(* What the signaling backend guarantees while no call fails, for every    *)
(* number of requests, sessions, users, codes, server processes and        *)
(* overlapping sweeps: the active set agrees with the hashes, every live   *)
(* ingress can be found again, a closed session admits nobody, and a user  *)
(* finds all of his sessions.                                              *)
(***************************************************************************)
EXTENDS JanitorProofs

-----------------------------------------------------------------------------
(***************************************************************************)
(* The inductive invariant of the runs without failures.                   *)
(***************************************************************************)

\* The steps of a request whose session, if it creates one, does not exist yet.
NotYet == {"idle", "pick_code", "check_code", "create"}

\* Created, and if its hash is gone, by its TTL.
Known(s) == pc[s] \notin NotYet /\ (hash[s] = "absent" => s \in lapsed)

\* A session exists only after the step of its creator that makes it, its TTL
\* runs out only when that request is over, only after that its hash can lose its
\* fields, and what is being closed or dropped from the active set is known.  So no
\* hash is ever made a second time.
Births ==
    /\ \A s \in Sessions : hash[s] # "absent" => pc[s] \notin NotYet
    /\ \A s \in Sessions : hash[s] = "partial" => s \in lapsed
    /\ \A s \in lapsed : pc[s] = "done"
    /\ \A p \in Processes : pc[p] \in Closing \cup {"drop"} => Known(cur[p])

\* A session that was closed does not become active again.
Endings ==
    /\ \A p \in Processes : pc[p] \in {"zrem", "drop"} => hash[cur[p]] # "active"
    /\ \A r \in Requests : \A s \in endedBefore[r] : hash[s] # "active" /\ pc[s] \notin NotYet

\* The step a handler is at tells the operation it serves.
Roles ==
    \A r \in Requests :
        /\ pc[r] \in {"pick_code", "check_code", "create"} => req[r].op = "create"
        /\ pc[r] \in {"list", "load_each", "forget"} => req[r].op = "list"
        /\ pc[r] \in {"new_ingress", "rollback", "record"} => req[r].op = "camera"
        /\ pc[r] \in Closing => req[r].op = "close"
        /\ reply[r] = "ok" => pc[r] = "done"

\* What is listed, or read from a list, is known; so only a session whose TTL has
\* run out is about to be forgotten.
Listing ==
    /\ \A u \in Users : \A s \in userSessions[u] : Known(s)
    /\ \A r \in Requests : pc[r] \in {"load_each", "forget"} => \A s \in todo[r] : Known(s)
    /\ \A r \in Requests : pc[r] = "forget" => cur[r] \in lapsed

\* A live session is in the list of its creator.
Listed == \A s \in Sessions \ lapsed : Readable(s) => s \in userSessions[req[s].user]

\* A live ingress is a camera's: under way to its record, or recorded by a join that
\* succeeded unless the record has expired.
Tracking ==
    \A r \in Requests : ingress[r] = "live" =>
        /\ req[r].op = "camera"
        /\ \/ pc[r] \in {"grant_exists", "grant", "rollback", "record"}
           \/ pc[r] = "done" /\ reply[r] = "ok" /\ (r \in ingressIDs[cur[r]] \/ cur[r] \in lapsed)

\* A join that has passed the status check, or succeeded, is for a session that
\* was not closed when it began.
Joining ==
    \A r \in Requests :
        /\ req[r].op \in {"camera", "director"}
        /\ pc[r] \in {"new_ingress", "grant_exists", "grant", "record"} \/ reply[r] = "ok"
        => cur[r] \notin endedBefore[r]

\* ActiveSetAgrees without its condition.
Membership ==
    \A s \in Sessions :
        /\ hash[s] = "active" => s \in active
        /\ hash[s] \in {"closed", "partial"} /\ s \in active =>
              \E p \in Processes : pc[p] = "zrem" /\ cur[p] = s

Undisturbed ==
    Births /\ Endings /\ Roles /\ Listing /\ Listed /\ Tracking /\ Joining /\ Membership

\* What JanitorProofs shows with or without failures.
Base == TypeOK /\ LocalsReady /\ SweepScope

\* The steps in which nothing fails.
Good ==
    \/ \E r \in Requests : (Begin(r) \/ Handle(r)) /\ UNCHANGED janVars
    \/ \E p \in Processes : Close(p) /\ UNCHANGED janVars
    \/ \E w \in Sweepers : Sweep(w)
    \/ \E i \in Instances : Tick(i) \/ Reconnect(i) \/ PingFails(i)
    \/ \E s \in Sessions : Lapse(s)
    \/ LockExpires
    \/ Expire

\* Such a step counts no failure.
LEMMA FaultsKept ==
    ASSUME Good
    PROVE  faults' = faults
<1> USE DEF sigVars
<1>1. ASSUME NEW r \in Requests, NEW u \in Users, BeginCreate(r, u), UNCHANGED janVars
      PROVE  faults' = faults
    BY <1>1 DEF BeginCreate, Arrive
<1>2. ASSUME NEW r \in Requests, NEW op \in DOMAIN FirstCall, NEW u \in Users, NEW c \in Codes,
             BeginByCode(r, op, u, c), UNCHANGED janVars
      PROVE  faults' = faults
    BY <1>2 DEF BeginByCode, Arrive, FirstCall
<1>3. ASSUME NEW r \in Requests, NEW u \in Users, BeginList(r, u), UNCHANGED janVars
      PROVE  faults' = faults
    BY <1>3 DEF BeginList, Arrive
<1>4. ASSUME NEW r \in Requests, NEW c \in Codes, PickCode(r, c), UNCHANGED janVars
      PROVE  faults' = faults
    BY <1>4 DEF PickCode
<1>5. ASSUME NEW r \in Requests, CheckCode(r), UNCHANGED janVars
      PROVE  faults' = faults
    BY <1>5 DEF CheckCode, Reply
<1>6. ASSUME NEW r \in Requests, Create(r), UNCHANGED janVars
      PROVE  faults' = faults
    BY <1>6 DEF Create, CreatePipeline
<1>7. ASSUME NEW r \in Requests, Lookup(r), UNCHANGED janVars
      PROVE  faults' = faults
    BY <1>7 DEF Lookup, Reply
<1>8. ASSUME NEW r \in Requests, Load(r), UNCHANGED janVars
      PROVE  faults' = faults
    BY <1>8 DEF Load, MayProceed, FirstCall, Reply
<1>9. ASSUME NEW r \in Requests, NewIngress(r), UNCHANGED janVars
      PROVE  faults' = faults
    BY <1>9 DEF NewIngress
<1>10. ASSUME NEW r \in Requests, GrantExists(r), UNCHANGED janVars
      PROVE  faults' = faults
    BY <1>10 DEF GrantExists, GrantError, Reply
<1>11. ASSUME NEW r \in Requests, Grant(r), UNCHANGED janVars
      PROVE  faults' = faults
    BY <1>11 DEF Grant, GrantAccess, Reply
<1>12. ASSUME NEW r \in Requests, Rollback(r), UNCHANGED janVars
      PROVE  faults' = faults
    BY <1>12 DEF Rollback, Reply
<1>13. ASSUME NEW r \in Requests, Record(r), UNCHANGED janVars
      PROVE  faults' = faults
    BY <1>13 DEF Record, AddIngressID, Reply
<1>14. ASSUME NEW r \in Requests, List(r), UNCHANGED janVars
      PROVE  faults' = faults
    BY <1>14 DEF List
<1>15. ASSUME NEW r \in Requests, NEW s \in Sessions, LoadEach(r, s), UNCHANGED janVars
      PROVE  faults' = faults
    BY <1>15 DEF LoadEach, Reply
<1>16. ASSUME NEW r \in Requests, Forget(r), UNCHANGED janVars
      PROVE  faults' = faults
    BY <1>16 DEF Forget, ForgetUserSession
<1>17. ASSUME NEW r \in Requests, ListDone(r), UNCHANGED janVars
      PROVE  faults' = faults
    BY <1>17 DEF ListDone, Reply
<1>18. ASSUME NEW p \in Processes, GetIngressIDs(p), UNCHANGED janVars
      PROVE  faults' = faults
    BY <1>18 DEF GetIngressIDs
<1>19. ASSUME NEW p \in Processes, NEW i \in Requests, DeleteIngress(p, i), UNCHANGED janVars
      PROVE  faults' = faults
    BY <1>19 DEF DeleteIngress
<1>20. ASSUME NEW p \in Processes, DeleteRoom(p), UNCHANGED janVars
      PROVE  faults' = faults
    BY <1>20 DEF DeleteRoom
<1>21. ASSUME NEW p \in Processes, StatusExists(p), UNCHANGED janVars
      PROVE  faults' = faults
    BY <1>21 DEF StatusExists, CloseEnds, Reply
<1>22. ASSUME NEW p \in Processes, SetStatus(p), UNCHANGED janVars
      PROVE  faults' = faults
    BY <1>22 DEF SetStatus, SetStatusClosed
<1>23. ASSUME NEW p \in Processes, ZRem(p), UNCHANGED janVars
      PROVE  faults' = faults
    BY <1>23 DEF ZRem, RemoveActive, CloseEnds, Reply
<1>24. ASSUME NEW w \in Sweepers, Lock(w)
      PROVE  faults' = faults
    BY <1>24 DEF Lock
<1>25. ASSUME NEW w \in Sweepers, Range(w)
      PROVE  faults' = faults
    BY <1>25 DEF Range
<1>26. ASSUME NEW w \in Sweepers, NEW s \in Sessions, Fetch(w, s)
      PROVE  faults' = faults
    BY <1>26 DEF Fetch
<1>27. ASSUME NEW w \in Sweepers, Drop(w)
      PROVE  faults' = faults
    BY <1>27 DEF Drop, RemoveActive
<1>28. ASSUME NEW w \in Sweepers, FetchDone(w)
      PROVE  faults' = faults
    BY <1>28 DEF FetchDone
<1>29. ASSUME NEW w \in Sweepers, NEW s \in Sessions, CloseExpired(w, s)
      PROVE  faults' = faults
    BY <1>29 DEF CloseExpired
<1>30. ASSUME NEW w \in Sweepers, SweepDone(w)
      PROVE  faults' = faults
    BY <1>30 DEF SweepDone
<1>31. ASSUME NEW w \in Sweepers, Release(w)
      PROVE  faults' = faults
    BY <1>31 DEF Release
<1>32. ASSUME NEW i \in Instances, Tick(i)
      PROVE  faults' = faults
    BY <1>32 DEF Tick, Sweepers
<1>33. ASSUME NEW i \in Instances, Reconnect(i)
      PROVE  faults' = faults
    BY <1>33 DEF Reconnect, Sweepers
<1>34. ASSUME NEW s \in Sessions, Lapse(s)
      PROVE  faults' = faults
    BY <1>34 DEF Lapse, keys, local
<1>35. ASSUME LockExpires
      PROVE  faults' = faults
    BY <1>35 DEF LockExpires, sigVars, local
<1>36. ASSUME Expire
      PROVE  faults' = faults
    BY <1>36 DEF Expire, Expiry, ExpireHash, ExpireRoomCode, ExpireAccess,
       ExpireIngressIDs, ExpireUserSessions, local
<1>37. ASSUME NEW i \in Instances, PingFails(i)
      PROVE  faults' = faults
    BY <1>37 DEF PingFails, sigVars, local
<1> QED BY <1>1, <1>2, <1>3, <1>4, <1>5, <1>6, <1>7, <1>8, <1>9, <1>10, <1>11,
           <1>12, <1>13, <1>14, <1>15, <1>16, <1>17, <1>18, <1>19, <1>20, <1>21,
           <1>22, <1>23, <1>24, <1>25, <1>26, <1>27, <1>28, <1>29, <1>30, <1>31,
           <1>32, <1>33, <1>34, <1>35, <1>36, <1>37 DEF Good, Begin, Handle, Close,
           Sweep

\* A state without failures is reached by steps without failures.
LEMMA FaultFree ==
    ASSUME TypeOK, Next, faults' = 0
    PROVE  Good /\ faults = 0
<1>1. faults \in Nat
    BY SignalingAssumption DEF TypeOK, SignalingTypeOK
<1>2. ~Fault
    BY <1>1 DEF Fault
<1>3. ASSUME NEW r \in Requests, HandleFault(r) PROVE FALSE
    BY <1>2, <1>3 DEF HandleFault, CallFails, RequestDies, CreateInterrupted, NewIngressLost,
       GrantLost, RecordLost
<1>4. ASSUME NEW p \in Processes, CloseFault(p) PROVE FALSE
    BY <1>2, <1>4 DEF CloseFault, CloseCallFails, SetStatusLost, DeleteIngressFails
<1>5. ASSUME NEW w \in Sweepers, SweepCallFails(w) \/ LockLost(w) \/ ReleaseLost(w) PROVE FALSE
    BY <1>2, <1>5 DEF SweepCallFails, LockLost, ReleaseLost
<1>6. ASSUME NEW i \in Instances, Crash(i) PROVE FALSE
    BY <1>2, <1>6 DEF Crash
<1>7. Good
    BY <1>3, <1>4, <1>5, <1>6 DEF Next, Good, Request, CloseStep
<1>8. faults = 0
    BY <1>7, FaultsKept
<1> QED BY <1>7, <1>8

-----------------------------------------------------------------------------
(***************************************************************************)
(* Where the steps with several outcomes lead.                             *)
(***************************************************************************)

\* Process p moves on to step x; of the replies, only its own may change.
MovesTo(p, x) ==
    /\ pc' = [pc EXCEPT ![p] = x]
    /\ \A q \in Requests \ {p} : reply'[q] = reply[q]

PickCodeOutcome(r, c) ==
    /\ \E x \in {"create", "check_code"} : MovesTo(r, x)
    /\ reply' = reply
    /\ \A p \in Processes \ {r} : cur'[p] = cur[p]
    /\ \A q \in Requests : req'[q].op = req[q].op /\ req'[q].user = req[q].user

LEMMA PickCodeTo ==
    ASSUME TypeOK, NEW r \in Requests, NEW c \in Codes, PickCode(r, c)
    PROVE  PickCodeOutcome(r, c)
<1> USE DEF PickCodeOutcome, MovesTo
<1>1. CASE roomCode[c] = None
    <2>1. /\ pc' = [pc EXCEPT ![r] = "create"] /\ req' = [req EXCEPT ![r].code = c]
          /\ cur' = cur /\ reply' = reply
        BY <1>1 DEF PickCode, Goto
    <2> QED BY <2>1 DEF TypeOK, SignalingTypeOK
<1>2. CASE roomCode[c] # None
    <2>1. /\ pc' = [pc EXCEPT ![r] = "check_code"] /\ req' = req
          /\ cur' = [cur EXCEPT ![r] = roomCode[c]] /\ reply' = reply
        BY <1>2 DEF PickCode, Goto
    <2> QED BY <2>1 DEF TypeOK, SignalingTypeOK
<1> QED BY <1>1, <1>2

CheckCodeOutcome(r) ==
    \E x \in {"pick_code", "done"} :
        MovesTo(r, x) /\ reply'[r] = IF x = "done" THEN "error" ELSE reply[r]

LEMMA CheckCodeTo ==
    ASSUME TypeOK, NEW r \in Requests, CheckCode(r)
    PROVE  CheckCodeOutcome(r)
<1>1. CASE Readable(cur[r]) /\ tries[r] + 1 < MaxRoomAttempts
    BY <1>1 DEF CheckCode, Goto, CheckCodeOutcome, MovesTo
<1>2. CASE ~(Readable(cur[r]) /\ tries[r] + 1 < MaxRoomAttempts)
    BY <1>2 DEF CheckCode, Reply, Goto, CheckCodeOutcome, MovesTo, TypeOK, SignalingTypeOK
<1> QED BY <1>1, <1>2

LookupOutcome(r) ==
    /\ \E x \in {"done", "load"} :
           MovesTo(r, x) /\ reply'[r] = IF x = "done" THEN "error" ELSE reply[r]
    /\ \A p \in Processes \ {r} : cur'[p] = cur[p]

LEMMA LookupTo ==
    ASSUME TypeOK, NEW r \in Requests, Lookup(r)
    PROVE  LookupOutcome(r)
<1>1. CASE roomCode[req[r].code] = None
    BY <1>1 DEF Lookup, Reply, Goto, LookupOutcome, MovesTo, TypeOK, SignalingTypeOK
<1>2. CASE roomCode[req[r].code] # None
    BY <1>2 DEF Lookup, Goto, LookupOutcome, MovesTo, TypeOK, SignalingTypeOK
<1> QED BY <1>1, <1>2

LoadOutcome(r) ==
    \E x \in {"done", "new_ingress", "grant_exists", "get_ingresses"} :
        /\ MovesTo(r, x)
        /\ reply'[r] = IF x = "done" THEN "error" ELSE reply[r]
        /\ x # "done" => Readable(cur[r])
        /\ x \in {"new_ingress", "grant_exists"} => hash[cur[r]] # "closed"
        /\ x = "new_ingress" => req[r].op = "camera"
        /\ x = "grant_exists" => req[r].op = "director"
        /\ x = "get_ingresses" => req[r].op = "close"

LEMMA LoadTo ==
    ASSUME TypeOK, LocalsReady, NEW r \in Requests, Load(r)
    PROVE  LoadOutcome(r)
<1>1. req[r].op \in {"camera", "director", "close"}
    BY DEF Load, LocalsReady
<1>2. CASE MayProceed(r)
    <2>1. MovesTo(r, FirstCall[req[r].op]) /\ reply' = reply
        BY <1>2 DEF Load, Goto, MovesTo
    <2>2. /\ Readable(cur[r])
          /\ req[r].op # "close" => hash[cur[r]] # "closed"
        BY <1>2 DEF MayProceed
    <2>3. FirstCall["camera"] = "new_ingress" /\ FirstCall["director"] = "grant_exists" /\
          FirstCall["close"] = "get_ingresses"
        BY DEF FirstCall
    <2>4. CASE req[r].op = "camera"
        BY <2>1, <2>2, <2>3, <2>4 DEF LoadOutcome
    <2>5. CASE req[r].op = "director"
        BY <2>1, <2>2, <2>3, <2>5 DEF LoadOutcome
    <2>6. CASE req[r].op = "close"
        BY <2>1, <2>2, <2>3, <2>6 DEF LoadOutcome
    <2> QED BY <1>1, <2>4, <2>5, <2>6
<1>3. CASE ~MayProceed(r)
    BY <1>3 DEF Load, Reply, Goto, LoadOutcome, MovesTo, TypeOK, SignalingTypeOK
<1> QED BY <1>2, <1>3

GrantExistsOutcome(r) ==
    \E x \in {"grant", "rollback", "done"} :
        /\ MovesTo(r, x)
        /\ reply'[r] = IF x = "done" THEN "error" ELSE reply[r]
        /\ x = "rollback" => req[r].op = "camera"
        /\ x = "done" => req[r].op # "camera"

LEMMA GrantExistsTo ==
    ASSUME TypeOK, NEW r \in Requests, GrantExists(r)
    PROVE  GrantExistsOutcome(r)
<1>1. CASE Exists(cur[r])
    BY <1>1 DEF GrantExists, Goto, GrantExistsOutcome, MovesTo
<1>2. CASE ~Exists(cur[r]) /\ req[r].op = "camera"
    BY <1>2 DEF GrantExists, GrantError, Goto, GrantExistsOutcome, MovesTo
<1>3. CASE ~Exists(cur[r]) /\ req[r].op # "camera"
    BY <1>3 DEF GrantExists, GrantError, Reply, Goto, GrantExistsOutcome, MovesTo, TypeOK,
       SignalingTypeOK
<1> QED BY <1>1, <1>2, <1>3

GrantOutcome(r) ==
    \E x \in {"record", "done"} :
        /\ MovesTo(r, x)
        /\ reply'[r] = IF x = "done" THEN "ok" ELSE reply[r]
        /\ x = "record" <=> req[r].op = "camera"

LEMMA GrantTo ==
    ASSUME TypeOK, NEW r \in Requests, Grant(r)
    PROVE  GrantOutcome(r)
<1>1. CASE req[r].op = "camera"
    BY <1>1 DEF Grant, Goto, GrantOutcome, MovesTo
<1>2. CASE req[r].op # "camera"
    BY <1>2 DEF Grant, Reply, Goto, GrantOutcome, MovesTo, TypeOK, SignalingTypeOK
<1> QED BY <1>1, <1>2

LoadEachOutcome(r, s) ==
    \E x \in {"load_each", "forget", "done"} :
        /\ MovesTo(r, x)
        /\ reply'[r] = IF x = "done" THEN "error" ELSE reply[r]
        /\ x = "forget" => hash[s] = "absent"

LEMMA LoadEachTo ==
    ASSUME TypeOK, NEW r \in Requests, NEW s \in Sessions, LoadEach(r, s)
    PROVE  LoadEachOutcome(r, s)
<1> USE DEF TypeOK, SignalingTypeOK, LoadEachOutcome, MovesTo, Processes
<1>1. CASE Readable(s)
    <2>1. pc' = pc /\ reply' = reply /\ pc[r] = "load_each"
        BY <1>1 DEF LoadEach, Goto, Reply, Readable, Exists
    <2> QED BY <2>1
<1>2. CASE ~Readable(s) /\ ~Exists(s)
    <2>1. pc' = [pc EXCEPT ![r] = "forget"] /\ reply' = reply
        BY <1>2 DEF LoadEach, Goto
    <2> QED BY <1>2, <2>1 DEF Exists
<1>3. CASE ~Readable(s) /\ Exists(s)
    <2>1. pc' = [pc EXCEPT ![r] = "done"] /\ reply' = [reply EXCEPT ![r] = "error"]
        BY <1>3 DEF LoadEach, Reply, Goto
    <2> QED BY <2>1
<1> QED BY <1>1, <1>2, <1>3

\* How the process that closes a session, a request or a sweep, ends.
CloseEndsOutcome(p, answer) ==
    \E x \in {"done", "next"} :
        /\ MovesTo(p, x)
        /\ x = "done" => p \in Requests /\ reply'[p] = answer
        /\ x = "next" => p \in Sweepers

LEMMA CloseEndsTo ==
    ASSUME TypeOK, NEW p \in Processes, NEW a, CloseEnds(p, a)
    PROVE  CloseEndsOutcome(p, a)
<1>1. CASE p \in Requests
    BY <1>1 DEF CloseEnds, Reply, Goto, CloseEndsOutcome, MovesTo, TypeOK, SignalingTypeOK
<1>2. CASE p \notin Requests
    BY <1>2 DEF CloseEnds, Goto, CloseEndsOutcome, MovesTo, Processes
<1> QED BY <1>1, <1>2

StatusExistsOutcome(p) ==
    \E x \in {"set_status", "done", "next"} :
        /\ MovesTo(p, x)
        /\ x = "set_status" => reply' = reply
        /\ x = "done" => p \in Requests /\ reply'[p] = "error"
        /\ x = "next" => p \in Sweepers

LEMMA StatusExistsTo ==
    ASSUME TypeOK, NEW p \in Processes, StatusExists(p)
    PROVE  StatusExistsOutcome(p)
<1>1. CASE Exists(cur[p])
    BY <1>1 DEF StatusExists, Goto, StatusExistsOutcome, MovesTo
<1>2. CASE ~Exists(cur[p])
    <2>1. CloseEndsOutcome(p, "error")
        BY <1>2, CloseEndsTo DEF StatusExists
    <2> QED BY <2>1 DEF CloseEndsOutcome, StatusExistsOutcome
<1> QED BY <1>1, <1>2

LEMMA ZRemTo ==
    ASSUME TypeOK, NEW p \in Processes, ZRem(p)
    PROVE  CloseEndsOutcome(p, "ok")
BY CloseEndsTo DEF ZRem

LockOutcome(w) == \E x \in {"range", "rest"} : MovesTo(w, x)

LEMMA LockTo ==
    ASSUME NEW w \in Sweepers, Lock(w)
    PROVE  LockOutcome(w)
BY DEF Lock, Goto, LockOutcome, MovesTo

FetchOutcome(w, s) ==
    \E x \in {"fetch", "drop", "release"} : MovesTo(w, x) /\ (x = "drop" => hash[s] = "closed")

LEMMA FetchTo ==
    ASSUME TypeOK, NEW w \in Sweepers, NEW s \in Sessions, Fetch(w, s)
    PROVE  FetchOutcome(w, s)
<1> USE DEF TypeOK, FetchOutcome, MovesTo, Processes
<1>1. reply' = reply /\ pc[w] = "fetch"
    BY DEF Fetch
<1>2. CASE hash[s] = "closed"
    <2>1. pc' = [pc EXCEPT ![w] = "drop"]
        BY <1>2 DEF Fetch, Goto
    <2> QED BY <1>1, <1>2, <2>1
<1>3. CASE hash[s] = "partial"
    <2>1. pc' = [pc EXCEPT ![w] = "release"]
        BY <1>3 DEF Fetch, Goto
    <2> QED BY <1>1, <2>1
<1>4. CASE hash[s] \notin {"closed", "partial"}
    <2>1. pc' = pc
        BY <1>4 DEF Fetch
    <2> QED BY <1>1, <2>1
<1> QED BY <1>2, <1>3, <1>4

\* No session is made twice.
LEMMA BirthsKept ==
    ASSUME Base, Births, Good
    PROVE  Births'
<1> USE ProcessAssumption DEF Base, TypeOK, SignalingTypeOK, StoreTypeOK, LocalsReady, Processes,
           Sessions, Goto, storeVars, keys, Closing, Births, Known, NotYet, SweepScope
<1>1. ASSUME NEW r \in Requests, NEW u \in Users, BeginCreate(r, u), UNCHANGED janVars
      PROVE  Births'
    BY <1>1 DEF BeginCreate, Arrive
<1>2. ASSUME NEW r \in Requests, NEW op \in DOMAIN FirstCall, NEW u \in Users, NEW c \in Codes,
             BeginByCode(r, op, u, c), UNCHANGED janVars
      PROVE  Births'
    BY <1>2 DEF BeginByCode, Arrive, FirstCall
<1>3. ASSUME NEW r \in Requests, NEW u \in Users, BeginList(r, u), UNCHANGED janVars
      PROVE  Births'
    BY <1>3 DEF BeginList, Arrive
<1>4. ASSUME NEW r \in Requests, NEW c \in Codes, PickCode(r, c), UNCHANGED janVars
      PROVE  Births'
    <2>1. PickCodeOutcome(r, c)
        BY <1>4, PickCodeTo
    <2> QED BY <1>4, <2>1 DEF PickCode, PickCodeOutcome, MovesTo
<1>5. ASSUME NEW r \in Requests, CheckCode(r), UNCHANGED janVars
      PROVE  Births'
    <2>1. CheckCodeOutcome(r)
        BY <1>5, CheckCodeTo
    <2> QED BY <1>5, <2>1 DEF CheckCode, CheckCodeOutcome, MovesTo
<1>6. ASSUME NEW r \in Requests, Create(r), UNCHANGED janVars
      PROVE  Births'
    BY <1>6 DEF Create, CreatePipeline
<1>7. ASSUME NEW r \in Requests, Lookup(r), UNCHANGED janVars
      PROVE  Births'
    <2>1. LookupOutcome(r)
        BY <1>7, LookupTo
    <2> QED BY <1>7, <2>1 DEF Lookup, LookupOutcome, MovesTo
<1>8. ASSUME NEW r \in Requests, Load(r), UNCHANGED janVars
      PROVE  Births'
    <2>1. LoadOutcome(r)
        BY <1>8, LoadTo
    <2> QED BY <1>8, <2>1 DEF Load, Readable, LoadOutcome, MovesTo
<1>9. ASSUME NEW r \in Requests, NewIngress(r), UNCHANGED janVars
      PROVE  Births'
    BY <1>9 DEF NewIngress
<1>10. ASSUME NEW r \in Requests, GrantExists(r), UNCHANGED janVars
      PROVE  Births'
    <2>1. GrantExistsOutcome(r)
        BY <1>10, GrantExistsTo
    <2> QED BY <1>10, <2>1 DEF GrantExists, GrantExistsOutcome, MovesTo
<1>11. ASSUME NEW r \in Requests, Grant(r), UNCHANGED janVars
      PROVE  Births'
    <2>1. GrantOutcome(r)
        BY <1>11, GrantTo
    <2> QED BY <1>11, <2>1 DEF Grant, GrantAccess, GrantOutcome, MovesTo
<1>12. ASSUME NEW r \in Requests, Rollback(r), UNCHANGED janVars
      PROVE  Births'
    BY <1>12 DEF Rollback, Reply
<1>13. ASSUME NEW r \in Requests, Record(r), UNCHANGED janVars
      PROVE  Births'
    BY <1>13 DEF Record, AddIngressID, Reply
<1>14. ASSUME NEW r \in Requests, List(r), UNCHANGED janVars
      PROVE  Births'
    BY <1>14 DEF List
<1>15. ASSUME NEW r \in Requests, NEW s \in Sessions, LoadEach(r, s), UNCHANGED janVars
      PROVE  Births'
    <2>1. LoadEachOutcome(r, s)
        BY <1>15, LoadEachTo
    <2> QED BY <1>15, <2>1 DEF LoadEach, LoadEachOutcome, MovesTo
<1>16. ASSUME NEW r \in Requests, Forget(r), UNCHANGED janVars
      PROVE  Births'
    BY <1>16 DEF Forget, ForgetUserSession
<1>17. ASSUME NEW r \in Requests, ListDone(r), UNCHANGED janVars
      PROVE  Births'
    BY <1>17 DEF ListDone, Reply
<1>18. ASSUME NEW p \in Processes, GetIngressIDs(p), UNCHANGED janVars
      PROVE  Births'
    BY <1>18 DEF GetIngressIDs
<1>19. ASSUME NEW p \in Processes, NEW i \in Requests, DeleteIngress(p, i), UNCHANGED janVars
      PROVE  Births'
    BY <1>19 DEF DeleteIngress
<1>20. ASSUME NEW p \in Processes, DeleteRoom(p), UNCHANGED janVars
      PROVE  Births'
    BY <1>20 DEF DeleteRoom
<1>21. ASSUME NEW p \in Processes, StatusExists(p), UNCHANGED janVars
      PROVE  Births'
    <2>1. StatusExistsOutcome(p)
        BY <1>21, StatusExistsTo
    <2> QED BY <1>21, <2>1 DEF StatusExists, StatusExistsOutcome, MovesTo
<1>22. ASSUME NEW p \in Processes, SetStatus(p), UNCHANGED janVars
      PROVE  Births'
    BY <1>22 DEF SetStatus, SetStatusClosed
<1>23. ASSUME NEW p \in Processes, ZRem(p), UNCHANGED janVars
      PROVE  Births'
    <2>1. CloseEndsOutcome(p, "ok")
        BY <1>23, ZRemTo
    <2> QED BY <1>23, <2>1 DEF ZRem, RemoveActive, CloseEndsOutcome, MovesTo
<1>24. ASSUME NEW w \in Sweepers, Lock(w)
      PROVE  Births'
    <2>1. LockOutcome(w)
        BY <1>24, LockTo
    <2> QED BY <1>24, <2>1 DEF Lock, LockOutcome, MovesTo
<1>25. ASSUME NEW w \in Sweepers, Range(w)
      PROVE  Births'
    BY <1>25 DEF Range
<1>26. ASSUME NEW w \in Sweepers, NEW s \in Sessions, Fetch(w, s)
      PROVE  Births'
    <2>1. FetchOutcome(w, s)
        BY <1>26, FetchTo
    <2> QED BY <1>26, <2>1 DEF Fetch, FetchOutcome, MovesTo
<1>27. ASSUME NEW w \in Sweepers, Drop(w)
      PROVE  Births'
    BY <1>27 DEF Drop, RemoveActive
<1>28. ASSUME NEW w \in Sweepers, FetchDone(w)
      PROVE  Births'
    BY <1>28 DEF FetchDone
<1>29. ASSUME NEW w \in Sweepers, NEW s \in Sessions, CloseExpired(w, s)
      PROVE  Births'
    BY <1>29 DEF CloseExpired
<1>30. ASSUME NEW w \in Sweepers, SweepDone(w)
      PROVE  Births'
    BY <1>30 DEF SweepDone
<1>31. ASSUME NEW w \in Sweepers, Release(w)
      PROVE  Births'
    BY <1>31 DEF Release
<1>32. ASSUME NEW i \in Instances, Tick(i)
      PROVE  Births'
    BY <1>32 DEF Tick, Sweepers
<1>33. ASSUME NEW i \in Instances, Reconnect(i)
      PROVE  Births'
    BY <1>33 DEF Reconnect, Sweepers
<1>34. ASSUME NEW s \in Sessions, Lapse(s)
      PROVE  Births'
    BY <1>34 DEF Lapse, keys, local
<1>35. ASSUME LockExpires
      PROVE  Births'
    BY <1>35 DEF LockExpires, sigVars, local
<1>36. ASSUME Expire
      PROVE  Births'
    <2>1. UNCHANGED <<local, ingress, gauge, faults, endedBefore, janVars>> /\ Expiry
        BY <1>36 DEF Expire
    <2>2. ASSUME NEW s \in Sessions, ExpireHash(s) PROVE Births'
        BY <2>1, <2>2 DEF ExpireHash, local
    <2>3. ASSUME NEW s \in Sessions, ExpireAccess(s) PROVE Births'
        BY <2>1, <2>3 DEF ExpireAccess, local
    <2>4. ASSUME NEW s \in Sessions, ExpireIngressIDs(s) PROVE Births'
        BY <2>1, <2>4 DEF ExpireIngressIDs, local
    <2>5. ASSUME NEW c \in Codes, ExpireRoomCode(c) PROVE Births'
        BY <2>1, <2>5 DEF ExpireRoomCode, local
    <2>6. ASSUME NEW u \in Users, ExpireUserSessions(u) PROVE Births'
        BY <2>1, <2>6 DEF ExpireUserSessions, local
    <2> QED BY <2>1, <2>2, <2>3, <2>4, <2>5, <2>6 DEF Expiry
<1>37. ASSUME NEW i \in Instances, PingFails(i)
      PROVE  Births'
    BY <1>37 DEF PingFails, sigVars, local
<1> QED BY <1>1, <1>2, <1>3, <1>4, <1>5, <1>6, <1>7, <1>8, <1>9, <1>10, <1>11,
           <1>12, <1>13, <1>14, <1>15, <1>16, <1>17, <1>18, <1>19, <1>20, <1>21,
           <1>22, <1>23, <1>24, <1>25, <1>26, <1>27, <1>28, <1>29, <1>30, <1>31,
           <1>32, <1>33, <1>34, <1>35, <1>36, <1>37 DEF Good, Begin, Handle, Close,
           Sweep

\* What was closed stays closed.
LEMMA EndingsKept ==
    ASSUME Base, Births, Endings, Good
    PROVE  Endings'
<1> USE ProcessAssumption DEF Base, TypeOK, SignalingTypeOK, StoreTypeOK, LocalsReady, Processes,
           Sessions, Goto, storeVars, keys, Closing, Births, Known, Endings, NotYet
<1>1. ASSUME NEW r \in Requests, NEW u \in Users, BeginCreate(r, u), UNCHANGED janVars
      PROVE  Endings'
    BY <1>1 DEF BeginCreate, Arrive
<1>2. ASSUME NEW r \in Requests, NEW op \in DOMAIN FirstCall, NEW u \in Users, NEW c \in Codes,
             BeginByCode(r, op, u, c), UNCHANGED janVars
      PROVE  Endings'
    BY <1>2 DEF BeginByCode, Arrive, FirstCall
<1>3. ASSUME NEW r \in Requests, NEW u \in Users, BeginList(r, u), UNCHANGED janVars
      PROVE  Endings'
    BY <1>3 DEF BeginList, Arrive
<1>4. ASSUME NEW r \in Requests, NEW c \in Codes, PickCode(r, c), UNCHANGED janVars
      PROVE  Endings'
    <2>1. PickCodeOutcome(r, c)
        BY <1>4, PickCodeTo
    <2> QED BY <1>4, <2>1 DEF PickCode, PickCodeOutcome, MovesTo
<1>5. ASSUME NEW r \in Requests, CheckCode(r), UNCHANGED janVars
      PROVE  Endings'
    <2>1. CheckCodeOutcome(r)
        BY <1>5, CheckCodeTo
    <2> QED BY <1>5, <2>1 DEF CheckCode, CheckCodeOutcome, MovesTo
<1>6. ASSUME NEW r \in Requests, Create(r), UNCHANGED janVars
      PROVE  Endings'
    BY <1>6 DEF Create, CreatePipeline
<1>7. ASSUME NEW r \in Requests, Lookup(r), UNCHANGED janVars
      PROVE  Endings'
    <2>1. LookupOutcome(r)
        BY <1>7, LookupTo
    <2> QED BY <1>7, <2>1 DEF Lookup, LookupOutcome, MovesTo
<1>8. ASSUME NEW r \in Requests, Load(r), UNCHANGED janVars
      PROVE  Endings'
    <2>1. LoadOutcome(r)
        BY <1>8, LoadTo
    <2> QED BY <1>8, <2>1 DEF Load, LoadOutcome, MovesTo
<1>9. ASSUME NEW r \in Requests, NewIngress(r), UNCHANGED janVars
      PROVE  Endings'
    BY <1>9 DEF NewIngress
<1>10. ASSUME NEW r \in Requests, GrantExists(r), UNCHANGED janVars
      PROVE  Endings'
    <2>1. GrantExistsOutcome(r)
        BY <1>10, GrantExistsTo
    <2> QED BY <1>10, <2>1 DEF GrantExists, GrantExistsOutcome, MovesTo
<1>11. ASSUME NEW r \in Requests, Grant(r), UNCHANGED janVars
      PROVE  Endings'
    <2>1. GrantOutcome(r)
        BY <1>11, GrantTo
    <2> QED BY <1>11, <2>1 DEF Grant, GrantAccess, GrantOutcome, MovesTo
<1>12. ASSUME NEW r \in Requests, Rollback(r), UNCHANGED janVars
      PROVE  Endings'
    BY <1>12 DEF Rollback, Reply
<1>13. ASSUME NEW r \in Requests, Record(r), UNCHANGED janVars
      PROVE  Endings'
    BY <1>13 DEF Record, AddIngressID, Reply
<1>14. ASSUME NEW r \in Requests, List(r), UNCHANGED janVars
      PROVE  Endings'
    BY <1>14 DEF List
<1>15. ASSUME NEW r \in Requests, NEW s \in Sessions, LoadEach(r, s), UNCHANGED janVars
      PROVE  Endings'
    <2>1. LoadEachOutcome(r, s)
        BY <1>15, LoadEachTo
    <2> QED BY <1>15, <2>1 DEF LoadEach, LoadEachOutcome, MovesTo
<1>16. ASSUME NEW r \in Requests, Forget(r), UNCHANGED janVars
      PROVE  Endings'
    BY <1>16 DEF Forget, ForgetUserSession
<1>17. ASSUME NEW r \in Requests, ListDone(r), UNCHANGED janVars
      PROVE  Endings'
    BY <1>17 DEF ListDone, Reply
<1>18. ASSUME NEW p \in Processes, GetIngressIDs(p), UNCHANGED janVars
      PROVE  Endings'
    BY <1>18 DEF GetIngressIDs
<1>19. ASSUME NEW p \in Processes, NEW i \in Requests, DeleteIngress(p, i), UNCHANGED janVars
      PROVE  Endings'
    BY <1>19 DEF DeleteIngress
<1>20. ASSUME NEW p \in Processes, DeleteRoom(p), UNCHANGED janVars
      PROVE  Endings'
    BY <1>20 DEF DeleteRoom
<1>21. ASSUME NEW p \in Processes, StatusExists(p), UNCHANGED janVars
      PROVE  Endings'
    <2>1. StatusExistsOutcome(p)
        BY <1>21, StatusExistsTo
    <2> QED BY <1>21, <2>1 DEF StatusExists, StatusExistsOutcome, MovesTo
<1>22. ASSUME NEW p \in Processes, SetStatus(p), UNCHANGED janVars
      PROVE  Endings'
    BY <1>22 DEF SetStatus, SetStatusClosed
<1>23. ASSUME NEW p \in Processes, ZRem(p), UNCHANGED janVars
      PROVE  Endings'
    <2>1. CloseEndsOutcome(p, "ok")
        BY <1>23, ZRemTo
    <2> QED BY <1>23, <2>1 DEF ZRem, RemoveActive, CloseEndsOutcome, MovesTo
<1>24. ASSUME NEW w \in Sweepers, Lock(w)
      PROVE  Endings'
    <2>1. LockOutcome(w)
        BY <1>24, LockTo
    <2> QED BY <1>24, <2>1 DEF Lock, LockOutcome, MovesTo
<1>25. ASSUME NEW w \in Sweepers, Range(w)
      PROVE  Endings'
    BY <1>25 DEF Range
<1>26. ASSUME NEW w \in Sweepers, NEW s \in Sessions, Fetch(w, s)
      PROVE  Endings'
    <2>1. FetchOutcome(w, s)
        BY <1>26, FetchTo
    <2> QED BY <1>26, <2>1 DEF Fetch, FetchOutcome, MovesTo
<1>27. ASSUME NEW w \in Sweepers, Drop(w)
      PROVE  Endings'
    BY <1>27 DEF Drop, RemoveActive
<1>28. ASSUME NEW w \in Sweepers, FetchDone(w)
      PROVE  Endings'
    BY <1>28 DEF FetchDone
<1>29. ASSUME NEW w \in Sweepers, NEW s \in Sessions, CloseExpired(w, s)
      PROVE  Endings'
    BY <1>29 DEF CloseExpired
<1>30. ASSUME NEW w \in Sweepers, SweepDone(w)
      PROVE  Endings'
    BY <1>30 DEF SweepDone
<1>31. ASSUME NEW w \in Sweepers, Release(w)
      PROVE  Endings'
    BY <1>31 DEF Release
<1>32. ASSUME NEW i \in Instances, Tick(i)
      PROVE  Endings'
    BY <1>32 DEF Tick, Sweepers
<1>33. ASSUME NEW i \in Instances, Reconnect(i)
      PROVE  Endings'
    BY <1>33 DEF Reconnect, Sweepers
<1>34. ASSUME NEW s \in Sessions, Lapse(s)
      PROVE  Endings'
    BY <1>34 DEF Lapse, keys, local
<1>35. ASSUME LockExpires
      PROVE  Endings'
    BY <1>35 DEF LockExpires, sigVars, local
<1>36. ASSUME Expire
      PROVE  Endings'
    <2>1. UNCHANGED <<local, ingress, gauge, faults, endedBefore, janVars>> /\ Expiry
        BY <1>36 DEF Expire
    <2>2. ASSUME NEW s \in Sessions, ExpireHash(s) PROVE Endings'
        BY <2>1, <2>2 DEF ExpireHash, local
    <2>3. ASSUME NEW s \in Sessions, ExpireAccess(s) PROVE Endings'
        BY <2>1, <2>3 DEF ExpireAccess, local
    <2>4. ASSUME NEW s \in Sessions, ExpireIngressIDs(s) PROVE Endings'
        BY <2>1, <2>4 DEF ExpireIngressIDs, local
    <2>5. ASSUME NEW c \in Codes, ExpireRoomCode(c) PROVE Endings'
        BY <2>1, <2>5 DEF ExpireRoomCode, local
    <2>6. ASSUME NEW u \in Users, ExpireUserSessions(u) PROVE Endings'
        BY <2>1, <2>6 DEF ExpireUserSessions, local
    <2> QED BY <2>1, <2>2, <2>3, <2>4, <2>5, <2>6 DEF Expiry
<1>37. ASSUME NEW i \in Instances, PingFails(i)
      PROVE  Endings'
    BY <1>37 DEF PingFails, sigVars, local
<1> QED BY <1>1, <1>2, <1>3, <1>4, <1>5, <1>6, <1>7, <1>8, <1>9, <1>10, <1>11,
           <1>12, <1>13, <1>14, <1>15, <1>16, <1>17, <1>18, <1>19, <1>20, <1>21,
           <1>22, <1>23, <1>24, <1>25, <1>26, <1>27, <1>28, <1>29, <1>30, <1>31,
           <1>32, <1>33, <1>34, <1>35, <1>36, <1>37 DEF Good, Begin, Handle, Close,
           Sweep

\* No handler leaves the course of its operation.
LEMMA RolesKept ==
    ASSUME Base, Roles, Good
    PROVE  Roles'
<1> USE ProcessAssumption DEF Base, TypeOK, SignalingTypeOK, StoreTypeOK, LocalsReady, Processes,
           Sessions, Goto, storeVars, keys, Closing, Roles
<1>1. ASSUME NEW r \in Requests, NEW u \in Users, BeginCreate(r, u), UNCHANGED janVars
      PROVE  Roles'
    BY <1>1 DEF BeginCreate, Arrive
<1>2. ASSUME NEW r \in Requests, NEW op \in DOMAIN FirstCall, NEW u \in Users, NEW c \in Codes,
             BeginByCode(r, op, u, c), UNCHANGED janVars
      PROVE  Roles'
    BY <1>2 DEF BeginByCode, Arrive, FirstCall
<1>3. ASSUME NEW r \in Requests, NEW u \in Users, BeginList(r, u), UNCHANGED janVars
      PROVE  Roles'
    BY <1>3 DEF BeginList, Arrive
<1>4. ASSUME NEW r \in Requests, NEW c \in Codes, PickCode(r, c), UNCHANGED janVars
      PROVE  Roles'
    <2>1. PickCodeOutcome(r, c)
        BY <1>4, PickCodeTo
    <2> QED BY <1>4, <2>1 DEF PickCode, PickCodeOutcome, MovesTo
<1>5. ASSUME NEW r \in Requests, CheckCode(r), UNCHANGED janVars
      PROVE  Roles'
    <2>1. CheckCodeOutcome(r)
        BY <1>5, CheckCodeTo
    <2> QED BY <1>5, <2>1 DEF CheckCode, CheckCodeOutcome, MovesTo
<1>6. ASSUME NEW r \in Requests, Create(r), UNCHANGED janVars
      PROVE  Roles'
    BY <1>6 DEF Create, CreatePipeline
<1>7. ASSUME NEW r \in Requests, Lookup(r), UNCHANGED janVars
      PROVE  Roles'
    <2>1. LookupOutcome(r)
        BY <1>7, LookupTo
    <2> QED BY <1>7, <2>1 DEF Lookup, LookupOutcome, MovesTo
<1>8. ASSUME NEW r \in Requests, Load(r), UNCHANGED janVars
      PROVE  Roles'
    <2>1. LoadOutcome(r)
        BY <1>8, LoadTo
    <2> QED BY <1>8, <2>1 DEF Load, LoadOutcome, MovesTo
<1>9. ASSUME NEW r \in Requests, NewIngress(r), UNCHANGED janVars
      PROVE  Roles'
    BY <1>9 DEF NewIngress
<1>10. ASSUME NEW r \in Requests, GrantExists(r), UNCHANGED janVars
      PROVE  Roles'
    <2>1. GrantExistsOutcome(r)
        BY <1>10, GrantExistsTo
    <2> QED BY <1>10, <2>1 DEF GrantExists, GrantExistsOutcome, MovesTo
<1>11. ASSUME NEW r \in Requests, Grant(r), UNCHANGED janVars
      PROVE  Roles'
    <2>1. GrantOutcome(r)
        BY <1>11, GrantTo
    <2> QED BY <1>11, <2>1 DEF Grant, GrantAccess, GrantOutcome, MovesTo
<1>12. ASSUME NEW r \in Requests, Rollback(r), UNCHANGED janVars
      PROVE  Roles'
    BY <1>12 DEF Rollback, Reply
<1>13. ASSUME NEW r \in Requests, Record(r), UNCHANGED janVars
      PROVE  Roles'
    BY <1>13 DEF Record, AddIngressID, Reply
<1>14. ASSUME NEW r \in Requests, List(r), UNCHANGED janVars
      PROVE  Roles'
    BY <1>14 DEF List
<1>15. ASSUME NEW r \in Requests, NEW s \in Sessions, LoadEach(r, s), UNCHANGED janVars
      PROVE  Roles'
    <2>1. LoadEachOutcome(r, s)
        BY <1>15, LoadEachTo
    <2> QED BY <1>15, <2>1 DEF LoadEach, LoadEachOutcome, MovesTo
<1>16. ASSUME NEW r \in Requests, Forget(r), UNCHANGED janVars
      PROVE  Roles'
    BY <1>16 DEF Forget, ForgetUserSession
<1>17. ASSUME NEW r \in Requests, ListDone(r), UNCHANGED janVars
      PROVE  Roles'
    BY <1>17 DEF ListDone, Reply
<1>18. ASSUME NEW p \in Processes, GetIngressIDs(p), UNCHANGED janVars
      PROVE  Roles'
    BY <1>18 DEF GetIngressIDs
<1>19. ASSUME NEW p \in Processes, NEW i \in Requests, DeleteIngress(p, i), UNCHANGED janVars
      PROVE  Roles'
    BY <1>19 DEF DeleteIngress
<1>20. ASSUME NEW p \in Processes, DeleteRoom(p), UNCHANGED janVars
      PROVE  Roles'
    BY <1>20 DEF DeleteRoom
<1>21. ASSUME NEW p \in Processes, StatusExists(p), UNCHANGED janVars
      PROVE  Roles'
    <2>1. StatusExistsOutcome(p)
        BY <1>21, StatusExistsTo
    <2> QED BY <1>21, <2>1 DEF StatusExists, StatusExistsOutcome, MovesTo
<1>22. ASSUME NEW p \in Processes, SetStatus(p), UNCHANGED janVars
      PROVE  Roles'
    BY <1>22 DEF SetStatus, SetStatusClosed
<1>23. ASSUME NEW p \in Processes, ZRem(p), UNCHANGED janVars
      PROVE  Roles'
    <2>1. CloseEndsOutcome(p, "ok")
        BY <1>23, ZRemTo
    <2> QED BY <1>23, <2>1 DEF ZRem, RemoveActive, CloseEndsOutcome, MovesTo
<1>24. ASSUME NEW w \in Sweepers, Lock(w)
      PROVE  Roles'
    <2>1. LockOutcome(w)
        BY <1>24, LockTo
    <2> QED BY <1>24, <2>1 DEF Lock, LockOutcome, MovesTo
<1>25. ASSUME NEW w \in Sweepers, Range(w)
      PROVE  Roles'
    BY <1>25 DEF Range
<1>26. ASSUME NEW w \in Sweepers, NEW s \in Sessions, Fetch(w, s)
      PROVE  Roles'
    <2>1. FetchOutcome(w, s)
        BY <1>26, FetchTo
    <2> QED BY <1>26, <2>1 DEF Fetch, FetchOutcome, MovesTo
<1>27. ASSUME NEW w \in Sweepers, Drop(w)
      PROVE  Roles'
    BY <1>27 DEF Drop, RemoveActive
<1>28. ASSUME NEW w \in Sweepers, FetchDone(w)
      PROVE  Roles'
    BY <1>28 DEF FetchDone
<1>29. ASSUME NEW w \in Sweepers, NEW s \in Sessions, CloseExpired(w, s)
      PROVE  Roles'
    BY <1>29 DEF CloseExpired
<1>30. ASSUME NEW w \in Sweepers, SweepDone(w)
      PROVE  Roles'
    BY <1>30 DEF SweepDone
<1>31. ASSUME NEW w \in Sweepers, Release(w)
      PROVE  Roles'
    BY <1>31 DEF Release
<1>32. ASSUME NEW i \in Instances, Tick(i)
      PROVE  Roles'
    BY <1>32 DEF Tick, Sweepers
<1>33. ASSUME NEW i \in Instances, Reconnect(i)
      PROVE  Roles'
    BY <1>33 DEF Reconnect, Sweepers
<1>34. ASSUME NEW s \in Sessions, Lapse(s)
      PROVE  Roles'
    BY <1>34 DEF Lapse, keys, local
<1>35. ASSUME LockExpires
      PROVE  Roles'
    BY <1>35 DEF LockExpires, sigVars, local
<1>36. ASSUME Expire
      PROVE  Roles'
    BY <1>36 DEF Expire, Expiry, ExpireHash, ExpireRoomCode, ExpireAccess,
       ExpireIngressIDs, ExpireUserSessions, local
<1>37. ASSUME NEW i \in Instances, PingFails(i)
      PROVE  Roles'
    BY <1>37 DEF PingFails, sigVars, local
<1> QED BY <1>1, <1>2, <1>3, <1>4, <1>5, <1>6, <1>7, <1>8, <1>9, <1>10, <1>11,
           <1>12, <1>13, <1>14, <1>15, <1>16, <1>17, <1>18, <1>19, <1>20, <1>21,
           <1>22, <1>23, <1>24, <1>25, <1>26, <1>27, <1>28, <1>29, <1>30, <1>31,
           <1>32, <1>33, <1>34, <1>35, <1>36, <1>37 DEF Good, Begin, Handle, Close,
           Sweep

\* What is in a list stays known.
LEMMA ListingKept ==
    ASSUME Base, Births, Roles, Listing, Good
    PROVE  Listing'
<1> USE ProcessAssumption DEF Base, TypeOK, SignalingTypeOK, StoreTypeOK, LocalsReady, Processes,
           Sessions, Goto, storeVars, keys, Closing, Births, Roles, Listing, Known,
           NotYet
<1>1. ASSUME NEW r \in Requests, NEW u \in Users, BeginCreate(r, u), UNCHANGED janVars
      PROVE  Listing'
    BY <1>1 DEF BeginCreate, Arrive
<1>2. ASSUME NEW r \in Requests, NEW op \in DOMAIN FirstCall, NEW u \in Users, NEW c \in Codes,
             BeginByCode(r, op, u, c), UNCHANGED janVars
      PROVE  Listing'
    BY <1>2 DEF BeginByCode, Arrive, FirstCall
<1>3. ASSUME NEW r \in Requests, NEW u \in Users, BeginList(r, u), UNCHANGED janVars
      PROVE  Listing'
    BY <1>3 DEF BeginList, Arrive
<1>4. ASSUME NEW r \in Requests, NEW c \in Codes, PickCode(r, c), UNCHANGED janVars
      PROVE  Listing'
    <2>1. PickCodeOutcome(r, c)
        BY <1>4, PickCodeTo
    <2> QED BY <1>4, <2>1 DEF PickCode, PickCodeOutcome, MovesTo
<1>5. ASSUME NEW r \in Requests, CheckCode(r), UNCHANGED janVars
      PROVE  Listing'
    <2>1. CheckCodeOutcome(r)
        BY <1>5, CheckCodeTo
    <2> QED BY <1>5, <2>1 DEF CheckCode, CheckCodeOutcome, MovesTo
<1>6. ASSUME NEW r \in Requests, Create(r), UNCHANGED janVars
      PROVE  Listing'
    BY <1>6 DEF Create, CreatePipeline
<1>7. ASSUME NEW r \in Requests, Lookup(r), UNCHANGED janVars
      PROVE  Listing'
    <2>1. LookupOutcome(r)
        BY <1>7, LookupTo
    <2> QED BY <1>7, <2>1 DEF Lookup, LookupOutcome, MovesTo
<1>8. ASSUME NEW r \in Requests, Load(r), UNCHANGED janVars
      PROVE  Listing'
    <2>1. LoadOutcome(r)
        BY <1>8, LoadTo
    <2> QED BY <1>8, <2>1 DEF Load, LoadOutcome, MovesTo
<1>9. ASSUME NEW r \in Requests, NewIngress(r), UNCHANGED janVars
      PROVE  Listing'
    BY <1>9 DEF NewIngress
<1>10. ASSUME NEW r \in Requests, GrantExists(r), UNCHANGED janVars
      PROVE  Listing'
    <2>1. GrantExistsOutcome(r)
        BY <1>10, GrantExistsTo
    <2> QED BY <1>10, <2>1 DEF GrantExists, GrantExistsOutcome, MovesTo
<1>11. ASSUME NEW r \in Requests, Grant(r), UNCHANGED janVars
      PROVE  Listing'
    <2>1. GrantOutcome(r)
        BY <1>11, GrantTo
    <2> QED BY <1>11, <2>1 DEF Grant, GrantAccess, GrantOutcome, MovesTo
<1>12. ASSUME NEW r \in Requests, Rollback(r), UNCHANGED janVars
      PROVE  Listing'
    BY <1>12 DEF Rollback, Reply
<1>13. ASSUME NEW r \in Requests, Record(r), UNCHANGED janVars
      PROVE  Listing'
    BY <1>13 DEF Record, AddIngressID, Reply
<1>14. ASSUME NEW r \in Requests, List(r), UNCHANGED janVars
      PROVE  Listing'
    BY <1>14 DEF List
<1>15. ASSUME NEW r \in Requests, NEW s \in Sessions, LoadEach(r, s), UNCHANGED janVars
      PROVE  Listing'
    <2>1. LoadEachOutcome(r, s)
        BY <1>15, LoadEachTo
    <2> QED BY <1>15, <2>1 DEF LoadEach, LoadEachOutcome, MovesTo
<1>16. ASSUME NEW r \in Requests, Forget(r), UNCHANGED janVars
      PROVE  Listing'
    BY <1>16 DEF Forget, ForgetUserSession
<1>17. ASSUME NEW r \in Requests, ListDone(r), UNCHANGED janVars
      PROVE  Listing'
    BY <1>17 DEF ListDone, Reply
<1>18. ASSUME NEW p \in Processes, GetIngressIDs(p), UNCHANGED janVars
      PROVE  Listing'
    BY <1>18 DEF GetIngressIDs
<1>19. ASSUME NEW p \in Processes, NEW i \in Requests, DeleteIngress(p, i), UNCHANGED janVars
      PROVE  Listing'
    BY <1>19 DEF DeleteIngress
<1>20. ASSUME NEW p \in Processes, DeleteRoom(p), UNCHANGED janVars
      PROVE  Listing'
    BY <1>20 DEF DeleteRoom
<1>21. ASSUME NEW p \in Processes, StatusExists(p), UNCHANGED janVars
      PROVE  Listing'
    <2>1. StatusExistsOutcome(p)
        BY <1>21, StatusExistsTo
    <2> QED BY <1>21, <2>1 DEF StatusExists, StatusExistsOutcome, MovesTo
<1>22. ASSUME NEW p \in Processes, SetStatus(p), UNCHANGED janVars
      PROVE  Listing'
    BY <1>22 DEF SetStatus, SetStatusClosed
<1>23. ASSUME NEW p \in Processes, ZRem(p), UNCHANGED janVars
      PROVE  Listing'
    <2>1. CloseEndsOutcome(p, "ok")
        BY <1>23, ZRemTo
    <2> QED BY <1>23, <2>1 DEF ZRem, RemoveActive, CloseEndsOutcome, MovesTo
<1>24. ASSUME NEW w \in Sweepers, Lock(w)
      PROVE  Listing'
    <2>1. LockOutcome(w)
        BY <1>24, LockTo
    <2> QED BY <1>24, <2>1 DEF Lock, LockOutcome, MovesTo
<1>25. ASSUME NEW w \in Sweepers, Range(w)
      PROVE  Listing'
    BY <1>25 DEF Range
<1>26. ASSUME NEW w \in Sweepers, NEW s \in Sessions, Fetch(w, s)
      PROVE  Listing'
    <2>1. FetchOutcome(w, s)
        BY <1>26, FetchTo
    <2> QED BY <1>26, <2>1 DEF Fetch, FetchOutcome, MovesTo
<1>27. ASSUME NEW w \in Sweepers, Drop(w)
      PROVE  Listing'
    BY <1>27 DEF Drop, RemoveActive
<1>28. ASSUME NEW w \in Sweepers, FetchDone(w)
      PROVE  Listing'
    BY <1>28 DEF FetchDone
<1>29. ASSUME NEW w \in Sweepers, NEW s \in Sessions, CloseExpired(w, s)
      PROVE  Listing'
    BY <1>29 DEF CloseExpired
<1>30. ASSUME NEW w \in Sweepers, SweepDone(w)
      PROVE  Listing'
    BY <1>30 DEF SweepDone
<1>31. ASSUME NEW w \in Sweepers, Release(w)
      PROVE  Listing'
    BY <1>31 DEF Release
<1>32. ASSUME NEW i \in Instances, Tick(i)
      PROVE  Listing'
    BY <1>32 DEF Tick, Sweepers
<1>33. ASSUME NEW i \in Instances, Reconnect(i)
      PROVE  Listing'
    BY <1>33 DEF Reconnect, Sweepers
<1>34. ASSUME NEW s \in Sessions, Lapse(s)
      PROVE  Listing'
    BY <1>34 DEF Lapse, keys, local
<1>35. ASSUME LockExpires
      PROVE  Listing'
    BY <1>35 DEF LockExpires, sigVars, local
<1>36. ASSUME Expire
      PROVE  Listing'
    <2>1. UNCHANGED <<local, ingress, gauge, faults, endedBefore, janVars>> /\ Expiry
        BY <1>36 DEF Expire
    <2>2. ASSUME NEW s \in Sessions, ExpireHash(s) PROVE Listing'
        BY <2>1, <2>2 DEF ExpireHash, local
    <2>3. ASSUME NEW s \in Sessions, ExpireAccess(s) PROVE Listing'
        BY <2>1, <2>3 DEF ExpireAccess, local
    <2>4. ASSUME NEW s \in Sessions, ExpireIngressIDs(s) PROVE Listing'
        BY <2>1, <2>4 DEF ExpireIngressIDs, local
    <2>5. ASSUME NEW c \in Codes, ExpireRoomCode(c) PROVE Listing'
        BY <2>1, <2>5 DEF ExpireRoomCode, local
    <2>6. ASSUME NEW u \in Users, ExpireUserSessions(u) PROVE Listing'
        BY <2>1, <2>6 DEF ExpireUserSessions, local
    <2> QED BY <2>1, <2>2, <2>3, <2>4, <2>5, <2>6 DEF Expiry
<1>37. ASSUME NEW i \in Instances, PingFails(i)
      PROVE  Listing'
    BY <1>37 DEF PingFails, sigVars, local
<1> QED BY <1>1, <1>2, <1>3, <1>4, <1>5, <1>6, <1>7, <1>8, <1>9, <1>10, <1>11,
           <1>12, <1>13, <1>14, <1>15, <1>16, <1>17, <1>18, <1>19, <1>20, <1>21,
           <1>22, <1>23, <1>24, <1>25, <1>26, <1>27, <1>28, <1>29, <1>30, <1>31,
           <1>32, <1>33, <1>34, <1>35, <1>36, <1>37 DEF Good, Begin, Handle, Close,
           Sweep

\* No live session is dropped from its creator's list.
LEMMA ListedKept ==
    ASSUME Base, Births, Roles, Listing, Listed, Good
    PROVE  Listed'
<1> USE ProcessAssumption DEF Base, TypeOK, SignalingTypeOK, StoreTypeOK, LocalsReady, Processes,
           Sessions, Goto, storeVars, keys, Closing, Births, Roles, Listing, Known,
           Listed, Readable, NotYet
<1>1. ASSUME NEW r \in Requests, NEW u \in Users, BeginCreate(r, u), UNCHANGED janVars
      PROVE  Listed'
    BY <1>1 DEF BeginCreate, Arrive
<1>2. ASSUME NEW r \in Requests, NEW op \in DOMAIN FirstCall, NEW u \in Users, NEW c \in Codes,
             BeginByCode(r, op, u, c), UNCHANGED janVars
      PROVE  Listed'
    BY <1>2 DEF BeginByCode, Arrive, FirstCall
<1>3. ASSUME NEW r \in Requests, NEW u \in Users, BeginList(r, u), UNCHANGED janVars
      PROVE  Listed'
    BY <1>3 DEF BeginList, Arrive
<1>4. ASSUME NEW r \in Requests, NEW c \in Codes, PickCode(r, c), UNCHANGED janVars
      PROVE  Listed'
    <2>1. PickCodeOutcome(r, c)
        BY <1>4, PickCodeTo
    <2> QED BY <1>4, <2>1 DEF PickCode, PickCodeOutcome, MovesTo
<1>5. ASSUME NEW r \in Requests, CheckCode(r), UNCHANGED janVars
      PROVE  Listed'
    <2>1. CheckCodeOutcome(r)
        BY <1>5, CheckCodeTo
    <2> QED BY <1>5, <2>1 DEF CheckCode, CheckCodeOutcome, MovesTo
<1>6. ASSUME NEW r \in Requests, Create(r), UNCHANGED janVars
      PROVE  Listed'
    BY <1>6 DEF Create, CreatePipeline
<1>7. ASSUME NEW r \in Requests, Lookup(r), UNCHANGED janVars
      PROVE  Listed'
    <2>1. LookupOutcome(r)
        BY <1>7, LookupTo
    <2> QED BY <1>7, <2>1 DEF Lookup, LookupOutcome, MovesTo
<1>8. ASSUME NEW r \in Requests, Load(r), UNCHANGED janVars
      PROVE  Listed'
    <2>1. LoadOutcome(r)
        BY <1>8, LoadTo
    <2> QED BY <1>8, <2>1 DEF Load, LoadOutcome, MovesTo
<1>9. ASSUME NEW r \in Requests, NewIngress(r), UNCHANGED janVars
      PROVE  Listed'
    BY <1>9 DEF NewIngress
<1>10. ASSUME NEW r \in Requests, GrantExists(r), UNCHANGED janVars
      PROVE  Listed'
    <2>1. GrantExistsOutcome(r)
        BY <1>10, GrantExistsTo
    <2> QED BY <1>10, <2>1 DEF GrantExists, GrantExistsOutcome, MovesTo
<1>11. ASSUME NEW r \in Requests, Grant(r), UNCHANGED janVars
      PROVE  Listed'
    <2>1. GrantOutcome(r)
        BY <1>11, GrantTo
    <2> QED BY <1>11, <2>1 DEF Grant, GrantAccess, GrantOutcome, MovesTo
<1>12. ASSUME NEW r \in Requests, Rollback(r), UNCHANGED janVars
      PROVE  Listed'
    BY <1>12 DEF Rollback, Reply
<1>13. ASSUME NEW r \in Requests, Record(r), UNCHANGED janVars
      PROVE  Listed'
    BY <1>13 DEF Record, AddIngressID, Reply
<1>14. ASSUME NEW r \in Requests, List(r), UNCHANGED janVars
      PROVE  Listed'
    BY <1>14 DEF List
<1>15. ASSUME NEW r \in Requests, NEW s \in Sessions, LoadEach(r, s), UNCHANGED janVars
      PROVE  Listed'
    <2>1. LoadEachOutcome(r, s)
        BY <1>15, LoadEachTo
    <2> QED BY <1>15, <2>1 DEF LoadEach, LoadEachOutcome, MovesTo
<1>16. ASSUME NEW r \in Requests, Forget(r), UNCHANGED janVars
      PROVE  Listed'
    BY <1>16 DEF Forget, ForgetUserSession
<1>17. ASSUME NEW r \in Requests, ListDone(r), UNCHANGED janVars
      PROVE  Listed'
    BY <1>17 DEF ListDone, Reply
<1>18. ASSUME NEW p \in Processes, GetIngressIDs(p), UNCHANGED janVars
      PROVE  Listed'
    BY <1>18 DEF GetIngressIDs
<1>19. ASSUME NEW p \in Processes, NEW i \in Requests, DeleteIngress(p, i), UNCHANGED janVars
      PROVE  Listed'
    BY <1>19 DEF DeleteIngress
<1>20. ASSUME NEW p \in Processes, DeleteRoom(p), UNCHANGED janVars
      PROVE  Listed'
    BY <1>20 DEF DeleteRoom
<1>21. ASSUME NEW p \in Processes, StatusExists(p), UNCHANGED janVars
      PROVE  Listed'
    <2>1. StatusExistsOutcome(p)
        BY <1>21, StatusExistsTo
    <2> QED BY <1>21, <2>1 DEF StatusExists, StatusExistsOutcome, MovesTo
<1>22. ASSUME NEW p \in Processes, SetStatus(p), UNCHANGED janVars
      PROVE  Listed'
    BY <1>22 DEF SetStatus, SetStatusClosed
<1>23. ASSUME NEW p \in Processes, ZRem(p), UNCHANGED janVars
      PROVE  Listed'
    <2>1. CloseEndsOutcome(p, "ok")
        BY <1>23, ZRemTo
    <2> QED BY <1>23, <2>1 DEF ZRem, RemoveActive, CloseEndsOutcome, MovesTo
<1>24. ASSUME NEW w \in Sweepers, Lock(w)
      PROVE  Listed'
    <2>1. LockOutcome(w)
        BY <1>24, LockTo
    <2> QED BY <1>24, <2>1 DEF Lock, LockOutcome, MovesTo
<1>25. ASSUME NEW w \in Sweepers, Range(w)
      PROVE  Listed'
    BY <1>25 DEF Range
<1>26. ASSUME NEW w \in Sweepers, NEW s \in Sessions, Fetch(w, s)
      PROVE  Listed'
    <2>1. FetchOutcome(w, s)
        BY <1>26, FetchTo
    <2> QED BY <1>26, <2>1 DEF Fetch, FetchOutcome, MovesTo
<1>27. ASSUME NEW w \in Sweepers, Drop(w)
      PROVE  Listed'
    BY <1>27 DEF Drop, RemoveActive
<1>28. ASSUME NEW w \in Sweepers, FetchDone(w)
      PROVE  Listed'
    BY <1>28 DEF FetchDone
<1>29. ASSUME NEW w \in Sweepers, NEW s \in Sessions, CloseExpired(w, s)
      PROVE  Listed'
    BY <1>29 DEF CloseExpired
<1>30. ASSUME NEW w \in Sweepers, SweepDone(w)
      PROVE  Listed'
    BY <1>30 DEF SweepDone
<1>31. ASSUME NEW w \in Sweepers, Release(w)
      PROVE  Listed'
    BY <1>31 DEF Release
<1>32. ASSUME NEW i \in Instances, Tick(i)
      PROVE  Listed'
    BY <1>32 DEF Tick, Sweepers
<1>33. ASSUME NEW i \in Instances, Reconnect(i)
      PROVE  Listed'
    BY <1>33 DEF Reconnect, Sweepers
<1>34. ASSUME NEW s \in Sessions, Lapse(s)
      PROVE  Listed'
    BY <1>34 DEF Lapse, keys, local
<1>35. ASSUME LockExpires
      PROVE  Listed'
    BY <1>35 DEF LockExpires, sigVars, local
<1>36. ASSUME Expire
      PROVE  Listed'
    <2>1. UNCHANGED <<local, ingress, gauge, faults, endedBefore, janVars>> /\ Expiry
        BY <1>36 DEF Expire
    <2>2. ASSUME NEW s \in Sessions, ExpireHash(s) PROVE Listed'
        BY <2>1, <2>2 DEF ExpireHash, local
    <2>3. ASSUME NEW s \in Sessions, ExpireAccess(s) PROVE Listed'
        BY <2>1, <2>3 DEF ExpireAccess, local
    <2>4. ASSUME NEW s \in Sessions, ExpireIngressIDs(s) PROVE Listed'
        BY <2>1, <2>4 DEF ExpireIngressIDs, local
    <2>5. ASSUME NEW c \in Codes, ExpireRoomCode(c) PROVE Listed'
        BY <2>1, <2>5 DEF ExpireRoomCode, local
    <2>6. ASSUME NEW u \in Users, ExpireUserSessions(u) PROVE Listed'
        BY <2>1, <2>6 DEF ExpireUserSessions, local
    <2> QED BY <2>1, <2>2, <2>3, <2>4, <2>5, <2>6 DEF Expiry
<1>37. ASSUME NEW i \in Instances, PingFails(i)
      PROVE  Listed'
    BY <1>37 DEF PingFails, sigVars, local
<1> QED BY <1>1, <1>2, <1>3, <1>4, <1>5, <1>6, <1>7, <1>8, <1>9, <1>10, <1>11,
           <1>12, <1>13, <1>14, <1>15, <1>16, <1>17, <1>18, <1>19, <1>20, <1>21,
           <1>22, <1>23, <1>24, <1>25, <1>26, <1>27, <1>28, <1>29, <1>30, <1>31,
           <1>32, <1>33, <1>34, <1>35, <1>36, <1>37 DEF Good, Begin, Handle, Close,
           Sweep

\* No live ingress gets lost.
LEMMA TrackingKept ==
    ASSUME Base, Roles, Tracking, Good
    PROVE  Tracking'
<1> USE ProcessAssumption DEF Base, TypeOK, SignalingTypeOK, StoreTypeOK, LocalsReady, Processes,
           Sessions, Goto, storeVars, keys, Closing, Roles, Tracking
<1>1. ASSUME NEW r \in Requests, NEW u \in Users, BeginCreate(r, u), UNCHANGED janVars
      PROVE  Tracking'
    BY <1>1 DEF BeginCreate, Arrive
<1>2. ASSUME NEW r \in Requests, NEW op \in DOMAIN FirstCall, NEW u \in Users, NEW c \in Codes,
             BeginByCode(r, op, u, c), UNCHANGED janVars
      PROVE  Tracking'
    BY <1>2 DEF BeginByCode, Arrive, FirstCall
<1>3. ASSUME NEW r \in Requests, NEW u \in Users, BeginList(r, u), UNCHANGED janVars
      PROVE  Tracking'
    BY <1>3 DEF BeginList, Arrive
<1>4. ASSUME NEW r \in Requests, NEW c \in Codes, PickCode(r, c), UNCHANGED janVars
      PROVE  Tracking'
    <2>1. PickCodeOutcome(r, c)
        BY <1>4, PickCodeTo
    <2> QED BY <1>4, <2>1 DEF PickCode, PickCodeOutcome, MovesTo
<1>5. ASSUME NEW r \in Requests, CheckCode(r), UNCHANGED janVars
      PROVE  Tracking'
    <2>1. CheckCodeOutcome(r)
        BY <1>5, CheckCodeTo
    <2> QED BY <1>5, <2>1 DEF CheckCode, CheckCodeOutcome, MovesTo
<1>6. ASSUME NEW r \in Requests, Create(r), UNCHANGED janVars
      PROVE  Tracking'
    BY <1>6 DEF Create, CreatePipeline
<1>7. ASSUME NEW r \in Requests, Lookup(r), UNCHANGED janVars
      PROVE  Tracking'
    <2>1. LookupOutcome(r)
        BY <1>7, LookupTo
    <2> QED BY <1>7, <2>1 DEF Lookup, LookupOutcome, MovesTo
<1>8. ASSUME NEW r \in Requests, Load(r), UNCHANGED janVars
      PROVE  Tracking'
    <2>1. LoadOutcome(r)
        BY <1>8, LoadTo
    <2> QED BY <1>8, <2>1 DEF Load, LoadOutcome, MovesTo
<1>9. ASSUME NEW r \in Requests, NewIngress(r), UNCHANGED janVars
      PROVE  Tracking'
    BY <1>9 DEF NewIngress
<1>10. ASSUME NEW r \in Requests, GrantExists(r), UNCHANGED janVars
      PROVE  Tracking'
    <2>1. GrantExistsOutcome(r)
        BY <1>10, GrantExistsTo
    <2> QED BY <1>10, <2>1 DEF GrantExists, GrantExistsOutcome, MovesTo
<1>11. ASSUME NEW r \in Requests, Grant(r), UNCHANGED janVars
      PROVE  Tracking'
    <2>1. GrantOutcome(r)
        BY <1>11, GrantTo
    <2> QED BY <1>11, <2>1 DEF Grant, GrantAccess, GrantOutcome, MovesTo
<1>12. ASSUME NEW r \in Requests, Rollback(r), UNCHANGED janVars
      PROVE  Tracking'
    BY <1>12 DEF Rollback, Reply
<1>13. ASSUME NEW r \in Requests, Record(r), UNCHANGED janVars
      PROVE  Tracking'
    BY <1>13 DEF Record, AddIngressID, Reply
<1>14. ASSUME NEW r \in Requests, List(r), UNCHANGED janVars
      PROVE  Tracking'
    BY <1>14 DEF List
<1>15. ASSUME NEW r \in Requests, NEW s \in Sessions, LoadEach(r, s), UNCHANGED janVars
      PROVE  Tracking'
    <2>1. LoadEachOutcome(r, s)
        BY <1>15, LoadEachTo
    <2> QED BY <1>15, <2>1 DEF LoadEach, LoadEachOutcome, MovesTo
<1>16. ASSUME NEW r \in Requests, Forget(r), UNCHANGED janVars
      PROVE  Tracking'
    BY <1>16 DEF Forget, ForgetUserSession
<1>17. ASSUME NEW r \in Requests, ListDone(r), UNCHANGED janVars
      PROVE  Tracking'
    BY <1>17 DEF ListDone, Reply
<1>18. ASSUME NEW p \in Processes, GetIngressIDs(p), UNCHANGED janVars
      PROVE  Tracking'
    BY <1>18 DEF GetIngressIDs
<1>19. ASSUME NEW p \in Processes, NEW i \in Requests, DeleteIngress(p, i), UNCHANGED janVars
      PROVE  Tracking'
    BY <1>19 DEF DeleteIngress
<1>20. ASSUME NEW p \in Processes, DeleteRoom(p), UNCHANGED janVars
      PROVE  Tracking'
    BY <1>20 DEF DeleteRoom
<1>21. ASSUME NEW p \in Processes, StatusExists(p), UNCHANGED janVars
      PROVE  Tracking'
    <2>1. StatusExistsOutcome(p)
        BY <1>21, StatusExistsTo
    <2> QED BY <1>21, <2>1 DEF StatusExists, StatusExistsOutcome, MovesTo
<1>22. ASSUME NEW p \in Processes, SetStatus(p), UNCHANGED janVars
      PROVE  Tracking'
    BY <1>22 DEF SetStatus, SetStatusClosed
<1>23. ASSUME NEW p \in Processes, ZRem(p), UNCHANGED janVars
      PROVE  Tracking'
    <2>1. CloseEndsOutcome(p, "ok")
        BY <1>23, ZRemTo
    <2> QED BY <1>23, <2>1 DEF ZRem, RemoveActive, CloseEndsOutcome, MovesTo
<1>24. ASSUME NEW w \in Sweepers, Lock(w)
      PROVE  Tracking'
    <2>1. LockOutcome(w)
        BY <1>24, LockTo
    <2> QED BY <1>24, <2>1 DEF Lock, LockOutcome, MovesTo
<1>25. ASSUME NEW w \in Sweepers, Range(w)
      PROVE  Tracking'
    BY <1>25 DEF Range
<1>26. ASSUME NEW w \in Sweepers, NEW s \in Sessions, Fetch(w, s)
      PROVE  Tracking'
    <2>1. FetchOutcome(w, s)
        BY <1>26, FetchTo
    <2> QED BY <1>26, <2>1 DEF Fetch, FetchOutcome, MovesTo
<1>27. ASSUME NEW w \in Sweepers, Drop(w)
      PROVE  Tracking'
    BY <1>27 DEF Drop, RemoveActive
<1>28. ASSUME NEW w \in Sweepers, FetchDone(w)
      PROVE  Tracking'
    BY <1>28 DEF FetchDone
<1>29. ASSUME NEW w \in Sweepers, NEW s \in Sessions, CloseExpired(w, s)
      PROVE  Tracking'
    BY <1>29 DEF CloseExpired
<1>30. ASSUME NEW w \in Sweepers, SweepDone(w)
      PROVE  Tracking'
    BY <1>30 DEF SweepDone
<1>31. ASSUME NEW w \in Sweepers, Release(w)
      PROVE  Tracking'
    BY <1>31 DEF Release
<1>32. ASSUME NEW i \in Instances, Tick(i)
      PROVE  Tracking'
    BY <1>32 DEF Tick, Sweepers
<1>33. ASSUME NEW i \in Instances, Reconnect(i)
      PROVE  Tracking'
    BY <1>33 DEF Reconnect, Sweepers
<1>34. ASSUME NEW s \in Sessions, Lapse(s)
      PROVE  Tracking'
    BY <1>34 DEF Lapse, keys, local
<1>35. ASSUME LockExpires
      PROVE  Tracking'
    BY <1>35 DEF LockExpires, sigVars, local
<1>36. ASSUME Expire
      PROVE  Tracking'
    <2>1. UNCHANGED <<local, ingress, gauge, faults, endedBefore, janVars>> /\ Expiry
        BY <1>36 DEF Expire
    <2>2. ASSUME NEW s \in Sessions, ExpireHash(s) PROVE Tracking'
        BY <2>1, <2>2 DEF ExpireHash, local
    <2>3. ASSUME NEW s \in Sessions, ExpireAccess(s) PROVE Tracking'
        BY <2>1, <2>3 DEF ExpireAccess, local
    <2>4. ASSUME NEW s \in Sessions, ExpireIngressIDs(s) PROVE Tracking'
        BY <2>1, <2>4 DEF ExpireIngressIDs, local
    <2>5. ASSUME NEW c \in Codes, ExpireRoomCode(c) PROVE Tracking'
        BY <2>1, <2>5 DEF ExpireRoomCode, local
    <2>6. ASSUME NEW u \in Users, ExpireUserSessions(u) PROVE Tracking'
        BY <2>1, <2>6 DEF ExpireUserSessions, local
    <2> QED BY <2>1, <2>2, <2>3, <2>4, <2>5, <2>6 DEF Expiry
<1>37. ASSUME NEW i \in Instances, PingFails(i)
      PROVE  Tracking'
    BY <1>37 DEF PingFails, sigVars, local
<1> QED BY <1>1, <1>2, <1>3, <1>4, <1>5, <1>6, <1>7, <1>8, <1>9, <1>10, <1>11,
           <1>12, <1>13, <1>14, <1>15, <1>16, <1>17, <1>18, <1>19, <1>20, <1>21,
           <1>22, <1>23, <1>24, <1>25, <1>26, <1>27, <1>28, <1>29, <1>30, <1>31,
           <1>32, <1>33, <1>34, <1>35, <1>36, <1>37 DEF Good, Begin, Handle, Close,
           Sweep

\* No join for a session closed before it passes the status check.
LEMMA JoiningKept ==
    ASSUME Base, Endings, Roles, Joining, Good
    PROVE  Joining'
<1> USE ProcessAssumption DEF Base, TypeOK, SignalingTypeOK, StoreTypeOK, LocalsReady, Processes,
           Sessions, Goto, storeVars, keys, Closing, Endings, Roles, Joining
<1>1. ASSUME NEW r \in Requests, NEW u \in Users, BeginCreate(r, u), UNCHANGED janVars
      PROVE  Joining'
    BY <1>1 DEF BeginCreate, Arrive
<1>2. ASSUME NEW r \in Requests, NEW op \in DOMAIN FirstCall, NEW u \in Users, NEW c \in Codes,
             BeginByCode(r, op, u, c), UNCHANGED janVars
      PROVE  Joining'
    BY <1>2 DEF BeginByCode, Arrive, FirstCall
<1>3. ASSUME NEW r \in Requests, NEW u \in Users, BeginList(r, u), UNCHANGED janVars
      PROVE  Joining'
    BY <1>3 DEF BeginList, Arrive
<1>4. ASSUME NEW r \in Requests, NEW c \in Codes, PickCode(r, c), UNCHANGED janVars
      PROVE  Joining'
    <2>1. PickCodeOutcome(r, c)
        BY <1>4, PickCodeTo
    <2> QED BY <1>4, <2>1 DEF PickCode, PickCodeOutcome, MovesTo
<1>5. ASSUME NEW r \in Requests, CheckCode(r), UNCHANGED janVars
      PROVE  Joining'
    <2>1. CheckCodeOutcome(r)
        BY <1>5, CheckCodeTo
    <2> QED BY <1>5, <2>1 DEF CheckCode, CheckCodeOutcome, MovesTo
<1>6. ASSUME NEW r \in Requests, Create(r), UNCHANGED janVars
      PROVE  Joining'
    BY <1>6 DEF Create, CreatePipeline
<1>7. ASSUME NEW r \in Requests, Lookup(r), UNCHANGED janVars
      PROVE  Joining'
    <2>1. LookupOutcome(r)
        BY <1>7, LookupTo
    <2> QED BY <1>7, <2>1 DEF Lookup, LookupOutcome, MovesTo
<1>8. ASSUME NEW r \in Requests, Load(r), UNCHANGED janVars
      PROVE  Joining'
    <2>1. LoadOutcome(r)
        BY <1>8, LoadTo
    <2> QED BY <1>8, <2>1 DEF Load, Readable, LoadOutcome, MovesTo
<1>9. ASSUME NEW r \in Requests, NewIngress(r), UNCHANGED janVars
      PROVE  Joining'
    BY <1>9 DEF NewIngress
<1>10. ASSUME NEW r \in Requests, GrantExists(r), UNCHANGED janVars
      PROVE  Joining'
    <2>1. GrantExistsOutcome(r)
        BY <1>10, GrantExistsTo
    <2> QED BY <1>10, <2>1 DEF GrantExists, GrantExistsOutcome, MovesTo
<1>11. ASSUME NEW r \in Requests, Grant(r), UNCHANGED janVars
      PROVE  Joining'
    <2>1. GrantOutcome(r)
        BY <1>11, GrantTo
    <2> QED BY <1>11, <2>1 DEF Grant, GrantAccess, GrantOutcome, MovesTo
<1>12. ASSUME NEW r \in Requests, Rollback(r), UNCHANGED janVars
      PROVE  Joining'
    BY <1>12 DEF Rollback, Reply
<1>13. ASSUME NEW r \in Requests, Record(r), UNCHANGED janVars
      PROVE  Joining'
    BY <1>13 DEF Record, AddIngressID, Reply
<1>14. ASSUME NEW r \in Requests, List(r), UNCHANGED janVars
      PROVE  Joining'
    BY <1>14 DEF List
<1>15. ASSUME NEW r \in Requests, NEW s \in Sessions, LoadEach(r, s), UNCHANGED janVars
      PROVE  Joining'
    <2>1. LoadEachOutcome(r, s)
        BY <1>15, LoadEachTo
    <2> QED BY <1>15, <2>1 DEF LoadEach, LoadEachOutcome, MovesTo
<1>16. ASSUME NEW r \in Requests, Forget(r), UNCHANGED janVars
      PROVE  Joining'
    BY <1>16 DEF Forget, ForgetUserSession
<1>17. ASSUME NEW r \in Requests, ListDone(r), UNCHANGED janVars
      PROVE  Joining'
    BY <1>17 DEF ListDone, Reply
<1>18. ASSUME NEW p \in Processes, GetIngressIDs(p), UNCHANGED janVars
      PROVE  Joining'
    BY <1>18 DEF GetIngressIDs
<1>19. ASSUME NEW p \in Processes, NEW i \in Requests, DeleteIngress(p, i), UNCHANGED janVars
      PROVE  Joining'
    BY <1>19 DEF DeleteIngress
<1>20. ASSUME NEW p \in Processes, DeleteRoom(p), UNCHANGED janVars
      PROVE  Joining'
    BY <1>20 DEF DeleteRoom
<1>21. ASSUME NEW p \in Processes, StatusExists(p), UNCHANGED janVars
      PROVE  Joining'
    <2>1. StatusExistsOutcome(p)
        BY <1>21, StatusExistsTo
    <2> QED BY <1>21, <2>1 DEF StatusExists, StatusExistsOutcome, MovesTo
<1>22. ASSUME NEW p \in Processes, SetStatus(p), UNCHANGED janVars
      PROVE  Joining'
    BY <1>22 DEF SetStatus, SetStatusClosed
<1>23. ASSUME NEW p \in Processes, ZRem(p), UNCHANGED janVars
      PROVE  Joining'
    <2>1. CloseEndsOutcome(p, "ok")
        BY <1>23, ZRemTo
    <2> QED BY <1>23, <2>1 DEF ZRem, RemoveActive, CloseEndsOutcome, MovesTo
<1>24. ASSUME NEW w \in Sweepers, Lock(w)
      PROVE  Joining'
    <2>1. LockOutcome(w)
        BY <1>24, LockTo
    <2> QED BY <1>24, <2>1 DEF Lock, LockOutcome, MovesTo
<1>25. ASSUME NEW w \in Sweepers, Range(w)
      PROVE  Joining'
    BY <1>25 DEF Range
<1>26. ASSUME NEW w \in Sweepers, NEW s \in Sessions, Fetch(w, s)
      PROVE  Joining'
    <2>1. FetchOutcome(w, s)
        BY <1>26, FetchTo
    <2> QED BY <1>26, <2>1 DEF Fetch, FetchOutcome, MovesTo
<1>27. ASSUME NEW w \in Sweepers, Drop(w)
      PROVE  Joining'
    BY <1>27 DEF Drop, RemoveActive
<1>28. ASSUME NEW w \in Sweepers, FetchDone(w)
      PROVE  Joining'
    BY <1>28 DEF FetchDone
<1>29. ASSUME NEW w \in Sweepers, NEW s \in Sessions, CloseExpired(w, s)
      PROVE  Joining'
    BY <1>29 DEF CloseExpired
<1>30. ASSUME NEW w \in Sweepers, SweepDone(w)
      PROVE  Joining'
    BY <1>30 DEF SweepDone
<1>31. ASSUME NEW w \in Sweepers, Release(w)
      PROVE  Joining'
    BY <1>31 DEF Release
<1>32. ASSUME NEW i \in Instances, Tick(i)
      PROVE  Joining'
    BY <1>32 DEF Tick, Sweepers
<1>33. ASSUME NEW i \in Instances, Reconnect(i)
      PROVE  Joining'
    BY <1>33 DEF Reconnect, Sweepers
<1>34. ASSUME NEW s \in Sessions, Lapse(s)
      PROVE  Joining'
    BY <1>34 DEF Lapse, keys, local
<1>35. ASSUME LockExpires
      PROVE  Joining'
    BY <1>35 DEF LockExpires, sigVars, local
<1>36. ASSUME Expire
      PROVE  Joining'
    <2>1. UNCHANGED <<local, ingress, gauge, faults, endedBefore, janVars>> /\ Expiry
        BY <1>36 DEF Expire
    <2>2. ASSUME NEW s \in Sessions, ExpireHash(s) PROVE Joining'
        BY <2>1, <2>2 DEF ExpireHash, local
    <2>3. ASSUME NEW s \in Sessions, ExpireAccess(s) PROVE Joining'
        BY <2>1, <2>3 DEF ExpireAccess, local
    <2>4. ASSUME NEW s \in Sessions, ExpireIngressIDs(s) PROVE Joining'
        BY <2>1, <2>4 DEF ExpireIngressIDs, local
    <2>5. ASSUME NEW c \in Codes, ExpireRoomCode(c) PROVE Joining'
        BY <2>1, <2>5 DEF ExpireRoomCode, local
    <2>6. ASSUME NEW u \in Users, ExpireUserSessions(u) PROVE Joining'
        BY <2>1, <2>6 DEF ExpireUserSessions, local
    <2> QED BY <2>1, <2>2, <2>3, <2>4, <2>5, <2>6 DEF Expiry
<1>37. ASSUME NEW i \in Instances, PingFails(i)
      PROVE  Joining'
    BY <1>37 DEF PingFails, sigVars, local
<1> QED BY <1>1, <1>2, <1>3, <1>4, <1>5, <1>6, <1>7, <1>8, <1>9, <1>10, <1>11,
           <1>12, <1>13, <1>14, <1>15, <1>16, <1>17, <1>18, <1>19, <1>20, <1>21,
           <1>22, <1>23, <1>24, <1>25, <1>26, <1>27, <1>28, <1>29, <1>30, <1>31,
           <1>32, <1>33, <1>34, <1>35, <1>36, <1>37 DEF Good, Begin, Handle, Close,
           Sweep

\* A step that at most adds active sessions and leaves the processes at their ZREM alone.
Carried ==
    /\ \A s \in Sessions :
          \/ hash'[s] = hash[s] /\ (s \in active' <=> s \in active)
          \/ hash'[s] = "active" /\ s \in active'
    /\ \A p \in Processes : pc[p] = "zrem" => pc'[p] = "zrem" /\ cur'[p] = cur[p]

LEMMA Untouched ==
    ASSUME Membership, Carried
    PROVE  Membership'
BY DEF Membership, Carried

\* The active set and the hashes keep agreeing.
LEMMA MembershipKept ==
    ASSUME Base, Endings, Membership, Good
    PROVE  Membership'
<1> USE ProcessAssumption DEF Base, TypeOK, SignalingTypeOK, StoreTypeOK, LocalsReady, Processes,
           Sessions, Goto, storeVars, keys, Closing, Endings, Membership
<1>1. ASSUME NEW r \in Requests, NEW u \in Users, BeginCreate(r, u), UNCHANGED janVars
      PROVE  Membership'
    BY <1>1 DEF BeginCreate, Arrive
<1>2. ASSUME NEW r \in Requests, NEW op \in DOMAIN FirstCall, NEW u \in Users, NEW c \in Codes,
             BeginByCode(r, op, u, c), UNCHANGED janVars
      PROVE  Membership'
    BY <1>2 DEF BeginByCode, Arrive, FirstCall
<1>3. ASSUME NEW r \in Requests, NEW u \in Users, BeginList(r, u), UNCHANGED janVars
      PROVE  Membership'
    BY <1>3 DEF BeginList, Arrive
<1>4. ASSUME NEW r \in Requests, NEW c \in Codes, PickCode(r, c), UNCHANGED janVars
      PROVE  Membership'
    <2>1. PickCodeOutcome(r, c)
        BY <1>4, PickCodeTo
    <2>2. \A p \in Processes : pc[p] = "zrem" => pc'[p] = "zrem" /\ cur'[p] = cur[p]
        BY <1>4, <2>1 DEF PickCode, PickCodeOutcome, MovesTo
    <2>3. hash' = hash /\ active' = active
        BY <1>4 DEF PickCode
    <2>4. Carried
        BY <2>2, <2>3 DEF Carried
    <2> HIDE DEF Membership
    <2> QED BY <2>4, Untouched
<1>5. ASSUME NEW r \in Requests, CheckCode(r), UNCHANGED janVars
      PROVE  Membership'
    <2>1. CheckCodeOutcome(r)
        BY <1>5, CheckCodeTo
    <2> QED BY <1>5, <2>1 DEF CheckCode, CheckCodeOutcome, MovesTo
<1>6. ASSUME NEW r \in Requests, Create(r), UNCHANGED janVars
      PROVE  Membership'
    <2>1. /\ pc[r] = "create" /\ pc' = [pc EXCEPT ![r] = "grant_exists"] /\ cur' = cur
          /\ hash' = [hash EXCEPT ![r] = "active"] /\ active' = active \cup {r}
        BY <1>6 DEF Create, CreatePipeline
    <2>2. hash'[r] = "active" /\ r \in active'
        BY <2>1
    <2>3. \A s \in Sessions \ {r} : hash'[s] = hash[s] /\ (s \in active' <=> s \in active)
        BY <2>1
    <2>4. \A p \in Processes : pc[p] = "zrem" => pc'[p] = "zrem" /\ cur'[p] = cur[p]
        BY <2>1
    <2>5. Carried
        BY <2>2, <2>3, <2>4 DEF Carried
    <2> HIDE DEF Membership
    <2> QED BY <2>5, Untouched
<1>7. ASSUME NEW r \in Requests, Lookup(r), UNCHANGED janVars
      PROVE  Membership'
    <2>1. LookupOutcome(r)
        BY <1>7, LookupTo
    <2>2. \A p \in Processes : pc[p] = "zrem" => pc'[p] = "zrem" /\ cur'[p] = cur[p]
        BY <1>7, <2>1 DEF Lookup, LookupOutcome, MovesTo
    <2>3. hash' = hash /\ active' = active
        BY <1>7 DEF Lookup
    <2>4. Carried
        BY <2>2, <2>3 DEF Carried
    <2> HIDE DEF Membership
    <2> QED BY <2>4, Untouched
<1>8. ASSUME NEW r \in Requests, Load(r), UNCHANGED janVars
      PROVE  Membership'
    <2>1. LoadOutcome(r)
        BY <1>8, LoadTo
    <2> QED BY <1>8, <2>1 DEF Load, LoadOutcome, MovesTo
<1>9. ASSUME NEW r \in Requests, NewIngress(r), UNCHANGED janVars
      PROVE  Membership'
    BY <1>9 DEF NewIngress
<1>10. ASSUME NEW r \in Requests, GrantExists(r), UNCHANGED janVars
      PROVE  Membership'
    <2>1. GrantExistsOutcome(r)
        BY <1>10, GrantExistsTo
    <2> QED BY <1>10, <2>1 DEF GrantExists, GrantExistsOutcome, MovesTo
<1>11. ASSUME NEW r \in Requests, Grant(r), UNCHANGED janVars
      PROVE  Membership'
    <2>1. GrantOutcome(r)
        BY <1>11, GrantTo
    <2> QED BY <1>11, <2>1 DEF Grant, GrantAccess, GrantOutcome, MovesTo
<1>12. ASSUME NEW r \in Requests, Rollback(r), UNCHANGED janVars
      PROVE  Membership'
    BY <1>12 DEF Rollback, Reply
<1>13. ASSUME NEW r \in Requests, Record(r), UNCHANGED janVars
      PROVE  Membership'
    BY <1>13 DEF Record, AddIngressID, Reply
<1>14. ASSUME NEW r \in Requests, List(r), UNCHANGED janVars
      PROVE  Membership'
    BY <1>14 DEF List
<1>15. ASSUME NEW r \in Requests, NEW s \in Sessions, LoadEach(r, s), UNCHANGED janVars
      PROVE  Membership'
    <2>1. LoadEachOutcome(r, s)
        BY <1>15, LoadEachTo
    <2> QED BY <1>15, <2>1 DEF LoadEach, LoadEachOutcome, MovesTo
<1>16. ASSUME NEW r \in Requests, Forget(r), UNCHANGED janVars
      PROVE  Membership'
    BY <1>16 DEF Forget, ForgetUserSession
<1>17. ASSUME NEW r \in Requests, ListDone(r), UNCHANGED janVars
      PROVE  Membership'
    BY <1>17 DEF ListDone, Reply
<1>18. ASSUME NEW p \in Processes, GetIngressIDs(p), UNCHANGED janVars
      PROVE  Membership'
    BY <1>18 DEF GetIngressIDs
<1>19. ASSUME NEW p \in Processes, NEW i \in Requests, DeleteIngress(p, i), UNCHANGED janVars
      PROVE  Membership'
    BY <1>19 DEF DeleteIngress
<1>20. ASSUME NEW p \in Processes, DeleteRoom(p), UNCHANGED janVars
      PROVE  Membership'
    BY <1>20 DEF DeleteRoom
<1>21. ASSUME NEW p \in Processes, StatusExists(p), UNCHANGED janVars
      PROVE  Membership'
    <2>1. StatusExistsOutcome(p)
        BY <1>21, StatusExistsTo
    <2> QED BY <1>21, <2>1 DEF StatusExists, StatusExistsOutcome, MovesTo
<1>22. ASSUME NEW p \in Processes, SetStatus(p), UNCHANGED janVars
      PROVE  Membership'
    <2>1. /\ pc[p] = "set_status" /\ pc' = [pc EXCEPT ![p] = "zrem"]
          /\ cur' = cur /\ active' = active /\ cur[p] \in Sessions
          /\ hash' = [hash EXCEPT ![cur[p]] =
                         IF @ \in {"active", "closed"} THEN "closed" ELSE "partial"]
        BY <1>22 DEF SetStatus, SetStatusClosed
    <2>2. pc'[p] = "zrem" /\ cur'[p] = cur[p] /\ hash'[cur[p]] # "active"
        BY <2>1
    <2>3. \A q \in Processes : pc[q] = "zrem" => pc'[q] = "zrem"
        BY <2>1
    <2>4. \A s \in Sessions \ {cur[p]} : hash'[s] = hash[s]
        BY <2>1
    <2> QED BY <2>1, <2>2, <2>3, <2>4
<1>23. ASSUME NEW p \in Processes, ZRem(p), UNCHANGED janVars
      PROVE  Membership'
    <2>1. CloseEndsOutcome(p, "ok")
        BY <1>23, ZRemTo
    <2> QED BY <1>23, <2>1 DEF ZRem, RemoveActive, CloseEndsOutcome, MovesTo
<1>24. ASSUME NEW w \in Sweepers, Lock(w)
      PROVE  Membership'
    <2>1. LockOutcome(w)
        BY <1>24, LockTo
    <2> QED BY <1>24, <2>1 DEF Lock, LockOutcome, MovesTo
<1>25. ASSUME NEW w \in Sweepers, Range(w)
      PROVE  Membership'
    BY <1>25 DEF Range
<1>26. ASSUME NEW w \in Sweepers, NEW s \in Sessions, Fetch(w, s)
      PROVE  Membership'
    <2>1. FetchOutcome(w, s)
        BY <1>26, FetchTo
    <2> QED BY <1>26, <2>1 DEF Fetch, FetchOutcome, MovesTo
<1>27. ASSUME NEW w \in Sweepers, Drop(w)
      PROVE  Membership'
    BY <1>27 DEF Drop, RemoveActive
<1>28. ASSUME NEW w \in Sweepers, FetchDone(w)
      PROVE  Membership'
    BY <1>28 DEF FetchDone
<1>29. ASSUME NEW w \in Sweepers, NEW s \in Sessions, CloseExpired(w, s)
      PROVE  Membership'
    BY <1>29 DEF CloseExpired
<1>30. ASSUME NEW w \in Sweepers, SweepDone(w)
      PROVE  Membership'
    BY <1>30 DEF SweepDone
<1>31. ASSUME NEW w \in Sweepers, Release(w)
      PROVE  Membership'
    BY <1>31 DEF Release
<1>32. ASSUME NEW i \in Instances, Tick(i)
      PROVE  Membership'
    <2>1. <<i, "run">> \in Processes
        BY DEF Sweepers
    <2>2. \A p \in Processes : pc[p] = "zrem" => pc'[p] = "zrem" /\ cur'[p] = cur[p]
        BY <1>32, <2>1 DEF Tick
    <2>3. hash' = hash /\ active' = active
        BY <1>32 DEF Tick
    <2>4. Carried
        BY <2>2, <2>3 DEF Carried
    <2> HIDE DEF Membership
    <2> QED BY <2>4, Untouched
<1>33. ASSUME NEW i \in Instances, Reconnect(i)
      PROVE  Membership'
    <2>1. <<i, "watch">> \in Processes
        BY DEF Sweepers
    <2>2. \A p \in Processes : pc[p] = "zrem" => pc'[p] = "zrem" /\ cur'[p] = cur[p]
        BY <1>33, <2>1 DEF Reconnect
    <2>3. hash' = hash /\ active' = active
        BY <1>33 DEF Reconnect
    <2>4. Carried
        BY <2>2, <2>3 DEF Carried
    <2> HIDE DEF Membership
    <2> QED BY <2>4, Untouched
<1>34. ASSUME NEW s \in Sessions, Lapse(s)
      PROVE  Membership'
    BY <1>34 DEF Lapse, keys, local
<1>35. ASSUME LockExpires
      PROVE  Membership'
    BY <1>35 DEF LockExpires, sigVars, local
<1>36. ASSUME Expire
      PROVE  Membership'
    BY <1>36 DEF Expire, Expiry, ExpireHash, ExpireRoomCode, ExpireAccess,
       ExpireIngressIDs, ExpireUserSessions, local
<1>37. ASSUME NEW i \in Instances, PingFails(i)
      PROVE  Membership'
    BY <1>37 DEF PingFails, sigVars, local
<1> QED BY <1>1, <1>2, <1>3, <1>4, <1>5, <1>6, <1>7, <1>8, <1>9, <1>10, <1>11,
           <1>12, <1>13, <1>14, <1>15, <1>16, <1>17, <1>18, <1>19, <1>20, <1>21,
           <1>22, <1>23, <1>24, <1>25, <1>26, <1>27, <1>28, <1>29, <1>30, <1>31,
           <1>32, <1>33, <1>34, <1>35, <1>36, <1>37 DEF Good, Begin, Handle, Close,
           Sweep

-----------------------------------------------------------------------------
(***************************************************************************)
(* The theorems.                                                           *)
(***************************************************************************)

\* What holds as long as nothing has failed.
Calm == faults = 0 => Undisturbed

LEMMA InitCalm ==
    ASSUME Init
    PROVE  Calm
<1> USE StoreAssumption, ProcessAssumption DEF Init, SignalingInit, StoreInit, Processes, Sessions
<1>1. Births
    BY DEF Births, Closing
<1>2. Endings
    BY DEF Endings
<1>3. Roles
    BY ReplyAssumption DEF Roles, Closing
<1>4. Listing
    BY DEF Listing
<1>5. Listed
    BY DEF Listed, Readable
<1>6. Tracking
    BY DEF Tracking
<1>7. Joining
    BY DEF Joining
<1>8. Membership
    BY DEF Membership
<1> QED BY <1>1, <1>2, <1>3, <1>4, <1>5, <1>6, <1>7, <1>8 DEF Calm, Undisturbed

LEMMA StepCalm ==
    ASSUME IndInv, Calm, [Next]_vars
    PROVE  Calm'
<1> SUFFICES ASSUME faults' = 0 PROVE Undisturbed'
    BY DEF Calm
<1>1. Base
    BY DEF IndInv, Base
<1>2. CASE Next
    <2>1. Good /\ Undisturbed
        BY <1>1, <1>2, FaultFree DEF Base, Calm
    <2>2. Births' /\ Endings' /\ Roles'
        BY <1>1, <2>1, BirthsKept, EndingsKept, RolesKept DEF Undisturbed
    <2>3. Listing' /\ Listed'
        BY <1>1, <2>1, ListingKept, ListedKept DEF Undisturbed
    <2>4. Tracking' /\ Joining' /\ Membership'
        BY <1>1, <2>1, TrackingKept, JoiningKept, MembershipKept DEF Undisturbed
    <2> QED BY <2>2, <2>3, <2>4 DEF Undisturbed
<1>3. CASE UNCHANGED vars
    <2> USE <1>3 DEF vars, sigVars, janVars, storeVars, keys, local
    <2>1. Undisturbed
        BY DEF Calm
    <2>2. Births' /\ Endings' /\ Roles'
        BY <2>1 DEF Undisturbed, Births, Known, Endings, Roles
    <2>3. Listing' /\ Listed'
        BY <2>1 DEF Undisturbed, Listing, Known, Listed, Readable
    <2>4. Tracking' /\ Joining' /\ Membership'
        BY <2>1 DEF Undisturbed, Tracking, Joining, Membership
    <2> QED BY <2>2, <2>3, <2>4 DEF Undisturbed
<1> QED BY <1>2, <1>3

LEMMA AlwaysCalm == Spec => []Calm
<1>1. Spec => []IndInv
    BY Invariance
<1>2. Init => Calm
    BY InitCalm
<1>3. IndInv /\ Calm /\ [Next]_vars => Calm'
    BY StepCalm
<1> QED BY <1>1, <1>2, <1>3, PTL DEF Spec

\* While no call fails, the active set of janitor.go agrees with the session hashes,
\* however many handlers and sweeps overlap: UpdateSessionStatus removes what it closes.
THEOREM ActiveSetCorrect == Spec => []ActiveSetAgrees
<1>1. Calm => ActiveSetAgrees
    BY DEF Calm, Undisturbed, Membership, ActiveSetAgrees
<1> QED BY <1>1, AlwaysCalm, PTL

\* While no call fails, GetMySessions finds all live sessions of its user, although
\* other requests of the same user prune the set at the same time.
THEOREM SessionsFound == Spec => []SessionsListed
<1>1. Calm => SessionsListed
    BY DEF Calm, Undisturbed, Listed, SessionsListed
<1> QED BY <1>1, AlwaysCalm, PTL

\* While no call fails, joinAsCamera leaves no ingress behind that neither it nor the
\* cleanup of the session will find.
THEOREM IngressesTracked == Spec => []IngressTracked
<1>1. Calm => IngressTracked
    BY DEF Calm, Undisturbed, Tracking, IngressTracked
<1> QED BY <1>1, AlwaysCalm, PTL

\* While no call fails, a join that begins after CloseSession gets no credentials.
THEOREM ClosedStaysClosed == Spec => []ClosedPreventsJoins
<1>1. Calm => ClosedPreventsJoins
    BY DEF Calm, Undisturbed, Joining, ClosedPreventsJoins
<1> QED BY <1>1, AlwaysCalm, PTL

-----------------------------------------------------------------------------
(***************************************************************************)
(* The backend implements SessionLife.                                     *)
(***************************************************************************)

\* Every request keeps its operation and its user, and none begins.
Fixed ==
    \A q \in Requests :
        /\ pc'[q] = "idle" <=> pc[q] = "idle"
        /\ req'[q].op = req[q].op /\ req'[q].user = req[q].user

\* What a client can ask for.
Ops == {"create", "camera", "director", "close", "list"}

\* No call has failed, no answer was lost and no process has died.
NoFaults == faults = 0

\* The steps that SessionLife can see apart from the begin of a request.
StatusMoved ==
    \/ UNCHANGED <<hash, lapsed>>
    \/ \E r \in Requests : Create(r)
    \/ \E p \in Processes : SetStatus(p)
    \/ \E s \in Sessions : Lapse(s)
    \/ Expire

\* After its arrival a request stays the same.
LEMMA RequestsFixed ==
    ASSUME Base, Good
    PROVE  Fixed \/ \E q \in Requests : Begin(q)
<1> USE ProcessAssumption DEF Base, TypeOK, SignalingTypeOK, StoreTypeOK, LocalsReady, Processes,
           Sessions, Goto, storeVars, keys, Closing, Fixed
<1>1. ASSUME NEW r \in Requests, NEW u \in Users, BeginCreate(r, u), UNCHANGED janVars
      PROVE  Fixed \/ \E q \in Requests : Begin(q)
    BY <1>1 DEF Begin
<1>2. ASSUME NEW r \in Requests, NEW op \in DOMAIN FirstCall, NEW u \in Users, NEW c \in Codes,
             BeginByCode(r, op, u, c), UNCHANGED janVars
      PROVE  Fixed \/ \E q \in Requests : Begin(q)
    BY <1>2 DEF Begin
<1>3. ASSUME NEW r \in Requests, NEW u \in Users, BeginList(r, u), UNCHANGED janVars
      PROVE  Fixed \/ \E q \in Requests : Begin(q)
    BY <1>3 DEF Begin
<1>4. ASSUME NEW r \in Requests, NEW c \in Codes, PickCode(r, c), UNCHANGED janVars
      PROVE  Fixed \/ \E q \in Requests : Begin(q)
    <2>1. PickCodeOutcome(r, c)
        BY <1>4, PickCodeTo
    <2> QED BY <1>4, <2>1 DEF PickCode, PickCodeOutcome, MovesTo
<1>5. ASSUME NEW r \in Requests, CheckCode(r), UNCHANGED janVars
      PROVE  Fixed \/ \E q \in Requests : Begin(q)
    <2>1. CheckCodeOutcome(r)
        BY <1>5, CheckCodeTo
    <2> QED BY <1>5, <2>1 DEF CheckCode, CheckCodeOutcome, MovesTo
<1>6. ASSUME NEW r \in Requests, Create(r), UNCHANGED janVars
      PROVE  Fixed \/ \E q \in Requests : Begin(q)
    BY <1>6 DEF Create, CreatePipeline
<1>7. ASSUME NEW r \in Requests, Lookup(r), UNCHANGED janVars
      PROVE  Fixed \/ \E q \in Requests : Begin(q)
    <2>1. LookupOutcome(r)
        BY <1>7, LookupTo
    <2> QED BY <1>7, <2>1 DEF Lookup, LookupOutcome, MovesTo
<1>8. ASSUME NEW r \in Requests, Load(r), UNCHANGED janVars
      PROVE  Fixed \/ \E q \in Requests : Begin(q)
    <2>1. LoadOutcome(r)
        BY <1>8, LoadTo
    <2> QED BY <1>8, <2>1 DEF Load, LoadOutcome, MovesTo
<1>9. ASSUME NEW r \in Requests, NewIngress(r), UNCHANGED janVars
      PROVE  Fixed \/ \E q \in Requests : Begin(q)
    BY <1>9 DEF NewIngress
<1>10. ASSUME NEW r \in Requests, GrantExists(r), UNCHANGED janVars
      PROVE  Fixed \/ \E q \in Requests : Begin(q)
    <2>1. GrantExistsOutcome(r)
        BY <1>10, GrantExistsTo
    <2> QED BY <1>10, <2>1 DEF GrantExists, GrantExistsOutcome, MovesTo
<1>11. ASSUME NEW r \in Requests, Grant(r), UNCHANGED janVars
      PROVE  Fixed \/ \E q \in Requests : Begin(q)
    <2>1. GrantOutcome(r)
        BY <1>11, GrantTo
    <2> QED BY <1>11, <2>1 DEF Grant, GrantAccess, GrantOutcome, MovesTo
<1>12. ASSUME NEW r \in Requests, Rollback(r), UNCHANGED janVars
      PROVE  Fixed \/ \E q \in Requests : Begin(q)
    BY <1>12 DEF Rollback, Reply
<1>13. ASSUME NEW r \in Requests, Record(r), UNCHANGED janVars
      PROVE  Fixed \/ \E q \in Requests : Begin(q)
    BY <1>13 DEF Record, AddIngressID, Reply
<1>14. ASSUME NEW r \in Requests, List(r), UNCHANGED janVars
      PROVE  Fixed \/ \E q \in Requests : Begin(q)
    BY <1>14 DEF List
<1>15. ASSUME NEW r \in Requests, NEW s \in Sessions, LoadEach(r, s), UNCHANGED janVars
      PROVE  Fixed \/ \E q \in Requests : Begin(q)
    <2>1. LoadEachOutcome(r, s)
        BY <1>15, LoadEachTo
    <2> QED BY <1>15, <2>1 DEF LoadEach, LoadEachOutcome, MovesTo
<1>16. ASSUME NEW r \in Requests, Forget(r), UNCHANGED janVars
      PROVE  Fixed \/ \E q \in Requests : Begin(q)
    BY <1>16 DEF Forget, ForgetUserSession
<1>17. ASSUME NEW r \in Requests, ListDone(r), UNCHANGED janVars
      PROVE  Fixed \/ \E q \in Requests : Begin(q)
    BY <1>17 DEF ListDone, Reply
<1>18. ASSUME NEW p \in Processes, GetIngressIDs(p), UNCHANGED janVars
      PROVE  Fixed \/ \E q \in Requests : Begin(q)
    BY <1>18 DEF GetIngressIDs
<1>19. ASSUME NEW p \in Processes, NEW i \in Requests, DeleteIngress(p, i), UNCHANGED janVars
      PROVE  Fixed \/ \E q \in Requests : Begin(q)
    BY <1>19 DEF DeleteIngress
<1>20. ASSUME NEW p \in Processes, DeleteRoom(p), UNCHANGED janVars
      PROVE  Fixed \/ \E q \in Requests : Begin(q)
    BY <1>20 DEF DeleteRoom
<1>21. ASSUME NEW p \in Processes, StatusExists(p), UNCHANGED janVars
      PROVE  Fixed \/ \E q \in Requests : Begin(q)
    <2>1. StatusExistsOutcome(p)
        BY <1>21, StatusExistsTo
    <2> QED BY <1>21, <2>1 DEF StatusExists, StatusExistsOutcome, MovesTo
<1>22. ASSUME NEW p \in Processes, SetStatus(p), UNCHANGED janVars
      PROVE  Fixed \/ \E q \in Requests : Begin(q)
    BY <1>22 DEF SetStatus, SetStatusClosed
<1>23. ASSUME NEW p \in Processes, ZRem(p), UNCHANGED janVars
      PROVE  Fixed \/ \E q \in Requests : Begin(q)
    <2>1. CloseEndsOutcome(p, "ok")
        BY <1>23, ZRemTo
    <2> QED BY <1>23, <2>1 DEF ZRem, RemoveActive, CloseEndsOutcome, MovesTo
<1>24. ASSUME NEW w \in Sweepers, Lock(w)
      PROVE  Fixed \/ \E q \in Requests : Begin(q)
    <2>1. LockOutcome(w)
        BY <1>24, LockTo
    <2> QED BY <1>24, <2>1 DEF Lock, LockOutcome, MovesTo
<1>25. ASSUME NEW w \in Sweepers, Range(w)
      PROVE  Fixed \/ \E q \in Requests : Begin(q)
    BY <1>25 DEF Range
<1>26. ASSUME NEW w \in Sweepers, NEW s \in Sessions, Fetch(w, s)
      PROVE  Fixed \/ \E q \in Requests : Begin(q)
    <2>1. FetchOutcome(w, s)
        BY <1>26, FetchTo
    <2> QED BY <1>26, <2>1 DEF Fetch, FetchOutcome, MovesTo
<1>27. ASSUME NEW w \in Sweepers, Drop(w)
      PROVE  Fixed \/ \E q \in Requests : Begin(q)
    BY <1>27 DEF Drop, RemoveActive
<1>28. ASSUME NEW w \in Sweepers, FetchDone(w)
      PROVE  Fixed \/ \E q \in Requests : Begin(q)
    BY <1>28 DEF FetchDone
<1>29. ASSUME NEW w \in Sweepers, NEW s \in Sessions, CloseExpired(w, s)
      PROVE  Fixed \/ \E q \in Requests : Begin(q)
    BY <1>29 DEF CloseExpired
<1>30. ASSUME NEW w \in Sweepers, SweepDone(w)
      PROVE  Fixed \/ \E q \in Requests : Begin(q)
    BY <1>30 DEF SweepDone
<1>31. ASSUME NEW w \in Sweepers, Release(w)
      PROVE  Fixed \/ \E q \in Requests : Begin(q)
    BY <1>31 DEF Release
<1>32. ASSUME NEW i \in Instances, Tick(i)
      PROVE  Fixed \/ \E q \in Requests : Begin(q)
    BY <1>32 DEF Tick, Sweepers
<1>33. ASSUME NEW i \in Instances, Reconnect(i)
      PROVE  Fixed \/ \E q \in Requests : Begin(q)
    BY <1>33 DEF Reconnect, Sweepers
<1>34. ASSUME NEW s \in Sessions, Lapse(s)
      PROVE  Fixed \/ \E q \in Requests : Begin(q)
    BY <1>34 DEF Lapse, keys, local
<1>35. ASSUME LockExpires
      PROVE  Fixed \/ \E q \in Requests : Begin(q)
    BY <1>35 DEF LockExpires, sigVars, local
<1>36. ASSUME Expire
      PROVE  Fixed \/ \E q \in Requests : Begin(q)
    BY <1>36 DEF Expire, Expiry, ExpireHash, ExpireRoomCode, ExpireAccess,
       ExpireIngressIDs, ExpireUserSessions, local
<1>37. ASSUME NEW i \in Instances, PingFails(i)
      PROVE  Fixed \/ \E q \in Requests : Begin(q)
    BY <1>37 DEF PingFails, sigVars, local
<1> QED BY <1>1, <1>2, <1>3, <1>4, <1>5, <1>6, <1>7, <1>8, <1>9, <1>10, <1>11,
           <1>12, <1>13, <1>14, <1>15, <1>16, <1>17, <1>18, <1>19, <1>20, <1>21,
           <1>22, <1>23, <1>24, <1>25, <1>26, <1>27, <1>28, <1>29, <1>30, <1>31,
           <1>32, <1>33, <1>34, <1>35, <1>36, <1>37 DEF Good, Begin, Handle, Close,
           Sweep

\* What changes the status of a session.
LEMMA StatusMoves ==
    ASSUME Good
    PROVE  StatusMoved
<1> USE DEF StatusMoved, sigVars, storeVars, keys
<1>1. ASSUME NEW r \in Requests, NEW u \in Users, BeginCreate(r, u), UNCHANGED janVars
      PROVE  StatusMoved
    BY <1>1 DEF BeginCreate, Arrive
<1>2. ASSUME NEW r \in Requests, NEW op \in DOMAIN FirstCall, NEW u \in Users, NEW c \in Codes,
             BeginByCode(r, op, u, c), UNCHANGED janVars
      PROVE  StatusMoved
    BY <1>2 DEF BeginByCode, Arrive, FirstCall
<1>3. ASSUME NEW r \in Requests, NEW u \in Users, BeginList(r, u), UNCHANGED janVars
      PROVE  StatusMoved
    BY <1>3 DEF BeginList, Arrive
<1>4. ASSUME NEW r \in Requests, NEW c \in Codes, PickCode(r, c), UNCHANGED janVars
      PROVE  StatusMoved
    BY <1>4 DEF PickCode
<1>5. ASSUME NEW r \in Requests, CheckCode(r), UNCHANGED janVars
      PROVE  StatusMoved
    BY <1>5 DEF CheckCode, Reply
<1>6. ASSUME NEW r \in Requests, Create(r), UNCHANGED janVars
      PROVE  StatusMoved
    BY <1>6
<1>7. ASSUME NEW r \in Requests, Lookup(r), UNCHANGED janVars
      PROVE  StatusMoved
    BY <1>7 DEF Lookup, Reply
<1>8. ASSUME NEW r \in Requests, Load(r), UNCHANGED janVars
      PROVE  StatusMoved
    BY <1>8 DEF Load, MayProceed, FirstCall, Reply
<1>9. ASSUME NEW r \in Requests, NewIngress(r), UNCHANGED janVars
      PROVE  StatusMoved
    BY <1>9 DEF NewIngress
<1>10. ASSUME NEW r \in Requests, GrantExists(r), UNCHANGED janVars
      PROVE  StatusMoved
    BY <1>10 DEF GrantExists, GrantError, Reply
<1>11. ASSUME NEW r \in Requests, Grant(r), UNCHANGED janVars
      PROVE  StatusMoved
    BY <1>11 DEF Grant, GrantAccess, Reply
<1>12. ASSUME NEW r \in Requests, Rollback(r), UNCHANGED janVars
      PROVE  StatusMoved
    BY <1>12 DEF Rollback, Reply
<1>13. ASSUME NEW r \in Requests, Record(r), UNCHANGED janVars
      PROVE  StatusMoved
    BY <1>13 DEF Record, AddIngressID, Reply
<1>14. ASSUME NEW r \in Requests, List(r), UNCHANGED janVars
      PROVE  StatusMoved
    BY <1>14 DEF List
<1>15. ASSUME NEW r \in Requests, NEW s \in Sessions, LoadEach(r, s), UNCHANGED janVars
      PROVE  StatusMoved
    BY <1>15 DEF LoadEach, Reply
<1>16. ASSUME NEW r \in Requests, Forget(r), UNCHANGED janVars
      PROVE  StatusMoved
    BY <1>16 DEF Forget, ForgetUserSession
<1>17. ASSUME NEW r \in Requests, ListDone(r), UNCHANGED janVars
      PROVE  StatusMoved
    BY <1>17 DEF ListDone, Reply
<1>18. ASSUME NEW p \in Processes, GetIngressIDs(p), UNCHANGED janVars
      PROVE  StatusMoved
    BY <1>18 DEF GetIngressIDs
<1>19. ASSUME NEW p \in Processes, NEW i \in Requests, DeleteIngress(p, i), UNCHANGED janVars
      PROVE  StatusMoved
    BY <1>19 DEF DeleteIngress
<1>20. ASSUME NEW p \in Processes, DeleteRoom(p), UNCHANGED janVars
      PROVE  StatusMoved
    BY <1>20 DEF DeleteRoom
<1>21. ASSUME NEW p \in Processes, StatusExists(p), UNCHANGED janVars
      PROVE  StatusMoved
    BY <1>21 DEF StatusExists, CloseEnds, Reply
<1>22. ASSUME NEW p \in Processes, SetStatus(p), UNCHANGED janVars
      PROVE  StatusMoved
    BY <1>22
<1>23. ASSUME NEW p \in Processes, ZRem(p), UNCHANGED janVars
      PROVE  StatusMoved
    BY <1>23 DEF ZRem, RemoveActive, CloseEnds, Reply
<1>24. ASSUME NEW w \in Sweepers, Lock(w)
      PROVE  StatusMoved
    BY <1>24 DEF Lock
<1>25. ASSUME NEW w \in Sweepers, Range(w)
      PROVE  StatusMoved
    BY <1>25 DEF Range
<1>26. ASSUME NEW w \in Sweepers, NEW s \in Sessions, Fetch(w, s)
      PROVE  StatusMoved
    BY <1>26 DEF Fetch
<1>27. ASSUME NEW w \in Sweepers, Drop(w)
      PROVE  StatusMoved
    BY <1>27 DEF Drop, RemoveActive
<1>28. ASSUME NEW w \in Sweepers, FetchDone(w)
      PROVE  StatusMoved
    BY <1>28 DEF FetchDone
<1>29. ASSUME NEW w \in Sweepers, NEW s \in Sessions, CloseExpired(w, s)
      PROVE  StatusMoved
    BY <1>29 DEF CloseExpired
<1>30. ASSUME NEW w \in Sweepers, SweepDone(w)
      PROVE  StatusMoved
    BY <1>30 DEF SweepDone
<1>31. ASSUME NEW w \in Sweepers, Release(w)
      PROVE  StatusMoved
    BY <1>31 DEF Release
<1>32. ASSUME NEW i \in Instances, Tick(i)
      PROVE  StatusMoved
    BY <1>32 DEF Tick, Sweepers
<1>33. ASSUME NEW i \in Instances, Reconnect(i)
      PROVE  StatusMoved
    BY <1>33 DEF Reconnect, Sweepers
<1>34. ASSUME NEW s \in Sessions, Lapse(s)
      PROVE  StatusMoved
    BY <1>34
<1>35. ASSUME LockExpires
      PROVE  StatusMoved
    BY <1>35 DEF LockExpires, sigVars, local
<1>36. ASSUME Expire
      PROVE  StatusMoved
    BY <1>36
<1>37. ASSUME NEW i \in Instances, PingFails(i)
      PROVE  StatusMoved
    BY <1>37 DEF PingFails, sigVars, local
<1> QED BY <1>1, <1>2, <1>3, <1>4, <1>5, <1>6, <1>7, <1>8, <1>9, <1>10, <1>11,
           <1>12, <1>13, <1>14, <1>15, <1>16, <1>17, <1>18, <1>19, <1>20, <1>21,
           <1>22, <1>23, <1>24, <1>25, <1>26, <1>27, <1>28, <1>29, <1>30, <1>31,
           <1>32, <1>33, <1>34, <1>35, <1>36, <1>37 DEF Good, Begin, Handle, Close,
           Sweep

\* Status and owner, session by session.
LEMMA LifeFields ==
    /\ LifeStatus = [s \in Sessions |-> LifeStatus[s]]
    /\ LifeOwner = [s \in Sessions |-> LifeOwner[s]]
    /\ \A s \in Sessions :
          /\ hash[s] = "active" => LifeStatus[s] = "open"
          /\ hash[s] = "closed" => LifeStatus[s] = "closed"
          /\ hash[s] = "absent" /\ s \notin lapsed => LifeStatus[s] = "unborn"
          /\ hash[s] = "absent" /\ s \in lapsed => LifeStatus[s] = "gone"
          /\ hash[s] = "partial" => LifeStatus[s] = "gone"
          /\ LifeStatus[s] = "unborn" => LifeOwner[s] = None
          /\ LifeStatus[s] # "unborn" => LifeOwner[s] = req[s].user
BY DEF LifeStatus, LifeOwner

LEMMA LifeFieldsNext ==
    /\ LifeStatus' = [s \in Sessions |-> LifeStatus'[s]]
    /\ LifeOwner' = [s \in Sessions |-> LifeOwner'[s]]
    /\ \A s \in Sessions :
          /\ hash'[s] = "active" => LifeStatus'[s] = "open"
          /\ hash'[s] = "closed" => LifeStatus'[s] = "closed"
          /\ hash'[s] = "absent" /\ s \notin lapsed' => LifeStatus'[s] = "unborn"
          /\ hash'[s] = "absent" /\ s \in lapsed' => LifeStatus'[s] = "gone"
          /\ hash'[s] = "partial" => LifeStatus'[s] = "gone"
          /\ LifeStatus'[s] = "unborn" => LifeOwner'[s] = None
          /\ LifeStatus'[s] # "unborn" => LifeOwner'[s] = req'[s].user
BY DEF LifeStatus, LifeOwner

\* While requests stay the same so do the closers, and the owners of the sessions
\* whose status does not change.
LEMMA ClosersKept ==
    ASSUME Fixed
    PROVE  LifeClosers' = LifeClosers
<1>1. {q \in Requests : pc[q] # "idle" /\ req[q].op = "close"}' =
      {q \in Requests : pc[q] # "idle" /\ req[q].op = "close"}
    BY DEF Fixed
<1> QED BY <1>1 DEF LifeClosers, Fixed

LEMMA OwnersKept ==
    ASSUME LifeStatus' = LifeStatus,
           \A s \in Sessions : LifeStatus[s] # "unborn" => req'[s].user = req[s].user
    PROVE  LifeOwner' = LifeOwner
BY DEF LifeOwner

LEMMA StatusKept ==
    ASSUME hash' = hash, lapsed' = lapsed
    PROVE  LifeStatus' = LifeStatus
BY DEF LifeStatus

LifeUnchanged == UNCHANGED <<LifeStatus, LifeOwner, LifeClosers, lapsed>>

\* A request that begins may be one more close; its own session is not born.
LEMMA BeginLife ==
    ASSUME Base, Births, NEW r \in Requests, Begin(r)
    PROVE  Life!Next \/ LifeUnchanged
<1> DEFINE Begun(op, u, c) == Arrive(r, op, u, c) /\ pc'[r] # "idle"
<1>1. \E op \in Ops, u \in Users, c \in Codes \cup {None} : Begun(op, u, c)
    <2>1. DOMAIN pc = Processes /\ pc = [x \in Processes |-> pc[x]] /\ r \in Processes
        BY DEF Base, TypeOK, SignalingTypeOK, Processes
    <2>2. PICK u \in Users :
              \/ BeginCreate(r, u)
              \/ \E op \in DOMAIN FirstCall, c \in Codes : BeginByCode(r, op, u, c)
              \/ BeginList(r, u)
        BY DEF Begin
    <2>3. CASE BeginCreate(r, u)
        BY <2>1, <2>3 DEF BeginCreate, Goto, Ops
    <2>4. ASSUME NEW op \in DOMAIN FirstCall, NEW c \in Codes, BeginByCode(r, op, u, c)
          PROVE  \E o \in Ops, v \in Users, d \in Codes \cup {None} : Begun(o, v, d)
        <3>1. op \in Ops
            BY <2>4 DEF FirstCall, Ops
        <3>2. Begun(op, u, c)
            BY <2>1, <2>4 DEF BeginByCode, Goto
        <3> QED BY <3>1, <3>2
    <2>5. CASE BeginList(r, u)
        BY <2>1, <2>5 DEF BeginList, Goto, Ops
    <2> QED BY <2>2, <2>3, <2>4, <2>5
<1>1a. PICK op \in Ops, u \in Users, c \in Codes \cup {None} : Begun(op, u, c)
    BY <1>1
<1>2. /\ hash' = hash /\ lapsed' = lapsed /\ pc[r] = "idle"
      /\ req' = [req EXCEPT ![r] = [op |-> op, user |-> u, code |-> c]]
    BY <1>1a DEF Arrive, storeVars, keys
<1>3. \A q \in Requests \ {r} : pc'[q] = pc[q] /\ req'[q] = req[q]
    BY <1>2 DEF Begin, BeginCreate, BeginByCode, BeginList, Goto, Base, TypeOK, SignalingTypeOK,
       Processes
<1>4. req'[r].user = u /\ req'[r].op = op
    BY <1>2 DEF Base, TypeOK, SignalingTypeOK
<1>5. LifeStatus' = LifeStatus
    BY <1>2, StatusKept
<1>6. LifeOwner' = LifeOwner
    <2>1. LifeStatus[r] = "unborn"
        BY <1>2, LifeFields DEF Births, NotYet, Sessions
    <2> QED BY <1>3, <1>5, <2>1, OwnersKept DEF Sessions
<1>7. CASE op = "close"
    <2>1. LifeClosers' = LifeClosers \cup {u}
        BY <1>1a, <1>2, <1>3, <1>4, <1>7 DEF LifeClosers
    <2> QED BY <1>2, <1>5, <1>6, <2>1 DEF Life!Next, Life!AskToClose
<1>8. CASE op # "close"
    <2>1. LifeClosers' = LifeClosers
        BY <1>1a, <1>2, <1>3, <1>4, <1>8 DEF LifeClosers
    <2> QED BY <1>2, <1>5, <1>6, <2>1 DEF LifeUnchanged
<1> QED BY <1>7, <1>8

\* The pipeline of CreateSession opens the session.
LEMMA CreateLife ==
    ASSUME Base, Births, Fixed, NEW r \in Requests, Create(r)
    PROVE  Life!Next
<1>1. /\ pc[r] = "create" /\ hash' = [hash EXCEPT ![r] = "active"] /\ lapsed' = lapsed
      /\ req' = req /\ req[r].user \in Users /\ hash \in [Sessions -> {"absent", "active", "closed", "partial"}]
    BY DEF Create, CreatePipeline, Base, LocalsReady, TypeOK, SignalingTypeOK, StoreTypeOK
<1>2. hash[r] = "absent" /\ r \notin lapsed /\ r \in Sessions
    BY <1>1 DEF Births, NotYet, Sessions
<1>3. LifeStatus[r] = "unborn" /\ LifeStatus'[r] = "open" /\ LifeOwner'[r] = req[r].user
    BY <1>1, <1>2, LifeFields, LifeFieldsNext
<1>4. \A s \in Sessions \ {r} : LifeStatus'[s] = LifeStatus[s] /\ LifeOwner'[s] = LifeOwner[s]
    BY <1>1, LifeFields, LifeFieldsNext
<1>5. LifeStatus' = [LifeStatus EXCEPT ![r] = "open"]
    BY <1>2, <1>3, <1>4, LifeFields, LifeFieldsNext
<1>6. LifeOwner' = [LifeOwner EXCEPT ![r] = req[r].user]
    BY <1>2, <1>3, <1>4, LifeFields, LifeFieldsNext
<1> QED BY <1>1, <1>2, <1>3, <1>5, <1>6, ClosersKept DEF Life!Next, Life!Open

\* A session whose status moves from open or closed, and no other changes.
LEMMA OneMoves ==
    ASSUME NEW s \in Sessions, NEW x, x # "unborn", Fixed,
           LifeStatus[s] # "unborn", LifeStatus'[s] = x,
           \A t \in Sessions \ {s} : LifeStatus'[t] = LifeStatus[t]
    PROVE  LifeStatus' = [LifeStatus EXCEPT ![s] = x] /\ LifeOwner' = LifeOwner
<1>1. LifeStatus' = [LifeStatus EXCEPT ![s] = x]
    BY LifeFields, LifeFieldsNext
<1>2. \A t \in Sessions : LifeOwner'[t] = LifeOwner[t]
    BY LifeFields, LifeFieldsNext DEF Fixed, Sessions
<1> QED BY <1>1, <1>2, LifeFields, LifeFieldsNext

\* HSET status closed closes an open session and does nothing to any other.
LEMMA SetStatusLife ==
    ASSUME Base, Births, Roles, OwnerCloses, Fixed, NEW p \in Processes, SetStatus(p)
    PROVE  Life!Next \/ LifeUnchanged
<1> DEFINE s == cur[p]
<1>1. /\ pc[p] = "set_status" /\ pc[p] \in Closing /\ lapsed' = lapsed /\ s \in Sessions
      /\ hash' = [hash EXCEPT ![s] = IF hash[s] \in {"active", "closed"} THEN "closed" ELSE "partial"]
      /\ hash \in [Sessions -> {"absent", "active", "closed", "partial"}]
    BY DEF SetStatus, SetStatusClosed, Base, LocalsReady, TypeOK, SignalingTypeOK, StoreTypeOK,
       Closing, Processes, Sessions
<1>2. hash[s] = "absent" => s \in lapsed
    BY <1>1 DEF Births, Known
<1>3. s \in lapsed \/ req[s].user \in LifeClosers
    <2>1. CASE p \in Requests
        BY <1>1, <2>1 DEF OwnerCloses, Roles, LifeClosers
    <2>2. CASE p \in Sweepers
        BY <1>1, <2>2 DEF Base, SweepScope
    <2> QED BY <2>1, <2>2 DEF Processes
<1> HIDE DEF s
<1>4. \A t \in Sessions \ {s} : LifeStatus'[t] = LifeStatus[t]
    BY <1>1, LifeFields, LifeFieldsNext
<1>5. CASE hash[s] = "active"
    <2>1. LifeStatus[s] = "open" /\ LifeStatus'[s] = "closed" /\ LifeOwner[s] = req[s].user
        BY <1>1, <1>5, LifeFields, LifeFieldsNext
    <2>2. LifeStatus' = [LifeStatus EXCEPT ![s] = "closed"] /\ LifeOwner' = LifeOwner
        BY <1>1, <1>4, <2>1, OneMoves
    <2> QED BY <1>1, <1>3, <2>1, <2>2, ClosersKept DEF Life!Next, Life!Close
<1>6. CASE hash[s] # "active"
    <2>1. LifeStatus'[s] = LifeStatus[s] /\ LifeStatus[s] # "unborn"
        BY <1>1, <1>2, <1>6, LifeFields, LifeFieldsNext
    <2>2. LifeStatus' = [LifeStatus EXCEPT ![s] = LifeStatus[s]] /\ LifeOwner' = LifeOwner
        BY <1>1, <1>4, <2>1, OneMoves
    <2>3. LifeStatus' = LifeStatus
        BY <2>2, LifeFields
    <2> QED BY <1>1, <2>2, <2>3, ClosersKept DEF LifeUnchanged
<1> QED BY <1>5, <1>6

\* A session whose TTL runs out is still there.
LEMMA LapseLife ==
    ASSUME Base, Births, Fixed, NEW s \in Sessions, Lapse(s)
    PROVE  Life!Next
<1>1. /\ hash[s] # "absent" /\ s \notin lapsed /\ lapsed' = lapsed \cup {s} /\ hash' = hash
      /\ hash \in [Sessions -> {"absent", "active", "closed", "partial"}]
    BY DEF Lapse, keys, Base, TypeOK, SignalingTypeOK, StoreTypeOK
<1>2. hash[s] \in {"active", "closed"}
    BY <1>1 DEF Births
<1>3. \A t \in Sessions : LifeStatus'[t] = LifeStatus[t]
    BY <1>1, <1>2, LifeFields, LifeFieldsNext
<1>4. LifeStatus' = LifeStatus
    BY <1>3, LifeFields, LifeFieldsNext
<1>5. LifeOwner' = LifeOwner
    BY <1>4, OwnersKept DEF Fixed, Sessions
<1>6. LifeStatus[s] \in {"open", "closed"}
    BY <1>2, LifeFields
<1> QED BY <1>1, <1>4, <1>5, <1>6, ClosersKept DEF Life!Next, Life!RunOut

\* Of the expiring keys only the hash matters, and it had to outlive the TTL.
LEMMA ExpireLife ==
    ASSUME Base, Fixed, Expire
    PROVE  Life!Next \/ LifeUnchanged
<1>1. CASE hash' = hash /\ lapsed' = lapsed
    <2>1. LifeStatus' = LifeStatus
        BY <1>1, StatusKept
    <2>2. LifeOwner' = LifeOwner
        BY <2>1, OwnersKept DEF Fixed, Sessions
    <2> QED BY <1>1, <2>1, <2>2, ClosersKept DEF LifeUnchanged
<1>2. ASSUME NEW s \in Sessions, ExpireHash(s)
      PROVE  Life!Next \/ LifeUnchanged
    <2>1. /\ s \in lapsed /\ lapsed' = lapsed /\ hash' = [hash EXCEPT ![s] = "absent"]
          /\ hash \in [Sessions -> {"absent", "active", "closed", "partial"}]
        BY <1>2 DEF ExpireHash, Base, TypeOK, SignalingTypeOK, StoreTypeOK
    <2>2. LifeStatus'[s] = "gone" /\ LifeStatus[s] \in {"open", "closed", "gone"}
        BY <2>1, LifeFields, LifeFieldsNext
    <2>3. \A t \in Sessions \ {s} : LifeStatus'[t] = LifeStatus[t]
        BY <2>1, LifeFields, LifeFieldsNext
    <2>4. LifeStatus' = [LifeStatus EXCEPT ![s] = "gone"] /\ LifeOwner' = LifeOwner
        BY <2>2, <2>3, OneMoves
    <2>5. CASE LifeStatus[s] = "gone"
        <3>1. LifeStatus' = LifeStatus
            BY <2>4, <2>5, LifeFields
        <3> QED BY <2>1, <2>4, <3>1, ClosersKept DEF LifeUnchanged
    <2>6. CASE LifeStatus[s] # "gone"
        BY <2>1, <2>2, <2>4, <2>6, ClosersKept DEF Life!Next, Life!Vanish
    <2> QED BY <2>5, <2>6
<1>3. (hash' = hash /\ lapsed' = lapsed) \/ \E s \in Sessions : ExpireHash(s)
    BY DEF Expire, Expiry, ExpireRoomCode, ExpireAccess, ExpireIngressIDs, ExpireUserSessions
<1> QED BY <1>1, <1>2, <1>3

LEMMA StepLife ==
    ASSUME IndInv, Undisturbed, Good
    PROVE  Life!Next \/ LifeUnchanged
<1>1. Base /\ OwnerCloses /\ Births /\ Roles
    BY DEF IndInv, Base, Undisturbed
<1>2. CASE \E q \in Requests : Begin(q)
    BY <1>1, <1>2, BeginLife
<1>3. CASE Fixed
    <2>1. CASE UNCHANGED <<hash, lapsed>>
        <3>1. LifeStatus' = LifeStatus
            BY <2>1, StatusKept
        <3>2. LifeOwner' = LifeOwner
            BY <1>3, <3>1, OwnersKept DEF Fixed, Sessions
        <3> QED BY <1>3, <2>1, <3>1, <3>2, ClosersKept DEF LifeUnchanged
    <2>2. CASE \E r \in Requests : Create(r)
        BY <1>1, <1>3, <2>2, CreateLife
    <2>3. CASE \E p \in Processes : SetStatus(p)
        BY <1>1, <1>3, <2>3, SetStatusLife
    <2>4. CASE \E s \in Sessions : Lapse(s)
        BY <1>1, <1>3, <2>4, LapseLife
    <2>5. CASE Expire
        BY <1>1, <1>3, <2>5, ExpireLife
    <2> QED BY <2>1, <2>2, <2>3, <2>4, <2>5, StatusMoves DEF StatusMoved
<1> QED BY <1>1, <1>2, <1>3, RequestsFixed

\* A behaviour in which no call fails is one of SessionLife: grpc.go, janitor.go and
\* redis.go together open a session once, close it only for its creator or after its TTL,
\* never open it again and lose it only after its TTL, whichever requests and sweeps
\* overlap and whichever keys expire first.
THEOREM BackendImplementsLife == Spec /\ []NoFaults => ImplementsSessionLife
<1>1. Init => Life!Init
    <2> SUFFICES ASSUME Init PROVE Life!Init
        OBVIOUS
    <2>1. lapsed = {} /\ \A s \in Sessions : hash[s] = "absent"
        BY DEF Init, SignalingInit, StoreInit
    <2>2. LifeStatus = [s \in Sessions |-> "unborn"] /\ LifeOwner = [s \in Sessions |-> None]
        BY <2>1, LifeFields
    <2>3. LifeClosers = {}
        BY DEF Init, SignalingInit, LifeClosers, Processes
    <2> QED BY <2>1, <2>2, <2>3 DEF Life!Init
<1>2. IndInv /\ Calm /\ NoFaults /\ NoFaults' /\ [Next]_vars
          => [Life!Next]_(Life!lifeVars)
    <2> SUFFICES ASSUME IndInv, Calm, NoFaults, NoFaults', [Next]_vars
                 PROVE  Life!Next \/ LifeUnchanged
        BY DEF LifeUnchanged, Life!lifeVars
    <2>1. CASE Next
        <3>1. Good
            BY <2>1, FaultFree DEF IndInv, NoFaults
        <3> QED BY <3>1, StepLife DEF Calm, NoFaults
    <2>2. CASE UNCHANGED vars
        BY <2>2 DEF vars, sigVars, storeVars, keys, local, LifeUnchanged, LifeStatus, LifeOwner,
           LifeClosers
    <2> QED BY <2>1, <2>2
<1> QED BY <1>1, <1>2, Invariance, AlwaysCalm, PTL DEF Spec, ImplementsSessionLife, Life!Spec
=============================================================================
