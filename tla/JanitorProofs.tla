--------------------------- MODULE JanitorProofs ---------------------------
(***************************************************************************)
(* Proofs about the signaling backend, for every number of requests,       *)
(* sessions, users, room codes, server processes and failures.             *)
(***************************************************************************)
EXTENDS Janitor, TLAPS

\* What each call of a handler or a sweep finds in the locals it uses.
LocalsReady ==
    /\ \A r \in Requests : pc[r] \in HandlerSteps \cup Closing
    /\ \A w \in Sweepers : pc[w] \in SweepSteps \cup Closing
    /\ \A r \in Requests :
          /\ pc[r] = "idle" => tries[r] = 0
          /\ pc[r] # "idle" => req[r].user \in Users
          /\ pc[r] \in {"create", "lookup"} => req[r].code \in Codes
          /\ pc[r] \in {"lookup", "load"} => req[r].op \in {"camera", "director", "close"}
          /\ pc[r] \in {"pick_code", "check_code"} => tries[r] < MaxRoomAttempts
          /\ pc[r] \in {"pick_code", "create"} => cur[r] = r
          /\ pc[r] \in {"check_code", "load", "new_ingress", "grant_exists", "grant",
                        "rollback", "record", "forget"} \cup Closing => cur[r] \in Requests
    /\ \A w \in Sweepers : pc[w] \in {"drop"} \cup Closing => cur[w] \in Requests

\* A session that a room code leads to, or that a handler has found by one, was
\* created by a request that has begun, so its creator is known and fixed.
CreatorKnown ==
    /\ \A c \in Codes : roomCode[c] # None => pc[roomCode[c]] # "idle"
    /\ \A r \in Requests :
          pc[r] \in {"load"} \cup Closing => cur[r] \in Requests /\ pc[cur[r]] # "idle"

\* A request that closes a session is its creator's.
OwnerCloses == \A r \in Requests : pc[r] \in Closing => req[r].user = req[cur[r]].user

\* A sweep only ever looks at sessions whose TTL has run out.
SweepScope ==
    \A w \in Sweepers :
        /\ pc[w] \in {"lock", "range", "fetch", "drop"} => todo[w] \subseteq lapsed
        /\ expired[w] \subseteq lapsed
        /\ pc[w] \in Closing => cur[w] \in lapsed

-----------------------------------------------------------------------------
\* Every step keeps the types.
LEMMA TypeInductive ==
  ASSUME TypeOK, LocalsReady, [Next]_vars
  PROVE  TypeOK'
<1>1. ASSUME NEW r \in Requests, NEW u \in Users, BeginCreate(r, u), UNCHANGED janVars
      PROVE  TypeOK'
  BY <1>1, ProcessAssumption, SignalingAssumption DEF BeginCreate, Arrive, Goto,
     storeVars, keys, janVars, TypeOK, SignalingTypeOK, StoreTypeOK, LocalsReady,
     Processes, Sessions, HandlerSteps, SweepSteps, Closing
<1>2. ASSUME NEW r \in Requests, NEW op \in DOMAIN FirstCall, NEW u \in Users,
             NEW c \in Codes, BeginByCode(r, op, u, c), UNCHANGED janVars
      PROVE  TypeOK'
  BY <1>2, ProcessAssumption, SignalingAssumption DEF BeginByCode, Arrive, Goto,
     FirstCall, storeVars, keys, janVars, TypeOK, SignalingTypeOK, StoreTypeOK,
     LocalsReady, Processes, Sessions, HandlerSteps, SweepSteps, Closing
<1>3. ASSUME NEW r \in Requests, NEW u \in Users, BeginList(r, u), UNCHANGED janVars
      PROVE  TypeOK'
  BY <1>3, ProcessAssumption, SignalingAssumption DEF BeginList, Arrive, Goto,
     storeVars, keys, janVars, TypeOK, SignalingTypeOK, StoreTypeOK, LocalsReady,
     Processes, Sessions, HandlerSteps, SweepSteps, Closing
<1>4. ASSUME NEW r \in Requests, NEW c \in Codes, PickCode(r, c), UNCHANGED janVars
      PROVE  TypeOK'
  <2>2. StoreTypeOK'
    BY <1>4 DEF PickCode, Goto, storeVars, keys, TypeOK, SignalingTypeOK,
       StoreTypeOK, Sessions
  <2>3. pc' \in [Processes -> HandlerSteps \cup SweepSteps \cup Closing]
    BY <1>4, ProcessAssumption DEF PickCode, Goto, TypeOK, SignalingTypeOK,
       Processes, HandlerSteps
  <2>4. reply' \in [Requests -> {"ok", "error", None}]
    BY <1>4 DEF PickCode, Goto, TypeOK, SignalingTypeOK, Processes
  <2>5. /\ req' \in [Requests -> [op : {"create", "camera", "director", "close", "list", None},
                                user : Users \cup {None}, code : Codes \cup {None}]]
        /\ cur' \in [Processes -> Sessions \cup {None}]
        /\ todo' \in [Processes -> SUBSET Requests]
        /\ tries' \in [Requests -> 0..MaxRoomAttempts]
    <3>1. CASE roomCode[c] = None
      <4>1. req' = [req EXCEPT ![r].code = c]
        BY <1>4, <3>1 DEF PickCode
      <4>2. req' \in [Requests -> [op : {"create", "camera", "director", "close", "list", None},
                                  user : Users \cup {None}, code : Codes \cup {None}]]
        BY <4>1 DEF TypeOK, SignalingTypeOK
      <4> QED
        BY <1>4, <3>1, <4>2 DEF PickCode, TypeOK, SignalingTypeOK
    <3>2. CASE roomCode[c] # None
      <4>1. cur' = [cur EXCEPT ![r] = roomCode[c]] /\ roomCode[c] \in Sessions
        BY <1>4, <3>2 DEF PickCode, TypeOK, SignalingTypeOK, StoreTypeOK
      <4>2. cur' \in [Processes -> Sessions \cup {None}]
        BY <4>1 DEF TypeOK, SignalingTypeOK, Processes
      <4> QED
        BY <1>4, <3>2, <4>2 DEF PickCode, TypeOK, SignalingTypeOK
    <3> QED
      BY <3>1, <3>2
  <2>6. /\ ingress' \in [Requests -> {"none", "live", "deleted"}]
        /\ gauge' \in Int /\ faults' \in 0..MaxFaults
        /\ endedBefore' \in [Requests -> SUBSET Sessions]
    BY <1>4, SignalingAssumption DEF PickCode, Goto, TypeOK, SignalingTypeOK
  <2>7. /\ lock' \in Sweepers \cup {None} /\ overdue' \subseteq Sweepers
        /\ expired' \in [Sweepers -> SUBSET Sessions]
        /\ healthy' \in [Instances -> BOOLEAN]
    BY <1>4 DEF PickCode, janVars, TypeOK
  <2> QED
    BY <2>2, <2>3, <2>4, <2>5, <2>6, <2>7 DEF TypeOK, SignalingTypeOK
<1>5. ASSUME NEW r \in Requests, CheckCode(r), UNCHANGED janVars
      PROVE  TypeOK'
  <2>1. tries[r] < MaxRoomAttempts
    BY <1>5 DEF CheckCode, LocalsReady, Processes, HandlerSteps, SweepSteps,
       Closing
  <2>2. StoreTypeOK'
    BY <1>5, <2>1 DEF CheckCode, Goto, Reply, storeVars, keys, TypeOK,
       SignalingTypeOK, StoreTypeOK, Sessions
  <2>3. pc' \in [Processes -> HandlerSteps \cup SweepSteps \cup Closing]
    BY <1>5, <2>1, ProcessAssumption DEF CheckCode, Goto, Reply, TypeOK,
       SignalingTypeOK, Processes, HandlerSteps
  <2>4. reply' \in [Requests -> {"ok", "error", None}]
    BY <1>5, <2>1 DEF CheckCode, Goto, Reply, TypeOK, SignalingTypeOK, Processes
  <2>5. /\ req' \in [Requests -> [op : {"create", "camera", "director", "close", "list", None},
                                user : Users \cup {None}, code : Codes \cup {None}]]
        /\ cur' \in [Processes -> Sessions \cup {None}]
        /\ todo' \in [Processes -> SUBSET Requests]
        /\ tries' \in [Requests -> 0..MaxRoomAttempts]
    BY <1>5, <2>1, SignalingAssumption DEF CheckCode, Goto, Reply, TypeOK,
       SignalingTypeOK, StoreTypeOK, Processes, Sessions
  <2>6. /\ ingress' \in [Requests -> {"none", "live", "deleted"}]
        /\ gauge' \in Int /\ faults' \in 0..MaxFaults
        /\ endedBefore' \in [Requests -> SUBSET Sessions]
    BY <1>5, <2>1, SignalingAssumption DEF CheckCode, Goto, Reply, TypeOK,
       SignalingTypeOK
  <2>7. /\ lock' \in Sweepers \cup {None} /\ overdue' \subseteq Sweepers
        /\ expired' \in [Sweepers -> SUBSET Sessions]
        /\ healthy' \in [Instances -> BOOLEAN]
    BY <1>5, <2>1 DEF CheckCode, janVars, TypeOK
  <2> QED
    BY <2>2, <2>3, <2>4, <2>5, <2>6, <2>7 DEF TypeOK, SignalingTypeOK
<1>6. ASSUME NEW r \in Requests, Create(r), UNCHANGED janVars
      PROVE  TypeOK'
  BY <1>6, ProcessAssumption, SignalingAssumption DEF Create, Goto,
     CreatePipeline, storeVars, keys, janVars, TypeOK, SignalingTypeOK,
     StoreTypeOK, LocalsReady, Processes, Sessions, HandlerSteps, SweepSteps,
     Closing
<1>7. ASSUME NEW r \in Requests, NEW n \in {1, 2, 3, 5, 6}, CreateInterrupted(r, n),
             UNCHANGED janVars
      PROVE  TypeOK'
  BY <1>7, ProcessAssumption, SignalingAssumption DEF CreateInterrupted, Fault,
     CreatePipeline, local, storeVars, keys, janVars, TypeOK, SignalingTypeOK,
     StoreTypeOK, LocalsReady, Processes, Sessions, HandlerSteps, SweepSteps,
     Closing
<1>8. ASSUME NEW r \in Requests, Lookup(r), UNCHANGED janVars
      PROVE  TypeOK'
  <2>1. req[r].code \in Codes
    BY <1>8 DEF Lookup, LocalsReady, Processes, HandlerSteps, Closing
  <2>2. CASE roomCode[req[r].code] = None
    BY <1>8, ProcessAssumption, SignalingAssumption, <2>1, <2>2 DEF Lookup, Goto,
       Reply, storeVars, keys, janVars, TypeOK, SignalingTypeOK, StoreTypeOK,
       Processes, Sessions, HandlerSteps
  <2>3. CASE roomCode[req[r].code] # None
    BY <1>8, ProcessAssumption, SignalingAssumption, <2>1, <2>3 DEF Lookup, Goto,
       Reply, storeVars, keys, janVars, TypeOK, SignalingTypeOK, StoreTypeOK,
       Processes, Sessions, HandlerSteps
  <2> QED
    BY <1>8, <2>2, <2>3
<1>9. ASSUME NEW r \in Requests, Load(r), UNCHANGED janVars
      PROVE  TypeOK'
  <2>1. req[r].op \in {"camera", "director", "close"}
    BY <1>9 DEF Load, LocalsReady, Processes, HandlerSteps, SweepSteps, Closing
  <2>2. StoreTypeOK'
    BY <1>9, <2>1 DEF Load, Goto, Reply, FirstCall, MayProceed, Readable,
       storeVars, keys, TypeOK, SignalingTypeOK, StoreTypeOK, Sessions
  <2>3. pc' \in [Processes -> HandlerSteps \cup SweepSteps \cup Closing]
    <3>1. FirstCall[req[r].op] \in HandlerSteps \cup SweepSteps \cup Closing
      BY <2>1 DEF FirstCall, HandlerSteps, Closing
    <3>2. "done" \in HandlerSteps \cup SweepSteps \cup Closing
      BY DEF HandlerSteps
    <3>3. \E x \in HandlerSteps \cup SweepSteps \cup Closing : pc' = [pc EXCEPT ![r] = x]
      BY <1>9, <3>1, <3>2 DEF Load, Goto, Reply
    <3> QED
      BY <3>3 DEF TypeOK
  <2>4. reply' \in [Requests -> {"ok", "error", None}]
    BY <1>9, <2>1 DEF Load, Goto, Reply, FirstCall, MayProceed, Readable, TypeOK,
       SignalingTypeOK, Processes
  <2>5. /\ req' \in [Requests -> [op : {"create", "camera", "director", "close", "list", None},
                                user : Users \cup {None}, code : Codes \cup {None}]]
        /\ cur' \in [Processes -> Sessions \cup {None}]
        /\ todo' \in [Processes -> SUBSET Requests]
        /\ tries' \in [Requests -> 0..MaxRoomAttempts]
    BY <1>9, <2>1, SignalingAssumption DEF Load, Goto, Reply, FirstCall,
       MayProceed, Readable, TypeOK, SignalingTypeOK, StoreTypeOK, Processes,
       Sessions
  <2>6. /\ ingress' \in [Requests -> {"none", "live", "deleted"}]
        /\ gauge' \in Int /\ faults' \in 0..MaxFaults
        /\ endedBefore' \in [Requests -> SUBSET Sessions]
    BY <1>9, <2>1, SignalingAssumption DEF Load, Goto, Reply, FirstCall,
       MayProceed, Readable, TypeOK, SignalingTypeOK
  <2>7. /\ lock' \in Sweepers \cup {None} /\ overdue' \subseteq Sweepers
        /\ expired' \in [Sweepers -> SUBSET Sessions]
        /\ healthy' \in [Instances -> BOOLEAN]
    BY <1>9, <2>1 DEF Load, janVars, TypeOK
  <2> QED
    BY <2>2, <2>3, <2>4, <2>5, <2>6, <2>7 DEF TypeOK, SignalingTypeOK
<1>10. ASSUME NEW r \in Requests, NewIngress(r), UNCHANGED janVars
       PROVE  TypeOK'
  BY <1>10, ProcessAssumption, SignalingAssumption DEF NewIngress, Goto,
     storeVars, keys, janVars, TypeOK, SignalingTypeOK, StoreTypeOK, LocalsReady,
     Processes, Sessions, HandlerSteps, SweepSteps, Closing
<1>11. ASSUME NEW r \in Requests, NewIngressLost(r), UNCHANGED janVars
       PROVE  TypeOK'
  BY <1>11, ProcessAssumption, SignalingAssumption DEF NewIngressLost, Goto,
     Reply, Fault, storeVars, keys, janVars, TypeOK, SignalingTypeOK, StoreTypeOK,
     LocalsReady, Processes, Sessions, HandlerSteps, SweepSteps, Closing
<1>12. ASSUME NEW r \in Requests, GrantExists(r), UNCHANGED janVars
       PROVE  TypeOK'
  <2>2. CASE Exists(cur[r])
    BY <1>12, ProcessAssumption, SignalingAssumption, <2>2 DEF GrantExists, Goto,
       Reply, GrantError, storeVars, keys, janVars, TypeOK, SignalingTypeOK,
       StoreTypeOK, Processes, Sessions, HandlerSteps
  <2>3. CASE ~Exists(cur[r])
    BY <1>12, ProcessAssumption, SignalingAssumption, <2>3 DEF GrantExists, Goto,
       Reply, GrantError, storeVars, keys, janVars, TypeOK, SignalingTypeOK,
       StoreTypeOK, Processes, Sessions, HandlerSteps
  <2> QED
    BY <1>12, <2>2, <2>3
<1>13. ASSUME NEW r \in Requests, Grant(r), UNCHANGED janVars
       PROVE  TypeOK'
  <2>1. cur[r] \in Requests /\ req[r].user \in Users
    BY <1>13 DEF Grant, LocalsReady, Processes, HandlerSteps, SweepSteps, Closing
  <2>2. StoreTypeOK'
    BY <1>13, <2>1 DEF Grant, Goto, Reply, GrantAccess, GrantedRole, storeVars,
       keys, TypeOK, SignalingTypeOK, StoreTypeOK, Sessions
  <2>3. pc' \in [Processes -> HandlerSteps \cup SweepSteps \cup Closing]
    BY <1>13, <2>1, ProcessAssumption DEF Grant, Goto, Reply, GrantAccess,
       GrantedRole, TypeOK, SignalingTypeOK, Processes, HandlerSteps
  <2>4. reply' \in [Requests -> {"ok", "error", None}]
    BY <1>13, <2>1 DEF Grant, Goto, Reply, GrantAccess, GrantedRole, TypeOK,
       SignalingTypeOK, Processes
  <2>5. /\ req' \in [Requests -> [op : {"create", "camera", "director", "close", "list", None},
                                user : Users \cup {None}, code : Codes \cup {None}]]
        /\ cur' \in [Processes -> Sessions \cup {None}]
        /\ todo' \in [Processes -> SUBSET Requests]
        /\ tries' \in [Requests -> 0..MaxRoomAttempts]
    BY <1>13, <2>1, SignalingAssumption DEF Grant, Goto, Reply, GrantAccess,
       GrantedRole, TypeOK, SignalingTypeOK, StoreTypeOK, Processes, Sessions
  <2>6. /\ ingress' \in [Requests -> {"none", "live", "deleted"}]
        /\ gauge' \in Int /\ faults' \in 0..MaxFaults
        /\ endedBefore' \in [Requests -> SUBSET Sessions]
    BY <1>13, <2>1, SignalingAssumption DEF Grant, Goto, Reply, GrantAccess,
       GrantedRole, TypeOK, SignalingTypeOK
  <2>7. /\ lock' \in Sweepers \cup {None} /\ overdue' \subseteq Sweepers
        /\ expired' \in [Sweepers -> SUBSET Sessions]
        /\ healthy' \in [Instances -> BOOLEAN]
    BY <1>13, <2>1 DEF Grant, janVars, TypeOK
  <2> QED
    BY <2>2, <2>3, <2>4, <2>5, <2>6, <2>7 DEF TypeOK, SignalingTypeOK
<1>14. ASSUME NEW r \in Requests, GrantLost(r), UNCHANGED janVars
       PROVE  TypeOK'
  BY <1>14, ProcessAssumption, SignalingAssumption DEF GrantLost, Fault,
     GrantAccess, GrantedRole, local, storeVars, keys, janVars, TypeOK,
     SignalingTypeOK, StoreTypeOK, LocalsReady, Processes, Sessions, HandlerSteps,
     SweepSteps, Closing
<1>15. ASSUME NEW r \in Requests, Rollback(r), UNCHANGED janVars
       PROVE  TypeOK'
  BY <1>15, ProcessAssumption, SignalingAssumption DEF Rollback, Goto, Reply,
     storeVars, keys, janVars, TypeOK, SignalingTypeOK, StoreTypeOK, LocalsReady,
     Processes, Sessions, HandlerSteps, SweepSteps, Closing
<1>16. ASSUME NEW r \in Requests, Record(r), UNCHANGED janVars
       PROVE  TypeOK'
  BY <1>16, ProcessAssumption, SignalingAssumption DEF Record, Goto, Reply,
     AddIngressID, storeVars, keys, janVars, TypeOK, SignalingTypeOK, StoreTypeOK,
     LocalsReady, Processes, Sessions, HandlerSteps, SweepSteps, Closing
<1>17. ASSUME NEW r \in Requests, RecordLost(r), UNCHANGED janVars
       PROVE  TypeOK'
  BY <1>17, ProcessAssumption, SignalingAssumption DEF RecordLost, Fault,
     AddIngressID, local, storeVars, keys, janVars, TypeOK, SignalingTypeOK,
     StoreTypeOK, LocalsReady, Processes, Sessions, HandlerSteps, SweepSteps,
     Closing
<1>18. ASSUME NEW r \in Requests, List(r), UNCHANGED janVars
       PROVE  TypeOK'
  BY <1>18, ProcessAssumption, SignalingAssumption DEF List, Goto, storeVars,
     keys, janVars, TypeOK, SignalingTypeOK, StoreTypeOK, LocalsReady, Processes,
     Sessions, HandlerSteps, SweepSteps, Closing
<1>19. ASSUME NEW r \in Requests, NEW s \in Sessions, LoadEach(r, s), UNCHANGED janVars
       PROVE  TypeOK'
  <2>2. CASE Readable(s)
    BY <1>19, ProcessAssumption, SignalingAssumption, <2>2 DEF LoadEach, Goto,
       Reply, Readable, Exists, storeVars, keys, janVars, TypeOK, SignalingTypeOK,
       StoreTypeOK, Processes, Sessions, HandlerSteps
  <2>3. CASE ~Readable(s) /\ ~Exists(s)
    BY <1>19, ProcessAssumption, SignalingAssumption, <2>3 DEF LoadEach, Goto,
       Reply, Readable, Exists, storeVars, keys, janVars, TypeOK, SignalingTypeOK,
       StoreTypeOK, Processes, Sessions, HandlerSteps
  <2>4. CASE ~Readable(s) /\ Exists(s)
    BY <1>19, ProcessAssumption, SignalingAssumption, <2>4 DEF LoadEach, Goto,
       Reply, Readable, Exists, storeVars, keys, janVars, TypeOK, SignalingTypeOK,
       StoreTypeOK, Processes, Sessions, HandlerSteps
  <2> QED
    BY <1>19, <2>2, <2>3, <2>4
<1>20. ASSUME NEW r \in Requests, Forget(r), UNCHANGED janVars
       PROVE  TypeOK'
  BY <1>20, ProcessAssumption, SignalingAssumption DEF Forget, Goto,
     ForgetUserSession, storeVars, keys, janVars, TypeOK, SignalingTypeOK,
     StoreTypeOK, LocalsReady, Processes, Sessions, HandlerSteps, SweepSteps,
     Closing
<1>21. ASSUME NEW r \in Requests, ListDone(r), UNCHANGED janVars
       PROVE  TypeOK'
  BY <1>21, ProcessAssumption, SignalingAssumption DEF ListDone, Goto, Reply,
     storeVars, keys, janVars, TypeOK, SignalingTypeOK, StoreTypeOK, LocalsReady,
     Processes, Sessions, HandlerSteps, SweepSteps, Closing
<1>22. ASSUME NEW r \in Requests, CallFails(r), UNCHANGED janVars
       PROVE  TypeOK'
  <2>2. StoreTypeOK'
    BY <1>22 DEF CallFails, Goto, Reply, Fault, GrantError, storeVars, keys,
       TypeOK, SignalingTypeOK, StoreTypeOK, Sessions
  <2>3. pc' \in [Processes -> HandlerSteps \cup SweepSteps \cup Closing]
    BY <1>22, ProcessAssumption DEF CallFails, Goto, Reply, Fault, GrantError,
       TypeOK, SignalingTypeOK, Processes, HandlerSteps
  <2>4. reply' \in [Requests -> {"ok", "error", None}]
    BY <1>22 DEF CallFails, Goto, Reply, Fault, GrantError, TypeOK,
       SignalingTypeOK, Processes
  <2>5. /\ req' \in [Requests -> [op : {"create", "camera", "director", "close", "list", None},
                                user : Users \cup {None}, code : Codes \cup {None}]]
        /\ cur' \in [Processes -> Sessions \cup {None}]
        /\ todo' \in [Processes -> SUBSET Requests]
        /\ tries' \in [Requests -> 0..MaxRoomAttempts]
    BY <1>22, SignalingAssumption DEF CallFails, Goto, Reply, Fault, GrantError,
       TypeOK, SignalingTypeOK, StoreTypeOK, Processes, Sessions
  <2>6. /\ ingress' \in [Requests -> {"none", "live", "deleted"}]
        /\ gauge' \in Int /\ faults' \in 0..MaxFaults
        /\ endedBefore' \in [Requests -> SUBSET Sessions]
    BY <1>22, SignalingAssumption DEF CallFails, Goto, Reply, Fault, GrantError,
       TypeOK, SignalingTypeOK
  <2>7. /\ lock' \in Sweepers \cup {None} /\ overdue' \subseteq Sweepers
        /\ expired' \in [Sweepers -> SUBSET Sessions]
        /\ healthy' \in [Instances -> BOOLEAN]
    BY <1>22 DEF CallFails, janVars, TypeOK
  <2> QED
    BY <2>2, <2>3, <2>4, <2>5, <2>6, <2>7 DEF TypeOK, SignalingTypeOK
<1>23. ASSUME NEW r \in Requests, RequestDies(r), UNCHANGED janVars
       PROVE  TypeOK'
  BY <1>23, ProcessAssumption, SignalingAssumption DEF RequestDies, Goto, Fault,
     storeVars, keys, janVars, TypeOK, SignalingTypeOK, StoreTypeOK, LocalsReady,
     Processes, Sessions, HandlerSteps, SweepSteps, Closing
<1>24. ASSUME NEW p \in Processes, GetIngressIDs(p), UNCHANGED janVars
       PROVE  TypeOK'
  BY <1>24, ProcessAssumption, SignalingAssumption DEF GetIngressIDs, Goto,
     storeVars, keys, janVars, TypeOK, SignalingTypeOK, StoreTypeOK, LocalsReady,
     Processes, Sessions, HandlerSteps, SweepSteps, Closing
<1>25. ASSUME NEW p \in Processes, NEW i \in Requests, DeleteIngress(p, i),
              UNCHANGED janVars
       PROVE  TypeOK'
  BY <1>25, ProcessAssumption, SignalingAssumption DEF DeleteIngress, storeVars,
     keys, janVars, TypeOK, SignalingTypeOK, StoreTypeOK, LocalsReady, Processes,
     Sessions, HandlerSteps, SweepSteps, Closing
<1>26. ASSUME NEW p \in Processes, NEW i \in Requests, DeleteIngressFails(p, i),
              UNCHANGED janVars
       PROVE  TypeOK'
  BY <1>26, ProcessAssumption, SignalingAssumption DEF DeleteIngressFails,
     Fault, storeVars, keys, janVars, TypeOK, SignalingTypeOK, StoreTypeOK,
     LocalsReady, Processes, Sessions, HandlerSteps, SweepSteps, Closing
<1>27. ASSUME NEW p \in Processes, DeleteRoom(p), UNCHANGED janVars
       PROVE  TypeOK'
  BY <1>27, ProcessAssumption, SignalingAssumption DEF DeleteRoom, Goto,
     storeVars, keys, janVars, TypeOK, SignalingTypeOK, StoreTypeOK, LocalsReady,
     Processes, Sessions, HandlerSteps, SweepSteps, Closing
<1>28. ASSUME NEW p \in Processes, StatusExists(p), UNCHANGED janVars
       PROVE  TypeOK'
  <2>2. StoreTypeOK'
    BY <1>28 DEF StatusExists, Goto, Reply, CloseEnds, Exists, storeVars, keys,
       TypeOK, SignalingTypeOK, StoreTypeOK, Sessions
  <2>3. pc' \in [Processes -> HandlerSteps \cup SweepSteps \cup Closing]
    BY <1>28, ProcessAssumption DEF StatusExists, Goto, Reply, CloseEnds, Exists,
       TypeOK, SignalingTypeOK, Processes, HandlerSteps, SweepSteps, Closing
  <2>4. reply' \in [Requests -> {"ok", "error", None}]
    BY <1>28 DEF StatusExists, Goto, Reply, CloseEnds, Exists, TypeOK,
       SignalingTypeOK, Processes
  <2>5. /\ req' \in [Requests -> [op : {"create", "camera", "director", "close", "list", None},
                                user : Users \cup {None}, code : Codes \cup {None}]]
        /\ cur' \in [Processes -> Sessions \cup {None}]
        /\ todo' \in [Processes -> SUBSET Requests]
        /\ tries' \in [Requests -> 0..MaxRoomAttempts]
    BY <1>28, SignalingAssumption DEF StatusExists, Goto, Reply, CloseEnds, Exists,
       TypeOK, SignalingTypeOK, StoreTypeOK, Processes, Sessions
  <2>6. /\ ingress' \in [Requests -> {"none", "live", "deleted"}]
        /\ gauge' \in Int /\ faults' \in 0..MaxFaults
        /\ endedBefore' \in [Requests -> SUBSET Sessions]
    BY <1>28, SignalingAssumption DEF StatusExists, Goto, Reply, CloseEnds, Exists,
       TypeOK, SignalingTypeOK
  <2>7. /\ lock' \in Sweepers \cup {None} /\ overdue' \subseteq Sweepers
        /\ expired' \in [Sweepers -> SUBSET Sessions]
        /\ healthy' \in [Instances -> BOOLEAN]
    BY <1>28 DEF StatusExists, janVars, TypeOK
  <2> QED
    BY <2>2, <2>3, <2>4, <2>5, <2>6, <2>7 DEF TypeOK, SignalingTypeOK
<1>29. ASSUME NEW p \in Processes, SetStatus(p), UNCHANGED janVars
       PROVE  TypeOK'
  BY <1>29, ProcessAssumption, SignalingAssumption DEF SetStatus, Goto,
     SetStatusClosed, storeVars, keys, janVars, TypeOK, SignalingTypeOK,
     StoreTypeOK, LocalsReady, Processes, Sessions, HandlerSteps, SweepSteps,
     Closing
<1>30. ASSUME NEW p \in Processes, SetStatusLost(p), UNCHANGED janVars
       PROVE  TypeOK'
  BY <1>30, ProcessAssumption, SignalingAssumption DEF SetStatusLost, Fault,
     SetStatusClosed, local, storeVars, keys, janVars, TypeOK, SignalingTypeOK,
     StoreTypeOK, LocalsReady, Processes, Sessions, HandlerSteps, SweepSteps,
     Closing
<1>31. ASSUME NEW p \in Processes, ZRem(p), UNCHANGED janVars
       PROVE  TypeOK'
  <2>2. StoreTypeOK'
    BY <1>31 DEF ZRem, Goto, Reply, CloseEnds, RemoveActive, storeVars, keys,
       TypeOK, SignalingTypeOK, StoreTypeOK, Sessions
  <2>3. pc' \in [Processes -> HandlerSteps \cup SweepSteps \cup Closing]
    BY <1>31, ProcessAssumption DEF ZRem, Goto, Reply, CloseEnds, RemoveActive,
       TypeOK, SignalingTypeOK, Processes, HandlerSteps, SweepSteps
  <2>4. reply' \in [Requests -> {"ok", "error", None}]
    BY <1>31 DEF ZRem, Goto, Reply, CloseEnds, RemoveActive, TypeOK,
       SignalingTypeOK, Processes
  <2>5. /\ req' \in [Requests -> [op : {"create", "camera", "director", "close", "list", None},
                                user : Users \cup {None}, code : Codes \cup {None}]]
        /\ cur' \in [Processes -> Sessions \cup {None}]
        /\ todo' \in [Processes -> SUBSET Requests]
        /\ tries' \in [Requests -> 0..MaxRoomAttempts]
    BY <1>31, SignalingAssumption DEF ZRem, Goto, Reply, CloseEnds, RemoveActive,
       TypeOK, SignalingTypeOK, StoreTypeOK, Processes, Sessions
  <2>6. /\ ingress' \in [Requests -> {"none", "live", "deleted"}]
        /\ gauge' \in Int /\ faults' \in 0..MaxFaults
        /\ endedBefore' \in [Requests -> SUBSET Sessions]
    BY <1>31, SignalingAssumption DEF ZRem, Goto, Reply, CloseEnds, RemoveActive,
       TypeOK, SignalingTypeOK
  <2>7. /\ lock' \in Sweepers \cup {None} /\ overdue' \subseteq Sweepers
        /\ expired' \in [Sweepers -> SUBSET Sessions]
        /\ healthy' \in [Instances -> BOOLEAN]
    BY <1>31 DEF ZRem, janVars, TypeOK
  <2> QED
    BY <2>2, <2>3, <2>4, <2>5, <2>6, <2>7 DEF TypeOK, SignalingTypeOK
<1>32. ASSUME NEW p \in Processes, CloseCallFails(p), UNCHANGED janVars
       PROVE  TypeOK'
  <2>2. StoreTypeOK'
    BY <1>32 DEF CloseCallFails, Goto, Reply, CloseEnds, Fault, storeVars, keys,
       TypeOK, SignalingTypeOK, StoreTypeOK, Sessions
  <2>3. pc' \in [Processes -> HandlerSteps \cup SweepSteps \cup Closing]
    BY <1>32, ProcessAssumption DEF CloseCallFails, Goto, Reply, CloseEnds, Fault,
       TypeOK, SignalingTypeOK, Processes, HandlerSteps, SweepSteps, Closing
  <2>4. reply' \in [Requests -> {"ok", "error", None}]
    BY <1>32 DEF CloseCallFails, Goto, Reply, CloseEnds, Fault, TypeOK,
       SignalingTypeOK, Processes
  <2>5. /\ req' \in [Requests -> [op : {"create", "camera", "director", "close", "list", None},
                                user : Users \cup {None}, code : Codes \cup {None}]]
        /\ cur' \in [Processes -> Sessions \cup {None}]
        /\ todo' \in [Processes -> SUBSET Requests]
        /\ tries' \in [Requests -> 0..MaxRoomAttempts]
    BY <1>32, SignalingAssumption DEF CloseCallFails, Goto, Reply, CloseEnds,
       Fault, TypeOK, SignalingTypeOK, StoreTypeOK, Processes, Sessions
  <2>6. /\ ingress' \in [Requests -> {"none", "live", "deleted"}]
        /\ gauge' \in Int /\ faults' \in 0..MaxFaults
        /\ endedBefore' \in [Requests -> SUBSET Sessions]
    BY <1>32, SignalingAssumption DEF CloseCallFails, Goto, Reply, CloseEnds,
       Fault, TypeOK, SignalingTypeOK
  <2>7. /\ lock' \in Sweepers \cup {None} /\ overdue' \subseteq Sweepers
        /\ expired' \in [Sweepers -> SUBSET Sessions]
        /\ healthy' \in [Instances -> BOOLEAN]
    BY <1>32 DEF CloseCallFails, janVars, TypeOK
  <2> QED
    BY <2>2, <2>3, <2>4, <2>5, <2>6, <2>7 DEF TypeOK, SignalingTypeOK
<1>33. ASSUME NEW w \in Sweepers, Lock(w)
       PROVE  TypeOK'
  <2>2. CASE lock = None
    BY <1>33, ProcessAssumption, SignalingAssumption, <2>2 DEF Lock, Goto,
       storeVars, keys, janVars, TypeOK, SignalingTypeOK, StoreTypeOK, Processes,
       Sessions, SweepSteps
  <2>3. CASE lock # None
    BY <1>33, ProcessAssumption, SignalingAssumption, <2>3 DEF Lock, Goto,
       storeVars, keys, janVars, TypeOK, SignalingTypeOK, StoreTypeOK, Processes,
       Sessions, SweepSteps
  <2> QED
    BY <1>33, <2>2, <2>3
<1>34. ASSUME NEW w \in Sweepers, Range(w)
       PROVE  TypeOK'
  BY <1>34, ProcessAssumption, SignalingAssumption DEF Range, Goto, storeVars,
     keys, janVars, TypeOK, SignalingTypeOK, StoreTypeOK, LocalsReady, Processes,
     Sessions, HandlerSteps, SweepSteps, Closing
<1>35. ASSUME NEW w \in Sweepers, NEW s \in Sessions, Fetch(w, s)
       PROVE  TypeOK'
  <2>2. CASE hash[s] = "active"
    BY <1>35, ProcessAssumption, SignalingAssumption, <2>2 DEF Fetch, Goto,
       storeVars, keys, janVars, TypeOK, SignalingTypeOK, StoreTypeOK, Processes,
       Sessions, SweepSteps
  <2>3. CASE hash[s] = "closed"
    BY <1>35, ProcessAssumption, SignalingAssumption, <2>3 DEF Fetch, Goto,
       storeVars, keys, janVars, TypeOK, SignalingTypeOK, StoreTypeOK, Processes,
       Sessions, SweepSteps
  <2>4. CASE hash[s] \in {"absent", "partial"}
    BY <1>35, ProcessAssumption, SignalingAssumption, <2>4 DEF Fetch, Goto,
       storeVars, keys, janVars, TypeOK, SignalingTypeOK, StoreTypeOK, Processes,
       Sessions, SweepSteps
  <2> QED
    BY <2>2, <2>3, <2>4 DEF TypeOK, SignalingTypeOK, StoreTypeOK, Sessions
<1>36. ASSUME NEW w \in Sweepers, Drop(w)
       PROVE  TypeOK'
  BY <1>36, ProcessAssumption, SignalingAssumption DEF Drop, Goto, RemoveActive,
     storeVars, keys, janVars, TypeOK, SignalingTypeOK, StoreTypeOK, LocalsReady,
     Processes, Sessions, HandlerSteps, SweepSteps, Closing
<1>37. ASSUME NEW w \in Sweepers, FetchDone(w)
       PROVE  TypeOK'
  BY <1>37, ProcessAssumption, SignalingAssumption DEF FetchDone, Goto,
     storeVars, keys, janVars, TypeOK, SignalingTypeOK, StoreTypeOK, LocalsReady,
     Processes, Sessions, HandlerSteps, SweepSteps, Closing
<1>38. ASSUME NEW w \in Sweepers, NEW s \in Sessions, CloseExpired(w, s)
       PROVE  TypeOK'
  BY <1>38, ProcessAssumption, SignalingAssumption DEF CloseExpired, Goto,
     storeVars, keys, janVars, TypeOK, SignalingTypeOK, StoreTypeOK, LocalsReady,
     Processes, Sessions, HandlerSteps, SweepSteps, Closing
<1>39. ASSUME NEW w \in Sweepers, SweepDone(w)
       PROVE  TypeOK'
  BY <1>39, ProcessAssumption, SignalingAssumption DEF SweepDone, Goto,
     storeVars, keys, janVars, TypeOK, SignalingTypeOK, StoreTypeOK, LocalsReady,
     Processes, Sessions, HandlerSteps, SweepSteps, Closing
<1>40. ASSUME NEW w \in Sweepers, Release(w)
       PROVE  TypeOK'
  BY <1>40, ProcessAssumption, SignalingAssumption DEF Release, Goto,
     InstanceOf, storeVars, keys, janVars, TypeOK, SignalingTypeOK, StoreTypeOK,
     LocalsReady, Processes, Sessions, HandlerSteps, SweepSteps, Closing
<1>41. ASSUME NEW w \in Sweepers, SweepCallFails(w)
       PROVE  TypeOK'
  <2>2. StoreTypeOK'
    BY <1>41 DEF SweepCallFails, Goto, Fault, storeVars, keys, TypeOK,
       SignalingTypeOK, StoreTypeOK, Sessions
  <2>3. pc' \in [Processes -> HandlerSteps \cup SweepSteps \cup Closing]
    BY <1>41, ProcessAssumption DEF SweepCallFails, Goto, Fault, TypeOK,
       SignalingTypeOK, Processes, SweepSteps
  <2>4. reply' \in [Requests -> {"ok", "error", None}]
    BY <1>41 DEF SweepCallFails, Goto, Fault, TypeOK, SignalingTypeOK, Processes
  <2>5. /\ req' \in [Requests -> [op : {"create", "camera", "director", "close", "list", None},
                                user : Users \cup {None}, code : Codes \cup {None}]]
        /\ cur' \in [Processes -> Sessions \cup {None}]
        /\ todo' \in [Processes -> SUBSET Requests]
        /\ tries' \in [Requests -> 0..MaxRoomAttempts]
    BY <1>41, SignalingAssumption DEF SweepCallFails, Goto, Fault, TypeOK,
       SignalingTypeOK, StoreTypeOK, Processes, Sessions
  <2>6. /\ ingress' \in [Requests -> {"none", "live", "deleted"}]
        /\ gauge' \in Int /\ faults' \in 0..MaxFaults
        /\ endedBefore' \in [Requests -> SUBSET Sessions]
    BY <1>41, SignalingAssumption DEF SweepCallFails, Goto, Fault, TypeOK,
       SignalingTypeOK
  <2>7. /\ lock' \in Sweepers \cup {None} /\ overdue' \subseteq Sweepers
        /\ expired' \in [Sweepers -> SUBSET Sessions]
        /\ healthy' \in [Instances -> BOOLEAN]
    BY <1>41 DEF SweepCallFails, janVars, TypeOK
  <2> QED
    BY <2>2, <2>3, <2>4, <2>5, <2>6, <2>7 DEF TypeOK, SignalingTypeOK
<1>42. ASSUME NEW w \in Sweepers, LockLost(w)
       PROVE  TypeOK'
  BY <1>42, ProcessAssumption, SignalingAssumption DEF LockLost, Goto, Fault,
     storeVars, keys, janVars, TypeOK, SignalingTypeOK, StoreTypeOK, LocalsReady,
     Processes, Sessions, HandlerSteps, SweepSteps, Closing
<1>43. ASSUME NEW i \in Instances, Tick(i)
       PROVE  TypeOK'
  BY <1>43, ProcessAssumption, SignalingAssumption DEF Tick, Goto, storeVars,
     keys, janVars, TypeOK, SignalingTypeOK, StoreTypeOK, LocalsReady, Processes,
     Sessions, HandlerSteps, SweepSteps, Closing
<1>44. ASSUME NEW i \in Instances, Reconnect(i)
       PROVE  TypeOK'
  BY <1>44, ProcessAssumption, SignalingAssumption DEF Reconnect, Goto,
     storeVars, keys, janVars, TypeOK, SignalingTypeOK, StoreTypeOK, LocalsReady,
     Processes, Sessions, HandlerSteps, SweepSteps, Closing
<1>45. ASSUME NEW i \in Instances, PingFails(i)
       PROVE  TypeOK'
  BY <1>45, ProcessAssumption, SignalingAssumption DEF PingFails, sigVars, local,
     storeVars, keys, janVars, TypeOK, SignalingTypeOK, StoreTypeOK, LocalsReady,
     Processes, Sessions, HandlerSteps, SweepSteps, Closing
<1>46. ASSUME NEW i \in Instances, Crash(i)
       PROVE  TypeOK'
  BY <1>46, ProcessAssumption, SignalingAssumption DEF Crash, Fault, InstanceOf,
     storeVars, keys, janVars, TypeOK, SignalingTypeOK, StoreTypeOK, LocalsReady,
     Processes, Sessions, HandlerSteps, SweepSteps, Closing
<1>47. ASSUME LockExpires
       PROVE  TypeOK'
  BY <1>47, ProcessAssumption, SignalingAssumption DEF LockExpires, InSweep,
     sigVars, local, storeVars, keys, janVars, TypeOK, SignalingTypeOK,
     StoreTypeOK, LocalsReady, Processes, Sessions, HandlerSteps, SweepSteps,
     Closing
<1>48. ASSUME NEW s \in Sessions, Lapse(s)
       PROVE  TypeOK'
  BY <1>48, ProcessAssumption, SignalingAssumption DEF Lapse, local, storeVars,
     keys, janVars, TypeOK, SignalingTypeOK, StoreTypeOK, LocalsReady, Processes,
     Sessions, HandlerSteps, SweepSteps, Closing
<1>49. ASSUME Expire
       PROVE  TypeOK'
  <2>0. UNCHANGED <<local, ingress, gauge, faults, endedBefore, janVars>>
    BY <1>49 DEF Expire
  <2>1. ASSUME NEW s \in Sessions, ExpireHash(s)
        PROVE  TypeOK'
    BY <2>0, <2>1 DEF ExpireHash, local, janVars, TypeOK, SignalingTypeOK,
       StoreTypeOK, Processes, Sessions
  <2>2. ASSUME NEW s \in Sessions, ExpireAccess(s)
        PROVE  TypeOK'
    BY <2>0, <2>2 DEF ExpireAccess, local, janVars, TypeOK, SignalingTypeOK,
       StoreTypeOK, Processes, Sessions
  <2>3. ASSUME NEW s \in Sessions, ExpireIngressIDs(s)
        PROVE  TypeOK'
    BY <2>0, <2>3 DEF ExpireIngressIDs, local, janVars, TypeOK, SignalingTypeOK,
       StoreTypeOK, Processes, Sessions
  <2>4. ASSUME NEW c \in Codes, ExpireRoomCode(c)
        PROVE  TypeOK'
    BY <2>0, <2>4 DEF ExpireRoomCode, local, janVars, TypeOK, SignalingTypeOK,
       StoreTypeOK, Processes, Sessions
  <2>5. ASSUME NEW u \in Users, ExpireUserSessions(u)
        PROVE  TypeOK'
    BY <2>0, <2>5 DEF ExpireUserSessions, local, janVars, TypeOK,
       SignalingTypeOK, StoreTypeOK, Processes, Sessions
  <2> QED
    BY <1>49, <2>1, <2>2, <2>3, <2>4, <2>5 DEF Expire, Expiry
<1>50. CASE UNCHANGED vars
  BY <1>50 DEF vars, sigVars, storeVars, keys, local, janVars, TypeOK,
     SignalingTypeOK, StoreTypeOK, LocalsReady, Processes, Sessions, HandlerSteps,
     SweepSteps, Closing
<1>51. ASSUME NEW w \in Sweepers, ReleaseLost(w)
       PROVE  TypeOK'
  BY <1>51, ProcessAssumption, SignalingAssumption DEF ReleaseLost, Fault, InstanceOf, local,
     storeVars, keys, janVars, TypeOK, SignalingTypeOK, StoreTypeOK, LocalsReady,
     Processes, Sessions, HandlerSteps, SweepSteps, Closing
<1> QED
  BY <1>1, <1>2, <1>3, <1>4, <1>5, <1>6, <1>7, <1>8, <1>9, <1>10, <1>11, <1>12,
     <1>13, <1>14, <1>15, <1>16, <1>17, <1>18, <1>19, <1>20, <1>21, <1>22, <1>23,
     <1>24, <1>25, <1>26, <1>27, <1>28, <1>29, <1>30, <1>31, <1>32, <1>33, <1>34,
     <1>35, <1>36, <1>37, <1>38, <1>39, <1>40, <1>41, <1>42, <1>43, <1>44, <1>45,
     <1>46, <1>47, <1>48, <1>49, <1>50, <1>51 DEF Next, Request, Begin, Handle,
     HandleFault, CloseStep, Close, CloseFault, Sweep

\* Every step leaves the locals of the calls to come set.
LEMMA LocalsInductive ==
  ASSUME TypeOK, LocalsReady, [Next]_vars
  PROVE  LocalsReady'
<1>1. ASSUME NEW r \in Requests, NEW u \in Users, BeginCreate(r, u), UNCHANGED janVars
      PROVE  LocalsReady'
  BY <1>1, ProcessAssumption, SignalingAssumption DEF BeginCreate, Arrive, Goto,
     storeVars, keys, janVars, LocalsReady, TypeOK, SignalingTypeOK, StoreTypeOK,
     Processes, Sessions, HandlerSteps, SweepSteps, Closing
<1>2. ASSUME NEW r \in Requests, NEW op \in DOMAIN FirstCall, NEW u \in Users,
             NEW c \in Codes, BeginByCode(r, op, u, c), UNCHANGED janVars
      PROVE  LocalsReady'
  BY <1>2, ProcessAssumption, SignalingAssumption DEF BeginByCode, Arrive, Goto,
     FirstCall, storeVars, keys, janVars, LocalsReady, TypeOK, SignalingTypeOK,
     StoreTypeOK, Processes, Sessions, HandlerSteps, SweepSteps, Closing
<1>3. ASSUME NEW r \in Requests, NEW u \in Users, BeginList(r, u), UNCHANGED janVars
      PROVE  LocalsReady'
  BY <1>3, ProcessAssumption, SignalingAssumption DEF BeginList, Arrive, Goto,
     storeVars, keys, janVars, LocalsReady, TypeOK, SignalingTypeOK, StoreTypeOK,
     Processes, Sessions, HandlerSteps, SweepSteps, Closing
<1>4. ASSUME NEW r \in Requests, NEW c \in Codes, PickCode(r, c), UNCHANGED janVars
      PROVE  LocalsReady'
  <2>1. CASE roomCode[c] = None
    <3>1. /\ pc' = [pc EXCEPT ![r] = "create"]
          /\ cur' = cur
          /\ req' = [req EXCEPT ![r].code = c]
          /\ tries' = tries
      BY <1>4, <2>1 DEF PickCode, Goto
    <3> QED
      BY <1>4, <2>1, <3>1, ProcessAssumption DEF PickCode, LocalsReady, TypeOK,
         SignalingTypeOK, Processes, Sessions, StoreTypeOK, HandlerSteps,
         SweepSteps, Closing
  <2>2. CASE roomCode[c] # None
    <3>1. /\ pc' = [pc EXCEPT ![r] = "check_code"]
          /\ cur' = [cur EXCEPT ![r] = roomCode[c]]
          /\ req' = req
          /\ tries' = tries
      BY <1>4, <2>2 DEF PickCode, Goto
    <3> QED
      BY <1>4, <2>2, <3>1, ProcessAssumption DEF PickCode, LocalsReady, TypeOK,
         SignalingTypeOK, Processes, Sessions, StoreTypeOK, HandlerSteps,
         SweepSteps, Closing
  <2> QED
    BY <1>4, <2>1, <2>2 DEF PickCode
<1>5. ASSUME NEW r \in Requests, CheckCode(r), UNCHANGED janVars
      PROVE  LocalsReady'
  <2>1. CASE Readable(cur[r]) /\ tries[r] + 1 < MaxRoomAttempts
    <3>1. /\ pc' = [pc EXCEPT ![r] = "pick_code"]
          /\ cur' = [cur EXCEPT ![r] = r]
          /\ req' = req
          /\ tries' = [tries EXCEPT ![r] = @ + 1]
      BY <1>5, <2>1 DEF CheckCode, Goto, Reply
    <3> QED
      BY <1>5, <2>1, <3>1, ProcessAssumption, SignalingAssumption DEF CheckCode,
         LocalsReady, TypeOK, SignalingTypeOK, Processes, Sessions, HandlerSteps,
         SweepSteps, Closing
  <2>2. CASE ~(Readable(cur[r]) /\ tries[r] + 1 < MaxRoomAttempts)
    <3>1. /\ pc' = [pc EXCEPT ![r] = "done"]
          /\ cur' = [cur EXCEPT ![r] = r]
          /\ req' = req
          /\ tries' = [tries EXCEPT ![r] = @ + 1]
      BY <1>5, <2>2 DEF CheckCode, Goto, Reply
    <3> QED
      BY <1>5, <2>2, <3>1, ProcessAssumption, SignalingAssumption DEF CheckCode,
         LocalsReady, TypeOK, SignalingTypeOK, Processes, Sessions, HandlerSteps,
         SweepSteps, Closing
  <2> QED
    BY <1>5, <2>1, <2>2 DEF CheckCode
<1>6. ASSUME NEW r \in Requests, Create(r), UNCHANGED janVars
      PROVE  LocalsReady'
  BY <1>6, ProcessAssumption, SignalingAssumption DEF Create, Goto,
     CreatePipeline, storeVars, keys, janVars, LocalsReady, TypeOK,
     SignalingTypeOK, StoreTypeOK, Processes, Sessions, HandlerSteps, SweepSteps,
     Closing
<1>7. ASSUME NEW r \in Requests, NEW n \in {1, 2, 3, 5, 6}, CreateInterrupted(r, n),
             UNCHANGED janVars
      PROVE  LocalsReady'
  BY <1>7, ProcessAssumption, SignalingAssumption DEF CreateInterrupted, Fault,
     CreatePipeline, local, storeVars, keys, janVars, LocalsReady, TypeOK,
     SignalingTypeOK, StoreTypeOK, Processes, Sessions, HandlerSteps, SweepSteps,
     Closing
<1>8. ASSUME NEW r \in Requests, Lookup(r), UNCHANGED janVars
      PROVE  LocalsReady'
  <2>1. CASE roomCode[req[r].code] = None
    <3>1. /\ pc' = [pc EXCEPT ![r] = "done"]
          /\ cur' = cur
          /\ req' = req
          /\ tries' = tries
      BY <1>8, <2>1 DEF Lookup, Goto, Reply
    <3> QED
      BY <1>8, <2>1, <3>1, ProcessAssumption DEF Lookup, LocalsReady, TypeOK,
         SignalingTypeOK, Processes, Sessions, StoreTypeOK, HandlerSteps,
         SweepSteps, Closing
  <2>2. CASE roomCode[req[r].code] # None
    <3>1. /\ pc' = [pc EXCEPT ![r] = "load"]
          /\ cur' = [cur EXCEPT ![r] = roomCode[req[r].code]]
          /\ req' = req
          /\ tries' = tries
      BY <1>8, <2>2 DEF Lookup, Goto, Reply
    <3> QED
      BY <1>8, <2>2, <3>1, ProcessAssumption DEF Lookup, LocalsReady, TypeOK,
         SignalingTypeOK, Processes, Sessions, StoreTypeOK, HandlerSteps,
         SweepSteps, Closing
  <2> QED
    BY <1>8, <2>1, <2>2 DEF Lookup
<1>9. ASSUME NEW r \in Requests, Load(r), UNCHANGED janVars
      PROVE  LocalsReady'
  <2>1. CASE MayProceed(r)
    <3>1. /\ pc' = [pc EXCEPT ![r] = FirstCall[req[r].op]]
          /\ cur' = cur
          /\ req' = req
          /\ tries' = tries
      BY <1>9, <2>1 DEF Load, Goto, Reply, FirstCall
    <3> QED
      BY <1>9, <2>1, <3>1, ProcessAssumption DEF Load, LocalsReady, TypeOK,
         SignalingTypeOK, Processes, Sessions, FirstCall, HandlerSteps, SweepSteps,
         Closing
  <2>2. CASE ~MayProceed(r)
    <3>1. /\ pc' = [pc EXCEPT ![r] = "done"]
          /\ cur' = cur
          /\ req' = req
          /\ tries' = tries
      BY <1>9, <2>2 DEF Load, Goto, Reply, FirstCall
    <3> QED
      BY <1>9, <2>2, <3>1, ProcessAssumption DEF Load, LocalsReady, TypeOK,
         SignalingTypeOK, Processes, Sessions, FirstCall, HandlerSteps, SweepSteps,
         Closing
  <2> QED
    BY <1>9, <2>1, <2>2 DEF Load
<1>10. ASSUME NEW r \in Requests, NewIngress(r), UNCHANGED janVars
       PROVE  LocalsReady'
  BY <1>10, ProcessAssumption, SignalingAssumption DEF NewIngress, Goto,
     storeVars, keys, janVars, LocalsReady, TypeOK, SignalingTypeOK, StoreTypeOK,
     Processes, Sessions, HandlerSteps, SweepSteps, Closing
<1>11. ASSUME NEW r \in Requests, NewIngressLost(r), UNCHANGED janVars
       PROVE  LocalsReady'
  BY <1>11, ProcessAssumption, SignalingAssumption DEF NewIngressLost, Goto,
     Reply, Fault, storeVars, keys, janVars, LocalsReady, TypeOK, SignalingTypeOK,
     StoreTypeOK, Processes, Sessions, HandlerSteps, SweepSteps, Closing
<1>12. ASSUME NEW r \in Requests, GrantExists(r), UNCHANGED janVars
       PROVE  LocalsReady'
  <2>1. CASE Exists(cur[r])
    <3>1. /\ pc' = [pc EXCEPT ![r] = "grant"]
          /\ cur' = cur
          /\ req' = req
          /\ tries' = tries
      BY <1>12, <2>1 DEF GrantExists, Goto, Reply, GrantError
    <3> QED
      BY <1>12, <2>1, <3>1, ProcessAssumption DEF GrantExists, LocalsReady,
         TypeOK, SignalingTypeOK, Processes, Sessions, HandlerSteps, SweepSteps,
         Closing
  <2>2. CASE ~Exists(cur[r]) /\ req[r].op = "camera"
    <3>1. /\ pc' = [pc EXCEPT ![r] = "rollback"]
          /\ cur' = cur
          /\ req' = req
          /\ tries' = tries
      BY <1>12, <2>2 DEF GrantExists, Goto, Reply, GrantError
    <3> QED
      BY <1>12, <2>2, <3>1, ProcessAssumption DEF GrantExists, LocalsReady,
         TypeOK, SignalingTypeOK, Processes, Sessions, HandlerSteps, SweepSteps,
         Closing
  <2>3. CASE ~Exists(cur[r]) /\ req[r].op # "camera"
    <3>1. /\ pc' = [pc EXCEPT ![r] = "done"]
          /\ cur' = cur
          /\ req' = req
          /\ tries' = tries
      BY <1>12, <2>3 DEF GrantExists, Goto, Reply, GrantError
    <3> QED
      BY <1>12, <2>3, <3>1, ProcessAssumption DEF GrantExists, LocalsReady,
         TypeOK, SignalingTypeOK, Processes, Sessions, HandlerSteps, SweepSteps,
         Closing
  <2> QED
    BY <1>12, <2>1, <2>2, <2>3 DEF GrantExists
<1>13. ASSUME NEW r \in Requests, Grant(r), UNCHANGED janVars
       PROVE  LocalsReady'
  <2>1. CASE req[r].op = "camera"
    <3>1. /\ pc' = [pc EXCEPT ![r] = "record"]
          /\ cur' = cur
          /\ req' = req
          /\ tries' = tries
      BY <1>13, <2>1 DEF Grant, Goto, Reply, GrantAccess, GrantedRole
    <3> QED
      BY <1>13, <2>1, <3>1, ProcessAssumption DEF Grant, LocalsReady, TypeOK,
         SignalingTypeOK, Processes, Sessions, HandlerSteps, SweepSteps, Closing
  <2>2. CASE req[r].op # "camera"
    <3>1. /\ pc' = [pc EXCEPT ![r] = "done"]
          /\ cur' = cur
          /\ req' = req
          /\ tries' = tries
      BY <1>13, <2>2 DEF Grant, Goto, Reply, GrantAccess, GrantedRole
    <3> QED
      BY <1>13, <2>2, <3>1, ProcessAssumption DEF Grant, LocalsReady, TypeOK,
         SignalingTypeOK, Processes, Sessions, HandlerSteps, SweepSteps, Closing
  <2> QED
    BY <1>13, <2>1, <2>2 DEF Grant
<1>14. ASSUME NEW r \in Requests, GrantLost(r), UNCHANGED janVars
       PROVE  LocalsReady'
  BY <1>14, ProcessAssumption, SignalingAssumption DEF GrantLost, Fault,
     GrantAccess, GrantedRole, local, storeVars, keys, janVars, LocalsReady,
     TypeOK, SignalingTypeOK, StoreTypeOK, Processes, Sessions, HandlerSteps,
     SweepSteps, Closing
<1>15. ASSUME NEW r \in Requests, Rollback(r), UNCHANGED janVars
       PROVE  LocalsReady'
  BY <1>15, ProcessAssumption, SignalingAssumption DEF Rollback, Goto, Reply,
     storeVars, keys, janVars, LocalsReady, TypeOK, SignalingTypeOK, StoreTypeOK,
     Processes, Sessions, HandlerSteps, SweepSteps, Closing
<1>16. ASSUME NEW r \in Requests, Record(r), UNCHANGED janVars
       PROVE  LocalsReady'
  BY <1>16, ProcessAssumption, SignalingAssumption DEF Record, Goto, Reply,
     AddIngressID, storeVars, keys, janVars, LocalsReady, TypeOK, SignalingTypeOK,
     StoreTypeOK, Processes, Sessions, HandlerSteps, SweepSteps, Closing
<1>17. ASSUME NEW r \in Requests, RecordLost(r), UNCHANGED janVars
       PROVE  LocalsReady'
  BY <1>17, ProcessAssumption, SignalingAssumption DEF RecordLost, Fault,
     AddIngressID, local, storeVars, keys, janVars, LocalsReady, TypeOK,
     SignalingTypeOK, StoreTypeOK, Processes, Sessions, HandlerSteps, SweepSteps,
     Closing
<1>18. ASSUME NEW r \in Requests, List(r), UNCHANGED janVars
       PROVE  LocalsReady'
  BY <1>18, ProcessAssumption, SignalingAssumption DEF List, Goto, storeVars,
     keys, janVars, LocalsReady, TypeOK, SignalingTypeOK, StoreTypeOK, Processes,
     Sessions, HandlerSteps, SweepSteps, Closing
<1>19. ASSUME NEW r \in Requests, NEW s \in Sessions, LoadEach(r, s), UNCHANGED janVars
       PROVE  LocalsReady'
  <2>1. CASE Readable(s)
    <3>1. /\ pc' = pc
          /\ cur' = [cur EXCEPT ![r] = s]
          /\ req' = req
          /\ tries' = tries
      BY <1>19, <2>1 DEF LoadEach, Goto, Reply, Readable, Exists
    <3> QED
      BY <1>19, <2>1, <3>1, ProcessAssumption DEF LoadEach, LocalsReady, TypeOK,
         SignalingTypeOK, Processes, Sessions, HandlerSteps, SweepSteps, Closing
  <2>2. CASE ~Readable(s) /\ ~Exists(s)
    <3>1. /\ pc' = [pc EXCEPT ![r] = "forget"]
          /\ cur' = [cur EXCEPT ![r] = s]
          /\ req' = req
          /\ tries' = tries
      BY <1>19, <2>2 DEF LoadEach, Goto, Reply, Readable, Exists
    <3> QED
      BY <1>19, <2>2, <3>1, ProcessAssumption DEF LoadEach, LocalsReady, TypeOK,
         SignalingTypeOK, Processes, Sessions, HandlerSteps, SweepSteps, Closing
  <2>3. CASE ~Readable(s) /\ Exists(s)
    <3>1. /\ pc' = [pc EXCEPT ![r] = "done"]
          /\ cur' = [cur EXCEPT ![r] = s]
          /\ req' = req
          /\ tries' = tries
      BY <1>19, <2>3 DEF LoadEach, Goto, Reply, Readable, Exists
    <3> QED
      BY <1>19, <2>3, <3>1, ProcessAssumption DEF LoadEach, LocalsReady, TypeOK,
         SignalingTypeOK, Processes, Sessions, HandlerSteps, SweepSteps, Closing
  <2> QED
    BY <1>19, <2>1, <2>2, <2>3 DEF LoadEach
<1>20. ASSUME NEW r \in Requests, Forget(r), UNCHANGED janVars
       PROVE  LocalsReady'
  BY <1>20, ProcessAssumption, SignalingAssumption DEF Forget, Goto,
     ForgetUserSession, storeVars, keys, janVars, LocalsReady, TypeOK,
     SignalingTypeOK, StoreTypeOK, Processes, Sessions, HandlerSteps, SweepSteps,
     Closing
<1>21. ASSUME NEW r \in Requests, ListDone(r), UNCHANGED janVars
       PROVE  LocalsReady'
  BY <1>21, ProcessAssumption, SignalingAssumption DEF ListDone, Goto, Reply,
     storeVars, keys, janVars, LocalsReady, TypeOK, SignalingTypeOK, StoreTypeOK,
     Processes, Sessions, HandlerSteps, SweepSteps, Closing
<1>22. ASSUME NEW r \in Requests, CallFails(r), UNCHANGED janVars
       PROVE  LocalsReady'
  <2>1. CASE pc[r] \in {"pick_code", "check_code", "create", "lookup", "load", "new_ingress",
                       "rollback", "list", "load_each", "record"}
    <3>1. /\ pc' = [pc EXCEPT ![r] = "done"]
          /\ cur' = cur
          /\ req' = req
          /\ tries' = tries
      BY <1>22, <2>1 DEF CallFails, Goto, Reply, Fault, GrantError
    <3> QED
      BY <1>22, <2>1, <3>1, ProcessAssumption DEF CallFails, LocalsReady, TypeOK,
         SignalingTypeOK, Processes, Sessions, HandlerSteps, SweepSteps, Closing
  <2>2. CASE pc[r] \in {"grant_exists", "grant"} /\ req[r].op = "camera"
    <3>1. /\ pc' = [pc EXCEPT ![r] = "rollback"]
          /\ cur' = cur
          /\ req' = req
          /\ tries' = tries
      BY <1>22, <2>2 DEF CallFails, Goto, Reply, Fault, GrantError
    <3> QED
      BY <1>22, <2>2, <3>1, ProcessAssumption DEF CallFails, LocalsReady, TypeOK,
         SignalingTypeOK, Processes, Sessions, HandlerSteps, SweepSteps, Closing
  <2>3. CASE pc[r] \in {"grant_exists", "grant"} /\ req[r].op # "camera"
    <3>1. /\ pc' = [pc EXCEPT ![r] = "done"]
          /\ cur' = cur
          /\ req' = req
          /\ tries' = tries
      BY <1>22, <2>3 DEF CallFails, Goto, Reply, Fault, GrantError
    <3> QED
      BY <1>22, <2>3, <3>1, ProcessAssumption DEF CallFails, LocalsReady, TypeOK,
         SignalingTypeOK, Processes, Sessions, HandlerSteps, SweepSteps, Closing
  <2>4. CASE pc[r] = "forget"
    <3>1. /\ pc' = [pc EXCEPT ![r] = "load_each"]
          /\ cur' = cur
          /\ req' = req
          /\ tries' = tries
      BY <1>22, <2>4 DEF CallFails, Goto, Reply, Fault, GrantError
    <3> QED
      BY <1>22, <2>4, <3>1, ProcessAssumption DEF CallFails, LocalsReady, TypeOK,
         SignalingTypeOK, Processes, Sessions, HandlerSteps, SweepSteps, Closing
  <2> QED
    BY <1>22, <2>1, <2>2, <2>3, <2>4 DEF CallFails
<1>23. ASSUME NEW r \in Requests, RequestDies(r), UNCHANGED janVars
       PROVE  LocalsReady'
  BY <1>23, ProcessAssumption, SignalingAssumption DEF RequestDies, Goto, Fault,
     storeVars, keys, janVars, LocalsReady, TypeOK, SignalingTypeOK, StoreTypeOK,
     Processes, Sessions, HandlerSteps, SweepSteps, Closing
<1>24. ASSUME NEW p \in Processes, GetIngressIDs(p), UNCHANGED janVars
       PROVE  LocalsReady'
  BY <1>24, ProcessAssumption, SignalingAssumption DEF GetIngressIDs, Goto,
     storeVars, keys, janVars, LocalsReady, TypeOK, SignalingTypeOK, StoreTypeOK,
     Processes, Sessions, HandlerSteps, SweepSteps, Closing
<1>25. ASSUME NEW p \in Processes, NEW i \in Requests, DeleteIngress(p, i),
              UNCHANGED janVars
       PROVE  LocalsReady'
  BY <1>25, ProcessAssumption, SignalingAssumption DEF DeleteIngress, storeVars,
     keys, janVars, LocalsReady, TypeOK, SignalingTypeOK, StoreTypeOK, Processes,
     Sessions, HandlerSteps, SweepSteps, Closing
<1>26. ASSUME NEW p \in Processes, NEW i \in Requests, DeleteIngressFails(p, i),
              UNCHANGED janVars
       PROVE  LocalsReady'
  BY <1>26, ProcessAssumption, SignalingAssumption DEF DeleteIngressFails,
     Fault, storeVars, keys, janVars, LocalsReady, TypeOK, SignalingTypeOK,
     StoreTypeOK, Processes, Sessions, HandlerSteps, SweepSteps, Closing
<1>27. ASSUME NEW p \in Processes, DeleteRoom(p), UNCHANGED janVars
       PROVE  LocalsReady'
  BY <1>27, ProcessAssumption, SignalingAssumption DEF DeleteRoom, Goto,
     storeVars, keys, janVars, LocalsReady, TypeOK, SignalingTypeOK, StoreTypeOK,
     Processes, Sessions, HandlerSteps, SweepSteps, Closing
<1>28. ASSUME NEW p \in Processes, StatusExists(p), UNCHANGED janVars
       PROVE  LocalsReady'
  <2>1. CASE Exists(cur[p])
    <3>1. /\ pc' = [pc EXCEPT ![p] = "set_status"]
          /\ cur' = cur
          /\ req' = req
          /\ tries' = tries
      BY <1>28, <2>1 DEF StatusExists, Goto, Reply, CloseEnds
    <3> QED
      BY <1>28, <2>1, <3>1, ProcessAssumption DEF StatusExists, LocalsReady,
         TypeOK, SignalingTypeOK, Processes, Sessions, HandlerSteps, SweepSteps,
         Closing
  <2>2. CASE ~Exists(cur[p]) /\ p \in Requests
    <3>1. /\ pc' = [pc EXCEPT ![p] = "done"]
          /\ cur' = cur
          /\ req' = req
          /\ tries' = tries
      BY <1>28, <2>2 DEF StatusExists, Goto, Reply, CloseEnds
    <3> QED
      BY <1>28, <2>2, <3>1, ProcessAssumption DEF StatusExists, LocalsReady,
         TypeOK, SignalingTypeOK, Processes, Sessions, HandlerSteps, SweepSteps,
         Closing
  <2>3. CASE ~Exists(cur[p]) /\ p \notin Requests
    <3>1. /\ pc' = [pc EXCEPT ![p] = "next"]
          /\ cur' = cur
          /\ req' = req
          /\ tries' = tries
      BY <1>28, <2>3 DEF StatusExists, Goto, Reply, CloseEnds
    <3> QED
      BY <1>28, <2>3, <3>1, ProcessAssumption DEF StatusExists, LocalsReady,
         TypeOK, SignalingTypeOK, Processes, Sessions, HandlerSteps, SweepSteps,
         Closing
  <2> QED
    BY <1>28, <2>1, <2>2, <2>3 DEF StatusExists
<1>29. ASSUME NEW p \in Processes, SetStatus(p), UNCHANGED janVars
       PROVE  LocalsReady'
  BY <1>29, ProcessAssumption, SignalingAssumption DEF SetStatus, Goto,
     SetStatusClosed, storeVars, keys, janVars, LocalsReady, TypeOK,
     SignalingTypeOK, StoreTypeOK, Processes, Sessions, HandlerSteps, SweepSteps,
     Closing
<1>30. ASSUME NEW p \in Processes, SetStatusLost(p), UNCHANGED janVars
       PROVE  LocalsReady'
  BY <1>30, ProcessAssumption, SignalingAssumption DEF SetStatusLost, Fault,
     SetStatusClosed, local, storeVars, keys, janVars, LocalsReady, TypeOK,
     SignalingTypeOK, StoreTypeOK, Processes, Sessions, HandlerSteps, SweepSteps,
     Closing
<1>31. ASSUME NEW p \in Processes, ZRem(p), UNCHANGED janVars
       PROVE  LocalsReady'
  <2>1. CASE p \in Requests
    <3>1. /\ pc' = [pc EXCEPT ![p] = "done"]
          /\ cur' = cur
          /\ req' = req
          /\ tries' = tries
      BY <1>31, <2>1 DEF ZRem, Goto, Reply, CloseEnds, RemoveActive
    <3> QED
      BY <1>31, <2>1, <3>1, ProcessAssumption DEF ZRem, LocalsReady, TypeOK,
         SignalingTypeOK, Processes, Sessions, HandlerSteps, SweepSteps, Closing
  <2>2. CASE p \notin Requests
    <3>1. /\ pc' = [pc EXCEPT ![p] = "next"]
          /\ cur' = cur
          /\ req' = req
          /\ tries' = tries
      BY <1>31, <2>2 DEF ZRem, Goto, Reply, CloseEnds, RemoveActive
    <3> QED
      BY <1>31, <2>2, <3>1, ProcessAssumption DEF ZRem, LocalsReady, TypeOK,
         SignalingTypeOK, Processes, Sessions, HandlerSteps, SweepSteps, Closing
  <2> QED
    BY <1>31, <2>1, <2>2 DEF ZRem
<1>32. ASSUME NEW p \in Processes, CloseCallFails(p), UNCHANGED janVars
       PROVE  LocalsReady'
  <2>1. CASE pc[p] = "get_ingresses"
    <3>1. /\ pc' = [pc EXCEPT ![p] = "delete_ingresses"]
          /\ cur' = cur
          /\ req' = req
          /\ tries' = tries
      BY <1>32, <2>1 DEF CloseCallFails, Goto, Reply, CloseEnds, Fault
    <3> QED
      BY <1>32, <2>1, <3>1, ProcessAssumption DEF CloseCallFails, LocalsReady,
         TypeOK, SignalingTypeOK, Processes, Sessions, HandlerSteps, SweepSteps,
         Closing
  <2>2. CASE pc[p] # "get_ingresses" /\ p \in Requests
    <3>1. /\ pc' = [pc EXCEPT ![p] = "done"]
          /\ cur' = cur
          /\ req' = req
          /\ tries' = tries
      BY <1>32, <2>2 DEF CloseCallFails, Goto, Reply, CloseEnds, Fault
    <3> QED
      BY <1>32, <2>2, <3>1, ProcessAssumption DEF CloseCallFails, LocalsReady,
         TypeOK, SignalingTypeOK, Processes, Sessions, HandlerSteps, SweepSteps,
         Closing
  <2>3. CASE pc[p] # "get_ingresses" /\ p \notin Requests
    <3>1. /\ pc' = [pc EXCEPT ![p] = "next"]
          /\ cur' = cur
          /\ req' = req
          /\ tries' = tries
      BY <1>32, <2>3 DEF CloseCallFails, Goto, Reply, CloseEnds, Fault
    <3> QED
      BY <1>32, <2>3, <3>1, ProcessAssumption DEF CloseCallFails, LocalsReady,
         TypeOK, SignalingTypeOK, Processes, Sessions, HandlerSteps, SweepSteps,
         Closing
  <2> QED
    BY <1>32, <2>1, <2>2, <2>3 DEF CloseCallFails
<1>33. ASSUME NEW w \in Sweepers, Lock(w)
       PROVE  LocalsReady'
  <2>1. CASE lock = None
    <3>1. /\ pc' = [pc EXCEPT ![w] = "range"]
          /\ cur' = cur
          /\ req' = req
          /\ tries' = tries
      BY <1>33, <2>1 DEF Lock, Goto
    <3> QED
      BY <1>33, <2>1, <3>1, ProcessAssumption DEF Lock, LocalsReady, TypeOK,
         SignalingTypeOK, Processes, Sessions, HandlerSteps, SweepSteps, Closing
  <2>2. CASE lock # None
    <3>1. /\ pc' = [pc EXCEPT ![w] = "rest"]
          /\ cur' = cur
          /\ req' = req
          /\ tries' = tries
      BY <1>33, <2>2 DEF Lock, Goto
    <3> QED
      BY <1>33, <2>2, <3>1, ProcessAssumption DEF Lock, LocalsReady, TypeOK,
         SignalingTypeOK, Processes, Sessions, HandlerSteps, SweepSteps, Closing
  <2> QED
    BY <1>33, <2>1, <2>2 DEF Lock
<1>34. ASSUME NEW w \in Sweepers, Range(w)
       PROVE  LocalsReady'
  BY <1>34, ProcessAssumption, SignalingAssumption DEF Range, Goto, storeVars,
     keys, janVars, LocalsReady, TypeOK, SignalingTypeOK, StoreTypeOK, Processes,
     Sessions, HandlerSteps, SweepSteps, Closing
<1>35. ASSUME NEW w \in Sweepers, NEW s \in Sessions, Fetch(w, s)
       PROVE  LocalsReady'
  <2>1. CASE hash[s] = "closed"
    <3>1. /\ pc' = [pc EXCEPT ![w] = "drop"]
          /\ cur' = [cur EXCEPT ![w] = s]
          /\ req' = req
          /\ tries' = tries
      BY <1>35, <2>1 DEF Fetch, Goto
    <3> QED
      BY <1>35, <2>1, <3>1, ProcessAssumption DEF Fetch, LocalsReady, TypeOK,
         SignalingTypeOK, Processes, Sessions, HandlerSteps, SweepSteps, Closing
  <2>2. CASE hash[s] = "partial"
    <3>1. /\ pc' = [pc EXCEPT ![w] = "release"]
          /\ cur' = [cur EXCEPT ![w] = s]
          /\ req' = req
          /\ tries' = tries
      BY <1>35, <2>2 DEF Fetch, Goto
    <3> QED
      BY <1>35, <2>2, <3>1, ProcessAssumption DEF Fetch, LocalsReady, TypeOK,
         SignalingTypeOK, Processes, Sessions, HandlerSteps, SweepSteps, Closing
  <2>3. CASE hash[s] \notin {"closed", "partial"}
    <3>1. /\ pc' = pc
          /\ cur' = [cur EXCEPT ![w] = s]
          /\ req' = req
          /\ tries' = tries
      BY <1>35, <2>3 DEF Fetch, Goto
    <3> QED
      BY <1>35, <2>3, <3>1, ProcessAssumption DEF Fetch, LocalsReady, TypeOK,
         SignalingTypeOK, Processes, Sessions, HandlerSteps, SweepSteps, Closing
  <2> QED
    BY <1>35, <2>1, <2>2, <2>3 DEF Fetch
<1>36. ASSUME NEW w \in Sweepers, Drop(w)
       PROVE  LocalsReady'
  BY <1>36, ProcessAssumption, SignalingAssumption DEF Drop, Goto, RemoveActive,
     storeVars, keys, janVars, LocalsReady, TypeOK, SignalingTypeOK, StoreTypeOK,
     Processes, Sessions, HandlerSteps, SweepSteps, Closing
<1>37. ASSUME NEW w \in Sweepers, FetchDone(w)
       PROVE  LocalsReady'
  BY <1>37, ProcessAssumption, SignalingAssumption DEF FetchDone, Goto,
     storeVars, keys, janVars, LocalsReady, TypeOK, SignalingTypeOK, StoreTypeOK,
     Processes, Sessions, HandlerSteps, SweepSteps, Closing
<1>38. ASSUME NEW w \in Sweepers, NEW s \in Sessions, CloseExpired(w, s)
       PROVE  LocalsReady'
  BY <1>38, ProcessAssumption, SignalingAssumption DEF CloseExpired, Goto,
     storeVars, keys, janVars, LocalsReady, TypeOK, SignalingTypeOK, StoreTypeOK,
     Processes, Sessions, HandlerSteps, SweepSteps, Closing
<1>39. ASSUME NEW w \in Sweepers, SweepDone(w)
       PROVE  LocalsReady'
  BY <1>39, ProcessAssumption, SignalingAssumption DEF SweepDone, Goto,
     storeVars, keys, janVars, LocalsReady, TypeOK, SignalingTypeOK, StoreTypeOK,
     Processes, Sessions, HandlerSteps, SweepSteps, Closing
<1>40. ASSUME NEW w \in Sweepers, Release(w)
       PROVE  LocalsReady'
  BY <1>40, ProcessAssumption, SignalingAssumption DEF Release, Goto,
     InstanceOf, storeVars, keys, janVars, LocalsReady, TypeOK, SignalingTypeOK,
     StoreTypeOK, Processes, Sessions, HandlerSteps, SweepSteps, Closing
<1>41. ASSUME NEW w \in Sweepers, SweepCallFails(w)
       PROVE  LocalsReady'
  <2>1. CASE pc[w] \in {"lock", "release"}
    <3>1. /\ pc' = [pc EXCEPT ![w] = "rest"]
          /\ cur' = cur
          /\ req' = req
          /\ tries' = tries
      BY <1>41, <2>1 DEF SweepCallFails, Goto, Fault
    <3> QED
      BY <1>41, <2>1, <3>1, ProcessAssumption DEF SweepCallFails, LocalsReady,
         TypeOK, SignalingTypeOK, Processes, Sessions, HandlerSteps, SweepSteps,
         Closing
  <2>2. CASE pc[w] \in {"range", "fetch"}
    <3>1. /\ pc' = [pc EXCEPT ![w] = "release"]
          /\ cur' = cur
          /\ req' = req
          /\ tries' = tries
      BY <1>41, <2>2 DEF SweepCallFails, Goto, Fault
    <3> QED
      BY <1>41, <2>2, <3>1, ProcessAssumption DEF SweepCallFails, LocalsReady,
         TypeOK, SignalingTypeOK, Processes, Sessions, HandlerSteps, SweepSteps,
         Closing
  <2>3. CASE pc[w] = "drop"
    <3>1. /\ pc' = [pc EXCEPT ![w] = "fetch"]
          /\ cur' = cur
          /\ req' = req
          /\ tries' = tries
      BY <1>41, <2>3 DEF SweepCallFails, Goto, Fault
    <3> QED
      BY <1>41, <2>3, <3>1, ProcessAssumption DEF SweepCallFails, LocalsReady,
         TypeOK, SignalingTypeOK, Processes, Sessions, HandlerSteps, SweepSteps,
         Closing
  <2> QED
    BY <1>41, <2>1, <2>2, <2>3 DEF SweepCallFails
<1>42. ASSUME NEW w \in Sweepers, LockLost(w)
       PROVE  LocalsReady'
  BY <1>42, ProcessAssumption, SignalingAssumption DEF LockLost, Goto, Fault,
     storeVars, keys, janVars, LocalsReady, TypeOK, SignalingTypeOK, StoreTypeOK,
     Processes, Sessions, HandlerSteps, SweepSteps, Closing
<1>43. ASSUME NEW i \in Instances, Tick(i)
       PROVE  LocalsReady'
  BY <1>43, ProcessAssumption, SignalingAssumption DEF Tick, Goto, storeVars,
     keys, janVars, LocalsReady, TypeOK, SignalingTypeOK, StoreTypeOK, Processes,
     Sessions, HandlerSteps, SweepSteps, Closing
<1>44. ASSUME NEW i \in Instances, Reconnect(i)
       PROVE  LocalsReady'
  BY <1>44, ProcessAssumption, SignalingAssumption DEF Reconnect, Goto,
     storeVars, keys, janVars, LocalsReady, TypeOK, SignalingTypeOK, StoreTypeOK,
     Processes, Sessions, HandlerSteps, SweepSteps, Closing
<1>45. ASSUME NEW i \in Instances, PingFails(i)
       PROVE  LocalsReady'
  BY <1>45, ProcessAssumption, SignalingAssumption DEF PingFails, sigVars, local,
     storeVars, keys, janVars, LocalsReady, TypeOK, SignalingTypeOK, StoreTypeOK,
     Processes, Sessions, HandlerSteps, SweepSteps, Closing
<1>46. ASSUME NEW i \in Instances, Crash(i)
       PROVE  LocalsReady'
  BY <1>46, ProcessAssumption, SignalingAssumption DEF Crash, Fault, InstanceOf,
     storeVars, keys, janVars, LocalsReady, TypeOK, SignalingTypeOK, StoreTypeOK,
     Processes, Sessions, HandlerSteps, SweepSteps, Closing
<1>47. ASSUME LockExpires
       PROVE  LocalsReady'
  BY <1>47, ProcessAssumption, SignalingAssumption DEF LockExpires, InSweep,
     sigVars, local, storeVars, keys, janVars, LocalsReady, TypeOK,
     SignalingTypeOK, StoreTypeOK, Processes, Sessions, HandlerSteps, SweepSteps,
     Closing
<1>48. ASSUME NEW s \in Sessions, Lapse(s)
       PROVE  LocalsReady'
  BY <1>48, ProcessAssumption, SignalingAssumption DEF Lapse, local, storeVars,
     keys, janVars, LocalsReady, TypeOK, SignalingTypeOK, StoreTypeOK, Processes,
     Sessions, HandlerSteps, SweepSteps, Closing
<1>49. ASSUME Expire
       PROVE  LocalsReady'
  BY <1>49, ProcessAssumption, SignalingAssumption DEF Expire, Expiry,
     ExpireHash, ExpireRoomCode, ExpireAccess, ExpireIngressIDs,
     ExpireUserSessions, local, storeVars, keys, janVars, LocalsReady, TypeOK,
     SignalingTypeOK, StoreTypeOK, Processes, Sessions, HandlerSteps, SweepSteps,
     Closing
<1>50. CASE UNCHANGED vars
  BY <1>50 DEF vars, sigVars, storeVars, keys, local, janVars, LocalsReady,
     TypeOK, SignalingTypeOK, StoreTypeOK, Processes, Sessions, HandlerSteps,
     SweepSteps, Closing
<1>51. ASSUME NEW w \in Sweepers, ReleaseLost(w)
       PROVE  LocalsReady'
  BY <1>51, ProcessAssumption, SignalingAssumption DEF ReleaseLost, Fault, InstanceOf, local,
     storeVars, keys, janVars, LocalsReady, TypeOK, SignalingTypeOK, StoreTypeOK,
     Processes, Sessions, HandlerSteps, SweepSteps, Closing
<1> QED
  BY <1>1, <1>2, <1>3, <1>4, <1>5, <1>6, <1>7, <1>8, <1>9, <1>10, <1>11, <1>12,
     <1>13, <1>14, <1>15, <1>16, <1>17, <1>18, <1>19, <1>20, <1>21, <1>22, <1>23,
     <1>24, <1>25, <1>26, <1>27, <1>28, <1>29, <1>30, <1>31, <1>32, <1>33, <1>34,
     <1>35, <1>36, <1>37, <1>38, <1>39, <1>40, <1>41, <1>42, <1>43, <1>44, <1>45,
     <1>46, <1>47, <1>48, <1>49, <1>50, <1>51 DEF Next, Request, Begin, Handle,
     HandleFault, CloseStep, Close, CloseFault, Sweep

\* Every step leaves the creator of a session in use known.
LEMMA CreatorInductive ==
  ASSUME TypeOK, LocalsReady, CreatorKnown, [Next]_vars
  PROVE  CreatorKnown'
<1>1. ASSUME NEW r \in Requests, NEW u \in Users, BeginCreate(r, u), UNCHANGED janVars
      PROVE  CreatorKnown'
  BY <1>1, ProcessAssumption, StoreAssumption DEF BeginCreate, Arrive, Goto,
     storeVars, keys, janVars, CreatorKnown, LocalsReady, TypeOK, SignalingTypeOK,
     StoreTypeOK, Processes, Sessions, Closing
<1>2. ASSUME NEW r \in Requests, NEW op \in DOMAIN FirstCall, NEW u \in Users,
             NEW c \in Codes, BeginByCode(r, op, u, c), UNCHANGED janVars
      PROVE  CreatorKnown'
  BY <1>2, ProcessAssumption, StoreAssumption DEF BeginByCode, Arrive, Goto,
     FirstCall, storeVars, keys, janVars, CreatorKnown, LocalsReady, TypeOK,
     SignalingTypeOK, StoreTypeOK, Processes, Sessions, Closing
<1>3. ASSUME NEW r \in Requests, NEW u \in Users, BeginList(r, u), UNCHANGED janVars
      PROVE  CreatorKnown'
  BY <1>3, ProcessAssumption, StoreAssumption DEF BeginList, Arrive, Goto,
     storeVars, keys, janVars, CreatorKnown, LocalsReady, TypeOK, SignalingTypeOK,
     StoreTypeOK, Processes, Sessions, Closing
<1>4. ASSUME NEW r \in Requests, NEW c \in Codes, PickCode(r, c), UNCHANGED janVars
      PROVE  CreatorKnown'
  <2>1. pc[r] = "pick_code" /\ c \in Codes
    BY <1>4 DEF PickCode
  <2>2. CASE roomCode[c] = None
    <3>1. /\ pc' = [pc EXCEPT ![r] = "create"]
          /\ cur' = cur
          /\ roomCode' = roomCode
      BY <1>4, <2>2 DEF PickCode, Goto, storeVars, keys
    <3> QED
      BY <2>2, <3>1, ProcessAssumption, StoreAssumption, <2>1 DEF CreatorKnown,
         TypeOK, SignalingTypeOK, StoreTypeOK, Processes, Sessions, Closing
  <2>3. CASE roomCode[c] # None
    <3>1. /\ pc' = [pc EXCEPT ![r] = "check_code"]
          /\ cur' = [cur EXCEPT ![r] = roomCode[c]]
          /\ roomCode' = roomCode
      BY <1>4, <2>3 DEF PickCode, Goto, storeVars, keys
    <3> QED
      BY <2>3, <3>1, ProcessAssumption, StoreAssumption, <2>1 DEF CreatorKnown,
         TypeOK, SignalingTypeOK, StoreTypeOK, Processes, Sessions, Closing
  <2> QED
    BY <2>2, <2>3
<1>5. ASSUME NEW r \in Requests, CheckCode(r), UNCHANGED janVars
      PROVE  CreatorKnown'
  BY <1>5, ProcessAssumption, StoreAssumption DEF CheckCode, Goto, Reply,
     storeVars, keys, janVars, CreatorKnown, LocalsReady, TypeOK, SignalingTypeOK,
     StoreTypeOK, Processes, Sessions, Closing
<1>6. ASSUME NEW r \in Requests, Create(r), UNCHANGED janVars
      PROVE  CreatorKnown'
  BY <1>6, ProcessAssumption, StoreAssumption DEF Create, Goto, CreatePipeline,
     storeVars, keys, janVars, CreatorKnown, LocalsReady, TypeOK, SignalingTypeOK,
     StoreTypeOK, Processes, Sessions, Closing
<1>7. ASSUME NEW r \in Requests, NEW n \in {1, 2, 3, 5, 6}, CreateInterrupted(r, n),
             UNCHANGED janVars
      PROVE  CreatorKnown'
  BY <1>7, ProcessAssumption, StoreAssumption DEF CreateInterrupted, Fault,
     CreatePipeline, local, storeVars, keys, janVars, CreatorKnown, LocalsReady,
     TypeOK, SignalingTypeOK, StoreTypeOK, Processes, Sessions, Closing
<1>8. ASSUME NEW r \in Requests, Lookup(r), UNCHANGED janVars
      PROVE  CreatorKnown'
  <2>1. pc[r] = "lookup" /\ req[r].code \in Codes
    BY <1>8 DEF Lookup, LocalsReady
  <2>2. CASE roomCode[req[r].code] = None
    <3>1. /\ pc' = [pc EXCEPT ![r] = "done"]
          /\ cur' = cur
          /\ roomCode' = roomCode
      BY <1>8, <2>2 DEF Lookup, Goto, Reply, storeVars, keys
    <3> QED
      BY <2>2, <3>1, ProcessAssumption, StoreAssumption, <2>1 DEF CreatorKnown,
         TypeOK, SignalingTypeOK, StoreTypeOK, Processes, Sessions, Closing
  <2>3. CASE roomCode[req[r].code] # None
    <3>1. /\ pc' = [pc EXCEPT ![r] = "load"]
          /\ cur' = [cur EXCEPT ![r] = roomCode[req[r].code]]
          /\ roomCode' = roomCode
      BY <1>8, <2>3 DEF Lookup, Goto, Reply, storeVars, keys
    <3> QED
      BY <2>3, <3>1, ProcessAssumption, StoreAssumption, <2>1 DEF CreatorKnown,
         TypeOK, SignalingTypeOK, StoreTypeOK, Processes, Sessions, Closing
  <2> QED
    BY <2>2, <2>3
<1>9. ASSUME NEW r \in Requests, Load(r), UNCHANGED janVars
      PROVE  CreatorKnown'
  <2>1. pc[r] = "load" /\ cur[r] \in Requests /\ pc[cur[r]] # "idle"
    BY <1>9 DEF Load, CreatorKnown
  <2>2. \E x : pc' = [pc EXCEPT ![r] = x] /\ x # "idle"
    <3>1. FirstCall[req[r].op] # "idle"
      BY <2>1 DEF LocalsReady, FirstCall
    <3> QED
      BY <1>9, <3>1 DEF Load, Goto, Reply
  <2>3. cur' = cur /\ roomCode' = roomCode
    BY <1>9 DEF Load, storeVars, keys
  <2> QED
    BY <2>1, <2>2, <2>3, ProcessAssumption DEF CreatorKnown, TypeOK, Processes, StoreTypeOK,
       SignalingTypeOK, Sessions
<1>10. ASSUME NEW r \in Requests, NewIngress(r), UNCHANGED janVars
       PROVE  CreatorKnown'
  BY <1>10, ProcessAssumption, StoreAssumption DEF NewIngress, Goto, storeVars,
     keys, janVars, CreatorKnown, LocalsReady, TypeOK, SignalingTypeOK,
     StoreTypeOK, Processes, Sessions, Closing
<1>11. ASSUME NEW r \in Requests, NewIngressLost(r), UNCHANGED janVars
       PROVE  CreatorKnown'
  BY <1>11, ProcessAssumption, StoreAssumption DEF NewIngressLost, Goto, Reply,
     Fault, storeVars, keys, janVars, CreatorKnown, LocalsReady, TypeOK,
     SignalingTypeOK, StoreTypeOK, Processes, Sessions, Closing
<1>12. ASSUME NEW r \in Requests, GrantExists(r), UNCHANGED janVars
       PROVE  CreatorKnown'
  BY <1>12, ProcessAssumption, StoreAssumption DEF GrantExists, Goto, Reply,
     GrantError, storeVars, keys, janVars, CreatorKnown, LocalsReady, TypeOK,
     SignalingTypeOK, StoreTypeOK, Processes, Sessions, Closing
<1>13. ASSUME NEW r \in Requests, Grant(r), UNCHANGED janVars
       PROVE  CreatorKnown'
  BY <1>13, ProcessAssumption, StoreAssumption DEF Grant, Goto, Reply,
     GrantAccess, GrantedRole, storeVars, keys, janVars, CreatorKnown, LocalsReady,
     TypeOK, SignalingTypeOK, StoreTypeOK, Processes, Sessions, Closing
<1>14. ASSUME NEW r \in Requests, GrantLost(r), UNCHANGED janVars
       PROVE  CreatorKnown'
  BY <1>14, ProcessAssumption, StoreAssumption DEF GrantLost, Fault,
     GrantAccess, GrantedRole, local, storeVars, keys, janVars, CreatorKnown,
     LocalsReady, TypeOK, SignalingTypeOK, StoreTypeOK, Processes, Sessions,
     Closing
<1>15. ASSUME NEW r \in Requests, Rollback(r), UNCHANGED janVars
       PROVE  CreatorKnown'
  BY <1>15, ProcessAssumption, StoreAssumption DEF Rollback, Goto, Reply,
     storeVars, keys, janVars, CreatorKnown, LocalsReady, TypeOK, SignalingTypeOK,
     StoreTypeOK, Processes, Sessions, Closing
<1>16. ASSUME NEW r \in Requests, Record(r), UNCHANGED janVars
       PROVE  CreatorKnown'
  BY <1>16, ProcessAssumption, StoreAssumption DEF Record, Goto, Reply,
     AddIngressID, storeVars, keys, janVars, CreatorKnown, LocalsReady, TypeOK,
     SignalingTypeOK, StoreTypeOK, Processes, Sessions, Closing
<1>17. ASSUME NEW r \in Requests, RecordLost(r), UNCHANGED janVars
       PROVE  CreatorKnown'
  BY <1>17, ProcessAssumption, StoreAssumption DEF RecordLost, Fault,
     AddIngressID, local, storeVars, keys, janVars, CreatorKnown, LocalsReady,
     TypeOK, SignalingTypeOK, StoreTypeOK, Processes, Sessions, Closing
<1>18. ASSUME NEW r \in Requests, List(r), UNCHANGED janVars
       PROVE  CreatorKnown'
  BY <1>18, ProcessAssumption, StoreAssumption DEF List, Goto, storeVars, keys,
     janVars, CreatorKnown, LocalsReady, TypeOK, SignalingTypeOK, StoreTypeOK,
     Processes, Sessions, Closing
<1>19. ASSUME NEW r \in Requests, NEW s \in Sessions, LoadEach(r, s), UNCHANGED janVars
       PROVE  CreatorKnown'
  BY <1>19, ProcessAssumption, StoreAssumption DEF LoadEach, Goto, Reply,
     Readable, Exists, storeVars, keys, janVars, CreatorKnown, LocalsReady, TypeOK,
     SignalingTypeOK, StoreTypeOK, Processes, Sessions, Closing
<1>20. ASSUME NEW r \in Requests, Forget(r), UNCHANGED janVars
       PROVE  CreatorKnown'
  BY <1>20, ProcessAssumption, StoreAssumption DEF Forget, Goto,
     ForgetUserSession, storeVars, keys, janVars, CreatorKnown, LocalsReady,
     TypeOK, SignalingTypeOK, StoreTypeOK, Processes, Sessions, Closing
<1>21. ASSUME NEW r \in Requests, ListDone(r), UNCHANGED janVars
       PROVE  CreatorKnown'
  BY <1>21, ProcessAssumption, StoreAssumption DEF ListDone, Goto, Reply,
     storeVars, keys, janVars, CreatorKnown, LocalsReady, TypeOK, SignalingTypeOK,
     StoreTypeOK, Processes, Sessions, Closing
<1>22. ASSUME NEW r \in Requests, CallFails(r), UNCHANGED janVars
       PROVE  CreatorKnown'
  BY <1>22, ProcessAssumption, StoreAssumption DEF CallFails, Goto, Reply,
     Fault, GrantError, storeVars, keys, janVars, CreatorKnown, LocalsReady,
     TypeOK, SignalingTypeOK, StoreTypeOK, Processes, Sessions, Closing
<1>23. ASSUME NEW r \in Requests, RequestDies(r), UNCHANGED janVars
       PROVE  CreatorKnown'
  BY <1>23, ProcessAssumption, StoreAssumption DEF RequestDies, Goto, Fault,
     storeVars, keys, janVars, CreatorKnown, LocalsReady, TypeOK, SignalingTypeOK,
     StoreTypeOK, Processes, Sessions, Closing
<1>24. ASSUME NEW p \in Processes, GetIngressIDs(p), UNCHANGED janVars
       PROVE  CreatorKnown'
  BY <1>24, ProcessAssumption, StoreAssumption DEF GetIngressIDs, Goto,
     storeVars, keys, janVars, CreatorKnown, LocalsReady, TypeOK, SignalingTypeOK,
     StoreTypeOK, Processes, Sessions, Closing
<1>25. ASSUME NEW p \in Processes, NEW i \in Requests, DeleteIngress(p, i),
              UNCHANGED janVars
       PROVE  CreatorKnown'
  BY <1>25, ProcessAssumption, StoreAssumption DEF DeleteIngress, storeVars,
     keys, janVars, CreatorKnown, LocalsReady, TypeOK, SignalingTypeOK,
     StoreTypeOK, Processes, Sessions, Closing
<1>26. ASSUME NEW p \in Processes, NEW i \in Requests, DeleteIngressFails(p, i),
              UNCHANGED janVars
       PROVE  CreatorKnown'
  BY <1>26, ProcessAssumption, StoreAssumption DEF DeleteIngressFails, Fault,
     storeVars, keys, janVars, CreatorKnown, LocalsReady, TypeOK, SignalingTypeOK,
     StoreTypeOK, Processes, Sessions, Closing
<1>27. ASSUME NEW p \in Processes, DeleteRoom(p), UNCHANGED janVars
       PROVE  CreatorKnown'
  BY <1>27, ProcessAssumption, StoreAssumption DEF DeleteRoom, Goto, storeVars,
     keys, janVars, CreatorKnown, LocalsReady, TypeOK, SignalingTypeOK,
     StoreTypeOK, Processes, Sessions, Closing
<1>28. ASSUME NEW p \in Processes, StatusExists(p), UNCHANGED janVars
       PROVE  CreatorKnown'
  BY <1>28, ProcessAssumption, StoreAssumption DEF StatusExists, Goto, Reply,
     CloseEnds, storeVars, keys, janVars, CreatorKnown, LocalsReady, TypeOK,
     SignalingTypeOK, StoreTypeOK, Processes, Sessions, Closing
<1>29. ASSUME NEW p \in Processes, SetStatus(p), UNCHANGED janVars
       PROVE  CreatorKnown'
  BY <1>29, ProcessAssumption, StoreAssumption DEF SetStatus, Goto,
     SetStatusClosed, storeVars, keys, janVars, CreatorKnown, LocalsReady, TypeOK,
     SignalingTypeOK, StoreTypeOK, Processes, Sessions, Closing
<1>30. ASSUME NEW p \in Processes, SetStatusLost(p), UNCHANGED janVars
       PROVE  CreatorKnown'
  BY <1>30, ProcessAssumption, StoreAssumption DEF SetStatusLost, Fault,
     SetStatusClosed, local, storeVars, keys, janVars, CreatorKnown, LocalsReady,
     TypeOK, SignalingTypeOK, StoreTypeOK, Processes, Sessions, Closing
<1>31. ASSUME NEW p \in Processes, ZRem(p), UNCHANGED janVars
       PROVE  CreatorKnown'
  BY <1>31, ProcessAssumption, StoreAssumption DEF ZRem, Goto, Reply, CloseEnds,
     RemoveActive, storeVars, keys, janVars, CreatorKnown, LocalsReady, TypeOK,
     SignalingTypeOK, StoreTypeOK, Processes, Sessions, Closing
<1>32. ASSUME NEW p \in Processes, CloseCallFails(p), UNCHANGED janVars
       PROVE  CreatorKnown'
  BY <1>32, ProcessAssumption, StoreAssumption DEF CloseCallFails, Goto, Reply,
     CloseEnds, Fault, storeVars, keys, janVars, CreatorKnown, LocalsReady, TypeOK,
     SignalingTypeOK, StoreTypeOK, Processes, Sessions, Closing
<1>33. ASSUME NEW w \in Sweepers, Lock(w)
       PROVE  CreatorKnown'
  BY <1>33, ProcessAssumption, StoreAssumption DEF Lock, Goto, storeVars, keys,
     janVars, CreatorKnown, LocalsReady, TypeOK, SignalingTypeOK, StoreTypeOK,
     Processes, Sessions, Closing
<1>34. ASSUME NEW w \in Sweepers, Range(w)
       PROVE  CreatorKnown'
  BY <1>34, ProcessAssumption, StoreAssumption DEF Range, Goto, storeVars, keys,
     janVars, CreatorKnown, LocalsReady, TypeOK, SignalingTypeOK, StoreTypeOK,
     Processes, Sessions, Closing
<1>35. ASSUME NEW w \in Sweepers, NEW s \in Sessions, Fetch(w, s)
       PROVE  CreatorKnown'
  BY <1>35, ProcessAssumption, StoreAssumption DEF Fetch, Goto, storeVars, keys,
     janVars, CreatorKnown, LocalsReady, TypeOK, SignalingTypeOK, StoreTypeOK,
     Processes, Sessions, Closing
<1>36. ASSUME NEW w \in Sweepers, Drop(w)
       PROVE  CreatorKnown'
  BY <1>36, ProcessAssumption, StoreAssumption DEF Drop, Goto, RemoveActive,
     storeVars, keys, janVars, CreatorKnown, LocalsReady, TypeOK, SignalingTypeOK,
     StoreTypeOK, Processes, Sessions, Closing
<1>37. ASSUME NEW w \in Sweepers, FetchDone(w)
       PROVE  CreatorKnown'
  BY <1>37, ProcessAssumption, StoreAssumption DEF FetchDone, Goto, storeVars,
     keys, janVars, CreatorKnown, LocalsReady, TypeOK, SignalingTypeOK,
     StoreTypeOK, Processes, Sessions, Closing
<1>38. ASSUME NEW w \in Sweepers, NEW s \in Sessions, CloseExpired(w, s)
       PROVE  CreatorKnown'
  BY <1>38, ProcessAssumption, StoreAssumption DEF CloseExpired, Goto,
     storeVars, keys, janVars, CreatorKnown, LocalsReady, TypeOK, SignalingTypeOK,
     StoreTypeOK, Processes, Sessions, Closing
<1>39. ASSUME NEW w \in Sweepers, SweepDone(w)
       PROVE  CreatorKnown'
  BY <1>39, ProcessAssumption, StoreAssumption DEF SweepDone, Goto, storeVars,
     keys, janVars, CreatorKnown, LocalsReady, TypeOK, SignalingTypeOK,
     StoreTypeOK, Processes, Sessions, Closing
<1>40. ASSUME NEW w \in Sweepers, Release(w)
       PROVE  CreatorKnown'
  BY <1>40, ProcessAssumption, StoreAssumption DEF Release, Goto, InstanceOf,
     storeVars, keys, janVars, CreatorKnown, LocalsReady, TypeOK, SignalingTypeOK,
     StoreTypeOK, Processes, Sessions, Closing
<1>41. ASSUME NEW w \in Sweepers, SweepCallFails(w)
       PROVE  CreatorKnown'
  BY <1>41, ProcessAssumption, StoreAssumption DEF SweepCallFails, Goto, Fault,
     storeVars, keys, janVars, CreatorKnown, LocalsReady, TypeOK, SignalingTypeOK,
     StoreTypeOK, Processes, Sessions, Closing
<1>42. ASSUME NEW w \in Sweepers, LockLost(w)
       PROVE  CreatorKnown'
  BY <1>42, ProcessAssumption, StoreAssumption DEF LockLost, Goto, Fault,
     storeVars, keys, janVars, CreatorKnown, LocalsReady, TypeOK, SignalingTypeOK,
     StoreTypeOK, Processes, Sessions, Closing
<1>43. ASSUME NEW i \in Instances, Tick(i)
       PROVE  CreatorKnown'
  BY <1>43, ProcessAssumption, StoreAssumption DEF Tick, Goto, storeVars, keys,
     janVars, CreatorKnown, LocalsReady, TypeOK, SignalingTypeOK, StoreTypeOK,
     Processes, Sessions, Closing
<1>44. ASSUME NEW i \in Instances, Reconnect(i)
       PROVE  CreatorKnown'
  BY <1>44, ProcessAssumption, StoreAssumption DEF Reconnect, Goto, storeVars,
     keys, janVars, CreatorKnown, LocalsReady, TypeOK, SignalingTypeOK,
     StoreTypeOK, Processes, Sessions, Closing
<1>45. ASSUME NEW i \in Instances, PingFails(i)
       PROVE  CreatorKnown'
  BY <1>45, ProcessAssumption, StoreAssumption DEF PingFails, sigVars, local,
     storeVars, keys, janVars, CreatorKnown, LocalsReady, TypeOK, SignalingTypeOK,
     StoreTypeOK, Processes, Sessions, Closing
<1>46. ASSUME NEW i \in Instances, Crash(i)
       PROVE  CreatorKnown'
  BY <1>46, ProcessAssumption, StoreAssumption DEF Crash, Fault, InstanceOf,
     storeVars, keys, janVars, CreatorKnown, LocalsReady, TypeOK, SignalingTypeOK,
     StoreTypeOK, Processes, Sessions, Closing
<1>47. ASSUME LockExpires
       PROVE  CreatorKnown'
  BY <1>47, ProcessAssumption, StoreAssumption DEF LockExpires, InSweep,
     sigVars, local, storeVars, keys, janVars, CreatorKnown, LocalsReady, TypeOK,
     SignalingTypeOK, StoreTypeOK, Processes, Sessions, Closing
<1>48. ASSUME NEW s \in Sessions, Lapse(s)
       PROVE  CreatorKnown'
  BY <1>48, ProcessAssumption, StoreAssumption DEF Lapse, local, storeVars,
     keys, janVars, CreatorKnown, LocalsReady, TypeOK, SignalingTypeOK,
     StoreTypeOK, Processes, Sessions, Closing
<1>49. ASSUME Expire
       PROVE  CreatorKnown'
  <2>1. pc' = pc /\ cur' = cur
    BY <1>49 DEF Expire, local
  <2>2. CASE roomCode' = roomCode
    BY <2>1, <2>2 DEF CreatorKnown
  <2>3. CASE \E c \in Codes : ExpireRoomCode(c)
    <3>1. PICK c \in Codes : roomCode' = [roomCode EXCEPT ![c] = None]
      BY <2>3 DEF ExpireRoomCode
    <3> QED
      BY <2>1, <3>1 DEF CreatorKnown, TypeOK, SignalingTypeOK, StoreTypeOK
  <2>4. roomCode' = roomCode \/ \E c \in Codes : ExpireRoomCode(c)
    BY <1>49 DEF Expire, Expiry, ExpireHash, ExpireAccess, ExpireIngressIDs, ExpireUserSessions
  <2> QED
    BY <2>2, <2>3, <2>4
<1>50. CASE UNCHANGED vars
  BY <1>50 DEF vars, sigVars, storeVars, keys, local, janVars, CreatorKnown,
     LocalsReady, TypeOK, SignalingTypeOK, StoreTypeOK, Processes, Sessions,
     Closing
<1>51. ASSUME NEW w \in Sweepers, ReleaseLost(w)
       PROVE  CreatorKnown'
  BY <1>51, ProcessAssumption, StoreAssumption DEF ReleaseLost, Fault, InstanceOf, local,
     storeVars, keys, janVars, CreatorKnown, LocalsReady, TypeOK, SignalingTypeOK,
     StoreTypeOK, Processes, Sessions, Closing
<1> QED
  BY <1>1, <1>2, <1>3, <1>4, <1>5, <1>6, <1>7, <1>8, <1>9, <1>10, <1>11, <1>12,
     <1>13, <1>14, <1>15, <1>16, <1>17, <1>18, <1>19, <1>20, <1>21, <1>22, <1>23,
     <1>24, <1>25, <1>26, <1>27, <1>28, <1>29, <1>30, <1>31, <1>32, <1>33, <1>34,
     <1>35, <1>36, <1>37, <1>38, <1>39, <1>40, <1>41, <1>42, <1>43, <1>44, <1>45,
     <1>46, <1>47, <1>48, <1>49, <1>50, <1>51 DEF Next, Request, Begin, Handle,
     HandleFault, CloseStep, Close, CloseFault, Sweep

\* Every step leaves a session only its creator closes.
LEMMA OwnerInductive ==
  ASSUME TypeOK, LocalsReady, CreatorKnown, OwnerCloses, [Next]_vars
  PROVE  OwnerCloses'
<1>1. ASSUME NEW r \in Requests, NEW u \in Users, BeginCreate(r, u), UNCHANGED janVars
      PROVE  OwnerCloses'
  BY <1>1, ProcessAssumption DEF BeginCreate, Arrive, Goto, storeVars, keys,
     janVars, OwnerCloses, CreatorKnown, LocalsReady, TypeOK, SignalingTypeOK,
     Processes, Sessions, Closing
<1>2. ASSUME NEW r \in Requests, NEW op \in DOMAIN FirstCall, NEW u \in Users,
             NEW c \in Codes, BeginByCode(r, op, u, c), UNCHANGED janVars
      PROVE  OwnerCloses'
  BY <1>2, ProcessAssumption DEF BeginByCode, Arrive, Goto, FirstCall,
     storeVars, keys, janVars, OwnerCloses, CreatorKnown, LocalsReady, TypeOK,
     SignalingTypeOK, Processes, Sessions, Closing
<1>3. ASSUME NEW r \in Requests, NEW u \in Users, BeginList(r, u), UNCHANGED janVars
      PROVE  OwnerCloses'
  BY <1>3, ProcessAssumption DEF BeginList, Arrive, Goto, storeVars, keys,
     janVars, OwnerCloses, CreatorKnown, LocalsReady, TypeOK, SignalingTypeOK,
     Processes, Sessions, Closing
<1>4. ASSUME NEW r \in Requests, NEW c \in Codes, PickCode(r, c), UNCHANGED janVars
      PROVE  OwnerCloses'
  <2>1. pc[r] = "pick_code"
    BY <1>4 DEF PickCode
  <2>2. \A q \in Requests : req'[q].user = req[q].user
    BY <1>4 DEF PickCode, TypeOK, SignalingTypeOK
  <2>3. \A q \in Requests \ {r} : pc'[q] = pc[q] /\ cur'[q] = cur[q]
    BY <1>4 DEF PickCode, Goto, TypeOK, SignalingTypeOK, Processes
  <2>4. pc'[r] \in {"create", "check_code"}
    BY <1>4 DEF PickCode, Goto, TypeOK, Processes
  <2>5. \A q \in Requests : pc[q] \in Closing => cur[q] \in Requests
    BY DEF LocalsReady, Closing
  <2> QED
    BY <2>2, <2>3, <2>4, <2>5 DEF OwnerCloses, Closing
<1>5. ASSUME NEW r \in Requests, CheckCode(r), UNCHANGED janVars
      PROVE  OwnerCloses'
  BY <1>5, ProcessAssumption DEF CheckCode, Goto, Reply, storeVars, keys,
     janVars, OwnerCloses, CreatorKnown, LocalsReady, TypeOK, SignalingTypeOK,
     Processes, Sessions, Closing
<1>6. ASSUME NEW r \in Requests, Create(r), UNCHANGED janVars
      PROVE  OwnerCloses'
  BY <1>6, ProcessAssumption DEF Create, Goto, CreatePipeline, storeVars, keys,
     janVars, OwnerCloses, CreatorKnown, LocalsReady, TypeOK, SignalingTypeOK,
     Processes, Sessions, Closing
<1>7. ASSUME NEW r \in Requests, NEW n \in {1, 2, 3, 5, 6}, CreateInterrupted(r, n),
             UNCHANGED janVars
      PROVE  OwnerCloses'
  BY <1>7, ProcessAssumption DEF CreateInterrupted, Fault, CreatePipeline,
     local, storeVars, keys, janVars, OwnerCloses, CreatorKnown, LocalsReady,
     TypeOK, SignalingTypeOK, Processes, Sessions, Closing
<1>8. ASSUME NEW r \in Requests, Lookup(r), UNCHANGED janVars
      PROVE  OwnerCloses'
  BY <1>8, ProcessAssumption DEF Lookup, Goto, Reply, storeVars, keys, janVars,
     OwnerCloses, CreatorKnown, LocalsReady, TypeOK, SignalingTypeOK, Processes,
     Sessions, Closing
<1>9. ASSUME NEW r \in Requests, Load(r), UNCHANGED janVars
      PROVE  OwnerCloses'
  BY <1>9, ProcessAssumption DEF Load, Goto, Reply, FirstCall, MayProceed,
     Readable, storeVars, keys, janVars, OwnerCloses, CreatorKnown, LocalsReady,
     TypeOK, SignalingTypeOK, Processes, Sessions, Closing
<1>10. ASSUME NEW r \in Requests, NewIngress(r), UNCHANGED janVars
       PROVE  OwnerCloses'
  BY <1>10, ProcessAssumption DEF NewIngress, Goto, storeVars, keys, janVars,
     OwnerCloses, CreatorKnown, LocalsReady, TypeOK, SignalingTypeOK, Processes,
     Sessions, Closing
<1>11. ASSUME NEW r \in Requests, NewIngressLost(r), UNCHANGED janVars
       PROVE  OwnerCloses'
  BY <1>11, ProcessAssumption DEF NewIngressLost, Goto, Reply, Fault, storeVars,
     keys, janVars, OwnerCloses, CreatorKnown, LocalsReady, TypeOK,
     SignalingTypeOK, Processes, Sessions, Closing
<1>12. ASSUME NEW r \in Requests, GrantExists(r), UNCHANGED janVars
       PROVE  OwnerCloses'
  BY <1>12, ProcessAssumption DEF GrantExists, Goto, Reply, GrantError,
     storeVars, keys, janVars, OwnerCloses, CreatorKnown, LocalsReady, TypeOK,
     SignalingTypeOK, Processes, Sessions, Closing
<1>13. ASSUME NEW r \in Requests, Grant(r), UNCHANGED janVars
       PROVE  OwnerCloses'
  BY <1>13, ProcessAssumption DEF Grant, Goto, Reply, GrantAccess, GrantedRole,
     storeVars, keys, janVars, OwnerCloses, CreatorKnown, LocalsReady, TypeOK,
     SignalingTypeOK, Processes, Sessions, Closing
<1>14. ASSUME NEW r \in Requests, GrantLost(r), UNCHANGED janVars
       PROVE  OwnerCloses'
  BY <1>14, ProcessAssumption DEF GrantLost, Fault, GrantAccess, GrantedRole,
     local, storeVars, keys, janVars, OwnerCloses, CreatorKnown, LocalsReady,
     TypeOK, SignalingTypeOK, Processes, Sessions, Closing
<1>15. ASSUME NEW r \in Requests, Rollback(r), UNCHANGED janVars
       PROVE  OwnerCloses'
  BY <1>15, ProcessAssumption DEF Rollback, Goto, Reply, storeVars, keys,
     janVars, OwnerCloses, CreatorKnown, LocalsReady, TypeOK, SignalingTypeOK,
     Processes, Sessions, Closing
<1>16. ASSUME NEW r \in Requests, Record(r), UNCHANGED janVars
       PROVE  OwnerCloses'
  BY <1>16, ProcessAssumption DEF Record, Goto, Reply, AddIngressID, storeVars,
     keys, janVars, OwnerCloses, CreatorKnown, LocalsReady, TypeOK,
     SignalingTypeOK, Processes, Sessions, Closing
<1>17. ASSUME NEW r \in Requests, RecordLost(r), UNCHANGED janVars
       PROVE  OwnerCloses'
  BY <1>17, ProcessAssumption DEF RecordLost, Fault, AddIngressID, local,
     storeVars, keys, janVars, OwnerCloses, CreatorKnown, LocalsReady, TypeOK,
     SignalingTypeOK, Processes, Sessions, Closing
<1>18. ASSUME NEW r \in Requests, List(r), UNCHANGED janVars
       PROVE  OwnerCloses'
  BY <1>18, ProcessAssumption DEF List, Goto, storeVars, keys, janVars,
     OwnerCloses, CreatorKnown, LocalsReady, TypeOK, SignalingTypeOK, Processes,
     Sessions, Closing
<1>19. ASSUME NEW r \in Requests, NEW s \in Sessions, LoadEach(r, s), UNCHANGED janVars
       PROVE  OwnerCloses'
  BY <1>19, ProcessAssumption DEF LoadEach, Goto, Reply, Readable, Exists,
     storeVars, keys, janVars, OwnerCloses, CreatorKnown, LocalsReady, TypeOK,
     SignalingTypeOK, Processes, Sessions, Closing
<1>20. ASSUME NEW r \in Requests, Forget(r), UNCHANGED janVars
       PROVE  OwnerCloses'
  BY <1>20, ProcessAssumption DEF Forget, Goto, ForgetUserSession, storeVars,
     keys, janVars, OwnerCloses, CreatorKnown, LocalsReady, TypeOK,
     SignalingTypeOK, Processes, Sessions, Closing
<1>21. ASSUME NEW r \in Requests, ListDone(r), UNCHANGED janVars
       PROVE  OwnerCloses'
  BY <1>21, ProcessAssumption DEF ListDone, Goto, Reply, storeVars, keys,
     janVars, OwnerCloses, CreatorKnown, LocalsReady, TypeOK, SignalingTypeOK,
     Processes, Sessions, Closing
<1>22. ASSUME NEW r \in Requests, CallFails(r), UNCHANGED janVars
       PROVE  OwnerCloses'
  BY <1>22, ProcessAssumption DEF CallFails, Goto, Reply, Fault, GrantError,
     storeVars, keys, janVars, OwnerCloses, CreatorKnown, LocalsReady, TypeOK,
     SignalingTypeOK, Processes, Sessions, Closing
<1>23. ASSUME NEW r \in Requests, RequestDies(r), UNCHANGED janVars
       PROVE  OwnerCloses'
  BY <1>23, ProcessAssumption DEF RequestDies, Goto, Fault, storeVars, keys,
     janVars, OwnerCloses, CreatorKnown, LocalsReady, TypeOK, SignalingTypeOK,
     Processes, Sessions, Closing
<1>24. ASSUME NEW p \in Processes, GetIngressIDs(p), UNCHANGED janVars
       PROVE  OwnerCloses'
  BY <1>24, ProcessAssumption DEF GetIngressIDs, Goto, storeVars, keys, janVars,
     OwnerCloses, CreatorKnown, LocalsReady, TypeOK, SignalingTypeOK, Processes,
     Sessions, Closing
<1>25. ASSUME NEW p \in Processes, NEW i \in Requests, DeleteIngress(p, i),
              UNCHANGED janVars
       PROVE  OwnerCloses'
  BY <1>25, ProcessAssumption DEF DeleteIngress, storeVars, keys, janVars,
     OwnerCloses, CreatorKnown, LocalsReady, TypeOK, SignalingTypeOK, Processes,
     Sessions, Closing
<1>26. ASSUME NEW p \in Processes, NEW i \in Requests, DeleteIngressFails(p, i),
              UNCHANGED janVars
       PROVE  OwnerCloses'
  BY <1>26, ProcessAssumption DEF DeleteIngressFails, Fault, storeVars, keys,
     janVars, OwnerCloses, CreatorKnown, LocalsReady, TypeOK, SignalingTypeOK,
     Processes, Sessions, Closing
<1>27. ASSUME NEW p \in Processes, DeleteRoom(p), UNCHANGED janVars
       PROVE  OwnerCloses'
  BY <1>27, ProcessAssumption DEF DeleteRoom, Goto, storeVars, keys, janVars,
     OwnerCloses, CreatorKnown, LocalsReady, TypeOK, SignalingTypeOK, Processes,
     Sessions, Closing
<1>28. ASSUME NEW p \in Processes, StatusExists(p), UNCHANGED janVars
       PROVE  OwnerCloses'
  BY <1>28, ProcessAssumption DEF StatusExists, Goto, Reply, CloseEnds,
     storeVars, keys, janVars, OwnerCloses, CreatorKnown, LocalsReady, TypeOK,
     SignalingTypeOK, Processes, Sessions, Closing
<1>29. ASSUME NEW p \in Processes, SetStatus(p), UNCHANGED janVars
       PROVE  OwnerCloses'
  BY <1>29, ProcessAssumption DEF SetStatus, Goto, SetStatusClosed, storeVars,
     keys, janVars, OwnerCloses, CreatorKnown, LocalsReady, TypeOK,
     SignalingTypeOK, Processes, Sessions, Closing
<1>30. ASSUME NEW p \in Processes, SetStatusLost(p), UNCHANGED janVars
       PROVE  OwnerCloses'
  BY <1>30, ProcessAssumption DEF SetStatusLost, Fault, SetStatusClosed, local,
     storeVars, keys, janVars, OwnerCloses, CreatorKnown, LocalsReady, TypeOK,
     SignalingTypeOK, Processes, Sessions, Closing
<1>31. ASSUME NEW p \in Processes, ZRem(p), UNCHANGED janVars
       PROVE  OwnerCloses'
  BY <1>31, ProcessAssumption DEF ZRem, Goto, Reply, CloseEnds, RemoveActive,
     storeVars, keys, janVars, OwnerCloses, CreatorKnown, LocalsReady, TypeOK,
     SignalingTypeOK, Processes, Sessions, Closing
<1>32. ASSUME NEW p \in Processes, CloseCallFails(p), UNCHANGED janVars
       PROVE  OwnerCloses'
  BY <1>32, ProcessAssumption DEF CloseCallFails, Goto, Reply, CloseEnds, Fault,
     storeVars, keys, janVars, OwnerCloses, CreatorKnown, LocalsReady, TypeOK,
     SignalingTypeOK, Processes, Sessions, Closing
<1>33. ASSUME NEW w \in Sweepers, Lock(w)
       PROVE  OwnerCloses'
  BY <1>33, ProcessAssumption DEF Lock, Goto, storeVars, keys, janVars,
     OwnerCloses, CreatorKnown, LocalsReady, TypeOK, SignalingTypeOK, Processes,
     Sessions, Closing
<1>34. ASSUME NEW w \in Sweepers, Range(w)
       PROVE  OwnerCloses'
  BY <1>34, ProcessAssumption DEF Range, Goto, storeVars, keys, janVars,
     OwnerCloses, CreatorKnown, LocalsReady, TypeOK, SignalingTypeOK, Processes,
     Sessions, Closing
<1>35. ASSUME NEW w \in Sweepers, NEW s \in Sessions, Fetch(w, s)
       PROVE  OwnerCloses'
  BY <1>35, ProcessAssumption DEF Fetch, Goto, storeVars, keys, janVars,
     OwnerCloses, CreatorKnown, LocalsReady, TypeOK, SignalingTypeOK, Processes,
     Sessions, Closing
<1>36. ASSUME NEW w \in Sweepers, Drop(w)
       PROVE  OwnerCloses'
  BY <1>36, ProcessAssumption DEF Drop, Goto, RemoveActive, storeVars, keys,
     janVars, OwnerCloses, CreatorKnown, LocalsReady, TypeOK, SignalingTypeOK,
     Processes, Sessions, Closing
<1>37. ASSUME NEW w \in Sweepers, FetchDone(w)
       PROVE  OwnerCloses'
  BY <1>37, ProcessAssumption DEF FetchDone, Goto, storeVars, keys, janVars,
     OwnerCloses, CreatorKnown, LocalsReady, TypeOK, SignalingTypeOK, Processes,
     Sessions, Closing
<1>38. ASSUME NEW w \in Sweepers, NEW s \in Sessions, CloseExpired(w, s)
       PROVE  OwnerCloses'
  BY <1>38, ProcessAssumption DEF CloseExpired, Goto, storeVars, keys, janVars,
     OwnerCloses, CreatorKnown, LocalsReady, TypeOK, SignalingTypeOK, Processes,
     Sessions, Closing
<1>39. ASSUME NEW w \in Sweepers, SweepDone(w)
       PROVE  OwnerCloses'
  BY <1>39, ProcessAssumption DEF SweepDone, Goto, storeVars, keys, janVars,
     OwnerCloses, CreatorKnown, LocalsReady, TypeOK, SignalingTypeOK, Processes,
     Sessions, Closing
<1>40. ASSUME NEW w \in Sweepers, Release(w)
       PROVE  OwnerCloses'
  BY <1>40, ProcessAssumption DEF Release, Goto, InstanceOf, storeVars, keys,
     janVars, OwnerCloses, CreatorKnown, LocalsReady, TypeOK, SignalingTypeOK,
     Processes, Sessions, Closing
<1>41. ASSUME NEW w \in Sweepers, SweepCallFails(w)
       PROVE  OwnerCloses'
  BY <1>41, ProcessAssumption DEF SweepCallFails, Goto, Fault, storeVars, keys,
     janVars, OwnerCloses, CreatorKnown, LocalsReady, TypeOK, SignalingTypeOK,
     Processes, Sessions, Closing
<1>42. ASSUME NEW w \in Sweepers, LockLost(w)
       PROVE  OwnerCloses'
  BY <1>42, ProcessAssumption DEF LockLost, Goto, Fault, storeVars, keys,
     janVars, OwnerCloses, CreatorKnown, LocalsReady, TypeOK, SignalingTypeOK,
     Processes, Sessions, Closing
<1>43. ASSUME NEW i \in Instances, Tick(i)
       PROVE  OwnerCloses'
  BY <1>43, ProcessAssumption DEF Tick, Goto, storeVars, keys, janVars,
     OwnerCloses, CreatorKnown, LocalsReady, TypeOK, SignalingTypeOK, Processes,
     Sessions, Closing
<1>44. ASSUME NEW i \in Instances, Reconnect(i)
       PROVE  OwnerCloses'
  BY <1>44, ProcessAssumption DEF Reconnect, Goto, storeVars, keys, janVars,
     OwnerCloses, CreatorKnown, LocalsReady, TypeOK, SignalingTypeOK, Processes,
     Sessions, Closing
<1>45. ASSUME NEW i \in Instances, PingFails(i)
       PROVE  OwnerCloses'
  BY <1>45, ProcessAssumption DEF PingFails, sigVars, local, storeVars, keys,
     janVars, OwnerCloses, CreatorKnown, LocalsReady, TypeOK, SignalingTypeOK,
     Processes, Sessions, Closing
<1>46. ASSUME NEW i \in Instances, Crash(i)
       PROVE  OwnerCloses'
  BY <1>46, ProcessAssumption DEF Crash, Fault, InstanceOf, storeVars, keys,
     janVars, OwnerCloses, CreatorKnown, LocalsReady, TypeOK, SignalingTypeOK,
     Processes, Sessions, Closing
<1>47. ASSUME LockExpires
       PROVE  OwnerCloses'
  BY <1>47, ProcessAssumption DEF LockExpires, InSweep, sigVars, local,
     storeVars, keys, janVars, OwnerCloses, CreatorKnown, LocalsReady, TypeOK,
     SignalingTypeOK, Processes, Sessions, Closing
<1>48. ASSUME NEW s \in Sessions, Lapse(s)
       PROVE  OwnerCloses'
  BY <1>48, ProcessAssumption DEF Lapse, local, storeVars, keys, janVars,
     OwnerCloses, CreatorKnown, LocalsReady, TypeOK, SignalingTypeOK, Processes,
     Sessions, Closing
<1>49. ASSUME Expire
       PROVE  OwnerCloses'
  BY <1>49, ProcessAssumption DEF Expire, Expiry, ExpireHash, ExpireRoomCode,
     ExpireAccess, ExpireIngressIDs, ExpireUserSessions, local, storeVars, keys,
     janVars, OwnerCloses, CreatorKnown, LocalsReady, TypeOK, SignalingTypeOK,
     Processes, Sessions, Closing
<1>50. CASE UNCHANGED vars
  BY <1>50 DEF vars, sigVars, storeVars, keys, local, janVars, OwnerCloses,
     CreatorKnown, LocalsReady, TypeOK, SignalingTypeOK, Processes, Sessions,
     Closing
<1>51. ASSUME NEW w \in Sweepers, ReleaseLost(w)
       PROVE  OwnerCloses'
  BY <1>51, ProcessAssumption DEF ReleaseLost, Fault, InstanceOf, local, storeVars, keys,
     janVars, OwnerCloses, CreatorKnown, LocalsReady, TypeOK, SignalingTypeOK,
     Processes, Sessions, Closing
<1> QED
  BY <1>1, <1>2, <1>3, <1>4, <1>5, <1>6, <1>7, <1>8, <1>9, <1>10, <1>11, <1>12,
     <1>13, <1>14, <1>15, <1>16, <1>17, <1>18, <1>19, <1>20, <1>21, <1>22, <1>23,
     <1>24, <1>25, <1>26, <1>27, <1>28, <1>29, <1>30, <1>31, <1>32, <1>33, <1>34,
     <1>35, <1>36, <1>37, <1>38, <1>39, <1>40, <1>41, <1>42, <1>43, <1>44, <1>45,
     <1>46, <1>47, <1>48, <1>49, <1>50, <1>51 DEF Next, Request, Begin, Handle,
     HandleFault, CloseStep, Close, CloseFault, Sweep

\* Every step leaves a sweep with lapsed sessions only.
LEMMA ScopeInductive ==
  ASSUME TypeOK, LocalsReady, SweepScope, [Next]_vars
  PROVE  SweepScope'
<1>1. ASSUME NEW r \in Requests, NEW u \in Users, BeginCreate(r, u), UNCHANGED janVars
      PROVE  SweepScope'
  BY <1>1, ProcessAssumption DEF BeginCreate, Arrive, Goto, storeVars, keys,
     janVars, SweepScope, LocalsReady, TypeOK, SignalingTypeOK, StoreTypeOK,
     Processes, Sessions, Closing, SweepSteps, HandlerSteps
<1>2. ASSUME NEW r \in Requests, NEW op \in DOMAIN FirstCall, NEW u \in Users,
             NEW c \in Codes, BeginByCode(r, op, u, c), UNCHANGED janVars
      PROVE  SweepScope'
  BY <1>2, ProcessAssumption DEF BeginByCode, Arrive, Goto, FirstCall,
     storeVars, keys, janVars, SweepScope, LocalsReady, TypeOK, SignalingTypeOK,
     StoreTypeOK, Processes, Sessions, Closing, SweepSteps, HandlerSteps
<1>3. ASSUME NEW r \in Requests, NEW u \in Users, BeginList(r, u), UNCHANGED janVars
      PROVE  SweepScope'
  BY <1>3, ProcessAssumption DEF BeginList, Arrive, Goto, storeVars, keys,
     janVars, SweepScope, LocalsReady, TypeOK, SignalingTypeOK, StoreTypeOK,
     Processes, Sessions, Closing, SweepSteps, HandlerSteps
<1>4. ASSUME NEW r \in Requests, NEW c \in Codes, PickCode(r, c), UNCHANGED janVars
      PROVE  SweepScope'
  BY <1>4, ProcessAssumption DEF PickCode, Goto, storeVars, keys, janVars,
     SweepScope, LocalsReady, TypeOK, SignalingTypeOK, StoreTypeOK, Processes,
     Sessions, Closing, SweepSteps, HandlerSteps
<1>5. ASSUME NEW r \in Requests, CheckCode(r), UNCHANGED janVars
      PROVE  SweepScope'
  BY <1>5, ProcessAssumption DEF CheckCode, Goto, Reply, storeVars, keys,
     janVars, SweepScope, LocalsReady, TypeOK, SignalingTypeOK, StoreTypeOK,
     Processes, Sessions, Closing, SweepSteps, HandlerSteps
<1>6. ASSUME NEW r \in Requests, Create(r), UNCHANGED janVars
      PROVE  SweepScope'
  BY <1>6, ProcessAssumption DEF Create, Goto, CreatePipeline, storeVars, keys,
     janVars, SweepScope, LocalsReady, TypeOK, SignalingTypeOK, StoreTypeOK,
     Processes, Sessions, Closing, SweepSteps, HandlerSteps
<1>7. ASSUME NEW r \in Requests, NEW n \in {1, 2, 3, 5, 6}, CreateInterrupted(r, n),
             UNCHANGED janVars
      PROVE  SweepScope'
  BY <1>7, ProcessAssumption DEF CreateInterrupted, Fault, CreatePipeline,
     local, storeVars, keys, janVars, SweepScope, LocalsReady, TypeOK,
     SignalingTypeOK, StoreTypeOK, Processes, Sessions, Closing, SweepSteps,
     HandlerSteps
<1>8. ASSUME NEW r \in Requests, Lookup(r), UNCHANGED janVars
      PROVE  SweepScope'
  BY <1>8, ProcessAssumption DEF Lookup, Goto, Reply, storeVars, keys, janVars,
     SweepScope, LocalsReady, TypeOK, SignalingTypeOK, StoreTypeOK, Processes,
     Sessions, Closing, SweepSteps, HandlerSteps
<1>9. ASSUME NEW r \in Requests, Load(r), UNCHANGED janVars
      PROVE  SweepScope'
  BY <1>9, ProcessAssumption DEF Load, Goto, Reply, FirstCall, MayProceed,
     Readable, storeVars, keys, janVars, SweepScope, LocalsReady, TypeOK,
     SignalingTypeOK, StoreTypeOK, Processes, Sessions, Closing, SweepSteps,
     HandlerSteps
<1>10. ASSUME NEW r \in Requests, NewIngress(r), UNCHANGED janVars
       PROVE  SweepScope'
  BY <1>10, ProcessAssumption DEF NewIngress, Goto, storeVars, keys, janVars,
     SweepScope, LocalsReady, TypeOK, SignalingTypeOK, StoreTypeOK, Processes,
     Sessions, Closing, SweepSteps, HandlerSteps
<1>11. ASSUME NEW r \in Requests, NewIngressLost(r), UNCHANGED janVars
       PROVE  SweepScope'
  BY <1>11, ProcessAssumption DEF NewIngressLost, Goto, Reply, Fault, storeVars,
     keys, janVars, SweepScope, LocalsReady, TypeOK, SignalingTypeOK, StoreTypeOK,
     Processes, Sessions, Closing, SweepSteps, HandlerSteps
<1>12. ASSUME NEW r \in Requests, GrantExists(r), UNCHANGED janVars
       PROVE  SweepScope'
  BY <1>12, ProcessAssumption DEF GrantExists, Goto, Reply, GrantError,
     storeVars, keys, janVars, SweepScope, LocalsReady, TypeOK, SignalingTypeOK,
     StoreTypeOK, Processes, Sessions, Closing, SweepSteps, HandlerSteps
<1>13. ASSUME NEW r \in Requests, Grant(r), UNCHANGED janVars
       PROVE  SweepScope'
  BY <1>13, ProcessAssumption DEF Grant, Goto, Reply, GrantAccess, GrantedRole,
     storeVars, keys, janVars, SweepScope, LocalsReady, TypeOK, SignalingTypeOK,
     StoreTypeOK, Processes, Sessions, Closing, SweepSteps, HandlerSteps
<1>14. ASSUME NEW r \in Requests, GrantLost(r), UNCHANGED janVars
       PROVE  SweepScope'
  BY <1>14, ProcessAssumption DEF GrantLost, Fault, GrantAccess, GrantedRole,
     local, storeVars, keys, janVars, SweepScope, LocalsReady, TypeOK,
     SignalingTypeOK, StoreTypeOK, Processes, Sessions, Closing, SweepSteps,
     HandlerSteps
<1>15. ASSUME NEW r \in Requests, Rollback(r), UNCHANGED janVars
       PROVE  SweepScope'
  BY <1>15, ProcessAssumption DEF Rollback, Goto, Reply, storeVars, keys,
     janVars, SweepScope, LocalsReady, TypeOK, SignalingTypeOK, StoreTypeOK,
     Processes, Sessions, Closing, SweepSteps, HandlerSteps
<1>16. ASSUME NEW r \in Requests, Record(r), UNCHANGED janVars
       PROVE  SweepScope'
  BY <1>16, ProcessAssumption DEF Record, Goto, Reply, AddIngressID, storeVars,
     keys, janVars, SweepScope, LocalsReady, TypeOK, SignalingTypeOK, StoreTypeOK,
     Processes, Sessions, Closing, SweepSteps, HandlerSteps
<1>17. ASSUME NEW r \in Requests, RecordLost(r), UNCHANGED janVars
       PROVE  SweepScope'
  BY <1>17, ProcessAssumption DEF RecordLost, Fault, AddIngressID, local,
     storeVars, keys, janVars, SweepScope, LocalsReady, TypeOK, SignalingTypeOK,
     StoreTypeOK, Processes, Sessions, Closing, SweepSteps, HandlerSteps
<1>18. ASSUME NEW r \in Requests, List(r), UNCHANGED janVars
       PROVE  SweepScope'
  BY <1>18, ProcessAssumption DEF List, Goto, storeVars, keys, janVars,
     SweepScope, LocalsReady, TypeOK, SignalingTypeOK, StoreTypeOK, Processes,
     Sessions, Closing, SweepSteps, HandlerSteps
<1>19. ASSUME NEW r \in Requests, NEW s \in Sessions, LoadEach(r, s), UNCHANGED janVars
       PROVE  SweepScope'
  BY <1>19, ProcessAssumption DEF LoadEach, Goto, Reply, Readable, Exists,
     storeVars, keys, janVars, SweepScope, LocalsReady, TypeOK, SignalingTypeOK,
     StoreTypeOK, Processes, Sessions, Closing, SweepSteps, HandlerSteps
<1>20. ASSUME NEW r \in Requests, Forget(r), UNCHANGED janVars
       PROVE  SweepScope'
  BY <1>20, ProcessAssumption DEF Forget, Goto, ForgetUserSession, storeVars,
     keys, janVars, SweepScope, LocalsReady, TypeOK, SignalingTypeOK, StoreTypeOK,
     Processes, Sessions, Closing, SweepSteps, HandlerSteps
<1>21. ASSUME NEW r \in Requests, ListDone(r), UNCHANGED janVars
       PROVE  SweepScope'
  BY <1>21, ProcessAssumption DEF ListDone, Goto, Reply, storeVars, keys,
     janVars, SweepScope, LocalsReady, TypeOK, SignalingTypeOK, StoreTypeOK,
     Processes, Sessions, Closing, SweepSteps, HandlerSteps
<1>22. ASSUME NEW r \in Requests, CallFails(r), UNCHANGED janVars
       PROVE  SweepScope'
  BY <1>22, ProcessAssumption DEF CallFails, Goto, Reply, Fault, GrantError,
     storeVars, keys, janVars, SweepScope, LocalsReady, TypeOK, SignalingTypeOK,
     StoreTypeOK, Processes, Sessions, Closing, SweepSteps, HandlerSteps
<1>23. ASSUME NEW r \in Requests, RequestDies(r), UNCHANGED janVars
       PROVE  SweepScope'
  BY <1>23, ProcessAssumption DEF RequestDies, Goto, Fault, storeVars, keys,
     janVars, SweepScope, LocalsReady, TypeOK, SignalingTypeOK, StoreTypeOK,
     Processes, Sessions, Closing, SweepSteps, HandlerSteps
<1>24. ASSUME NEW p \in Processes, GetIngressIDs(p), UNCHANGED janVars
       PROVE  SweepScope'
  BY <1>24, ProcessAssumption DEF GetIngressIDs, Goto, storeVars, keys, janVars,
     SweepScope, LocalsReady, TypeOK, SignalingTypeOK, StoreTypeOK, Processes,
     Sessions, Closing, SweepSteps, HandlerSteps
<1>25. ASSUME NEW p \in Processes, NEW i \in Requests, DeleteIngress(p, i),
              UNCHANGED janVars
       PROVE  SweepScope'
  BY <1>25, ProcessAssumption DEF DeleteIngress, storeVars, keys, janVars,
     SweepScope, LocalsReady, TypeOK, SignalingTypeOK, StoreTypeOK, Processes,
     Sessions, Closing, SweepSteps, HandlerSteps
<1>26. ASSUME NEW p \in Processes, NEW i \in Requests, DeleteIngressFails(p, i),
              UNCHANGED janVars
       PROVE  SweepScope'
  BY <1>26, ProcessAssumption DEF DeleteIngressFails, Fault, storeVars, keys,
     janVars, SweepScope, LocalsReady, TypeOK, SignalingTypeOK, StoreTypeOK,
     Processes, Sessions, Closing, SweepSteps, HandlerSteps
<1>27. ASSUME NEW p \in Processes, DeleteRoom(p), UNCHANGED janVars
       PROVE  SweepScope'
  BY <1>27, ProcessAssumption DEF DeleteRoom, Goto, storeVars, keys, janVars,
     SweepScope, LocalsReady, TypeOK, SignalingTypeOK, StoreTypeOK, Processes,
     Sessions, Closing, SweepSteps, HandlerSteps
<1>28. ASSUME NEW p \in Processes, StatusExists(p), UNCHANGED janVars
       PROVE  SweepScope'
  <2>1. cur' = cur /\ todo' = todo /\ lapsed' = lapsed /\ expired' = expired
    BY <1>28 DEF StatusExists, storeVars, keys, janVars
  <2>2. \A w \in Sweepers : pc'[w] = pc[w] \/ (w = p /\ pc'[w] \in {"set_status", "next"})
    BY <1>28, ProcessAssumption DEF StatusExists, Goto, Reply, CloseEnds, TypeOK, Processes
  <2> QED
    BY <2>1, <2>2, <1>28 DEF StatusExists, SweepScope, Closing
<1>29. ASSUME NEW p \in Processes, SetStatus(p), UNCHANGED janVars
       PROVE  SweepScope'
  BY <1>29, ProcessAssumption DEF SetStatus, Goto, SetStatusClosed, storeVars,
     keys, janVars, SweepScope, LocalsReady, TypeOK, SignalingTypeOK, StoreTypeOK,
     Processes, Sessions, Closing, SweepSteps, HandlerSteps
<1>30. ASSUME NEW p \in Processes, SetStatusLost(p), UNCHANGED janVars
       PROVE  SweepScope'
  BY <1>30, ProcessAssumption DEF SetStatusLost, Fault, SetStatusClosed, local,
     storeVars, keys, janVars, SweepScope, LocalsReady, TypeOK, SignalingTypeOK,
     StoreTypeOK, Processes, Sessions, Closing, SweepSteps, HandlerSteps
<1>31. ASSUME NEW p \in Processes, ZRem(p), UNCHANGED janVars
       PROVE  SweepScope'
  <2>1. cur' = cur /\ todo' = todo /\ lapsed' = lapsed /\ expired' = expired
    BY <1>31 DEF ZRem, RemoveActive, storeVars, keys, janVars
  <2>2. \A w \in Sweepers : pc'[w] = pc[w] \/ (w = p /\ pc'[w] = "next")
    BY <1>31, ProcessAssumption DEF ZRem, Goto, Reply, CloseEnds, TypeOK, Processes
  <2> QED
    BY <2>1, <2>2, <1>31 DEF ZRem, SweepScope, Closing
<1>32. ASSUME NEW p \in Processes, CloseCallFails(p), UNCHANGED janVars
       PROVE  SweepScope'
  <2>1. CASE pc[p] = "get_ingresses"
    <3>1. /\ pc' = [pc EXCEPT ![p] = "delete_ingresses"]
          /\ cur' = cur
          /\ todo' = todo
          /\ lapsed' = lapsed
          /\ expired' = expired
      BY <1>32, <2>1 DEF CloseCallFails, Goto, Reply, CloseEnds, Fault, storeVars,
         keys, janVars
    <3> QED
      BY <1>32, <2>1, <3>1, ProcessAssumption DEF CloseCallFails, SweepScope,
         TypeOK, SignalingTypeOK, Processes, Closing
  <2>2. CASE pc[p] # "get_ingresses" /\ p \in Requests
    <3>1. /\ pc' = [pc EXCEPT ![p] = "done"]
          /\ cur' = cur
          /\ todo' = todo
          /\ lapsed' = lapsed
          /\ expired' = expired
      BY <1>32, <2>2 DEF CloseCallFails, Goto, Reply, CloseEnds, Fault, storeVars,
         keys, janVars
    <3> QED
      BY <1>32, <2>2, <3>1, ProcessAssumption DEF CloseCallFails, SweepScope,
         TypeOK, SignalingTypeOK, Processes, Closing
  <2>3. CASE pc[p] # "get_ingresses" /\ p \notin Requests
    <3>1. /\ pc' = [pc EXCEPT ![p] = "next"]
          /\ cur' = cur
          /\ todo' = todo
          /\ lapsed' = lapsed
          /\ expired' = expired
      BY <1>32, <2>3 DEF CloseCallFails, Goto, Reply, CloseEnds, Fault, storeVars,
         keys, janVars
    <3> QED
      BY <1>32, <2>3, <3>1, ProcessAssumption DEF CloseCallFails, SweepScope,
         TypeOK, SignalingTypeOK, Processes, Closing
  <2> QED
    BY <1>32, <2>1, <2>2, <2>3 DEF CloseCallFails
<1>33. ASSUME NEW w \in Sweepers, Lock(w)
       PROVE  SweepScope'
  BY <1>33, ProcessAssumption DEF Lock, Goto, storeVars, keys, janVars,
     SweepScope, LocalsReady, TypeOK, SignalingTypeOK, StoreTypeOK, Processes,
     Sessions, Closing, SweepSteps, HandlerSteps
<1>34. ASSUME NEW w \in Sweepers, Range(w)
       PROVE  SweepScope'
  BY <1>34, ProcessAssumption DEF Range, Goto, storeVars, keys, janVars,
     SweepScope, LocalsReady, TypeOK, SignalingTypeOK, StoreTypeOK, Processes,
     Sessions, Closing, SweepSteps, HandlerSteps
<1>35. ASSUME NEW w \in Sweepers, NEW s \in Sessions, Fetch(w, s)
       PROVE  SweepScope'
  BY <1>35, ProcessAssumption DEF Fetch, Goto, storeVars, keys, janVars,
     SweepScope, LocalsReady, TypeOK, SignalingTypeOK, StoreTypeOK, Processes,
     Sessions, Closing, SweepSteps, HandlerSteps
<1>36. ASSUME NEW w \in Sweepers, Drop(w)
       PROVE  SweepScope'
  BY <1>36, ProcessAssumption DEF Drop, Goto, RemoveActive, storeVars, keys,
     janVars, SweepScope, LocalsReady, TypeOK, SignalingTypeOK, StoreTypeOK,
     Processes, Sessions, Closing, SweepSteps, HandlerSteps
<1>37. ASSUME NEW w \in Sweepers, FetchDone(w)
       PROVE  SweepScope'
  BY <1>37, ProcessAssumption DEF FetchDone, Goto, storeVars, keys, janVars,
     SweepScope, LocalsReady, TypeOK, SignalingTypeOK, StoreTypeOK, Processes,
     Sessions, Closing, SweepSteps, HandlerSteps
<1>38. ASSUME NEW w \in Sweepers, NEW s \in Sessions, CloseExpired(w, s)
       PROVE  SweepScope'
  BY <1>38, ProcessAssumption DEF CloseExpired, Goto, storeVars, keys, janVars,
     SweepScope, LocalsReady, TypeOK, SignalingTypeOK, StoreTypeOK, Processes,
     Sessions, Closing, SweepSteps, HandlerSteps
<1>39. ASSUME NEW w \in Sweepers, SweepDone(w)
       PROVE  SweepScope'
  BY <1>39, ProcessAssumption DEF SweepDone, Goto, storeVars, keys, janVars,
     SweepScope, LocalsReady, TypeOK, SignalingTypeOK, StoreTypeOK, Processes,
     Sessions, Closing, SweepSteps, HandlerSteps
<1>40. ASSUME NEW w \in Sweepers, Release(w)
       PROVE  SweepScope'
  BY <1>40, ProcessAssumption DEF Release, Goto, InstanceOf, storeVars, keys,
     janVars, SweepScope, LocalsReady, TypeOK, SignalingTypeOK, StoreTypeOK,
     Processes, Sessions, Closing, SweepSteps, HandlerSteps
<1>41. ASSUME NEW w \in Sweepers, SweepCallFails(w)
       PROVE  SweepScope'
  BY <1>41, ProcessAssumption DEF SweepCallFails, Goto, Fault, storeVars, keys,
     janVars, SweepScope, LocalsReady, TypeOK, SignalingTypeOK, StoreTypeOK,
     Processes, Sessions, Closing, SweepSteps, HandlerSteps
<1>42. ASSUME NEW w \in Sweepers, LockLost(w)
       PROVE  SweepScope'
  BY <1>42, ProcessAssumption DEF LockLost, Goto, Fault, storeVars, keys,
     janVars, SweepScope, LocalsReady, TypeOK, SignalingTypeOK, StoreTypeOK,
     Processes, Sessions, Closing, SweepSteps, HandlerSteps
<1>43. ASSUME NEW i \in Instances, Tick(i)
       PROVE  SweepScope'
  BY <1>43, ProcessAssumption DEF Tick, Goto, storeVars, keys, janVars,
     SweepScope, LocalsReady, TypeOK, SignalingTypeOK, StoreTypeOK, Processes,
     Sessions, Closing, SweepSteps, HandlerSteps
<1>44. ASSUME NEW i \in Instances, Reconnect(i)
       PROVE  SweepScope'
  BY <1>44, ProcessAssumption DEF Reconnect, Goto, storeVars, keys, janVars,
     SweepScope, LocalsReady, TypeOK, SignalingTypeOK, StoreTypeOK, Processes,
     Sessions, Closing, SweepSteps, HandlerSteps
<1>45. ASSUME NEW i \in Instances, PingFails(i)
       PROVE  SweepScope'
  BY <1>45, ProcessAssumption DEF PingFails, sigVars, local, storeVars, keys,
     janVars, SweepScope, LocalsReady, TypeOK, SignalingTypeOK, StoreTypeOK,
     Processes, Sessions, Closing, SweepSteps, HandlerSteps
<1>46. ASSUME NEW i \in Instances, Crash(i)
       PROVE  SweepScope'
  BY <1>46, ProcessAssumption DEF Crash, Fault, InstanceOf, storeVars, keys,
     janVars, SweepScope, LocalsReady, TypeOK, SignalingTypeOK, StoreTypeOK,
     Processes, Sessions, Closing, SweepSteps, HandlerSteps
<1>47. ASSUME LockExpires
       PROVE  SweepScope'
  BY <1>47, ProcessAssumption DEF LockExpires, InSweep, sigVars, local,
     storeVars, keys, janVars, SweepScope, LocalsReady, TypeOK, SignalingTypeOK,
     StoreTypeOK, Processes, Sessions, Closing, SweepSteps, HandlerSteps
<1>48. ASSUME NEW s \in Sessions, Lapse(s)
       PROVE  SweepScope'
  BY <1>48, ProcessAssumption DEF Lapse, local, storeVars, keys, janVars,
     SweepScope, LocalsReady, TypeOK, SignalingTypeOK, StoreTypeOK, Processes,
     Sessions, Closing, SweepSteps, HandlerSteps
<1>49. ASSUME Expire
       PROVE  SweepScope'
  BY <1>49, ProcessAssumption DEF Expire, Expiry, ExpireHash, ExpireRoomCode,
     ExpireAccess, ExpireIngressIDs, ExpireUserSessions, local, storeVars, keys,
     janVars, SweepScope, LocalsReady, TypeOK, SignalingTypeOK, StoreTypeOK,
     Processes, Sessions, Closing, SweepSteps, HandlerSteps
<1>50. CASE UNCHANGED vars
  BY <1>50 DEF vars, sigVars, storeVars, keys, local, janVars, SweepScope,
     LocalsReady, TypeOK, SignalingTypeOK, StoreTypeOK, Processes, Sessions,
     Closing, SweepSteps, HandlerSteps
<1>51. ASSUME NEW w \in Sweepers, ReleaseLost(w)
       PROVE  SweepScope'
  BY <1>51, ProcessAssumption DEF ReleaseLost, Fault, InstanceOf, local, storeVars, keys,
     janVars, SweepScope, LocalsReady, TypeOK, SignalingTypeOK, StoreTypeOK,
     Processes, Sessions, Closing, SweepSteps, HandlerSteps
<1> QED
  BY <1>1, <1>2, <1>3, <1>4, <1>5, <1>6, <1>7, <1>8, <1>9, <1>10, <1>11, <1>12,
     <1>13, <1>14, <1>15, <1>16, <1>17, <1>18, <1>19, <1>20, <1>21, <1>22, <1>23,
     <1>24, <1>25, <1>26, <1>27, <1>28, <1>29, <1>30, <1>31, <1>32, <1>33, <1>34,
     <1>35, <1>36, <1>37, <1>38, <1>39, <1>40, <1>41, <1>42, <1>43, <1>44, <1>45,
     <1>46, <1>47, <1>48, <1>49, <1>50, <1>51 DEF Next, Request, Begin, Handle,
     HandleFault, CloseStep, Close, CloseFault, Sweep

\* Every step leaves the lock with the sweeps it belongs to.
LEMMA LockInductive ==
  ASSUME TypeOK, LockHeld, [Next]_vars
  PROVE  LockHeld'
<1>1. ASSUME NEW r \in Requests, NEW u \in Users, BeginCreate(r, u), UNCHANGED janVars
      PROVE  LockHeld'
  <2>1. \A w \in Sweepers : pc'[w] = pc[w]
    BY <1>1, ProcessAssumption DEF BeginCreate, Arrive, Goto, TypeOK, Processes
  <2> QED
    BY <1>1, <2>1 DEF LockHeld, InSweep, janVars
<1>2. ASSUME NEW r \in Requests, NEW op \in DOMAIN FirstCall, NEW u \in Users,
             NEW c \in Codes, BeginByCode(r, op, u, c), UNCHANGED janVars
      PROVE  LockHeld'
  <2>1. \A w \in Sweepers : pc'[w] = pc[w]
    BY <1>2, ProcessAssumption DEF BeginByCode, Arrive, Goto, FirstCall, TypeOK,
       Processes
  <2> QED
    BY <1>2, <2>1 DEF LockHeld, InSweep, janVars
<1>3. ASSUME NEW r \in Requests, NEW u \in Users, BeginList(r, u), UNCHANGED janVars
      PROVE  LockHeld'
  <2>1. \A w \in Sweepers : pc'[w] = pc[w]
    BY <1>3, ProcessAssumption DEF BeginList, Arrive, Goto, TypeOK, Processes
  <2> QED
    BY <1>3, <2>1 DEF LockHeld, InSweep, janVars
<1>4. ASSUME NEW r \in Requests, NEW c \in Codes, PickCode(r, c), UNCHANGED janVars
      PROVE  LockHeld'
  <2>1. \A w \in Sweepers : pc'[w] = pc[w]
    BY <1>4, ProcessAssumption DEF PickCode, Goto, TypeOK, Processes
  <2> QED
    BY <1>4, <2>1 DEF LockHeld, InSweep, janVars
<1>5. ASSUME NEW r \in Requests, CheckCode(r), UNCHANGED janVars
      PROVE  LockHeld'
  <2>1. \A w \in Sweepers : pc'[w] = pc[w]
    BY <1>5, ProcessAssumption DEF CheckCode, Goto, Reply, TypeOK, Processes
  <2> QED
    BY <1>5, <2>1 DEF LockHeld, InSweep, janVars
<1>6. ASSUME NEW r \in Requests, Create(r), UNCHANGED janVars
      PROVE  LockHeld'
  <2>1. \A w \in Sweepers : pc'[w] = pc[w]
    BY <1>6, ProcessAssumption DEF Create, Goto, CreatePipeline, TypeOK,
       Processes
  <2> QED
    BY <1>6, <2>1 DEF LockHeld, InSweep, janVars
<1>7. ASSUME NEW r \in Requests, NEW n \in {1, 2, 3, 5, 6}, CreateInterrupted(r, n),
             UNCHANGED janVars
      PROVE  LockHeld'
  <2>1. \A w \in Sweepers : pc'[w] = pc[w]
    BY <1>7, ProcessAssumption DEF CreateInterrupted, Fault, CreatePipeline,
       local, TypeOK, Processes
  <2> QED
    BY <1>7, <2>1 DEF LockHeld, InSweep, janVars
<1>8. ASSUME NEW r \in Requests, Lookup(r), UNCHANGED janVars
      PROVE  LockHeld'
  <2>1. \A w \in Sweepers : pc'[w] = pc[w]
    BY <1>8, ProcessAssumption DEF Lookup, Goto, Reply, TypeOK, Processes
  <2> QED
    BY <1>8, <2>1 DEF LockHeld, InSweep, janVars
<1>9. ASSUME NEW r \in Requests, Load(r), UNCHANGED janVars
      PROVE  LockHeld'
  <2>1. \A w \in Sweepers : pc'[w] = pc[w]
    BY <1>9, ProcessAssumption DEF Load, Goto, Reply, FirstCall, MayProceed,
       Readable, TypeOK, Processes
  <2> QED
    BY <1>9, <2>1 DEF LockHeld, InSweep, janVars
<1>10. ASSUME NEW r \in Requests, NewIngress(r), UNCHANGED janVars
       PROVE  LockHeld'
  <2>1. \A w \in Sweepers : pc'[w] = pc[w]
    BY <1>10, ProcessAssumption DEF NewIngress, Goto, TypeOK, Processes
  <2> QED
    BY <1>10, <2>1 DEF LockHeld, InSweep, janVars
<1>11. ASSUME NEW r \in Requests, NewIngressLost(r), UNCHANGED janVars
       PROVE  LockHeld'
  <2>1. \A w \in Sweepers : pc'[w] = pc[w]
    BY <1>11, ProcessAssumption DEF NewIngressLost, Goto, Reply, Fault, TypeOK,
       Processes
  <2> QED
    BY <1>11, <2>1 DEF LockHeld, InSweep, janVars
<1>12. ASSUME NEW r \in Requests, GrantExists(r), UNCHANGED janVars
       PROVE  LockHeld'
  <2>1. \A w \in Sweepers : pc'[w] = pc[w]
    BY <1>12, ProcessAssumption DEF GrantExists, Goto, Reply, GrantError, TypeOK,
       Processes
  <2> QED
    BY <1>12, <2>1 DEF LockHeld, InSweep, janVars
<1>13. ASSUME NEW r \in Requests, Grant(r), UNCHANGED janVars
       PROVE  LockHeld'
  <2>1. \A w \in Sweepers : pc'[w] = pc[w]
    BY <1>13, ProcessAssumption DEF Grant, Goto, Reply, GrantAccess, GrantedRole,
       TypeOK, Processes
  <2> QED
    BY <1>13, <2>1 DEF LockHeld, InSweep, janVars
<1>14. ASSUME NEW r \in Requests, GrantLost(r), UNCHANGED janVars
       PROVE  LockHeld'
  <2>1. \A w \in Sweepers : pc'[w] = pc[w]
    BY <1>14, ProcessAssumption DEF GrantLost, Fault, GrantAccess, GrantedRole,
       local, TypeOK, Processes
  <2> QED
    BY <1>14, <2>1 DEF LockHeld, InSweep, janVars
<1>15. ASSUME NEW r \in Requests, Rollback(r), UNCHANGED janVars
       PROVE  LockHeld'
  <2>1. \A w \in Sweepers : pc'[w] = pc[w]
    BY <1>15, ProcessAssumption DEF Rollback, Goto, Reply, TypeOK, Processes
  <2> QED
    BY <1>15, <2>1 DEF LockHeld, InSweep, janVars
<1>16. ASSUME NEW r \in Requests, Record(r), UNCHANGED janVars
       PROVE  LockHeld'
  <2>1. \A w \in Sweepers : pc'[w] = pc[w]
    BY <1>16, ProcessAssumption DEF Record, Goto, Reply, AddIngressID, TypeOK,
       Processes
  <2> QED
    BY <1>16, <2>1 DEF LockHeld, InSweep, janVars
<1>17. ASSUME NEW r \in Requests, RecordLost(r), UNCHANGED janVars
       PROVE  LockHeld'
  <2>1. \A w \in Sweepers : pc'[w] = pc[w]
    BY <1>17, ProcessAssumption DEF RecordLost, Fault, AddIngressID, local,
       TypeOK, Processes
  <2> QED
    BY <1>17, <2>1 DEF LockHeld, InSweep, janVars
<1>18. ASSUME NEW r \in Requests, List(r), UNCHANGED janVars
       PROVE  LockHeld'
  <2>1. \A w \in Sweepers : pc'[w] = pc[w]
    BY <1>18, ProcessAssumption DEF List, Goto, TypeOK, Processes
  <2> QED
    BY <1>18, <2>1 DEF LockHeld, InSweep, janVars
<1>19. ASSUME NEW r \in Requests, NEW s \in Sessions, LoadEach(r, s), UNCHANGED janVars
       PROVE  LockHeld'
  <2>1. \A w \in Sweepers : pc'[w] = pc[w]
    BY <1>19, ProcessAssumption DEF LoadEach, Goto, Reply, Readable, Exists,
       TypeOK, Processes
  <2> QED
    BY <1>19, <2>1 DEF LockHeld, InSweep, janVars
<1>20. ASSUME NEW r \in Requests, Forget(r), UNCHANGED janVars
       PROVE  LockHeld'
  <2>1. \A w \in Sweepers : pc'[w] = pc[w]
    BY <1>20, ProcessAssumption DEF Forget, Goto, ForgetUserSession, TypeOK,
       Processes
  <2> QED
    BY <1>20, <2>1 DEF LockHeld, InSweep, janVars
<1>21. ASSUME NEW r \in Requests, ListDone(r), UNCHANGED janVars
       PROVE  LockHeld'
  <2>1. \A w \in Sweepers : pc'[w] = pc[w]
    BY <1>21, ProcessAssumption DEF ListDone, Goto, Reply, TypeOK, Processes
  <2> QED
    BY <1>21, <2>1 DEF LockHeld, InSweep, janVars
<1>22. ASSUME NEW r \in Requests, CallFails(r), UNCHANGED janVars
       PROVE  LockHeld'
  <2>1. \A w \in Sweepers : pc'[w] = pc[w]
    BY <1>22, ProcessAssumption DEF CallFails, Goto, Reply, Fault, GrantError,
       TypeOK, Processes
  <2> QED
    BY <1>22, <2>1 DEF LockHeld, InSweep, janVars
<1>23. ASSUME NEW r \in Requests, RequestDies(r), UNCHANGED janVars
       PROVE  LockHeld'
  <2>1. \A w \in Sweepers : pc'[w] = pc[w]
    BY <1>23, ProcessAssumption DEF RequestDies, Goto, Fault, TypeOK, Processes
  <2> QED
    BY <1>23, <2>1 DEF LockHeld, InSweep, janVars
<1>24. ASSUME NEW p \in Processes, GetIngressIDs(p), UNCHANGED janVars
       PROVE  LockHeld'
  <2>1. \A w \in Sweepers : InSweep(w)' => InSweep(w)
    BY <1>24, ProcessAssumption DEF GetIngressIDs, Goto, InSweep, Closing, TypeOK,
       Processes
  <2> QED
    BY <1>24, <2>1 DEF LockHeld, janVars
<1>25. ASSUME NEW p \in Processes, NEW i \in Requests, DeleteIngress(p, i),
              UNCHANGED janVars
       PROVE  LockHeld'
  <2>1. \A w \in Sweepers : InSweep(w)' => InSweep(w)
    BY <1>25, ProcessAssumption DEF DeleteIngress, InSweep, Closing, TypeOK,
       Processes
  <2> QED
    BY <1>25, <2>1 DEF LockHeld, janVars
<1>26. ASSUME NEW p \in Processes, NEW i \in Requests, DeleteIngressFails(p, i),
              UNCHANGED janVars
       PROVE  LockHeld'
  <2>1. \A w \in Sweepers : InSweep(w)' => InSweep(w)
    BY <1>26, ProcessAssumption DEF DeleteIngressFails, Fault, InSweep, Closing,
       TypeOK, Processes
  <2> QED
    BY <1>26, <2>1 DEF LockHeld, janVars
<1>27. ASSUME NEW p \in Processes, DeleteRoom(p), UNCHANGED janVars
       PROVE  LockHeld'
  <2>1. \A w \in Sweepers : InSweep(w)' => InSweep(w)
    BY <1>27, ProcessAssumption DEF DeleteRoom, Goto, InSweep, Closing, TypeOK,
       Processes
  <2> QED
    BY <1>27, <2>1 DEF LockHeld, janVars
<1>28. ASSUME NEW p \in Processes, StatusExists(p), UNCHANGED janVars
       PROVE  LockHeld'
  <2>1. \A w \in Sweepers : InSweep(w)' => InSweep(w)
    BY <1>28, ProcessAssumption DEF StatusExists, Goto, Reply, CloseEnds, InSweep,
       Closing, TypeOK, Processes
  <2> QED
    BY <1>28, <2>1 DEF LockHeld, janVars
<1>29. ASSUME NEW p \in Processes, SetStatus(p), UNCHANGED janVars
       PROVE  LockHeld'
  <2>1. \A w \in Sweepers : InSweep(w)' => InSweep(w)
    BY <1>29, ProcessAssumption DEF SetStatus, Goto, SetStatusClosed, InSweep,
       Closing, TypeOK, Processes
  <2> QED
    BY <1>29, <2>1 DEF LockHeld, janVars
<1>30. ASSUME NEW p \in Processes, SetStatusLost(p), UNCHANGED janVars
       PROVE  LockHeld'
  <2>1. \A w \in Sweepers : InSweep(w)' => InSweep(w)
    BY <1>30, ProcessAssumption DEF SetStatusLost, Fault, SetStatusClosed, local,
       InSweep, Closing, TypeOK, Processes
  <2> QED
    BY <1>30, <2>1 DEF LockHeld, janVars
<1>31. ASSUME NEW p \in Processes, ZRem(p), UNCHANGED janVars
       PROVE  LockHeld'
  <2>1. \A w \in Sweepers : InSweep(w)' => InSweep(w)
    BY <1>31, ProcessAssumption DEF ZRem, Goto, Reply, CloseEnds, RemoveActive,
       InSweep, Closing, TypeOK, Processes
  <2> QED
    BY <1>31, <2>1 DEF LockHeld, janVars
<1>32. ASSUME NEW p \in Processes, CloseCallFails(p), UNCHANGED janVars
       PROVE  LockHeld'
  <2>1. \A w \in Sweepers : InSweep(w)' => InSweep(w)
    BY <1>32, ProcessAssumption DEF CloseCallFails, Goto, Reply, CloseEnds, Fault,
       InSweep, Closing, TypeOK, Processes
  <2> QED
    BY <1>32, <2>1 DEF LockHeld, janVars
<1>33. ASSUME NEW w \in Sweepers, Lock(w)
       PROVE  LockHeld'
  <2>1. CASE lock = None
    <3>1. \A v \in Sweepers : ~(InSweep(v) /\ \A o \in overdue : InstanceOf(o) # InstanceOf(v))
      BY <2>1, ProcessAssumption DEF LockHeld
    <3>2. \A v \in Sweepers \ {w} : InSweep(v)' => InSweep(v)
      BY <1>33 DEF Lock, Goto, InSweep, TypeOK, Processes
    <3>3. lock' = w /\ overdue' = overdue
      BY <1>33, <2>1 DEF Lock
    <3> QED
      BY <3>1, <3>2, <3>3 DEF LockHeld
  <2>2. CASE lock # None
    <3>1. \A v \in Sweepers : InSweep(v)' => InSweep(v)
      BY <1>33, <2>2 DEF Lock, Goto, InSweep, Closing, TypeOK, Processes
    <3>2. lock' = lock /\ overdue' = overdue
      BY <1>33, <2>2 DEF Lock
    <3> QED
      BY <3>1, <3>2 DEF LockHeld
  <2> QED
    BY <2>1, <2>2
<1>34. ASSUME NEW w \in Sweepers, Range(w)
       PROVE  LockHeld'
  <2>1. \A v \in Sweepers : InSweep(v)' => InSweep(v)
    BY <1>34, ProcessAssumption DEF Range, Goto, InSweep, Closing, TypeOK,
       Processes
  <2>2. lock' = lock /\ overdue' = overdue
    BY <1>34 DEF Range, janVars
  <2> QED
    BY <2>1, <2>2 DEF LockHeld
<1>35. ASSUME NEW w \in Sweepers, NEW s \in Sessions, Fetch(w, s)
       PROVE  LockHeld'
  <2>1. \A v \in Sweepers : InSweep(v)' => InSweep(v)
    BY <1>35, ProcessAssumption DEF Fetch, Goto, InSweep, Closing, TypeOK,
       Processes
  <2>2. lock' = lock /\ overdue' = overdue
    BY <1>35 DEF Fetch, janVars
  <2> QED
    BY <2>1, <2>2 DEF LockHeld
<1>36. ASSUME NEW w \in Sweepers, Drop(w)
       PROVE  LockHeld'
  <2>1. \A v \in Sweepers : InSweep(v)' => InSweep(v)
    BY <1>36, ProcessAssumption DEF Drop, Goto, RemoveActive, InSweep, Closing,
       TypeOK, Processes
  <2>2. lock' = lock /\ overdue' = overdue
    BY <1>36 DEF Drop, janVars
  <2> QED
    BY <2>1, <2>2 DEF LockHeld
<1>37. ASSUME NEW w \in Sweepers, FetchDone(w)
       PROVE  LockHeld'
  <2>1. \A v \in Sweepers : InSweep(v)' => InSweep(v)
    BY <1>37, ProcessAssumption DEF FetchDone, Goto, InSweep, Closing, TypeOK,
       Processes
  <2>2. lock' = lock /\ overdue' = overdue
    BY <1>37 DEF FetchDone, janVars
  <2> QED
    BY <2>1, <2>2 DEF LockHeld
<1>38. ASSUME NEW w \in Sweepers, NEW s \in Sessions, CloseExpired(w, s)
       PROVE  LockHeld'
  <2>1. \A v \in Sweepers : InSweep(v)' => InSweep(v)
    BY <1>38, ProcessAssumption DEF CloseExpired, Goto, InSweep, Closing, TypeOK,
       Processes
  <2>2. lock' = lock /\ overdue' = overdue
    BY <1>38 DEF CloseExpired, janVars
  <2> QED
    BY <2>1, <2>2 DEF LockHeld
<1>39. ASSUME NEW w \in Sweepers, SweepDone(w)
       PROVE  LockHeld'
  <2>1. \A v \in Sweepers : InSweep(v)' => InSweep(v)
    BY <1>39, ProcessAssumption DEF SweepDone, Goto, InSweep, Closing, TypeOK,
       Processes
  <2>2. lock' = lock /\ overdue' = overdue
    BY <1>39 DEF SweepDone, janVars
  <2> QED
    BY <2>1, <2>2 DEF LockHeld
<1>40. ASSUME NEW w \in Sweepers, Release(w)
       PROVE  LockHeld'
  <2>1. InSweep(w) /\ ~InSweep(w)'
    BY <1>40 DEF Release, Goto, InSweep, Closing, TypeOK, Processes
  <2>2. \A v \in Sweepers : InSweep(v)' => InSweep(v)
    BY <1>40 DEF Release, Goto, InSweep, Closing, TypeOK, Processes
  <2>3. overdue' = overdue
    BY <1>40 DEF Release
  <2>4. lock' = IF lock # None /\ InstanceOf(lock) = InstanceOf(w) THEN None ELSE lock
    BY <1>40 DEF Release
  <2>5. SUFFICES ASSUME NEW v \in Sweepers, InSweep(v)',
                        \A o \in overdue : InstanceOf(o) # InstanceOf(v)
                 PROVE  lock' = v
    BY <2>3 DEF LockHeld
  <2>6. lock = v /\ v # w
    BY <2>1, <2>2, <2>5 DEF LockHeld
  <2>7. InstanceOf(v) # InstanceOf(w)
    BY <2>1, <2>5, <2>6 DEF LockHeld
  <2> QED
    BY <2>4, <2>6, <2>7
<1>41. ASSUME NEW w \in Sweepers, SweepCallFails(w)
       PROVE  LockHeld'
  <2>1. \A v \in Sweepers : InSweep(v)' => InSweep(v)
    BY <1>41, ProcessAssumption DEF SweepCallFails, Goto, Fault, InSweep, Closing,
       TypeOK, Processes
  <2>2. lock' = lock /\ overdue' = overdue
    BY <1>41 DEF SweepCallFails, janVars
  <2> QED
    BY <2>1, <2>2 DEF LockHeld
<1>42. ASSUME NEW w \in Sweepers, LockLost(w)
       PROVE  LockHeld'
  <2>1. \A v \in Sweepers : ~(InSweep(v) /\ \A o \in overdue : InstanceOf(o) # InstanceOf(v))
    BY <1>42, ProcessAssumption DEF LockHeld, LockLost
  <2>2. \A v \in Sweepers : InSweep(v)' => InSweep(v)
    BY <1>42 DEF LockLost, Goto, InSweep, Closing, TypeOK, Processes
  <2>3. overdue' = overdue
    BY <1>42 DEF LockLost
  <2> QED
    BY <2>1, <2>2, <2>3 DEF LockHeld
<1>43. ASSUME NEW i \in Instances, Tick(i)
       PROVE  LockHeld'
  <2>1. \A v \in Sweepers : InSweep(v)' => InSweep(v)
    BY <1>43, ProcessAssumption DEF Tick, Goto, InSweep, Closing, TypeOK,
       Processes
  <2>2. lock' = lock /\ overdue' = overdue
    BY <1>43 DEF Tick, janVars
  <2> QED
    BY <2>1, <2>2 DEF LockHeld
<1>44. ASSUME NEW i \in Instances, Reconnect(i)
       PROVE  LockHeld'
  <2>1. \A v \in Sweepers : InSweep(v)' => InSweep(v)
    BY <1>44, ProcessAssumption DEF Reconnect, Goto, InSweep, Closing, TypeOK,
       Processes
  <2>2. lock' = lock /\ overdue' = overdue
    BY <1>44 DEF Reconnect, janVars
  <2> QED
    BY <2>1, <2>2 DEF LockHeld
<1>45. ASSUME NEW i \in Instances, PingFails(i)
       PROVE  LockHeld'
  <2>1. \A v \in Sweepers : InSweep(v)' => InSweep(v)
    BY <1>45, ProcessAssumption DEF PingFails, sigVars, local, InSweep, Closing,
       TypeOK, Processes
  <2>2. lock' = lock /\ overdue' = overdue
    BY <1>45 DEF PingFails, janVars
  <2> QED
    BY <2>1, <2>2 DEF LockHeld
<1>46. ASSUME NEW i \in Instances, Crash(i)
       PROVE  LockHeld'
  <2>1. \A v \in Sweepers : InSweep(v)' => InSweep(v)
    BY <1>46 DEF Crash, InSweep, Closing, Processes
  <2>2. lock' = lock /\ overdue' = overdue
    BY <1>46 DEF Crash, janVars
  <2> QED
    BY <2>1, <2>2 DEF LockHeld
<1>47. ASSUME LockExpires
       PROVE  LockHeld'
  <2>1. pc' = pc /\ overdue' = IF InSweep(lock) THEN overdue \cup {lock} ELSE overdue
    BY <1>47 DEF LockExpires, sigVars, local
  <2>2. SUFFICES ASSUME NEW v \in Sweepers, InSweep(v)',
                        \A o \in overdue' : InstanceOf(o) # InstanceOf(v)
                 PROVE  FALSE
    BY DEF LockHeld
  <2>3. InSweep(v) /\ \A o \in overdue : InstanceOf(o) # InstanceOf(v)
    BY <2>1, <2>2 DEF InSweep
  <2>4. lock = v
    BY <2>3 DEF LockHeld
  <2> QED
    BY <2>1, <2>2, <2>3, <2>4
<1>48. ASSUME NEW s \in Sessions, Lapse(s)
       PROVE  LockHeld'
  <2>1. \A v \in Sweepers : InSweep(v)' => InSweep(v)
    BY <1>48, ProcessAssumption DEF Lapse, local, InSweep, Closing, TypeOK,
       Processes
  <2>2. lock' = lock /\ overdue' = overdue
    BY <1>48 DEF Lapse, janVars
  <2> QED
    BY <2>1, <2>2 DEF LockHeld
<1>49. ASSUME Expire
       PROVE  LockHeld'
  <2>1. \A v \in Sweepers : InSweep(v)' => InSweep(v)
    BY <1>49, ProcessAssumption DEF Expire, Expiry, ExpireHash, ExpireRoomCode,
       ExpireAccess, ExpireIngressIDs, ExpireUserSessions, local, InSweep, Closing,
       TypeOK, Processes
  <2>2. lock' = lock /\ overdue' = overdue
    BY <1>49 DEF Expire, janVars
  <2> QED
    BY <2>1, <2>2 DEF LockHeld
<1>50. CASE UNCHANGED vars
  <2>1. pc' = pc /\ lock' = lock /\ overdue' = overdue
    BY <1>50 DEF vars, sigVars, local, janVars
  <2> QED
    BY <2>1 DEF LockHeld, InSweep
<1>51. ASSUME NEW w \in Sweepers, ReleaseLost(w)
       PROVE  LockHeld'
  <2>1. pc' = pc /\ overdue' = overdue \cup {w}
    BY <1>51 DEF ReleaseLost, local
  <2>2. lock' = IF lock # None /\ InstanceOf(lock) = InstanceOf(w) THEN None ELSE lock
    BY <1>51 DEF ReleaseLost
  <2>3. SUFFICES ASSUME NEW v \in Sweepers, InSweep(v)',
                        \A o \in overdue' : InstanceOf(o) # InstanceOf(v)
                 PROVE  lock' = v
    BY DEF LockHeld
  <2>4. InSweep(v) /\ (\A o \in overdue : InstanceOf(o) # InstanceOf(v)) /\ InstanceOf(w) # InstanceOf(v)
    BY <2>1, <2>3 DEF InSweep
  <2>5. lock = v
    BY <2>4 DEF LockHeld
  <2> QED
    BY <2>2, <2>4, <2>5
<1> QED
  BY <1>1, <1>2, <1>3, <1>4, <1>5, <1>6, <1>7, <1>8, <1>9, <1>10, <1>11, <1>12,
     <1>13, <1>14, <1>15, <1>16, <1>17, <1>18, <1>19, <1>20, <1>21, <1>22, <1>23,
     <1>24, <1>25, <1>26, <1>27, <1>28, <1>29, <1>30, <1>31, <1>32, <1>33, <1>34,
     <1>35, <1>36, <1>37, <1>38, <1>39, <1>40, <1>41, <1>42, <1>43, <1>44, <1>45,
     <1>46, <1>47, <1>48, <1>49, <1>50, <1>51 DEF Next, Request, Begin, Handle,
     HandleFault, CloseStep, Close, CloseFault, Sweep

-----------------------------------------------------------------------------
\* The inductive invariant.  TypeOK alone is not inductive: a call indexes the store
\* with locals that an earlier call has set (LocalsReady).  The owner check of Load
\* says something about the creator of the session only because that request has
\* begun and its user no longer changes (CreatorKnown), and OwnerCloses and
\* SweepScope carry the two checks from the call that makes them to the last one
\* that relies on them.
IndInv ==
    /\ TypeOK /\ LocalsReady
    /\ CreatorKnown /\ OwnerCloses
    /\ SweepScope /\ LockHeld

LEMMA InitIndInv ==
  ASSUME Init
  PROVE  IndInv
<1> USE DEF Init, SignalingInit, StoreInit
<1>1. TypeOK
  <2>1. SignalingTypeOK
    BY SignalingAssumption DEF SignalingTypeOK, StoreTypeOK, Sessions, Processes
  <2>2. pc \in [Processes -> HandlerSteps \cup SweepSteps \cup Closing]
    BY DEF HandlerSteps, SweepSteps
  <2> QED
    BY <2>1, <2>2 DEF TypeOK
<1>2. (\A r \in Requests : pc[r] = "idle") /\ (\A w \in Sweepers : pc[w] = "rest")
  BY ProcessAssumption DEF Processes
<1>3. LocalsReady
  BY <1>2 DEF LocalsReady, HandlerSteps, SweepSteps, Closing
<1>4. CreatorKnown
  BY <1>2 DEF CreatorKnown, Closing
<1>5. OwnerCloses
  BY <1>2 DEF OwnerCloses, Closing
<1>6. SweepScope
  BY <1>2 DEF SweepScope, Closing
<1>7. LockHeld
  BY <1>2 DEF LockHeld, InSweep, Closing
<1> QED
  BY <1>1, <1>3, <1>4, <1>5, <1>6, <1>7 DEF IndInv

LEMMA StepIndInv ==
  ASSUME IndInv, [Next]_vars
  PROVE  IndInv'
BY TypeInductive, LocalsInductive, CreatorInductive, OwnerInductive, ScopeInductive,
   LockInductive DEF IndInv

LEMMA Invariance == Spec => []IndInv
<1>1. Init => IndInv
  BY InitIndInv
<1>2. IndInv /\ [Next]_vars => IndInv'
  BY StepIndInv
<1> QED
  BY <1>1, <1>2, PTL DEF Spec

-----------------------------------------------------------------------------
\* Handlers, sweeps and store keep their types, for any number of requests, server
\* processes, users, codes and faults: no call uses a local that was never set.
THEOREM TypeCorrect == Spec => []TypeOK
<1>1. IndInv => TypeOK
  BY DEF IndInv
<1> QED
  BY <1>1, Invariance, PTL

\* CloseSession (grpc.go) closes a session only for its creator and a sweep
\* (janitor.go) only after the TTL, although either decides several calls before it
\* writes and every other handler, sweep, expiry and failure may come in between.
THEOREM ClosesAuthorised == Spec => []CloseAuthorised
<1>1. IndInv => CloseAuthorised
  BY DEF IndInv, OwnerCloses, SweepScope, CloseAuthorised
<1> QED
  BY <1>1, Invariance, PTL

\* SweepAt (janitor.go): a sweep of a process that never outlived its lock holds the
\* key until it releases it, whatever other processes lock, release, lose or crash.
THEOREM LockSafe == Spec => []LockHeld
<1>1. IndInv => LockHeld
  BY DEF IndInv
<1> QED
  BY <1>1, Invariance, PTL

\* Two sweeps are never under way at once unless the TTL of the lock has run out
\* during a sweep of one of the two processes.
THEOREM SweepsExclusive == Spec => []SweepExclusion
<1>1. IndInv => SweepExclusion
  <2> SUFFICES ASSUME LockHeld, NEW v \in Sweepers, NEW w \in Sweepers,
                      v # w, InSweep(v), InSweep(w),
                      \A o \in overdue : InstanceOf(o) \notin {InstanceOf(v), InstanceOf(w)}
               PROVE  FALSE
    BY DEF IndInv, SweepExclusion
  <2>1. lock = v /\ lock = w
    BY DEF LockHeld
  <2> QED
    BY <2>1
<1> QED
  BY <1>1, Invariance, PTL
=============================================================================
