----------------------------- MODULE Signaling -----------------------------
(***************************************************************************)
(* The gRPC handlers of internal/signaling/grpc.go, with deleteRoom of     *)
(* livekit.go and NewRoomCode of pkg/session/room.go.                      *)
(*                                                                         *)
(* A handler is a process that takes one step per call it makes to Redis   *)
(* or to LiveKit; what it computes between two calls belongs to the step   *)
(* of the call before.  Requests that fail validation touch nothing and    *)
(* are left out.  The steps of deleteRoom and UpdateSessionStatus are      *)
(* shared by CloseSession and by the janitor, so they are written for any  *)
(* process p.                                                              *)
(*                                                                         *)
(* A call can fail (CallFails): Redis calls after retryRedisOp gives up or *)
(* its context ends, LiveKit calls at once.  An attempt whose response is  *)
(* lost has taken effect and is made again (the Lost actions).  MaxFaults  *)
(* bounds how often either happens.                                        *)
(***************************************************************************)
EXTENDS SessionStore

CONSTANTS
    Instances,        \* signaling server processes, each with its instanceID
    MaxRoomAttempts,  \* maxRoomAttempts
    MaxFaults         \* bound: failed calls, lost responses and crashes

ASSUME SignalingAssumption ==
    /\ MaxRoomAttempts \in Nat \ {0}
    /\ MaxFaults \in Nat

\* The janitor goroutines of cmd/signaling/main.go: Run and WatchStore.
Sweepers == Instances \X {"run", "watch"}
Processes == Requests \cup Sweepers

ASSUME ProcessAssumption ==
    /\ Requests \cap Sweepers = {}
    /\ None \notin Sweepers

\* A client that has no reply yet does not take that for one.
ASSUME ReplyAssumption == None \notin {"ok", "error"}

VARIABLES
    pc,        \* the call each process makes next
    req,       \* operation, user and room code of each request
    cur,       \* the session each process works on
    todo,      \* what a loop of the process has left: ingress or session IDs
    tries,     \* codes NewRoomCode has found taken
    reply,     \* what the client got
    ingress,   \* LiveKit: state of the ingress that each request creates
    gauge,     \* metrics.SessionsActive
    faults,
    endedBefore  \* history: sessions already closed when a request began

local == <<pc, req, cur, todo, tries, reply>>
sigVars == <<storeVars, local, ingress, gauge, faults, endedBefore>>

SignalingInit ==
    /\ StoreInit
    /\ pc = [p \in Processes |-> IF p \in Requests THEN "idle" ELSE "rest"]
    /\ req = [r \in Requests |-> [op |-> None, user |-> None, code |-> None]]
    /\ cur = [p \in Processes |-> None]
    /\ todo = [p \in Processes |-> {}]
    /\ tries = [r \in Requests |-> 0]
    /\ reply = [r \in Requests |-> None]
    /\ ingress = [r \in Requests |-> "none"]
    /\ gauge = 0
    /\ faults = 0
    /\ endedBefore = [r \in Requests |-> {}]

Goto(p, at) == pc' = [pc EXCEPT ![p] = at]

Reply(r, answer) == Goto(r, "done") /\ reply' = [reply EXCEPT ![r] = answer]

Fault == faults < MaxFaults /\ faults' = faults + 1

-----------------------------------------------------------------------------
(***************************************************************************)
(* A client calls.                                                         *)
(***************************************************************************)

\* What holds of every new request.
Arrive(r, op, u, c) ==
    /\ pc[r] = "idle"
    /\ req' = [req EXCEPT ![r] = [op |-> op, user |-> u, code |-> c]]
    /\ endedBefore' = [endedBefore EXCEPT ![r] = {s \in Sessions : hash[s] = "closed"}]
    /\ UNCHANGED <<storeVars, todo, tries, reply, ingress, gauge, faults>>

BeginCreate(r, u) ==
    /\ Arrive(r, "create", u, None)
    /\ cur' = [cur EXCEPT ![r] = r]
    /\ Goto(r, "pick_code")

\* JoinSession as camera or director, and CloseSession.
BeginByCode(r, op, u, c) ==
    /\ Arrive(r, op, u, c)
    /\ Goto(r, "lookup")
    /\ UNCHANGED cur

\* GetMySessions.
BeginList(r, u) ==
    /\ Arrive(r, "list", u, None)
    /\ Goto(r, "list")
    /\ UNCHANGED cur

-----------------------------------------------------------------------------
(***************************************************************************)
(* CreateSession.                                                          *)
(***************************************************************************)

\* NewRoomCode draws c.  An unknown code is accepted as it is; nothing reserves it.
PickCode(r, c) ==
    /\ pc[r] = "pick_code"
    /\ IF roomCode[c] = None
       THEN req' = [req EXCEPT ![r].code = c] /\ Goto(r, "create") /\ UNCHANGED cur
       ELSE cur' = [cur EXCEPT ![r] = roomCode[c]] /\ Goto(r, "check_code") /\ UNCHANGED req
    /\ UNCHANGED <<storeVars, todo, tries, reply, ingress, gauge, faults, endedBefore>>

\* Mutant: one attempt too many.
CheckCodeOnceMore(r) ==
    /\ pc[r] = "check_code"
    /\ cur' = [cur EXCEPT ![r] = r]
    /\ tries' = [tries EXCEPT ![r] = @ + 1]
    /\ IF Readable(cur[r]) /\ tries[r] < MaxRoomAttempts
       THEN Goto(r, "pick_code") /\ UNCHANGED reply
       ELSE Reply(r, "error")
    /\ UNCHANGED <<storeVars, req, todo, ingress, gauge, faults, endedBefore>>

\* The code is taken, and GetSessionByRoomCode goes on to load its session: a
\* session that cannot be loaded ends the request.
CheckCode(r) ==
    /\ pc[r] = "check_code"
    /\ cur' = [cur EXCEPT ![r] = r]
    /\ tries' = [tries EXCEPT ![r] = @ + 1]
    /\ IF Readable(cur[r]) /\ tries[r] + 1 < MaxRoomAttempts
       THEN Goto(r, "pick_code") /\ UNCHANGED reply
       ELSE Reply(r, "error")
    /\ UNCHANGED <<storeVars, req, todo, ingress, gauge, faults, endedBefore>>

\* store.CreateSession succeeds and the metrics are incremented.
Create(r) ==
    /\ pc[r] = "create"
    /\ CreatePipeline(r, req[r].user, req[r].code, 6)
    /\ gauge' = gauge + 1
    /\ Goto(r, "grant_exists")
    /\ UNCHANGED <<req, cur, todo, tries, reply, ingress, faults, endedBefore>>

\* An attempt breaks off after n commands.
CreateInterrupted(r, n) ==
    /\ pc[r] = "create" /\ Fault
    /\ CreatePipeline(r, req[r].user, req[r].code, n)
    /\ UNCHANGED <<local, ingress, gauge, endedBefore>>

-----------------------------------------------------------------------------
(***************************************************************************)
(* JoinSession, CloseSession: find the session.                            *)
(***************************************************************************)

Lookup(r) ==
    /\ pc[r] = "lookup"
    /\ IF roomCode[req[r].code] = None
       THEN Reply(r, "error") /\ UNCHANGED cur
       ELSE /\ cur' = [cur EXCEPT ![r] = roomCode[req[r].code]]
            /\ Goto(r, "load") /\ UNCHANGED reply
    /\ UNCHANGED <<storeVars, req, todo, tries, ingress, gauge, faults, endedBefore>>

\* Mutants: without the owner check, and without the status check.
MayProceedForAnyone(r) ==
    Readable(cur[r]) /\ (req[r].op # "close" => hash[cur[r]] # "closed")
MayProceedWhenClosed(r) ==
    Readable(cur[r]) /\ (req[r].op = "close" => req[cur[r]].user = req[r].user)

\* A join is refused when the session is closed, a close when the caller did not
\* create it.  CloseSession does not look at the status.
MayProceed(r) ==
    /\ Readable(cur[r])
    /\ req[r].op = "close" => req[cur[r]].user = req[r].user
    /\ req[r].op # "close" => hash[cur[r]] # "closed"

FirstCall == [camera |-> "new_ingress", director |-> "grant_exists", close |-> "get_ingresses"]

Load(r) ==
    /\ pc[r] = "load"
    /\ IF MayProceed(r)
       THEN Goto(r, FirstCall[req[r].op]) /\ UNCHANGED reply
       ELSE Reply(r, "error")
    /\ UNCHANGED <<storeVars, req, cur, todo, tries, ingress, gauge, faults, endedBefore>>

-----------------------------------------------------------------------------
(***************************************************************************)
(* joinAsCamera, joinAsDirector and the grant that ends CreateSession.     *)
(***************************************************************************)

NewIngress(r) ==
    /\ pc[r] = "new_ingress"
    /\ ingress' = [ingress EXCEPT ![r] = "live"]
    /\ Goto(r, "grant_exists")
    /\ UNCHANGED <<storeVars, req, cur, todo, tries, reply, gauge, faults, endedBefore>>

\* LiveKit has made the ingress but the call reports an error, which ends the
\* request.
NewIngressLost(r) ==
    /\ pc[r] = "new_ingress" /\ Fault
    /\ ingress' = [ingress EXCEPT ![r] = "live"]
    /\ Reply(r, "error")
    /\ UNCHANGED <<storeVars, req, cur, todo, tries, gauge, endedBefore>>

\* When access cannot be granted a camera's ingress is rolled back.
GrantError(r) ==
    IF req[r].op = "camera" THEN Goto(r, "rollback") /\ UNCHANGED reply
                            ELSE Reply(r, "error")

GrantExists(r) ==
    /\ pc[r] = "grant_exists"
    /\ IF Exists(cur[r]) THEN Goto(r, "grant") /\ UNCHANGED reply ELSE GrantError(r)
    /\ UNCHANGED <<storeVars, req, cur, todo, tries, ingress, gauge, faults, endedBefore>>

GrantedRole(r) == IF req[r].op = "camera" THEN "camera" ELSE "director"

\* Mutant: the ingress ID is not stored.
GrantWithoutRecord(r) ==
    /\ pc[r] = "grant"
    /\ GrantAccess(cur[r], req[r].user, GrantedRole(r))
    /\ Reply(r, "ok")
    /\ UNCHANGED <<req, cur, todo, tries, ingress, gauge, faults, endedBefore>>

Grant(r) ==
    /\ pc[r] = "grant"
    /\ GrantAccess(cur[r], req[r].user, GrantedRole(r))
    /\ IF req[r].op = "camera" THEN Goto(r, "record") /\ UNCHANGED reply
                               ELSE Reply(r, "ok")
    /\ UNCHANGED <<req, cur, todo, tries, ingress, gauge, faults, endedBefore>>

GrantLost(r) ==
    /\ pc[r] = "grant" /\ Fault
    /\ GrantAccess(cur[r], req[r].user, GrantedRole(r))
    /\ UNCHANGED <<local, ingress, gauge, endedBefore>>

Rollback(r) ==
    /\ pc[r] = "rollback"
    /\ ingress' = [ingress EXCEPT ![r] = "deleted"]
    /\ Reply(r, "error")
    /\ UNCHANGED <<storeVars, req, cur, todo, tries, gauge, faults, endedBefore>>

Record(r) ==
    /\ pc[r] = "record"
    /\ AddIngressID(cur[r], r)
    /\ Reply(r, "ok")
    /\ UNCHANGED <<req, cur, todo, tries, ingress, gauge, faults, endedBefore>>

RecordLost(r) ==
    /\ pc[r] = "record" /\ Fault
    /\ AddIngressID(cur[r], r)
    /\ UNCHANGED <<local, ingress, gauge, endedBefore>>

-----------------------------------------------------------------------------
(***************************************************************************)
(* GetMySessions.                                                          *)
(***************************************************************************)

List(r) ==
    /\ pc[r] = "list"
    /\ todo' = [todo EXCEPT ![r] = userSessions[req[r].user]]
    /\ Goto(r, "load_each")
    /\ UNCHANGED <<storeVars, req, cur, tries, reply, ingress, gauge, faults, endedBefore>>

\* Mutant: closed sessions are taken for expired ones.
LoadEachActive(r, s) ==
    /\ pc[r] = "load_each" /\ s \in todo[r]
    /\ todo' = [todo EXCEPT ![r] = @ \ {s}]
    /\ cur' = [cur EXCEPT ![r] = s]
    /\ IF hash[s] = "active" THEN UNCHANGED pc ELSE Goto(r, "forget")
    /\ UNCHANGED <<storeVars, req, tries, reply, ingress, gauge, faults, endedBefore>>

\* The loop over the members: a readable session joins the reply, an absent one
\* is forgotten, any other fails the request.
LoadEach(r, s) ==
    /\ pc[r] = "load_each" /\ s \in todo[r]
    /\ todo' = [todo EXCEPT ![r] = @ \ {s}]
    /\ cur' = [cur EXCEPT ![r] = s]
    /\ CASE Readable(s) -> UNCHANGED <<pc, reply>>
         [] ~Exists(s) -> Goto(r, "forget") /\ UNCHANGED reply
         [] OTHER -> Reply(r, "error")
    /\ UNCHANGED <<storeVars, req, tries, ingress, gauge, faults, endedBefore>>

Forget(r) ==
    /\ pc[r] = "forget"
    /\ ForgetUserSession(req[r].user, cur[r])
    /\ Goto(r, "load_each")
    /\ UNCHANGED <<req, cur, todo, tries, reply, ingress, gauge, faults, endedBefore>>

ListDone(r) ==
    /\ pc[r] = "load_each" /\ todo[r] = {}
    /\ Reply(r, "ok")
    /\ UNCHANGED <<storeVars, req, cur, todo, tries, ingress, gauge, faults, endedBefore>>

-----------------------------------------------------------------------------
(***************************************************************************)
(* deleteRoom and UpdateSessionStatus(closed), for a CloseSession request  *)
(* or a sweep.                                                             *)
(***************************************************************************)

GetIngressIDs(p) ==
    /\ pc[p] = "get_ingresses"
    /\ todo' = [todo EXCEPT ![p] = ingressIDs[cur[p]]]
    /\ Goto(p, "delete_ingresses")
    /\ UNCHANGED <<storeVars, req, cur, tries, reply, ingress, gauge, faults, endedBefore>>

DeleteIngress(p, i) ==
    /\ pc[p] = "delete_ingresses" /\ i \in todo[p]
    /\ ingress' = [ingress EXCEPT ![i] = "deleted"]
    /\ todo' = [todo EXCEPT ![p] = @ \ {i}]
    /\ UNCHANGED <<storeVars, pc, req, cur, tries, reply, gauge, faults, endedBefore>>

\* A failed deletion is collected in the error and never tried again.
DeleteIngressFails(p, i) ==
    /\ pc[p] = "delete_ingresses" /\ i \in todo[p] /\ Fault
    /\ todo' = [todo EXCEPT ![p] = @ \ {i}]
    /\ UNCHANGED <<storeVars, pc, req, cur, tries, reply, ingress, gauge, endedBefore>>

\* DeleteRoom comes last; whether it succeeds or fails the caller goes on, and
\* LiveKit's rooms, made and dropped by LiveKit itself, are not part of the state.
DeleteRoom(p) ==
    /\ pc[p] = "delete_ingresses" /\ todo[p] = {}
    /\ Goto(p, "status_exists")
    /\ UNCHANGED <<storeVars, req, cur, todo, tries, reply, ingress, gauge, faults, endedBefore>>

\* How CloseSession and closeExpiredSession end: the gauge goes down only when
\* UpdateSessionStatus returned no error.
CloseEnds(p, answer) ==
    /\ gauge' = IF answer = "ok" THEN gauge - 1 ELSE gauge
    /\ IF p \in Requests THEN Reply(p, answer) ELSE Goto(p, "next") /\ UNCHANGED reply

StatusExists(p) ==
    /\ pc[p] = "status_exists"
    /\ IF Exists(cur[p]) THEN Goto(p, "set_status") /\ UNCHANGED <<reply, gauge>>
                         ELSE CloseEnds(p, "error")
    /\ UNCHANGED <<storeVars, req, cur, todo, tries, ingress, faults, endedBefore>>

\* Mutant: the ZREM is left out.
SetStatusOnly(p) ==
    /\ pc[p] = "set_status"
    /\ SetStatusClosed(cur[p])
    /\ CloseEnds(p, "ok")
    /\ UNCHANGED <<req, cur, todo, tries, ingress, faults, endedBefore>>

SetStatus(p) ==
    /\ pc[p] = "set_status"
    /\ SetStatusClosed(cur[p])
    /\ Goto(p, "zrem")
    /\ UNCHANGED <<req, cur, todo, tries, reply, ingress, gauge, faults, endedBefore>>

SetStatusLost(p) ==
    /\ pc[p] = "set_status" /\ Fault
    /\ SetStatusClosed(cur[p])
    /\ UNCHANGED <<local, ingress, gauge, endedBefore>>

ZRem(p) ==
    /\ pc[p] = "zrem"
    /\ RemoveActive(cur[p])
    /\ CloseEnds(p, "ok")
    /\ UNCHANGED <<req, cur, todo, tries, ingress, faults, endedBefore>>

-----------------------------------------------------------------------------
(***************************************************************************)
(* Failures.                                                               *)
(***************************************************************************)

\* A call of handler r fails for good and without effect.
CallFails(r) ==
    /\ Fault
    /\ \/ /\ pc[r] \in {"pick_code", "check_code", "create", "lookup", "load",
                        "new_ingress", "rollback", "list", "load_each"}
          /\ pc[r] = "load_each" => todo[r] # {}
          /\ Reply(r, "error")
       \/ pc[r] \in {"grant_exists", "grant"} /\ GrantError(r)
       \/ pc[r] = "record" /\ Reply(r, "ok")
       \/ pc[r] = "forget" /\ Goto(r, "load_each") /\ UNCHANGED reply
    /\ UNCHANGED <<storeVars, req, cur, todo, tries, ingress, gauge, endedBefore>>

\* A call of deleteRoom or UpdateSessionStatus fails for good: a failed ZREM is
\* only logged.
CloseCallFails(p) ==
    /\ Fault
    /\ \/ /\ pc[p] = "get_ingresses" /\ Goto(p, "delete_ingresses")
          /\ UNCHANGED <<reply, gauge>>
       \/ pc[p] \in {"status_exists", "set_status"} /\ CloseEnds(p, "error")
       \/ pc[p] = "zrem" /\ CloseEnds(p, "ok")
    /\ UNCHANGED <<storeVars, req, cur, todo, tries, ingress, endedBefore>>

\* The handler's process dies; the client never hears of it.
RequestDies(r) ==
    /\ pc[r] \notin {"idle", "done"} /\ Fault
    /\ Goto(r, "done")
    /\ UNCHANGED <<storeVars, req, cur, todo, tries, reply, ingress, gauge, endedBefore>>

-----------------------------------------------------------------------------
Begin(r) ==
    \E u \in Users :
        \/ BeginCreate(r, u)
        \/ \E op \in DOMAIN FirstCall, c \in Codes : BeginByCode(r, op, u, c)
        \/ BeginList(r, u)

\* Steps of one request that succeed, and those that do not.
Handle(r) ==
    \/ \E c \in Codes : PickCode(r, c)
    \/ CheckCode(r) \/ Create(r)
    \/ Lookup(r) \/ Load(r)
    \/ NewIngress(r) \/ GrantExists(r) \/ Grant(r) \/ Rollback(r) \/ Record(r)
    \/ List(r) \/ (\E s \in Sessions : LoadEach(r, s)) \/ Forget(r) \/ ListDone(r)

HandleFault(r) ==
    \/ CallFails(r) \/ RequestDies(r)
    \/ \E n \in {1, 2, 3, 5, 6} : CreateInterrupted(r, n)
    \/ NewIngressLost(r) \/ GrantLost(r) \/ RecordLost(r)

Close(p) ==
    \/ GetIngressIDs(p) \/ (\E i \in Requests : DeleteIngress(p, i)) \/ DeleteRoom(p)
    \/ StatusExists(p) \/ SetStatus(p) \/ ZRem(p)

CloseFault(p) ==
    \/ CloseCallFails(p) \/ SetStatusLost(p)
    \/ \E i \in Requests : DeleteIngressFails(p, i)

SignalingTypeOK ==
    /\ StoreTypeOK
    /\ req \in [Requests -> [op : {"create", "camera", "director", "close", "list", None},
                             user : Users \cup {None}, code : Codes \cup {None}]]
    /\ cur \in [Processes -> Sessions \cup {None}]
    /\ todo \in [Processes -> SUBSET Requests]
    /\ tries \in [Requests -> 0..MaxRoomAttempts]
    /\ reply \in [Requests -> {"ok", "error", None}]
    /\ ingress \in [Requests -> {"none", "live", "deleted"}]
    /\ gauge \in Int
    /\ faults \in 0..MaxFaults
    /\ endedBefore \in [Requests -> SUBSET Sessions]
=============================================================================
