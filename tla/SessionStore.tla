---------------------------- MODULE SessionStore ----------------------------
(***************************************************************************)
(* The Redis keys behind pkg/session/redis.go and what each store command  *)
(* does to them.  The commands are operators; Signaling and Janitor decide *)
(* when a request handler or a sweep issues one.                           *)
(*                                                                         *)
(* Time is abstracted to one fact per session: whether its TTL has run out *)
(* (lapsed).  From then on the score of its entry in the active set is in  *)
(* the past and each key that was given the same TTL may expire, one by    *)
(* one.  The active set has no TTL and neither has a hash that a command   *)
(* creates without an EXPIRE.                                              *)
(*                                                                         *)
(* A session ID is a fresh UUID (NewSessionID), drawn by the request that  *)
(* creates the session, so a session is named after that request.          *)
(***************************************************************************)
EXTENDS Integers, FiniteSets

CONSTANTS
    Requests,   \* gRPC requests, one handler goroutine each
    Users,      \* user_id values
    Codes,      \* room codes NewRoomCode can draw
    None        \* absence of a value

ASSUME StoreAssumption == None \notin Requests

Sessions == Requests

VARIABLES
    hash,           \* session:<id>: absent, or the value of its status field;
                    \* "partial" is a hash that holds nothing but a status
    mortal,         \* sessions whose hash has a TTL
    roomCode,       \* roomcode:<code>: the session it leads to
    active,         \* members of the sorted set sessions:active
    userSessions,   \* user:<id>:sessions
    access,         \* session:<id>:access, the role of each user
    ingressIDs,     \* session:<id>:ingress_ids; an ingress is named after the
                    \* request that created it
    lapsed          \* sessions whose TTL has run out

keys == <<hash, mortal, roomCode, active, userSessions, access, ingressIDs>>
storeVars == <<keys, lapsed>>

StoreInit ==
    /\ hash = [s \in Sessions |-> "absent"]
    /\ mortal = {}
    /\ roomCode = [c \in Codes |-> None]
    /\ active = {}
    /\ userSessions = [u \in Users |-> {}]
    /\ access = [s \in Sessions |-> [u \in Users |-> None]]
    /\ ingressIDs = [s \in Sessions |-> {}]
    /\ lapsed = {}

-----------------------------------------------------------------------------
(***************************************************************************)
(* Commands that read.                                                     *)
(***************************************************************************)

\* EXISTS session:<id>, as UpdateSessionStatus and GrantAccess ask.
Exists(s) == hash[s] # "absent"

\* GetSession parses the hash: a partial one has no created_at and is an error
\* other than ErrSessionNotFound.
Readable(s) == hash[s] \in {"active", "closed"}

-----------------------------------------------------------------------------
(***************************************************************************)
(* Commands that write.                                                    *)
(***************************************************************************)

\* The pipeline of CreateSession: HSET, EXPIRE, SET roomcode, SADD, EXPIRE, ZADD.
\* It is not a transaction, so an attempt that fails has run its first n commands.
CreatePipeline(s, u, c, n) ==
    /\ hash' = [hash EXCEPT ![s] = "active"]
    /\ mortal' = IF n >= 2 THEN mortal \cup {s} ELSE mortal
    /\ roomCode' = IF n >= 3 THEN [roomCode EXCEPT ![c] = s] ELSE roomCode
    /\ userSessions' =
          IF n >= 4 THEN [userSessions EXCEPT ![u] = @ \cup {s}] ELSE userSessions
    /\ active' = IF n >= 6 THEN active \cup {s} ELSE active
    /\ UNCHANGED <<access, ingressIDs, lapsed>>

\* HSET session:<id> status closed.  On a hash that has expired since EXISTS the
\* command makes a new one, with that field only and no TTL.
SetStatusClosed(s) ==
    /\ hash' = [hash EXCEPT ![s] = IF @ \in {"active", "closed"} THEN "closed" ELSE "partial"]
    /\ UNCHANGED <<mortal, roomCode, active, userSessions, access, ingressIDs, lapsed>>

\* ZREM sessions:active, of UpdateSessionStatus and of GetExpiredSessions.
RemoveActive(s) ==
    /\ active' = active \ {s}
    /\ UNCHANGED <<hash, mortal, roomCode, userSessions, access, ingressIDs, lapsed>>

\* The pipeline of GrantAccess.
GrantAccess(s, u, role) ==
    /\ access' = [access EXCEPT ![s][u] = role]
    /\ UNCHANGED <<hash, mortal, roomCode, active, userSessions, ingressIDs, lapsed>>

\* The pipeline of AddIngressID.
AddIngressID(s, i) ==
    /\ ingressIDs' = [ingressIDs EXCEPT ![s] = @ \cup {i}]
    /\ UNCHANGED <<hash, mortal, roomCode, active, userSessions, access, lapsed>>

\* The SREM of GetUserSessions for a session it did not find.
ForgetUserSession(u, s) ==
    /\ userSessions' = [userSessions EXCEPT ![u] = @ \ {s}]
    /\ UNCHANGED <<hash, mortal, roomCode, active, access, ingressIDs, lapsed>>

-----------------------------------------------------------------------------
(***************************************************************************)
(* Expiry, by Redis.                                                       *)
(***************************************************************************)

\* The session hash expires: nothing in the code ever renews its TTL.
ExpireHash(s) ==
    /\ s \in lapsed \cap mortal
    /\ hash' = [hash EXCEPT ![s] = "absent"]
    /\ mortal' = mortal \ {s}
    /\ UNCHANGED <<roomCode, active, userSessions, access, ingressIDs, lapsed>>

ExpireRoomCode(c) ==
    /\ roomCode[c] \in lapsed
    /\ roomCode' = [roomCode EXCEPT ![c] = None]
    /\ UNCHANGED <<hash, mortal, active, userSessions, access, ingressIDs, lapsed>>

\* Grants and new ingresses renew the TTL of these two keys, so they outlive the
\* session hash.
ExpireAccess(s) ==
    /\ s \in lapsed /\ access[s] # [u \in Users |-> None]
    /\ access' = [access EXCEPT ![s] = [u \in Users |-> None]]
    /\ UNCHANGED <<hash, mortal, roomCode, active, userSessions, ingressIDs, lapsed>>

ExpireIngressIDs(s) ==
    /\ s \in lapsed /\ ingressIDs[s] # {}
    /\ ingressIDs' = [ingressIDs EXCEPT ![s] = {}]
    /\ UNCHANGED <<hash, mortal, roomCode, active, userSessions, access, lapsed>>

\* Every new session renews the TTL of its user's set.
ExpireUserSessions(u) ==
    /\ userSessions[u] # {} /\ userSessions[u] \subseteq lapsed
    /\ userSessions' = [userSessions EXCEPT ![u] = {}]
    /\ UNCHANGED <<hash, mortal, roomCode, active, access, ingressIDs, lapsed>>

Expiry ==
    \/ \E s \in Sessions : ExpireHash(s) \/ ExpireAccess(s) \/ ExpireIngressIDs(s)
    \/ \E c \in Codes : ExpireRoomCode(c)
    \/ \E u \in Users : ExpireUserSessions(u)

StoreTypeOK ==
    /\ hash \in [Sessions -> {"absent", "active", "closed", "partial"}]
    /\ mortal \subseteq Sessions
    /\ roomCode \in [Codes -> Sessions \cup {None}]
    /\ active \subseteq Sessions
    /\ userSessions \in [Users -> SUBSET Sessions]
    /\ access \in [Sessions -> [Users -> {"director", "camera", None}]]
    /\ ingressIDs \in [Sessions -> SUBSET Requests]
    /\ lapsed \subseteq Sessions
=============================================================================
