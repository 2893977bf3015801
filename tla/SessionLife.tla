---------------------------- MODULE SessionLife ----------------------------
(***************************************************************************)
(* What the signaling backend promises about a session as long as none of  *)
(* its calls fails: it is opened once, by one user; it is closed only when *)
(* that user has asked for a close or its TTL has run out; a closed        *)
(* session is not opened again; and only a session whose TTL has run out   *)
(* disappears.  Handlers, sweeps, locks and keys are not seen here.        *)
(***************************************************************************)
CONSTANTS
    Sessions,
    Users,
    None        \* no owner yet

VARIABLES
    status,     \* unborn, open, closed or gone
    owner,      \* the user a session was opened for
    closers,    \* the users who have called CloseSession
    over        \* sessions whose TTL has run out

lifeVars == <<status, owner, closers, over>>

Init ==
    /\ status = [s \in Sessions |-> "unborn"]
    /\ owner = [s \in Sessions |-> None]
    /\ closers = {}
    /\ over = {}

Open(s, u) ==
    /\ status[s] = "unborn"
    /\ status' = [status EXCEPT ![s] = "open"]
    /\ owner' = [owner EXCEPT ![s] = u]
    /\ UNCHANGED <<closers, over>>

AskToClose(u) ==
    /\ closers' = closers \cup {u}
    /\ UNCHANGED <<status, owner, over>>

Close(s) ==
    /\ status[s] = "open"
    /\ owner[s] \in closers \/ s \in over
    /\ status' = [status EXCEPT ![s] = "closed"]
    /\ UNCHANGED <<owner, closers, over>>

RunOut(s) ==
    /\ status[s] \in {"open", "closed"}
    /\ over' = over \cup {s}
    /\ UNCHANGED <<status, owner, closers>>

Vanish(s) ==
    /\ status[s] \in {"open", "closed"} /\ s \in over
    /\ status' = [status EXCEPT ![s] = "gone"]
    /\ UNCHANGED <<owner, closers, over>>

Next ==
    \/ \E s \in Sessions :
          (\E u \in Users : Open(s, u)) \/ Close(s) \/ RunOut(s) \/ Vanish(s)
    \/ \E u \in Users : AskToClose(u)

Spec == Init /\ [][Next]_lifeVars
=============================================================================
