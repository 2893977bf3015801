----------------------------- MODULE MCJanitor -----------------------------
(***************************************************************************)
(* Symmetry for the safety runs of Janitor, where requests, users, room    *)
(* codes and server processes are interchangeable, and the clients of the  *)
(* run in which sweeps overlap.                                            *)
(***************************************************************************)
EXTENDS Janitor, TLC

Symmetry ==
    Permutations(Requests) \cup Permutations(Users) \cup Permutations(Codes)
        \cup Permutations(Instances)

\* Bound: one request creates a session and the others close it.
Creator == CHOOSE r \in Requests : TRUE
Calls(r) == req'[r].op \in {None} \cup {IF r = Creator THEN "create" ELSE "close"}

\* Next without failures, and of the keys of a session only the hash expires.
OverlapNext ==
    \/ \E r \in Requests : Request(r) /\ Calls(r)
    \/ \E p \in Processes : CloseStep(p)
    \/ \E w \in Sweepers : Sweep(w)
    \/ \E i \in Instances : Tick(i) \/ Reconnect(i) \/ PingFails(i)
    \/ \E s \in Sessions : Lapse(s) \/ (Expire /\ ExpireHash(s))
    \/ LockExpires

OverlapSpec == Init /\ [][OverlapNext]_vars /\ Fairness
=============================================================================
