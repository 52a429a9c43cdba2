----------------------------- MODULE MCChatSystem -----------------------------
(***************************************************************************)
(* Small instances of ChatSystem.                                          *)
(***************************************************************************)
EXTENDS ChatSystem, TLC

CONSTANTS p1, p2, n1, n2, t1, t2, t3

ThreadSymmetry == Permutations(Threads)

\* Two users, each with a name of its own.
OwnNames == (p1 :> {n1}) @@ (p2 :> {n2})

\* p1 has the choice, p2 insists on n1.
Contested == (p1 :> {n1, n2}) @@ (p2 :> {n1})

\* Budgets of p1 and p2.
NoneEach == (p1 :> 0) @@ (p2 :> 0)
OneEach == (p1 :> 1) @@ (p2 :> 1)
TwoAndOne == (p1 :> 2) @@ (p2 :> 1)
OneForP1 == (p1 :> 1) @@ (p2 :> 0)

\* At most one kind of failure per behaviour.
OneFault ==
    \/ dbErrors = 0 /\ timeouts = NoneEach
    \/ dbErrors = 0 /\ \A p \in Peers : view[p] # "crashed"
    \/ timeouts = NoneEach /\ \A p \in Peers : view[p] # "crashed"

\* p2 writes only from a window that outlived its session, once p1 is in the
\* chat and has not written, and nothing fails then.
WritesAfterwards ==
    sends'[p2] # 0 => /\ view[p2] = "login" /\ view[p1] = "chat"
                      /\ sends[p2] = 0 => sends[p1] = 0
                      /\ dbErrors' = 0 /\ timeouts' = NoneEach
===============================================================================
