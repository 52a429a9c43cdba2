---------------------------- MODULE MCRosterSystem ----------------------------
(***************************************************************************)
(* Small instances of RosterSystem.                                        *)
(***************************************************************************)
EXTENDS RosterSystem

CONSTANTS p1, p2, n1, n2, t1, t2, h1, h2

ThreadSymmetry == Permutations(Threads) \cup Permutations(StreamThreads)

\* Two users, each with a name of its own.
OwnNames == (p1 :> {n1}) @@ (p2 :> {n2})

\* Bound: p2 starts to log in while p1 is in the chat, or after; its call may
\* linger, so that every order of the two meets p1's second session.
WatcherFirst == logins'[p2] > logins[p2] => logins[p1] = 2 \/ view[p1] = "chat"

\* Budgets of p1 and p2.
NoneEach == (p1 :> 0) @@ (p2 :> 0)
OneForP1 == (p1 :> 1) @@ (p2 :> 0)
OneEach == (p1 :> 1) @@ (p2 :> 1)
TwoAndOne == (p1 :> 2) @@ (p2 :> 1)
OneAndTwo == (p1 :> 1) @@ (p2 :> 2)
===============================================================================
