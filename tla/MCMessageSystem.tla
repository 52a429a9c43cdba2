---------------------------- MODULE MCMessageSystem ----------------------------
(***************************************************************************)
(* Small instances of MessageSystem.                                       *)
(***************************************************************************)
EXTENDS MessageSystem

CONSTANTS p1, p2, n1, n2, n3, t1, t2, h1, h2

ThreadSymmetry == Permutations(Threads) \cup Permutations(StreamThreads)

\* Two users, each with a name of its own.
OwnNames == (p1 :> {n1}) @@ (p2 :> {n2})

\* p2 comes back under another name.
ChangingNames == (p1 :> {n1}) @@ (p2 :> {n2, n3})

\* Bounds on the order of things that do not touch the streams: p1 is in
\* before p2 starts, and the clock stands still until p1 has sent something.
SenderFirst ==
    /\ logins[p2] > 0 => view[p1] = "chat"
    /\ now > 0 => sends[p1] > 0

\* The clock moves only while no unary call is served.
TickBetweenCalls == now' # now => \A t \in Threads : calls[t] = NoCall

\* Budgets of p1 and p2.
NoneEach == (p1 :> 0) @@ (p2 :> 0)
OneEach == (p1 :> 1) @@ (p2 :> 1)
OneAndTwo == (p1 :> 1) @@ (p2 :> 2)
OneForP1 == (p1 :> 1) @@ (p2 :> 0)
TwoForP1 == (p1 :> 2) @@ (p2 :> 0)
===============================================================================
