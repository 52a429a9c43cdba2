----------------------------- MODULE MCClientViews -----------------------------
(* Instance of ClientViews for TLC. *)
EXTENDS ClientViews

Name(w, c, s) == [word |-> w, capital |-> c, tail |-> [i \in 1..s |-> "suffix"]]

\* One name with no, one and two suffixes, and one in two cases.
MCWords == {"bob", "eve"}
MCNames == {Name("bob", FALSE, s) : s \in 0..2} \cup {Name("eve", c, 0) : c \in BOOLEAN}
MCUsers == {Name("bob", FALSE, 0), Name("eve", FALSE, 0)}
MCCopies == {0}

\* Bounds of the search, on the states it goes on from: two bans in all, and
\* two complications.
FewBans ==
    \A u, v \in Users : u # v => Cardinality(banned_users[u]) + Cardinality(banned_users[v]) <= 2

Complications ==
    events + (IF logins = 2 THEN 1 ELSE 0) + 2 * Cardinality(faults)
        + (IF visible \/ listed # {} THEN 1 ELSE 0)

FewComplications == Complications <= 3

\* Private windows share little with the rest: no step makes one but with
\* two rows at most, one ban and no complication but a second login.
PrivateApart ==
    DOMAIN privateChats' # {} =>
        /\ events' = 0 /\ faults' = {} /\ listed' = {} /\ ~visible'
        /\ Cardinality(DOMAIN privateChats') = 1 /\ Cardinality(DOMAIN rows') <= 2
        /\ Cardinality(UNION {banned_users'[u] : u \in Users}) <= 1
===============================================================================
