------------------------------ MODULE PerUserBans ------------------------------
(***************************************************************************)
(* What "per-user ban lists" promise (README.md): a user's list changes    *)
(* only while that user is logged in, by one name at a time; when a name   *)
(* is taken off, the bare form of it may go with it.                       *)
(***************************************************************************)
CONSTANTS Users, NoUser, Bare(_)

VARIABLES bans, user

Init ==
    /\ bans = [u \in Users |-> {}]
    /\ user = NoUser

LogIn ==
    /\ user = NoUser
    /\ user' \in Users
    /\ UNCHANGED bans

LogOut ==
    /\ user # NoUser
    /\ user' = NoUser
    /\ UNCHANGED bans

Ban ==
    /\ user # NoUser
    /\ \E name \in bans'[user] : bans' = [bans EXCEPT ![user] = @ \cup {name}]
    /\ UNCHANGED user

Unban ==
    /\ user # NoUser
    /\ \E name \in bans[user] :
          \/ bans' = [bans EXCEPT ![user] = @ \ {name}]
          \/ bans' = [bans EXCEPT ![user] = @ \ {name, Bare(name)}]
    /\ UNCHANGED user

Spec == Init /\ [][LogIn \/ LogOut \/ Ban \/ Unban]_<<bans, user>>
===============================================================================
