---------------------------- MODULE MCClientProcess ----------------------------
(* Instance of ClientProcess for TLC: nothing in it needs a bound. *)
EXTENDS ClientProcess
===============================================================================
