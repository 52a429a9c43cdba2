--------------------------------- MODULE Feed ---------------------------------
(***************************************************************************)
(* What a subscription promises: there is a log to which entries are       *)
(* added, and each reader is shown entries of it in log order, none twice. *)
(* A reader starts wherever it joined and may miss entries.                *)
(***************************************************************************)
EXTENDS Naturals, Sequences

CONSTANT Readers

VARIABLES
    log,      \* the entries published so far
    shown     \* per reader, the positions it was shown, in that order

feedVars == <<log, shown>>

FeedInit ==
    /\ log = <<>>
    /\ shown = [r \in Readers |-> <<>>]

Publish ==
    /\ Len(log') = Len(log) + 1
    /\ SubSeq(log', 1, Len(log)) = log
    /\ UNCHANGED shown

\* A reader is shown an entry it has not been shown, nor any later one.
Show(r) ==
    /\ \E i \in DOMAIN log :
          /\ \A k \in DOMAIN shown[r] : shown[r][k] < i
          /\ shown' = [shown EXCEPT ![r] = Append(@, i)]
    /\ UNCHANGED log

FeedSpec == FeedInit /\ [][Publish \/ \E r \in Readers : Show(r)]_feedVars
=============================================================================
