----------------------------- MODULE PeerCursor -----------------------------
(***************************************************************************)
(* The read position a peer has in a broadcaster's log.  MessageBroadcaster*)
(* and ClientEventBroadcaster keep one per peer in peerIndices_ and treat  *)
(* it alike.  Entries below the index have been handed out.                *)
(***************************************************************************)
EXTENDS Integers

NoIndex == -1   \* no entry in peerIndices_

\* A mutant: an absent entry starts at the beginning of the log.
Normalized_FromStart(index, size) ==
    IF index = NoIndex THEN 0 ELSE IF index > size THEN size ELSE index

\* normalize...Index for a connected peer: an absent entry starts at the end
\* of the log, an entry beyond the end is pulled back.
Normalized(index, size) == IF index = NoIndex \/ index > size THEN size ELSE index

\* The first lookup of next...(): an absent entry starts at the end.
Located(index, size) == IF index = NoIndex THEN size ELSE index
=============================================================================
