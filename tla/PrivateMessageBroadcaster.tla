---------------------- MODULE PrivateMessageBroadcaster ----------------------
(***************************************************************************)
(* domain::PrivateMessageBroadcaster: one queue of undelivered private     *)
(* messages per recipient peer.  An absent queue and an empty one behave   *)
(* alike in every method, so both are <<>>.  nextPrivateMessage is two     *)
(* atomic steps, as MessageBroadcaster!nextMessage is.                     *)
(***************************************************************************)
EXTENDS ClientRegistry, Sequences

VARIABLES
    peerMessageQueues,  \* peerMessageQueues_
    privateSent         \* history: every private message ever queued, in order

privateVars == <<peerMessageQueues, privateSent>>

\* A queued message: the payload, and two history fields: the pseudonym it was
\* written to and its rank among all private messages.
PrivateMessage == [author : Pseudonyms, content : Nat, to : Pseudonyms, id : Nat]

PrivateTypeOK ==
    /\ peerMessageQueues \in [Peers -> Seq(PrivateMessage)]
    /\ privateSent \in Seq(PrivateMessage)

PrivateInit ==
    /\ peerMessageQueues = [p \in Peers |-> <<>>]
    /\ privateSent = <<>>

EraseQueue(p) == peerMessageQueues' = [peerMessageQueues EXCEPT ![p] = <<>>]

-----------------------------------------------------------------------------
\* Observer callback: drops every queue whose peer is no longer connected.
PrivateOnClientDisconnected(event) ==
    /\ peerMessageQueues' =
         [p \in Peers |-> IF isPeerConnected(p) THEN peerMessageQueues[p] ELSE <<>>]
    /\ UNCHANGED privateSent

\* A mutant: the queue is filled at its front.
PrivateOnPrivateMessageSent_AtFront(event) ==
    LET payload == [author |-> event.senderPseudonym, content |-> event.content,
                    to |-> event.recipientPseudonym, id |-> Len(privateSent) + 1] IN
    /\ peerMessageQueues' =
         [peerMessageQueues EXCEPT ![event.recipientPeer] = <<payload>> \o @]
    /\ privateSent' = Append(privateSent, payload)

\* Observer callback: queued for the peer the event names, connected or not.
PrivateOnPrivateMessageSent(event) ==
    LET payload == [author |-> event.senderPseudonym, content |-> event.content,
                    to |-> event.recipientPseudonym, id |-> Len(privateSent) + 1] IN
    /\ peerMessageQueues' =
         [peerMessageQueues EXCEPT ![event.recipientPeer] = Append(@, payload)]
    /\ privateSent' = Append(privateSent, payload)

\* normalizePrivateMessageIndex: makes sure there is a queue, or that there
\* is none for an unknown peer.
normalizePrivateMessageIndex(p) ==
    /\ UNCHANGED privateSent
    /\ IF isPeerConnected(p) THEN UNCHANGED peerMessageQueues ELSE EraseQueue(p)

\* kPeerMissing, before or after the wait.
DropQueue(p) == ~isPeerConnected(p) /\ EraseQueue(p) /\ UNCHANGED privateSent

\* A mutant: the message is handed out and stays in the queue.
TakePrivate_LeavesIt(p) ==
    /\ isPeerConnected(p)
    /\ peerMessageQueues[p] # <<>>
    /\ UNCHANGED privateVars

\* kOk, before or after the wait.
TakePrivate(p) ==
    /\ isPeerConnected(p)
    /\ peerMessageQueues[p] # <<>>
    /\ peerMessageQueues' = [peerMessageQueues EXCEPT ![p] = Tail(@)]
    /\ UNCHANGED privateSent

\* The queue is empty: the call waits, or after the wait returns kNoMessage.
NoPrivate(p) ==
    /\ isPeerConnected(p)
    /\ peerMessageQueues[p] = <<>>
    /\ UNCHANGED privateVars
=============================================================================
