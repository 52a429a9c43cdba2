-------------------------- MODULE MessageBroadcaster --------------------------
(***************************************************************************)
(* domain::MessageBroadcaster: the history of public messages and, per     *)
(* peer, how far a subscriber has read it.  nextMessage holds mutex_ but   *)
(* for its wait, so it is two atomic steps: up to the wait (Start...) and  *)
(* after it (Resume...); a wait may end at any time, by notification, time *)
(* out or spuriously.                                                      *)
(***************************************************************************)
EXTENDS ClientRegistry, PeerCursor, Sequences

VARIABLES
    messageHistory,   \* messageHistory_
    messageIndices    \* peerIndices_

messageVars == <<messageHistory, messageIndices>>

\* An entry of the history: the payload, and the history fields sender, sentAt.
Message == [author : Pseudonyms, content : Nat, sender : Peers, sentAt : Time]

MessagesTypeOK ==
    /\ messageHistory \in Seq(Message)
    /\ messageIndices \in [Peers -> Nat \cup {NoIndex}]

MessagesInit ==
    /\ messageHistory = <<>>
    /\ messageIndices = [p \in Peers |-> NoIndex]

SetMessageIndex(p, index) == messageIndices' = [messageIndices EXCEPT ![p] = index]

\* A mutant: off by one, the last entry is never handed out.
TakeMessage_LeavesLast(p, index) ==
    /\ index + 1 < Len(messageHistory)
    /\ SetMessageIndex(p, index + 1)

\* The tail of nextMessage once the entry is known to be at index.
TakeMessage(p, index) ==
    /\ index < Len(messageHistory)
    /\ SetMessageIndex(p, index + 1)

-----------------------------------------------------------------------------
\* Observer callback: the message joins the history; the waiters are woken.
MessagesOnMessageSent(event) ==
    /\ messageHistory' =
         Append(messageHistory, [author |-> event.pseudonym, content |-> event.content,
                                 sender |-> event.peer, sentAt |-> event.sentAt])
    /\ UNCHANGED messageIndices

\* normalizeMessageIndex: FALSE for an unknown peer, whose entry is dropped.
normalizeMessageIndex(p) ==
    SetMessageIndex(p, IF isPeerConnected(p)
                         THEN Normalized(messageIndices[p], Len(messageHistory))
                         ELSE NoIndex)

\* kPeerMissing, before or after the wait: the registry does not know the peer.
DropMessageIndex(p) == ~isPeerConnected(p) /\ SetMessageIndex(p, NoIndex)

\* kOk without waiting.
StartMessageTaken(p) ==
    isPeerConnected(p) /\ TakeMessage(p, Located(messageIndices[p], Len(messageHistory)))

\* Nothing to hand out: the call waits.
StartMessageWaits(p) ==
    LET index == Located(messageIndices[p], Len(messageHistory)) IN
    /\ isPeerConnected(p)
    /\ index >= Len(messageHistory)
    /\ SetMessageIndex(p, index)

\* kPeerMissing after the wait because another call dropped the entry.
ResumeMessageEntryGone(p) ==
    isPeerConnected(p) /\ messageIndices[p] = NoIndex /\ UNCHANGED messageIndices

\* A mutant: after a wait the index is set to the end of the history.
ResumeMessageTaken_JumpsToEnd(p) ==
    /\ isPeerConnected(p) /\ messageIndices[p] # NoIndex
    /\ messageIndices[p] < Len(messageHistory)
    /\ SetMessageIndex(p, Len(messageHistory))

\* kOk after the wait.
ResumeMessageTaken(p) ==
    isPeerConnected(p) /\ messageIndices[p] # NoIndex /\ TakeMessage(p, messageIndices[p])

\* kNoMessage.
ResumeMessageEmpty(p) ==
    /\ isPeerConnected(p)
    /\ messageIndices[p] >= Len(messageHistory)
    /\ UNCHANGED messageIndices
=============================================================================
