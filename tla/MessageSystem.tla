----------------------------- MODULE MessageSystem -----------------------------
(***************************************************************************)
(* SubscribeMessages and the conversations of the client: public messages  *)
(* from the shared history, private ones from the peer's own queue.        *)
(***************************************************************************)
EXTENDS StreamCalls, SequencesExt

VARIABLES
    shownPublic,    \* positions of the public messages shown, all sessions
    shownPrivate,   \* the private messages shown, all sessions: rank and reader's name
    base,           \* history: where the session's handler starts to read
    stolen,         \* history: public messages a stale handler took from the session
    lost            \* history: private messages dropped with a session or a queue

messageHistoryVars == <<shownPublic, shownPrivate, base, stolen, lost>>
messageSystemVars == <<streamVars, messageHistoryVars>>

MessageSystemTypeOK ==
    /\ StreamTypeOK
    /\ shownPublic \in [Peers -> Seq(Nat)]
    /\ shownPrivate \in [Peers -> Seq([at : Nat, as : Pseudonyms])]
    /\ base \in [Peers -> Nat]
    /\ stolen \in [Peers -> SUBSET Nat]
    /\ lost \subseteq Nat

MessageSystemInit ==
    /\ Init
    /\ StreamInit
    /\ shownPublic = [p \in Peers |-> <<>>]
    /\ shownPrivate = [p \in Peers |-> <<>>]
    /\ base = [p \in Peers |-> 0]
    /\ stolen = [p \in Peers |-> {}]
    /\ lost = {}

\* The session's handler has found its place in the history.
Subscribed(p) ==
    /\ stream[p] # NoStream
    /\ handlers[stream[p]].pc # "start"
    /\ messageIndices[p] # NoIndex

QueuedFor(p) == {peerMessageQueues[p][k].id : k \in DOMAIN peerMessageQueues[p]}

\* The private messages among a sequence of items.
PrivateIn(items) == {items[k].at : k \in {j \in DOMAIN items : items[j].kind = "private"}}

-----------------------------------------------------------------------------
(* SubscribeMessages.  A step of a handler changes nothing but its peer's  *)
(* cursor and queue.                                                       *)

StreamStep ==
    UNCHANGED <<now, clients, messageHistory, privateSent, clientEventVars, lastMessageTime,
                statisticsVars, dispatch, calls, admittedAt, clientVars, shownPublic,
                shownPrivate>>

\* PERMISSION_DENIED for an unknown peer, by normalizeMessageIndex's answer.
MessagesStart(h) ==
    LET p == handlers[h].peer IN
    /\ Serving(h, "start")
    /\ normalizeMessageIndex(p)
    /\ IF isPeerConnected(p) THEN StreamGoto(h, "queue") ELSE StreamEnds(h)
    /\ base' = IF isPeerConnected(p) /\ ~Stale(h)
                 THEN [base EXCEPT ![p] = messageIndices'[p]] ELSE base
    /\ UNCHANGED <<peerMessageQueues, stolen, lost>>
    /\ StreamStep

\* The answer of normalizePrivateMessageIndex is ignored.
MessagesQueue(h) ==
    LET p == handlers[h].peer IN
    /\ Serving(h, "queue")
    /\ normalizePrivateMessageIndex(p)
    /\ StreamGoto(h, "loop")
    /\ lost' = IF isPeerConnected(p) THEN lost ELSE lost \cup QueuedFor(p)
    /\ UNCHANGED <<messageIndices, base, stolen>>
    /\ StreamStep

\* nextPrivateMessage with a wait of 0 ms: up to the wait, which lets go of
\* the mutex, and after it.
MessagesPrivate(h) ==
    LET p == handlers[h].peer IN
    /\ (Serving(h, "loop") /\ ~handlers[h].cancelled) \/ Serving(h, "privateWait")
    /\ \/ DropQueue(p) /\ StreamEnds(h) /\ lost' = lost \cup QueuedFor(p)
       \/ /\ TakePrivate(p)
          /\ StreamTakes(h, [kind |-> "private", at |-> Head(peerMessageQueues[p]).id])
          /\ UNCHANGED lost
       \/ /\ NoPrivate(p)
          /\ StreamGoto(h, IF Serving(h, "loop") THEN "privateWait" ELSE "public")
          /\ UNCHANGED lost
    /\ UNCHANGED <<messageIndices, base, stolen>>
    /\ StreamStep

PublicTaken(h) == StreamTakes(h, [kind |-> "public", at |-> messageIndices'[handlers[h].peer]])

\* nextMessage up to its wait.
MessagesNext(h) ==
    LET p == handlers[h].peer IN
    /\ Serving(h, "public")
    /\ \/ DropMessageIndex(p) /\ StreamEnds(h)
       \/ StartMessageTaken(p) /\ PublicTaken(h)
       \/ StartMessageWaits(p) /\ StreamGoto(h, "wait")
    /\ UNCHANGED <<peerMessageQueues, base, stolen, lost>>
    /\ StreamStep

\* A mutant: the status is not looked at, and nothing is written as a message.
MessagesWake_NoStatusCheck(h) ==
    LET p == handlers[h].peer IN
    /\ Serving(h, "wait")
    /\ \/ DropMessageIndex(p) /\ StreamEnds(h)
       \/ ResumeMessageEntryGone(p) /\ StreamEnds(h)
       \/ ResumeMessageTaken(p) /\ PublicTaken(h)
       \/ ResumeMessageEmpty(p) /\ StreamGoto(h, "write")
    /\ UNCHANGED <<peerMessageQueues, base, stolen, lost>>
    /\ StreamStep

\* nextMessage after its wait.
MessagesWake(h) ==
    LET p == handlers[h].peer IN
    /\ Serving(h, "wait")
    /\ \/ DropMessageIndex(p) /\ StreamEnds(h)
       \/ ResumeMessageEntryGone(p) /\ StreamEnds(h)
       \/ ResumeMessageTaken(p) /\ PublicTaken(h)
       \/ ResumeMessageEmpty(p) /\ StreamGoto(h, "loop")
    /\ UNCHANGED <<peerMessageQueues, base, stolen, lost>>
    /\ StreamStep

MessagesWrite(h) ==
    LET p == handlers[h].peer
        item == handlers[h].item IN
    /\ \/ StreamWrites(h) /\ UNCHANGED <<stolen, lost>>
       \/ /\ StreamWriteLost(h)
          /\ stolen' = IF item.kind = "public" /\ Subscribed(p) /\ item.at > base[p]
                         THEN [stolen EXCEPT ![p] = @ \cup {item.at}] ELSE stolen
          /\ lost' = IF item.kind = "private" THEN lost \cup {item.at} ELSE lost
    /\ UNCHANGED <<peerMessageQueues, messageIndices, base>>
    /\ StreamStep

MessagesCancelled(h) ==
    /\ StreamCancelled(h)
    /\ UNCHANGED <<peerMessageQueues, messageIndices, base, stolen, lost>>
    /\ StreamStep

MessagesHandler(h) ==
    \/ MessagesStart(h) \/ MessagesQueue(h) \/ MessagesPrivate(h) \/ MessagesNext(h)
    \/ MessagesWake(h) \/ MessagesWrite(h) \/ MessagesCancelled(h)

-----------------------------------------------------------------------------
(* The client.                                                             *)

\* ChatWindow::onMessageReceived: to the private window or the conversation.
ShowMessage(p) ==
    LET item == Head(inbox[p]) IN
    /\ TakeInbox(p)
    /\ IF item.kind = "private"
         THEN /\ shownPrivate' =
                   [shownPrivate EXCEPT ![p] = Append(@, [at |-> item.at, as |-> pseudonym[p]])]
              /\ UNCHANGED shownPublic
         ELSE /\ shownPublic' = [shownPublic EXCEPT ![p] = Append(@, item.at)]
              /\ UNCHANGED shownPrivate
    /\ UNCHANGED <<now, serverVars, clientVars, base, stolen, lost>>

\* ChatWindow::onLoginSucceeded.
EnterChat(p) == LoginSucceeded(p) /\ OpenStream(p) /\ UNCHANGED messageHistoryVars

\* ChatWindow::prepareClose, or the end of the process.
LeaveChat(p) ==
    /\ \/ Disconnect(p) /\ StopStream(p)
       \/ CloseWindow(p) /\ AbandonStream(p)
       \/ Crash(p) /\ AbandonStream(p)
    /\ base' = [base EXCEPT ![p] = 0]
    /\ stolen' = [stolen EXCEPT ![p] = {}]
    /\ lost' = lost \cup (PrivateIn(inbox[p]) \ PrivateIn(inbox'[p]))
    /\ UNCHANGED <<shownPublic, shownPrivate>>

\* What else a client does has no part in its stream.  The event loop hands
\* out what was posted before it looks at the user's next click.
OtherClientStep(p) ==
    \/ inbox[p] = <<>> /\ \E n \in NamesOf[p] : Login(p, n)
    \/ ConnectTimesOut(p)
    \/ LoginRejected(p)
    \/ CloseUnused(p)
    \/ Disconnected(p)
    \/ \E recipient \in Recipients, content \in Lengths : SendMessage(p, recipient, content)
    \/ MessageSent(p)

\* The dispatcher's walk, which drops the queues of the departed.
WalkStep ==
    /\ ObserverStep
    /\ lost' = IF Notifies("privateMessages", "ClientDisconnected")
                 THEN lost \cup UNION {QueuedFor(p) : p \in {q \in Peers : ~isPeerConnected(q)}}
                 ELSE lost
    /\ UNCHANGED <<streamVars, shownPublic, shownPrivate, base, stolen>>

UnaryStep(t) == HandlerStep(t) /\ UNCHANGED messageSystemVars

CancelStep(h) ==
    CancelArrives(h) /\ UNCHANGED <<now, serverVars, clientVars, messageHistoryVars>>

MessageSystemNext ==
    \/ Tick /\ UNCHANGED <<serverVars, clientVars, messageSystemVars>>
    \/ \E t \in Threads : UnaryStep(t)
    \/ \E t \in Threads : DropAnswer(t) /\ UNCHANGED messageSystemVars
    \/ WalkStep
    \/ \E p \in Peers : OtherClientStep(p) /\ UNCHANGED messageSystemVars
    \/ \E p \in Peers : EnterChat(p) \/ LeaveChat(p) \/ ShowMessage(p)
    \/ \E h \in StreamThreads : MessagesHandler(h) \/ CancelStep(h)

allVars == <<vars, messageSystemVars>>

MessageSystemSpec == MessageSystemInit /\ [][MessageSystemNext]_allVars

\* The operating system runs every handler, a wait ends, a cancellation gets
\* through, and the GUI thread comes back to its event loop.
MessageSystemFairness ==
    /\ \A t \in Threads : WF_allVars(UnaryStep(t))
    /\ WF_allVars(WalkStep)
    /\ \A h \in StreamThreads : WF_allVars(MessagesHandler(h)) /\ WF_allVars(CancelStep(h))
    /\ \A p \in Peers :
         /\ WF_allVars(EnterChat(p)) /\ WF_allVars(ShowMessage(p))
         /\ WF_allVars((LoginRejected(p) \/ Disconnected(p) \/ MessageSent(p))
                         /\ UNCHANGED messageSystemVars)

FairMessageSystemSpec == MessageSystemSpec /\ MessageSystemFairness

-----------------------------------------------------------------------------
(* Properties.                                                             *)

PublicFeed ==
    INSTANCE Feed WITH Readers <- Peers, log <- messageHistory, shown <- shownPublic

\* SubscribeMessages implements Feed for the public history: a client is shown
\* messages in the order the server stored them and none twice, over all its
\* sessions, even while a handler of an earlier session still runs.
PublicInOrder == PublicFeed!FeedSpec

\* The items of one kind that p's handlers have in hand.
InHand(p, kind) ==
    {handlers[h].item.at :
       h \in {k \in StreamThreads : /\ handlers[k] # NoHandler /\ handlers[k].peer = p
                                    /\ handlers[k].item # NoItem
                                    /\ handlers[k].item.kind = kind}}

\* No public message falls between the cursor and the reader: from where the
\* session began, each was shown, is under way, or was taken by a stale handler.
\* Needs NamesAreOwn: a namesake's Disconnect takes the peer out of the registry,
\* a stale handler then drops the index, and once a late Connect has registered
\* the peer again the session goes on at the end of the history.
PublicAccountedFor ==
    NamesAreOwn =>
      \A p \in Watchers :
         Subscribed(p) =>
           (base[p] + 1)..messageIndices[p]
             \subseteq ToSet(shownPublic[p]) \cup stolen[p] \cup InHand(p, "public")
                        \cup {inbox[p][k].at : k \in {j \in DOMAIN inbox[p] :
                                                       inbox[p][j].kind = "public"}}

\* The ranks of the private messages shown to p.
PrivateShown(p) == {shownPrivate[p][k].at : k \in DOMAIN shownPrivate[p]}

\* Every private message ever queued is in exactly one place: its queue, a
\* handler's hand, its reader's inbox, its reader's screen, or gone with a
\* session or a queue.  Hence none is delivered twice and none evaporates.
PrivateAccountedFor ==
    LET places(p) == <<QueuedFor(p), InHand(p, "private"), PrivateIn(inbox[p]), PrivateShown(p)>>
        all == Peers \X (1..4)
    IN \A id \in 1..Len(privateSent) :
          Cardinality({pk \in all : id \in places(pk[1])[pk[2]]}) = (IF id \in lost THEN 0 ELSE 1)

PrivateFeed ==
    INSTANCE Feed WITH Readers <- Peers, log <- privateSent,
                       shown <- [p \in Peers |-> [k \in DOMAIN shownPrivate[p] |->
                                                   shownPrivate[p][k].at]]

\* SubscribeMessages implements Feed for private messages too: what a client is
\* shown of them comes in the order the server queued them, none twice.
PrivateInOrder == PrivateFeed!FeedSpec

\* p's stream has nothing more to bring.
CaughtUp(p) ==
    /\ view[p] = "chat" /\ Subscribed(p)
    /\ messageIndices[p] = Len(messageHistory) /\ peerMessageQueues[p] = <<>>
    /\ handlers[stream[p]].pc # "write" /\ inbox[p] = <<>>

\* While a client stays subscribed it catches up again and again: no message,
\* public or private, waits for ever.
SubscriberCatchesUp == \A p \in Watchers : []<>(~Subscribed(p) \/ CaughtUp(p))

\* A handler whose client gave up returns: no server thread is lost.
StaleHandlersEnd == \A h \in StreamThreads : Stale(h) ~> ~Stale(h)

-----------------------------------------------------------------------------
(* What the repository says and the code does not do.                      *)

\* "Real-time message broadcasting with history for late joiners": a client
\* that has caught up has been shown the whole history.
HistoryForLateJoiners ==
    \A p \in Watchers : CaughtUp(p) => ToSet(shownPublic[p]) = DOMAIN messageHistory

\* "Private message routing between individual clients": a private message is
\* only shown to a client with the name it was written to.
PrivateReachesAddressee ==
    \A p \in Peers : \A k \in DOMAIN shownPrivate[p] :
       shownPrivate[p][k].as = privateSent[shownPrivate[p][k].at].to
=============================================================================
