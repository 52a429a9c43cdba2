-------------------------- MODULE MessageSystem_proofs --------------------------
(***************************************************************************)
(* Proofs about SubscribeMessages, for every set of peers, names and       *)
(* threads and every bound: public and private messages are shown in the   *)
(* order the server stored them and none twice, none is lost between the   *)
(* server and the screen, every private message is in one place only, and  *)
(* none is shown to another user than the one it was written to.           *)
(***************************************************************************)
EXTENDS MessageSystem, StreamCalls_proofs, FiniteSetTheorems

MessageTypes ==
    /\ shownPublic \in [Peers -> Seq(Nat)]
    /\ shownPrivate \in [Peers -> Seq([at : Nat, as : Pseudonyms])]
    /\ base \in [Peers -> Nat]
    /\ stolen \in [Peers -> SUBSET Nat]
    /\ lost \subseteq Nat

\* Whoever has been in the chat view has a name to read messages under.
NameInv == \A p \in Peers : stream[p] # NoStream \/ inbox[p] # <<>> => pseudonym[p] # NoName

\* This stream carries nothing but messages.
OnlyMessages ==
    /\ \A p \in Peers : \A k \in DOMAIN inbox[p] : inbox[p][k].kind \in {"public", "private"}
    /\ \A h \in StreamThreads :
          handlers[h] # NoHandler /\ handlers[h].item # NoItem
            => handlers[h].item.kind \in {"public", "private"}

\* The ranks of what was shown, in the order it was.
Ats(shown) == [k \in DOMAIN shown |-> shown[k].at]

\* A queue holds messages in the order they were queued, of size ever queued.
Sorted(queue, size) ==
    \A k \in DOMAIN queue :
       /\ queue[k].id \in 1..size
       /\ \A j \in DOMAIN queue : j < k => queue[j].id < queue[k].id

\* The rank up to which messages were taken from the queue, or will never be.
Taken(queue, size) == IF queue = <<>> THEN size ELSE Head(queue).id - 1

\* The position up to which public messages were taken for p, or will never be.
PublicLimit(p) ==
    IF messageIndices[p] = NoIndex THEN Len(messageHistory) ELSE messageIndices[p]

PrivateLimit(p) == Taken(peerMessageQueues[p], Len(privateSent))

QueueInv == \A p \in Peers : Sorted(peerMessageQueues[p], Len(privateSent))

\* Each message on its way to p comes after those of its kind p was shown, and
\* no cursor is beyond the history.
OrderInv ==
    \A p \in Peers :
       /\ messageIndices[p] <= Len(messageHistory)
       /\ InLine(shownPublic[p], inbox[p], Hand(p), "public", PublicLimit(p))
       /\ InLine(Ats(shownPrivate[p]), inbox[p], Hand(p), "private", PrivateLimit(p))

MessageInv ==
    ServerInv /\ StreamInv /\ MessageTypes /\ NameInv /\ OnlyMessages /\ QueueInv /\ OrderInv

-----------------------------------------------------------------------------
(* Queues.                                                                 *)

LEMMA SortedTaken ==
    ASSUME NEW queue \in Seq(PrivateMessage), NEW size \in Nat, Sorted(queue, size)
    PROVE  Taken(queue, size) \in Nat /\ Taken(queue, size) <= size
  <1>1. CASE queue = <<>>
    BY <1>1 DEF Taken
  <1>2. CASE queue # <<>>
    <2>1. 1 \in DOMAIN queue /\ Head(queue) = queue[1]
      BY <1>2
    <2>2. queue[1].id \in 1..size
      BY <2>1 DEF Sorted
    <2>3. QED
      BY <1>2, <2>1, <2>2 DEF Taken
  <1>3. QED
    BY <1>1, <1>2

\* The queue is erased, or nothing is in it that was.
LEMMA SortedErased ==
    ASSUME NEW size \in Nat
    PROVE  Sorted(<<>>, size) /\ Taken(<<>>, size) = size
  BY DEF Sorted, Taken

\* A message is queued elsewhere.
LEMMA SortedWider ==
    ASSUME NEW queue \in Seq(PrivateMessage), NEW size \in Nat, Sorted(queue, size)
    PROVE  Sorted(queue, size + 1) /\ Taken(queue, size) <= Taken(queue, size + 1)
  <1>1. Sorted(queue, size + 1)
    BY DEF Sorted
  <1>2. Taken(queue, size) \in Nat
    BY SortedTaken
  <1>3. QED
    BY <1>1, <1>2 DEF Taken

\* A message is queued here.
LEMMA SortedAppend ==
    ASSUME NEW queue \in Seq(PrivateMessage), NEW size \in Nat, Sorted(queue, size),
           NEW payload \in PrivateMessage, payload.id = size + 1
    PROVE  /\ Sorted(Append(queue, payload), size + 1)
           /\ Taken(queue, size) <= Taken(Append(queue, payload), size + 1)
  <1> DEFINE n == Len(queue)
             more == Append(queue, payload)
  <1>1. /\ n \in Nat /\ DOMAIN queue = 1..n /\ DOMAIN more = 1..(n + 1)
        /\ more[n + 1] = payload /\ \A k \in 1..n : more[k] = queue[k]
        /\ more # <<>> /\ Head(more) = more[1]
        /\ queue = <<>> <=> n = 0
        /\ queue # <<>> => Head(queue) = queue[1]
    <2>1. /\ n \in Nat /\ DOMAIN queue = 1..n /\ DOMAIN more = 1..(n + 1)
          /\ more[n + 1] = payload /\ \A k \in 1..n : more[k] = queue[k]
      OBVIOUS
    <2>2. more \in Seq(PrivateMessage) /\ more # <<>>
      OBVIOUS
    <2>3. Head(more) = more[1]
      BY <2>2
    <2>4. (queue = <<>> <=> n = 0) /\ (queue # <<>> => Head(queue) = queue[1])
      OBVIOUS
    <2>5. QED
      BY <2>1, <2>2, <2>3, <2>4
  <1> HIDE DEF n, more
  <1>2. Sorted(more, size + 1)
    BY <1>1 DEF Sorted
  <1>3. Taken(queue, size) <= Taken(more, size + 1)
    <2>1. CASE n = 0
      BY <1>1, <2>1 DEF Taken
    <2>2. CASE n # 0
      <3>1. Head(more) = Head(queue) /\ Taken(queue, size) \in Nat
        BY <1>1, <2>2, SortedTaken
      <3>2. QED
        BY <1>1, <2>2, <3>1 DEF Taken
    <2>3. QED
      BY <2>1, <2>2
  <1>4. QED
    BY <1>2, <1>3 DEF more

\* The first message of the queue is taken.
LEMMA SortedTail ==
    ASSUME NEW queue \in Seq(PrivateMessage), NEW size \in Nat, Sorted(queue, size),
           queue # <<>>
    PROVE  /\ Sorted(Tail(queue), size) /\ Head(queue).id \in Nat
           /\ Taken(queue, size) < Head(queue).id
           /\ Head(queue).id <= Taken(Tail(queue), size)
  <1> DEFINE n == Len(queue)
             rest == Tail(queue)
  <1>1. /\ n \in Nat /\ n > 0 /\ DOMAIN queue = 1..n /\ DOMAIN rest = 1..(n - 1)
        /\ \A k \in 1..(n - 1) : rest[k] = queue[k + 1] /\ k + 1 \in 1..n
        /\ Head(queue) = queue[1] /\ 1 \in 1..n
        /\ rest = <<>> <=> n = 1
        /\ rest # <<>> => Head(rest) = queue[2] /\ 2 \in 1..n
    <2>1. /\ n \in Nat /\ n > 0 /\ DOMAIN queue = 1..n /\ DOMAIN rest = 1..(n - 1)
          /\ \A k \in 1..(n - 1) : rest[k] = queue[k + 1] /\ k + 1 \in 1..n
          /\ Head(queue) = queue[1] /\ 1 \in 1..n
      OBVIOUS
    <2>2. rest \in Seq(PrivateMessage) /\ Len(rest) = n - 1
      OBVIOUS
    <2>3. rest = <<>> <=> n = 1
      BY <2>1, <2>2
    <2>4. rest # <<>> => Head(rest) = rest[1] /\ 1 \in 1..(n - 1)
      BY <2>1, <2>2
    <2>5. QED
      BY <2>1, <2>3, <2>4
  <1>2. \A j, k \in 1..(n - 1) : j < k => j + 1 < k + 1
    BY <1>1
  <1> HIDE DEF n, rest
  <1>3. Sorted(rest, size)
    BY <1>1, <1>2 DEF Sorted
  <1>4. queue[1].id \in 1..size /\ (rest # <<>> => queue[2].id \in 1..size /\ queue[1].id < queue[2].id)
    BY <1>1 DEF Sorted
  <1>5. Taken(queue, size) < queue[1].id
    BY <1>1, <1>4 DEF Taken
  <1>6. queue[1].id <= Taken(rest, size)
    BY <1>1, <1>4 DEF Taken
  <1>7. QED
    BY <1>1, <1>3, <1>4, <1>5, <1>6 DEF rest

-----------------------------------------------------------------------------
(* What ChatSystem's steps do to the queues.                               *)

\* A message is queued for p, the last of those ever queued.
QueuedNow(p, payload) ==
    /\ payload.id = Len(privateSent) + 1
    /\ privateSent' = Append(privateSent, payload)
    /\ peerMessageQueues' = [peerMessageQueues EXCEPT ![p] = Append(@, payload)]

\* The queues of whoever is not connected are erased.
QueuesCleared ==
    /\ UNCHANGED privateSent
    /\ peerMessageQueues' =
         [p \in Peers |-> IF isPeerConnected(p) THEN peerMessageQueues[p] ELSE <<>>]

PrivateMoves ==
    \/ UNCHANGED privateVars
    \/ \E p \in Peers, payload \in PrivateMessage : QueuedNow(p, payload)
    \/ QueuesCleared

LEMMA ObserverQueues ==
    ASSUME TypeInv, ObserverStep
    PROVE  IF Notifies("privateMessages", "ClientDisconnected")
             THEN QueuesCleared
             ELSE \/ UNCHANGED privateVars
                  \/ \E p \in Peers, payload \in PrivateMessage : QueuedNow(p, payload)
  <1> DEFINE e == dispatch.event
  <1>1. CASE PrivateQueues
    <2>1. CASE /\ Notifies("privateMessages", "ClientDisconnected")
               /\ PrivateOnClientDisconnected(e)
      BY <2>1 DEF PrivateOnClientDisconnected, QueuesCleared
    <2>2. CASE /\ Notifies("privateMessages", "PrivateMessageSent")
               /\ PrivateOnPrivateMessageSent(e)
      <3> DEFINE payload == [author |-> e.senderPseudonym, content |-> e.content,
                             to |-> e.recipientPseudonym, id |-> Len(privateSent) + 1]
      <3>1. e \in PrivateMessageSentEvent /\ ~Notifies("privateMessages", "ClientDisconnected")
        BY <2>2, NotifiedEvent DEF Notifies
      <3>2. Len(privateSent) + 1 \in Nat
        BY DEF TypeInv, TypeOK, PrivateTypeOK
      <3>3. payload \in PrivateMessage /\ e.recipientPeer \in Peers
        BY <3>1, <3>2 DEF PrivateMessageSentEvent, PrivateMessage
      <3>4. QueuedNow(e.recipientPeer, payload)
        BY <2>2 DEF PrivateOnPrivateMessageSent, QueuedNow
      <3> HIDE DEF payload
      <3>5. QED
        BY <3>1, <3>3, <3>4
    <2>3. QED
      BY <1>1, <2>1, <2>2 DEF PrivateQueues
  <1>2. CASE RegistryConnected \/ RegistryDisconnected \/ DatabaseLogs \/ EventsLog \/ MessagesStore
    <2>1. UNCHANGED privateVars
      BY <1>2 DEF RegistryConnected, RegistryDisconnected, DatabaseLogs, EventsLog, MessagesStore
    <2>2. PICK o, kind : Notifies(o, kind) /\ o # "privateMessages"
      BY <1>2 DEF RegistryConnected, RegistryDisconnected, DatabaseLogs, EventsLog, MessagesStore
    <2>3. ~Notifies("privateMessages", "ClientDisconnected")
      BY <2>2 DEF Notifies
    <2>4. QED
      BY <2>1, <2>3
  <1>3. QED
    BY <1>1, <1>2 DEF ObserverStep

\* Nobody but an observer touches a queue.
LEMMA OthersQueues ==
    ASSUME [Next]_vars
    PROVE  ObserverStep \/ UNCHANGED privateVars
  <1>1. CASE UNCHANGED <<serverVars, clientVars>>
    BY <1>1 DEF serverVars, privateVars
  <1>2. ASSUME NEW t \in Threads, HandlerStep(t)
        PROVE  UNCHANGED privateVars
    BY <1>2 DEF HandlerStep, ConnectCheck, ConnectRoster, ConnectNotify, DisconnectDuration,
          DisconnectNotify, SendLookup, SendValidate, SendRecipient, SendNotify, Notify, LocalStep
  <1>3. ASSUME NEW t \in Threads, DropAnswer(t)
        PROVE  UNCHANGED privateVars
    BY <1>3 DEF DropAnswer, LocalStep
  <1>4. ASSUME NEW p \in Peers, UserStep(p) \/ ReplyStep(p)
        PROVE  UNCHANGED privateVars
    <2>1. LocalStep
      BY <1>4 DEF UserStep, ReplyStep, Login, ConnectTimesOut, Disconnect, CloseWindow, PrepareClose,
            CloseUnused, SendMessage, Crash, LoginSucceeded, LoginRejected, Disconnected, MessageSent
    <2>2. QED
      BY <2>1 DEF LocalStep
  <1>5. QED
    BY <1>1, <1>2, <1>3, <1>4 DEF Next, vars

LEMMA NextMovesQueues ==
    ASSUME TypeInv, [Next]_vars
    PROVE  PrivateMoves
  BY OthersQueues, ObserverQueues DEF PrivateMoves

-----------------------------------------------------------------------------
(* Limits.                                                                 *)

LEMMA LimitTypes ==
    ASSUME MessageInv
    PROVE  /\ messageHistory \in Seq(Message) /\ Len(messageHistory) \in Nat
           /\ privateSent \in Seq(PrivateMessage) /\ Len(privateSent) \in Nat
           /\ messageIndices \in [Peers -> Nat \cup {NoIndex}]
           /\ peerMessageQueues \in [Peers -> Seq(PrivateMessage)]
           /\ \A p \in Peers : PublicLimit(p) \in Nat /\ PublicLimit(p) <= Len(messageHistory)
           /\ \A p \in Peers : PrivateLimit(p) \in Nat /\ PrivateLimit(p) <= Len(privateSent)
  <1>1. /\ messageHistory \in Seq(Message)
        /\ messageIndices \in [Peers -> Nat \cup {NoIndex}]
        /\ privateSent \in Seq(PrivateMessage)
        /\ peerMessageQueues \in [Peers -> Seq(PrivateMessage)]
    BY DEF MessageInv, ServerInv, TypeInv, TypeOK, MessagesTypeOK, PrivateTypeOK
  <1>2. Len(messageHistory) \in Nat /\ Len(privateSent) \in Nat
    BY <1>1
  <1>3. \A p \in Peers : PublicLimit(p) \in Nat /\ PublicLimit(p) <= Len(messageHistory)
    <2>1. \A p \in Peers : messageIndices[p] <= Len(messageHistory)
      BY DEF MessageInv, OrderInv
    <2>2. QED
      BY <1>1, <1>2, <2>1 DEF PublicLimit
  <1>4. \A p \in Peers : PrivateLimit(p) \in Nat /\ PrivateLimit(p) <= Len(privateSent)
    <2>1. \A p \in Peers : Sorted(peerMessageQueues[p], Len(privateSent))
                             /\ peerMessageQueues[p] \in Seq(PrivateMessage)
      BY <1>1 DEF MessageInv, QueueInv
    <2>2. QED
      BY <1>2, <2>1, SortedTaken DEF PrivateLimit
  <1>5. QED
    BY <1>1, <1>2, <1>3, <1>4

\* A step of ChatSystem only moves limits up.
LEMMA LimitsGrow ==
    ASSUME MessageInv, [Next]_vars
    PROVE  /\ ServerInv' /\ LogsGrow /\ QueueInv'
           /\ \A q \in Peers : /\ messageIndices'[q] = messageIndices[q]
                               /\ messageIndices'[q] <= Len(messageHistory)'
                               /\ PublicLimit(q)' \in Nat /\ PublicLimit(q) <= PublicLimit(q)'
                               /\ PrivateLimit(q)' \in Nat /\ PrivateLimit(q) <= PrivateLimit(q)'
  <1>1. ServerInv' /\ LogsGrow
    BY ServerKept, NextGrows DEF MessageInv, ServerInv
  <1>2. /\ messageHistory \in Seq(Message) /\ Len(messageHistory) \in Nat
        /\ \A q \in Peers : /\ messageIndices[q] \in Nat \cup {NoIndex}
                            /\ messageIndices[q] <= Len(messageHistory)
    BY LimitTypes DEF MessageInv, OrderInv
  <1>3. /\ UNCHANGED messageIndices
        /\ Len(messageHistory') \in Nat /\ Len(messageHistory) <= Len(messageHistory')
    BY <1>1, <1>2 DEF LogsGrow
  <1>4. \A q \in Peers : messageIndices[q] <= Len(messageHistory')
    <2>1. \A i \in Nat \cup {NoIndex} : i <= Len(messageHistory) => i <= Len(messageHistory')
      BY <1>2, <1>3 DEF NoIndex
    <2>2. QED
      BY <1>2, <2>1
  <1>5. \A q \in Peers : PublicLimit(q)' \in Nat /\ PublicLimit(q) <= PublicLimit(q)'
    BY <1>2, <1>3, <1>4 DEF PublicLimit, NoIndex
  <1>6. /\ peerMessageQueues \in [Peers -> Seq(PrivateMessage)] /\ Len(privateSent) \in Nat
        /\ privateSent \in Seq(PrivateMessage)
        /\ \A q \in Peers : /\ peerMessageQueues[q] \in Seq(PrivateMessage)
                            /\ Sorted(peerMessageQueues[q], Len(privateSent))
                            /\ PrivateLimit(q) \in Nat /\ PrivateLimit(q) <= Len(privateSent)
    BY LimitTypes DEF MessageInv, QueueInv
  <1>7. \A q \in Peers : /\ Sorted(peerMessageQueues'[q], Len(privateSent'))
                         /\ PrivateLimit(q) <= Taken(peerMessageQueues'[q], Len(privateSent'))
    <2>1. CASE UNCHANGED privateVars
      BY <1>6, <2>1 DEF privateVars, PrivateLimit
    <2>2. ASSUME NEW p \in Peers, NEW payload \in PrivateMessage, QueuedNow(p, payload), NEW q \in Peers
          PROVE  /\ Sorted(peerMessageQueues'[q], Len(privateSent'))
                 /\ PrivateLimit(q) <= Taken(peerMessageQueues'[q], Len(privateSent'))
      <3>1. PICK n \in Nat : n = Len(privateSent)
        BY <1>6
      <3>2. Len(privateSent') = n + 1 /\ payload.id = n + 1
        BY <1>6, <2>2, <3>1 DEF QueuedNow
      <3>3. CASE q = p
        <4>1. peerMessageQueues'[q] = Append(peerMessageQueues[q], payload)
          BY <1>6, <2>2, <3>3 DEF QueuedNow
        <4>2. QED
          BY <1>6, <3>1, <3>2, <4>1, SortedAppend DEF PrivateLimit
      <3>4. CASE q # p
        <4>1. peerMessageQueues'[q] = peerMessageQueues[q]
          BY <1>6, <2>2, <3>4 DEF QueuedNow
        <4>2. QED
          BY <1>6, <3>1, <3>2, <4>1, SortedWider DEF PrivateLimit
      <3>5. QED
        BY <3>3, <3>4
    <2>3. CASE QueuesCleared
      <3>1. \A q \in Peers : peerMessageQueues'[q] \in {peerMessageQueues[q], <<>>}
        BY <2>3 DEF QueuesCleared
      <3>2. UNCHANGED privateSent
        BY <2>3 DEF QueuesCleared
      <3>3. QED
        BY <1>6, <3>1, <3>2, SortedErased DEF PrivateLimit
    <2>4. QED
      BY <2>1, <2>2, <2>3, NextMovesQueues DEF PrivateMoves, MessageInv, ServerInv
  <1>8. /\ peerMessageQueues' \in [Peers -> Seq(PrivateMessage)] /\ privateSent' \in Seq(PrivateMessage)
    BY <1>1 DEF ServerInv, TypeInv, TypeOK, PrivateTypeOK
  <1>9. \A q \in Peers : PrivateLimit(q)' \in Nat /\ PrivateLimit(q) <= PrivateLimit(q)'
    <2>1. Len(privateSent') \in Nat /\ \A q \in Peers : peerMessageQueues'[q] \in Seq(PrivateMessage)
      BY <1>8
    <2>2. \A q \in Peers : Taken(peerMessageQueues'[q], Len(privateSent')) \in Nat
      BY <1>7, <2>1, SortedTaken
    <2>3. QED
      BY <1>7, <2>2 DEF PrivateLimit
  <1>10. QueueInv'
    BY <1>7 DEF QueueInv
  <1>11. QED
    BY <1>1, <1>3, <1>4, <1>5, <1>9, <1>10

-----------------------------------------------------------------------------
(* The handler's steps.                                                    *)

\* The cursor of p moves to index, and no other.
CursorAt(p, index) ==
    /\ messageIndices' \in [Peers -> Nat \cup {NoIndex}]
    /\ messageIndices'[p] = index
    /\ \A q \in Peers : q # p => messageIndices'[q] = messageIndices[q]

LEMMA SetCursor ==
    ASSUME MessageInv, NEW p \in Peers, NEW index \in Nat \cup {NoIndex},
           SetMessageIndex(p, index)
    PROVE  CursorAt(p, index)
  BY LimitTypes DEF SetMessageIndex, CursorAt

LEMMA CursorStays ==
    ASSUME MessageInv, NEW p \in Peers, UNCHANGED messageIndices
    PROVE  CursorAt(p, messageIndices[p])
  BY LimitTypes DEF CursorAt

\* The cases of nextMessage: the index is dropped, the call waits with the
\* cursor at the end, or it takes the message after the limit.
LEMMA NextIndex ==
    ASSUME MessageInv, NEW p \in Peers
    PROVE  /\ DropMessageIndex(p) => ~isPeerConnected(p) /\ CursorAt(p, NoIndex)
           /\ StartMessageWaits(p) \/ ResumeMessageEmpty(p) =>
                isPeerConnected(p) /\ PublicLimit(p) = Len(messageHistory) /\ CursorAt(p, PublicLimit(p))
           /\ StartMessageTaken(p) \/ ResumeMessageTaken(p) =>
                isPeerConnected(p) /\ PublicLimit(p) < Len(messageHistory) /\ CursorAt(p, PublicLimit(p) + 1)
           /\ ResumeMessageEntryGone(p) => isPeerConnected(p) /\ CursorAt(p, NoIndex)
  <1> DEFINE size == Len(messageHistory)
             at == messageIndices[p]
  <1>1. /\ size \in Nat /\ at \in Nat \cup {NoIndex} /\ at <= size
        /\ PublicLimit(p) \in Nat /\ PublicLimit(p) <= size
        /\ PublicLimit(p) = IF at = NoIndex THEN size ELSE at
    BY LimitTypes DEF MessageInv, OrderInv, PublicLimit
  <1>2. Located(at, size) = PublicLimit(p)
    BY <1>1 DEF Located
  <1>3. ASSUME DropMessageIndex(p)
        PROVE  ~isPeerConnected(p) /\ CursorAt(p, NoIndex)
    BY <1>3, SetCursor DEF DropMessageIndex
  <1>4. ASSUME StartMessageWaits(p)
        PROVE  isPeerConnected(p) /\ PublicLimit(p) = size /\ CursorAt(p, PublicLimit(p))
    <2>1. isPeerConnected(p) /\ PublicLimit(p) >= size /\ SetMessageIndex(p, PublicLimit(p))
      BY <1>2, <1>4 DEF StartMessageWaits
    <2>2. QED
      BY <1>1, <2>1, SetCursor
  <1>5. ASSUME ResumeMessageEmpty(p)
        PROVE  isPeerConnected(p) /\ PublicLimit(p) = size /\ CursorAt(p, PublicLimit(p))
    <2>1. isPeerConnected(p) /\ at >= size /\ UNCHANGED messageIndices
      BY <1>5 DEF ResumeMessageEmpty
    <2>2. at = size /\ PublicLimit(p) = size
      BY <1>1, <2>1 DEF NoIndex
    <2>3. QED
      BY <2>1, <2>2, CursorStays
  <1>6. ASSUME StartMessageTaken(p) \/ ResumeMessageTaken(p)
        PROVE  isPeerConnected(p) /\ PublicLimit(p) < size /\ CursorAt(p, PublicLimit(p) + 1)
    <2>1. isPeerConnected(p) /\ TakeMessage(p, PublicLimit(p))
      BY <1>1, <1>2, <1>6 DEF StartMessageTaken, ResumeMessageTaken
    <2>2. PublicLimit(p) < size /\ SetMessageIndex(p, PublicLimit(p) + 1) /\ PublicLimit(p) + 1 \in Nat
      BY <1>1, <2>1 DEF TakeMessage
    <2>3. QED
      BY <2>1, <2>2, SetCursor
  <1>7. ASSUME ResumeMessageEntryGone(p)
        PROVE  isPeerConnected(p) /\ CursorAt(p, NoIndex)
    BY <1>7, CursorStays DEF ResumeMessageEntryGone
  <1>8. QED
    BY <1>3, <1>4, <1>5, <1>6, <1>7

\* A handler of the stream leaves the rest of the server alone.
LEMMA HandlerFrame ==
    ASSUME MessageInv, NEW p \in Peers, NEW index, CursorAt(p, index), StreamStep,
           peerMessageQueues' \in [Peers -> Seq(PrivateMessage)]
    PROVE  /\ ServerInv'
           /\ UNCHANGED <<messageHistory, privateSent, clients, clientVars, shownPublic, shownPrivate>>
  <1>1. UNCHANGED <<now, clients, clientEvents, messageHistory, privateSent, lastMessageTime,
                    statisticsVars, dispatch, calls, admittedAt, clientVars, eventIndices,
                    shownPublic, shownPrivate>>
    BY DEF StreamStep, clientEventVars
  <1>2. eventIndices \in [Peers -> Nat \cup {NoIndex}] /\ ServerInv
    BY DEF MessageInv, ServerInv, TypeInv, TypeOK, ClientEventsTypeOK
  <1>3. messageIndices' \in [Peers -> Nat \cup {NoIndex}]
    BY DEF CursorAt
  <1>4. ServerInv'
    BY <1>1, <1>2, <1>3, ServerFrame
  <1>5. QED
    BY <1>1, <1>4

QueueKept == UNCHANGED <<peerMessageQueues, lost>>

QueueErased(p) ==
    ~isPeerConnected(p) /\ EraseQueue(p) /\ lost' = lost \cup QueuedFor(p)

\* The handler in h ends, and may drop its peer's index or queue before.
HandlerEnds(h, p) ==
    /\ handlers[h].pc # "write"
    /\ StreamEnds(h)
    /\ \/ CursorAt(p, messageIndices[p])
       \/ CursorAt(p, NoIndex) /\ (~isPeerConnected(p) \/ messageIndices[p] = NoIndex)
    /\ QueueKept \/ QueueErased(p)
    /\ UNCHANGED <<base, stolen>>

\* The handler in h goes on and takes nothing.
HandlerGoes(h, p) ==
    /\ UNCHANGED stolen
    /\ \/ /\ handlers[h].pc = "start" /\ StreamGoto(h, "queue")
          /\ isPeerConnected(p) /\ CursorAt(p, PublicLimit(p)) /\ QueueKept
          /\ base' = IF Stale(h) THEN base ELSE [base EXCEPT ![p] = PublicLimit(p)]
       \/ /\ handlers[h].pc = "queue" /\ StreamGoto(h, "loop")
          /\ CursorAt(p, messageIndices[p]) /\ UNCHANGED base
          /\ QueueKept \/ QueueErased(p)
       \/ /\ handlers[h].pc \in {"loop", "privateWait"}
          /\ StreamGoto(h, "privateWait") \/ StreamGoto(h, "public")
          /\ CursorAt(p, messageIndices[p]) /\ UNCHANGED base /\ QueueKept
       \/ /\ handlers[h].pc \in {"public", "wait"}
          /\ StreamGoto(h, "loop") \/ StreamGoto(h, "wait")
          /\ isPeerConnected(p) /\ PublicLimit(p) = Len(messageHistory)
          /\ CursorAt(p, PublicLimit(p)) /\ UNCHANGED base /\ QueueKept

\* The handler in h takes the public message after the limit.
TakesPublic(h, p) ==
    /\ handlers[h].pc \in {"public", "wait"}
    /\ StreamTakes(h, [kind |-> "public", at |-> PublicLimit(p) + 1])
    /\ isPeerConnected(p) /\ PublicLimit(p) < Len(messageHistory)
    /\ CursorAt(p, PublicLimit(p) + 1)
    /\ QueueKept /\ UNCHANGED <<base, stolen>>

\* The handler in h takes the first private message of the queue.
TakesPrivate(h, p) ==
    /\ handlers[h].pc \in {"loop", "privateWait"}
    /\ StreamTakes(h, [kind |-> "private", at |-> Head(peerMessageQueues[p]).id])
    /\ isPeerConnected(p) /\ TakePrivate(p)
    /\ CursorAt(p, messageIndices[p])
    /\ UNCHANGED <<base, stolen, lost>>

\* The handler in h writes what it has in hand, to its client or to nobody.
HandlerWrites(h, p) ==
    /\ CursorAt(p, messageIndices[p])
    /\ UNCHANGED <<base, peerMessageQueues>>
    /\ \/ StreamWrites(h) /\ UNCHANGED <<stolen, lost>>
       \/ /\ StreamWriteLost(h)
          /\ stolen' = IF /\ handlers[h].item.kind = "public"
                          /\ Subscribed(p) /\ handlers[h].item.at > base[p]
                         THEN [stolen EXCEPT ![p] = @ \cup {handlers[h].item.at}] ELSE stolen
          /\ lost' = IF handlers[h].item.kind = "private" THEN lost \cup {handlers[h].item.at}
                                                          ELSE lost

LEMMA HandlerCases ==
    ASSUME MessageInv, NEW h \in StreamThreads, MessagesHandler(h),
           NEW p, p = handlers[h].peer
    PROVE  /\ handlers[h] # NoHandler /\ p \in Peers
           /\ StreamStep
           /\ \/ HandlerEnds(h, p) \/ HandlerGoes(h, p)
              \/ TakesPublic(h, p) \/ TakesPrivate(h, p) \/ HandlerWrites(h, p)
  <1>1. StreamStep
    BY DEF MessagesHandler, MessagesStart, MessagesQueue, MessagesPrivate, MessagesNext,
           MessagesWake, MessagesWrite, MessagesCancelled
  <1>2. handlers[h] # NoHandler
    BY DEF MessagesHandler, MessagesStart, MessagesQueue, MessagesPrivate, MessagesNext,
           MessagesWake, MessagesWrite, MessagesCancelled, StreamCancelled, StreamWrites,
           StreamWriteLost, Serving
  <1>3. p \in Peers /\ StreamInv
    BY <1>2, HandlerTypes DEF MessageInv
  <1>4. CursorAt(p, messageIndices[p]) \/ ~(UNCHANGED messageIndices)
    BY <1>3, CursorStays
  <1>5. CASE MessagesStart(h)
    <2> DEFINE at == IF isPeerConnected(p) THEN PublicLimit(p) ELSE NoIndex
    <2>1. /\ PublicLimit(p) \in Nat /\ messageIndices[p] \in Nat \cup {NoIndex}
          /\ messageIndices[p] <= Len(messageHistory) /\ Len(messageHistory) \in Nat
      BY <1>3, LimitTypes DEF MessageInv, OrderInv
    <2>2. Normalized(messageIndices[p], Len(messageHistory)) = PublicLimit(p)
      BY <2>1 DEF Normalized, PublicLimit
    <2>3. /\ normalizeMessageIndex(p) /\ handlers[h].pc = "start" /\ QueueKept /\ UNCHANGED stolen
          /\ IF isPeerConnected(p) THEN StreamGoto(h, "queue") ELSE StreamEnds(h)
          /\ base' = IF isPeerConnected(p) /\ ~Stale(h)
                       THEN [base EXCEPT ![p] = messageIndices'[p]] ELSE base
      BY <1>5 DEF MessagesStart, Serving, QueueKept
    <2>4. SetMessageIndex(p, at) /\ at \in Nat \cup {NoIndex}
      BY <2>1, <2>2, <2>3 DEF normalizeMessageIndex
    <2> HIDE DEF at
    <2>5. CursorAt(p, at)
      BY <1>3, <2>4, SetCursor
    <2>6. messageIndices'[p] = at
      BY <2>5 DEF CursorAt
    <2>7. CASE isPeerConnected(p)
      <3>1. at = PublicLimit(p)
        BY <2>7 DEF at
      <3>2. base' = IF Stale(h) THEN base ELSE [base EXCEPT ![p] = PublicLimit(p)]
        BY <2>3, <2>6, <2>7, <3>1
      <3>3. HandlerGoes(h, p)
        BY <2>3, <2>5, <2>7, <3>1, <3>2 DEF HandlerGoes
      <3>4. QED
        BY <1>1, <1>2, <1>3, <3>3
    <2>8. CASE ~isPeerConnected(p)
      <3>1. HandlerEnds(h, p)
        BY <2>3, <2>5, <2>8 DEF HandlerEnds, at
      <3>2. QED
        BY <1>1, <1>2, <1>3, <3>1
    <2>9. QED
      BY <2>7, <2>8
  <1>6. CASE MessagesQueue(h)
    <2>1. /\ handlers[h].pc = "queue" /\ StreamGoto(h, "loop")
          /\ UNCHANGED <<messageIndices, base, stolen>>
          /\ QueueKept \/ QueueErased(p)
      BY <1>6 DEF MessagesQueue, Serving, normalizePrivateMessageIndex, QueueKept, QueueErased
    <2>2. HandlerGoes(h, p)
      BY <1>4, <2>1 DEF HandlerGoes
    <2>3. QED
      BY <1>1, <1>2, <1>3, <2>2
  <1>7. CASE MessagesPrivate(h)
    <2>1. /\ handlers[h].pc \in {"loop", "privateWait"}
          /\ UNCHANGED <<messageIndices, base, stolen>>
          /\ \/ DropQueue(p) /\ StreamEnds(h) /\ lost' = lost \cup QueuedFor(p)
             \/ /\ TakePrivate(p)
                /\ StreamTakes(h, [kind |-> "private", at |-> Head(peerMessageQueues[p]).id])
                /\ UNCHANGED lost
             \/ /\ NoPrivate(p) /\ UNCHANGED lost
                /\ StreamGoto(h, "privateWait") \/ StreamGoto(h, "public")
      BY <1>7 DEF MessagesPrivate, Serving
    <2>2. HandlerEnds(h, p) \/ HandlerGoes(h, p) \/ TakesPrivate(h, p)
      BY <1>4, <2>1 DEF HandlerEnds, HandlerGoes, TakesPrivate, DropQueue, TakePrivate, NoPrivate,
                        QueueKept, QueueErased, privateVars
    <2>3. QED
      BY <1>1, <1>2, <1>3, <2>2
  <1>8. ASSUME handlers[h].pc \in {"public", "wait"},
               UNCHANGED <<peerMessageQueues, base, stolen, lost>>,
               \/ DropMessageIndex(p) /\ StreamEnds(h)
               \/ ResumeMessageEntryGone(p) /\ StreamEnds(h)
               \/ (StartMessageTaken(p) \/ ResumeMessageTaken(p)) /\ PublicTaken(h)
               \/ StartMessageWaits(p) /\ StreamGoto(h, "wait")
               \/ ResumeMessageEmpty(p) /\ StreamGoto(h, "loop")
        PROVE  HandlerEnds(h, p) \/ HandlerGoes(h, p) \/ TakesPublic(h, p)
    <2>0. QueueKept
      BY <1>8 DEF QueueKept
    <2>1. CASE StreamEnds(h) /\ (DropMessageIndex(p) \/ ResumeMessageEntryGone(p))
      <3>1. /\ CursorAt(p, NoIndex)
            /\ ~isPeerConnected(p) \/ messageIndices[p] = NoIndex
        BY <1>3, <2>1, NextIndex DEF ResumeMessageEntryGone
      <3>2. QED
        BY <1>8, <2>0, <2>1, <3>1 DEF HandlerEnds
    <2>2. CASE /\ StartMessageWaits(p) \/ ResumeMessageEmpty(p)
               /\ StreamGoto(h, "wait") \/ StreamGoto(h, "loop")
      <3>1. isPeerConnected(p) /\ PublicLimit(p) = Len(messageHistory) /\ CursorAt(p, PublicLimit(p))
        BY <1>3, <2>2, NextIndex
      <3>2. QED
        BY <1>8, <2>0, <2>2, <3>1 DEF HandlerGoes
    <2>3. CASE PublicTaken(h) /\ (StartMessageTaken(p) \/ ResumeMessageTaken(p))
      <3>1. /\ isPeerConnected(p) /\ PublicLimit(p) < Len(messageHistory)
            /\ CursorAt(p, PublicLimit(p) + 1)
        BY <1>3, <2>3, NextIndex
      <3>2. messageIndices'[p] = PublicLimit(p) + 1
        BY <3>1 DEF CursorAt
      <3>3. StreamTakes(h, [kind |-> "public", at |-> PublicLimit(p) + 1])
        BY <2>3, <3>2 DEF PublicTaken
      <3>4. QED
        BY <1>8, <2>0, <3>1, <3>3 DEF TakesPublic
    <2>4. QED
      BY <1>8, <2>1, <2>2, <2>3
  <1>9. CASE MessagesNext(h)
    <2>1. /\ handlers[h].pc = "public" /\ UNCHANGED <<peerMessageQueues, base, stolen, lost>>
          /\ \/ DropMessageIndex(p) /\ StreamEnds(h)
             \/ StartMessageTaken(p) /\ PublicTaken(h)
             \/ StartMessageWaits(p) /\ StreamGoto(h, "wait")
      BY <1>9 DEF MessagesNext, Serving
    <2>2. QED
      BY <1>1, <1>2, <1>3, <1>8, <2>1
  <1>10. CASE MessagesWake(h)
    <2>1. /\ handlers[h].pc = "wait" /\ UNCHANGED <<peerMessageQueues, base, stolen, lost>>
          /\ \/ DropMessageIndex(p) /\ StreamEnds(h)
             \/ ResumeMessageEntryGone(p) /\ StreamEnds(h)
             \/ ResumeMessageTaken(p) /\ PublicTaken(h)
             \/ ResumeMessageEmpty(p) /\ StreamGoto(h, "loop")
      BY <1>10 DEF MessagesWake, Serving
    <2>2. QED
      BY <1>1, <1>2, <1>3, <1>8, <2>1
  <1>11. CASE MessagesWrite(h)
    BY <1>1, <1>2, <1>3, <1>4, <1>11 DEF MessagesWrite, HandlerWrites
  <1>12. CASE MessagesCancelled(h)
    <2>1. /\ UNCHANGED <<messageIndices, base, stolen>> /\ QueueKept
          /\ handlers[h].pc = "loop" /\ StreamEnds(h)
      BY <1>12 DEF MessagesCancelled, StreamCancelled, Serving, QueueKept
    <2>2. HandlerEnds(h, p)
      BY <1>4, <2>1 DEF HandlerEnds
    <2>3. QED
      BY <1>1, <1>2, <1>3, <2>2
  <1>13. QED
    BY <1>5, <1>6, <1>7, <1>9, <1>10, <1>11, <1>12 DEF MessagesHandler

-----------------------------------------------------------------------------
(* Messages are shown in the order they were stored.                       *)

\* What a handler for p does to the queues.
LEMMA QueueSteps ==
    ASSUME MessageInv, NEW p \in Peers, UNCHANGED privateSent,
           UNCHANGED peerMessageQueues \/ EraseQueue(p) \/ TakePrivate(p)
    PROVE  /\ peerMessageQueues' \in [Peers -> Seq(PrivateMessage)]
           /\ \A q \in Peers : q # p => peerMessageQueues'[q] = peerMessageQueues[q]
           /\ QueueInv'
           /\ \A q \in Peers : PrivateLimit(q)' \in Nat /\ PrivateLimit(q) <= PrivateLimit(q)'
           /\ TakePrivate(p) => LET id == Head(peerMessageQueues[p]).id IN
                                id \in Nat /\ PrivateLimit(p) < id /\ id <= PrivateLimit(p)'
  <1> PICK n, queue : n = Len(privateSent) /\ queue = peerMessageQueues[p]
    OBVIOUS
  <1>1. /\ n \in Nat /\ Len(privateSent') = n
        /\ peerMessageQueues \in [Peers -> Seq(PrivateMessage)]
        /\ \A q \in Peers : /\ peerMessageQueues[q] \in Seq(PrivateMessage)
                            /\ Sorted(peerMessageQueues[q], n)
                            /\ PrivateLimit(q) = Taken(peerMessageQueues[q], n)
                            /\ PrivateLimit(q)' = Taken(peerMessageQueues'[q], n)
    BY LimitTypes DEF MessageInv, QueueInv, PrivateLimit
  <1>2. ASSUME NEW q \in Peers
        PROVE  Taken(peerMessageQueues[q], n) \in Nat /\ Taken(peerMessageQueues[q], n) <= n
    BY <1>1, SortedTaken
  <1>3. ASSUME NEW new \in Seq(PrivateMessage), Sorted(new, n), Taken(queue, n) <= Taken(new, n),
               peerMessageQueues' = [peerMessageQueues EXCEPT ![p] = new]
        PROVE  /\ peerMessageQueues' \in [Peers -> Seq(PrivateMessage)]
               /\ \A q \in Peers : q # p => peerMessageQueues'[q] = peerMessageQueues[q]
               /\ QueueInv'
               /\ \A q \in Peers : PrivateLimit(q)' \in Nat /\ PrivateLimit(q) <= PrivateLimit(q)'
               /\ PrivateLimit(p)' = Taken(new, n)
    <2>1. /\ peerMessageQueues' \in [Peers -> Seq(PrivateMessage)]
          /\ peerMessageQueues'[p] = new
          /\ \A q \in Peers : q # p => peerMessageQueues'[q] = peerMessageQueues[q]
      BY <1>1, <1>3
    <2>2. QueueInv'
      BY <1>1, <1>3, <2>1 DEF QueueInv
    <2>3. Taken(new, n) \in Nat
      BY <1>1, <1>3, SortedTaken
    <2>4. \A q \in Peers : PrivateLimit(q)' \in Nat /\ PrivateLimit(q) <= PrivateLimit(q)'
      BY <1>1, <1>2, <1>3, <2>1, <2>3
    <2>5. QED
      BY <1>1, <2>1, <2>2, <2>4
  <1>4. CASE UNCHANGED peerMessageQueues /\ ~TakePrivate(p)
    <2>1. peerMessageQueues' = [peerMessageQueues EXCEPT ![p] = queue] /\ queue \in Seq(PrivateMessage)
      BY <1>1, <1>4
    <2>2. Sorted(queue, n) /\ Taken(queue, n) <= Taken(queue, n)
      BY <1>1, <1>2
    <2>3. QED
      BY <1>3, <1>4, <2>1, <2>2
  <1>5. CASE EraseQueue(p) /\ ~TakePrivate(p)
    <2>1. peerMessageQueues' = [peerMessageQueues EXCEPT ![p] = <<>>] /\ <<>> \in Seq(PrivateMessage)
      BY <1>5 DEF EraseQueue
    <2>2. Sorted(<<>>, n) /\ Taken(queue, n) <= Taken(<<>>, n)
      BY <1>1, <1>2, SortedErased
    <2>3. QED
      BY <1>3, <1>5, <2>1, <2>2
  <1>6. CASE TakePrivate(p)
    <2>1. /\ queue # <<>> /\ queue \in Seq(PrivateMessage) /\ Sorted(queue, n)
          /\ peerMessageQueues' = [peerMessageQueues EXCEPT ![p] = Tail(queue)]
      BY <1>1, <1>6 DEF TakePrivate
    <2>2. Tail(queue) \in Seq(PrivateMessage)
      BY <2>1
    <2>3. /\ Sorted(Tail(queue), n) /\ Head(queue).id \in Nat
          /\ Taken(queue, n) < Head(queue).id /\ Head(queue).id <= Taken(Tail(queue), n)
      BY <1>1, <2>1, SortedTail
    <2>4. Taken(queue, n) \in Nat /\ Taken(Tail(queue), n) \in Nat
      BY <1>1, <1>2, <2>2, <2>3, SortedTaken
    <2>5. Taken(queue, n) <= Taken(Tail(queue), n)
      BY <2>3, <2>4
    <2>6. QED
      BY <1>1, <1>3, <2>1, <2>2, <2>3, <2>5
  <1>7. QED
    BY <1>4, <1>5, <1>6

\* Where a step moves the limits to, when only p's cursor moves.
LEMMA LimitMoves ==
    ASSUME MessageInv, NEW p \in Peers, NEW index, CursorAt(p, index), UNCHANGED messageHistory,
           index = NoIndex \/ (index \in Nat /\ index <= Len(messageHistory))
    PROVE  /\ PublicLimit(p)' = IF index = NoIndex THEN Len(messageHistory) ELSE index
           /\ PublicLimit(p)' \in Nat
           /\ \A q \in Peers : q # p => PublicLimit(q)' = PublicLimit(q)
           /\ \A q \in Peers : messageIndices'[q] <= Len(messageHistory)'
  <1>1. /\ Len(messageHistory) \in Nat
        /\ \A q \in Peers : messageIndices[q] <= Len(messageHistory)
    BY LimitTypes DEF MessageInv, OrderInv
  <1>2. /\ messageIndices'[p] = index
        /\ \A q \in Peers : q # p => messageIndices'[q] = messageIndices[q]
    BY DEF CursorAt
  <1>3. NoIndex <= Len(messageHistory)
    BY <1>1 DEF NoIndex
  <1>4. \A q \in Peers : PublicLimit(q)' = IF messageIndices'[q] = NoIndex THEN Len(messageHistory)
                                                                          ELSE messageIndices'[q]
    BY DEF PublicLimit
  <1>5. \A q \in Peers : q # p => PublicLimit(q)' = PublicLimit(q)
    BY <1>2, <1>4 DEF PublicLimit
  <1>6. PublicLimit(p)' = IF index = NoIndex THEN Len(messageHistory) ELSE index
    BY <1>2, <1>4
  <1>7. \A q \in Peers : messageIndices'[q] <= Len(messageHistory)
    <2>1. index <= Len(messageHistory)
      BY <1>3
    <2>2. QED
      BY <1>1, <1>2, <2>1
  <1>8. QED
    BY <1>1, <1>5, <1>6, <1>7

LEMMA ShownTypes ==
    ASSUME MessageInv, NEW q \in Peers
    PROVE  /\ shownPublic[q] \in Seq(Nat) /\ Ats(shownPrivate[q]) \in Seq(Nat)
           /\ shownPrivate[q] \in Seq([at : Nat, as : Pseudonyms])
           /\ inbox[q] \in Seq(Item)
  <1>1. /\ shownPublic[q] \in Seq(Nat)
        /\ shownPrivate[q] \in Seq([at : Nat, as : Pseudonyms])
        /\ inbox[q] \in Seq(Item)
    BY DEF MessageInv, MessageTypes, StreamInv, StreamTypeOK
  <1>2. ASSUME NEW s \in Seq([at : Nat, as : Pseudonyms])
        PROVE  Ats(s) \in Seq(Nat)
    <2>1. Len(s) \in Nat /\ DOMAIN s = 1..Len(s)
      OBVIOUS
    <2>2. \A k \in 1..Len(s) : s[k].at \in Nat
      <3>1. ASSUME NEW S, NEW r \in Seq(S)
            PROVE  \A k \in 1..Len(r) : r[k] \in S
        OBVIOUS
      <3>2. \A k \in 1..Len(s) : s[k] \in [at : Nat, as : Pseudonyms]
        BY <3>1
      <3>3. QED
        BY <3>2
    <2>3. Ats(s) \in [1..Len(s) -> Nat]
      BY <2>1, <2>2 DEF Ats
    <2>4. QED
      BY <2>1, <2>3
  <1>3. QED
    BY <1>1, <1>2

\* A step that leaves screens and inboxes alone keeps the order if it lowers no
\* limit and puts into no hand what is not the next message of its kind.
LEMMA OrderFrame ==
    ASSUME MessageInv, UNCHANGED <<shownPublic, shownPrivate, inbox>>,
           \A q \in Peers :
              /\ messageIndices'[q] <= Len(messageHistory)'
              /\ PublicLimit(q)' \in Nat /\ PublicLimit(q) <= PublicLimit(q)'
              /\ PrivateLimit(q)' \in Nat /\ PrivateLimit(q) <= PrivateLimit(q)'
              /\ \/ Hand(q)' = Hand(q)
                 \/ Hand(q)' = NoItem
                 \/ /\ Hand(q)' \in Item /\ Hand(q)'.kind = "public"
                    /\ PublicLimit(q) < Hand(q)'.at /\ Hand(q)'.at <= PublicLimit(q)'
                 \/ /\ Hand(q)' \in Item /\ Hand(q)'.kind = "private"
                    /\ PrivateLimit(q) < Hand(q)'.at /\ Hand(q)'.at <= PrivateLimit(q)'
    PROVE  OrderInv'
  <1> SUFFICES ASSUME NEW q \in Peers
               PROVE  /\ InLine(shownPublic[q], inbox[q], Hand(q)', "public", PublicLimit(q)')
                      /\ InLine(Ats(shownPrivate[q]), inbox[q], Hand(q)', "private", PrivateLimit(q)')
    BY DEF OrderInv
  <1> PICK public, private, box : /\ public = shownPublic[q] /\ private = Ats(shownPrivate[q])
                                  /\ box = inbox[q]
    OBVIOUS
  <1>1. /\ InLine(public, box, Hand(q), "public", PublicLimit(q))
        /\ InLine(private, box, Hand(q), "private", PrivateLimit(q))
        /\ public \in Seq(Nat) /\ private \in Seq(Nat) /\ box \in Seq(Item)
        /\ PublicLimit(q) \in Nat /\ PrivateLimit(q) \in Nat
    BY LimitTypes, ShownTypes DEF MessageInv, OrderInv
  <1>2. /\ InLine(public, box, Hand(q), "public", PublicLimit(q)')
        /\ InLine(private, box, Hand(q), "private", PrivateLimit(q)')
    BY <1>1, LineWider
  <1>3. CASE Hand(q)' = Hand(q) \/ Hand(q)' = NoItem
    <2>1. /\ InLine(public, box, NoItem, "public", PublicLimit(q)')
          /\ InLine(private, box, NoItem, "private", PrivateLimit(q)')
      BY <1>2, LineEmptyHand
    <2>2. QED
      BY <1>2, <1>3, <2>1
  <1>4. CASE /\ Hand(q)' \in Item /\ Hand(q)'.kind = "public"
             /\ PublicLimit(q) < Hand(q)'.at /\ Hand(q)'.at <= PublicLimit(q)'
    <2>1. InLine(public, box, Hand(q)', "public", PublicLimit(q)')
      BY <1>1, <1>4, LineTakes
    <2>2. InLine(private, box, Hand(q)', "private", PrivateLimit(q)')
      BY <1>2, <1>4, LineEmptyHand
    <2>3. QED
      BY <2>1, <2>2
  <1>5. CASE /\ Hand(q)' \in Item /\ Hand(q)'.kind = "private"
             /\ PrivateLimit(q) < Hand(q)'.at /\ Hand(q)'.at <= PrivateLimit(q)'
    <2>1. InLine(private, box, Hand(q)', "private", PrivateLimit(q)')
      BY <1>1, <1>5, LineTakes
    <2>2. InLine(public, box, Hand(q)', "public", PublicLimit(q)')
      BY <1>2, <1>5, LineEmptyHand
    <2>3. QED
      BY <2>1, <2>2
  <1>6. QED
    BY <1>3, <1>4, <1>5

LEMMA HandlerKept ==
    ASSUME MessageInv, NEW h \in StreamThreads, MessagesHandler(h)
    PROVE  MessageInv'
  <1>0. PICK p : p = handlers[h].peer
    OBVIOUS
  <1>1. /\ handlers[h] # NoHandler /\ p \in Peers /\ StreamStep
        /\ \/ HandlerEnds(h, p) \/ HandlerGoes(h, p)
           \/ TakesPublic(h, p) \/ TakesPrivate(h, p) \/ HandlerWrites(h, p)
    BY <1>0, HandlerCases
  <1>2. /\ StreamInv /\ MessageTypes /\ NameInv /\ OnlyMessages
        /\ Len(messageHistory) \in Nat /\ PublicLimit(p) \in Nat /\ PublicLimit(p) <= Len(messageHistory)
        /\ \A q \in Peers : PublicLimit(q) \in Nat /\ PublicLimit(q) <= Len(messageHistory)
        /\ messageIndices[p] \in Nat \cup {NoIndex} /\ messageIndices[p] <= Len(messageHistory)
        /\ peerMessageQueues \in [Peers -> Seq(PrivateMessage)]
    BY <1>1, LimitTypes DEF MessageInv, OrderInv
  <1>3. PICK index : /\ CursorAt(p, index)
                     /\ \/ index = NoIndex
                        \/ index \in Nat /\ PublicLimit(p) <= index /\ index <= Len(messageHistory)
    <2>1. CASE CursorAt(p, messageIndices[p])
      BY <1>2, <2>1 DEF PublicLimit
    <2>2. CASE CursorAt(p, NoIndex)
      BY <2>2
    <2>3. CASE CursorAt(p, PublicLimit(p))
      BY <1>2, <2>3
    <2>4. CASE CursorAt(p, PublicLimit(p) + 1) /\ PublicLimit(p) < Len(messageHistory)
      BY <1>2, <2>4
    <2>5. QED
      BY <1>1, <2>1, <2>2, <2>3, <2>4
         DEF HandlerEnds, HandlerGoes, TakesPublic, TakesPrivate, HandlerWrites
  <1>4. UNCHANGED peerMessageQueues \/ EraseQueue(p) \/ TakePrivate(p)
    BY <1>1 DEF HandlerEnds, HandlerGoes, TakesPublic, TakesPrivate, HandlerWrites, QueueKept,
                QueueErased
  <1>5. /\ peerMessageQueues' \in [Peers -> Seq(PrivateMessage)] /\ QueueInv'
        /\ \A q \in Peers : PrivateLimit(q)' \in Nat /\ PrivateLimit(q) <= PrivateLimit(q)'
    BY <1>1, <1>4, QueueSteps DEF StreamStep
  <1>6. /\ ServerInv'
        /\ UNCHANGED <<messageHistory, privateSent, clients, clientVars, shownPublic, shownPrivate>>
    BY <1>1, <1>3, <1>5, HandlerFrame
  <1>7. /\ PublicLimit(p)' = IF index = NoIndex THEN Len(messageHistory) ELSE index
        /\ \A q \in Peers : q # p => PublicLimit(q)' = PublicLimit(q)
        /\ \A q \in Peers : messageIndices'[q] <= Len(messageHistory)'
    BY <1>1, <1>3, <1>6, LimitMoves
  <1>8. \A q \in Peers : PublicLimit(q)' \in Nat /\ PublicLimit(q) <= PublicLimit(q)'
    <2>1. PublicLimit(p)' \in Nat /\ PublicLimit(p) <= PublicLimit(p)'
      BY <1>2, <1>3, <1>7
    <2>2. \A q \in Peers : PublicLimit(q) <= PublicLimit(q)
      BY <1>2
    <2>3. QED
      BY <1>2, <1>7, <2>1, <2>2
  <1>9. MessageTypes'
    <2>1. base' \in [Peers -> Nat]
      <3>1. UNCHANGED base \/ base' = [base EXCEPT ![p] = PublicLimit(p)]
        BY <1>1 DEF HandlerEnds, HandlerGoes, TakesPublic, TakesPrivate, HandlerWrites
      <3>2. QED
        BY <1>1, <1>2, <3>1 DEF MessageTypes
    <2>2. StreamWriteLost(h) => handlers[h].item.at \in Nat
      BY <1>2, WriteLostKept DEF Item
    <2>3. stolen' \in [Peers -> SUBSET Nat]
      <3>1. CASE UNCHANGED stolen
        BY <1>2, <3>1 DEF MessageTypes
      <3>2. CASE StreamWriteLost(h) /\ stolen' = [stolen EXCEPT ![p] = @ \cup {handlers[h].item.at}]
        BY <1>1, <1>2, <2>2, <3>2 DEF MessageTypes
      <3>3. QED
        BY <1>1, <3>1, <3>2 DEF HandlerEnds, HandlerGoes, TakesPublic, TakesPrivate, HandlerWrites
    <2>4. lost' \subseteq Nat
      <3>1. CASE UNCHANGED lost
        BY <1>2, <3>1 DEF MessageTypes
      <3>2. CASE StreamWriteLost(h) /\ lost' = lost \cup {handlers[h].item.at}
        BY <1>2, <2>2, <3>2 DEF MessageTypes
      <3>3. CASE lost' = lost \cup QueuedFor(p)
        <4>1. peerMessageQueues[p] \in Seq(PrivateMessage)
          BY <1>1, <1>2
        <4>2. \A k \in DOMAIN peerMessageQueues[p] : peerMessageQueues[p][k] \in PrivateMessage
          BY <4>1
        <4>3. QueuedFor(p) \subseteq Nat
          BY <4>2 DEF QueuedFor, PrivateMessage
        <4>4. QED
          BY <1>2, <3>3, <4>3 DEF MessageTypes
      <3>4. QED
        BY <1>1, <3>1, <3>2, <3>3
           DEF HandlerEnds, HandlerGoes, TakesPublic, TakesPrivate, HandlerWrites, QueueKept,
               QueueErased
    <2>5. QED
      BY <1>2, <1>6, <2>1, <2>3, <2>4 DEF MessageTypes
  <1>10. ASSUME \A q \in Peers : /\ stream'[q] # NoStream => stream[q] # NoStream
                                 /\ inbox'[q] # <<>> => inbox[q] # <<>> \/ stream[q] # NoStream
         PROVE  NameInv'
    BY <1>2, <1>6, <1>10 DEF NameInv, clientVars
  <1>11. CASE HandlerEnds(h, p)
    <2>0. StreamEnds(h)
      BY <1>11 DEF HandlerEnds
    <2>1. /\ StreamInv' /\ UNCHANGED inbox
          /\ handlers'[h] = NoHandler
          /\ \A k \in StreamThreads : k # h => handlers'[k] = handlers[k]
          /\ \A q \in Peers : stream'[q] # NoStream => stream[q] # NoStream
      BY <1>2, <2>0, EndsKept
    <2>2. \A q \in Peers : Hand(q)' = Hand(q) \/ Hand(q)' = NoItem
      <3>1. \A q \in Peers : /\ stream[q] = h => Hand(q)' = NoItem
                             /\ stream[q] # h => Hand(q)' = Hand(q)
        BY <1>2, <2>0, EndsKept
      <3>2. QED
        BY <3>1
    <2>3. OnlyMessages' /\ NameInv'
      BY <1>2, <1>10, <2>1 DEF OnlyMessages
    <2>4. OrderInv'
      BY <1>5, <1>6, <1>7, <1>8, <2>1, <2>2, OrderFrame
    <2>5. QED
      BY <1>5, <1>6, <1>9, <2>1, <2>3, <2>4 DEF MessageInv
  <1>12. CASE HandlerGoes(h, p)
    <2>1. PICK pc \in {"queue", "loop", "privateWait", "public", "wait"} :
             StreamGoto(h, pc) /\ handlers[h].pc # "write"
      BY <1>12 DEF HandlerGoes
    <2>2. /\ Moves(h, pc, NoItem) /\ UNCHANGED <<stream, inbox>> /\ inbox' \in [Peers -> Seq(Item)]
      BY <1>1, <1>2, <2>1, GotoMoves DEF Places, StreamInv, StreamTypeOK
    <2>3. /\ StreamInv'
          /\ \A q \in Peers : Hand(q)' = Hand(q) \/ Hand(q)' = NoItem
      BY <1>2, <2>2, MovesKept
    <2>4. OnlyMessages' /\ NameInv'
      BY <1>2, <1>10, <2>2 DEF OnlyMessages, Moves
    <2>5. OrderInv'
      BY <1>5, <1>6, <1>7, <1>8, <2>2, <2>3, OrderFrame
    <2>6. QED
      BY <1>5, <1>6, <1>9, <2>3, <2>4, <2>5 DEF MessageInv
  <1>13. ASSUME NEW item \in Item, StreamTakes(h, item),
                \/ /\ item.kind = "public"
                   /\ PublicLimit(p) < item.at /\ item.at <= PublicLimit(p)'
                \/ /\ item.kind = "private"
                   /\ PrivateLimit(p) < item.at /\ item.at <= PrivateLimit(p)'
         PROVE  MessageInv'
    <2>1. /\ Moves(h, "write", item) /\ UNCHANGED <<stream, inbox>>
          /\ inbox' \in [Peers -> Seq(Item)] /\ item # NoItem
      BY <1>1, <1>2, <1>13, TakesMoves, StreamAssumption DEF StreamInv, StreamTypeOK
    <2>2. /\ StreamInv'
          /\ \A q \in Peers : Hand(q)' = IF stream[q] = h THEN item ELSE Hand(q)
      BY <1>2, <2>1, MovesKept
    <2>3. \A q \in Peers : stream[q] = h => q = p
      BY <1>0, <1>1, <1>2, StreamAssumption DEF StreamInv
    <2>4. \A q \in Peers : stream[q] # h => Hand(q)' = Hand(q)
      BY <2>2
    <2>5. stream[p] = h => Hand(p)' = item
      BY <1>1, <2>2
    <2>6. ASSUME NEW q \in Peers
          PROVE  \/ Hand(q)' = Hand(q)
                 \/ /\ Hand(q)' \in Item /\ Hand(q)'.kind = "public"
                    /\ PublicLimit(q) < Hand(q)'.at /\ Hand(q)'.at <= PublicLimit(q)'
                 \/ /\ Hand(q)' \in Item /\ Hand(q)'.kind = "private"
                    /\ PrivateLimit(q) < Hand(q)'.at /\ Hand(q)'.at <= PrivateLimit(q)'
      BY <1>13, <2>3, <2>4, <2>5
    <2>7. OnlyMessages' /\ NameInv'
      BY <1>2, <1>10, <1>13, <2>1 DEF OnlyMessages, Moves
    <2>8. OrderInv'
      BY <1>5, <1>6, <1>7, <1>8, <2>1, <2>6, OrderFrame
    <2>9. QED
      BY <1>5, <1>6, <1>9, <2>2, <2>7, <2>8 DEF MessageInv
  <1>14. CASE TakesPublic(h, p)
    <2> DEFINE item == [kind |-> "public", at |-> PublicLimit(p) + 1]
    <2>1. item \in Item /\ item.kind = "public" /\ item.at = PublicLimit(p) + 1
      BY <1>2 DEF Item
    <2>2. /\ StreamTakes(h, item) /\ CursorAt(p, item.at)
          /\ item.at \in Nat /\ item.at <= Len(messageHistory) /\ PublicLimit(p) < item.at
      BY <1>2, <1>14, <2>1 DEF TakesPublic
    <2> HIDE DEF item
    <2>3. PublicLimit(p)' = item.at
      <3>1. item.at # NoIndex
        BY <2>2 DEF NoIndex
      <3>2. PublicLimit(p)' = IF item.at = NoIndex THEN Len(messageHistory) ELSE item.at
        BY <1>1, <1>6, <2>2, LimitMoves
      <3>3. QED
        BY <3>1, <3>2
    <2>4. item.at <= PublicLimit(p)'
      BY <2>2, <2>3
    <2>5. QED
      BY <1>13, <2>1, <2>2, <2>4
  <1>15. CASE TakesPrivate(h, p)
    <2>1. PICK id : id = Head(peerMessageQueues[p]).id
      OBVIOUS
    <2>2. StreamTakes(h, [kind |-> "private", at |-> id]) /\ TakePrivate(p)
      BY <1>15, <2>1 DEF TakesPrivate
    <2>3. id \in Nat /\ PrivateLimit(p) < id /\ id <= PrivateLimit(p)'
      BY <1>1, <2>1, <2>2, QueueSteps DEF StreamStep
    <2>4. PICK item : item = [kind |-> "private", at |-> id]
      OBVIOUS
    <2>5. item \in Item /\ item.kind = "private" /\ item.at = id
      BY <2>3, <2>4 DEF Item
    <2>6. QED
      BY <1>13, <2>2, <2>3, <2>4, <2>5
  <1>16. CASE StreamWrites(h) /\ HandlerWrites(h, p)
    <2> DEFINE item == handlers[h].item
    <2>0. StreamWrites(h) /\ p = handlers[h].peer
      BY <1>0, <1>16
    <2>1. /\ StreamInv' /\ UNCHANGED stream
          /\ p \in Peers /\ item \in Item /\ stream[p] = h /\ handlers[h] # NoHandler
          /\ Moves(h, "loop", NoItem)
          /\ inbox'[p] = Append(inbox[p], item) /\ Hand(p) = item /\ Hand(p)' = NoItem
          /\ \A q \in Peers : q # p => inbox'[q] = inbox[q] /\ Hand(q)' = Hand(q)
      BY <1>2, <2>0, WritesKept
    <2>2. item.kind \in {"public", "private"} /\ item # NoItem
      BY <1>2, <2>1, StreamAssumption DEF OnlyMessages
    <2> HIDE DEF item
    <2>3. OnlyMessages'
      <3>1. \A k \in StreamThreads : handlers'[k] # NoHandler /\ handlers'[k].item # NoItem =>
              handlers'[k].item.kind \in {"public", "private"}
        <4>1. handlers'[h].item = NoItem /\ \A k \in StreamThreads : k # h => handlers'[k] = handlers[k]
          BY <2>1 DEF Moves
        <4>2. QED
          BY <1>2, <4>1 DEF OnlyMessages
      <3>2. /\ inbox[p] \in Seq(Item)
            /\ \A k \in DOMAIN inbox[p] : inbox[p][k].kind \in {"public", "private"}
        BY <1>1, <1>2 DEF OnlyMessages, StreamInv, StreamTypeOK
      <3>3. \A k \in DOMAIN inbox'[p] : inbox'[p][k].kind \in {"public", "private"}
        BY <2>1, <2>2, <3>2
      <3>4. QED
        BY <1>2, <2>1, <3>1, <3>3 DEF OnlyMessages
    <2>4. NameInv'
      <3>1. h # NoStream
        BY StreamAssumption
      <3>2. QED
        BY <1>10, <2>1, <3>1
    <2>5. OrderInv'
      <3> SUFFICES ASSUME NEW q \in Peers
                   PROVE  /\ InLine(shownPublic[q], inbox'[q], Hand(q)', "public", PublicLimit(q)')
                          /\ InLine(Ats(shownPrivate[q]), inbox'[q], Hand(q)', "private", PrivateLimit(q)')
        BY <1>6, <1>7 DEF OrderInv
      <3>1. /\ InLine(shownPublic[q], inbox[q], Hand(q), "public", PublicLimit(q))
            /\ InLine(Ats(shownPrivate[q]), inbox[q], Hand(q), "private", PrivateLimit(q))
            /\ inbox[q] \in Seq(Item)
            /\ PublicLimit(q) \in Nat /\ PrivateLimit(q) \in Nat
        BY LimitTypes, ShownTypes DEF MessageInv, OrderInv
      <3>2. /\ InLine(shownPublic[q], inbox[q], Hand(q), "public", PublicLimit(q)')
            /\ InLine(Ats(shownPrivate[q]), inbox[q], Hand(q), "private", PrivateLimit(q)')
        BY <1>5, <1>8, <3>1, LineWider
      <3>3. CASE q = p
        <4>1. /\ InLine(shownPublic[p], inbox[p], item, "public", PublicLimit(p)')
              /\ InLine(Ats(shownPrivate[p]), inbox[p], item, "private", PrivateLimit(p)')
              /\ inbox[p] \in Seq(Item)
          BY <2>1, <3>1, <3>2, <3>3
        <4>2. /\ InLine(shownPublic[p], Append(inbox[p], item), NoItem, "public", PublicLimit(p)')
              /\ InLine(Ats(shownPrivate[p]), Append(inbox[p], item), NoItem, "private", PrivateLimit(p)')
          BY <2>1, <2>2, <4>1, LineWrites
        <4>3. QED
          BY <2>1, <3>3, <4>2
      <3>4. CASE q # p
        BY <2>1, <3>2, <3>4
      <3>5. QED
        BY <3>3, <3>4
    <2>6. QED
      BY <1>5, <1>6, <1>9, <2>1, <2>3, <2>4, <2>5 DEF MessageInv
  <1>17. CASE StreamWriteLost(h) /\ HandlerWrites(h, p)
    <2>1. /\ StreamInv' /\ UNCHANGED <<stream, inbox>>
          /\ handlers'[h] = NoHandler \/ Moves(h, "loop", NoItem)
          /\ \A k \in StreamThreads : k # h => handlers'[k] = handlers[k]
          /\ \A q \in Peers : Hand(q)' = Hand(q)
      BY <1>2, <1>17, WriteLostKept
    <2>2. OnlyMessages' /\ NameInv'
      BY <1>2, <1>10, <2>1 DEF OnlyMessages, Moves
    <2>3. OrderInv'
      BY <1>5, <1>6, <1>7, <1>8, <2>1, OrderFrame
    <2>4. QED
      BY <1>5, <1>6, <1>9, <2>1, <2>2, <2>3 DEF MessageInv
  <1>18. QED
    BY <1>1, <1>11, <1>12, <1>14, <1>15, <1>16, <1>17 DEF HandlerWrites

-----------------------------------------------------------------------------
(* The client's steps, and those of the server beside the stream.          *)

\* A name once given is never taken away, only replaced by the next login's.
LEMMA NamesStay ==
    ASSUME TypeInv, [Next]_vars
    PROVE  /\ \A q \in Peers : pseudonym[q] # NoName => pseudonym'[q] # NoName
           /\ \A p \in Peers : LoginSucceeded(p) => pseudonym'[p] # NoName
  <1>1. ASSUME NEW p \in Peers, LoginSucceeded(p)
        PROVE  /\ pseudonym'[p] # NoName
               /\ \A q \in Peers : pseudonym[q] # NoName => pseudonym'[q] # NoName
    <2>1. awaiting[p] \in Threads /\ calls[awaiting[p]] # NoCall /\ calls[awaiting[p]].op = "Connect"
      BY <1>1 DEF LoginSucceeded, Returned, At, TypeInv, TypeOK, ClientTypeOK
    <2>2. calls[awaiting[p]] \in ConnectCall
      BY <2>1, CallOfOp DEF TypeInv, TypeOK, ServiceTypeOK, CallsTyped
    <2>3. calls[awaiting[p]].pseudonym # NoName
      BY <2>2, ClientAssumption DEF ConnectCall
    <2>4. pseudonym' = [pseudonym EXCEPT ![p] = calls[awaiting[p]].pseudonym]
      BY <1>1 DEF LoginSucceeded
    <2>5. pseudonym \in [Peers -> Pseudonyms \cup {NoName}]
      BY DEF TypeInv, TypeOK, ClientTypeOK
    <2>6. QED
      BY <2>3, <2>4, <2>5
  <1>2. CASE UNCHANGED clientVars
    <2>1. UNCHANGED pseudonym
      BY <1>2 DEF clientVars
    <2>2. QED
      BY <1>1, <2>1
  <1>3. CASE UNCHANGED vars
    BY <1>2, <1>3 DEF vars
  <1>4. (\E t \in Threads : HandlerStep(t) \/ DropAnswer(t)) \/ ObserverStep => UNCHANGED clientVars
    <2>1. ASSUME NEW t \in Threads, HandlerStep(t)
          PROVE  UNCHANGED clientVars
      BY <2>1, HandlerShape DEF Shape, clientVars
    <2>2. ASSUME NEW t \in Threads, DropAnswer(t)
          PROVE  UNCHANGED clientVars
      BY <2>2 DEF DropAnswer
    <2>3. QED
      BY <2>1, <2>2, ObserverShape
  <1>5. ASSUME NEW p \in Peers, UserStep(p) \/ ReplyStep(p), ~LoginSucceeded(p)
        PROVE  UNCHANGED pseudonym
    BY <1>5 DEF UserStep, ReplyStep, Login, ConnectTimesOut, Disconnect, CloseWindow, PrepareClose,
          CloseUnused, SendMessage, Crash, LoginRejected, Disconnected, MessageSent, Return, Invoke
  <1>6. CASE UNCHANGED pseudonym
    BY <1>1, <1>6
  <1>7. QED
    BY <1>1, <1>2, <1>3, <1>4, <1>5, <1>6 DEF Next

LEMMA AtsAppend ==
    ASSUME NEW s \in Seq([at : Nat, as : Pseudonyms]), NEW r \in [at : Nat, as : Pseudonyms]
    PROVE  Ats(Append(s, r)) = Append(Ats(s), r.at)
  <1> DEFINE n == Len(s)
             more == Append(s, r)
  <1>1. /\ n \in Nat /\ DOMAIN s = 1..n /\ DOMAIN more = 1..(n + 1)
        /\ more[n + 1] = r /\ \A k \in 1..n : more[k] = s[k]
    OBVIOUS
  <1>2. \A k \in 1..n : s[k].at \in Nat
    <2>1. ASSUME NEW S, NEW u \in Seq(S)
          PROVE  \A k \in 1..Len(u) : u[k] \in S
      OBVIOUS
    <2>2. \A k \in 1..n : s[k] \in [at : Nat, as : Pseudonyms]
      BY <2>1
    <2>3. QED
      BY <2>2
  <1>3. r.at \in Nat
    OBVIOUS
  <1> HIDE DEF n, more
  <1>4. Ats(s) = [k \in 1..n |-> s[k].at] /\ Ats(more) = [k \in 1..(n + 1) |-> more[k].at]
    BY <1>1 DEF Ats
  <1>5. Ats(s) \in [1..n -> Nat] /\ Ats(s) \in Seq(Nat) /\ Len(Ats(s)) = n
    <2>1. Ats(s) \in [1..n -> Nat]
      BY <1>2, <1>4
    <2>2. Ats(s) \in Seq(Nat)
      BY <1>1, <2>1
    <2>3. DOMAIN Ats(s) = 1..n
      BY <1>4
    <2>4. QED
      BY <1>1, <2>1, <2>2, <2>3
  <1>6. /\ DOMAIN Append(Ats(s), r.at) = 1..(n + 1)
        /\ Append(Ats(s), r.at)[n + 1] = r.at
        /\ \A k \in 1..n : Append(Ats(s), r.at)[k] = Ats(s)[k]
        /\ Append(Ats(s), r.at) = [k \in 1..(n + 1) |-> Append(Ats(s), r.at)[k]]
    BY <1>1, <1>3, <1>5
  <1>7. \A k \in 1..(n + 1) : Append(Ats(s), r.at)[k] = more[k].at
    BY <1>1, <1>4, <1>6
  <1>8. QED
    BY <1>4, <1>6, <1>7 DEF more

\* Steps that neither show nor write a message.
LEMMA BesideKept ==
    ASSUME MessageInv, [Next]_vars, StreamInv', MessageTypes', NameInv',
           UNCHANGED <<shownPublic, shownPrivate, inbox>>,
           \A k \in StreamThreads :
              \/ handlers'[k] = handlers[k]
              \/ handlers'[k].item = NoItem
              \/ handlers'[k].item = handlers[k].item /\ handlers[k] # NoHandler,
           \A p \in Peers : Hand(p)' \in {Hand(p), NoItem}
    PROVE  MessageInv'
  <1>1. OrderInv'
    BY LimitsGrow, OrderFrame
  <1>2. OnlyMessages'
    BY DEF MessageInv, OnlyMessages
  <1>3. QED
    BY <1>1, <1>2, LimitsGrow DEF MessageInv

LEMMA NextBesideKept ==
    ASSUME MessageInv, [Next]_vars, UNCHANGED <<streamVars, shownPublic, shownPrivate, base, stolen>>,
           lost' \subseteq Nat
    PROVE  MessageInv'
  <1>1. StreamInv' /\ MessageTypes' /\ UNCHANGED <<handlers, stream, inbox, shownPublic, shownPrivate>>
    BY DEF MessageInv, StreamInv, StreamTypeOK, MessageTypes, streamVars
  <1>2. \A p \in Peers : Hand(p)' = Hand(p)
    BY <1>1 DEF Hand
  <1>3. NameInv'
    BY <1>1, NamesStay DEF MessageInv, ServerInv, NameInv
  <1>4. QED
    BY <1>1, <1>2, <1>3, BesideKept

LEMMA EnterKept ==
    ASSUME MessageInv, NEW p \in Peers, EnterChat(p)
    PROVE  MessageInv'
  <1>1. /\ LoginSucceeded(p) /\ OpenStream(p) /\ StreamInv /\ MessageTypes
        /\ UNCHANGED <<shownPublic, shownPrivate, base, stolen, lost>>
    BY DEF EnterChat, MessageInv, messageHistoryVars
  <1>2. [Next]_vars
    BY <1>1 DEF Next, ReplyStep
  <1>3. MessageTypes'
    BY <1>1 DEF MessageTypes
  <1>4. /\ StreamInv' /\ UNCHANGED inbox
        /\ \A q \in Peers : q # p => Hand(q)' = Hand(q) /\ stream'[q] = stream[q]
        /\ Hand(p)' \in {Hand(p), NoItem}
        /\ \A k \in StreamThreads :
              \/ handlers'[k] = handlers[k]
              \/ handlers[k] = NoHandler /\ handlers'[k].item = NoItem
    BY <1>1, OpensKept
  <1>5. \A q \in Peers : Hand(q)' \in {Hand(q), NoItem}
    BY <1>4
  <1>6. NameInv'
    <2>1. /\ pseudonym'[p] # NoName
          /\ \A q \in Peers : pseudonym[q] # NoName => pseudonym'[q] # NoName
      BY <1>1, <1>2, NamesStay DEF MessageInv, ServerInv
    <2>2. QED
      BY <1>4, <2>1 DEF MessageInv, NameInv
  <1>7. QED
    BY <1>1, <1>2, <1>3, <1>4, <1>5, <1>6, BesideKept

\* What the client drops is among what was in its inbox.
LEMMA LeaveKept ==
    ASSUME MessageInv, NEW p \in Peers, LeaveChat(p)
    PROVE  MessageInv'
  <1>1. /\ Disconnect(p) \/ CloseWindow(p) \/ Crash(p)
        /\ StopStream(p) \/ AbandonStream(p)
        /\ StreamInv /\ MessageTypes /\ OnlyMessages /\ NameInv
    BY DEF LeaveChat, MessageInv
  <1>2. [Next]_vars
    BY <1>1 DEF Next, UserStep
  <1>3. inbox[p] \in Seq(Item)
    BY <1>1 DEF StreamInv, StreamTypeOK
  <1>4. MessageTypes' /\ UNCHANGED <<shownPublic, shownPrivate>>
    <2>1. \A k \in DOMAIN inbox[p] : inbox[p][k] \in Item
      BY <1>3
    <2>2. PrivateIn(inbox[p]) \subseteq Nat
      BY <2>1 DEF PrivateIn, Item
    <2>3. /\ lost' = lost \cup (PrivateIn(inbox[p]) \ PrivateIn(inbox'[p]))
          /\ base' = [base EXCEPT ![p] = 0] /\ stolen' = [stolen EXCEPT ![p] = {}]
          /\ UNCHANGED <<shownPublic, shownPrivate>>
      BY DEF LeaveChat
    <2>4. lost' \subseteq Nat
      BY <1>1, <2>2, <2>3 DEF MessageTypes
    <2>5. QED
      BY <1>1, <2>3, <2>4 DEF MessageTypes
  <1>5. /\ StreamInv' /\ UNCHANGED handlers
        /\ Hand(p)' = NoItem /\ stream'[p] = NoStream
        /\ \A q \in Peers : q # p => /\ inbox'[q] = inbox[q] /\ Hand(q)' = Hand(q)
                                     /\ stream'[q] = stream[q]
        /\ \E k \in 0..Len(inbox[p]) : inbox'[p] = SubSeq(inbox[p], 1, k)
    BY <1>1, StopsKept
  <1>6. PICK k \in 0..Len(inbox[p]) : inbox'[p] = SubSeq(inbox[p], 1, k)
    BY <1>5
  <1>7. OnlyMessages'
    <2>1. \A j \in DOMAIN inbox'[p] : inbox'[p][j] = inbox[p][j] /\ j \in DOMAIN inbox[p]
      BY <1>3, <1>6
    <2>2. \A j \in DOMAIN inbox'[p] : inbox'[p][j].kind \in {"public", "private"}
      BY <1>1, <2>1 DEF OnlyMessages
    <2>3. QED
      BY <1>1, <1>5, <2>2 DEF OnlyMessages
  <1>8. NameInv'
    <2>1. inbox'[p] # <<>> => inbox[p] # <<>>
      BY <1>3, <1>6
    <2>2. \A q \in Peers : pseudonym[q] # NoName => pseudonym'[q] # NoName
      BY <1>2, NamesStay DEF MessageInv, ServerInv
    <2>3. QED
      BY <1>1, <1>5, <2>1, <2>2 DEF NameInv
  <1>9. OrderInv'
    <2> SUFFICES ASSUME NEW q \in Peers
                 PROVE  /\ InLine(shownPublic[q], inbox'[q], Hand(q)', "public", PublicLimit(q)')
                        /\ InLine(Ats(shownPrivate[q]), inbox'[q], Hand(q)', "private", PrivateLimit(q)')
      BY <1>2, <1>4, LimitsGrow DEF OrderInv
    <2>1. /\ InLine(shownPublic[q], inbox[q], Hand(q), "public", PublicLimit(q))
          /\ InLine(Ats(shownPrivate[q]), inbox[q], Hand(q), "private", PrivateLimit(q))
          /\ PublicLimit(q) \in Nat /\ PrivateLimit(q) \in Nat
      BY LimitTypes DEF MessageInv, OrderInv
    <2>2. /\ InLine(shownPublic[q], inbox[q], Hand(q), "public", PublicLimit(q)')
          /\ InLine(Ats(shownPrivate[q]), inbox[q], Hand(q), "private", PrivateLimit(q)')
      BY <1>2, <2>1, LimitsGrow, LineWider
    <2>3. CASE q = p
      <3>1. /\ InLine(shownPublic[p], SubSeq(inbox[p], 1, k), NoItem, "public", PublicLimit(p)')
            /\ InLine(Ats(shownPrivate[p]), SubSeq(inbox[p], 1, k), NoItem, "private", PrivateLimit(p)')
        BY <1>3, <1>6, <2>2, <2>3, LineStops
      <3>2. QED
        BY <1>5, <1>6, <2>3, <3>1
    <2>4. CASE q # p
      BY <1>5, <2>2, <2>4
    <2>5. QED
      BY <2>3, <2>4
  <1>10. QED
    BY <1>2, <1>4, <1>5, <1>7, <1>8, <1>9, LimitsGrow DEF MessageInv

\* A message is shown in the conversation, or in its sender's window under the
\* name the reader has by then.
LEMMA ShowKept ==
    ASSUME MessageInv, NEW p \in Peers, ShowMessage(p)
    PROVE  MessageInv'
  <1> DEFINE box == inbox[p]
             item == Head(box)
             line == [at |-> item.at, as |-> pseudonym[p]]
  <1>1. /\ StreamInv /\ MessageTypes /\ OnlyMessages /\ NameInv /\ TakeInbox(p)
        /\ UNCHANGED <<serverVars, base, stolen, lost>> /\ UNCHANGED vars
    BY DEF ShowMessage, MessageInv, vars
  <1>2. [Next]_vars /\ UNCHANGED <<messageIndices, peerMessageQueues, privateSent, messageHistory, pseudonym>>
    BY <1>1 DEF serverVars, messageVars, privateVars, vars, clientVars
  <1>3. /\ StreamInv' /\ UNCHANGED <<handlers, stream>>
        /\ box # <<>> /\ box \in Seq(Item) /\ inbox'[p] = Tail(box)
        /\ item \in Item /\ item.at \in Nat
        /\ \A q \in Peers : Hand(q)' = Hand(q) /\ (q # p => inbox'[q] = inbox[q])
    BY <1>1, TakesKept
  <1>4. \A j \in DOMAIN box : box[j].kind \in {"public", "private"}
    BY <1>1 DEF OnlyMessages
  <1>5. line \in [at : Nat, as : Pseudonyms] /\ line.at = item.at
    <2>1. pseudonym[p] # NoName
      BY <1>1, <1>3 DEF NameInv
    <2>2. pseudonym[p] \in Pseudonyms
      BY <2>1 DEF MessageInv, ServerInv, TypeInv, TypeOK, ClientTypeOK
    <2>3. QED
      BY <1>3, <2>2
  <1>6. IF item.kind = "private"
          THEN /\ shownPrivate' = [shownPrivate EXCEPT ![p] = Append(shownPrivate[p], line)]
               /\ UNCHANGED shownPublic
          ELSE /\ shownPublic' = [shownPublic EXCEPT ![p] = Append(shownPublic[p], item.at)]
               /\ UNCHANGED shownPrivate
    BY DEF ShowMessage
  <1> HIDE DEF box, line
  <1>7. /\ 1 \in DOMAIN box /\ item = box[1]
        /\ \A j \in DOMAIN Tail(box) : j + 1 \in DOMAIN box /\ Tail(box)[j] = box[j + 1]
    BY <1>3
  <1> HIDE DEF item
  <1>8. /\ item.kind \in {"public", "private"}
        /\ \A j \in DOMAIN inbox'[p] : inbox'[p][j].kind \in {"public", "private"}
    BY <1>3, <1>4, <1>7
  <1>9. OnlyMessages'
    BY <1>1, <1>3, <1>8 DEF OnlyMessages
  <1>10. NameInv'
    BY <1>1, <1>2, <1>3 DEF NameInv, box
  <1>11. /\ shownPublic[p] \in Seq(Nat) /\ Ats(shownPrivate[p]) \in Seq(Nat)
         /\ shownPrivate[p] \in Seq([at : Nat, as : Pseudonyms])
         /\ InLine(shownPublic[p], box, Hand(p), "public", PublicLimit(p))
         /\ InLine(Ats(shownPrivate[p]), box, Hand(p), "private", PrivateLimit(p))
         /\ PublicLimit(p) \in Nat /\ PrivateLimit(p) \in Nat
    BY LimitTypes, ShownTypes DEF MessageInv, OrderInv, box
  <1>12. /\ shownPublic \in [Peers -> Seq(Nat)]
         /\ shownPrivate \in [Peers -> Seq([at : Nat, as : Pseudonyms])]
    BY <1>1 DEF MessageTypes
  <1>13. CASE item.kind = "private"
    <2>1. /\ shownPrivate'[p] = Append(shownPrivate[p], line) /\ UNCHANGED shownPublic
          /\ shownPrivate' \in [Peers -> Seq([at : Nat, as : Pseudonyms])]
          /\ \A q \in Peers : q # p => shownPrivate'[q] = shownPrivate[q]
      <3>1. PICK more : more = Append(shownPrivate[p], line)
        OBVIOUS
      <3>2. more \in Seq([at : Nat, as : Pseudonyms])
        BY <1>5, <1>11, <3>1
      <3>3. shownPrivate' = [shownPrivate EXCEPT ![p] = more] /\ UNCHANGED shownPublic
        BY <1>6, <1>13, <3>1
      <3>4. QED
        BY <1>12, <3>1, <3>2, <3>3
    <2>2. Ats(shownPrivate'[p]) = Append(Ats(shownPrivate[p]), item.at)
      BY <1>5, <1>11, <2>1, AtsAppend
    <2>3. /\ InLine(Ats(shownPrivate'[p]), Tail(box), Hand(p), "private", PrivateLimit(p))
          /\ InLine(shownPublic'[p], Tail(box), Hand(p), "public", PublicLimit(p))
      BY <1>3, <1>11, <1>13, <2>1, <2>2, LineShows, LineSkips DEF item
    <2>4. MessageTypes'
      BY <1>1, <2>1 DEF MessageTypes
    <2>5. QED
      <3>1. ASSUME NEW q \in Peers
            PROVE  /\ InLine(shownPublic'[q], inbox'[q], Hand(q), "public", PublicLimit(q))
                   /\ InLine(Ats(shownPrivate'[q]), inbox'[q], Hand(q), "private", PrivateLimit(q))
        <4>1. CASE q = p
          BY <1>3, <2>3, <4>1
        <4>2. CASE q # p
          BY <1>3, <2>1, <4>2 DEF MessageInv, OrderInv
        <4>3. QED
          BY <4>1, <4>2
      <3>2. OrderInv'
        <4>1. \A q \in Peers : PublicLimit(q)' = PublicLimit(q) /\ PrivateLimit(q)' = PrivateLimit(q)
          BY <1>2 DEF PublicLimit, PrivateLimit
        <4>2. QED
          BY <1>2, <1>3, <3>1, <4>1, LimitsGrow DEF OrderInv
      <3>3. QED
        BY <1>2, <1>3, <1>9, <1>10, <2>4, <3>2, LimitsGrow DEF MessageInv
  <1>14. CASE item.kind # "private"
    <2>1. /\ shownPublic'[p] = Append(shownPublic[p], item.at) /\ UNCHANGED shownPrivate
          /\ shownPublic' \in [Peers -> Seq(Nat)]
          /\ \A q \in Peers : q # p => shownPublic'[q] = shownPublic[q]
      <3>1. PICK more : more = Append(shownPublic[p], item.at)
        OBVIOUS
      <3>2. more \in Seq(Nat)
        BY <1>3, <1>11, <3>1
      <3>3. shownPublic' = [shownPublic EXCEPT ![p] = more] /\ UNCHANGED shownPrivate
        BY <1>6, <1>14, <3>1
      <3>4. QED
        BY <1>12, <3>1, <3>2, <3>3
    <2>2. item.kind = "public"
      BY <1>8, <1>14
    <2>3. /\ InLine(shownPublic'[p], Tail(box), Hand(p), "public", PublicLimit(p))
          /\ InLine(Ats(shownPrivate'[p]), Tail(box), Hand(p), "private", PrivateLimit(p))
      BY <1>3, <1>11, <2>1, <2>2, LineShows, LineSkips DEF item
    <2>4. MessageTypes'
      BY <1>1, <2>1 DEF MessageTypes
    <2>5. QED
      <3>1. ASSUME NEW q \in Peers
            PROVE  /\ InLine(shownPublic'[q], inbox'[q], Hand(q), "public", PublicLimit(q))
                   /\ InLine(Ats(shownPrivate'[q]), inbox'[q], Hand(q), "private", PrivateLimit(q))
        <4>1. CASE q = p
          BY <1>3, <2>3, <4>1
        <4>2. CASE q # p
          BY <1>3, <2>1, <4>2 DEF MessageInv, OrderInv
        <4>3. QED
          BY <4>1, <4>2
      <3>2. OrderInv'
        <4>1. \A q \in Peers : PublicLimit(q)' = PublicLimit(q) /\ PrivateLimit(q)' = PrivateLimit(q)
          BY <1>2 DEF PublicLimit, PrivateLimit
        <4>2. QED
          BY <1>2, <1>3, <3>1, <4>1, LimitsGrow DEF OrderInv
      <3>3. QED
        BY <1>2, <1>3, <1>9, <1>10, <2>4, <3>2, LimitsGrow DEF MessageInv
  <1>15. QED
    BY <1>13, <1>14

LEMMA QueuedTypes ==
    ASSUME MessageInv, NEW q \in Peers
    PROVE  QueuedFor(q) \subseteq Nat
  <1>1. peerMessageQueues[q] \in Seq(PrivateMessage)
    BY LimitTypes
  <1>2. \A k \in DOMAIN peerMessageQueues[q] : peerMessageQueues[q][k] \in PrivateMessage
    BY <1>1
  <1>3. QED
    BY <1>2 DEF QueuedFor, PrivateMessage

LEMMA MessageKept ==
    ASSUME MessageInv, [MessageSystemNext]_allVars
    PROVE  MessageInv'
  <1>1. CASE WalkStep
    <2>1. [Next]_vars
      BY <1>1 DEF WalkStep, Next
    <2>2. lost' \subseteq Nat /\ UNCHANGED <<streamVars, shownPublic, shownPrivate, base, stolen>>
      BY <1>1, QueuedTypes DEF WalkStep, MessageInv, MessageTypes
    <2>3. QED
      BY <2>1, <2>2, NextBesideKept
  <1>2. CASE [Next]_vars /\ UNCHANGED messageSystemVars
    BY <1>2, NextBesideKept DEF messageSystemVars, messageHistoryVars, MessageInv, MessageTypes
  <1>3. ASSUME NEW t \in Threads, HandlerStep(t) \/ DropAnswer(t)
        PROVE  Next
    BY <1>3 DEF Next
  <1>4. ASSUME NEW p \in Peers, OtherClientStep(p)
        PROVE  Next
    BY <1>4 DEF OtherClientStep, Next, UserStep, ReplyStep
  <1>5. ASSUME NEW h \in StreamThreads, CancelStep(h)
        PROVE  MessageInv'
    <2>1. /\ CancelArrives(h) /\ [Next]_vars /\ StreamInv /\ MessageTypes'
          /\ UNCHANGED <<clientVars, shownPublic, shownPrivate>>
      BY <1>5 DEF CancelStep, MessageInv, MessageTypes, messageHistoryVars, vars
    <2>2. /\ handlers[h] # NoHandler
          /\ Moves(h, handlers[h].pc, handlers[h].item) /\ UNCHANGED <<stream, inbox>>
          /\ StreamInv'
          /\ \A p \in Peers : Hand(p)' = Hand(p)
      BY <2>1, CancelMoves
    <2>3. NameInv'
      BY <2>1, <2>2, NamesStay DEF MessageInv, ServerInv, NameInv
    <2>4. QED
      BY <2>1, <2>2, <2>3, BesideKept DEF Moves
  <1>6. CASE UNCHANGED allVars
    BY <1>2, <1>6 DEF allVars
  <1>7. QED
    BY <1>1, <1>2, <1>3, <1>4, <1>5, <1>6, HandlerKept, EnterKept, LeaveKept, ShowKept
       DEF MessageSystemNext, UnaryStep, Next

LEMMA InitMessage == MessageSystemInit => MessageInv
  <1> SUFFICES ASSUME MessageSystemInit
               PROVE  MessageInv
    OBVIOUS
  <1>1. ServerInv /\ StreamInv
    BY InitServer, InitStream DEF MessageSystemInit
  <1>2. /\ handlers = [h \in StreamThreads |-> NoHandler]
        /\ stream = [p \in Peers |-> NoStream]
        /\ inbox = [p \in Peers |-> <<>>]
        /\ messageHistory = <<>> /\ messageIndices = [p \in Peers |-> NoIndex]
        /\ peerMessageQueues = [p \in Peers |-> <<>>] /\ privateSent = <<>>
        /\ shownPublic = [p \in Peers |-> <<>>]
        /\ shownPrivate = [p \in Peers |-> <<>>]
    BY DEF MessageSystemInit, StreamInit, Init, ServiceInit, MessagesInit, PrivateInit
  <1>3. MessageTypes
    BY DEF MessageSystemInit, MessageTypes
  <1>4. OnlyMessages /\ NameInv
    BY <1>2 DEF OnlyMessages, NameInv
  <1>5. QueueInv
    BY <1>2 DEF QueueInv, Sorted
  <1>6. OrderInv
    <2>1. \A p \in Peers : Hand(p) = NoItem /\ messageIndices[p] <= Len(messageHistory)
      BY <1>2 DEF Hand, NoIndex
    <2>2. Ats(<<>>) = <<>>
      BY DEF Ats
    <2>3. \A p \in Peers : /\ InLine(shownPublic[p], inbox[p], NoItem, "public", PublicLimit(p))
                           /\ InLine(Ats(shownPrivate[p]), inbox[p], NoItem, "private", PrivateLimit(p))
      BY <1>2, <2>2 DEF InLine
    <2>4. QED
      BY <2>1, <2>3 DEF OrderInv
  <1>7. QED
    BY <1>1, <1>3, <1>4, <1>5, <1>6 DEF MessageInv

LEMMA MessageSafe == MessageSystemSpec => []MessageInv
  BY InitMessage, MessageKept, PTL DEF MessageSystemSpec

\* Every variable of the message stream has its type, whatever overlaps; whoever
\* is shown a private message has a name it is shown under.
THEOREM MessageTypeCorrect == MessageSystemSpec => []MessageSystemTypeOK
  <1>1. MessageInv => MessageSystemTypeOK
    BY DEF MessageInv, StreamInv, MessageTypes, MessageSystemTypeOK
  <1>2. QED
    BY <1>1, MessageSafe, PTL

-----------------------------------------------------------------------------
(* Both conversations implement Feed.                                      *)

\* The next of InLine: what is shown next was stored, and after all that was
\* shown before.
LEMMA NextPublicShown ==
    ASSUME MessageInv, NEW p \in Peers, inbox[p] # <<>>, NEW item, item = Head(inbox[p]),
           item.kind = "public"
    PROVE  /\ item.at \in DOMAIN messageHistory
           /\ \A i \in DOMAIN shownPublic[p] : shownPublic[p][i] < item.at
  <1>1. /\ inbox[p] \in Seq(Item)
        /\ InLine(shownPublic[p], inbox[p], Hand(p), "public", PublicLimit(p))
    BY DEF MessageInv, OrderInv, StreamInv, StreamTypeOK
  <1>2. 1 \in DOMAIN inbox[p] /\ item = inbox[p][1]
    BY <1>1
  <1>3. item.at \in 1..PublicLimit(p) /\ \A i \in DOMAIN shownPublic[p] : shownPublic[p][i] < item.at
    BY <1>1, <1>2 DEF InLine
  <1>4. QED
    BY <1>3, LimitTypes

LEMMA NextPrivateShown ==
    ASSUME MessageInv, NEW p \in Peers, inbox[p] # <<>>, NEW item, item = Head(inbox[p]),
           item.kind = "private"
    PROVE  /\ item.at \in DOMAIN privateSent
           /\ \A i \in DOMAIN Ats(shownPrivate[p]) : Ats(shownPrivate[p])[i] < item.at
  <1>1. /\ inbox[p] \in Seq(Item)
        /\ InLine(Ats(shownPrivate[p]), inbox[p], Hand(p), "private", PrivateLimit(p))
    BY DEF MessageInv, OrderInv, StreamInv, StreamTypeOK
  <1>2. 1 \in DOMAIN inbox[p] /\ item = inbox[p][1]
    BY <1>1
  <1>3. /\ item.at \in 1..PrivateLimit(p)
        /\ \A i \in DOMAIN Ats(shownPrivate[p]) : Ats(shownPrivate[p])[i] < item.at
    BY <1>1, <1>2 DEF InLine
  <1>4. QED
    BY <1>3, LimitTypes

\* Who is shown what in a step.
LEMMA WhoIsShown ==
    ASSUME MessageInv, [MessageSystemNext]_allVars
    PROVE  \/ [Next]_vars /\ UNCHANGED <<shownPublic, shownPrivate>>
           \/ UNCHANGED <<messageHistory, privateSent, shownPublic, shownPrivate>>
           \/ \E p \in Peers : ShowMessage(p)
  <1>1. CASE WalkStep
    BY <1>1 DEF WalkStep, Next
  <1>2. CASE [Next]_vars /\ UNCHANGED messageSystemVars
    BY <1>2 DEF messageSystemVars, messageHistoryVars
  <1>3. ASSUME NEW t \in Threads, HandlerStep(t) \/ DropAnswer(t)
        PROVE  Next
    BY <1>3 DEF Next
  <1>4. ASSUME NEW p \in Peers, OtherClientStep(p)
        PROVE  Next
    BY <1>4 DEF OtherClientStep, Next, UserStep, ReplyStep
  <1>5. ASSUME NEW p \in Peers, EnterChat(p) \/ LeaveChat(p)
        PROVE  [Next]_vars /\ UNCHANGED <<shownPublic, shownPrivate>>
    BY <1>5 DEF EnterChat, LeaveChat, messageHistoryVars, Next, UserStep, ReplyStep
  <1>6. ASSUME NEW h \in StreamThreads, MessagesHandler(h) \/ CancelStep(h)
        PROVE  UNCHANGED <<messageHistory, privateSent, shownPublic, shownPrivate>>
    <2>1. CASE MessagesHandler(h)
      BY <2>1, HandlerCases DEF StreamStep
    <2>2. CASE CancelStep(h)
      BY <2>2 DEF CancelStep, serverVars, messageVars, privateVars, messageHistoryVars
    <2>3. QED
      BY <1>6, <2>1, <2>2
  <1>7. CASE UNCHANGED allVars
    BY <1>7 DEF allVars, vars, messageSystemVars, messageHistoryVars
  <1>8. QED
    BY <1>1, <1>2, <1>3, <1>4, <1>5, <1>6, <1>7 DEF MessageSystemNext, UnaryStep, Next

\* SubscribeMessages implements Feed for the public history: a client is shown
\* messages in the order the server stored them and none twice, over all its
\* sessions, whatever handlers of earlier sessions still run.
THEOREM ImplementsPublicFeed == MessageSystemSpec => PublicInOrder
  <1> DEFINE Read == PublicFeed!Publish \/ \E r \in Peers : PublicFeed!Show(r)
  <1>1. MessageSystemInit => PublicFeed!FeedInit
    BY DEF MessageSystemInit, Init, ServiceInit, MessagesInit, PublicFeed!FeedInit
  <1>2. MessageInv /\ [MessageSystemNext]_allVars => [Read]_<<messageHistory, shownPublic>>
    <2> SUFFICES ASSUME MessageInv, [MessageSystemNext]_allVars
                 PROVE  Read \/ UNCHANGED <<messageHistory, shownPublic>>
      OBVIOUS
    <2>1. CASE [Next]_vars /\ UNCHANGED <<shownPublic, shownPrivate>>
      <3>1. messageHistory \in Seq(Message) /\ LogsGrow
        BY <2>1, LimitTypes, LimitsGrow
      <3>2. ASSUME NEW m \in Message, messageHistory' = Append(messageHistory, m)
            PROVE  PublicFeed!Publish
        BY <2>1, <3>1, <3>2 DEF PublicFeed!Publish
      <3>3. QED
        BY <2>1, <3>1, <3>2 DEF LogsGrow
    <2>2. ASSUME NEW p \in Peers, ShowMessage(p)
          PROVE  Read \/ UNCHANGED <<messageHistory, shownPublic>>
      <3>1. PICK item : item = Head(inbox[p])
        OBVIOUS
      <3>2. /\ inbox[p] # <<>> /\ UNCHANGED messageHistory
            /\ IF item.kind = "private" THEN UNCHANGED shownPublic
                 ELSE shownPublic' = [shownPublic EXCEPT ![p] = Append(@, item.at)]
        BY <2>2, <3>1 DEF ShowMessage, TakeInbox, serverVars, messageVars
      <3>3. CASE item.kind = "public"
        <4>1. item.at \in DOMAIN messageHistory /\ \A i \in DOMAIN shownPublic[p] : shownPublic[p][i] < item.at
          BY <3>1, <3>2, <3>3, NextPublicShown
        <4>2. PublicFeed!Show(p)
          BY <3>2, <3>3, <4>1 DEF PublicFeed!Show
        <4>3. QED
          BY <4>2
      <3>4. item.kind \in {"public", "private"}
        <4>1. inbox[p] \in Seq(Item) /\ \A k \in DOMAIN inbox[p] : inbox[p][k].kind \in {"public", "private"}
          BY DEF MessageInv, OnlyMessages, StreamInv, StreamTypeOK
        <4>2. 1 \in DOMAIN inbox[p] /\ item = inbox[p][1]
          BY <3>1, <3>2, <4>1
        <4>3. QED
          BY <4>1, <4>2
      <3>5. QED
        BY <3>2, <3>3, <3>4
    <2>3. CASE UNCHANGED <<messageHistory, privateSent, shownPublic, shownPrivate>>
      BY <2>3
    <2>4. QED
      BY <2>1, <2>2, <2>3, WhoIsShown
  <1>3. QED
    BY <1>1, <1>2, MessageSafe, PTL
       DEF MessageSystemSpec, PublicInOrder, PublicFeed!FeedSpec, PublicFeed!feedVars

\* SubscribeMessages implements Feed for private messages too: what a client is
\* shown of them comes in the order the server queued them, none twice, even
\* when two of its handlers take from the one queue.
THEOREM ImplementsPrivateFeed == MessageSystemSpec => PrivateInOrder
  <1> DEFINE ranks == [p \in Peers |-> [k \in DOMAIN shownPrivate[p] |-> shownPrivate[p][k].at]]
             Read == PrivateFeed!Publish \/ \E r \in Peers : PrivateFeed!Show(r)
  <1>0. \A p \in Peers : ranks[p] = Ats(shownPrivate[p]) /\ ranks'[p] = Ats(shownPrivate'[p])
    BY DEF Ats
  <1>1. MessageSystemInit => PrivateFeed!FeedInit
    BY DEF MessageSystemInit, Init, ServiceInit, PrivateInit, PrivateFeed!FeedInit
  <1>2. MessageInv /\ [MessageSystemNext]_allVars => [Read]_<<privateSent, ranks>>
    <2> SUFFICES ASSUME MessageInv, [MessageSystemNext]_allVars
                 PROVE  Read \/ UNCHANGED <<privateSent, ranks>>
      OBVIOUS
    <2>1. CASE [Next]_vars /\ UNCHANGED <<shownPublic, shownPrivate>>
      <3>1. privateSent \in Seq(PrivateMessage) /\ PrivateMoves
        BY <2>1, LimitTypes, NextMovesQueues DEF MessageInv, ServerInv
      <3>2. ASSUME NEW m \in PrivateMessage, privateSent' = Append(privateSent, m)
            PROVE  PrivateFeed!Publish
        BY <2>1, <3>1, <3>2 DEF PrivateFeed!Publish
      <3>3. UNCHANGED privateSent \/ \E m \in PrivateMessage : privateSent' = Append(privateSent, m)
        BY <3>1 DEF PrivateMoves, QueuedNow, QueuesCleared, privateVars
      <3>4. QED
        BY <2>1, <3>2, <3>3
    <2>2. ASSUME NEW p \in Peers, ShowMessage(p)
          PROVE  Read \/ UNCHANGED <<privateSent, ranks>>
      <3>1. PICK item : item = Head(inbox[p])
        OBVIOUS
      <3>2. PICK line : line = [at |-> item.at, as |-> pseudonym[p]]
        OBVIOUS
      <3>3. /\ inbox[p] # <<>> /\ UNCHANGED privateSent
            /\ IF item.kind = "private"
                 THEN shownPrivate' = [shownPrivate EXCEPT ![p] = Append(@, line)]
                 ELSE UNCHANGED shownPrivate
        BY <2>2, <3>1, <3>2 DEF ShowMessage, TakeInbox, serverVars, privateVars
      <3>4. CASE item.kind = "private"
        <4>1. /\ item.at \in DOMAIN privateSent
              /\ \A i \in DOMAIN Ats(shownPrivate[p]) : Ats(shownPrivate[p])[i] < item.at
          BY <3>1, <3>3, <3>4, NextPrivateShown
        <4>2. /\ shownPrivate[p] \in Seq([at : Nat, as : Pseudonyms])
              /\ shownPrivate \in [Peers -> Seq([at : Nat, as : Pseudonyms])]
          BY DEF MessageInv, MessageTypes
        <4>3. pseudonym[p] \in Pseudonyms
          BY <3>3 DEF MessageInv, NameInv, ServerInv, TypeInv, TypeOK, ClientTypeOK
        <4>4. item.at \in Nat /\ line \in [at : Nat, as : Pseudonyms] /\ line.at = item.at
          BY <3>2, <4>1, <4>3, LimitTypes
        <4>5. Ats(shownPrivate'[p]) = Append(Ats(shownPrivate[p]), item.at)
          BY <3>3, <3>4, <4>2, <4>4, AtsAppend
        <4>6. \A q \in Peers : q # p => shownPrivate'[q] = shownPrivate[q]
          BY <3>3, <3>4, <4>2
        <4>7. ranks' = [ranks EXCEPT ![p] = Append(@, item.at)]
          BY <1>0, <4>5, <4>6
        <4>8. \A i \in DOMAIN ranks[p] : ranks[p][i] < item.at
          BY <1>0, <4>1
        <4>9. PrivateFeed!Show(p)
          BY <3>3, <4>1, <4>7, <4>8 DEF PrivateFeed!Show
        <4>10. QED
          BY <4>9
      <3>5. QED
        BY <3>3, <3>4
    <2>3. CASE UNCHANGED <<messageHistory, privateSent, shownPublic, shownPrivate>>
      BY <2>3
    <2>4. QED
      BY <2>1, <2>2, <2>3, WhoIsShown
  <1>3. QED
    BY <1>1, <1>2, MessageSafe, PTL
       DEF MessageSystemSpec, PrivateInOrder, PrivateFeed!FeedSpec, PrivateFeed!feedVars

-----------------------------------------------------------------------------
(* No public message is lost on the way, as long as users have names of    *)
(* their own.                                                              *)

\* The handler p reads from has found its place in the history.
Placed(p) == stream[p] # NoStream /\ handlers[stream[p]].pc # "start"

\* Some handler for p has public message i in hand.
Held(p, i) ==
    \E h \in StreamThreads :
       /\ handlers[h] # NoHandler /\ handlers[h].peer = p
       /\ handlers[h].item # NoItem /\ handlers[h].item.kind = "public" /\ handlers[h].item.at = i

\* Where public message i can be once it was taken for p.
Found(p, i) ==
    \/ \E k \in DOMAIN shownPublic[p] : shownPublic[p][k] = i
    \/ \E k \in DOMAIN inbox[p] : inbox[p][k].kind = "public" /\ inbox[p][k].at = i
    \/ Held(p, i)
    \/ i \in stolen[p]

\* A client reads a stream in the chat view only, where it is registered; so its
\* cursor stays, and each message it passed since the session began is found.
PlacedAt(p) ==
    /\ stream[p] # NoStream => view[p] = "chat"
    /\ Placed(p) =>
          /\ messageIndices[p] # NoIndex
          /\ \A i \in Nat : base[p] < i /\ i <= messageIndices[p] => Found(p, i)

PlacedInv == \A p \in Peers : PlacedAt(p)

\* What has to stay the same for p.
LEMMA PlacedFrame ==
    ASSUME NEW p \in Peers, PlacedAt(p),
           stream'[p] = stream[p], base'[p] = base[p],
           Placed(p)' <=> Placed(p),
           Placed(p) => messageIndices'[p] = messageIndices[p],
           stream[p] # NoStream => view'[p] = "chat",
           Placed(p) => \A i \in Nat : base[p] < i /\ Found(p, i) => Found(p, i)'
    PROVE  PlacedAt(p)'
  BY DEF PlacedAt

\* The steps of ChatSystem that leave the streams alone.
LEMMA BesidePlaced ==
    ASSUME MessageInv, PlacedInv, [Next]_vars,
           UNCHANGED <<handlers, stream, inbox, shownPublic, base, stolen>>,
           NEW p \in Peers,
           stream[p] # NoStream => view'[p] = "chat"
    PROVE  PlacedAt(p)'
  <1>1. messageIndices'[p] = messageIndices[p] /\ PlacedAt(p)
    BY LimitsGrow DEF PlacedInv
  <1>2. /\ Placed(p)' <=> Placed(p)
        /\ \A i \in Nat : Found(p, i)' <=> Found(p, i)
    BY DEF Placed, Found, Held
  <1>3. QED
    BY <1>1, <1>2, PlacedFrame

LEMMA ServerPlaced ==
    ASSUME MessageInv, PlacedInv, [Next]_vars,
           UNCHANGED <<handlers, stream, inbox, shownPublic, base, stolen>>,
           \/ \E t \in Threads : HandlerStep(t) \/ DropAnswer(t)
           \/ ObserverStep
    PROVE  PlacedInv'
  <1>1. UNCHANGED view
    BY HandlerShape, ObserverShape DEF Shape, DropAnswer, clientVars, MessageInv, ServerInv
  <1>2. QED
    BY <1>1, BesidePlaced DEF PlacedInv, PlacedAt

LEMMA OtherClientPlaced ==
    ASSUME MessageInv, SessionInv, PlacedInv, NEW q \in Peers, OtherClientStep(q),
           UNCHANGED messageSystemVars
    PROVE  PlacedInv'
  <1> SUFFICES ASSUME NEW p \in Peers
               PROVE  PlacedAt(p)'
    BY DEF PlacedInv
  <1>1. [Next]_vars /\ UNCHANGED <<handlers, stream, inbox, shownPublic, base, stolen>>
    BY DEF OtherClientStep, UserStep, ReplyStep, Next, messageSystemVars, streamVars, messageHistoryVars
  <1>2. view \in [Peers -> {"login", "chat", "leaving", "closing", "closed", "crashed"}]
    BY DEF MessageInv, ServerInv, TypeInv, TypeOK, ClientTypeOK
  <1>3. view[p] = "chat" => view'[p] = "chat"
    <2>1. CASE UNCHANGED view
      BY <2>1
    <2>2. CASE CloseUnused(q)
      BY <1>2, <2>2 DEF CloseUnused, SetView
    <2>3. CASE Disconnected(q)
      <3>1. view[q] \in {"leaving", "closing"}
        BY <2>3 DEF Disconnected, Returned, At, SessionInv, AwaitedInv
      <3>2. view' = [view EXCEPT ![q] = IF view[q] = "leaving" THEN "login" ELSE "closed"]
        BY <2>3 DEF Disconnected, SetView
      <3>3. p # q \/ view[p] # "chat"
        BY <3>1
      <3>4. QED
        BY <1>2, <3>2, <3>3
    <2>4. QED
      BY <2>1, <2>2, <2>3 DEF OtherClientStep, Login, ConnectTimesOut, LoginRejected, SendMessage,
                              MessageSent
  <1>4. QED
    BY <1>1, <1>3, BesidePlaced DEF PlacedInv, PlacedAt

LEMMA EnterPlaced ==
    ASSUME MessageInv, PlacedInv, NEW q \in Peers, EnterChat(q)
    PROVE  PlacedInv'
  <1> SUFFICES ASSUME NEW p \in Peers
               PROVE  PlacedAt(p)'
    BY DEF PlacedInv
  <1>1. /\ LoginSucceeded(q) /\ OpenStream(q) /\ StreamInv /\ UNCHANGED <<shownPublic, base, stolen>>
        /\ [Next]_vars
    BY DEF EnterChat, MessageInv, messageHistoryVars, ReplyStep, Next
  <1>2. view'[q] = "chat" /\ \A r \in Peers : r # q => view'[r] = view[r]
    BY <1>1 DEF LoginSucceeded, SetView, MessageInv, ServerInv, TypeInv, TypeOK, ClientTypeOK
  <1>3. /\ UNCHANGED inbox
        /\ \A r \in Peers : r # q => stream'[r] = stream[r]
        /\ \A k \in StreamThreads :
              \/ handlers'[k] = handlers[k]
              \/ handlers[k] = NoHandler /\ handlers'[k].item = NoItem
        /\ \A r \in Peers : r # q /\ stream[r] # NoStream => handlers'[stream[r]] = handlers[stream[r]]
        /\ \/ stream'[q] = stream[q] /\ UNCHANGED handlers
           \/ stream'[q] # NoStream /\ handlers'[stream'[q]].pc = "start"
    BY <1>1, OpensKept
  <1>4. \A i \in Nat : Found(p, i) => Found(p, i)'
    BY <1>1, <1>3 DEF Found, Held
  <1>5. PlacedAt(p) /\ messageIndices'[p] = messageIndices[p] /\ base'[p] = base[p]
    BY <1>1, LimitsGrow DEF PlacedInv
  <1>6. stream[p] # NoStream => view'[p] = "chat"
    BY <1>2, <1>5 DEF PlacedAt
  <1>7. CASE p = q /\ stream'[q] # NoStream /\ handlers'[stream'[q]].pc = "start"
    BY <1>2, <1>7 DEF PlacedAt, Placed
  <1>8. CASE p # q \/ (stream'[q] = stream[q] /\ UNCHANGED handlers)
    <2>1. stream'[p] = stream[p] /\ (Placed(p)' <=> Placed(p))
      BY <1>3, <1>8 DEF Placed
    <2>2. QED
      BY <1>4, <1>5, <1>6, <2>1, PlacedFrame
  <1>9. QED
    BY <1>3, <1>7, <1>8

LEMMA LeavePlaced ==
    ASSUME MessageInv, PlacedInv, NEW q \in Peers, LeaveChat(q)
    PROVE  PlacedInv'
  <1> SUFFICES ASSUME NEW p \in Peers
               PROVE  PlacedAt(p)'
    BY DEF PlacedInv
  <1>1. /\ Disconnect(q) \/ CloseWindow(q) \/ Crash(q)
        /\ StopStream(q) \/ AbandonStream(q)
        /\ [Next]_vars /\ StreamInv /\ MessageTypes
    BY DEF LeaveChat, UserStep, Next, MessageInv
  <1>2. /\ UNCHANGED <<shownPublic, handlers>>
        /\ \A r \in Peers : r # q => base'[r] = base[r] /\ stolen'[r] = stolen[r]
    BY <1>1, StopsKept DEF LeaveChat, MessageTypes
  <1>3. /\ stream'[q] = NoStream
        /\ \A r \in Peers : r # q => stream'[r] = stream[r] /\ inbox'[r] = inbox[r]
    BY <1>1, StopsKept
  <1>4. PICK v : view' = [view EXCEPT ![q] = v]
    BY <1>1 DEF Disconnect, CloseWindow, Crash, PrepareClose, SetView
  <1>5. \A r \in Peers : r # q => view'[r] = view[r]
    BY <1>4 DEF MessageInv, ServerInv, TypeInv, TypeOK, ClientTypeOK
  <1>6. CASE p = q
    BY <1>3, <1>6 DEF PlacedAt, Placed
  <1>7. CASE p # q
    <2>1. /\ Placed(p)' <=> Placed(p)
          /\ \A i \in Nat : Found(p, i) => Found(p, i)'
      BY <1>2, <1>3, <1>7 DEF Placed, Found, Held
    <2>2. /\ PlacedAt(p) /\ messageIndices'[p] = messageIndices[p]
          /\ stream[p] # NoStream => view'[p] = "chat"
      BY <1>1, <1>5, <1>7, LimitsGrow DEF PlacedInv, PlacedAt
    <2>3. stream'[p] = stream[p] /\ base'[p] = base[p]
      BY <1>2, <1>3, <1>7
    <2>4. QED
      BY <2>1, <2>2, <2>3, PlacedFrame
  <1>8. QED
    BY <1>6, <1>7

LEMMA ShowPlaced ==
    ASSUME MessageInv, PlacedInv, NEW q \in Peers, ShowMessage(q)
    PROVE  PlacedInv'
  <1> SUFFICES ASSUME NEW p \in Peers
               PROVE  PlacedAt(p)'
    BY DEF PlacedInv
  <1> DEFINE item == Head(inbox[q])
  <1>1. /\ StreamInv /\ MessageTypes /\ TakeInbox(q)
        /\ UNCHANGED <<clientVars, serverVars, base, stolen>>
    BY DEF ShowMessage, MessageInv
  <1>2. UNCHANGED <<view, messageIndices>>
    BY <1>1 DEF clientVars, serverVars, messageVars
  <1>3. /\ UNCHANGED <<handlers, stream>>
        /\ inbox[q] # <<>> /\ inbox[q] \in Seq(Item) /\ inbox'[q] = Tail(inbox[q])
        /\ item.at \in Nat
        /\ \A r \in Peers : r # q => inbox'[r] = inbox[r]
    BY <1>1, TakesKept
  <1>4. /\ shownPublic[q] \in Seq(Nat)
        /\ item.kind = "private" => UNCHANGED shownPublic
        /\ item.kind # "private" => shownPublic'[q] = Append(shownPublic[q], item.at)
        /\ \A r \in Peers : r # q => shownPublic'[r] = shownPublic[r]
    BY <1>1 DEF ShowMessage, MessageTypes
  <1>5. /\ Placed(p)' <=> Placed(p)
        /\ \A i \in Nat : Held(p, i)' <=> Held(p, i)
        /\ PlacedAt(p)
    BY <1>3 DEF Placed, Held, PlacedInv
  <1>6. CASE p # q
    <2>1. \A i \in Nat : Found(p, i)' <=> Found(p, i)
      BY <1>1, <1>3, <1>4, <1>5, <1>6 DEF Found
    <2>2. QED
      BY <1>1, <1>2, <1>3, <1>5, <1>6, <2>1, PlacedFrame DEF PlacedAt
  <1>7. CASE p = q
    <2>1. /\ 1 \in DOMAIN inbox[q] /\ item = inbox[q][1]
          /\ \A k \in DOMAIN inbox[q] : k # 1 => k - 1 \in DOMAIN Tail(inbox[q])
                                               /\ Tail(inbox[q])[k - 1] = inbox[q][k]
      BY <1>3
    <2>2. \A k \in DOMAIN shownPublic[q] : k \in DOMAIN shownPublic'[q]
                                             /\ shownPublic'[q][k] = shownPublic[q][k]
      <3>1. PICK at, old : at = item.at /\ old = shownPublic[q]
        OBVIOUS
      <3>2. at \in Nat /\ old \in Seq(Nat) /\ shownPublic'[q] \in {old, Append(old, at)}
        BY <1>3, <1>4, <3>1
      <3>3. \A k \in DOMAIN old : k \in DOMAIN Append(old, at) /\ Append(old, at)[k] = old[k]
        BY <3>2
      <3>4. QED
        BY <3>1, <3>2, <3>3
    <2>3. item.kind # "private" => \E k \in DOMAIN shownPublic'[q] : shownPublic'[q][k] = item.at
      <3>1. ASSUME item.kind # "private"
            PROVE  /\ Len(shownPublic[q]) + 1 \in DOMAIN shownPublic'[q]
                   /\ shownPublic'[q][Len(shownPublic[q]) + 1] = item.at
        BY <1>3, <1>4, <3>1
      <3>2. QED
        BY <3>1
    <2> HIDE DEF item
    <2>4. \A i \in Nat : Found(p, i) => Found(p, i)'
      <3> SUFFICES ASSUME NEW i \in Nat, Found(q, i)
                   PROVE  Found(q, i)'
        BY <1>7
      <3>1. CASE \E k \in DOMAIN shownPublic[q] : shownPublic[q][k] = i
        BY <2>2, <3>1 DEF Found
      <3>2. ASSUME NEW k \in DOMAIN inbox[q], inbox[q][k].kind = "public", inbox[q][k].at = i
            PROVE  Found(q, i)'
        <4>1. CASE k = 1
          BY <2>1, <2>3, <3>2, <4>1 DEF Found
        <4>2. CASE k # 1
          <5>1. /\ k - 1 \in DOMAIN inbox'[q]
                /\ inbox'[q][k - 1].kind = "public" /\ inbox'[q][k - 1].at = i
            BY <1>3, <2>1, <3>2, <4>2
          <5>2. QED
            BY <5>1 DEF Found
        <4>3. QED
          BY <4>1, <4>2
      <3>3. CASE Held(q, i) \/ i \in stolen[q]
        BY <1>1, <1>5, <1>7, <3>3 DEF Found
      <3>4. QED
        BY <3>1, <3>2, <3>3 DEF Found
    <2>5. QED
      BY <1>1, <1>2, <1>3, <1>5, <2>4, PlacedFrame DEF PlacedAt
  <1>8. QED
    BY <1>6, <1>7

\* What a handler for p does about p itself, one case per kind of step.
LEMMA HandlerEndsPlaced ==
    ASSUME MessageInv, SessionInv, PlacedInv, NEW h \in StreamThreads,
           NEW p \in Peers, p = handlers[h].peer, handlers[h] # NoHandler,
           UNCHANGED <<view, shownPublic>>, HandlerEnds(h, p)
    PROVE  PlacedAt(p)'
  <1>1. /\ StreamInv /\ StreamEnds(h) /\ handlers[h].item = NoItem /\ UNCHANGED <<base, stolen>>
    BY HandlerTypes DEF MessageInv, HandlerEnds
  <1>2. /\ UNCHANGED inbox
        /\ \A k \in StreamThreads : k # h => handlers'[k] = handlers[k]
        /\ stream[p] = h => stream'[p] = NoStream
        /\ stream[p] # h => stream'[p] = stream[p]
    BY <1>1, EndsKept
  <1>3. PlacedAt(p)
    BY DEF PlacedInv
  <1>4. CASE stream[p] = h
    BY <1>2, <1>3, <1>4 DEF PlacedAt, Placed
  <1>5. CASE stream[p] # h
    <2>1. stream[p] # NoStream => stream[p] \in StreamThreads /\ handlers'[stream[p]] = handlers[stream[p]]
      BY <1>1, <1>2, <1>5 DEF StreamInv, StreamTypeOK
    <2>2. Placed(p)' <=> Placed(p)
      BY <1>2, <1>5, <2>1 DEF Placed
    <2>3. Placed(p) => messageIndices'[p] = messageIndices[p]
      <3>1. Placed(p) => isPeerConnected(p) /\ messageIndices[p] # NoIndex
        BY <1>3 DEF PlacedAt, Placed, SessionInv, Registered
      <3>2. QED
        BY <3>1 DEF HandlerEnds, CursorAt
    <2>4. \A i \in Nat : Found(p, i) => Found(p, i)'
      BY <1>1, <1>2 DEF Found, Held
    <2>5. stream[p] # NoStream => view'[p] = "chat"
      BY <1>3 DEF PlacedAt
    <2>6. stream'[p] = stream[p] /\ base'[p] = base[p]
      BY <1>1, <1>2, <1>5
    <2>7. QED
      BY <1>3, <2>2, <2>3, <2>4, <2>5, <2>6, PlacedFrame
  <1>6. QED
    BY <1>4, <1>5

LEMMA HandlerGoesPlaced ==
    ASSUME MessageInv, SessionInv, PlacedInv, NEW h \in StreamThreads,
           NEW p \in Peers, p = handlers[h].peer, handlers[h] # NoHandler,
           UNCHANGED <<view, shownPublic>>, HandlerGoes(h, p)
    PROVE  PlacedAt(p)'
  <1>1. PICK pc \in {"queue", "loop", "privateWait", "public", "wait"} :
           StreamGoto(h, pc) /\ handlers[h].pc # "write"
    BY DEF HandlerGoes
  <1>2. /\ StreamInv /\ MessageTypes /\ UNCHANGED <<stream, inbox, stolen>> /\ handlers[h].item = NoItem
        /\ Moves(h, pc, NoItem)
    BY <1>1, GotoMoves, HandlerTypes DEF MessageInv, HandlerGoes, Places
  <1>3. /\ handlers'[h].pc = pc /\ \A k \in StreamThreads : k # h => handlers'[k] = handlers[k]
    BY <1>2 DEF Moves
  <1>4. /\ PlacedAt(p)
        /\ stream[p] # NoStream => stream[p] \in StreamThreads
        /\ stream[p] # NoStream => view'[p] = "chat"
        /\ stream[p] = h => stream[p] # NoStream
    BY <1>2, StreamAssumption DEF PlacedInv, PlacedAt, StreamInv, StreamTypeOK
  <1>5. \A i \in Nat : Found(p, i) => Found(p, i)'
    BY <1>2, <1>3 DEF Found, Held, Moves
  <1>6. CASE handlers[h].pc # "start" \/ stream[p] # h
    <2>1. Placed(p)' <=> Placed(p)
      <3>1. stream[p] # h => (Placed(p)' <=> Placed(p))
        BY <1>2, <1>3, <1>4 DEF Placed
      <3>2. stream[p] = h /\ handlers[h].pc # "start" => (Placed(p)' <=> Placed(p))
        BY <1>1, <1>2, <1>3, <1>4 DEF Placed
      <3>3. QED
        BY <1>6, <3>1, <3>2
    <2>2. Placed(p) => messageIndices'[p] = messageIndices[p]
      <3>1. Placed(p) => PublicLimit(p) = messageIndices[p]
        BY <1>4 DEF PlacedAt, PublicLimit
      <3>2. messageIndices'[p] \in {messageIndices[p], PublicLimit(p)}
        BY DEF HandlerGoes, CursorAt
      <3>3. QED
        BY <3>1, <3>2
    <2>3. UNCHANGED base
      BY <1>6 DEF HandlerGoes, Stale
    <2>4. QED
      BY <1>2, <1>4, <1>5, <2>1, <2>2, <2>3, PlacedFrame
  <1>7. CASE handlers[h].pc = "start" /\ stream[p] = h
    <2>1. CursorAt(p, PublicLimit(p)) /\ base' = [base EXCEPT ![p] = PublicLimit(p)]
      BY <1>4, <1>7 DEF HandlerGoes, Stale
    <2>2. /\ messageIndices'[p] = PublicLimit(p) /\ base'[p] = PublicLimit(p)
          /\ PublicLimit(p) \in Nat
      BY <1>2, <2>1, LimitTypes DEF CursorAt, MessageTypes
    <2>3. /\ messageIndices'[p] # NoIndex
          /\ \A i \in Nat : ~(base'[p] < i /\ i <= messageIndices'[p])
      BY <2>2 DEF NoIndex
    <2>4. QED
      BY <1>2, <1>4, <2>3 DEF PlacedAt
  <1>8. QED
    BY <1>6, <1>7

\* The handler in h takes item for p, and the cursor moves past it.
LEMMA HandlerTakesPlaced ==
    ASSUME MessageInv, PlacedInv, NEW h \in StreamThreads,
           NEW p \in Peers, p = handlers[h].peer, handlers[h] # NoHandler, handlers[h].pc # "write",
           UNCHANGED <<view, shownPublic, base, stolen>>,
           NEW item \in Item, StreamTakes(h, item), handlers[h].pc # "start",
           \/ CursorAt(p, messageIndices[p])
           \/ item.kind = "public" /\ item.at = PublicLimit(p) + 1 /\ CursorAt(p, item.at)
    PROVE  PlacedAt(p)'
  <1>1. /\ StreamInv /\ PublicLimit(p) \in Nat /\ handlers[h].item = NoItem
        /\ item # NoItem /\ item.at \in Nat
    BY LimitTypes, HandlerTypes, StreamAssumption DEF MessageInv, Item
  <1>2. Moves(h, "write", item) /\ UNCHANGED <<stream, inbox>>
    BY <1>1, TakesMoves
  <1>3. /\ handlers'[h].pc = "write" /\ handlers'[h].item = item /\ handlers'[h] # NoHandler
        /\ handlers'[h].peer = p
        /\ \A k \in StreamThreads : k # h => handlers'[k] = handlers[k]
    BY <1>2 DEF Moves
  <1>4. /\ PlacedAt(p)
        /\ stream[p] # NoStream => stream[p] \in StreamThreads /\ view'[p] = "chat"
        /\ stream[p] = h => stream[p] # NoStream
    BY <1>1, StreamAssumption DEF PlacedInv, PlacedAt, StreamInv, StreamTypeOK
  <1>5. \A i \in Nat : Found(p, i) => Found(p, i)'
    BY <1>1, <1>2, <1>3 DEF Found, Held
  <1>6. Placed(p)' <=> Placed(p)
    <2>1. stream[p] # h => (Placed(p)' <=> Placed(p))
      BY <1>2, <1>3, <1>4 DEF Placed
    <2>2. stream[p] = h => (Placed(p)' <=> Placed(p))
      BY <1>2, <1>3, <1>4 DEF Placed
    <2>3. QED
      BY <2>1, <2>2
  <1>7. CASE CursorAt(p, messageIndices[p])
    BY <1>2, <1>4, <1>5, <1>6, <1>7, PlacedFrame DEF CursorAt
  <1>8. CASE item.kind = "public" /\ item.at = PublicLimit(p) + 1 /\ CursorAt(p, item.at)
    <2>1. messageIndices'[p] = item.at /\ messageIndices'[p] # NoIndex
      BY <1>1, <1>8 DEF CursorAt, NoIndex
    <2>2. Found(p, item.at)'
      <3>1. /\ handlers'[h] # NoHandler /\ handlers'[h].peer = p /\ handlers'[h].item # NoItem
            /\ handlers'[h].item.kind = "public" /\ handlers'[h].item.at = item.at
        BY <1>1, <1>3, <1>8
      <3>2. QED
        BY <3>1 DEF Found, Held
    <2>3. ASSUME Placed(p), NEW i \in Nat, base'[p] < i, i <= messageIndices'[p]
          PROVE  Found(p, i)'
      <3>1. messageIndices[p] = PublicLimit(p) /\ base'[p] = base[p]
        BY <1>4, <2>3 DEF PlacedAt, PublicLimit
      <3>2. i <= messageIndices[p] \/ i = item.at
        BY <1>1, <1>8, <2>1, <2>3, <3>1
      <3>3. i <= messageIndices[p] => Found(p, i)
        BY <1>4, <2>3, <3>1 DEF PlacedAt
      <3>4. QED
        BY <1>5, <2>2, <3>2, <3>3
    <2>4. QED
      BY <1>2, <1>4, <1>6, <2>1, <2>3 DEF PlacedAt
  <1>9. QED
    BY <1>7, <1>8

LEMMA HandlerWritesPlaced ==
    ASSUME MessageInv, PlacedInv, NEW h \in StreamThreads,
           NEW p \in Peers, p = handlers[h].peer, handlers[h] # NoHandler,
           UNCHANGED <<view, shownPublic>>, HandlerWrites(h, p)
    PROVE  PlacedAt(p)'
  <1>0. PICK item : item = handlers[h].item
    OBVIOUS
  <1>1. /\ StreamInv /\ UNCHANGED base /\ messageIndices'[p] = messageIndices[p]
        /\ PlacedAt(p)
        /\ stream[p] # NoStream => stream[p] \in StreamThreads /\ view'[p] = "chat"
        /\ stream[p] = h => stream[p] # NoStream
        /\ inbox[p] \in Seq(Item)
    <2>1. PlacedAt(p)
      BY DEF PlacedInv
    <2>2. StreamInv /\ UNCHANGED base /\ messageIndices'[p] = messageIndices[p]
      BY DEF MessageInv, HandlerWrites, CursorAt
    <2>3. /\ stream[p] # NoStream => stream[p] \in StreamThreads /\ view'[p] = "chat"
          /\ inbox[p] \in Seq(Item)
      BY <2>1, <2>2 DEF PlacedAt, StreamInv, StreamTypeOK
    <2>4. QED
      BY <2>1, <2>2, <2>3, StreamAssumption
  <1>2. CASE StreamWrites(h) /\ UNCHANGED stolen
    <2>1. /\ item \in Item /\ stream[p] = h /\ Moves(h, "loop", NoItem) /\ UNCHANGED stream
          /\ inbox'[p] = Append(inbox[p], item) /\ handlers[h].pc = "write"
      <3>1. handlers[h].pc = "write"
        BY <1>2 DEF StreamWrites, Serving
      <3>2. /\ item \in Item /\ stream[p] = h /\ Moves(h, "loop", NoItem) /\ UNCHANGED stream
            /\ inbox'[p] = Append(inbox[p], item)
        BY <1>0, <1>1, <1>2, WritesKept
      <3>3. QED
        BY <3>1, <3>2
    <2>2. handlers'[h].pc = "loop" /\ \A k \in StreamThreads : k # h => handlers'[k] = handlers[k]
      BY <2>1 DEF Moves
    <2>3. Placed(p) /\ Placed(p)'
      BY <1>1, <2>1, <2>2 DEF Placed
    <2>4. /\ Len(inbox[p]) + 1 \in DOMAIN inbox'[p] /\ inbox'[p][Len(inbox[p]) + 1] = item
          /\ \A k \in DOMAIN inbox[p] : k \in DOMAIN inbox'[p] /\ inbox'[p][k] = inbox[p][k]
      BY <1>1, <2>1
    <2>5. \A i \in Nat : Found(p, i) => Found(p, i)'
      <3> SUFFICES ASSUME NEW i \in Nat, Found(p, i)
                   PROVE  Found(p, i)'
        OBVIOUS
      <3>1. CASE (\E k \in DOMAIN shownPublic[p] : shownPublic[p][k] = i) \/ i \in stolen[p]
        BY <1>2, <3>1 DEF Found
      <3>2. CASE \E k \in DOMAIN inbox[p] : inbox[p][k].kind = "public" /\ inbox[p][k].at = i
        BY <2>4, <3>2 DEF Found
      <3>3. CASE Held(p, i)
        <4>1. PICK k \in StreamThreads :
                 /\ handlers[k] # NoHandler /\ handlers[k].peer = p
                 /\ handlers[k].item # NoItem /\ handlers[k].item.kind = "public"
                 /\ handlers[k].item.at = i
          BY <3>3 DEF Held
        <4>2. CASE k = h
          BY <1>0, <2>4, <4>1, <4>2 DEF Found
        <4>3. CASE k # h
          BY <2>2, <4>1, <4>3 DEF Found, Held
        <4>4. QED
          BY <4>2, <4>3
      <3>4. QED
        BY <3>1, <3>2, <3>3 DEF Found
    <2>6. QED
      BY <1>1, <2>1, <2>3, <2>5, PlacedFrame
  <1>3. CASE /\ StreamWriteLost(h)
             /\ stolen' = IF /\ handlers[h].item.kind = "public"
                             /\ Subscribed(p) /\ handlers[h].item.at > base[p]
                            THEN [stolen EXCEPT ![p] = @ \cup {handlers[h].item.at}] ELSE stolen
    <2>1. /\ UNCHANGED <<stream, inbox>> /\ stream[p] # h
          /\ \A k \in StreamThreads : k # h => handlers'[k] = handlers[k]
      BY <1>1, <1>3, WriteLostKept
    <2>2. Placed(p)' <=> Placed(p)
      BY <1>1, <2>1 DEF Placed
    <2>3. ASSUME Placed(p), NEW i \in Nat, base[p] < i, Found(p, i)
          PROVE  Found(p, i)'
      <3>1. /\ stolen[p] \subseteq stolen'[p]
            /\ item.kind = "public" /\ item.at > base[p] => item.at \in stolen'[p]
        <4>1. Subscribed(p)
          BY <1>1, <2>3 DEF Subscribed, Placed, PlacedAt
        <4>2. QED
          BY <1>0, <1>3, <4>1 DEF MessageInv, MessageTypes
      <3>2. CASE Held(p, i)
        <4>1. PICK k \in StreamThreads :
                 /\ handlers[k] # NoHandler /\ handlers[k].peer = p
                 /\ handlers[k].item # NoItem /\ handlers[k].item.kind = "public"
                 /\ handlers[k].item.at = i
          BY <3>2 DEF Held
        <4>2. CASE k = h
          <5>1. item.kind = "public" /\ item.at = i /\ i > base[p]
            BY <1>0, <2>3, <4>1, <4>2 DEF MessageInv, MessageTypes
          <5>2. QED
            BY <3>1, <5>1 DEF Found
        <4>3. CASE k # h
          BY <2>1, <4>1, <4>3 DEF Found, Held
        <4>4. QED
          BY <4>2, <4>3
      <3>3. QED
        BY <2>1, <2>3, <3>1, <3>2 DEF Found
    <2>4. QED
      BY <1>1, <2>1, <2>2, <2>3, PlacedFrame
  <1>4. QED
    BY <1>2, <1>3 DEF HandlerWrites

LEMMA HandlerPlaced ==
    ASSUME MessageInv, SessionInv, PlacedInv, NEW h \in StreamThreads, MessagesHandler(h)
    PROVE  PlacedInv'
  <1> PICK p : p = handlers[h].peer
    OBVIOUS
  <1>1. /\ handlers[h] # NoHandler /\ p \in Peers /\ StreamStep
        /\ \/ HandlerEnds(h, p) \/ HandlerGoes(h, p)
           \/ TakesPublic(h, p) \/ TakesPrivate(h, p) \/ HandlerWrites(h, p)
    BY HandlerCases
  <1>2. UNCHANGED <<view, shownPublic>>
    BY <1>1 DEF StreamStep, clientVars
  <1>3. StreamInv /\ MessageTypes
    BY DEF MessageInv
  <1>4. TakesPublic(h, p) \/ TakesPrivate(h, p) =>
          \E item \in Item :
             /\ StreamTakes(h, item) /\ handlers[h].pc # "start" /\ handlers[h].pc # "write"
             /\ UNCHANGED <<base, stolen>>
             /\ \/ CursorAt(p, messageIndices[p])
                \/ item.kind = "public" /\ item.at = PublicLimit(p) + 1 /\ CursorAt(p, item.at)
    <2>1. CASE TakesPublic(h, p)
      <3>1. PICK item : item = [kind |-> "public", at |-> PublicLimit(p) + 1]
        OBVIOUS
      <3>2. item \in Item /\ item.kind = "public" /\ item.at = PublicLimit(p) + 1
        BY <1>1, <3>1, LimitTypes DEF Item
      <3>3. QED
        BY <2>1, <3>1, <3>2 DEF TakesPublic
    <2>2. CASE TakesPrivate(h, p)
      <3>1. PICK id : id = Head(peerMessageQueues[p]).id
        OBVIOUS
      <3>2. peerMessageQueues[p] # <<>> /\ peerMessageQueues[p] \in Seq(PrivateMessage)
        BY <1>1, <2>2, LimitTypes DEF TakesPrivate, TakePrivate
      <3>3. Head(peerMessageQueues[p]) \in PrivateMessage
        BY <3>2
      <3>4. id \in Nat
        BY <3>1, <3>3 DEF PrivateMessage
      <3>5. [kind |-> "private", at |-> id] \in Item
        BY <3>4 DEF Item
      <3>6. QED
        BY <2>2, <3>1, <3>5 DEF TakesPrivate
    <2>3. QED
      BY <2>1, <2>2
  <1>5. PlacedAt(p)'
    BY <1>1, <1>2, <1>4, HandlerEndsPlaced, HandlerGoesPlaced, HandlerTakesPlaced, HandlerWritesPlaced
  <1>6. /\ \A k \in StreamThreads : k # h => handlers'[k] = handlers[k]
        /\ \A q \in Peers : q # p => stream'[q] = stream[q] /\ inbox'[q] = inbox[q]
    <2>1. CASE HandlerEnds(h, p)
      <3>1. \A q \in Peers : q # p => stream[q] # h
        BY <1>1, <1>3, StreamAssumption DEF StreamInv
      <3>2. QED
        BY <1>3, <2>1, <3>1, EndsKept DEF HandlerEnds
    <2>2. CASE HandlerGoes(h, p)
      <3>1. PICK pc \in Places : StreamGoto(h, pc) /\ handlers[h].pc # "write"
        BY <2>2 DEF HandlerGoes, Places
      <3>2. QED
        BY <1>1, <1>3, <3>1, GotoMoves DEF Moves
    <2>3. CASE TakesPublic(h, p) \/ TakesPrivate(h, p)
      BY <1>1, <1>3, <1>4, <2>3, TakesMoves DEF Moves
    <2>4. CASE HandlerWrites(h, p)
      <3>1. CASE StreamWrites(h)
        BY <1>3, <3>1, WritesKept DEF Moves
      <3>2. CASE StreamWriteLost(h)
        BY <1>3, <3>2, WriteLostKept
      <3>3. QED
        BY <2>4, <3>1, <3>2 DEF HandlerWrites
    <2>5. QED
      BY <1>1, <2>1, <2>2, <2>3, <2>4
  <1>7. \A q \in Peers : q # p => /\ messageIndices'[q] = messageIndices[q]
                                  /\ base'[q] = base[q] /\ stolen'[q] = stolen[q]
    <2>1. \A q \in Peers : q # p => messageIndices'[q] = messageIndices[q]
      BY <1>1 DEF HandlerEnds, HandlerGoes, TakesPublic, TakesPrivate, HandlerWrites, CursorAt
    <2>2. \A q \in Peers : q # p => base'[q] = base[q]
      BY <1>1, <1>3 DEF HandlerEnds, HandlerGoes, TakesPublic, TakesPrivate, HandlerWrites, MessageTypes
    <2>3. \A q \in Peers : q # p => stolen'[q] = stolen[q]
      BY <1>1, <1>3 DEF HandlerEnds, HandlerGoes, TakesPublic, TakesPrivate, HandlerWrites, MessageTypes
    <2>4. QED
      BY <2>1, <2>2, <2>3
  <1>8. ASSUME NEW q \in Peers, q # p
        PROVE  PlacedAt(q)'
    <2>1. stream[q] # NoStream => stream[q] \in StreamThreads /\ stream[q] # h
      BY <1>1, <1>3, <1>8, StreamAssumption DEF StreamInv, StreamTypeOK
    <2>2. Placed(q)' <=> Placed(q)
      BY <1>6, <1>8, <2>1 DEF Placed
    <2>3. \A i \in Nat : Found(q, i) => Found(q, i)'
      BY <1>2, <1>6, <1>7, <1>8 DEF Found, Held
    <2>4. PlacedAt(q)
      BY DEF PlacedInv
    <2>5. stream[q] # NoStream => view'[q] = "chat"
      BY <1>2, <2>4 DEF PlacedAt
    <2>6. QED
      BY <1>6, <1>7, <1>8, <2>2, <2>3, <2>4, <2>5, PlacedFrame
  <1>9. QED
    BY <1>5, <1>8 DEF PlacedInv

LEMMA CancelPlaced ==
    ASSUME MessageInv, PlacedInv, NEW h \in StreamThreads, CancelStep(h)
    PROVE  PlacedInv'
  <1> SUFFICES ASSUME NEW p \in Peers
               PROVE  PlacedAt(p)'
    BY DEF PlacedInv
  <1>1. /\ StreamInv /\ UNCHANGED <<stream, inbox, shownPublic, base, stolen, view, messageIndices>>
        /\ handlers[h] # NoHandler /\ Moves(h, handlers[h].pc, handlers[h].item)
    BY CancelMoves DEF CancelStep, MessageInv, messageHistoryVars, clientVars, serverVars, messageVars
  <1>2. /\ \A k \in StreamThreads : /\ handlers[k] # NoHandler <=> handlers'[k] # NoHandler
                                    /\ handlers[k] # NoHandler =>
                                          /\ handlers'[k].peer = handlers[k].peer
                                          /\ handlers'[k].pc = handlers[k].pc
                                          /\ handlers'[k].item = handlers[k].item
    BY <1>1 DEF Moves
  <1>3. stream[p] # NoStream => stream[p] \in StreamThreads /\ handlers[stream[p]] # NoHandler
    BY <1>1 DEF StreamInv, StreamTypeOK
  <1>4. Placed(p)' <=> Placed(p)
    BY <1>1, <1>2, <1>3 DEF Placed
  <1>5. \A i \in Nat : Found(p, i) => Found(p, i)'
    BY <1>1, <1>2 DEF Found, Held
  <1>6. PlacedAt(p)
    BY DEF PlacedInv
  <1>7. stream[p] # NoStream => view'[p] = "chat"
    BY <1>1, <1>6 DEF PlacedAt
  <1>8. QED
    BY <1>1, <1>4, <1>5, <1>6, <1>7, PlacedFrame

LEMMA MessagePlaced ==
    ASSUME MessageInv, SessionInv, PlacedInv, [MessageSystemNext]_allVars
    PROVE  PlacedInv'
  <1>1. ASSUME NEW t \in Threads, HandlerStep(t) \/ DropAnswer(t), UNCHANGED messageSystemVars
        PROVE  PlacedInv'
    <2>1. [Next]_vars /\ UNCHANGED <<handlers, stream, inbox, shownPublic, base, stolen>>
      BY <1>1 DEF Next, messageSystemVars, streamVars, messageHistoryVars
    <2>2. QED
      BY <1>1, <2>1, ServerPlaced
  <1>2. CASE WalkStep
    <2>1. ObserverStep /\ [Next]_vars /\ UNCHANGED <<handlers, stream, inbox, shownPublic, base, stolen>>
      BY <1>2 DEF WalkStep, Next, streamVars
    <2>2. QED
      BY <2>1, ServerPlaced
  <1>3. CASE UNCHANGED <<serverVars, clientVars, messageSystemVars>>
    <2>1. UNCHANGED <<handlers, stream, inbox, shownPublic, base, stolen, view, messageIndices>>
      BY <1>3 DEF messageSystemVars, streamVars, messageHistoryVars, clientVars, serverVars, messageVars
    <2>2. QED
      BY <2>1 DEF PlacedInv, PlacedAt, Placed, Found, Held
  <1>4. UNCHANGED allVars => UNCHANGED <<serverVars, clientVars, messageSystemVars>>
    BY DEF allVars, vars
  <1>5. QED
    BY <1>1, <1>2, <1>3, <1>4, OtherClientPlaced, EnterPlaced, LeavePlaced, ShowPlaced, HandlerPlaced,
       CancelPlaced DEF MessageSystemNext, UnaryStep

LEMMA InitPlaced == MessageSystemInit => PlacedInv
  <1> SUFFICES ASSUME MessageSystemInit, NEW p \in Peers
               PROVE  PlacedAt(p)
    BY DEF PlacedInv
  <1>1. stream[p] = NoStream
    BY DEF MessageSystemInit, StreamInit
  <1>2. QED
    BY <1>1 DEF PlacedAt, Placed

LEMMA PlacedSafe == MessageSystemSpec => [](MessageInv /\ (NamesAreOwn => PlacedInv))
  <1>1. MessageInv /\ (NamesAreOwn => PlacedInv) /\ [MessageSystemNext]_allVars => (NamesAreOwn => PlacedInv)'
    <2>1. NamesAreOwn' <=> NamesAreOwn
      BY DEF NamesAreOwn
    <2>2. MessageInv /\ NamesAreOwn => SessionInv
      BY DEF MessageInv, ServerInv
    <2>3. QED
      BY <2>1, <2>2, MessagePlaced
  <1>2. QED
    BY <1>1, InitPlaced, MessageSafe, PTL DEF MessageSystemSpec

\* With names of their own, between the cursor and the screen no public message is
\* lost, whatever stale handlers do beside the session: each one the cursor has passed was shown, is
\* under way, or was taken by a stale handler that shares the cursor.
THEOREM NoMessageLost == MessageSystemSpec => []PublicAccountedFor
  <1>1. MessageInv /\ (NamesAreOwn => PlacedInv) => PublicAccountedFor
    <2> SUFFICES ASSUME MessageInv, PlacedInv, NEW p \in Watchers, Subscribed(p),
                        NEW i \in (base[p] + 1)..messageIndices[p]
                 PROVE  i \in ToSet(shownPublic[p]) \cup stolen[p] \cup InHand(p, "public")
                               \cup {inbox[p][k].at : k \in {j \in DOMAIN inbox[p] :
                                                              inbox[p][j].kind = "public"}}
      BY DEF PublicAccountedFor
    <2>1. p \in Peers
      BY StreamAssumption
    <2>2. base[p] \in Nat /\ messageIndices[p] \in Nat
      BY <2>1, LimitTypes DEF MessageInv, MessageTypes, Subscribed
    <2>3. i \in Nat /\ base[p] < i /\ i <= messageIndices[p]
      BY <2>2
    <2>4. Placed(p) /\ PlacedAt(p)
      BY <2>1 DEF PlacedInv, Placed, Subscribed
    <2>5. Found(p, i)
      BY <2>3, <2>4 DEF PlacedAt
    <2>6. Held(p, i) => i \in InHand(p, "public")
      BY DEF Held, InHand
    <2>7. QED
      BY <2>5, <2>6 DEF Found, ToSet
  <1>2. QED
    BY <1>1, PlacedSafe, PTL

-----------------------------------------------------------------------------
(* Where private messages are kept.                                        *)

\* The ranks of a queue, and of what one client was shown.
Ids(queue) == {queue[k].id : k \in DOMAIN queue}

Ranks(shown) == {shown[k].at : k \in DOMAIN shown}

\* The private message the handler in h has in hand.
HandIds(h) ==
    IF handlers[h] # NoHandler /\ handlers[h].item # NoItem /\ handlers[h].item.kind = "private"
      THEN {handlers[h].item.at} ELSE {}

Lost == <<"lost", "lost">>

Sites == ({"queue", "box", "screen"} \X Peers) \cup ({"hand"} \X StreamThreads) \cup {Lost}

Content(s) ==
    IF s[1] = "queue" THEN QueuedFor(s[2])
    ELSE IF s[1] = "hand" THEN HandIds(s[2])
    ELSE IF s[1] = "box" THEN PrivateIn(inbox[s[2]])
    ELSE IF s[1] = "screen" THEN PrivateShown(s[2]) ELSE lost

Contents == [s \in Sites |-> Content(s)]

\* The sites share out the ranks from 1 to size: each is at one of them.
Tally(content, size) ==
    /\ \A s \in Sites : content[s] \subseteq 1..size
    /\ \A i \in 1..size : \E s \in Sites : i \in content[s]
    /\ \A s, t \in Sites : s # t => content[s] \cap content[t] = {}

TallyInv == Tally(Contents, Len(privateSent))

LEMMA IdsAppend ==
    ASSUME NEW queue \in Seq(PrivateMessage), NEW payload \in PrivateMessage
    PROVE  Ids(Append(queue, payload)) = Ids(queue) \cup {payload.id}
  <1> DEFINE n == Len(queue)
             more == Append(queue, payload)
  <1>1. /\ n \in Nat /\ DOMAIN queue = 1..n /\ DOMAIN more = 1..(n + 1)
        /\ more[n + 1] = payload /\ \A k \in 1..n : more[k] = queue[k]
    OBVIOUS
  <1> HIDE DEF n, more
  <1>2. \A k \in 1..(n + 1) : k = n + 1 \/ k \in 1..n
    BY <1>1
  <1>3. n + 1 \in 1..(n + 1) /\ \A k \in 1..n : k \in 1..(n + 1)
    BY <1>1
  <1>4. Ids(more) = Ids(queue) \cup {payload.id}
    BY <1>1, <1>2, <1>3 DEF Ids
  <1>5. QED
    BY <1>4 DEF more

LEMMA IdsTail ==
    ASSUME NEW queue \in Seq(PrivateMessage), NEW size, Sorted(queue, size), queue # <<>>
    PROVE  /\ Head(queue).id \in Ids(queue)
           /\ Ids(Tail(queue)) = Ids(queue) \ {Head(queue).id}
  <1> DEFINE n == Len(queue)
             rest == Tail(queue)
  <1>1. /\ n \in Nat /\ n > 0 /\ DOMAIN queue = 1..n /\ DOMAIN rest = 1..(n - 1)
        /\ \A k \in 1..(n - 1) : rest[k] = queue[k + 1] /\ k + 1 \in 1..n /\ 1 < k + 1
        /\ Head(queue) = queue[1] /\ 1 \in 1..n
    OBVIOUS
  <1> HIDE DEF n, rest
  <1>2. \A k \in 1..n : k = 1 \/ (k - 1 \in 1..(n - 1) /\ k = (k - 1) + 1)
    BY <1>1
  <1>3. \A k \in 1..n : k # 1 => rest[k - 1] = queue[k] /\ k - 1 \in 1..(n - 1)
    BY <1>1, <1>2
  <1>4. \A k \in 1..(n - 1) : queue[k + 1].id # queue[1].id
    <2>1. \A k \in 1..n : queue[k].id \in 1..size
      BY <1>1 DEF Sorted
    <2>2. \A k \in 1..(n - 1) : queue[1].id < queue[k + 1].id
      BY <1>1 DEF Sorted
    <2>3. QED
      BY <1>1, <2>1, <2>2
  <1>5. Ids(rest) = Ids(queue) \ {queue[1].id}
    <2>1. Ids(rest) \subseteq Ids(queue) \ {queue[1].id}
      BY <1>1, <1>4 DEF Ids
    <2>2. ASSUME NEW k \in DOMAIN queue, k # 1
          PROVE  queue[k].id \in Ids(rest)
      <3>1. k - 1 \in DOMAIN rest /\ rest[k - 1].id = queue[k].id
        BY <1>1, <1>3, <2>2
      <3>2. QED
        BY <3>1 DEF Ids
    <2>3. \A i \in Ids(queue) : i \in Ids(rest) \/ i = queue[1].id
      BY <2>2 DEF Ids
    <2>4. QED
      BY <2>1, <2>3
  <1>6. QED
    BY <1>1, <1>5 DEF Ids, rest

LEMMA RanksAppend ==
    ASSUME NEW s \in Seq([at : Nat, as : Pseudonyms]), NEW r \in [at : Nat, as : Pseudonyms]
    PROVE  Ranks(Append(s, r)) = Ranks(s) \cup {r.at}
  <1> DEFINE n == Len(s)
             more == Append(s, r)
  <1>1. /\ n \in Nat /\ DOMAIN s = 1..n /\ DOMAIN more = 1..(n + 1)
        /\ more[n + 1] = r /\ \A k \in 1..n : more[k] = s[k]
    OBVIOUS
  <1> HIDE DEF n, more
  <1>2. \A k \in 1..(n + 1) : k = n + 1 \/ k \in 1..n
    BY <1>1
  <1>3. n + 1 \in 1..(n + 1) /\ \A k \in 1..n : k \in 1..(n + 1)
    BY <1>1
  <1>4. Ranks(more) = Ranks(s) \cup {r.at}
    BY <1>1, <1>2, <1>3 DEF Ranks
  <1>5. QED
    BY <1>4 DEF more

LEMMA BoxAppend ==
    ASSUME NEW box \in Seq(Item), NEW item \in Item
    PROVE  PrivateIn(Append(box, item)) =
             PrivateIn(box) \cup (IF item.kind = "private" THEN {item.at} ELSE {})
  <1> DEFINE n == Len(box)
             more == Append(box, item)
  <1>1. /\ n \in Nat /\ DOMAIN box = 1..n /\ DOMAIN more = 1..(n + 1)
        /\ more[n + 1] = item /\ \A k \in 1..n : more[k] = box[k]
    OBVIOUS
  <1> HIDE DEF n, more
  <1>2. \A k \in 1..(n + 1) : k = n + 1 \/ k \in 1..n
    BY <1>1
  <1>3. n + 1 \in 1..(n + 1) /\ \A k \in 1..n : k \in 1..(n + 1)
    BY <1>1
  <1>4. PrivateIn(more) = PrivateIn(box) \cup (IF item.kind = "private" THEN {item.at} ELSE {})
    BY <1>1, <1>2, <1>3 DEF PrivateIn
  <1>5. QED
    BY <1>4 DEF more

\* The head of an inbox in line leaves it for good.
LEMMA BoxTail ==
    ASSUME NEW box \in Seq(Item), NEW shown, NEW hand, NEW limit,
           InLine(shown, box, hand, "private", limit), box # <<>>
    PROVE  IF Head(box).kind = "private"
             THEN /\ Head(box).at \in PrivateIn(box)
                  /\ PrivateIn(Tail(box)) = PrivateIn(box) \ {Head(box).at}
             ELSE PrivateIn(Tail(box)) = PrivateIn(box)
  <1> DEFINE n == Len(box)
             rest == Tail(box)
  <1>1. /\ n \in Nat /\ n > 0 /\ DOMAIN box = 1..n /\ DOMAIN rest = 1..(n - 1)
        /\ \A k \in 1..(n - 1) : rest[k] = box[k + 1] /\ k + 1 \in 1..n /\ 1 < k + 1
        /\ Head(box) = box[1] /\ 1 \in 1..n
    OBVIOUS
  <1> HIDE DEF n, rest
  <1>2. \A k \in 1..n : k = 1 \/ (k - 1 \in 1..(n - 1) /\ k = (k - 1) + 1)
    BY <1>1
  <1>3. \A k \in 1..n : k # 1 => rest[k - 1] = box[k] /\ k - 1 \in 1..(n - 1)
    BY <1>1, <1>2
  <1>4. \A k \in 1..n : box[k].kind = "private" => box[k].at \in 1..limit
    BY <1>1 DEF InLine
  <1>5. \A k \in 1..(n - 1) : box[1].kind = "private" /\ box[k + 1].kind = "private" =>
                                 box[k + 1].at # box[1].at
    <2>1. \A k \in 1..(n - 1) : box[1].kind = "private" /\ box[k + 1].kind = "private" =>
                                   box[1].at < box[k + 1].at
      BY <1>1 DEF InLine
    <2>2. QED
      BY <1>1, <1>4, <2>1
  <1>6. PrivateIn(rest) \subseteq PrivateIn(box)
    BY <1>1 DEF PrivateIn
  <1>7. box[1].kind = "private" => box[1].at \in PrivateIn(box) /\ box[1].at \notin PrivateIn(rest)
    BY <1>1, <1>5 DEF PrivateIn
  <1>8. \A i \in PrivateIn(box) : i \in PrivateIn(rest) \/ (box[1].kind = "private" /\ i = box[1].at)
    BY <1>1, <1>3 DEF PrivateIn
  <1>9. CASE box[1].kind = "private"
    <2>1. PrivateIn(rest) = PrivateIn(box) \ {box[1].at}
      BY <1>6, <1>7, <1>8, <1>9
    <2>2. QED
      BY <1>1, <1>7, <1>9, <2>1 DEF rest
  <1>10. CASE box[1].kind # "private"
    <2>1. PrivateIn(rest) = PrivateIn(box)
      BY <1>6, <1>8, <1>10
    <2>2. QED
      BY <1>1, <1>10, <2>1 DEF rest
  <1>11. QED
    BY <1>9, <1>10

LEMMA BoxPrefix ==
    ASSUME NEW box \in Seq(Item), NEW k \in 0..Len(box)
    PROVE  PrivateIn(SubSeq(box, 1, k)) \subseteq PrivateIn(box)
  <1>1. \A j \in DOMAIN SubSeq(box, 1, k) : j \in DOMAIN box /\ SubSeq(box, 1, k)[j] = box[j]
    OBVIOUS
  <1>2. PICK part : part = SubSeq(box, 1, k)
    OBVIOUS
  <1>3. QED
    BY <1>1, <1>2 DEF PrivateIn

-----------------------------------------------------------------------------
(* Moving a message from one site to another.                              *)

\* What a site loses, target gains.
LEMMA TallyMoves ==
    ASSUME NEW before, NEW after, NEW size, NEW target \in Sites, Tally(before, size),
           \A s \in Sites : s # target => after[s] \subseteq before[s],
           \A i : i \in after[target] <=>
                    \/ i \in before[target]
                    \/ \E s \in Sites : s # target /\ i \in before[s] /\ i \notin after[s]
    PROVE  Tally(after, size)
  <1>1. \A s \in Sites : after[s] \subseteq 1..size
    BY DEF Tally
  <1>2. \A i \in 1..size : \E s \in Sites : i \in after[s]
    BY DEF Tally
  <1>3. ASSUME NEW s \in Sites, s # target
        PROVE  after[s] \cap after[target] = {}
    BY <1>3 DEF Tally
  <1>4. ASSUME NEW s \in Sites, NEW t \in Sites, s # t
        PROVE  after[s] \cap after[t] = {}
    <2>1. CASE s # target /\ t # target
      BY <1>4, <2>1 DEF Tally
    <2>2. QED
      BY <1>3, <1>4, <2>1
  <1>5. QED
    BY <1>1, <1>2, <1>4 DEF Tally

\* A message of the next rank arrives at target.
LEMMA TallyNew ==
    ASSUME NEW before, NEW after, NEW size \in Nat, NEW target \in Sites, Tally(before, size),
           \A s \in Sites : s # target => after[s] = before[s],
           after[target] = before[target] \cup {size + 1}
    PROVE  Tally(after, size + 1)
  <1>1. \A i \in 1..size : i \in 1..(size + 1) /\ i # size + 1
    OBVIOUS
  <1>2. size + 1 \in 1..(size + 1) /\ \A i \in 1..(size + 1) : i = size + 1 \/ i \in 1..size
    OBVIOUS
  <1>3. \A s \in Sites : after[s] \subseteq 1..(size + 1)
    BY <1>1, <1>2 DEF Tally
  <1>4. \A i \in 1..(size + 1) : \E s \in Sites : i \in after[s]
    BY <1>2 DEF Tally
  <1>5. ASSUME NEW s \in Sites, s # target
        PROVE  after[s] \cap after[target] = {}
    BY <1>1, <1>5 DEF Tally
  <1>6. ASSUME NEW s \in Sites, NEW t \in Sites, s # t
        PROVE  after[s] \cap after[t] = {}
    <2>1. CASE s # target /\ t # target
      BY <1>6, <2>1 DEF Tally
    <2>2. QED
      BY <1>5, <1>6, <2>1
  <1>7. QED
    BY <1>3, <1>4, <1>6 DEF Tally

\* The sites, and what is at each before and after a step.
LEMMA SiteContents ==
    /\ \A p \in Peers :
          /\ <<"queue", p>> \in Sites /\ Contents[<<"queue", p>>] = QueuedFor(p)
                                      /\ Contents'[<<"queue", p>>] = QueuedFor(p)'
          /\ <<"box", p>> \in Sites /\ Contents[<<"box", p>>] = PrivateIn(inbox[p])
                                    /\ Contents'[<<"box", p>>] = PrivateIn(inbox'[p])
          /\ <<"screen", p>> \in Sites /\ Contents[<<"screen", p>>] = PrivateShown(p)
                                       /\ Contents'[<<"screen", p>>] = PrivateShown(p)'
    /\ \A h \in StreamThreads :
          /\ <<"hand", h>> \in Sites /\ Contents[<<"hand", h>>] = HandIds(h)
                                     /\ Contents'[<<"hand", h>>] = HandIds(h)'
    /\ Lost \in Sites /\ Contents[Lost] = lost /\ Contents'[Lost] = lost'
    /\ \A s \in Sites : \/ \E p \in Peers : s = <<"queue", p>> \/ s = <<"box", p>> \/ s = <<"screen", p>>
                        \/ \E h \in StreamThreads : s = <<"hand", h>>
                        \/ s = Lost
  <1>1. \A p \in Peers : <<"queue", p>> \in Sites /\ <<"box", p>> \in Sites /\ <<"screen", p>> \in Sites
    BY DEF Sites
  <1>2. \A h \in StreamThreads : <<"hand", h>> \in Sites
    BY DEF Sites
  <1>3. Lost \in Sites
    BY DEF Sites
  <1>4. \A s \in Sites : \/ \E p \in Peers : s = <<"queue", p>> \/ s = <<"box", p>> \/ s = <<"screen", p>>
                         \/ \E h \in StreamThreads : s = <<"hand", h>>
                         \/ s = Lost
    BY DEF Sites
  <1>5. \A s \in Sites : Contents[s] = Content(s) /\ Contents'[s] = Content(s)'
    BY DEF Contents
  <1>6. ASSUME NEW p
        PROVE  /\ Content(<<"queue", p>>) = QueuedFor(p) /\ Content(<<"queue", p>>)' = QueuedFor(p)'
               /\ Content(<<"box", p>>) = PrivateIn(inbox[p])
               /\ Content(<<"box", p>>)' = PrivateIn(inbox'[p])
               /\ Content(<<"screen", p>>) = PrivateShown(p)
               /\ Content(<<"screen", p>>)' = PrivateShown(p)'
               /\ Content(<<"hand", p>>) = HandIds(p) /\ Content(<<"hand", p>>)' = HandIds(p)'
    BY DEF Content
  <1>7. Content(Lost) = lost /\ Content(Lost)' = lost'
    BY DEF Content, Lost
  <1>8. QED
    BY <1>1, <1>2, <1>3, <1>4, <1>5, <1>6, <1>7

\* What holds of each kind of site holds of every site.
LEMMA EverySite ==
    ASSUME NEW R,
           \A p \in Peers : <<"queue", p>> \in R /\ <<"box", p>> \in R /\ <<"screen", p>> \in R,
           \A h \in StreamThreads : <<"hand", h>> \in R,
           Lost \in R
    PROVE  Sites \subseteq R
  BY SiteContents

\* What is gone from where it was kept is lost.
LEMMA MoveToLost ==
    ASSUME TallyInv, UNCHANGED privateSent,
           \A p \in Peers : /\ QueuedFor(p)' \subseteq QueuedFor(p)
                            /\ PrivateIn(inbox'[p]) \subseteq PrivateIn(inbox[p])
                            /\ PrivateShown(p)' = PrivateShown(p),
           \A h \in StreamThreads : HandIds(h)' \subseteq HandIds(h),
           \A i : i \in lost' <=>
                    \/ i \in lost
                    \/ \E p \in Peers : i \in QueuedFor(p) /\ i \notin QueuedFor(p)'
                    \/ \E p \in Peers : i \in PrivateIn(inbox[p]) /\ i \notin PrivateIn(inbox'[p])
                    \/ \E h \in StreamThreads : i \in HandIds(h) /\ i \notin HandIds(h)'
    PROVE  TallyInv'
  <1> DEFINE before == Contents
             after == Contents'
             size == Len(privateSent)
  <1>1. Tally(before, size)
    BY DEF TallyInv
  <1>2. /\ \A p \in Peers :
              /\ <<"queue", p>> \in Sites /\ <<"box", p>> \in Sites /\ <<"screen", p>> \in Sites
              /\ before[<<"queue", p>>] = QueuedFor(p) /\ after[<<"queue", p>>] = QueuedFor(p)'
              /\ before[<<"box", p>>] = PrivateIn(inbox[p]) /\ after[<<"box", p>>] = PrivateIn(inbox'[p])
              /\ before[<<"screen", p>>] = PrivateShown(p) /\ after[<<"screen", p>>] = PrivateShown(p)'
              /\ <<"queue", p>> # Lost /\ <<"box", p>> # Lost /\ <<"screen", p>> # Lost
        /\ \A h \in StreamThreads :
              /\ <<"hand", h>> \in Sites /\ <<"hand", h>> # Lost
              /\ before[<<"hand", h>>] = HandIds(h) /\ after[<<"hand", h>>] = HandIds(h)'
        /\ Lost \in Sites /\ before[Lost] = lost /\ after[Lost] = lost'
        /\ \A s \in Sites :
              \/ \E p \in Peers : s = <<"queue", p>> \/ s = <<"box", p>> \/ s = <<"screen", p>>
              \/ \E h \in StreamThreads : s = <<"hand", h>>
              \/ s = Lost
    BY SiteContents DEF Lost
  <1>3. UNCHANGED privateSent /\ Len(privateSent)' = size
    OBVIOUS
  <1> HIDE DEF before, after, size
  <1>4. \A s \in Sites : s # Lost => after[s] \subseteq before[s]
    <2> DEFINE R == {s \in Sites : s # Lost => after[s] \subseteq before[s]}
    <2>1. \A p \in Peers : <<"queue", p>> \in R /\ <<"box", p>> \in R /\ <<"screen", p>> \in R
      BY <1>2
    <2>2. \A h \in StreamThreads : <<"hand", h>> \in R
      BY <1>2
    <2>3. Lost \in R
      BY <1>2
    <2> HIDE DEF R
    <2>4. Sites \subseteq R
      BY <2>1, <2>2, <2>3, EverySite
    <2>5. QED
      BY <2>4 DEF R
  <1>5. \A i : i \in after[Lost] <=>
                 \/ i \in before[Lost]
                 \/ \E s \in Sites : s # Lost /\ i \in before[s] /\ i \notin after[s]
    <2> SUFFICES ASSUME NEW i
                 PROVE  i \in after[Lost] <=>
                          \/ i \in before[Lost]
                          \/ \E s \in Sites : s # Lost /\ i \in before[s] /\ i \notin after[s]
      OBVIOUS
    <2>1. ASSUME i \in lost', i \notin lost
          PROVE  \E s \in Sites : s # Lost /\ i \in before[s] /\ i \notin after[s]
      <3>1. ASSUME NEW p \in Peers, i \in QueuedFor(p), i \notin QueuedFor(p)'
            PROVE  \E s \in Sites : s # Lost /\ i \in before[s] /\ i \notin after[s]
        <4>1. /\ <<"queue", p>> \in Sites /\ <<"queue", p>> # Lost
              /\ i \in before[<<"queue", p>>] /\ i \notin after[<<"queue", p>>]
          BY <1>2, <3>1
        <4>2. QED
          BY <4>1
      <3>2. ASSUME NEW p \in Peers, i \in PrivateIn(inbox[p]), i \notin PrivateIn(inbox'[p])
            PROVE  \E s \in Sites : s # Lost /\ i \in before[s] /\ i \notin after[s]
        <4>1. /\ <<"box", p>> \in Sites /\ <<"box", p>> # Lost
              /\ i \in before[<<"box", p>>] /\ i \notin after[<<"box", p>>]
          BY <1>2, <3>2
        <4>2. QED
          BY <4>1
      <3>3. ASSUME NEW h \in StreamThreads, i \in HandIds(h), i \notin HandIds(h)'
            PROVE  \E s \in Sites : s # Lost /\ i \in before[s] /\ i \notin after[s]
        <4>1. /\ <<"hand", h>> \in Sites /\ <<"hand", h>> # Lost
              /\ i \in before[<<"hand", h>>] /\ i \notin after[<<"hand", h>>]
          BY <1>2, <3>3
        <4>2. QED
          BY <4>1
      <3>4. QED
        BY <2>1, <3>1, <3>2, <3>3
    <2>2. ASSUME NEW s \in Sites, s # Lost, i \in before[s], i \notin after[s]
          PROVE  i \in lost'
      <3>1. ASSUME NEW p \in Peers, s = <<"queue", p>>
            PROVE  i \in lost'
        <4>1. i \in QueuedFor(p) /\ i \notin QueuedFor(p)'
          BY <1>2, <2>2, <3>1
        <4>2. QED
          BY <4>1
      <3>2. ASSUME NEW p \in Peers, s = <<"box", p>>
            PROVE  i \in lost'
        <4>1. i \in PrivateIn(inbox[p]) /\ i \notin PrivateIn(inbox'[p])
          BY <1>2, <2>2, <3>2
        <4>2. QED
          BY <4>1
      <3>3. ASSUME NEW p \in Peers, s = <<"screen", p>>
            PROVE  i \in lost'
        <4>1. i \in PrivateShown(p) /\ i \notin PrivateShown(p)'
          BY <1>2, <2>2, <3>3
        <4>2. QED
          BY <4>1
      <3>4. ASSUME NEW h \in StreamThreads, s = <<"hand", h>>
            PROVE  i \in lost'
        <4>1. i \in HandIds(h) /\ i \notin HandIds(h)'
          BY <1>2, <2>2, <3>4
        <4>2. QED
          BY <4>1
      <3>5. QED
        BY <1>2, <2>2, <3>1, <3>2, <3>3, <3>4
    <2>3. i \in lost => i \in lost'
      OBVIOUS
    <2>4. QED
      BY <1>2, <2>1, <2>2, <2>3
  <1>6. Tally(after, size)
    BY <1>1, <1>2, <1>4, <1>5, TallyMoves
  <1>7. QED
    BY <1>3, <1>6 DEF TallyInv, after

\* The first message of p's queue is taken by the handler in h.
LEMMA MoveToHand ==
    ASSUME TallyInv, UNCHANGED privateSent, NEW p \in Peers, NEW h \in StreamThreads, NEW id,
           id \in QueuedFor(p), QueuedFor(p)' = QueuedFor(p) \ {id},
           HandIds(h) = {}, HandIds(h)' = {id},
           \A q \in Peers : /\ q # p => QueuedFor(q)' = QueuedFor(q)
                            /\ PrivateIn(inbox'[q]) = PrivateIn(inbox[q])
                            /\ PrivateShown(q)' = PrivateShown(q),
           \A k \in StreamThreads : k # h => HandIds(k)' = HandIds(k),
           UNCHANGED lost
    PROVE  TallyInv'
  <1> DEFINE before == Contents
             after == Contents'
             size == Len(privateSent)
             target == <<"hand", h>>
             source == <<"queue", p>>
  <1>1. Tally(before, size)
    BY DEF TallyInv
  <1>2. /\ target \in Sites /\ source \in Sites /\ source # target
        /\ before[target] = {} /\ after[target] = {id}
        /\ id \in before[source] /\ after[source] = before[source] \ {id}
    BY SiteContents
  <1>3. \A s \in Sites : s # source /\ s # target => after[s] = before[s]
    <2> DEFINE R == {s \in Sites : s # source /\ s # target => after[s] = before[s]}
    <2>1. ASSUME NEW q \in Peers
          PROVE  <<"queue", q>> \in R /\ <<"box", q>> \in R /\ <<"screen", q>> \in R
      <3>1. CASE q = p
        BY <3>1, SiteContents
      <3>2. CASE q # p
        BY <3>2, SiteContents
      <3>3. QED
        BY <3>1, <3>2
    <2>2. ASSUME NEW k \in StreamThreads
          PROVE  <<"hand", k>> \in R
      BY SiteContents
    <2>3. Lost \in R
      BY SiteContents
    <2> HIDE DEF R
    <2>4. Sites \subseteq R
      BY <2>1, <2>2, <2>3, EverySite
    <2>5. QED
      BY <2>4 DEF R
  <1>4. UNCHANGED privateSent /\ Len(privateSent)' = size
    OBVIOUS
  <1> HIDE DEF before, after, size, target, source
  <1>5. \A s \in Sites : s # target => after[s] \subseteq before[s]
    BY <1>2, <1>3
  <1>6. \A i : i \in after[target] <=>
                 \/ i \in before[target]
                 \/ \E s \in Sites : s # target /\ i \in before[s] /\ i \notin after[s]
    BY <1>2, <1>3
  <1>7. Tally(after, size)
    BY <1>1, <1>2, <1>5, <1>6, TallyMoves
  <1>8. QED
    BY <1>4, <1>7 DEF TallyInv, after

\* The handler in h writes a message to p.
LEMMA MoveToBox ==
    ASSUME TallyInv, UNCHANGED privateSent, NEW p \in Peers, NEW h \in StreamThreads,
           HandIds(h)' = {}, PrivateIn(inbox'[p]) = PrivateIn(inbox[p]) \cup HandIds(h),
           \A q \in Peers : /\ q # p => PrivateIn(inbox'[q]) = PrivateIn(inbox[q])
                            /\ QueuedFor(q)' = QueuedFor(q)
                            /\ PrivateShown(q)' = PrivateShown(q),
           \A k \in StreamThreads : k # h => HandIds(k)' = HandIds(k),
           UNCHANGED lost
    PROVE  TallyInv'
  <1> DEFINE before == Contents
             after == Contents'
             size == Len(privateSent)
             target == <<"box", p>>
             source == <<"hand", h>>
  <1>1. Tally(before, size)
    BY DEF TallyInv
  <1>2. /\ target \in Sites /\ source \in Sites /\ source # target
        /\ after[target] = before[target] \cup before[source] /\ after[source] = {}
    BY SiteContents
  <1>3. \A s \in Sites : s # source /\ s # target => after[s] = before[s]
    <2> DEFINE R == {s \in Sites : s # source /\ s # target => after[s] = before[s]}
    <2>1. ASSUME NEW q \in Peers
          PROVE  <<"queue", q>> \in R /\ <<"box", q>> \in R /\ <<"screen", q>> \in R
      <3>1. CASE q = p
        BY <3>1, SiteContents
      <3>2. CASE q # p
        BY <3>2, SiteContents
      <3>3. QED
        BY <3>1, <3>2
    <2>2. ASSUME NEW k \in StreamThreads
          PROVE  <<"hand", k>> \in R
      BY SiteContents
    <2>3. Lost \in R
      BY SiteContents
    <2> HIDE DEF R
    <2>4. Sites \subseteq R
      BY <2>1, <2>2, <2>3, EverySite
    <2>5. QED
      BY <2>4 DEF R
  <1>4. UNCHANGED privateSent /\ Len(privateSent)' = size
    OBVIOUS
  <1> HIDE DEF before, after, size, target, source
  <1>5. \A s \in Sites : s # target => after[s] \subseteq before[s]
    BY <1>2, <1>3
  <1>6. \A i : i \in after[target] <=>
                 \/ i \in before[target]
                 \/ \E s \in Sites : s # target /\ i \in before[s] /\ i \notin after[s]
    BY <1>2, <1>3
  <1>7. Tally(after, size)
    BY <1>1, <1>2, <1>5, <1>6, TallyMoves
  <1>8. QED
    BY <1>4, <1>7 DEF TallyInv, after

\* p is shown the message at the head of its inbox.
LEMMA MoveToScreen ==
    ASSUME TallyInv, UNCHANGED privateSent, NEW p \in Peers, NEW id,
           id \in PrivateIn(inbox[p]), PrivateIn(inbox'[p]) = PrivateIn(inbox[p]) \ {id},
           PrivateShown(p)' = PrivateShown(p) \cup {id},
           \A q \in Peers : /\ q # p => /\ PrivateIn(inbox'[q]) = PrivateIn(inbox[q])
                                        /\ PrivateShown(q)' = PrivateShown(q)
                            /\ QueuedFor(q)' = QueuedFor(q),
           \A k \in StreamThreads : HandIds(k)' = HandIds(k),
           UNCHANGED lost
    PROVE  TallyInv'
  <1> DEFINE before == Contents
             after == Contents'
             size == Len(privateSent)
             target == <<"screen", p>>
             source == <<"box", p>>
  <1>1. Tally(before, size)
    BY DEF TallyInv
  <1>2. /\ target \in Sites /\ source \in Sites /\ source # target
        /\ after[target] = before[target] \cup {id}
        /\ id \in before[source] /\ after[source] = before[source] \ {id}
    BY SiteContents
  <1>3. \A s \in Sites : s # source /\ s # target => after[s] = before[s]
    <2> DEFINE R == {s \in Sites : s # source /\ s # target => after[s] = before[s]}
    <2>1. ASSUME NEW q \in Peers
          PROVE  <<"queue", q>> \in R /\ <<"box", q>> \in R /\ <<"screen", q>> \in R
      <3>1. CASE q = p
        BY <3>1, SiteContents
      <3>2. CASE q # p
        BY <3>2, SiteContents
      <3>3. QED
        BY <3>1, <3>2
    <2>2. ASSUME NEW k \in StreamThreads
          PROVE  <<"hand", k>> \in R
      BY SiteContents
    <2>3. Lost \in R
      BY SiteContents
    <2> HIDE DEF R
    <2>4. Sites \subseteq R
      BY <2>1, <2>2, <2>3, EverySite
    <2>5. QED
      BY <2>4 DEF R
  <1>4. UNCHANGED privateSent /\ Len(privateSent)' = size
    OBVIOUS
  <1> HIDE DEF before, after, size, target, source
  <1>5. \A s \in Sites : s # target => after[s] \subseteq before[s]
    BY <1>2, <1>3
  <1>6. \A i : i \in after[target] <=>
                 \/ i \in before[target]
                 \/ \E s \in Sites : s # target /\ i \in before[s] /\ i \notin after[s]
    BY <1>2, <1>3
  <1>7. Tally(after, size)
    BY <1>1, <1>2, <1>5, <1>6, TallyMoves
  <1>8. QED
    BY <1>4, <1>7 DEF TallyInv, after

\* A message is queued for p.
LEMMA MoveToQueue ==
    ASSUME TallyInv, NEW p \in Peers, Len(privateSent) \in Nat,
           Len(privateSent)' = Len(privateSent) + 1,
           QueuedFor(p)' = QueuedFor(p) \cup {Len(privateSent) + 1},
           \A q \in Peers : /\ q # p => QueuedFor(q)' = QueuedFor(q)
                            /\ PrivateIn(inbox'[q]) = PrivateIn(inbox[q])
                            /\ PrivateShown(q)' = PrivateShown(q),
           \A k \in StreamThreads : HandIds(k)' = HandIds(k),
           UNCHANGED lost
    PROVE  TallyInv'
  <1> DEFINE before == Contents
             after == Contents'
             size == Len(privateSent)
             target == <<"queue", p>>
  <1>1. Tally(before, size) /\ size \in Nat
    BY DEF TallyInv
  <1>2. target \in Sites /\ after[target] = before[target] \cup {size + 1}
    BY SiteContents
  <1>3. \A s \in Sites : s # target => after[s] = before[s]
    <2> DEFINE R == {s \in Sites : s # target => after[s] = before[s]}
    <2>1. ASSUME NEW q \in Peers
          PROVE  <<"queue", q>> \in R /\ <<"box", q>> \in R /\ <<"screen", q>> \in R
      <3>1. CASE q = p
        BY <3>1, SiteContents
      <3>2. CASE q # p
        BY <3>2, SiteContents
      <3>3. QED
        BY <3>1, <3>2
    <2>2. ASSUME NEW k \in StreamThreads
          PROVE  <<"hand", k>> \in R
      BY SiteContents
    <2>3. Lost \in R
      BY SiteContents
    <2> HIDE DEF R
    <2>4. Sites \subseteq R
      BY <2>1, <2>2, <2>3, EverySite
    <2>5. QED
      BY <2>4 DEF R
  <1>4. Len(privateSent)' = size + 1
    OBVIOUS
  <1> HIDE DEF before, after, size, target
  <1>5. Tally(after, size + 1)
    BY <1>1, <1>2, <1>3, TallyNew
  <1>6. QED
    BY <1>4, <1>5 DEF TallyInv, after

-----------------------------------------------------------------------------
(* Every step shares the private messages out anew.                        *)

LEMMA HandsAre ==
    ASSUME NEW k
    PROVE  /\ handlers'[k] = handlers[k] => HandIds(k)' = HandIds(k)
           /\ handlers'[k] = NoHandler \/ handlers'[k].item = NoItem => HandIds(k)' = {}
           /\ handlers[k] = NoHandler \/ handlers[k].item = NoItem => HandIds(k) = {}
           /\ handlers[k] # NoHandler /\ handlers'[k] # NoHandler
                /\ handlers'[k].item = handlers[k].item => HandIds(k)' = HandIds(k)
  BY DEF HandIds

LEMMA QueuesAre ==
    ASSUME NEW p
    PROVE  /\ QueuedFor(p) = Ids(peerMessageQueues[p])
           /\ QueuedFor(p)' = Ids(peerMessageQueues'[p])
           /\ PrivateShown(p) = Ranks(shownPrivate[p])
           /\ PrivateShown(p)' = Ranks(shownPrivate'[p])
  BY DEF QueuedFor, Ids, PrivateShown, Ranks

\* No private message moves.
LEMMA NoneMoves ==
    ASSUME TallyInv, UNCHANGED <<peerMessageQueues, privateSent, inbox, shownPrivate, lost>>,
           \A k \in StreamThreads : HandIds(k)' = HandIds(k)
    PROVE  TallyInv'
  <1>1. \A p \in Peers : /\ QueuedFor(p)' = QueuedFor(p)
                         /\ PrivateIn(inbox'[p]) = PrivateIn(inbox[p])
                         /\ PrivateShown(p)' = PrivateShown(p)
    BY QueuesAre
  <1>2. QED
    BY <1>1, MoveToLost

\* A handler that has nothing private in hand may erase its peer's queue.
LEMMA ErasedTally ==
    ASSUME MessageInv, TallyInv, UNCHANGED <<privateSent, inbox, shownPrivate>>,
           \A k \in StreamThreads : HandIds(k)' = HandIds(k),
           NEW p \in Peers, QueueKept \/ QueueErased(p)
    PROVE  TallyInv'
  <1>1. CASE QueueKept
    BY <1>1, NoneMoves DEF QueueKept
  <1>2. CASE QueueErased(p)
    <2>1. /\ peerMessageQueues'[p] = <<>>
          /\ \A q \in Peers : q # p => peerMessageQueues'[q] = peerMessageQueues[q]
          /\ lost' = lost \cup QueuedFor(p)
      BY <1>2, LimitTypes DEF QueueErased, EraseQueue
    <2>2. Ids(<<>>) = {}
      BY DEF Ids
    <2>3. /\ QueuedFor(p)' = {}
          /\ \A q \in Peers : q # p => QueuedFor(q)' = QueuedFor(q)
      BY <2>1, <2>2, QueuesAre
    <2>4. \A q \in Peers : QueuedFor(q)' \subseteq QueuedFor(q)
      BY <2>3
    <2>5. \A q \in Peers : /\ PrivateIn(inbox'[q]) = PrivateIn(inbox[q])
                           /\ PrivateShown(q)' = PrivateShown(q)
      BY QueuesAre
    <2>6. \A i : i \in lost' <=>
                   \/ i \in lost
                   \/ \E q \in Peers : i \in QueuedFor(q) /\ i \notin QueuedFor(q)'
      BY <2>1, <2>3
    <2>7. QED
      BY <2>4, <2>5, <2>6, MoveToLost
  <1>3. QED
    BY <1>1, <1>2

LEMMA HandlerTally ==
    ASSUME MessageInv, TallyInv, NEW h \in StreamThreads, MessagesHandler(h)
    PROVE  TallyInv'
  <1>0. PICK p : p = handlers[h].peer
    OBVIOUS
  <1>1. /\ handlers[h] # NoHandler /\ p \in Peers /\ StreamStep
        /\ \/ HandlerEnds(h, p) \/ HandlerGoes(h, p)
           \/ TakesPublic(h, p) \/ TakesPrivate(h, p) \/ HandlerWrites(h, p)
    BY <1>0, HandlerCases
  <1>2. StreamInv /\ UNCHANGED <<privateSent, shownPrivate>>
    BY <1>1 DEF StreamStep, MessageInv
  <1>3. \A q \in Peers : PrivateShown(q)' = PrivateShown(q)
    BY <1>2, QueuesAre
  <1>4. handlers[h].pc # "write" => HandIds(h) = {}
    BY <1>1, <1>2, HandlerTypes, HandsAre
  <1>5. CASE HandlerEnds(h, p)
    <2>1. StreamEnds(h) /\ handlers[h].pc # "write" /\ (QueueKept \/ QueueErased(p))
      BY <1>5 DEF HandlerEnds
    <2>2. /\ UNCHANGED inbox /\ handlers'[h] = NoHandler
          /\ \A k \in StreamThreads : k # h => handlers'[k] = handlers[k]
      BY <1>2, <2>1, EndsKept
    <2>3. \A k \in StreamThreads : HandIds(k)' = HandIds(k)
      BY <1>4, <2>1, <2>2, HandsAre
    <2>4. QED
      BY <1>1, <1>2, <2>1, <2>2, <2>3, ErasedTally
  <1>6. CASE HandlerGoes(h, p)
    <2>1. PICK pc \in {"queue", "loop", "privateWait", "public", "wait"} :
             StreamGoto(h, pc) /\ handlers[h].pc # "write"
      BY <1>6 DEF HandlerGoes
    <2>2. Moves(h, pc, NoItem) /\ UNCHANGED <<stream, inbox>>
      BY <1>1, <1>2, <2>1, GotoMoves DEF Places
    <2>3. \A k \in StreamThreads : HandIds(k)' = HandIds(k)
      BY <1>4, <2>1, <2>2, HandsAre DEF Moves
    <2>4. QueueKept \/ QueueErased(p)
      BY <1>6 DEF HandlerGoes
    <2>5. QED
      BY <1>1, <1>2, <2>2, <2>3, <2>4, ErasedTally
  <1>7. CASE TakesPublic(h, p)
    <2> DEFINE item == [kind |-> "public", at |-> PublicLimit(p) + 1]
    <2>1. StreamTakes(h, item) /\ handlers[h].pc # "write" /\ QueueKept
      BY <1>7 DEF TakesPublic
    <2>2. item \in Item /\ item.kind = "public"
      BY <1>1, LimitTypes DEF Item
    <2> HIDE DEF item
    <2>3. Moves(h, "write", item) /\ UNCHANGED <<stream, inbox>>
      BY <1>1, <1>2, <2>1, <2>2, TakesMoves
    <2>4. HandIds(h)' = {}
      BY <2>2, <2>3 DEF HandIds, Moves
    <2>5. \A k \in StreamThreads : HandIds(k)' = HandIds(k)
      BY <1>4, <2>1, <2>3, <2>4, HandsAre DEF Moves
    <2>6. QED
      BY <1>2, <2>1, <2>3, <2>5, NoneMoves DEF QueueKept
  <1>8. CASE TakesPrivate(h, p)
    <2> DEFINE queue == peerMessageQueues[p]
               id == Head(queue).id
               item == [kind |-> "private", at |-> id]
    <2>1. /\ StreamTakes(h, item) /\ handlers[h].pc # "write" /\ TakePrivate(p)
          /\ UNCHANGED lost
      BY <1>8 DEF TakesPrivate
    <2>2. /\ queue \in Seq(PrivateMessage) /\ queue # <<>> /\ Sorted(queue, Len(privateSent))
          /\ peerMessageQueues'[p] = Tail(queue)
          /\ \A q \in Peers : q # p => peerMessageQueues'[q] = peerMessageQueues[q]
      BY <1>1, <2>1, LimitTypes DEF TakePrivate, MessageInv, QueueInv
    <2>3. id \in Nat
      BY <2>2, LimitTypes, SortedTail
    <2>4. item \in Item /\ item.kind = "private" /\ item.at = id /\ item # NoItem
      BY <2>3, StreamAssumption DEF Item
    <2>5. id \in Ids(queue) /\ Ids(Tail(queue)) = Ids(queue) \ {id}
      BY <2>2, IdsTail
    <2> HIDE DEF queue, id, item
    <2>6. Moves(h, "write", item) /\ UNCHANGED <<stream, inbox>>
      BY <1>1, <1>2, <2>1, <2>4, TakesMoves
    <2>7. HandIds(h)' = {id} /\ HandIds(h) = {}
      BY <1>4, <2>1, <2>4, <2>6 DEF HandIds, Moves
    <2>8. \A k \in StreamThreads : k # h => HandIds(k)' = HandIds(k)
      BY <2>6, HandsAre DEF Moves
    <2>9. /\ id \in QueuedFor(p) /\ QueuedFor(p)' = QueuedFor(p) \ {id}
          /\ \A q \in Peers : q # p => QueuedFor(q)' = QueuedFor(q)
      BY <2>2, <2>5, QueuesAre DEF queue
    <2>10. QED
      BY <1>1, <1>2, <1>3, <2>1, <2>6, <2>7, <2>8, <2>9, MoveToHand
  <1>9. CASE HandlerWrites(h, p)
    <2>1. UNCHANGED peerMessageQueues /\ \A q \in Peers : QueuedFor(q)' = QueuedFor(q)
      BY <1>9, QueuesAre DEF HandlerWrites
    <2>2. CASE StreamWrites(h) /\ UNCHANGED lost
      <3>1. PICK item : item = handlers[h].item
        OBVIOUS
      <3>2. /\ item \in Item /\ Moves(h, "loop", NoItem)
            /\ inbox'[p] = Append(inbox[p], item)
            /\ \A q \in Peers : q # p => inbox'[q] = inbox[q]
        BY <1>0, <1>2, <2>2, <3>1, WritesKept
      <3>3. inbox[p] \in Seq(Item) /\ item # NoItem
        BY <1>1, <3>2, ShownTypes, StreamAssumption
      <3>4. PrivateIn(inbox'[p]) =
              PrivateIn(inbox[p]) \cup (IF item.kind = "private" THEN {item.at} ELSE {})
        BY <3>2, <3>3, BoxAppend
      <3>5. HandIds(h) = IF item.kind = "private" THEN {item.at} ELSE {}
        BY <1>1, <3>1, <3>3 DEF HandIds
      <3>6. HandIds(h)' = {} /\ \A k \in StreamThreads : k # h => HandIds(k)' = HandIds(k)
        BY <3>2, HandsAre DEF Moves
      <3>7. PrivateIn(inbox'[p]) = PrivateIn(inbox[p]) \cup HandIds(h)
        BY <3>4, <3>5
      <3>8. QED
        BY <1>1, <1>2, <1>3, <2>1, <2>2, <3>2, <3>6, <3>7, MoveToBox
    <2>3. CASE /\ StreamWriteLost(h)
               /\ lost' = IF handlers[h].item.kind = "private" THEN lost \cup {handlers[h].item.at}
                                                               ELSE lost
      <3>1. /\ UNCHANGED inbox /\ handlers[h].item \in Item
            /\ handlers'[h] = NoHandler \/ Moves(h, "loop", NoItem)
            /\ \A k \in StreamThreads : k # h => handlers'[k] = handlers[k]
        BY <1>2, <2>3, WriteLostKept
      <3>2. HandIds(h)' = {} /\ \A k \in StreamThreads : k # h => HandIds(k)' = HandIds(k)
        BY <3>1, HandsAre DEF Moves
      <3>3. HandIds(h) = IF handlers[h].item.kind = "private" THEN {handlers[h].item.at} ELSE {}
        BY <1>1, <3>1, StreamAssumption DEF HandIds
      <3>4. lost' = lost \cup HandIds(h)
        BY <2>3, <3>3
      <3>5. /\ \A k \in StreamThreads : HandIds(k)' \subseteq HandIds(k)
            /\ \A i : i \in lost' <=> \/ i \in lost
                                      \/ \E k \in StreamThreads : i \in HandIds(k) /\ i \notin HandIds(k)'
        BY <3>2, <3>4
      <3>6. QED
        BY <1>2, <1>3, <2>1, <3>1, <3>5, MoveToLost
    <2>4. QED
      BY <1>9, <2>2, <2>3 DEF HandlerWrites
  <1>10. QED
    BY <1>1, <1>5, <1>6, <1>7, <1>8, <1>9

LEMMA LeaveTally ==
    ASSUME MessageInv, TallyInv, NEW p \in Peers, LeaveChat(p)
    PROVE  TallyInv'
  <1>1. /\ Disconnect(p) \/ CloseWindow(p) \/ Crash(p)
        /\ StopStream(p) \/ AbandonStream(p)
        /\ lost' = lost \cup (PrivateIn(inbox[p]) \ PrivateIn(inbox'[p]))
        /\ UNCHANGED shownPrivate /\ StreamInv
    BY DEF LeaveChat, MessageInv
  <1>2. UNCHANGED <<peerMessageQueues, privateSent>>
    BY <1>1 DEF Disconnect, CloseWindow, Crash, PrepareClose, LocalStep, serverVars, privateVars
  <1>3. /\ UNCHANGED handlers
        /\ \A q \in Peers : q # p => inbox'[q] = inbox[q]
        /\ \E k \in 0..Len(inbox[p]) : inbox'[p] = SubSeq(inbox[p], 1, k)
    BY <1>1, StopsKept
  <1>4. PrivateIn(inbox'[p]) \subseteq PrivateIn(inbox[p])
    BY <1>3, ShownTypes, BoxPrefix
  <1>5. \A q \in Peers : /\ QueuedFor(q)' = QueuedFor(q)
                         /\ PrivateIn(inbox'[q]) \subseteq PrivateIn(inbox[q])
                         /\ PrivateShown(q)' = PrivateShown(q)
    BY <1>1, <1>2, <1>3, <1>4, QueuesAre
  <1>6. \A k \in StreamThreads : HandIds(k)' = HandIds(k)
    BY <1>3, HandsAre
  <1>7. \A i : i \in lost' <=>
                 \/ i \in lost
                 \/ \E q \in Peers : i \in PrivateIn(inbox[q]) /\ i \notin PrivateIn(inbox'[q])
    BY <1>1, <1>3
  <1>8. QED
    BY <1>2, <1>5, <1>6, <1>7, MoveToLost

LEMMA ShowTally ==
    ASSUME MessageInv, TallyInv, NEW p \in Peers, ShowMessage(p)
    PROVE  TallyInv'
  <1> DEFINE box == inbox[p]
             item == Head(box)
             line == [at |-> item.at, as |-> pseudonym[p]]
             old == shownPrivate[p]
  <1>1. /\ TakeInbox(p) /\ UNCHANGED <<serverVars, lost>> /\ StreamInv /\ MessageTypes /\ NameInv
        /\ InLine(Ats(old), box, Hand(p), "private", PrivateLimit(p))
    BY DEF ShowMessage, MessageInv, OrderInv
  <1>2. UNCHANGED <<peerMessageQueues, privateSent>>
    BY <1>1 DEF serverVars, privateVars
  <1>3. /\ UNCHANGED <<handlers, stream>>
        /\ box # <<>> /\ box \in Seq(Item) /\ inbox'[p] = Tail(box)
        /\ item \in Item /\ item.at \in Nat
        /\ \A q \in Peers : q # p => inbox'[q] = inbox[q]
    BY <1>1, TakesKept
  <1>4. line \in [at : Nat, as : Pseudonyms] /\ line.at = item.at
    <2>1. pseudonym[p] # NoName
      BY <1>1, <1>3 DEF NameInv
    <2>2. pseudonym[p] \in Pseudonyms
      BY <2>1 DEF MessageInv, ServerInv, TypeInv, TypeOK, ClientTypeOK
    <2>3. QED
      BY <1>3, <2>2
  <1>5. /\ item.kind = "private" =>
              shownPrivate' = [shownPrivate EXCEPT ![p] = Append(old, line)]
        /\ item.kind # "private" => UNCHANGED shownPrivate
    BY DEF ShowMessage
  <1>6. old \in Seq([at : Nat, as : Pseudonyms]) /\ DOMAIN shownPrivate = Peers
    BY <1>1 DEF MessageTypes
  <1>7. IF item.kind = "private"
          THEN item.at \in PrivateIn(box) /\ PrivateIn(Tail(box)) = PrivateIn(box) \ {item.at}
          ELSE PrivateIn(Tail(box)) = PrivateIn(box)
    BY <1>1, <1>3, BoxTail
  <1> HIDE DEF box, item, line, old
  <1>8. /\ \A k \in StreamThreads : HandIds(k)' = HandIds(k)
        /\ \A q \in Peers : QueuedFor(q)' = QueuedFor(q)
    BY <1>2, <1>3, HandsAre, QueuesAre
  <1>9. CASE item.kind = "private"
    <2>1. PICK more : more = Append(old, line)
      OBVIOUS
    <2>2. Ranks(more) = Ranks(old) \cup {item.at}
      BY <1>4, <1>6, <2>1, RanksAppend
    <2>3. /\ shownPrivate'[p] = more
          /\ \A q \in Peers : q # p => shownPrivate'[q] = shownPrivate[q]
      BY <1>5, <1>6, <1>9, <2>1
    <2>4. /\ PrivateShown(p)' = PrivateShown(p) \cup {item.at}
          /\ \A q \in Peers : q # p => PrivateShown(q)' = PrivateShown(q)
      BY <2>2, <2>3, QueuesAre DEF old
    <2>5. /\ item.at \in PrivateIn(inbox[p])
          /\ PrivateIn(inbox'[p]) = PrivateIn(inbox[p]) \ {item.at}
          /\ \A q \in Peers : q # p => PrivateIn(inbox'[q]) = PrivateIn(inbox[q])
      BY <1>3, <1>7, <1>9 DEF box
    <2>6. QED
      BY <1>1, <1>2, <1>8, <2>4, <2>5, MoveToScreen
  <1>10. CASE item.kind # "private"
    <2>1. \A q \in Peers : /\ PrivateIn(inbox'[q]) = PrivateIn(inbox[q])
                           /\ PrivateShown(q)' = PrivateShown(q)
      <3>1. PrivateIn(inbox'[p]) = PrivateIn(inbox[p])
        BY <1>3, <1>7, <1>10 DEF box
      <3>2. QED
        BY <1>3, <1>5, <1>10, <3>1, QueuesAre
    <2>2. QED
      BY <1>1, <1>2, <1>8, <2>1, MoveToLost
  <1>11. QED
    BY <1>9, <1>10

\* The dispatcher's walk queues a message, or drops the queues of the departed.
LEMMA WalkTally ==
    ASSUME MessageInv, TallyInv, WalkStep
    PROVE  TallyInv'
  <1>1. /\ ObserverStep /\ UNCHANGED <<handlers, inbox, shownPrivate>> /\ TypeInv
        /\ lost' = IF Notifies("privateMessages", "ClientDisconnected")
                     THEN lost \cup UNION {QueuedFor(p) : p \in {q \in Peers : ~isPeerConnected(q)}}
                     ELSE lost
    BY DEF WalkStep, streamVars, MessageInv, ServerInv
  <1>2. /\ \A k \in StreamThreads : HandIds(k)' = HandIds(k)
        /\ \A q \in Peers : /\ PrivateIn(inbox'[q]) = PrivateIn(inbox[q])
                            /\ PrivateShown(q)' = PrivateShown(q)
    BY <1>1, HandsAre, QueuesAre
  <1>3. CASE Notifies("privateMessages", "ClientDisconnected")
    <2>1. QueuesCleared
      BY <1>1, <1>3, ObserverQueues
    <2>2. Ids(<<>>) = {}
      BY DEF Ids
    <2>3. \A q \in Peers : QueuedFor(q)' = IF isPeerConnected(q) THEN QueuedFor(q) ELSE {}
      BY <2>1, <2>2, QueuesAre DEF QueuesCleared
    <2>4. \A q \in Peers : QueuedFor(q)' \subseteq QueuedFor(q)
      BY <2>3
    <2>5. \A i : i \in lost' <=>
                   \/ i \in lost
                   \/ \E q \in Peers : i \in QueuedFor(q) /\ i \notin QueuedFor(q)'
      <3>1. lost' = lost \cup UNION {QueuedFor(p) : p \in {q \in Peers : ~isPeerConnected(q)}}
        BY <1>1, <1>3
      <3>2. \A i : i \in lost' <=>
                     \/ i \in lost
                     \/ \E q \in Peers : ~isPeerConnected(q) /\ i \in QueuedFor(q)
        BY <3>1
      <3>3. \A q \in Peers : \A i : ~isPeerConnected(q) /\ i \in QueuedFor(q) <=>
                                      i \in QueuedFor(q) /\ i \notin QueuedFor(q)'
        BY <2>3
      <3>4. QED
        BY <3>2, <3>3
    <2>6. UNCHANGED privateSent
      BY <2>1 DEF QueuesCleared
    <2>7. QED
      BY <1>2, <2>4, <2>5, <2>6, MoveToLost
  <1>4. CASE ~Notifies("privateMessages", "ClientDisconnected")
    <2>1. UNCHANGED lost
      BY <1>1, <1>4
    <2>2. CASE UNCHANGED privateVars
      BY <1>1, <1>2, <2>1, <2>2, NoneMoves DEF privateVars
    <2>3. ASSUME NEW p \in Peers, NEW payload \in PrivateMessage, QueuedNow(p, payload)
          PROVE  TallyInv'
      <3>1. /\ payload.id = Len(privateSent) + 1
            /\ privateSent' = Append(privateSent, payload)
            /\ peerMessageQueues' = [peerMessageQueues EXCEPT ![p] = Append(@, payload)]
            /\ privateSent \in Seq(PrivateMessage) /\ Len(privateSent) \in Nat
            /\ peerMessageQueues \in [Peers -> Seq(PrivateMessage)]
        BY <2>3, LimitTypes DEF QueuedNow
      <3>2. Len(privateSent)' = Len(privateSent) + 1
        BY <3>1
      <3>3. PICK more : more = Append(peerMessageQueues[p], payload)
        OBVIOUS
      <3>4. Ids(more) = Ids(peerMessageQueues[p]) \cup {payload.id}
        BY <3>1, <3>3, IdsAppend
      <3>5. /\ peerMessageQueues'[p] = more
            /\ \A q \in Peers : q # p => peerMessageQueues'[q] = peerMessageQueues[q]
        BY <3>1, <3>3
      <3>6. /\ QueuedFor(p)' = QueuedFor(p) \cup {Len(privateSent) + 1}
            /\ \A q \in Peers : q # p => QueuedFor(q)' = QueuedFor(q)
        BY <3>1, <3>4, <3>5, QueuesAre
      <3>7. QED
        BY <1>2, <2>1, <3>1, <3>2, <3>6, MoveToQueue
    <2>4. QED
      BY <1>1, <1>4, <2>2, <2>3, ObserverQueues
  <1>5. QED
    BY <1>3, <1>4

LEMMA TallyKept ==
    ASSUME MessageInv, TallyInv, [MessageSystemNext]_allVars
    PROVE  TallyInv'
  <1>1. ASSUME UNCHANGED <<privateVars, messageSystemVars>>
        PROVE  TallyInv'
    <2>1. UNCHANGED <<peerMessageQueues, privateSent, handlers, inbox, shownPrivate, lost>>
      BY <1>1 DEF privateVars, messageSystemVars, streamVars, messageHistoryVars
    <2>2. QED
      BY <2>1, HandsAre, NoneMoves
  <1>2. ASSUME NEW t \in Threads, UnaryStep(t) \/ (DropAnswer(t) /\ UNCHANGED messageSystemVars)
        PROVE  UNCHANGED <<privateVars, messageSystemVars>>
    BY <1>2 DEF UnaryStep, HandlerStep, ConnectCheck, ConnectRoster, ConnectNotify, DisconnectDuration,
          DisconnectNotify, SendLookup, SendValidate, SendRecipient, SendNotify, Notify, LocalStep,
          DropAnswer
  <1>3. ASSUME NEW p \in Peers, OtherClientStep(p), UNCHANGED messageSystemVars
        PROVE  UNCHANGED <<privateVars, messageSystemVars>>
    BY <1>3 DEF OtherClientStep, Login, ConnectTimesOut, CloseUnused, SendMessage, LoginRejected,
          Disconnected, MessageSent, LocalStep
  <1>4. ASSUME NEW p \in Peers, EnterChat(p)
        PROVE  TallyInv'
    <2>1. /\ LoginSucceeded(p) /\ OpenStream(p) /\ StreamInv
          /\ UNCHANGED <<shownPrivate, lost>>
      BY <1>4 DEF EnterChat, MessageInv, messageHistoryVars
    <2>2. UNCHANGED <<peerMessageQueues, privateSent>>
      BY <2>1 DEF LoginSucceeded, LocalStep, privateVars
    <2>3. /\ UNCHANGED inbox
          /\ \A k \in StreamThreads :
                \/ handlers'[k] = handlers[k]
                \/ handlers[k] = NoHandler /\ handlers'[k].item = NoItem
      BY <2>1, OpensKept
    <2>4. \A k \in StreamThreads : HandIds(k)' = HandIds(k)
      BY <2>3, HandsAre
    <2>5. QED
      BY <2>1, <2>2, <2>3, <2>4, NoneMoves
  <1>5. ASSUME NEW h \in StreamThreads, CancelStep(h)
        PROVE  TallyInv'
    <2>1. /\ CancelArrives(h) /\ StreamInv
          /\ UNCHANGED <<peerMessageQueues, privateSent, shownPrivate, lost>>
      BY <1>5 DEF CancelStep, MessageInv, messageHistoryVars, serverVars, privateVars
    <2>2. /\ handlers[h] # NoHandler
          /\ Moves(h, handlers[h].pc, handlers[h].item) /\ UNCHANGED <<stream, inbox>>
      BY <2>1, CancelMoves
    <2>3. \A k \in StreamThreads : HandIds(k)' = HandIds(k)
      BY <2>2, HandsAre DEF Moves
    <2>4. QED
      BY <2>1, <2>2, <2>3, NoneMoves
  <1>6. UNCHANGED <<serverVars, clientVars, messageSystemVars>> =>
          UNCHANGED <<privateVars, messageSystemVars>>
    BY DEF serverVars, privateVars
  <1>7. UNCHANGED allVars => UNCHANGED <<serverVars, clientVars, messageSystemVars>>
    BY DEF allVars, vars
  <1>8. QED
    BY <1>1, <1>2, <1>3, <1>4, <1>5, <1>6, <1>7, WalkTally, LeaveTally, ShowTally, HandlerTally
       DEF MessageSystemNext

LEMMA InitTally == MessageSystemInit => TallyInv
  <1> SUFFICES ASSUME MessageSystemInit
               PROVE  TallyInv
    OBVIOUS
  <1>1. /\ handlers = [h \in StreamThreads |-> NoHandler]
        /\ inbox = [p \in Peers |-> <<>>]
        /\ peerMessageQueues = [p \in Peers |-> <<>>] /\ privateSent = <<>>
        /\ shownPrivate = [p \in Peers |-> <<>>] /\ lost = {}
    BY DEF MessageSystemInit, StreamInit, Init, ServiceInit, PrivateInit
  <1>2. /\ \A p \in Peers : QueuedFor(p) = {} /\ PrivateIn(inbox[p]) = {} /\ PrivateShown(p) = {}
        /\ \A h \in StreamThreads : HandIds(h) = {}
    BY <1>1 DEF QueuedFor, PrivateIn, PrivateShown, HandIds
  <1> DEFINE R == {s \in Sites : Contents[s] = {}}
  <1>3. \A p \in Peers : <<"queue", p>> \in R /\ <<"box", p>> \in R /\ <<"screen", p>> \in R
    BY <1>2, SiteContents
  <1>4. \A h \in StreamThreads : <<"hand", h>> \in R
    BY <1>2, SiteContents
  <1>5. Lost \in R
    BY <1>1, SiteContents
  <1> HIDE DEF R
  <1>6. Sites \subseteq R
    BY <1>3, <1>4, <1>5, EverySite
  <1>7. \A s \in Sites : Contents[s] = {}
    BY <1>6 DEF R
  <1>8. Len(privateSent) = 0 /\ 1..0 = {}
    BY <1>1
  <1>9. Tally(Contents, 0)
    BY <1>7, <1>8 DEF Tally
  <1>10. QED
    BY <1>8, <1>9 DEF TallyInv

LEMMA TallySafe == MessageSystemSpec => [](MessageInv /\ TallyInv)
  <1>1. MessageInv /\ TallyInv /\ [MessageSystemNext]_allVars => TallyInv'
    BY TallyKept
  <1>2. QED
    BY <1>1, InitTally, MessageSafe, PTL DEF MessageSystemSpec

-----------------------------------------------------------------------------
(* Every private message is in exactly one place.                          *)

\* What PrivateAccountedFor counts for one message.
PlacesFor(p) == <<QueuedFor(p), InHand(p, "private"), PrivateIn(inbox[p]), PrivateShown(p)>>

PlacesOf(id) == {pk \in Peers \X (1..4) : id \in PlacesFor(pk[1])[pk[2]]}

LEMMA PlacesAre ==
    ASSUME NEW id
    PROVE  /\ \A p \in Peers : /\ <<p, 1>> \in PlacesOf(id) <=> id \in QueuedFor(p)
                               /\ <<p, 2>> \in PlacesOf(id) <=> id \in InHand(p, "private")
                               /\ <<p, 3>> \in PlacesOf(id) <=> id \in PrivateIn(inbox[p])
                               /\ <<p, 4>> \in PlacesOf(id) <=> id \in PrivateShown(p)
           /\ \A x \in PlacesOf(id) :
                 \E p \in Peers : x \in {<<p, 1>>, <<p, 2>>, <<p, 3>>, <<p, 4>>}
  <1>1. 1..4 = {1, 2, 3, 4}
    OBVIOUS
  <1>2. \A p \in Peers, k \in 1..4 : <<p, k>> \in PlacesOf(id) <=> id \in PlacesFor(p)[k]
    BY DEF PlacesOf
  <1>3. \A p \in Peers : /\ PlacesFor(p)[1] = QueuedFor(p)
                         /\ PlacesFor(p)[2] = InHand(p, "private")
                         /\ PlacesFor(p)[3] = PrivateIn(inbox[p])
                         /\ PlacesFor(p)[4] = PrivateShown(p)
    BY DEF PlacesFor
  <1>4. \A x \in PlacesOf(id) : \E p \in Peers, k \in 1..4 : x = <<p, k>>
    BY DEF PlacesOf
  <1>5. \A x \in PlacesOf(id) :
           \E p \in Peers : x \in {<<p, 1>>, <<p, 2>>, <<p, 3>>, <<p, 4>>}
    BY <1>1, <1>4
  <1>6. QED
    BY <1>1, <1>2, <1>3, <1>5

\* A message at a place is at one site.
LEMMA SiteOf ==
    ASSUME MessageInv, TallyInv, NEW id, NEW s \in Sites, id \in Contents[s], NEW p \in Peers
    PROVE  /\ id \in QueuedFor(p) <=> s = <<"queue", p>>
           /\ id \in PrivateIn(inbox[p]) <=> s = <<"box", p>>
           /\ id \in PrivateShown(p) <=> s = <<"screen", p>>
           /\ id \in InHand(p, "private") <=>
                \E h \in StreamThreads : /\ handlers[h] # NoHandler /\ handlers[h].peer = p
                                         /\ s = <<"hand", h>>
           /\ id \in lost <=> s = Lost
  <1>1. ASSUME NEW t \in Sites, id \in Contents[t]
        PROVE  s = t
    BY <1>1 DEF TallyInv, Tally
  <1>2. \A t \in Sites : id \in Contents[t] <=> s = t
    BY <1>1
  <1>3. /\ <<"queue", p>> \in Sites /\ Contents[<<"queue", p>>] = QueuedFor(p)
        /\ <<"box", p>> \in Sites /\ Contents[<<"box", p>>] = PrivateIn(inbox[p])
        /\ <<"screen", p>> \in Sites /\ Contents[<<"screen", p>>] = PrivateShown(p)
        /\ Lost \in Sites /\ Contents[Lost] = lost
        /\ \A h \in StreamThreads : <<"hand", h>> \in Sites /\ Contents[<<"hand", h>>] = HandIds(h)
    BY SiteContents
  <1>4. \A h \in StreamThreads : id \in HandIds(h) <=> s = <<"hand", h>>
    BY <1>2, <1>3
  <1>5. id \in InHand(p, "private") <=>
          \E h \in StreamThreads : handlers[h] # NoHandler /\ handlers[h].peer = p /\ id \in HandIds(h)
    BY DEF InHand, HandIds
  <1>6. QED
    BY <1>2, <1>3, <1>4, <1>5

\* Whatever sessions and their handlers overlap, a private message is neither
\* duplicated nor gone unseen: it is in one queue, in one handler's hand, in one
\* inbox or on one screen, or it was dropped with a session or a queue.
THEOREM PrivateKept == MessageSystemSpec => []PrivateAccountedFor
  <1>1. ASSUME MessageInv, TallyInv, NEW id \in 1..Len(privateSent)
        PROVE  Cardinality(PlacesOf(id)) = IF id \in lost THEN 0 ELSE 1
    <2>1. PICK s \in Sites : id \in Contents[s]
      BY <1>1 DEF TallyInv, Tally
    <2>2. ASSUME NEW p \in Peers
          PROVE  /\ id \in QueuedFor(p) <=> s = <<"queue", p>>
                 /\ id \in PrivateIn(inbox[p]) <=> s = <<"box", p>>
                 /\ id \in PrivateShown(p) <=> s = <<"screen", p>>
                 /\ id \in InHand(p, "private") <=>
                      \E h \in StreamThreads : /\ handlers[h] # NoHandler /\ handlers[h].peer = p
                                               /\ s = <<"hand", h>>
                 /\ id \in lost <=> s = Lost
      BY <1>1, <2>1, SiteOf
    <2>3. \A p \in Peers :
             /\ <<p, 1>> \in PlacesOf(id) <=> s = <<"queue", p>>
             /\ <<p, 2>> \in PlacesOf(id) <=>
                  \E h \in StreamThreads : /\ handlers[h] # NoHandler /\ handlers[h].peer = p
                                           /\ s = <<"hand", h>>
             /\ <<p, 3>> \in PlacesOf(id) <=> s = <<"box", p>>
             /\ <<p, 4>> \in PlacesOf(id) <=> s = <<"screen", p>>
      BY <2>2, PlacesAre
    <2>4. \A x \in PlacesOf(id) :
             \E p \in Peers : x \in {<<p, 1>>, <<p, 2>>, <<p, 3>>, <<p, 4>>}
      BY PlacesAre
    <2>5. ASSUME NEW x \in PlacesOf(id), \A y \in PlacesOf(id) : y = x, s # Lost
          PROVE  Cardinality(PlacesOf(id)) = IF id \in lost THEN 0 ELSE 1
      <3>1. PlacesOf(id) = {x}
        BY <2>5
      <3>2. Cardinality({x}) = 1
        BY FS_Singleton
      <3>3. id \notin lost
        BY <1>1, <2>1, <2>5, SiteContents DEF TallyInv, Tally
      <3>4. QED
        BY <3>1, <3>2, <3>3
    <2>6. CASE s = Lost
      <3>1. \A p \in Peers : \A y \in {<<p, 1>>, <<p, 2>>, <<p, 3>>, <<p, 4>>} : y \notin PlacesOf(id)
        BY <2>3, <2>6 DEF Lost
      <3>2. PlacesOf(id) = {}
        BY <2>4, <3>1
      <3>3. id \in lost
        BY <2>1, <2>6, SiteContents
      <3>4. QED
        BY <3>2, <3>3, FS_EmptySet
    <2>7. ASSUME NEW p \in Peers, s = <<"queue", p>>
          PROVE  Cardinality(PlacesOf(id)) = IF id \in lost THEN 0 ELSE 1
      <3>1. <<p, 1>> \in PlacesOf(id) /\ s # Lost
        BY <2>3, <2>7 DEF Lost
      <3>2. \A q \in Peers : /\ s = <<"queue", q>> \/ s = <<"box", q>> \/ s = <<"screen", q>> => p = q
                             /\ s # <<"box", q>> /\ s # <<"screen", q>>
                             /\ \A h \in StreamThreads : s # <<"hand", h>>
        BY <2>7
      <3>3. \A q \in Peers : \A y \in {<<q, 1>>, <<q, 2>>, <<q, 3>>, <<q, 4>>} :
               y \in PlacesOf(id) => y = <<p, 1>>
        BY <2>3, <3>2
      <3>4. \A y \in PlacesOf(id) : y = <<p, 1>>
        BY <2>4, <3>3
      <3>5. QED
        BY <2>5, <3>1, <3>4
    <2>8. ASSUME NEW p \in Peers, s = <<"box", p>>
          PROVE  Cardinality(PlacesOf(id)) = IF id \in lost THEN 0 ELSE 1
      <3>1. <<p, 3>> \in PlacesOf(id) /\ s # Lost
        BY <2>3, <2>8 DEF Lost
      <3>2. \A q \in Peers : /\ s = <<"queue", q>> \/ s = <<"box", q>> \/ s = <<"screen", q>> => p = q
                             /\ s # <<"queue", q>> /\ s # <<"screen", q>>
                             /\ \A h \in StreamThreads : s # <<"hand", h>>
        BY <2>8
      <3>3. \A q \in Peers : \A y \in {<<q, 1>>, <<q, 2>>, <<q, 3>>, <<q, 4>>} :
               y \in PlacesOf(id) => y = <<p, 3>>
        BY <2>3, <3>2
      <3>4. \A y \in PlacesOf(id) : y = <<p, 3>>
        BY <2>4, <3>3
      <3>5. QED
        BY <2>5, <3>1, <3>4
    <2>9. ASSUME NEW p \in Peers, s = <<"screen", p>>
          PROVE  Cardinality(PlacesOf(id)) = IF id \in lost THEN 0 ELSE 1
      <3>1. <<p, 4>> \in PlacesOf(id) /\ s # Lost
        BY <2>3, <2>9 DEF Lost
      <3>2. \A q \in Peers : /\ s = <<"queue", q>> \/ s = <<"box", q>> \/ s = <<"screen", q>> => p = q
                             /\ s # <<"queue", q>> /\ s # <<"box", q>>
                             /\ \A h \in StreamThreads : s # <<"hand", h>>
        BY <2>9
      <3>3. \A q \in Peers : \A y \in {<<q, 1>>, <<q, 2>>, <<q, 3>>, <<q, 4>>} :
               y \in PlacesOf(id) => y = <<p, 4>>
        BY <2>3, <3>2
      <3>4. \A y \in PlacesOf(id) : y = <<p, 4>>
        BY <2>4, <3>3
      <3>5. QED
        BY <2>5, <3>1, <3>4
    <2>10. ASSUME NEW h \in StreamThreads, s = <<"hand", h>>
           PROVE  Cardinality(PlacesOf(id)) = IF id \in lost THEN 0 ELSE 1
      <3>1. id \in HandIds(h)
        BY <2>1, <2>10, SiteContents
      <3>2. handlers[h] # NoHandler
        BY <3>1 DEF HandIds
      <3>3. PICK p \in Peers : p = handlers[h].peer
        BY <1>1, <3>2, HandlerTypes DEF MessageInv
      <3>4. <<p, 2>> \in PlacesOf(id) /\ s # Lost
        BY <2>3, <2>10, <3>2, <3>3 DEF Lost
      <3>5. /\ \A q \in Peers : s # <<"queue", q>> /\ s # <<"box", q>> /\ s # <<"screen", q>>
            /\ \A k \in StreamThreads : s = <<"hand", k>> => k = h
        BY <2>10
      <3>6. \A q \in Peers : \A y \in {<<q, 1>>, <<q, 2>>, <<q, 3>>, <<q, 4>>} :
               y \in PlacesOf(id) => y = <<p, 2>>
        <4> SUFFICES ASSUME NEW q \in Peers
                     PROVE  \A y \in {<<q, 1>>, <<q, 2>>, <<q, 3>>, <<q, 4>>} :
                               y \in PlacesOf(id) => y = <<p, 2>>
          OBVIOUS
        <4>1. /\ <<q, 1>> \notin PlacesOf(id) /\ <<q, 3>> \notin PlacesOf(id)
              /\ <<q, 4>> \notin PlacesOf(id)
          BY <2>3, <3>5
        <4>2. <<q, 2>> \in PlacesOf(id) => q = p
          BY <2>3, <3>3, <3>5
        <4>3. QED
          BY <4>1, <4>2
      <3>7. \A y \in PlacesOf(id) : y = <<p, 2>>
        BY <2>4, <3>6
      <3>8. QED
        BY <2>5, <3>4, <3>7
    <2>11. QED
      BY <2>6, <2>7, <2>8, <2>9, <2>10, SiteContents
  <1>2. MessageInv /\ TallyInv => PrivateAccountedFor
    BY <1>1 DEF PrivateAccountedFor, PlacesOf, PlacesFor
  <1>3. QED
    BY <1>2, TallySafe, PTL

-----------------------------------------------------------------------------
(* Private messages stay with the user they were written to.               *)

\* The private messages that are p's: queued for it, in one of its handlers'
\* hands, in its inbox or on its screen.
Mail(p) == QueuedFor(p) \cup InHand(p, "private") \cup PrivateIn(inbox[p]) \cup PrivateShown(p)

\* Each was written to a name that p's user may use.
MailInv ==
    \A p \in Peers : \A i \in Mail(p) :
       i \in DOMAIN privateSent /\ privateSent[i].to \in NamesOf[p]

LEMMA MailMoves ==
    ASSUME MailInv, UNCHANGED privateSent, \A p \in Peers : Mail(p)' \subseteq Mail(p)
    PROVE  MailInv'
  BY DEF MailInv

\* What the handler in k has in hand it had before, or it is nothing private.
Keeps(k) ==
    \/ handlers'[k] = handlers[k]
    \/ handlers'[k] = NoHandler
    \/ handlers'[k].item = NoItem
    \/ handlers'[k].item.kind # "private"
    \/ /\ handlers[k] # NoHandler
       /\ handlers'[k].peer = handlers[k].peer /\ handlers'[k].item = handlers[k].item

LEMMA HandsKept ==
    ASSUME NEW p, NEW new,
           \A k \in StreamThreads :
              \/ Keeps(k)
              \/ handlers'[k].peer = p => handlers'[k].item.at \in new
    PROVE  InHand(p, "private")' \subseteq InHand(p, "private") \cup new
  BY DEF InHand, Keeps

\* Nothing comes to anybody.
LEMMA MailKept ==
    ASSUME MailInv, UNCHANGED privateSent, \A k \in StreamThreads : Keeps(k),
           \A p \in Peers : /\ QueuedFor(p)' \subseteq QueuedFor(p)
                            /\ PrivateIn(inbox'[p]) \subseteq PrivateIn(inbox[p])
                            /\ PrivateShown(p)' \subseteq PrivateShown(p)
    PROVE  MailInv'
  <1>1. ASSUME NEW p \in Peers
        PROVE  Mail(p)' \subseteq Mail(p)
    <2>1. InHand(p, "private")' \subseteq InHand(p, "private") \cup {}
      BY HandsKept
    <2>2. QED
      BY <2>1 DEF Mail
  <1>2. QED
    BY <1>1, MailMoves

\* An erased queue holds nothing.
LEMMA ErasedQueue ==
    ASSUME MessageInv, NEW p \in Peers, QueueKept \/ QueueErased(p), NEW q \in Peers
    PROVE  QueuedFor(q)' \subseteq QueuedFor(q)
  <1>1. CASE QueueKept
    BY <1>1, QueuesAre DEF QueueKept
  <1>2. CASE QueueErased(p)
    <2>1. peerMessageQueues'[q] = <<>> \/ peerMessageQueues'[q] = peerMessageQueues[q]
      BY <1>2, LimitTypes DEF QueueErased, EraseQueue
    <2>2. Ids(<<>>) = {}
      BY DEF Ids
    <2>3. QED
      BY <2>1, <2>2, QueuesAre
  <1>3. QED
    BY <1>1, <1>2

LEMMA HandlerMail ==
    ASSUME MessageInv, MailInv, NEW h \in StreamThreads, MessagesHandler(h)
    PROVE  MailInv'
  <1>0. PICK p : p = handlers[h].peer
    OBVIOUS
  <1>1. /\ handlers[h] # NoHandler /\ p \in Peers /\ StreamStep
        /\ \/ HandlerEnds(h, p) \/ HandlerGoes(h, p)
           \/ TakesPublic(h, p) \/ TakesPrivate(h, p) \/ HandlerWrites(h, p)
    BY <1>0, HandlerCases
  <1>2. StreamInv /\ UNCHANGED <<privateSent, shownPrivate>>
    BY <1>1 DEF StreamStep, MessageInv
  <1>3. \A q \in Peers : PrivateShown(q)' = PrivateShown(q)
    BY <1>2, QueuesAre
  <1>4. CASE HandlerEnds(h, p)
    <2>1. StreamEnds(h) /\ (QueueKept \/ QueueErased(p))
      BY <1>4 DEF HandlerEnds
    <2>2. UNCHANGED inbox /\ \A k \in StreamThreads : Keeps(k)
      BY <1>2, <2>1, EndsKept DEF Keeps
    <2>3. \A q \in Peers : QueuedFor(q)' \subseteq QueuedFor(q)
      BY <1>1, <2>1, ErasedQueue
    <2>4. QED
      BY <1>2, <1>3, <2>2, <2>3, MailKept
  <1>5. CASE HandlerGoes(h, p)
    <2>1. PICK pc \in {"queue", "loop", "privateWait", "public", "wait"} :
             StreamGoto(h, pc) /\ handlers[h].pc # "write"
      BY <1>5 DEF HandlerGoes
    <2>2. UNCHANGED inbox /\ \A k \in StreamThreads : Keeps(k)
      BY <1>1, <1>2, <2>1, GotoMoves DEF Places, Moves, Keeps
    <2>3. QueueKept \/ QueueErased(p)
      BY <1>5 DEF HandlerGoes
    <2>4. \A q \in Peers : QueuedFor(q)' \subseteq QueuedFor(q)
      BY <1>1, <2>3, ErasedQueue
    <2>5. QED
      BY <1>2, <1>3, <2>2, <2>4, MailKept
  <1>6. CASE TakesPublic(h, p)
    <2> DEFINE item == [kind |-> "public", at |-> PublicLimit(p) + 1]
    <2>1. StreamTakes(h, item) /\ QueueKept
      BY <1>6 DEF TakesPublic
    <2>2. item \in Item /\ item.kind = "public"
      BY <1>1, LimitTypes DEF Item
    <2> HIDE DEF item
    <2>3. Moves(h, "write", item) /\ UNCHANGED inbox
      BY <1>1, <1>2, <2>1, <2>2, TakesMoves
    <2>4. \A k \in StreamThreads : Keeps(k)
      BY <2>2, <2>3 DEF Moves, Keeps
    <2>5. \A q \in Peers : QueuedFor(q)' \subseteq QueuedFor(q)
      BY <1>1, <2>1, ErasedQueue
    <2>6. QED
      BY <1>2, <1>3, <2>3, <2>4, <2>5, MailKept
  <1>7. CASE TakesPrivate(h, p)
    <2> DEFINE queue == peerMessageQueues[p]
               id == Head(queue).id
               item == [kind |-> "private", at |-> id]
    <2>1. StreamTakes(h, item) /\ TakePrivate(p)
      BY <1>7 DEF TakesPrivate
    <2>2. /\ queue \in Seq(PrivateMessage) /\ queue # <<>> /\ Sorted(queue, Len(privateSent))
          /\ peerMessageQueues'[p] = Tail(queue)
          /\ \A q \in Peers : q # p => peerMessageQueues'[q] = peerMessageQueues[q]
      BY <1>1, <2>1, LimitTypes DEF TakePrivate, MessageInv, QueueInv
    <2>3. id \in Nat
      BY <2>2, LimitTypes, SortedTail
    <2>4. item \in Item /\ item.at = id
      BY <2>3 DEF Item
    <2>5. id \in Ids(queue) /\ Ids(Tail(queue)) = Ids(queue) \ {id}
      BY <2>2, IdsTail
    <2> HIDE DEF queue, id, item
    <2>6. Moves(h, "write", item) /\ UNCHANGED inbox
      BY <1>1, <1>2, <2>1, <2>4, TakesMoves
    <2>7. /\ id \in QueuedFor(p)
          /\ \A q \in Peers : QueuedFor(q)' \subseteq QueuedFor(q)
      BY <2>2, <2>5, QueuesAre DEF queue
    <2>8. \A k \in StreamThreads : Keeps(k) \/ (handlers'[k].peer = p /\ handlers'[k].item.at = id)
      BY <1>0, <2>4, <2>6 DEF Moves, Keeps
    <2>9. ASSUME NEW q \in Peers
          PROVE  Mail(q)' \subseteq Mail(q)
      <3>1. CASE q = p
        <4>1. InHand(p, "private")' \subseteq InHand(p, "private") \cup {id}
          BY <2>8, HandsKept
        <4>2. QED
          BY <1>3, <2>6, <2>7, <3>1, <4>1 DEF Mail
      <3>2. CASE q # p
        <4>1. InHand(q, "private")' \subseteq InHand(q, "private") \cup {}
          BY <2>8, <3>2, HandsKept
        <4>2. QED
          BY <1>3, <2>6, <2>7, <4>1 DEF Mail
      <3>3. QED
        BY <3>1, <3>2
    <2>10. QED
      BY <1>2, <2>9, MailMoves
  <1>8. CASE HandlerWrites(h, p)
    <2>1. \A q \in Peers : QueuedFor(q)' = QueuedFor(q)
      BY <1>8, QueuesAre DEF HandlerWrites
    <2>2. CASE StreamWrites(h)
      <3>1. PICK item : item = handlers[h].item
        OBVIOUS
      <3>2. /\ item \in Item /\ Moves(h, "loop", NoItem)
            /\ inbox'[p] = Append(inbox[p], item)
            /\ \A q \in Peers : q # p => inbox'[q] = inbox[q]
        BY <1>0, <1>2, <2>2, <3>1, WritesKept
      <3>3. inbox[p] \in Seq(Item) /\ item # NoItem
        BY <1>1, <3>2, ShownTypes, StreamAssumption
      <3>4. PrivateIn(inbox'[p]) =
              PrivateIn(inbox[p]) \cup (IF item.kind = "private" THEN {item.at} ELSE {})
        BY <3>2, <3>3, BoxAppend
      <3>5. item.kind = "private" => item.at \in InHand(p, "private")
        BY <1>0, <1>1, <3>1, <3>3 DEF InHand
      <3>6. \A k \in StreamThreads : Keeps(k)
        BY <3>2 DEF Moves, Keeps
      <3>7. ASSUME NEW q \in Peers
            PROVE  Mail(q)' \subseteq Mail(q)
        <4>1. InHand(q, "private")' \subseteq InHand(q, "private") \cup {}
          BY <3>6, HandsKept
        <4>2. PrivateIn(inbox'[q]) \subseteq PrivateIn(inbox[q]) \cup InHand(q, "private")
          BY <3>2, <3>4, <3>5
        <4>3. QED
          BY <1>3, <2>1, <4>1, <4>2 DEF Mail
      <3>8. QED
        BY <1>2, <3>7, MailMoves
    <2>3. CASE StreamWriteLost(h)
      <3>1. UNCHANGED inbox /\ \A k \in StreamThreads : Keeps(k)
        BY <1>2, <2>3, WriteLostKept DEF Moves, Keeps
      <3>2. QED
        BY <1>2, <1>3, <2>1, <3>1, MailKept
    <2>4. QED
      BY <1>8, <2>2, <2>3 DEF HandlerWrites
  <1>9. QED
    BY <1>1, <1>4, <1>5, <1>6, <1>7, <1>8

LEMMA LeaveMail ==
    ASSUME MessageInv, MailInv, NEW p \in Peers, LeaveChat(p)
    PROVE  MailInv'
  <1>1. /\ Disconnect(p) \/ CloseWindow(p) \/ Crash(p)
        /\ StopStream(p) \/ AbandonStream(p)
        /\ UNCHANGED shownPrivate /\ StreamInv
    BY DEF LeaveChat, MessageInv
  <1>2. UNCHANGED <<peerMessageQueues, privateSent>>
    BY <1>1 DEF Disconnect, CloseWindow, Crash, PrepareClose, LocalStep, serverVars, privateVars
  <1>3. /\ UNCHANGED handlers
        /\ \A q \in Peers : q # p => inbox'[q] = inbox[q]
        /\ \E k \in 0..Len(inbox[p]) : inbox'[p] = SubSeq(inbox[p], 1, k)
    BY <1>1, StopsKept
  <1>4. PrivateIn(inbox'[p]) \subseteq PrivateIn(inbox[p])
    BY <1>3, ShownTypes, BoxPrefix
  <1>5. \A q \in Peers : /\ QueuedFor(q)' = QueuedFor(q)
                         /\ PrivateIn(inbox'[q]) \subseteq PrivateIn(inbox[q])
                         /\ PrivateShown(q)' = PrivateShown(q)
    BY <1>1, <1>2, <1>3, <1>4, QueuesAre
  <1>6. \A k \in StreamThreads : Keeps(k)
    BY <1>3 DEF Keeps
  <1>7. QED
    BY <1>2, <1>5, <1>6, MailKept

LEMMA ShowMail ==
    ASSUME MessageInv, MailInv, NEW p \in Peers, ShowMessage(p)
    PROVE  MailInv'
  <1> DEFINE box == inbox[p]
             item == Head(box)
             line == [at |-> item.at, as |-> pseudonym[p]]
             old == shownPrivate[p]
  <1>1. /\ TakeInbox(p) /\ UNCHANGED serverVars /\ StreamInv /\ MessageTypes /\ NameInv
        /\ InLine(Ats(old), box, Hand(p), "private", PrivateLimit(p))
    BY DEF ShowMessage, MessageInv, OrderInv
  <1>2. UNCHANGED <<peerMessageQueues, privateSent>>
    BY <1>1 DEF serverVars, privateVars
  <1>3. /\ UNCHANGED <<handlers, stream>>
        /\ box # <<>> /\ box \in Seq(Item) /\ inbox'[p] = Tail(box)
        /\ item \in Item /\ item.at \in Nat
        /\ \A q \in Peers : q # p => inbox'[q] = inbox[q]
    BY <1>1, TakesKept
  <1>4. line \in [at : Nat, as : Pseudonyms] /\ line.at = item.at
    <2>1. pseudonym[p] # NoName
      BY <1>1, <1>3 DEF NameInv
    <2>2. pseudonym[p] \in Pseudonyms
      BY <2>1 DEF MessageInv, ServerInv, TypeInv, TypeOK, ClientTypeOK
    <2>3. QED
      BY <1>3, <2>2
  <1>5. /\ item.kind = "private" =>
              shownPrivate' = [shownPrivate EXCEPT ![p] = Append(old, line)]
        /\ item.kind # "private" => UNCHANGED shownPrivate
    BY DEF ShowMessage
  <1>6. old \in Seq([at : Nat, as : Pseudonyms]) /\ DOMAIN shownPrivate = Peers
    BY <1>1 DEF MessageTypes
  <1>7. IF item.kind = "private"
          THEN item.at \in PrivateIn(box) /\ PrivateIn(Tail(box)) = PrivateIn(box) \ {item.at}
          ELSE PrivateIn(Tail(box)) = PrivateIn(box)
    BY <1>1, <1>3, BoxTail
  <1> HIDE DEF item, line, old
  <1>8. \A q \in Peers : /\ QueuedFor(q)' = QueuedFor(q)
                         /\ PrivateIn(inbox'[q]) \subseteq PrivateIn(inbox[q])
    BY <1>2, <1>3, <1>7, QueuesAre
  <1>9. PrivateShown(p)' \subseteq PrivateShown(p) \cup PrivateIn(inbox[p])
    <2>1. CASE item.kind = "private"
      <3>1. PICK more : more = Append(old, line)
        OBVIOUS
      <3>2. Ranks(more) = Ranks(old) \cup {item.at}
        BY <1>4, <1>6, <3>1, RanksAppend
      <3>3. shownPrivate'[p] = more
        BY <1>5, <1>6, <2>1, <3>1
      <3>4. QED
        BY <1>7, <2>1, <3>2, <3>3, QueuesAre DEF old
    <2>2. CASE item.kind # "private"
      BY <1>5, <2>2, QueuesAre
    <2>3. QED
      BY <2>1, <2>2
  <1>10. \A q \in Peers : q # p => PrivateShown(q)' = PrivateShown(q)
    BY <1>5, <1>6, QueuesAre
  <1>11. ASSUME NEW q \in Peers
         PROVE  Mail(q)' \subseteq Mail(q)
    <2>1. InHand(q, "private")' \subseteq InHand(q, "private") \cup {}
      BY <1>3, HandsKept DEF Keeps
    <2>2. PrivateShown(q)' \subseteq PrivateShown(q) \cup PrivateIn(inbox[q])
      BY <1>9, <1>10
    <2>3. QED
      BY <1>8, <2>1, <2>2 DEF Mail
  <1>12. QED
    BY <1>2, <1>11, MailMoves

\* The dispatcher's walk queues a message for the peer that the registry named.
LEMMA WalkMail ==
    ASSUME MessageInv, RouteInv, MailInv, WalkStep
    PROVE  MailInv'
  <1>1. ObserverStep /\ UNCHANGED <<handlers, inbox, shownPrivate>> /\ TypeInv
    BY DEF WalkStep, streamVars, MessageInv, ServerInv
  <1>2. /\ \A k \in StreamThreads : Keeps(k)
        /\ \A q \in Peers : InHand(q, "private")' = InHand(q, "private")
        /\ \A q \in Peers : /\ PrivateIn(inbox'[q]) = PrivateIn(inbox[q])
                            /\ PrivateShown(q)' = PrivateShown(q)
    BY <1>1, QueuesAre DEF Keeps, InHand
  <1>3. CASE QueuesCleared
    <2>1. Ids(<<>>) = {}
      BY DEF Ids
    <2>2. \A q \in Peers : QueuedFor(q)' \subseteq QueuedFor(q)
      BY <1>3, <2>1, QueuesAre DEF QueuesCleared
    <2>3. QED
      BY <1>2, <1>3, <2>2, MailKept DEF QueuesCleared
  <1>4. CASE UNCHANGED privateVars
    <2>1. \A q \in Peers : QueuedFor(q)' \subseteq QueuedFor(q)
      BY <1>4, QueuesAre DEF privateVars
    <2>2. QED
      BY <1>2, <1>4, <2>1, MailKept DEF privateVars
  <1>5. CASE Notifies("privateMessages", "PrivateMessageSent") /\ PrivateOnPrivateMessageSent(dispatch.event)
    <2> PICK e, size : e = dispatch.event /\ size = Len(privateSent)
      OBVIOUS
    <2> DEFINE payload == [author |-> e.senderPseudonym, content |-> e.content,
                           to |-> e.recipientPseudonym, id |-> size + 1]
               p == e.recipientPeer
    <2>1. e \in PrivateMessageSentEvent /\ dispatch # Unlocked /\ e.kind = "PrivateMessageSent"
      BY <1>1, <1>5, NotifiedEvent
    <2>2. /\ p \in Peers /\ size \in Nat /\ payload \in PrivateMessage
          /\ payload.id = size + 1 /\ payload.to \in NamesOf[p]
      <3>1. size \in Nat
        BY LimitTypes
      <3>2. e.recipientPseudonym \in NamesOf[p]
        BY <2>1 DEF RouteInv, Announcing
      <3>3. QED
        BY <2>1, <3>1, <3>2 DEF PrivateMessageSentEvent, PrivateMessage
    <2>3. /\ privateSent' = Append(privateSent, payload)
          /\ peerMessageQueues' = [peerMessageQueues EXCEPT ![p] = Append(@, payload)]
      BY <1>5 DEF PrivateOnPrivateMessageSent
    <2> HIDE DEF payload, p
    <2>4. /\ peerMessageQueues \in [Peers -> Seq(PrivateMessage)]
          /\ privateSent \in Seq(PrivateMessage)
      BY LimitTypes
    <2>5. PICK more : more = Append(peerMessageQueues[p], payload)
      OBVIOUS
    <2>6. Ids(more) = Ids(peerMessageQueues[p]) \cup {size + 1}
      BY <2>2, <2>4, <2>5, IdsAppend
    <2>7. /\ peerMessageQueues'[p] = more
          /\ \A q \in Peers : q # p => peerMessageQueues'[q] = peerMessageQueues[q]
      BY <2>2, <2>3, <2>4, <2>5
    <2>8. /\ QueuedFor(p)' = QueuedFor(p) \cup {size + 1}
          /\ \A q \in Peers : q # p => QueuedFor(q)' = QueuedFor(q)
      BY <2>6, <2>7, QueuesAre
    <2>9. \A q \in Peers : \A i \in Mail(q)' : i \in Mail(q) \/ (q = p /\ i = size + 1)
      BY <1>2, <2>8 DEF Mail
    <2>10. /\ size + 1 \in DOMAIN privateSent' /\ privateSent'[size + 1] = payload
           /\ \A i \in DOMAIN privateSent : i \in DOMAIN privateSent' /\ privateSent'[i] = privateSent[i]
      BY <2>3, <2>4
    <2>11. QED
      BY <2>2, <2>9, <2>10 DEF MailInv
  <1>6. QED
    <2>1. CASE PrivateQueues
      BY <1>3, <1>5, <2>1 DEF PrivateQueues, PrivateOnClientDisconnected, QueuesCleared
    <2>2. CASE RegistryConnected \/ RegistryDisconnected \/ DatabaseLogs \/ EventsLog \/ MessagesStore
      BY <1>4, <2>2 DEF RegistryConnected, RegistryDisconnected, DatabaseLogs, EventsLog, MessagesStore
    <2>3. QED
      BY <1>1, <2>1, <2>2 DEF ObserverStep

\* A message is shown under a name of its reader's user.
ReadersKnown ==
    \A p \in Peers : \A k \in DOMAIN shownPrivate[p] : shownPrivate[p][k].as \in NamesOf[p]

PostInv == OwnCalls /\ RouteInv /\ MailInv /\ ReadersKnown

LEMMA ShowReaders ==
    ASSUME MessageInv, RouteInv, ReadersKnown, NEW p \in Peers, ShowMessage(p)
    PROVE  ReadersKnown'
  <1> DEFINE line == [at |-> Head(inbox[p]).at, as |-> pseudonym[p]]
             old == shownPrivate[p]
  <1>1. MessageTypes /\ NameInv /\ inbox[p] # <<>>
    BY DEF MessageInv, ShowMessage, TakeInbox
  <1>2. line.as \in NamesOf[p]
    BY <1>1 DEF NameInv, RouteInv, NamesUsed
  <1>3. \/ shownPrivate' = [shownPrivate EXCEPT ![p] = Append(old, line)]
        \/ UNCHANGED shownPrivate
    BY DEF ShowMessage
  <1>4. DOMAIN shownPrivate = Peers /\ old \in Seq([at : Nat, as : Pseudonyms])
    BY <1>1 DEF MessageTypes
  <1> HIDE DEF line, old
  <1>5. PICK more : more = Append(old, line)
    OBVIOUS
  <1>6. \A k \in DOMAIN more : more[k] = line \/ (k \in DOMAIN old /\ more[k] = old[k])
    BY <1>4, <1>5
  <1>7. \A k \in DOMAIN more : more[k].as \in NamesOf[p]
    BY <1>2, <1>6 DEF ReadersKnown, old
  <1>8. CASE shownPrivate' = [shownPrivate EXCEPT ![p] = more]
    <2>1. shownPrivate'[p] = more /\ \A q \in Peers : q # p => shownPrivate'[q] = shownPrivate[q]
      BY <1>4, <1>8
    <2>2. QED
      BY <1>7, <2>1 DEF ReadersKnown
  <1>9. CASE UNCHANGED shownPrivate
    BY <1>9 DEF ReadersKnown
  <1>10. QED
    BY <1>3, <1>5, <1>8, <1>9

\* The steps that take no part in the messages' way to the screen.
LEMMA BesideMail ==
    ASSUME MessageInv, MailInv, ReadersKnown, UNCHANGED <<privateVars, shownPrivate, inbox>>,
           \A k \in StreamThreads : Keeps(k)
    PROVE  MailInv' /\ ReadersKnown'
  <1>1. \A q \in Peers : /\ QueuedFor(q)' = QueuedFor(q)
                         /\ PrivateIn(inbox'[q]) = PrivateIn(inbox[q])
                         /\ PrivateShown(q)' = PrivateShown(q)
    BY QueuesAre DEF privateVars
  <1>2. UNCHANGED privateSent
    BY DEF privateVars
  <1>3. MailInv'
    BY <1>1, <1>2, MailKept
  <1>4. QED
    BY <1>3 DEF ReadersKnown

LEMMA PostKept ==
    ASSUME MessageInv, PostInv, [MessageSystemNext]_allVars
    PROVE  PostInv'
  <1>0. TypeInv /\ WalkInv /\ OwnCalls /\ RouteInv /\ MailInv /\ ReadersKnown
    BY DEF PostInv, MessageInv, ServerInv
  <1>1. ASSUME [Next]_vars
        PROVE  OwnCalls' /\ RouteInv'
    BY <1>0, <1>1, OwnCallsKept, RouteKept
  <1>2. ASSUME UNCHANGED <<privateVars, messageSystemVars>>, [Next]_vars
        PROVE  PostInv'
    <2>1. UNCHANGED <<shownPrivate, inbox>> /\ \A k \in StreamThreads : Keeps(k)
      BY <1>2 DEF messageSystemVars, messageHistoryVars, streamVars, Keeps
    <2>2. QED
      BY <1>0, <1>1, <1>2, <2>1, BesideMail DEF PostInv
  <1>3. ASSUME NEW t \in Threads, UnaryStep(t) \/ (DropAnswer(t) /\ UNCHANGED messageSystemVars)
        PROVE  PostInv'
    <2>1. UNCHANGED <<privateVars, messageSystemVars>>
      BY <1>3 DEF UnaryStep, HandlerStep, ConnectCheck, ConnectRoster, ConnectNotify,
            DisconnectDuration, DisconnectNotify, SendLookup, SendValidate, SendRecipient, SendNotify,
            Notify, LocalStep, DropAnswer
    <2>2. QED
      BY <1>2, <1>3, <2>1 DEF UnaryStep, Next
  <1>4. ASSUME NEW p \in Peers, OtherClientStep(p), UNCHANGED messageSystemVars
        PROVE  PostInv'
    <2>1. UNCHANGED <<privateVars, messageSystemVars>>
      BY <1>4 DEF OtherClientStep, Login, ConnectTimesOut, CloseUnused, SendMessage, LoginRejected,
            Disconnected, MessageSent, LocalStep
    <2>2. Next
      BY <1>4 DEF OtherClientStep, Next, UserStep, ReplyStep
    <2>3. QED
      BY <1>2, <2>1, <2>2
  <1>5. ASSUME NEW p \in Peers, EnterChat(p)
        PROVE  PostInv'
    <2>1. LoginSucceeded(p) /\ OpenStream(p) /\ StreamInv /\ UNCHANGED shownPrivate
      BY <1>5 DEF EnterChat, MessageInv, messageHistoryVars
    <2>2. UNCHANGED privateVars /\ [Next]_vars
      BY <2>1 DEF LoginSucceeded, LocalStep, Next, ReplyStep
    <2>3. UNCHANGED inbox /\ \A k \in StreamThreads : Keeps(k)
      BY <2>1, OpensKept DEF Keeps
    <2>4. QED
      BY <1>0, <1>1, <2>1, <2>2, <2>3, BesideMail DEF PostInv
  <1>6. ASSUME NEW h \in StreamThreads, CancelStep(h)
        PROVE  PostInv'
    <2>1. /\ CancelArrives(h) /\ StreamInv /\ [Next]_vars
          /\ UNCHANGED <<privateVars, shownPrivate>>
      BY <1>6 DEF CancelStep, MessageInv, messageHistoryVars, serverVars, privateVars, vars
    <2>2. Moves(h, handlers[h].pc, handlers[h].item) /\ UNCHANGED inbox /\ handlers[h] # NoHandler
      BY <2>1, CancelMoves
    <2>3. \A k \in StreamThreads : Keeps(k)
      BY <2>2 DEF Moves, Keeps
    <2>4. QED
      BY <1>0, <1>1, <2>1, <2>2, <2>3, BesideMail DEF PostInv
  <1>7. ASSUME NEW h \in StreamThreads, MessagesHandler(h)
        PROVE  PostInv'
    <2>1. StreamStep
      BY <1>7, HandlerCases
    <2>2. UNCHANGED <<calls, clients, dispatch, pseudonym, awaiting, shownPrivate>>
      BY <2>1 DEF StreamStep, clientVars
    <2>3. RouteInv' /\ OwnCalls' /\ ReadersKnown'
      BY <1>0, <2>2, RouteFrame DEF OwnCalls, ReadersKnown
    <2>4. QED
      BY <1>0, <1>7, <2>3, HandlerMail DEF PostInv
  <1>8. ASSUME NEW p \in Peers, ShowMessage(p)
        PROVE  PostInv'
    <2>1. UNCHANGED <<calls, clients, dispatch, pseudonym, awaiting>>
      BY <1>8 DEF ShowMessage, serverVars, clientVars
    <2>2. RouteInv' /\ OwnCalls'
      BY <1>0, <2>1, RouteFrame DEF OwnCalls
    <2>3. QED
      BY <1>0, <1>8, <2>2, ShowMail, ShowReaders DEF PostInv
  <1>9. ASSUME NEW p \in Peers, LeaveChat(p)
        PROVE  PostInv'
    <2>1. [Next]_vars /\ UNCHANGED shownPrivate
      BY <1>9 DEF LeaveChat, Next, UserStep
    <2>2. QED
      BY <1>0, <1>1, <1>9, <2>1, LeaveMail DEF PostInv, ReadersKnown
  <1>10. CASE WalkStep
    <2>1. [Next]_vars /\ UNCHANGED shownPrivate
      BY <1>10 DEF WalkStep, Next
    <2>2. QED
      BY <1>0, <1>1, <1>10, <2>1, WalkMail DEF PostInv, ReadersKnown
  <1>11. CASE UNCHANGED <<serverVars, clientVars, messageSystemVars>>
    <2>1. /\ UNCHANGED privateVars /\ UNCHANGED <<calls, clients, dispatch, pseudonym, awaiting>>
          /\ UNCHANGED <<shownPrivate, inbox>> /\ \A k \in StreamThreads : Keeps(k)
      BY <1>11 DEF serverVars, privateVars, clientVars, messageSystemVars, messageHistoryVars,
            streamVars, Keeps
    <2>2. RouteInv' /\ OwnCalls'
      BY <1>0, <2>1, RouteFrame DEF OwnCalls
    <2>3. QED
      BY <1>0, <2>1, <2>2, BesideMail DEF PostInv
  <1>12. UNCHANGED allVars => UNCHANGED <<serverVars, clientVars, messageSystemVars>>
    BY DEF allVars, vars
  <1>13. QED
    BY <1>3, <1>4, <1>5, <1>6, <1>7, <1>8, <1>9, <1>10, <1>11, <1>12 DEF MessageSystemNext

LEMMA InitPost == MessageSystemInit => PostInv
  <1> SUFFICES ASSUME MessageSystemInit
               PROVE  PostInv
    OBVIOUS
  <1>1. OwnCalls /\ RouteInv
    BY InitRoute DEF MessageSystemInit
  <1>2. /\ handlers = [h \in StreamThreads |-> NoHandler]
        /\ inbox = [p \in Peers |-> <<>>]
        /\ peerMessageQueues = [p \in Peers |-> <<>>]
        /\ shownPrivate = [p \in Peers |-> <<>>]
    BY DEF MessageSystemInit, StreamInit, Init, ServiceInit, PrivateInit
  <1>3. \A p \in Peers : Mail(p) = {}
    BY <1>2 DEF Mail, QueuedFor, PrivateIn, PrivateShown, InHand
  <1>4. QED
    BY <1>1, <1>2, <1>3 DEF PostInv, MailInv, ReadersKnown

LEMMA PostSafe == MessageSystemSpec => [](MessageInv /\ PostInv)
  <1>1. MessageInv /\ PostInv /\ [MessageSystemNext]_allVars => PostInv'
    BY PostKept
  <1>2. QED
    BY <1>1, InitPost, MessageSafe, PTL DEF MessageSystemSpec

\* What a client is shown was written to its user.
PrivateStaysWithUser ==
    \A p \in Peers : \A k \in DOMAIN shownPrivate[p] :
       privateSent[shownPrivate[p][k].at].to \in NamesOf[p]

\* A private message is never shown to a user it was not written to, whoever
\* competes for names, disconnects in another's name or reads with an old
\* stream: the recipient's peer is looked up in the registry, the message waits
\* for the dispatcher and in the peer's queue, and the queue outlives the session.
THEOREM PrivateStays == MessageSystemSpec => []PrivateStaysWithUser
  <1>1. MailInv => PrivateStaysWithUser
    BY DEF MailInv, Mail, PrivateShown, PrivateStaysWithUser
  <1>2. QED
    BY <1>1, PostSafe, PTL DEF PostInv

\* No user ever logs in under a second name.
OneNameEach == \A p \in Peers : \A m, n \in NamesOf[p] : m = n

\* Where each user keeps to one name, a private message is shown under the name
\* it was written to: only a client that logs in again under another name is
\* shown messages to the name it had.
THEOREM OneNameReachesAddressee == MessageSystemSpec => [](OneNameEach => PrivateReachesAddressee)
  <1>1. MailInv /\ ReadersKnown /\ OneNameEach => PrivateReachesAddressee
    BY DEF MailInv, ReadersKnown, OneNameEach, Mail, PrivateShown, PrivateReachesAddressee
  <1>2. QED
    BY <1>1, PostSafe, PTL DEF PostInv
===============================================================================
