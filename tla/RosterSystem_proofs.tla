-------------------------- MODULE RosterSystem_proofs --------------------------
(***************************************************************************)
(* Proofs about SubscribeClientEvents, for every set of peers, names and   *)
(* threads and every bound: a client is shown the events in log order and  *)
(* none twice, none is lost on the way to it unseen, and its roster is     *)
(* right about every name whose last event it did not miss.                *)
(***************************************************************************)
EXTENDS RosterSystem, StreamCalls_proofs, WellFoundedInduction

RosterTypes ==
    /\ roster \in [Peers -> SUBSET Pseudonyms]
    /\ shown \in [Peers -> Seq(Nat)]
    /\ snapshotAt \in [Peers -> Nat]
    /\ base \in [Peers -> Nat]
    /\ stolen \in [Peers -> SUBSET Nat]

\* The log position up to which events were taken for p, or will never be.
Limit(p) == IF eventIndices[p] = NoIndex THEN Len(clientEvents) ELSE eventIndices[p]

\* Each event on its way to p comes after those p was shown, and no cursor is
\* beyond the log.
OrderInv ==
    \A p \in Peers :
       /\ eventIndices[p] <= Len(clientEvents)
       /\ InLine(shown[p], inbox[p], Hand(p), "event", Limit(p))

\* This stream carries nothing but events.
OnlyEvents ==
    /\ \A p \in Peers : \A k \in DOMAIN inbox[p] : inbox[p][k].kind = "event"
    /\ \A h \in StreamThreads :
          handlers[h] # NoHandler /\ handlers[h].item # NoItem => handlers[h].item.kind = "event"

RosterInv == ServerInv /\ StreamInv /\ RosterTypes /\ OnlyEvents /\ OrderInv

-----------------------------------------------------------------------------
(* Cursors.                                                                *)

LEMMA CursorTypes ==
    ASSUME RosterInv
    PROVE  /\ clientEvents \in Seq(ClientEventData) /\ Len(clientEvents) \in Nat
           /\ eventIndices \in [Peers -> Nat \cup {NoIndex}]
           /\ \A p \in Peers : Limit(p) \in Nat /\ Limit(p) <= Len(clientEvents)
  <1>1. /\ clientEvents \in Seq(ClientEventData)
        /\ eventIndices \in [Peers -> Nat \cup {NoIndex}]
    BY DEF RosterInv, ServerInv, TypeInv, TypeOK, ClientEventsTypeOK
  <1>2. Len(clientEvents) \in Nat
    BY <1>1
  <1>3. \A p \in Peers : eventIndices[p] <= Len(clientEvents)
    BY DEF RosterInv, OrderInv
  <1>4. QED
    BY <1>1, <1>2, <1>3 DEF Limit

\* The cursor of p moves to index, and no other.
CursorAt(p, index) ==
    /\ eventIndices' \in [Peers -> Nat \cup {NoIndex}]
    /\ eventIndices'[p] = index
    /\ \A q \in Peers : q # p => eventIndices'[q] = eventIndices[q]

LEMMA SetCursor ==
    ASSUME RosterInv, NEW p \in Peers, NEW index \in Nat \cup {NoIndex},
           SetEventIndex(p, index)
    PROVE  CursorAt(p, index)
  BY CursorTypes DEF SetEventIndex, CursorAt

LEMMA CursorStays ==
    ASSUME RosterInv, NEW p \in Peers, UNCHANGED eventIndices
    PROVE  CursorAt(p, eventIndices[p])
  BY CursorTypes DEF CursorAt

\* The cases of nextClientEvent: the index is dropped, the call waits with the
\* cursor at the end, or it takes the event after the limit.
LEMMA NextIndex ==
    ASSUME RosterInv, NEW p \in Peers
    PROVE  /\ DropEventIndex(p) => ~isPeerConnected(p) /\ CursorAt(p, NoIndex)
           /\ StartEventWaits(p) \/ ResumeEventEmpty(p) =>
                isPeerConnected(p) /\ Limit(p) = Len(clientEvents) /\ CursorAt(p, Limit(p))
           /\ StartEventTaken(p) \/ ResumeEventTaken(p) =>
                isPeerConnected(p) /\ Limit(p) < Len(clientEvents) /\ CursorAt(p, Limit(p) + 1)
           /\ ResumeEventEntryGone(p) => isPeerConnected(p) /\ CursorAt(p, NoIndex)
  <1> DEFINE size == Len(clientEvents)
             at == eventIndices[p]
  <1>1. /\ size \in Nat /\ at \in Nat \cup {NoIndex} /\ at <= size
        /\ Limit(p) \in Nat /\ Limit(p) <= size
        /\ Limit(p) = IF at = NoIndex THEN size ELSE at
    BY CursorTypes DEF RosterInv, OrderInv, Limit
  <1>2. Located(at, size) = Limit(p)
    BY <1>1 DEF Located
  <1>3. ASSUME DropEventIndex(p)
        PROVE  ~isPeerConnected(p) /\ CursorAt(p, NoIndex)
    BY <1>3, SetCursor DEF DropEventIndex
  <1>4. ASSUME StartEventWaits(p)
        PROVE  isPeerConnected(p) /\ Limit(p) = size /\ CursorAt(p, Limit(p))
    <2>1. isPeerConnected(p) /\ Limit(p) >= size /\ SetEventIndex(p, Limit(p))
      BY <1>2, <1>4 DEF StartEventWaits
    <2>2. QED
      BY <1>1, <2>1, SetCursor
  <1>5. ASSUME ResumeEventEmpty(p)
        PROVE  isPeerConnected(p) /\ Limit(p) = size /\ CursorAt(p, Limit(p))
    <2>1. isPeerConnected(p) /\ at >= size /\ UNCHANGED eventIndices
      BY <1>5 DEF ResumeEventEmpty
    <2>2. at = size /\ Limit(p) = size
      BY <1>1, <2>1 DEF NoIndex
    <2>3. QED
      BY <2>1, <2>2, CursorStays
  <1>6. ASSUME StartEventTaken(p) \/ ResumeEventTaken(p)
        PROVE  isPeerConnected(p) /\ Limit(p) < size /\ CursorAt(p, Limit(p) + 1)
    <2>1. isPeerConnected(p) /\ TakeEvent(p, Limit(p))
      BY <1>1, <1>2, <1>6 DEF StartEventTaken, ResumeEventTaken
    <2>2. Limit(p) < size /\ SetEventIndex(p, Limit(p) + 1) /\ Limit(p) + 1 \in Nat
      BY <1>1, <2>1 DEF TakeEvent
    <2>3. QED
      BY <2>1, <2>2, SetCursor
  <1>7. ASSUME ResumeEventEntryGone(p)
        PROVE  isPeerConnected(p) /\ CursorAt(p, NoIndex)
    BY <1>7, CursorStays DEF ResumeEventEntryGone
  <1>8. QED
    BY <1>3, <1>4, <1>5, <1>6, <1>7

-----------------------------------------------------------------------------
(* The handler's steps.                                                    *)

\* A handler of the stream leaves the rest of the server alone.
LEMMA HandlerFrame ==
    ASSUME RosterInv, NEW p \in Peers, NEW index, CursorAt(p, index), StreamStep
    PROVE  ServerInv' /\ UNCHANGED <<clientEvents, roster, shown, snapshotAt>>
  <1>1. UNCHANGED <<now, clients, clientEvents, messageHistory, privateSent, lastMessageTime,
                    statisticsVars, dispatch, calls, admittedAt, clientVars, messageIndices,
                    peerMessageQueues, roster, shown, snapshotAt>>
    BY DEF StreamStep, messageVars, privateVars
  <1>2. /\ messageIndices \in [Peers -> Nat \cup {NoIndex}]
        /\ peerMessageQueues \in [Peers -> Seq(PrivateMessage)]
        /\ ServerInv
    BY DEF RosterInv, ServerInv, TypeInv, TypeOK, MessagesTypeOK, PrivateTypeOK
  <1>3. eventIndices' \in [Peers -> Nat \cup {NoIndex}]
    BY DEF CursorAt
  <1>4. ServerInv'
    BY <1>1, <1>2, <1>3, ServerFrame
  <1>5. QED
    BY <1>1, <1>4

\* The handler in h ends, and may drop its peer's index before.
HandlerEnds(h, p) ==
    /\ handlers[h].pc # "write"
    /\ StreamEnds(h)
    /\ \/ CursorAt(p, eventIndices[p])
       \/ CursorAt(p, NoIndex) /\ (~isPeerConnected(p) \/ eventIndices[p] = NoIndex)
    /\ UNCHANGED <<base, stolen>>

\* The handler in h goes on and takes nothing.
HandlerGoes(h, p) ==
    /\ UNCHANGED stolen
    /\ \/ /\ handlers[h].pc = "start" /\ StreamGoto(h, "queue")
          /\ CursorAt(p, eventIndices[p]) /\ UNCHANGED base
       \/ /\ handlers[h].pc = "queue" /\ StreamGoto(h, "loop")
          /\ CursorAt(p, IF isPeerConnected(p) THEN Limit(p) ELSE NoIndex)
          /\ base' = IF isPeerConnected(p) /\ ~Stale(h) THEN [base EXCEPT ![p] = Limit(p)] ELSE base
       \/ /\ handlers[h].pc \in {"loop", "wait"}
          /\ StreamGoto(h, "loop") \/ StreamGoto(h, "wait")
          /\ isPeerConnected(p) /\ Limit(p) = Len(clientEvents)
          /\ CursorAt(p, Limit(p)) /\ UNCHANGED base

\* The handler in h takes the event after the limit.
HandlerTakes(h, p) ==
    /\ handlers[h].pc \in {"loop", "wait"}
    /\ StreamTakes(h, [kind |-> "event", at |-> Limit(p) + 1])
    /\ isPeerConnected(p) /\ Limit(p) < Len(clientEvents)
    /\ CursorAt(p, Limit(p) + 1)
    /\ UNCHANGED <<base, stolen>>

\* The handler in h writes what it has in hand, to its client or to nobody.
HandlerWrites(h, p) ==
    /\ CursorAt(p, eventIndices[p])
    /\ UNCHANGED base
    /\ \/ StreamWrites(h) /\ UNCHANGED stolen
       \/ /\ StreamWriteLost(h)
          /\ stolen' = IF Subscribed(p) /\ handlers[h].item.at > base[p]
                         THEN [stolen EXCEPT ![p] = @ \cup {handlers[h].item.at}] ELSE stolen

LEMMA HandlerCases ==
    ASSUME RosterInv, NEW h \in StreamThreads, EventsHandler(h),
           NEW p, p = handlers[h].peer
    PROVE  /\ handlers[h] # NoHandler /\ p \in Peers
           /\ StreamStep
           /\ \/ HandlerEnds(h, p) \/ HandlerGoes(h, p)
              \/ HandlerTakes(h, p) \/ HandlerWrites(h, p)
  <1>1. StreamStep
    BY DEF EventsHandler, EventsStart, EventsNormalize, EventsNext, EventsWake, EventsWrite,
           EventsCancelled
  <1>2. handlers[h] # NoHandler
    BY DEF EventsHandler, EventsStart, EventsNormalize, EventsNext, EventsWake, EventsWrite,
           EventsCancelled, StreamCancelled, StreamWrites, StreamWriteLost, Serving
  <1>3. p \in Peers /\ StreamInv
    BY <1>2, HandlerTypes DEF RosterInv
  <1>4. CursorAt(p, eventIndices[p]) \/ ~(UNCHANGED eventIndices)
    BY <1>3, CursorStays
  <1>5. CASE EventsStart(h)
    BY <1>1, <1>2, <1>3, <1>4, <1>5 DEF EventsStart, Serving, HandlerEnds, HandlerGoes
  <1>6. CASE EventsNormalize(h)
    <2> DEFINE at == IF isPeerConnected(p) THEN Limit(p) ELSE NoIndex
    <2>1. /\ Limit(p) \in Nat /\ eventIndices[p] \in Nat \cup {NoIndex}
          /\ eventIndices[p] <= Len(clientEvents) /\ Len(clientEvents) \in Nat
      BY <1>3, CursorTypes DEF RosterInv, OrderInv
    <2>2. Normalized(eventIndices[p], Len(clientEvents)) = Limit(p)
      BY <2>1 DEF Normalized, Limit
    <2>3. normalizeClientEventIndex(p)
      BY <1>6 DEF EventsNormalize
    <2>4. SetEventIndex(p, at) /\ at \in Nat \cup {NoIndex}
      BY <2>1, <2>2, <2>3 DEF normalizeClientEventIndex
    <2> HIDE DEF at
    <2>5. CursorAt(p, at)
      BY <1>3, <2>4, SetCursor
    <2>6. eventIndices'[p] = at
      BY <2>5 DEF CursorAt
    <2>7. /\ handlers[h].pc = "queue" /\ StreamGoto(h, "loop") /\ UNCHANGED stolen
          /\ base' = IF isPeerConnected(p) /\ ~Stale(h)
                       THEN [base EXCEPT ![p] = eventIndices'[p]] ELSE base
      BY <1>6 DEF EventsNormalize, Serving
    <2>8. base' = IF isPeerConnected(p) /\ ~Stale(h) THEN [base EXCEPT ![p] = Limit(p)] ELSE base
      BY <2>6, <2>7 DEF at
    <2>9. HandlerGoes(h, p)
      BY <2>5, <2>7, <2>8 DEF HandlerGoes, at
    <2>10. QED
      BY <1>1, <1>2, <1>3, <2>9
  <1>7. ASSUME NEW pc \in {"loop", "wait"}, handlers[h].pc = pc,
               UNCHANGED <<base, stolen>>,
               \/ DropEventIndex(p) /\ StreamEnds(h)
               \/ ResumeEventEntryGone(p) /\ StreamEnds(h)
               \/ (StartEventTaken(p) \/ ResumeEventTaken(p)) /\ EventTaken(h)
               \/ StartEventWaits(p) /\ StreamGoto(h, "wait")
               \/ ResumeEventEmpty(p) /\ StreamGoto(h, "loop")
        PROVE  HandlerEnds(h, p) \/ HandlerGoes(h, p) \/ HandlerTakes(h, p)
    <2>1. CASE StreamEnds(h) /\ (DropEventIndex(p) \/ ResumeEventEntryGone(p))
      <3>1. /\ CursorAt(p, NoIndex)
            /\ ~isPeerConnected(p) \/ eventIndices[p] = NoIndex
        BY <1>3, <2>1, NextIndex DEF ResumeEventEntryGone
      <3>2. QED
        BY <1>7, <2>1, <3>1 DEF HandlerEnds
    <2>2. CASE /\ StartEventWaits(p) \/ ResumeEventEmpty(p)
               /\ StreamGoto(h, "wait") \/ StreamGoto(h, "loop")
      <3>1. isPeerConnected(p) /\ Limit(p) = Len(clientEvents) /\ CursorAt(p, Limit(p))
        BY <1>3, <2>2, NextIndex
      <3>2. QED
        BY <1>7, <2>2, <3>1 DEF HandlerGoes
    <2>3. CASE EventTaken(h) /\ (StartEventTaken(p) \/ ResumeEventTaken(p))
      <3>1. isPeerConnected(p) /\ Limit(p) < Len(clientEvents) /\ CursorAt(p, Limit(p) + 1)
        BY <1>3, <2>3, NextIndex
      <3>2. eventIndices'[p] = Limit(p) + 1
        BY <3>1 DEF CursorAt
      <3>3. StreamTakes(h, [kind |-> "event", at |-> Limit(p) + 1])
        BY <2>3, <3>2 DEF EventTaken
      <3>4. QED
        BY <1>7, <3>1, <3>3 DEF HandlerTakes
    <2>4. QED
      BY <1>7, <2>1, <2>2, <2>3
  <1>8. CASE EventsNext(h)
    <2>1. /\ handlers[h].pc = "loop" /\ UNCHANGED <<base, stolen>>
          /\ \/ DropEventIndex(p) /\ StreamEnds(h)
             \/ StartEventTaken(p) /\ EventTaken(h)
             \/ StartEventWaits(p) /\ StreamGoto(h, "wait")
      BY <1>8 DEF EventsNext, Serving
    <2>2. QED
      BY <1>1, <1>2, <1>3, <1>7, <2>1
  <1>9. CASE EventsWake(h)
    <2>1. /\ handlers[h].pc = "wait" /\ UNCHANGED <<base, stolen>>
          /\ \/ DropEventIndex(p) /\ StreamEnds(h)
             \/ ResumeEventEntryGone(p) /\ StreamEnds(h)
             \/ ResumeEventTaken(p) /\ EventTaken(h)
             \/ ResumeEventEmpty(p) /\ StreamGoto(h, "loop")
      BY <1>9 DEF EventsWake, Serving
    <2>2. QED
      BY <1>1, <1>2, <1>3, <1>7, <2>1
  <1>10. CASE EventsWrite(h)
    BY <1>1, <1>2, <1>3, <1>4, <1>10 DEF EventsWrite, HandlerWrites
  <1>11. CASE EventsCancelled(h)
    BY <1>1, <1>2, <1>3, <1>4, <1>11 DEF EventsCancelled, StreamCancelled, Serving, HandlerEnds
  <1>12. QED
    BY <1>5, <1>6, <1>8, <1>9, <1>10, <1>11 DEF EventsHandler

-----------------------------------------------------------------------------
(* Events are shown in log order.                                          *)

\* Where a step moves the limits to, when only p's cursor moves.
LEMMA LimitMoves ==
    ASSUME RosterInv, NEW p \in Peers, NEW index, CursorAt(p, index), UNCHANGED clientEvents,
           index = NoIndex \/ (index \in Nat /\ index <= Len(clientEvents))
    PROVE  /\ Limit(p)' = IF index = NoIndex THEN Len(clientEvents) ELSE index
           /\ Limit(p)' \in Nat
           /\ \A q \in Peers : q # p => Limit(q)' = Limit(q)
           /\ \A q \in Peers : eventIndices'[q] <= Len(clientEvents)'
  <1>1. /\ Len(clientEvents) \in Nat
        /\ \A q \in Peers : eventIndices[q] <= Len(clientEvents)
    BY CursorTypes DEF RosterInv, OrderInv
  <1>2. /\ eventIndices'[p] = index
        /\ \A q \in Peers : q # p => eventIndices'[q] = eventIndices[q]
    BY DEF CursorAt
  <1>3. NoIndex <= Len(clientEvents)
    BY <1>1 DEF NoIndex
  <1>4. \A q \in Peers : Limit(q)' = IF eventIndices'[q] = NoIndex THEN Len(clientEvents)
                                                                  ELSE eventIndices'[q]
    BY DEF Limit
  <1>5. \A q \in Peers : q # p => Limit(q)' = Limit(q)
    BY <1>2, <1>4 DEF Limit
  <1>6. Limit(p)' = IF index = NoIndex THEN Len(clientEvents) ELSE index
    BY <1>2, <1>4
  <1>7. \A q \in Peers : eventIndices'[q] <= Len(clientEvents)
    <2>1. index <= Len(clientEvents)
      BY <1>3
    <2>2. QED
      BY <1>1, <1>2, <2>1
  <1>8. QED
    BY <1>1, <1>5, <1>6, <1>7

\* A step that leaves screens and inboxes alone keeps the order if it lowers no
\* limit and puts into no hand what is not the next event.
LEMMA OrderFrame ==
    ASSUME RosterInv, UNCHANGED <<shown, inbox>>,
           \A q \in Peers : /\ eventIndices'[q] <= Len(clientEvents)'
                            /\ Limit(q)' \in Nat /\ Limit(q) <= Limit(q)'
                            /\ \/ Hand(q)' = Hand(q)
                               \/ Hand(q)' = NoItem
                               \/ /\ Hand(q)' \in Item
                                  /\ Limit(q) < Hand(q)'.at /\ Hand(q)'.at <= Limit(q)'
    PROVE  OrderInv'
  <1> SUFFICES ASSUME NEW q \in Peers
               PROVE  InLine(shown[q], inbox[q], Hand(q)', "event", Limit(q)')
    BY DEF OrderInv
  <1>1. /\ InLine(shown[q], inbox[q], Hand(q), "event", Limit(q))
        /\ Limit(q) \in Nat /\ shown[q] \in Seq(Nat) /\ inbox[q] \in Seq(Item)
    BY CursorTypes DEF RosterInv, OrderInv, RosterTypes, StreamInv, StreamTypeOK
  <1>2. InLine(shown[q], inbox[q], Hand(q), "event", Limit(q)')
    BY <1>1, LineWider
  <1>3. CASE Hand(q)' = Hand(q) \/ Hand(q)' = NoItem
    <2> DEFINE hand == Hand(q)'
    <2>1. InLine(shown[q], inbox[q], NoItem, "event", Limit(q)')
      BY <1>2, LineEmptyHand
    <2>2. QED
      BY <1>2, <1>3, <2>1
  <1>4. CASE Hand(q)' \in Item /\ Limit(q) < Hand(q)'.at /\ Hand(q)'.at <= Limit(q)'
    BY <1>1, <1>4, LineTakes
  <1>5. QED
    BY <1>3, <1>4

LEMMA HandlerKept ==
    ASSUME RosterInv, NEW h \in StreamThreads, EventsHandler(h)
    PROVE  RosterInv'
  <1>0. PICK p : p = handlers[h].peer
    OBVIOUS
  <1>1. /\ handlers[h] # NoHandler /\ p \in Peers /\ StreamStep
        /\ HandlerEnds(h, p) \/ HandlerGoes(h, p) \/ HandlerTakes(h, p) \/ HandlerWrites(h, p)
    BY <1>0, HandlerCases
  <1>2. /\ StreamInv /\ RosterTypes /\ OnlyEvents
        /\ Len(clientEvents) \in Nat /\ Limit(p) \in Nat /\ Limit(p) <= Len(clientEvents)
        /\ \A q \in Peers : Limit(q) \in Nat /\ Limit(q) <= Len(clientEvents)
        /\ eventIndices[p] \in Nat \cup {NoIndex} /\ eventIndices[p] <= Len(clientEvents)
    BY <1>1, CursorTypes DEF RosterInv, OrderInv
  <1>3. PICK index : /\ CursorAt(p, index)
                     /\ \/ index = NoIndex
                        \/ index \in Nat /\ Limit(p) <= index /\ index <= Len(clientEvents)
    <2>1. CASE CursorAt(p, eventIndices[p])
      BY <1>2, <2>1 DEF Limit
    <2>2. CASE CursorAt(p, NoIndex)
      BY <2>2
    <2>3. CASE CursorAt(p, Limit(p))
      BY <1>2, <2>3
    <2>4. CASE CursorAt(p, Limit(p) + 1) /\ Limit(p) < Len(clientEvents)
      BY <1>2, <2>4
    <2>5. CASE CursorAt(p, IF isPeerConnected(p) THEN Limit(p) ELSE NoIndex)
      BY <2>2, <2>3, <2>5
    <2>6. QED
      BY <1>1, <2>1, <2>2, <2>3, <2>4, <2>5 DEF HandlerEnds, HandlerGoes, HandlerTakes, HandlerWrites
  <1>4. ServerInv' /\ UNCHANGED <<clientEvents, roster, shown, snapshotAt>>
    BY <1>1, <1>3, HandlerFrame
  <1>5. /\ Limit(p)' = IF index = NoIndex THEN Len(clientEvents) ELSE index
        /\ \A q \in Peers : q # p => Limit(q)' = Limit(q)
        /\ \A q \in Peers : eventIndices'[q] <= Len(clientEvents)'
    BY <1>1, <1>3, <1>4, LimitMoves
  <1>6. \A q \in Peers : Limit(q)' \in Nat /\ Limit(q) <= Limit(q)'
    <2>1. Limit(p)' \in Nat /\ Limit(p) <= Limit(p)'
      BY <1>2, <1>3, <1>5
    <2>2. \A q \in Peers : Limit(q) <= Limit(q)
      BY <1>2
    <2>3. QED
      BY <1>2, <1>5, <2>1, <2>2
  <1>7. RosterTypes'
    <2>1. base' \in [Peers -> Nat]
      <3>1. UNCHANGED base \/ base' = [base EXCEPT ![p] = Limit(p)]
        BY <1>1 DEF HandlerEnds, HandlerGoes, HandlerTakes, HandlerWrites
      <3>2. QED
        BY <1>1, <1>2, <3>1 DEF RosterTypes
    <2>2. stolen' \in [Peers -> SUBSET Nat]
      <3>1. CASE UNCHANGED stolen
        BY <1>2, <3>1 DEF RosterTypes
      <3>2. CASE StreamWriteLost(h) /\ stolen' = [stolen EXCEPT ![p] = @ \cup {handlers[h].item.at}]
        <4>1. handlers[h].item.at \in Nat
          BY <1>2, <3>2, WriteLostKept DEF Item
        <4>2. QED
          BY <1>1, <1>2, <3>2, <4>1 DEF RosterTypes
      <3>3. QED
        BY <1>1, <3>1, <3>2 DEF HandlerEnds, HandlerGoes, HandlerTakes, HandlerWrites
    <2>3. QED
      BY <1>2, <1>4, <2>1, <2>2 DEF RosterTypes
  <1>8. CASE HandlerEnds(h, p)
    <2>0. StreamEnds(h)
      BY <1>8 DEF HandlerEnds
    <2>1. /\ StreamInv' /\ UNCHANGED inbox
          /\ handlers'[h] = NoHandler
          /\ \A k \in StreamThreads : k # h => handlers'[k] = handlers[k]
          /\ \A q \in Peers : Hand(q)' = Hand(q) \/ Hand(q)' = NoItem
      <3>1. \A q \in Peers : /\ stream[q] = h => Hand(q)' = NoItem
                             /\ stream[q] # h => Hand(q)' = Hand(q)
        BY <1>2, <2>0, EndsKept
      <3>2. /\ StreamInv' /\ UNCHANGED inbox
            /\ handlers'[h] = NoHandler
            /\ \A k \in StreamThreads : k # h => handlers'[k] = handlers[k]
        BY <1>2, <2>0, EndsKept
      <3>3. QED
        BY <3>1, <3>2
    <2>2. OnlyEvents'
      BY <1>2, <2>1 DEF OnlyEvents
    <2>3. OrderInv'
      BY <1>4, <1>5, <1>6, <2>1, OrderFrame
    <2>4. QED
      BY <1>4, <1>7, <2>1, <2>2, <2>3 DEF RosterInv
  <1>9. CASE HandlerGoes(h, p)
    <2>1. PICK pc \in {"queue", "loop", "wait"} : StreamGoto(h, pc) /\ handlers[h].pc # "write"
      BY <1>9 DEF HandlerGoes
    <2>2. /\ Moves(h, pc, NoItem) /\ UNCHANGED <<stream, inbox>> /\ inbox' \in [Peers -> Seq(Item)]
      BY <1>1, <1>2, <2>1, GotoMoves DEF Places, StreamInv, StreamTypeOK
    <2>3. /\ StreamInv'
          /\ \A q \in Peers : Hand(q)' = Hand(q) \/ Hand(q)' = NoItem
      BY <1>2, <2>2, MovesKept
    <2>4. OnlyEvents'
      BY <1>2, <2>2 DEF OnlyEvents, Moves
    <2>5. OrderInv'
      BY <1>4, <1>5, <1>6, <2>2, <2>3, OrderFrame
    <2>6. QED
      BY <1>4, <1>7, <2>3, <2>4, <2>5 DEF RosterInv
  <1>10. CASE HandlerTakes(h, p)
    <2> DEFINE item == [kind |-> "event", at |-> Limit(p) + 1]
    <2>1. item \in Item /\ item.kind = "event" /\ item.at = Limit(p) + 1
      BY <1>2 DEF Item
    <2>2. StreamTakes(h, item) /\ CursorAt(p, item.at) /\ item.at \in Nat /\ item.at <= Len(clientEvents)
      BY <1>2, <1>10, <2>1 DEF HandlerTakes
    <2> HIDE DEF item
    <2>3. /\ Moves(h, "write", item) /\ UNCHANGED <<stream, inbox>>
          /\ inbox' \in [Peers -> Seq(Item)] /\ item # NoItem
      BY <1>1, <1>2, <2>1, <2>2, TakesMoves, StreamAssumption DEF StreamInv, StreamTypeOK
    <2>4. /\ StreamInv'
          /\ \A q \in Peers : Hand(q)' = IF stream[q] = h THEN item ELSE Hand(q)
      BY <1>2, <2>3, MovesKept
    <2>5. \A q \in Peers : stream[q] = h => q = p
      BY <1>0, <1>1, <1>2, StreamAssumption DEF StreamInv
    <2>6. Limit(p)' = item.at /\ Limit(p) < item.at
      <3>1. item.at # NoIndex
        BY <2>2 DEF NoIndex
      <3>2. Limit(p)' = IF item.at = NoIndex THEN Len(clientEvents) ELSE item.at
        BY <1>1, <1>4, <2>2, LimitMoves
      <3>3. QED
        BY <1>2, <2>1, <3>1, <3>2
    <2>7. \A q \in Peers : \/ Hand(q)' = Hand(q)
                           \/ /\ Hand(q)' \in Item
                              /\ Limit(q) < Hand(q)'.at /\ Hand(q)'.at <= Limit(q)'
      <3>1. \A q \in Peers : stream[q] # h => Hand(q)' = Hand(q)
        BY <2>4
      <3>2. stream[p] = h => /\ Hand(p)' \in Item
                             /\ Limit(p) < Hand(p)'.at /\ Hand(p)'.at <= Limit(p)'
        BY <1>1, <2>1, <2>2, <2>4, <2>6
      <3>3. QED
        BY <2>5, <3>1, <3>2
    <2>8. OnlyEvents'
      BY <1>2, <2>1, <2>3 DEF OnlyEvents, Moves
    <2>9. OrderInv'
      BY <1>4, <1>5, <1>6, <2>3, <2>7, OrderFrame
    <2>10. QED
      BY <1>4, <1>7, <2>4, <2>8, <2>9 DEF RosterInv
  <1>11. CASE StreamWrites(h) /\ HandlerWrites(h, p)
    <2> DEFINE item == handlers[h].item
    <2>0. StreamWrites(h) /\ p = handlers[h].peer
      BY <1>0, <1>11
    <2>1. /\ StreamInv'
          /\ p \in Peers /\ item \in Item /\ stream[p] = h /\ handlers[h] # NoHandler
          /\ Moves(h, "loop", NoItem)
          /\ inbox'[p] = Append(inbox[p], item) /\ Hand(p) = item /\ Hand(p)' = NoItem
          /\ \A q \in Peers : q # p => inbox'[q] = inbox[q] /\ Hand(q)' = Hand(q)
      BY <1>2, <2>0, WritesKept
    <2>2. item.kind = "event" /\ item # NoItem
      BY <1>2, <2>1, StreamAssumption DEF OnlyEvents
    <2> HIDE DEF item
    <2>3. OnlyEvents'
      <3>1. \A k \in StreamThreads : handlers'[k] # NoHandler /\ handlers'[k].item # NoItem =>
              handlers'[k].item.kind = "event"
        BY <1>2, <2>1 DEF OnlyEvents, Moves
      <3>2. inbox[p] \in Seq(Item) /\ \A k \in DOMAIN inbox[p] : inbox[p][k].kind = "event"
        BY <1>1, <1>2 DEF OnlyEvents, StreamInv, StreamTypeOK
      <3>3. \A k \in DOMAIN inbox'[p] : inbox'[p][k].kind = "event"
        BY <2>1, <2>2, <3>2
      <3>4. QED
        BY <1>2, <2>1, <3>1, <3>3 DEF OnlyEvents
    <2>4. OrderInv'
      <3> SUFFICES ASSUME NEW q \in Peers
                   PROVE  InLine(shown[q], inbox'[q], Hand(q)', "event", Limit(q)')
        BY <1>4, <1>5 DEF OrderInv
      <3>1. /\ InLine(shown[q], inbox[q], Hand(q), "event", Limit(q)) /\ inbox[q] \in Seq(Item)
        BY <1>2 DEF RosterInv, OrderInv, StreamInv, StreamTypeOK
      <3>2. InLine(shown[q], inbox[q], Hand(q), "event", Limit(q)')
        BY <1>2, <1>6, <3>1, LineWider
      <3>3. CASE q = p
        <4>1. InLine(shown[p], inbox[p], item, "event", Limit(p)') /\ inbox[p] \in Seq(Item)
          BY <2>1, <3>1, <3>2, <3>3
        <4>2. InLine(shown[p], Append(inbox[p], item), NoItem, "event", Limit(p)')
          BY <2>1, <2>2, <4>1, LineWrites
        <4>3. QED
          BY <2>1, <3>3, <4>2
      <3>4. QED
        BY <2>1, <3>2, <3>3
    <2>5. QED
      BY <1>4, <1>7, <2>1, <2>3, <2>4 DEF RosterInv
  <1>12. CASE StreamWriteLost(h) /\ HandlerWrites(h, p)
    <2>1. /\ StreamInv' /\ UNCHANGED <<stream, inbox>>
          /\ handlers'[h] = NoHandler \/ Moves(h, "loop", NoItem)
          /\ \A k \in StreamThreads : k # h => handlers'[k] = handlers[k]
          /\ \A q \in Peers : Hand(q)' = Hand(q)
      BY <1>2, <1>12, WriteLostKept
    <2>2. OnlyEvents'
      BY <1>2, <2>1 DEF OnlyEvents, Moves
    <2>3. OrderInv'
      BY <1>4, <1>5, <1>6, <2>1, OrderFrame
    <2>4. QED
      BY <1>4, <1>7, <2>1, <2>2, <2>3 DEF RosterInv
  <1>13. QED
    BY <1>1, <1>8, <1>9, <1>10, <1>11, <1>12 DEF HandlerWrites

\* A step of ChatSystem only moves limits up.
LEMMA LimitGrows ==
    ASSUME RosterInv, [Next]_vars
    PROVE  /\ ServerInv' /\ LogsGrow
           /\ Len(clientEvents) <= Len(clientEvents')
           /\ \A i \in DOMAIN clientEvents : i \in DOMAIN clientEvents' /\ clientEvents'[i] = clientEvents[i]
           /\ \A q \in Peers : /\ eventIndices'[q] = eventIndices[q]
                               /\ eventIndices'[q] <= Len(clientEvents)'
                               /\ Limit(q)' \in Nat /\ Limit(q) <= Limit(q)'
  <1>1. ServerInv' /\ LogsGrow
    BY ServerKept, NextGrows DEF RosterInv, ServerInv
  <1>2. /\ clientEvents \in Seq(ClientEventData) /\ Len(clientEvents) \in Nat
        /\ \A q \in Peers : /\ eventIndices[q] \in Nat \cup {NoIndex}
                            /\ eventIndices[q] <= Len(clientEvents)
    BY CursorTypes DEF RosterInv, OrderInv
  <1>3. /\ UNCHANGED eventIndices
        /\ Len(clientEvents') \in Nat /\ Len(clientEvents) <= Len(clientEvents')
        /\ \A i \in DOMAIN clientEvents : i \in DOMAIN clientEvents' /\ clientEvents'[i] = clientEvents[i]
    BY <1>1, <1>2 DEF LogsGrow
  <1>4. \A q \in Peers : eventIndices[q] <= Len(clientEvents')
    <2>1. \A i \in Nat \cup {NoIndex} : i <= Len(clientEvents) => i <= Len(clientEvents')
      BY <1>2, <1>3 DEF NoIndex
    <2>2. QED
      BY <1>2, <2>1
  <1>5. \A q \in Peers : Limit(q)' \in Nat /\ Limit(q) <= Limit(q)'
    BY <1>2, <1>3, <1>4 DEF Limit, NoIndex
  <1>6. QED
    BY <1>1, <1>3, <1>4, <1>5

\* Steps that neither show nor write an event.
LEMMA BesideKept ==
    ASSUME RosterInv, [Next]_vars, StreamInv', RosterTypes', UNCHANGED <<shown, inbox>>,
           \A k \in StreamThreads :
              \/ handlers'[k] = handlers[k]
              \/ handlers'[k].item = NoItem
              \/ handlers'[k].item = handlers[k].item /\ handlers[k] # NoHandler,
           \A p \in Peers : Hand(p)' \in {Hand(p), NoItem}
    PROVE  RosterInv'
  <1>1. OrderInv'
    BY LimitGrows, OrderFrame
  <1>2. OnlyEvents'
    BY DEF RosterInv, OnlyEvents
  <1>3. QED
    BY <1>1, <1>2, LimitGrows DEF RosterInv

LEMMA NextBesideKept ==
    ASSUME RosterInv, [Next]_vars, UNCHANGED <<streamVars, roster, shown, base, stolen>>,
           snapshotAt' \in [Peers -> Nat]
    PROVE  RosterInv'
  <1>1. StreamInv' /\ RosterTypes' /\ UNCHANGED <<handlers, stream, inbox, shown>>
    BY DEF RosterInv, StreamInv, StreamTypeOK, RosterTypes, streamVars
  <1>2. \A p \in Peers : Hand(p)' = Hand(p)
    BY <1>1 DEF Hand
  <1>3. QED
    BY <1>1, <1>2, BesideKept

LEMMA EnterKept ==
    ASSUME RosterInv, NEW p \in Peers, EnterChat(p)
    PROVE  RosterInv'
  <1>1. LoginSucceeded(p) /\ OpenStream(p) /\ StreamInv /\ RosterTypes
        /\ UNCHANGED <<shown, snapshotAt, base, stolen>>
    BY DEF EnterChat, RosterInv, rosterHistory
  <1>2. [Next]_vars
    BY <1>1 DEF Next, ReplyStep
  <1>3. RosterTypes'
    <2>1. awaiting[p] \in Threads /\ calls[awaiting[p]] # NoCall /\ calls[awaiting[p]].op = "Connect"
      BY <1>1 DEF LoginSucceeded, Returned, At, RosterInv, ServerInv, TypeInv, TypeOK, ClientTypeOK
    <2>2. calls[awaiting[p]] \in ConnectCall
      BY <2>1, CallOfOp DEF RosterInv, ServerInv, TypeInv, TypeOK, ServiceTypeOK, CallsTyped
    <2>3. /\ calls[awaiting[p]].pseudonym \in Pseudonyms
          /\ calls[awaiting[p]].connectedPseudonyms \in SUBSET Pseudonyms
      BY <2>2 DEF ConnectCall
    <2>4. roster' \in [Peers -> SUBSET Pseudonyms]
      BY <1>1, <2>3 DEF EnterChat, RosterTypes
    <2>5. QED
      BY <1>1, <2>4 DEF RosterTypes
  <1>4. /\ StreamInv' /\ UNCHANGED inbox
        /\ \A q \in Peers : q # p => Hand(q)' = Hand(q)
        /\ Hand(p)' \in {Hand(p), NoItem}
        /\ \A k \in StreamThreads :
              \/ handlers'[k] = handlers[k]
              \/ handlers[k] = NoHandler /\ handlers'[k].item = NoItem
    BY <1>1, OpensKept
  <1>5. \A q \in Peers : Hand(q)' \in {Hand(q), NoItem}
    BY <1>4
  <1>6. QED
    BY <1>1, <1>2, <1>3, <1>4, <1>5, BesideKept

LEMMA LeaveKept ==
    ASSUME RosterInv, NEW p \in Peers, LeaveChat(p)
    PROVE  RosterInv'
  <1>1. /\ Disconnect(p) \/ CloseWindow(p) \/ Crash(p)
        /\ StopStream(p) \/ AbandonStream(p)
        /\ StreamInv /\ RosterTypes /\ OnlyEvents
    BY DEF LeaveChat, RosterInv
  <1>2. [Next]_vars
    BY <1>1 DEF Next, UserStep
  <1>3. RosterTypes' /\ UNCHANGED shown
    BY <1>1 DEF LeaveChat, RosterTypes
  <1>4. /\ StreamInv' /\ UNCHANGED handlers
        /\ Hand(p)' = NoItem
        /\ \A q \in Peers : q # p => inbox'[q] = inbox[q] /\ Hand(q)' = Hand(q)
        /\ \E k \in 0..Len(inbox[p]) : inbox'[p] = SubSeq(inbox[p], 1, k)
    BY <1>1, StopsKept
  <1>5. PICK k \in 0..Len(inbox[p]) : inbox'[p] = SubSeq(inbox[p], 1, k)
    BY <1>4
  <1>6. inbox[p] \in Seq(Item)
    BY <1>1 DEF StreamInv, StreamTypeOK
  <1>7. OnlyEvents'
    <2>1. \A j \in DOMAIN inbox'[p] : inbox'[p][j] = inbox[p][j] /\ j \in DOMAIN inbox[p]
      BY <1>5, <1>6
    <2>2. \A j \in DOMAIN inbox'[p] : inbox'[p][j].kind = "event"
      BY <1>1, <2>1 DEF OnlyEvents
    <2>3. QED
      BY <1>1, <1>4, <2>2 DEF OnlyEvents
  <1>8. OrderInv'
    <2> SUFFICES ASSUME NEW q \in Peers
                 PROVE  InLine(shown[q], inbox'[q], Hand(q)', "event", Limit(q)')
      BY <1>2, <1>3, LimitGrows DEF OrderInv
    <2>1. InLine(shown[q], inbox[q], Hand(q), "event", Limit(q)) /\ Limit(q) \in Nat
      BY CursorTypes DEF RosterInv, OrderInv
    <2>2. InLine(shown[q], inbox[q], Hand(q), "event", Limit(q)')
      BY <1>2, <2>1, LimitGrows, LineWider
    <2>3. CASE q = p
      <3>1. InLine(shown[p], SubSeq(inbox[p], 1, k), NoItem, "event", Limit(p)')
        BY <1>5, <1>6, <2>2, <2>3, LineStops
      <3>2. QED
        BY <1>4, <1>5, <2>3, <3>1
    <2>4. QED
      BY <1>4, <2>2, <2>3
  <1>9. QED
    BY <1>2, <1>3, <1>4, <1>7, <1>8, LimitGrows DEF RosterInv

LEMMA ShowKept ==
    ASSUME RosterInv, NEW p \in Peers, ShowEvent(p)
    PROVE  RosterInv'
  <1> DEFINE box == inbox[p]
  <1>1. /\ StreamInv /\ RosterTypes /\ OnlyEvents /\ TakeInbox(p)
        /\ UNCHANGED <<serverVars, snapshotAt, base, stolen>> /\ UNCHANGED vars
    BY DEF ShowEvent, RosterInv, vars
  <1>2. [Next]_vars /\ UNCHANGED <<clientEvents, eventIndices>>
    BY <1>1 DEF serverVars, clientEventVars
  <1>3. /\ StreamInv' /\ UNCHANGED handlers
        /\ box # <<>> /\ box \in Seq(Item) /\ inbox'[p] = Tail(box)
        /\ Head(box).at \in Nat
        /\ \A q \in Peers : Hand(q)' = Hand(q) /\ (q # p => inbox'[q] = inbox[q])
    BY <1>1, TakesKept
  <1>4. \A j \in DOMAIN box : box[j].kind = "event"
    BY <1>1 DEF OnlyEvents
  <1> HIDE DEF box
  <1>5. /\ 1 \in DOMAIN box /\ Head(box) = box[1]
        /\ \A j \in DOMAIN Tail(box) : j + 1 \in DOMAIN box /\ Tail(box)[j] = box[j + 1]
    BY <1>3
  <1>6. /\ Head(box).kind = "event"
        /\ \A j \in DOMAIN inbox'[p] : inbox'[p][j].kind = "event"
    BY <1>3, <1>4, <1>5
  <1>7. OnlyEvents'
    BY <1>1, <1>3, <1>6 DEF OnlyEvents
  <1>8. /\ shown' = [shown EXCEPT ![p] = Append(shown[p], Head(box).at)]
        /\ roster' = [roster EXCEPT ![p] = IF clientEvents[Head(box).at].type = "ADD"
                                             THEN @ \cup {clientEvents[Head(box).at].pseudonym}
                                             ELSE @ \ {clientEvents[Head(box).at].pseudonym}]
    BY DEF ShowEvent, handleClientEvent, box
  <1>9. /\ InLine(shown[p], box, Hand(p), "event", Limit(p)) /\ Limit(p) \in Nat
        /\ Limit(p) <= Len(clientEvents) /\ clientEvents \in Seq(ClientEventData)
    BY CursorTypes DEF RosterInv, OrderInv, box
  <1>10. clientEvents[Head(box).at] \in ClientEventData
    <2>1. Head(box).at \in 1..Limit(p)
      BY <1>5, <1>6, <1>9 DEF InLine
    <2>2. Head(box).at \in 1..Len(clientEvents)
      BY <1>9, <2>1
    <2>3. QED
      BY <1>9, <2>2
  <1>11. RosterTypes'
    <2>1. clientEvents[Head(box).at].pseudonym \in Pseudonyms
      BY <1>10 DEF ClientEventData
    <2>2. /\ roster \in [Peers -> SUBSET Pseudonyms] /\ shown \in [Peers -> Seq(Nat)]
          /\ shown[p] \in Seq(Nat)
      BY <1>1 DEF RosterTypes
    <2>3. Append(shown[p], Head(box).at) \in Seq(Nat)
      BY <1>3, <2>2
    <2>4. shown' \in [Peers -> Seq(Nat)]
      BY <1>8, <2>2, <2>3
    <2>5. roster' \in [Peers -> SUBSET Pseudonyms]
      BY <1>8, <2>1, <2>2
    <2>6. QED
      BY <1>1, <2>4, <2>5 DEF RosterTypes
  <1>12. OrderInv'
    <2> SUFFICES ASSUME NEW q \in Peers
                 PROVE  InLine(shown'[q], inbox'[q], Hand(q), "event", Limit(q))
      <3>1. \A q \in Peers : Limit(q)' = Limit(q)
        BY <1>2 DEF Limit
      <3>2. QED
        BY <1>2, <1>3, <3>1, LimitGrows DEF OrderInv
    <2>1. CASE q = p
      <3>1. shown[p] \in Seq(Nat) /\ shown'[p] = Append(shown[p], Head(box).at)
        BY <1>1, <1>8 DEF RosterTypes
      <3>2. InLine(Append(shown[p], Head(box).at), Tail(box), Hand(p), "event", Limit(p))
        BY <1>3, <1>6, <1>9, <3>1, LineShows
      <3>3. QED
        BY <1>3, <2>1, <3>1, <3>2
    <2>2. CASE q # p
      BY <1>1, <1>3, <1>8, <2>2 DEF RosterInv, OrderInv, RosterTypes
    <2>3. QED
      BY <2>1, <2>2
  <1>13. QED
    BY <1>2, <1>3, <1>7, <1>11, <1>12, LimitGrows DEF RosterInv

LEMMA RosterKept ==
    ASSUME RosterInv, [RosterNext]_allVars
    PROVE  RosterInv'
  <1>1. ASSUME NEW t \in Threads, ReadNames(t)
        PROVE  RosterInv'
    <2>1. [Next]_vars
      BY <1>1 DEF ReadNames, Next, HandlerStep
    <2>2. snapshotAt' \in [Peers -> Nat] /\ UNCHANGED <<streamVars, roster, shown, base, stolen>>
      BY <1>1, CursorTypes DEF ReadNames, RosterInv, RosterTypes
    <2>3. QED
      BY <2>1, <2>2, NextBesideKept
  <1>2. CASE [Next]_vars /\ UNCHANGED rosterVars
    BY <1>2, NextBesideKept DEF rosterVars, rosterHistory, RosterInv, RosterTypes
  <1>3. ASSUME NEW t \in Threads, HandlerStep(t) \/ DropAnswer(t)
        PROVE  Next
    BY <1>3 DEF Next
  <1>4. ASSUME NEW p \in Peers, OtherClientStep(p)
        PROVE  Next
    BY <1>4 DEF OtherClientStep, Next, UserStep, ReplyStep
  <1>5. ASSUME NEW h \in StreamThreads, CancelArrives(h),
               UNCHANGED <<now, serverVars, clientVars, roster, rosterHistory>>
        PROVE  RosterInv'
    <2>1. /\ [Next]_vars /\ StreamInv /\ RosterTypes' /\ UNCHANGED shown
      BY <1>5 DEF RosterInv, RosterTypes, rosterHistory, vars
    <2>2. /\ handlers[h] # NoHandler
          /\ Moves(h, handlers[h].pc, handlers[h].item) /\ UNCHANGED inbox
          /\ StreamInv'
          /\ \A p \in Peers : Hand(p)' = Hand(p)
      BY <1>5, <2>1, CancelMoves
    <2>3. QED
      BY <2>1, <2>2, BesideKept DEF Moves
  <1>6. CASE UNCHANGED allVars
    BY <1>2, <1>6 DEF allVars
  <1>7. QED
    BY <1>1, <1>2, <1>3, <1>4, <1>5, <1>6, HandlerKept, EnterKept, LeaveKept, ShowKept
       DEF RosterNext, UnaryStep, Next

LEMMA InitRoster == RosterInit => RosterInv
  <1> SUFFICES ASSUME RosterInit
               PROVE  RosterInv
    OBVIOUS
  <1>1. ServerInv /\ StreamInv
    BY InitServer, InitStream DEF RosterInit
  <1>2. /\ handlers = [h \in StreamThreads |-> NoHandler]
        /\ stream = [p \in Peers |-> NoStream]
        /\ inbox = [p \in Peers |-> <<>>]
        /\ clientEvents = <<>> /\ eventIndices = [p \in Peers |-> NoIndex]
        /\ shown = [p \in Peers |-> <<>>]
    BY DEF RosterInit, StreamInit, Init, ServiceInit, ClientEventsInit
  <1>3. RosterTypes
    BY DEF RosterInit, RosterTypes
  <1>4. OnlyEvents
    BY <1>2 DEF OnlyEvents
  <1>5. OrderInv
    <2>1. \A p \in Peers : Hand(p) = NoItem /\ eventIndices[p] <= Len(clientEvents)
      BY <1>2 DEF Hand, NoIndex
    <2>2. \A p \in Peers : InLine(shown[p], inbox[p], NoItem, "event", Limit(p))
      BY <1>2 DEF InLine
    <2>3. QED
      BY <2>1, <2>2 DEF OrderInv
  <1>6. QED
    BY <1>1, <1>3, <1>4, <1>5 DEF RosterInv

LEMMA RosterSafe == RosterSpec => []RosterInv
  BY InitRoster, RosterKept, PTL DEF RosterSpec

\* Every variable of the event stream has its type, whatever overlaps.
THEOREM RosterTypeCorrect == RosterSpec => []RosterTypeOK
  <1>1. RosterInv => RosterTypeOK
    BY DEF RosterInv, StreamInv, RosterTypes, RosterTypeOK
  <1>2. QED
    BY <1>1, RosterSafe, PTL

\* The next of InLine: what is shown next is in the log, after all shown before.
LEMMA NextShown ==
    ASSUME RosterInv, NEW p \in Peers, inbox[p] # <<>>, NEW at, at = Head(inbox[p]).at
    PROVE  /\ at \in DOMAIN clientEvents
           /\ \A i \in DOMAIN shown[p] : shown[p][i] < at
  <1>1. /\ inbox[p] \in Seq(Item)
        /\ InLine(shown[p], inbox[p], Hand(p), "event", Limit(p))
        /\ \A k \in DOMAIN inbox[p] : inbox[p][k].kind = "event"
    BY DEF RosterInv, OrderInv, OnlyEvents, StreamInv, StreamTypeOK
  <1>2. 1 \in DOMAIN inbox[p] /\ Head(inbox[p]) = inbox[p][1]
    BY <1>1
  <1>3. at \in 1..Limit(p) /\ \A i \in DOMAIN shown[p] : shown[p][i] < at
    BY <1>1, <1>2 DEF InLine
  <1>4. QED
    BY <1>3, CursorTypes

\* SubscribeClientEvents implements Feed: a client is shown the events in the
\* order they were logged and none twice, over all its sessions, whatever
\* handlers of earlier sessions still run.
THEOREM ImplementsEventsFeed == RosterSpec => EventsInOrder
  <1> DEFINE Read == EventsFeed!Publish \/ \E r \in Peers : EventsFeed!Show(r)
  <1>1. RosterInit => EventsFeed!FeedInit
    BY DEF RosterInit, Init, ServiceInit, ClientEventsInit, EventsFeed!FeedInit
  <1>2. RosterInv /\ [RosterNext]_allVars => [Read]_<<clientEvents, shown>>
    <2> SUFFICES ASSUME RosterInv, [RosterNext]_allVars
                 PROVE  Read \/ UNCHANGED <<clientEvents, shown>>
      OBVIOUS
    <2>1. CASE [Next]_vars /\ UNCHANGED shown
      <3>1. clientEvents \in Seq(ClientEventData) /\ LogsGrow
        BY <2>1, CursorTypes, LimitGrows
      <3>2. ASSUME NEW e \in ClientEventData, clientEvents' = Append(clientEvents, e)
            PROVE  EventsFeed!Publish
        BY <2>1, <3>1, <3>2 DEF EventsFeed!Publish
      <3>3. QED
        BY <2>1, <3>1, <3>2 DEF LogsGrow
    <2>2. ASSUME NEW t \in Threads, ReadNames(t)
          PROVE  [Next]_vars /\ UNCHANGED shown
      BY <2>2 DEF ReadNames, Next, HandlerStep
    <2>3. CASE [Next]_vars /\ UNCHANGED rosterVars
      BY <2>1, <2>3 DEF rosterVars, rosterHistory
    <2>4. ASSUME NEW t \in Threads, HandlerStep(t) \/ DropAnswer(t)
          PROVE  Next
      BY <2>4 DEF Next
    <2>5. ASSUME NEW p \in Peers, OtherClientStep(p)
          PROVE  Next
      BY <2>5 DEF OtherClientStep, Next, UserStep, ReplyStep
    <2>6. ASSUME NEW p \in Peers, EnterChat(p) \/ LeaveChat(p)
          PROVE  [Next]_vars /\ UNCHANGED shown
      BY <2>6 DEF EnterChat, LeaveChat, rosterHistory, Next, UserStep, ReplyStep
    <2>7. ASSUME NEW p \in Peers, ShowEvent(p)
          PROVE  Read
      <3>1. PICK at : at = Head(inbox[p]).at
        OBVIOUS
      <3>2. inbox[p] # <<>> /\ shown' = [shown EXCEPT ![p] = Append(@, at)] /\ UNCHANGED clientEvents
        BY <2>7, <3>1 DEF ShowEvent, TakeInbox, serverVars, clientEventVars
      <3>3. at \in DOMAIN clientEvents /\ \A i \in DOMAIN shown[p] : shown[p][i] < at
        BY <3>1, <3>2, NextShown
      <3>4. EventsFeed!Show(p)
        BY <3>2, <3>3 DEF EventsFeed!Show
      <3>5. QED
        BY <3>4
    <2>8. ASSUME NEW h \in StreamThreads,
                 \/ EventsHandler(h)
                 \/ CancelArrives(h) /\ UNCHANGED <<now, serverVars, clientVars, roster, rosterHistory>>
          PROVE  UNCHANGED <<clientEvents, shown>>
      <3>1. CASE EventsHandler(h)
        BY <3>1, HandlerCases DEF StreamStep
      <3>2. CASE UNCHANGED <<now, serverVars, clientVars, roster, rosterHistory>>
        BY <3>2 DEF serverVars, clientEventVars, rosterHistory
      <3>3. QED
        BY <2>8, <3>1, <3>2
    <2>9. CASE UNCHANGED allVars
      BY <2>9 DEF allVars, vars, serverVars, clientEventVars, rosterVars, rosterHistory
    <2>10. QED
      BY <2>1, <2>2, <2>3, <2>4, <2>5, <2>6, <2>7, <2>8, <2>9
         DEF RosterNext, UnaryStep, Next
  <1>3. QED
    BY <1>1, <1>2, RosterSafe, PTL
       DEF RosterSpec, EventsInOrder, EventsFeed!FeedSpec, EventsFeed!feedVars

-----------------------------------------------------------------------------
(* No event is lost on the way, as long as users have names of their own.  *)

\* The handler p reads from has found its place in the log.
Placed(p) == stream[p] # NoStream /\ handlers[stream[p]].pc \notin {"start", "queue"}

\* Some handler for p has event i in hand.
Held(p, i) ==
    \E h \in StreamThreads :
       /\ handlers[h] # NoHandler /\ handlers[h].peer = p
       /\ handlers[h].item # NoItem /\ handlers[h].item.at = i

\* Where event i can be once it was taken for p.
Found(p, i) ==
    \/ \E k \in DOMAIN shown[p] : shown[p][k] = i
    \/ \E k \in DOMAIN inbox[p] : inbox[p][k].at = i
    \/ Held(p, i)
    \/ i \in stolen[p]

\* A client reads a stream in the chat view only.  From where the session
\* begins in the log, each event that was taken is found, and what is under way
\* is from the session.  A new session finds nothing left of the one before.
PlacedAt(p) ==
    /\ stream[p] # NoStream => view[p] = "chat"
    /\ Placed(p) =>
          /\ eventIndices[p] # NoIndex /\ base[p] <= eventIndices[p]
          /\ \A k \in DOMAIN inbox[p] : base[p] < inbox[p][k].at
          /\ Hand(p) # NoItem => base[p] < Hand(p).at
          /\ \A i \in Nat : base[p] < i /\ i <= eventIndices[p] => Found(p, i)
    /\ Connecting(p) \/ (stream[p] # NoStream /\ ~Placed(p)) => inbox[p] = <<>>

PlacedInv == \A p \in Peers : PlacedAt(p)

\* What has to stay the same for p.
LEMMA PlacedFrame ==
    ASSUME NEW p \in Peers, PlacedAt(p),
           stream'[p] = stream[p], inbox'[p] = inbox[p], base'[p] = base[p],
           Placed(p)' <=> Placed(p), Hand(p)' \in {Hand(p), NoItem},
           Placed(p) => eventIndices'[p] = eventIndices[p],
           stream[p] # NoStream => view'[p] = "chat",
           Connecting(p)' => Connecting(p) \/ inbox[p] = <<>>,
           Placed(p) => \A i \in Nat : base[p] < i /\ Found(p, i) => Found(p, i)'
    PROVE  PlacedAt(p)'
  <1>1. ASSUME Placed(p)
        PROVE  /\ eventIndices'[p] # NoIndex /\ base'[p] <= eventIndices'[p]
               /\ \A k \in DOMAIN inbox'[p] : base'[p] < inbox'[p][k].at
               /\ Hand(p)' # NoItem => base'[p] < Hand(p)'.at
               /\ \A i \in Nat : base'[p] < i /\ i <= eventIndices'[p] => Found(p, i)'
    BY <1>1 DEF PlacedAt
  <1>2. QED
    BY <1>1 DEF PlacedAt

\* The steps of ChatSystem that leave the streams alone.
LEMMA BesidePlaced ==
    ASSUME RosterInv, PlacedInv, [Next]_vars, UNCHANGED <<handlers, stream, inbox, shown, base, stolen>>,
           NEW p \in Peers,
           stream[p] # NoStream => view'[p] = "chat",
           Connecting(p)' => Connecting(p) \/ inbox[p] = <<>>
    PROVE  PlacedAt(p)'
  <1>1. eventIndices'[p] = eventIndices[p] /\ PlacedAt(p)
    BY LimitGrows DEF PlacedInv
  <1>2. /\ Placed(p)' <=> Placed(p)
        /\ Hand(p)' = Hand(p)
        /\ \A i \in Nat : Found(p, i)' <=> Found(p, i)
    BY DEF Placed, Hand, Found, Held
  <1>3. QED
    BY <1>1, <1>2, PlacedFrame

LEMMA ServerPlaced ==
    ASSUME RosterInv, PlacedInv, [Next]_vars, UNCHANGED <<handlers, stream, inbox, shown, base, stolen>>,
           \/ \E t \in Threads : HandlerStep(t) \/ DropAnswer(t)
           \/ ObserverStep
    PROVE  PlacedInv'
  <1> SUFFICES ASSUME NEW p \in Peers
               PROVE  PlacedAt(p)'
    BY DEF PlacedInv
  <1>1. Connecting(p)' => Connecting(p)
    BY ServerConnects DEF RosterInv, ServerInv
  <1>2. UNCHANGED view
    BY HandlerShape, ObserverShape DEF Shape, DropAnswer, clientVars, RosterInv, ServerInv
  <1>3. QED
    BY <1>1, <1>2, BesidePlaced DEF PlacedInv, PlacedAt

LEMMA OtherClientPlaced ==
    ASSUME RosterInv, SessionInv, PlacedInv, NEW q \in Peers, OtherClientStep(q), UNCHANGED rosterVars
    PROVE  PlacedInv'
  <1> SUFFICES ASSUME NEW p \in Peers
               PROVE  PlacedAt(p)'
    BY DEF PlacedInv
  <1>1. /\ UserStep(q) \/ ReplyStep(q)
        /\ [Next]_vars /\ UNCHANGED <<handlers, stream, inbox, shown, base, stolen>>
    BY DEF OtherClientStep, UserStep, ReplyStep, Next, rosterVars, streamVars, rosterHistory
  <1>2. Connecting(p)' => Connecting(p) \/ inbox[p] = <<>>
    <2>1. CASE Connecting(p)' /\ ~Connecting(p)
      <3>1. p = q /\ \E n \in NamesOf[q] : Login(q, n)
        BY <1>1, <2>1, ClientConnects DEF RosterInv, ServerInv
      <3>2. view[q] = "login" /\ Responsive(q) /\ awaiting'[q] # NoThread
        <4>1. PICK t \in Threads : awaiting' = [awaiting EXCEPT ![q] = t]
          BY <3>1 DEF Login, Invoke
        <4>2. QED
          BY <3>1, <4>1, ClientAssumption
             DEF Login, RosterInv, ServerInv, TypeInv, TypeOK, ClientTypeOK
      <3>3. CASE inbox[q] = <<>>
        BY <3>1, <3>3
      <3>4. CASE ConnectTimesOut(q) \/ LoginRejected(q) \/ CloseUnused(q) \/ Disconnected(q)
        <4>1. awaiting'[q] = NoThread
          <5>1. awaiting[q] = NoThread
            BY <3>2 DEF Responsive
          <5>2. QED
            BY <3>4, <5>1 DEF ConnectTimesOut, LoginRejected, CloseUnused, Disconnected, Returned
        <4>2. QED
          BY <3>2, <4>1
      <3>5. QED
        BY <3>3, <3>4 DEF OtherClientStep
    <2>2. QED
      BY <2>1
  <1>3. view[p] = "chat" => view'[p] = "chat"
    <2>1. CASE UNCHANGED view
      BY <2>1
    <2>2. CASE CloseUnused(q)
      BY <2>2 DEF CloseUnused, SetView, RosterInv, ServerInv, TypeInv, TypeOK, ClientTypeOK
    <2>3. CASE Disconnected(q)
      <3>1. view[q] \in {"leaving", "closing"}
        BY <2>3 DEF Disconnected, Returned, At, SessionInv, AwaitedInv
      <3>2. view' = [view EXCEPT ![q] = IF view[q] = "leaving" THEN "login" ELSE "closed"]
        BY <2>3 DEF Disconnected, SetView
      <3>3. p # q \/ view[p] # "chat"
        BY <3>1
      <3>4. QED
        BY <3>2, <3>3 DEF RosterInv, ServerInv, TypeInv, TypeOK, ClientTypeOK
    <2>4. QED
      BY <2>1, <2>2, <2>3 DEF OtherClientStep, Login, ConnectTimesOut, LoginRejected
  <1>4. QED
    BY <1>1, <1>2, <1>3, BesidePlaced DEF PlacedInv, PlacedAt

LEMMA EnterPlaced ==
    ASSUME RosterInv, SessionInv, PlacedInv, NEW q \in Peers, EnterChat(q)
    PROVE  PlacedInv'
  <1> SUFFICES ASSUME NEW p \in Peers
               PROVE  PlacedAt(p)'
    BY DEF PlacedInv
  <1>1. /\ LoginSucceeded(q) /\ OpenStream(q) /\ StreamInv /\ UNCHANGED <<shown, base, stolen>>
        /\ ReplyStep(q) /\ [Next]_vars
    BY DEF EnterChat, RosterInv, rosterHistory, ReplyStep, Next
  <1>2. /\ Connecting(q) /\ view[q] = "login" /\ view' = [view EXCEPT ![q] = "chat"]
        /\ awaiting' = [awaiting EXCEPT ![q] = NoThread]
    BY <1>1 DEF LoginSucceeded, Returned, At, Connecting, Busy, SessionInv, AwaitedInv, SetView, Return
  <1>3. view'[q] = "chat" /\ awaiting'[q] = NoThread /\ \A r \in Peers : r # q => view'[r] = view[r]
    BY <1>2 DEF RosterInv, ServerInv, TypeInv, TypeOK, ClientTypeOK
  <1>4. /\ UNCHANGED inbox
        /\ \A r \in Peers : r # q => stream'[r] = stream[r] /\ Hand(r)' = Hand(r)
        /\ \A k \in StreamThreads :
              \/ handlers'[k] = handlers[k]
              \/ handlers[k] = NoHandler /\ handlers'[k].item = NoItem
        /\ \A r \in Peers : r # q /\ stream[r] # NoStream => handlers'[stream[r]] = handlers[stream[r]]
        /\ \/ stream'[q] = stream[q]
           \/ stream'[q] # NoStream /\ handlers'[stream'[q]].pc = "start"
    BY <1>1, OpensKept
  <1>5. CASE p = q
    <2>1. stream[q] = NoStream /\ inbox[q] = <<>>
      BY <1>2 DEF PlacedInv, PlacedAt
    <2>2. ~Placed(q)'
      BY <1>4, <2>1 DEF Placed
    <2>3. QED
      BY <1>3, <1>4, <1>5, <2>1, <2>2 DEF PlacedAt
  <1>6. CASE p # q
    <2>1. /\ Placed(p)' <=> Placed(p)
      BY <1>4, <1>6 DEF Placed
    <2>2. \A i \in Nat : Found(p, i) => Found(p, i)'
      BY <1>1, <1>4 DEF Found, Held
    <2>3. Connecting(p)' => Connecting(p)
      BY <1>1, <1>6, ClientConnects DEF RosterInv, ServerInv
    <2>4. /\ PlacedAt(p) /\ eventIndices'[p] = eventIndices[p]
          /\ stream[p] # NoStream => view'[p] = "chat"
      BY <1>1, <1>3, <1>6, LimitGrows DEF PlacedInv, PlacedAt
    <2>5. /\ stream'[p] = stream[p] /\ Hand(p)' = Hand(p) /\ inbox'[p] = inbox[p] /\ base'[p] = base[p]
      BY <1>1, <1>4, <1>6
    <2>6. QED
      BY <2>1, <2>2, <2>3, <2>4, <2>5, PlacedFrame
  <1>7. QED
    BY <1>5, <1>6

\* A client that leaves the chat view waits for no Connect.
LEMMA LeaveConnects ==
    ASSUME RosterInv, SessionInv, NEW q \in Peers, LeaveChat(q)
    PROVE  ~Connecting(q)'
  <1> SUFFICES ASSUME Connecting(q)'
               PROVE  FALSE
    OBVIOUS
  <1>1. /\ Disconnect(q) \/ CloseWindow(q) \/ Crash(q)
        /\ UserStep(q)
    BY DEF LeaveChat, UserStep
  <1>2. PICK v \in {"leaving", "closing", "crashed"} : view' = [view EXCEPT ![q] = v]
    BY <1>1 DEF Disconnect, CloseWindow, Crash, PrepareClose, SetView
  <1>3. view'[q] = v
    BY <1>2 DEF RosterInv, ServerInv, TypeInv, TypeOK, ClientTypeOK
  <1>4. CASE \E n \in NamesOf[q] : Login(q, n)
    BY <1>3, <1>4 DEF Login
  <1>5. CASE Connecting(q) /\ awaiting'[q] = awaiting[q]
    <2>1. awaiting[q] # NoThread
      BY <1>5 DEF Connecting
    <2>2. Crash(q)
      BY <1>1, <2>1 DEF Disconnect, CloseWindow, Responsive
    <2>3. awaiting'[q] = NoThread
      BY <2>2 DEF Crash, RosterInv, ServerInv, TypeInv, TypeOK, ClientTypeOK
    <2>4. QED
      BY <1>5, <2>1, <2>3
  <1>6. QED
    BY <1>1, <1>4, <1>5, ClientConnects DEF RosterInv, ServerInv

LEMMA LeavePlaced ==
    ASSUME RosterInv, SessionInv, PlacedInv, NEW q \in Peers, LeaveChat(q)
    PROVE  PlacedInv'
  <1> SUFFICES ASSUME NEW p \in Peers
               PROVE  PlacedAt(p)'
    BY DEF PlacedInv
  <1>1. /\ Disconnect(q) \/ CloseWindow(q) \/ Crash(q)
        /\ StopStream(q) \/ AbandonStream(q)
        /\ UserStep(q) /\ [Next]_vars /\ StreamInv /\ RosterTypes
    BY DEF LeaveChat, UserStep, Next, RosterInv
  <1>2. /\ UNCHANGED <<shown, handlers>>
        /\ \A r \in Peers : r # q => base'[r] = base[r] /\ stolen'[r] = stolen[r]
    BY <1>1, StopsKept DEF LeaveChat, RosterTypes
  <1>3. /\ stream'[q] = NoStream
        /\ \A r \in Peers : r # q => stream'[r] = stream[r] /\ inbox'[r] = inbox[r] /\ Hand(r)' = Hand(r)
    BY <1>1, StopsKept
  <1>4. PICK v \in {"leaving", "closing", "crashed"} : view' = [view EXCEPT ![q] = v]
    BY <1>1 DEF Disconnect, CloseWindow, Crash, PrepareClose, SetView
  <1>5. view'[q] = v /\ \A r \in Peers : r # q => view'[r] = view[r]
    BY <1>4 DEF RosterInv, ServerInv, TypeInv, TypeOK, ClientTypeOK
  <1>6. CASE p = q
    <2>1. ~Connecting(q)'
      BY LeaveConnects
    <2>2. QED
      BY <1>3, <1>6, <2>1 DEF PlacedAt, Placed
  <1>7. CASE p # q
    <2>1. /\ Placed(p)' <=> Placed(p)
          /\ \A i \in Nat : Found(p, i) => Found(p, i)'
      BY <1>2, <1>3, <1>7 DEF Placed, Found, Held
    <2>2. Connecting(p)' => Connecting(p)
      BY <1>1, <1>7, ClientConnects DEF RosterInv, ServerInv
    <2>3. /\ PlacedAt(p) /\ eventIndices'[p] = eventIndices[p]
          /\ stream[p] # NoStream => view'[p] = "chat"
      BY <1>1, <1>5, <1>7, LimitGrows DEF PlacedInv, PlacedAt
    <2>4. /\ stream'[p] = stream[p] /\ Hand(p)' = Hand(p) /\ inbox'[p] = inbox[p] /\ base'[p] = base[p]
      BY <1>2, <1>3, <1>7
    <2>5. QED
      BY <2>1, <2>2, <2>3, <2>4, PlacedFrame
  <1>8. QED
    BY <1>6, <1>7

LEMMA ShowPlaced ==
    ASSUME RosterInv, PlacedInv, NEW q \in Peers, ShowEvent(q)
    PROVE  PlacedInv'
  <1> SUFFICES ASSUME NEW p \in Peers
               PROVE  PlacedAt(p)'
    BY DEF PlacedInv
  <1>1. /\ StreamInv /\ RosterTypes /\ TakeInbox(q)
        /\ UNCHANGED <<clientVars, serverVars, base, stolen>>
    BY DEF ShowEvent, RosterInv
  <1>2. UNCHANGED <<view, awaiting, calls, eventIndices>>
    BY <1>1 DEF clientVars, serverVars, clientEventVars
  <1>3. /\ UNCHANGED <<handlers, stream>>
        /\ inbox[q] # <<>> /\ inbox[q] \in Seq(Item) /\ inbox'[q] = Tail(inbox[q])
        /\ \A r \in Peers : Hand(r)' = Hand(r) /\ (r # q => inbox'[r] = inbox[r])
    BY <1>1, TakesKept
  <1>4. /\ shown[q] \in Seq(Nat)
        /\ shown'[q] = Append(shown[q], Head(inbox[q]).at)
        /\ \A r \in Peers : r # q => shown'[r] = shown[r]
    BY <1>1 DEF ShowEvent, RosterTypes
  <1>5. /\ Connecting(p)' <=> Connecting(p)
        /\ Placed(p)' <=> Placed(p)
        /\ \A i \in Nat : Held(p, i)' <=> Held(p, i)
        /\ PlacedAt(p)
    BY <1>2, <1>3 DEF Connecting, Busy, Placed, Held, PlacedInv
  <1>6. CASE p # q
    <2>1. \A i \in Nat : Found(p, i)' <=> Found(p, i)
      BY <1>1, <1>3, <1>4, <1>5, <1>6 DEF Found
    <2>2. QED
      BY <1>1, <1>2, <1>3, <1>5, <1>6, <2>1, PlacedFrame DEF PlacedAt
  <1>7. CASE p = q
    <2>1. /\ 1 \in DOMAIN inbox[q] /\ Head(inbox[q]) = inbox[q][1]
          /\ \A k \in DOMAIN inbox[q] : k # 1 => k - 1 \in DOMAIN Tail(inbox[q])
                                               /\ Tail(inbox[q])[k - 1] = inbox[q][k]
          /\ \A k \in DOMAIN Tail(inbox[q]) : k + 1 \in DOMAIN inbox[q]
                                               /\ Tail(inbox[q])[k] = inbox[q][k + 1]
      BY <1>3
    <2>2. /\ Len(shown[q]) + 1 \in DOMAIN shown'[q]
          /\ shown'[q][Len(shown[q]) + 1] = Head(inbox[q]).at
          /\ \A k \in DOMAIN shown[q] : k \in DOMAIN shown'[q] /\ shown'[q][k] = shown[q][k]
      BY <1>4
    <2>3. \A i \in Nat : Found(p, i) => Found(p, i)'
      <3> SUFFICES ASSUME NEW i \in Nat, Found(q, i)
                   PROVE  Found(q, i)'
        BY <1>7
      <3>1. CASE \E k \in DOMAIN shown[q] : shown[q][k] = i
        BY <2>2, <3>1 DEF Found
      <3>2. ASSUME NEW k \in DOMAIN inbox[q], inbox[q][k].at = i
            PROVE  Found(q, i)'
        <4>1. CASE k = 1
          BY <2>1, <2>2, <3>2, <4>1 DEF Found
        <4>2. CASE k # 1
          <5>1. k - 1 \in DOMAIN inbox'[q] /\ inbox'[q][k - 1].at = i
            BY <1>3, <2>1, <3>2, <4>2
          <5>2. QED
            BY <5>1 DEF Found
        <4>3. QED
          BY <4>1, <4>2
      <3>3. CASE Held(q, i) \/ i \in stolen[q]
        BY <1>1, <1>5, <1>7, <3>3 DEF Found
      <3>4. QED
        BY <3>1, <3>2, <3>3 DEF Found
    <2>4. Placed(q) => \A k \in DOMAIN inbox'[q] : base[q] < inbox'[q][k].at
      BY <1>3, <1>5, <1>7, <2>1 DEF PlacedAt
    <2>5. ~Connecting(q) /\ (stream[q] = NoStream \/ Placed(q))
      BY <1>3, <1>5, <1>7 DEF PlacedAt
    <2>6. QED
      BY <1>1, <1>2, <1>3, <1>5, <1>7, <2>3, <2>4, <2>5 DEF PlacedAt
  <1>8. QED
    BY <1>6, <1>7

\* What a handler for p does about p itself, one case per kind of step.
LEMMA HandlerEndsPlaced ==
    ASSUME RosterInv, SessionInv, PlacedInv, NEW h \in StreamThreads,
           NEW p \in Peers, p = handlers[h].peer, handlers[h] # NoHandler,
           UNCHANGED <<view, awaiting, calls, shown>>, HandlerEnds(h, p)
    PROVE  PlacedAt(p)'
  <1>1. /\ StreamInv /\ StreamEnds(h) /\ handlers[h].item = NoItem /\ UNCHANGED <<base, stolen>>
    BY HandlerTypes DEF RosterInv, HandlerEnds
  <1>2. /\ UNCHANGED inbox
        /\ \A k \in StreamThreads : k # h => handlers'[k] = handlers[k]
        /\ stream[p] = h => stream'[p] = NoStream
        /\ stream[p] # h => stream'[p] = stream[p] /\ Hand(p)' = Hand(p)
    BY <1>1, EndsKept
  <1>3. PlacedAt(p) /\ (Connecting(p)' <=> Connecting(p))
    BY DEF PlacedInv, Connecting, Busy
  <1>4. CASE stream[p] = h
    BY <1>2, <1>3, <1>4 DEF PlacedAt, Placed
  <1>5. CASE stream[p] # h
    <2>1. stream[p] # NoStream => stream[p] \in StreamThreads /\ handlers'[stream[p]] = handlers[stream[p]]
      BY <1>1, <1>2, <1>5 DEF StreamInv, StreamTypeOK
    <2>2. Placed(p)' <=> Placed(p)
      BY <1>2, <1>5, <2>1 DEF Placed
    <2>3. Placed(p) => eventIndices'[p] = eventIndices[p]
      <3>1. Placed(p) => isPeerConnected(p) /\ eventIndices[p] # NoIndex
        BY <1>3 DEF PlacedAt, Placed, SessionInv, Registered
      <3>2. QED
        BY <3>1 DEF HandlerEnds, CursorAt
    <2>4. \A i \in Nat : Found(p, i) => Found(p, i)'
      BY <1>1, <1>2 DEF Found, Held
    <2>5. stream[p] # NoStream => view'[p] = "chat"
      BY <1>3 DEF PlacedAt
    <2>6. stream'[p] = stream[p] /\ inbox'[p] = inbox[p] /\ base'[p] = base[p] /\ Hand(p)' = Hand(p)
      BY <1>1, <1>2, <1>5
    <2>7. QED
      BY <1>3, <2>2, <2>3, <2>4, <2>5, <2>6, PlacedFrame
  <1>6. QED
    BY <1>4, <1>5

LEMMA HandlerGoesPlaced ==
    ASSUME RosterInv, SessionInv, PlacedInv, NEW h \in StreamThreads,
           NEW p \in Peers, p = handlers[h].peer, handlers[h] # NoHandler,
           UNCHANGED <<view, awaiting, calls, shown>>, HandlerGoes(h, p)
    PROVE  PlacedAt(p)'
  <1>1. PICK pc \in {"queue", "loop", "wait"} :
           /\ StreamGoto(h, pc) /\ handlers[h].pc # "write"
           /\ handlers[h].pc # "queue" => (handlers[h].pc = "start" <=> pc = "queue")
    BY DEF HandlerGoes
  <1>2. /\ StreamInv /\ RosterTypes /\ UNCHANGED <<stream, inbox, stolen>> /\ handlers[h].item = NoItem
        /\ inbox' \in [Peers -> Seq(Item)]
        /\ Moves(h, pc, NoItem)
    BY <1>1, GotoMoves, HandlerTypes DEF RosterInv, HandlerGoes, Places, StreamInv, StreamTypeOK
  <1>3. /\ handlers'[h].pc = pc /\ \A k \in StreamThreads : k # h => handlers'[k] = handlers[k]
        /\ Hand(p)' = IF stream[p] = h THEN NoItem ELSE Hand(p)
    BY <1>2, MovesKept DEF Moves
  <1>4. /\ PlacedAt(p) /\ (Connecting(p)' <=> Connecting(p))
        /\ stream[p] # NoStream => stream[p] \in StreamThreads
        /\ stream[p] # NoStream => view'[p] = "chat" /\ isPeerConnected(p)
        /\ stream[p] = h => stream[p] # NoStream
    BY <1>2, StreamAssumption DEF PlacedInv, PlacedAt, Connecting, Busy, SessionInv, Registered,
       StreamInv, StreamTypeOK
  <1>5. \A i \in Nat : Found(p, i) => Found(p, i)'
    BY <1>2, <1>3 DEF Found, Held, Moves
  <1>6. eventIndices[p] # NoIndex => Limit(p) = eventIndices[p]
    BY DEF Limit
  <1>7. CASE handlers[h].pc # "queue" \/ stream[p] # h
    <2>1. Placed(p)' <=> Placed(p)
      <3>1. stream[p] # h => (Placed(p)' <=> Placed(p))
        BY <1>2, <1>3, <1>4 DEF Placed
      <3>2. stream[p] = h /\ handlers[h].pc # "queue" => (Placed(p)' <=> Placed(p))
        BY <1>1, <1>2, <1>3, <1>4 DEF Placed
      <3>3. QED
        BY <1>7, <3>1, <3>2
    <2>2. Placed(p) => eventIndices'[p] = eventIndices[p]
      <3>1. Placed(p) => isPeerConnected(p) /\ eventIndices[p] # NoIndex
        BY <1>4 DEF PlacedAt, Placed
      <3>2. QED
        BY <1>6, <3>1 DEF HandlerGoes, CursorAt
    <2>3. UNCHANGED base
      BY <1>7 DEF HandlerGoes, Stale
    <2>4. QED
      BY <1>2, <1>3, <1>4, <1>5, <2>1, <2>2, <2>3, PlacedFrame
  <1>8. CASE handlers[h].pc = "queue" /\ stream[p] = h
    <2>1. CursorAt(p, Limit(p)) /\ base' = [base EXCEPT ![p] = Limit(p)]
      BY <1>4, <1>8 DEF HandlerGoes, Stale
    <2>2. eventIndices'[p] = Limit(p) /\ base'[p] = Limit(p) /\ Limit(p) \in Nat
      BY <1>2, <2>1, CursorTypes DEF CursorAt, RosterTypes
    <2>3. inbox[p] = <<>>
      BY <1>4, <1>8 DEF PlacedAt, Placed
    <2>4. DOMAIN inbox'[p] = {} /\ inbox'[p] = <<>>
      BY <1>2, <2>3
    <2>5. Hand(p)' = NoItem
      BY <1>3, <1>8
    <2>6. /\ eventIndices'[p] # NoIndex /\ base'[p] <= eventIndices'[p]
          /\ \A i \in Nat : ~(base'[p] < i /\ i <= eventIndices'[p])
      BY <2>2 DEF NoIndex
    <2>7. QED
      BY <1>2, <1>4, <2>4, <2>5, <2>6 DEF PlacedAt
  <1>9. QED
    BY <1>7, <1>8

LEMMA HandlerTakesPlaced ==
    ASSUME RosterInv, SessionInv, PlacedInv, NEW h \in StreamThreads,
           NEW p \in Peers, p = handlers[h].peer, handlers[h] # NoHandler,
           UNCHANGED <<view, awaiting, calls, shown>>, HandlerTakes(h, p)
    PROVE  PlacedAt(p)'
  <1>0. PICK item : item = [kind |-> "event", at |-> Limit(p) + 1]
    OBVIOUS
  <1>1. /\ StreamInv /\ Limit(p) \in Nat
        /\ handlers[h].pc \in {"loop", "wait"} /\ handlers[h].item = NoItem
        /\ StreamTakes(h, item) /\ UNCHANGED <<base, stolen>>
        /\ eventIndices'[p] = Limit(p) + 1
    BY <1>0, CursorTypes, HandlerTypes DEF RosterInv, HandlerTakes, CursorAt
  <1>2. item \in Item /\ item # NoItem /\ item.at = Limit(p) + 1
    BY <1>0, <1>1, StreamAssumption DEF Item
  <1>3. /\ Moves(h, "write", item) /\ UNCHANGED <<stream, inbox>>
        /\ inbox' \in [Peers -> Seq(Item)]
    BY <1>1, <1>2, TakesMoves DEF StreamInv, StreamTypeOK
  <1>4. /\ handlers'[h].pc = "write" /\ handlers'[h].item = item /\ handlers'[h] # NoHandler
        /\ handlers'[h].peer = p
        /\ \A k \in StreamThreads : k # h => handlers'[k] = handlers[k]
        /\ Hand(p)' = IF stream[p] = h THEN item ELSE Hand(p)
    BY <1>1, <1>2, <1>3, MovesKept DEF Moves
  <1>5. /\ PlacedAt(p) /\ (Connecting(p)' <=> Connecting(p))
        /\ stream[p] # NoStream => stream[p] \in StreamThreads /\ view'[p] = "chat"
        /\ stream[p] = h => stream[p] # NoStream
    <2>1. PlacedAt(p) /\ (Connecting(p)' <=> Connecting(p))
      BY DEF PlacedInv, Connecting, Busy
    <2>2. stream[p] # NoStream => stream[p] \in StreamThreads /\ view'[p] = "chat"
      BY <1>1, <2>1 DEF PlacedAt, StreamInv, StreamTypeOK
    <2>3. QED
      BY <2>1, <2>2, StreamAssumption
  <1>6. \A i \in Nat : Found(p, i) => Found(p, i)'
    BY <1>1, <1>3, <1>4 DEF Found, Held
  <1>7. Placed(p)' <=> Placed(p)
    BY <1>1, <1>3, <1>4, <1>5 DEF Placed
  <1>8. ASSUME Placed(p)
        PROVE  /\ eventIndices'[p] # NoIndex /\ base'[p] <= eventIndices'[p]
               /\ \A k \in DOMAIN inbox'[p] : base'[p] < inbox'[p][k].at
               /\ Hand(p)' # NoItem => base'[p] < Hand(p)'.at
               /\ \A i \in Nat : base'[p] < i /\ i <= eventIndices'[p] => Found(p, i)'
    <2>1. /\ eventIndices[p] = Limit(p) /\ base'[p] = base[p] /\ base[p] \in Nat
          /\ base[p] <= Limit(p)
      BY <1>1, <1>5, <1>8 DEF PlacedAt, Limit, RosterInv, RosterTypes
    <2>2. eventIndices'[p] # NoIndex /\ base'[p] <= eventIndices'[p]
      BY <1>1, <2>1 DEF NoIndex
    <2>3. Hand(p)' # NoItem => base'[p] < Hand(p)'.at
      <3>1. base[p] < item.at
        BY <1>1, <1>2, <2>1
      <3>2. Hand(p) # NoItem => base[p] < Hand(p).at
        BY <1>5, <1>8 DEF PlacedAt
      <3>3. QED
        BY <1>4, <2>1, <3>1, <3>2
    <2>4. Found(p, item.at)'
      <3>1. handlers'[h] # NoHandler /\ handlers'[h].peer = p /\ handlers'[h].item # NoItem
        BY <1>2, <1>4
      <3>2. handlers'[h].item.at = item.at
        BY <1>4
      <3>3. QED
        BY <3>1, <3>2 DEF Found, Held
    <2>5. ASSUME NEW i \in Nat, base'[p] < i, i <= eventIndices'[p]
          PROVE  Found(p, i)'
      <3>1. i <= eventIndices[p] \/ i = item.at
        BY <1>1, <1>2, <2>1, <2>5
      <3>2. i <= eventIndices[p] => Found(p, i)
        BY <1>5, <1>8, <2>1, <2>5 DEF PlacedAt
      <3>3. i = item.at => Found(p, i)'
        BY <2>4
      <3>4. QED
        BY <1>6, <3>1, <3>2, <3>3
    <2>6. \A k \in DOMAIN inbox'[p] : base'[p] < inbox'[p][k].at
      BY <1>3, <1>5, <1>8, <2>1 DEF PlacedAt
    <2>7. QED
      BY <2>2, <2>3, <2>5, <2>6
  <1>9. QED
    BY <1>3, <1>5, <1>7, <1>8 DEF PlacedAt

LEMMA HandlerWritesPlaced ==
    ASSUME RosterInv, SessionInv, PlacedInv, NEW h \in StreamThreads,
           NEW p \in Peers, p = handlers[h].peer, handlers[h] # NoHandler,
           UNCHANGED <<view, awaiting, calls, shown>>, HandlerWrites(h, p)
    PROVE  PlacedAt(p)'
  <1>0. PICK item : item = handlers[h].item
    OBVIOUS
  <1>1. /\ StreamInv /\ UNCHANGED base /\ eventIndices'[p] = eventIndices[p]
        /\ PlacedAt(p) /\ (Connecting(p)' <=> Connecting(p))
        /\ stream[p] # NoStream => stream[p] \in StreamThreads /\ view'[p] = "chat"
        /\ stream[p] = h => stream[p] # NoStream
        /\ inbox[p] \in Seq(Item)
    <2>1. PlacedAt(p) /\ (Connecting(p)' <=> Connecting(p))
      BY DEF PlacedInv, Connecting, Busy
    <2>2. StreamInv /\ UNCHANGED base /\ eventIndices'[p] = eventIndices[p]
      BY DEF RosterInv, HandlerWrites, CursorAt
    <2>3. /\ stream[p] # NoStream => stream[p] \in StreamThreads /\ view'[p] = "chat"
          /\ inbox[p] \in Seq(Item)
      BY <2>1, <2>2 DEF PlacedAt, StreamInv, StreamTypeOK
    <2>4. QED
      BY <2>1, <2>2, <2>3, StreamAssumption
  <1>2. CASE StreamWrites(h) /\ UNCHANGED stolen
    <2>1. /\ item \in Item /\ stream[p] = h /\ Moves(h, "loop", NoItem) /\ UNCHANGED stream
          /\ inbox'[p] = Append(inbox[p], item) /\ Hand(p) = item /\ Hand(p)' = NoItem
          /\ handlers[h].pc = "write"
      <3>1. handlers[h].pc = "write"
        BY <1>2 DEF StreamWrites, Serving
      <3>2. /\ item \in Item /\ stream[p] = h /\ Moves(h, "loop", NoItem) /\ UNCHANGED stream
            /\ inbox'[p] = Append(inbox[p], item) /\ Hand(p) = item /\ Hand(p)' = NoItem
        BY <1>0, <1>1, <1>2, WritesKept
      <3>3. QED
        BY <3>1, <3>2
    <2>2. /\ handlers'[h].pc = "loop" /\ \A k \in StreamThreads : k # h => handlers'[k] = handlers[k]
      BY <2>1 DEF Moves
    <2>3. Placed(p) /\ Placed(p)' /\ item # NoItem
      BY <1>1, <2>1, <2>2, StreamAssumption DEF Placed
    <2>4. /\ Len(inbox[p]) + 1 \in DOMAIN inbox'[p] /\ inbox'[p][Len(inbox[p]) + 1] = item
          /\ \A k \in DOMAIN inbox[p] : k \in DOMAIN inbox'[p] /\ inbox'[p][k] = inbox[p][k]
          /\ \A k \in DOMAIN inbox'[p] :
                \/ inbox'[p][k] = item
                \/ k \in DOMAIN inbox[p] /\ inbox'[p][k] = inbox[p][k]
      BY <1>1, <2>1
    <2>5. \A k \in DOMAIN inbox'[p] : base'[p] < inbox'[p][k].at
      <3>1. base[p] < item.at
        BY <1>1, <2>1, <2>3 DEF PlacedAt
      <3>2. \A k \in DOMAIN inbox[p] : base[p] < inbox[p][k].at
        BY <1>1, <2>3 DEF PlacedAt
      <3>3. QED
        BY <1>1, <2>4, <3>1, <3>2
    <2>6. \A i \in Nat : Found(p, i) => Found(p, i)'
      <3> SUFFICES ASSUME NEW i \in Nat, Found(p, i)
                   PROVE  Found(p, i)'
        OBVIOUS
      <3>1. CASE (\E k \in DOMAIN shown[p] : shown[p][k] = i) \/ i \in stolen[p]
        BY <1>2, <3>1 DEF Found
      <3>2. CASE \E k \in DOMAIN inbox[p] : inbox[p][k].at = i
        BY <2>4, <3>2 DEF Found
      <3>3. CASE Held(p, i)
        <4>1. PICK k \in StreamThreads : /\ handlers[k] # NoHandler /\ handlers[k].peer = p
                                         /\ handlers[k].item # NoItem /\ handlers[k].item.at = i
          BY <3>3 DEF Held
        <4>2. CASE k = h
          BY <1>0, <2>4, <4>1, <4>2 DEF Found
        <4>3. CASE k # h
          BY <2>2, <4>1, <4>3 DEF Found, Held
        <4>4. QED
          BY <4>2, <4>3
      <3>4. QED
        BY <3>1, <3>2, <3>3 DEF Found
    <2>7. ~Connecting(p)
      BY <1>1, <2>3 DEF Placed, PlacedAt, Connecting, Busy, SessionInv, AwaitedInv
    <2>8. QED
      BY <1>1, <2>1, <2>3, <2>5, <2>6, <2>7 DEF PlacedAt
  <1>3. CASE /\ StreamWriteLost(h)
             /\ stolen' = IF Subscribed(p) /\ handlers[h].item.at > base[p]
                            THEN [stolen EXCEPT ![p] = @ \cup {handlers[h].item.at}] ELSE stolen
    <2>1. /\ UNCHANGED <<stream, inbox>> /\ stream[p] # h /\ Hand(p)' = Hand(p)
          /\ \A k \in StreamThreads : k # h => handlers'[k] = handlers[k]
      BY <1>1, <1>3, WriteLostKept
    <2>2. Placed(p)' <=> Placed(p)
      BY <1>1, <2>1 DEF Placed
    <2>3. ASSUME Placed(p), NEW i \in Nat, base[p] < i, Found(p, i)
          PROVE  Found(p, i)'
      <3>1. stolen[p] \subseteq stolen'[p] /\ (item.at > base[p] => item.at \in stolen'[p])
        <4>1. Subscribed(p)
          BY <1>1, <2>3 DEF Subscribed, Placed, PlacedAt
        <4>2. QED
          BY <1>0, <1>3, <4>1 DEF RosterInv, RosterTypes
      <3>2. CASE Held(p, i)
        <4>1. PICK k \in StreamThreads : /\ handlers[k] # NoHandler /\ handlers[k].peer = p
                                         /\ handlers[k].item # NoItem /\ handlers[k].item.at = i
          BY <3>2 DEF Held
        <4>2. CASE k = h
          <5>1. item.at = i /\ i > base[p]
            BY <1>0, <2>3, <4>1, <4>2 DEF RosterInv, RosterTypes
          <5>2. QED
            BY <3>1, <5>1 DEF Found
        <4>3. CASE k # h
          BY <2>1, <4>1, <4>3 DEF Found, Held
        <4>4. QED
          BY <4>2, <4>3
      <3>3. QED
        BY <2>1, <2>3, <3>1, <3>2 DEF Found
    <2>4. QED
      BY <1>1, <2>1, <2>2, <2>3, PlacedFrame
  <1>4. QED
    BY <1>2, <1>3 DEF HandlerWrites

LEMMA HandlerPlaced ==
    ASSUME RosterInv, SessionInv, PlacedInv, NEW h \in StreamThreads, EventsHandler(h)
    PROVE  PlacedInv'
  <1> PICK p : p = handlers[h].peer
    OBVIOUS
  <1>1. /\ handlers[h] # NoHandler /\ p \in Peers /\ StreamStep
        /\ HandlerEnds(h, p) \/ HandlerGoes(h, p) \/ HandlerTakes(h, p) \/ HandlerWrites(h, p)
    BY HandlerCases
  <1>2. UNCHANGED <<view, awaiting, calls, shown>>
    BY <1>1 DEF StreamStep, clientVars
  <1>3. PlacedAt(p)'
    BY <1>1, <1>2, HandlerEndsPlaced, HandlerGoesPlaced, HandlerTakesPlaced, HandlerWritesPlaced
  <1>4. StreamInv /\ RosterTypes
    BY DEF RosterInv
  <1>5. /\ \A k \in StreamThreads : k # h => handlers'[k] = handlers[k]
        /\ \A q \in Peers : q # p => stream'[q] = stream[q] /\ inbox'[q] = inbox[q]
    <2>1. CASE HandlerEnds(h, p)
      <3>1. \A q \in Peers : q # p => stream[q] # h
        BY <1>1, <1>4, StreamAssumption DEF StreamInv
      <3>2. QED
        BY <1>4, <2>1, <3>1, EndsKept DEF HandlerEnds
    <2>2. CASE HandlerGoes(h, p)
      <3>1. PICK pc \in Places : StreamGoto(h, pc) /\ handlers[h].pc # "write"
        BY <2>2 DEF HandlerGoes, Places
      <3>2. QED
        BY <1>1, <1>4, <3>1, GotoMoves DEF Moves
    <2>3. CASE HandlerTakes(h, p)
      <3>1. [kind |-> "event", at |-> Limit(p) + 1] \in Item
        BY <1>1, CursorTypes DEF Item
      <3>2. QED
        BY <1>1, <1>4, <2>3, <3>1, TakesMoves DEF HandlerTakes, Moves
    <2>4. CASE HandlerWrites(h, p)
      <3>1. CASE StreamWrites(h)
        BY <1>4, <3>1, WritesKept DEF Moves
      <3>2. CASE StreamWriteLost(h)
        BY <1>4, <3>2, WriteLostKept
      <3>3. QED
        BY <2>4, <3>1, <3>2 DEF HandlerWrites
    <2>5. QED
      BY <1>1, <2>1, <2>2, <2>3, <2>4
  <1>6. \A q \in Peers : q # p => /\ eventIndices'[q] = eventIndices[q]
                                  /\ base'[q] = base[q] /\ stolen'[q] = stolen[q]
    <2>1. \A q \in Peers : q # p => eventIndices'[q] = eventIndices[q]
      BY <1>1 DEF HandlerEnds, HandlerGoes, HandlerTakes, HandlerWrites, CursorAt
    <2>2. \A q \in Peers : q # p => base'[q] = base[q]
      BY <1>1, <1>4 DEF HandlerEnds, HandlerGoes, HandlerTakes, HandlerWrites, RosterTypes
    <2>3. \A q \in Peers : q # p => stolen'[q] = stolen[q]
      BY <1>1, <1>4 DEF HandlerEnds, HandlerGoes, HandlerTakes, HandlerWrites, RosterTypes
    <2>4. QED
      BY <2>1, <2>2, <2>3
  <1>7. ASSUME NEW q \in Peers, q # p
        PROVE  PlacedAt(q)'
    <2>1. stream[q] # NoStream => stream[q] \in StreamThreads /\ handlers'[stream[q]] = handlers[stream[q]]
      BY <1>4, <1>5, <1>7 DEF StreamInv, StreamTypeOK
    <2>2. (Placed(q)' <=> Placed(q)) /\ Hand(q)' = Hand(q)
      BY <1>5, <1>7, <2>1 DEF Placed, Hand
    <2>3. \A i \in Nat : Found(q, i) => Found(q, i)'
      BY <1>2, <1>5, <1>6, <1>7 DEF Found, Held
    <2>4. PlacedAt(q) /\ (Connecting(q)' <=> Connecting(q))
      BY <1>2 DEF PlacedInv, Connecting, Busy
    <2>5. stream[q] # NoStream => view'[q] = "chat"
      BY <1>2, <2>4 DEF PlacedAt
    <2>6. QED
      BY <1>5, <1>6, <1>7, <2>2, <2>3, <2>4, <2>5, PlacedFrame
  <1>8. QED
    BY <1>3, <1>7 DEF PlacedInv

LEMMA CancelPlaced ==
    ASSUME RosterInv, PlacedInv, NEW h \in StreamThreads, CancelArrives(h),
           UNCHANGED <<now, serverVars, clientVars, roster, rosterHistory>>
    PROVE  PlacedInv'
  <1> SUFFICES ASSUME NEW p \in Peers
               PROVE  PlacedAt(p)'
    BY DEF PlacedInv
  <1>1. /\ StreamInv /\ UNCHANGED <<stream, inbox, shown, base, stolen, view, awaiting, calls, eventIndices>>
        /\ handlers[h] # NoHandler /\ Moves(h, handlers[h].pc, handlers[h].item)
        /\ Hand(p)' = Hand(p)
    BY CancelMoves DEF RosterInv, rosterHistory, clientVars, serverVars, clientEventVars
  <1>2. /\ \A k \in StreamThreads : /\ handlers[k] # NoHandler <=> handlers'[k] # NoHandler
                                    /\ handlers[k] # NoHandler =>
                                          /\ handlers'[k].peer = handlers[k].peer
                                          /\ handlers'[k].pc = handlers[k].pc
                                          /\ handlers'[k].item = handlers[k].item
    BY <1>1 DEF Moves
  <1>3. stream[p] # NoStream => stream[p] \in StreamThreads /\ handlers[stream[p]] # NoHandler
    BY <1>1 DEF StreamInv, StreamTypeOK
  <1>4. Placed(p)' <=> Placed(p)
    BY <1>1, <1>2, <1>3 DEF Placed
  <1>5. \A i \in Nat : Found(p, i) => Found(p, i)'
    BY <1>1, <1>2 DEF Found, Held
  <1>6. PlacedAt(p) /\ (Connecting(p)' <=> Connecting(p))
    BY <1>1 DEF PlacedInv, Connecting, Busy
  <1>7. stream[p] # NoStream => view'[p] = "chat"
    BY <1>1, <1>6 DEF PlacedAt
  <1>8. QED
    BY <1>1, <1>4, <1>5, <1>6, <1>7, PlacedFrame

LEMMA RosterPlaced ==
    ASSUME RosterInv, SessionInv, PlacedInv, [RosterNext]_allVars
    PROVE  PlacedInv'
  <1>1. ASSUME NEW t \in Threads, UnaryStep(t) \/ (DropAnswer(t) /\ UNCHANGED rosterVars)
        PROVE  PlacedInv'
    <2>1. HandlerStep(t) \/ DropAnswer(t)
      BY <1>1 DEF UnaryStep, ReadNames, HandlerStep
    <2>2. UNCHANGED <<handlers, stream, inbox, shown, base, stolen>>
      BY <1>1 DEF UnaryStep, ReadNames, rosterVars, streamVars, rosterHistory
    <2>3. [Next]_vars
      BY <2>1 DEF Next
    <2>4. QED
      BY <2>1, <2>2, <2>3, ServerPlaced
  <1>2. CASE ObserverStep /\ UNCHANGED rosterVars
    <2>1. [Next]_vars /\ UNCHANGED <<handlers, stream, inbox, shown, base, stolen>>
      BY <1>2 DEF Next, rosterVars, streamVars, rosterHistory
    <2>2. QED
      BY <1>2, <2>1, ServerPlaced
  <1>3. CASE UNCHANGED allVars
    <2>1. UNCHANGED <<handlers, stream, inbox, shown, base, stolen, view, awaiting, calls, eventIndices>>
      BY <1>3 DEF allVars, vars, rosterVars, streamVars, rosterHistory, clientVars, serverVars,
                  clientEventVars
    <2>2. QED
      BY <2>1 DEF PlacedInv, PlacedAt, Placed, Hand, Found, Held, Connecting, Busy
  <1>4. QED
    BY <1>1, <1>2, <1>3, OtherClientPlaced, EnterPlaced, LeavePlaced, ShowPlaced, HandlerPlaced,
       CancelPlaced DEF RosterNext

LEMMA InitPlaced == RosterInit => PlacedInv
  <1> SUFFICES ASSUME RosterInit, NEW p \in Peers
               PROVE  PlacedAt(p)
    BY DEF PlacedInv
  <1>1. stream[p] = NoStream /\ inbox[p] = <<>>
    BY DEF RosterInit, StreamInit
  <1>2. QED
    BY <1>1 DEF PlacedAt, Placed

LEMMA PlacedSafe == RosterSpec => [](RosterInv /\ (NamesAreOwn => PlacedInv))
  <1>1. RosterInv /\ (NamesAreOwn => PlacedInv) /\ [RosterNext]_allVars => (NamesAreOwn => PlacedInv)'
    <2>1. NamesAreOwn' <=> NamesAreOwn
      BY DEF NamesAreOwn
    <2>2. RosterInv /\ NamesAreOwn => SessionInv
      BY DEF RosterInv, ServerInv
    <2>3. QED
      BY <2>1, <2>2, RosterPlaced
  <1>2. QED
    BY <1>1, InitPlaced, RosterSafe, PTL DEF RosterSpec

\* Between the cursor and the screen no event is lost, whatever stale handlers
\* do beside the session: each one the session's handler has passed was shown,
\* is under way, or was taken by a stale handler that shares the cursor.
THEOREM NoEventLost == RosterSpec => []EventsAccountedFor
  <1>1. RosterInv /\ (NamesAreOwn => PlacedInv) => EventsAccountedFor
    <2> SUFFICES ASSUME RosterInv, PlacedInv, NEW p \in Watchers, Subscribed(p),
                        NEW i \in (base[p] + 1)..eventIndices[p]
                 PROVE  i \in ToSet(shown[p]) \cup {inbox[p][k].at : k \in DOMAIN inbox[p]}
                                \cup InHand(p) \cup stolen[p]
      BY DEF EventsAccountedFor
    <2>1. p \in Peers
      BY StreamAssumption
    <2>2. /\ base[p] \in Nat /\ eventIndices[p] \in Nat
      BY <2>1, CursorTypes DEF RosterInv, RosterTypes, Subscribed
    <2>3. i \in Nat /\ base[p] < i /\ i <= eventIndices[p]
      BY <2>2
    <2>4. Placed(p) /\ PlacedAt(p)
      BY <2>1 DEF PlacedInv, Placed, Subscribed
    <2>5. Found(p, i)
      BY <2>3, <2>4 DEF PlacedAt
    <2>6. Held(p, i) => i \in InHand(p)
      BY DEF Held, InHand
    <2>7. QED
      BY <2>5, <2>6 DEF Found, ToSet
  <1>2. QED
    BY <1>1, PlacedSafe, PTL

-----------------------------------------------------------------------------
(* What the log last says of a name.                                       *)

\* A set of positions in a sequence has a last one.
LEMMA LastPosition ==
    ASSUME NEW size \in Nat, NEW S, S \subseteq 1..size, S # {}
    PROVE  \E i \in S : \A j \in S : j <= i
  <1> DEFINE R == OpToRel(<, Nat)
             T == {size - i : i \in S}
  <1>1. \A x, y \in Nat : <<x, y>> \in R <=> x < y
    BY DEF OpToRel
  <1>2. T \subseteq Nat /\ T # {}
    <2>1. \A i \in S : size - i \in Nat
      OBVIOUS
    <2>2. QED
      BY <2>1
  <1>3. IsWellFoundedOn(R, Nat)
    BY NatLessThanWellFounded, Zenon
  <1> HIDE DEF R, T
  <1>4. \E x \in T : \A y \in T : ~(<<y, x>> \in R)
    BY <1>2, <1>3, WFMin
  <1>5. PICK x \in T : \A y \in T : ~(y < x)
    BY <1>1, <1>2, <1>4
  <1>6. PICK i \in S : x = size - i
    BY DEF T
  <1>7. \A j \in S : size - j \in T
    BY DEF T
  <1>8. QED
    BY <1>5, <1>6, <1>7

\* LastMention, of any log.
LastIn(log, n) ==
    LET about == {i \in DOMAIN log : log[i].pseudonym = n} IN
    IF about = {} THEN 0 ELSE CHOOSE i \in about : \A j \in about : j <= i

LEMMA LastInIs ==
    ASSUME NEW log \in Seq(ClientEventData), NEW n, NEW last, last = LastIn(log, n)
    PROVE  /\ last \in Nat /\ last <= Len(log)
           /\ last # 0 => last \in DOMAIN log /\ log[last].pseudonym = n
           /\ \A i \in DOMAIN log : log[i].pseudonym = n => i <= last
  <1> DEFINE about == {i \in DOMAIN log : log[i].pseudonym = n}
  <1>1. Len(log) \in Nat /\ DOMAIN log = 1..Len(log) /\ about \subseteq 1..Len(log)
    OBVIOUS
  <1>2. last = IF about = {} THEN 0 ELSE CHOOSE i \in about : \A j \in about : j <= i
    BY DEF LastIn
  <1>3. CASE about = {}
    BY <1>1, <1>2, <1>3
  <1>4. CASE about # {}
    <2>1. \E i \in about : \A j \in about : j <= i
      BY <1>1, <1>4, LastPosition
    <2>2. last \in about /\ \A j \in about : j <= last
      BY <1>2, <1>4, <2>1
    <2>3. QED
      BY <1>1, <2>2
  <1>5. QED
    BY <1>3, <1>4

\* A new entry is the last about its name, and about no other.
LEMMA LastInAppend ==
    ASSUME NEW log \in Seq(ClientEventData), NEW e \in ClientEventData, NEW n
    PROVE  LastIn(Append(log, e), n) = IF e.pseudonym = n THEN Len(log) + 1 ELSE LastIn(log, n)
  <1> DEFINE size == Len(log)
             more == Append(log, e)
             last == LastIn(log, n)
             next == LastIn(more, n)
  <1>1. /\ size \in Nat /\ DOMAIN log = 1..size /\ DOMAIN more = 1..(size + 1)
        /\ more[size + 1] = e /\ (\A i \in 1..size : more[i] = log[i])
        /\ more \in Seq(ClientEventData) /\ Len(more) = size + 1
    OBVIOUS
  <1>2. /\ last \in Nat /\ last <= size
        /\ last # 0 => last \in 1..size /\ log[last].pseudonym = n
        /\ \A i \in 1..size : log[i].pseudonym = n => i <= last
    BY <1>1, LastInIs
  <1>3. /\ next \in Nat /\ next <= size + 1
        /\ next # 0 => next \in 1..(size + 1) /\ more[next].pseudonym = n
        /\ \A i \in 1..(size + 1) : more[i].pseudonym = n => i <= next
    <2> HIDE DEF more
    <2>1. /\ next \in Nat /\ next <= Len(more)
          /\ next # 0 => next \in DOMAIN more /\ more[next].pseudonym = n
          /\ \A i \in DOMAIN more : more[i].pseudonym = n => i <= next
      BY <1>1, LastInIs
    <2>2. QED
      BY <1>1, <2>1
  <1> HIDE DEF size, more, last, next
  <1>4. CASE e.pseudonym = n
    <2>1. size + 1 \in 1..(size + 1) /\ size + 1 <= next
      BY <1>1, <1>3, <1>4
    <2>2. next = size + 1
      BY <1>1, <1>3, <2>1
    <2>3. QED
      BY <1>4, <2>2 DEF next, more, size
  <1>5. CASE e.pseudonym # n
    <2>1. \A i \in 1..(size + 1) : more[i].pseudonym = n => i \in 1..size /\ log[i].pseudonym = n
      BY <1>1, <1>5
    <2>2. next # 0 => next <= last
      BY <1>1, <1>2, <1>3, <2>1
    <2>3. last # 0 => last <= next
      BY <1>1, <1>2, <1>3
    <2>4. next = last
      BY <1>2, <1>3, <2>2, <2>3
    <2>5. QED
      BY <1>5, <2>4 DEF next, more, last
  <1>6. QED
    BY <1>4, <1>5

LEMMA AnnouncedLast ==
    ASSUME ClientEventsTypeOK, NEW n, NEW last, last = LastIn(clientEvents, n)
    PROVE  Announced(n) <=> last # 0 /\ clientEvents[last].type = "ADD"
  <1>1. /\ last \in Nat /\ clientEvents \in Seq(ClientEventData)
        /\ last # 0 => last \in DOMAIN clientEvents /\ clientEvents[last].pseudonym = n
        /\ \A i \in DOMAIN clientEvents : clientEvents[i].pseudonym = n => i <= last
    BY LastInIs DEF ClientEventsTypeOK
  <1>2. DOMAIN clientEvents = 1..Len(clientEvents) /\ Len(clientEvents) \in Nat
    BY <1>1
  <1>3. ASSUME Announced(n)
        PROVE  last # 0 /\ clientEvents[last].type = "ADD"
    <2>1. PICK i \in DOMAIN clientEvents :
             /\ clientEvents[i].pseudonym = n /\ clientEvents[i].type = "ADD"
             /\ \A j \in DOMAIN clientEvents : clientEvents[j].pseudonym = n => j <= i
      BY <1>3 DEF Announced
    <2>2. i \in Nat /\ i # 0 /\ i <= last
      BY <1>1, <1>2, <2>1
    <2>3. last # 0 /\ last <= i
      BY <1>1, <2>1, <2>2
    <2>4. last = i
      BY <1>1, <2>2, <2>3
    <2>5. QED
      BY <2>1, <2>3, <2>4
  <1>4. ASSUME last # 0, clientEvents[last].type = "ADD"
        PROVE  Announced(n)
    BY <1>1, <1>4 DEF Announced
  <1>5. QED
    BY <1>3, <1>4

LEMMA LastMentionIs == \A n : LastMention(n) = LastIn(clientEvents, n)
  BY DEF LastMention, LastIn

\* What a step does to what the log says: but for the names in flight, nothing,
\* or it is now said by an entry beyond all there were.
LogMoves ==
    /\ Len(clientEvents) <= Len(clientEvents)'
    /\ \A n : LastMention(n)' \in Nat
    /\ \A n \in Pseudonyms :
          ~InFlight(n)' => \/ LastMention(n)' > Len(clientEvents)
                           \/ /\ ~InFlight(n) /\ LastMention(n)' = LastMention(n)
                              /\ Announced(n)' <=> Announced(n)

LEMMA LogStands ==
    ASSUME RosterInv, UNCHANGED clientEvents,
           \A n \in Pseudonyms : InFlight(n) => InFlight(n)'
    PROVE  LogMoves
  <1>1. Len(clientEvents) \in Nat
    BY CursorTypes
  <1>2. \A n : LastMention(n)' = LastMention(n) /\ (Announced(n)' <=> Announced(n))
    BY DEF LastMention, Announced
  <1>3. \A n : LastMention(n) \in Nat
    BY CursorTypes, LastMentionIs, LastInIs
  <1>4. QED
    BY <1>1, <1>2, <1>3 DEF LogMoves

LEMMA ObserverMoves ==
    ASSUME RosterInv, ObserverStep
    PROVE  LogMoves
  <1> PICK e, k : e = dispatch.event /\ k = dispatch.next
    OBVIOUS
  <1>1. TypeInv /\ dispatch # Unlocked /\ Returns
    BY ObserverShape DEF RosterInv, ServerInv
  <1>2. \A n : InFlight(n)' <=> /\ e.kind \in {"ClientConnected", "ClientDisconnected"}
                                /\ e.pseudonym = n
                                /\ k \in {1, 2}
    BY <1>1, InFlightNext
  <1>3. \A n : InFlight(n) <=> /\ e.kind \in {"ClientConnected", "ClientDisconnected"}
                               /\ e.pseudonym = n
                               /\ k \in {2, 3}
    BY <1>1 DEF InFlight
  <1>4. CASE EventsLog
    <2>1. PICK kind, entry :
             /\ kind \in {"ClientConnected", "ClientDisconnected"}
             /\ Notifies("clientEvents", kind) /\ entry.pseudonym = e.pseudonym
             /\ entry = [type |-> IF kind = "ClientConnected" THEN "ADD" ELSE "REMOVE",
                         pseudonym |-> e.pseudonym]
             /\ clientEvents' = Append(clientEvents, entry)
      BY <1>4 DEF EventsLog, EventsOnClientConnected, EventsOnClientDisconnected, broadcastClientEvent
    <2>2. e.pseudonym \in Pseudonyms
      BY <1>1, <2>1, NotifiedEvent DEF ClientConnectedEvent, ClientDisconnectedEvent
    <2>3. entry \in ClientEventData
      BY <2>1, <2>2 DEF ClientEventData
    <2>4. /\ clientEvents \in Seq(ClientEventData) /\ ClientEventsTypeOK
          /\ Len(clientEvents) \in Nat /\ Len(clientEvents') = Len(clientEvents) + 1
      BY <2>1, CursorTypes DEF RosterInv, ServerInv, TypeInv, TypeOK
    <2>5. \A n : LastMention(n)' = LastIn(clientEvents', n) /\ LastMention(n) = LastIn(clientEvents, n)
      BY DEF LastMention, LastIn
    <2>6. \A n : LastMention(n)' = IF e.pseudonym = n THEN Len(clientEvents) + 1 ELSE LastMention(n)
      BY <2>1, <2>3, <2>4, <2>5, LastInAppend
    <2>7. \A n : e.pseudonym # n => (Announced(n)' <=> Announced(n)) /\ ~InFlight(n)
      BY <1>3, <2>1, <2>3, <2>4, AnnouncedAppend
    <2>8. \A n : LastMention(n) \in Nat
      BY <2>4, <2>5, LastInIs
    <2>9. QED
      BY <2>4, <2>6, <2>7, <2>8 DEF LogMoves
  <1>5. CASE ~EventsLog
    <2>1. UNCHANGED clientEvents
      BY <1>5 DEF ObserverStep, RegistryConnected, RegistryDisconnected, DatabaseLogs,
                  MessagesStore, PrivateQueues, clientEventVars
    <2>2. e.kind \in {"ClientConnected", "ClientDisconnected"} => k # 3
      BY <1>1, <1>5 DEF ObserverStep, RegistryConnected, RegistryDisconnected, DatabaseLogs,
                  MessagesStore, PrivateQueues, Notifies, Observers
    <2>3. QED
      BY <1>2, <1>3, <2>1, <2>2, LogStands
  <1>6. QED
    BY <1>4, <1>5

LEMMA NextMoves ==
    ASSUME RosterInv, [Next]_vars
    PROVE  LogMoves
  <1>1. CASE UNCHANGED <<clientEvents, dispatch>>
    BY <1>1, LogStands DEF InFlight
  <1>2. ASSUME NEW t \in Threads, HandlerStep(t)
        PROVE  LogMoves
    <2>1. Shape(t)
      BY <1>2, HandlerShape DEF RosterInv, ServerInv
    <2>2. UNCHANGED clientEvents /\ \A n \in Pseudonyms : InFlight(n) => InFlight(n)'
      BY <2>1 DEF Shape, InFlight
    <2>3. QED
      BY <2>2, LogStands
  <1>3. ASSUME NEW t \in Threads, DropAnswer(t)
        PROVE  LogMoves
    BY <1>1, <1>3 DEF DropAnswer, LocalStep, clientEventVars
  <1>4. ASSUME NEW p \in Peers, UserStep(p) \/ ReplyStep(p)
        PROVE  LogMoves
    BY <1>1, <1>4, ClientShape DEF RosterInv, ServerInv
  <1>5. CASE UNCHANGED <<serverVars, clientVars>>
    BY <1>1, <1>5 DEF serverVars, clientEventVars
  <1>6. QED
    BY <1>2, <1>3, <1>4, <1>5, ObserverMoves DEF Next, vars

-----------------------------------------------------------------------------
(* The roster is right about every name whose last event was not missed.   *)

\* p's roster knows of event i: it was shown, or Connect's answer told of it
\* and the stream will not bring it again.
Seen(p, i) ==
    \/ \E k \in DOMAIN shown[p] : shown[p][k] = i
    \/ i <= snapshotAt[p] /\ (Placed(p) => i <= base[p])

\* Once the names are read, the answer is right about each name whose last
\* event was logged by then; and the roster of a client that reads a stream
\* about each name whose last event it knows of.
RightAt(p) ==
    /\ snapshotAt[p] <= Len(clientEvents)
    /\ NamesRead(p) =>
          /\ \A k \in DOMAIN shown[p] : shown[p][k] <= snapshotAt[p]
          /\ \A n \in Pseudonyms :
                LastMention(n) <= snapshotAt[p] /\ ~InFlight(n) =>
                   (n \in calls[awaiting[p]].connectedPseudonyms <=> Announced(n))
    /\ stream[p] # NoStream =>
          \A n \in Pseudonyms :
             Seen(p, LastMention(n)) /\ ~InFlight(n) => (n \in roster[p] <=> Announced(n))

RightInv == \A p \in Peers : RightAt(p)

\* What was shown is in the log.
LEMMA ShownLogged ==
    ASSUME RosterInv, NEW p \in Peers
    PROVE  /\ shown[p] \in Seq(Nat) /\ snapshotAt[p] \in Nat /\ base[p] \in Nat
           /\ Len(clientEvents) \in Nat
           /\ \A k \in DOMAIN shown[p] : shown[p][k] \in Nat /\ shown[p][k] <= Len(clientEvents)
  <1>1. /\ Limit(p) \in Nat /\ Limit(p) <= Len(clientEvents) /\ Len(clientEvents) \in Nat
    BY CursorTypes
  <1>2. \A k \in DOMAIN shown[p] : shown[p][k] \in 1..Limit(p)
    BY DEF RosterInv, OrderInv, InLine
  <1>3. QED
    BY <1>1, <1>2 DEF RosterInv, RosterTypes

\* What has to stay the same for p.
LEMMA RightFrame ==
    ASSUME RosterInv, NEW p \in Peers, RightAt(p), LogMoves,
           shown'[p] = shown[p], snapshotAt'[p] = snapshotAt[p],
           NamesRead(p)' => /\ NamesRead(p)
                            /\ calls'[awaiting'[p]].connectedPseudonyms
                                 = calls[awaiting[p]].connectedPseudonyms,
           stream'[p] # NoStream => /\ stream[p] # NoStream /\ roster'[p] = roster[p]
                                    /\ Placed(p) => Placed(p)' /\ base'[p] = base[p]
    PROVE  RightAt(p)'
  <1>1. /\ snapshotAt[p] \in Nat /\ base[p] \in Nat /\ Len(clientEvents) \in Nat
        /\ snapshotAt[p] <= Len(clientEvents)
        /\ \A k \in DOMAIN shown[p] : shown[p][k] \in Nat /\ shown[p][k] <= Len(clientEvents)
    BY ShownLogged DEF RightAt
  <1>2. snapshotAt'[p] <= Len(clientEvents)'
    <2>1. Len(clientEvents)' \in Nat /\ Len(clientEvents) <= Len(clientEvents)'
      BY DEF LogMoves
    <2>2. QED
      BY <1>1, <2>1
  <1>3. ASSUME NamesRead(p)'
        PROVE  /\ \A k \in DOMAIN shown'[p] : shown'[p][k] <= snapshotAt'[p]
               /\ \A n \in Pseudonyms :
                     LastMention(n)' <= snapshotAt'[p] /\ ~InFlight(n)' =>
                        (n \in calls'[awaiting'[p]].connectedPseudonyms <=> Announced(n)')
    <2>1. \A k \in DOMAIN shown'[p] : shown'[p][k] <= snapshotAt'[p]
      BY <1>3 DEF RightAt
    <2>2. ASSUME NEW n \in Pseudonyms, LastMention(n)' <= snapshotAt'[p], ~InFlight(n)'
          PROVE  n \in calls'[awaiting'[p]].connectedPseudonyms <=> Announced(n)'
      <3>1. ~(LastMention(n)' > Len(clientEvents))
        <4>1. LastMention(n)' \in Nat
          BY DEF LogMoves
        <4>2. QED
          BY <1>1, <2>2, <4>1
      <3>2. /\ ~InFlight(n) /\ LastMention(n)' = LastMention(n)
            /\ Announced(n)' <=> Announced(n)
        BY <2>2, <3>1 DEF LogMoves
      <3>3. QED
        BY <1>3, <2>2, <3>2 DEF RightAt
    <2>3. QED
      BY <2>1, <2>2
  <1>4. ASSUME stream'[p] # NoStream, NEW n \in Pseudonyms,
               Seen(p, LastMention(n))', ~InFlight(n)'
        PROVE  n \in roster'[p] <=> Announced(n)'
    <2>1. LastMention(n)' \in Nat
      BY DEF LogMoves
    <2>2. ~(LastMention(n)' > Len(clientEvents))
      BY <1>1, <1>4, <2>1 DEF Seen
    <2>3. /\ ~InFlight(n) /\ LastMention(n)' = LastMention(n)
          /\ Announced(n)' <=> Announced(n)
      BY <1>4, <2>2 DEF LogMoves
    <2>4. Seen(p, LastMention(n))
      BY <1>4, <2>3 DEF Seen
    <2>5. QED
      BY <1>4, <2>3, <2>4 DEF RightAt
  <1>5. QED
    BY <1>2, <1>3, <1>4 DEF RightAt

\* A step of the server's on the Connect p waits for: it reads the names, or it
\* leaves them as they are.
LEMMA ServerReads ==
    ASSUME RosterInv, NEW p \in Peers, NEW t, t = awaiting[p], NamesRead(p)',
           \/ \E u \in Threads : UnaryStep(u)
           \/ \E u \in Threads : DropAnswer(u) /\ UNCHANGED rosterVars
           \/ ObserverStep /\ UNCHANGED rosterVars
    PROVE  /\ t \in Threads /\ Busy(t, "Connect")
           /\ \/ ReadNames(t)
              \/ /\ NamesRead(p) /\ awaiting'[p] = t
                 /\ calls'[t].connectedPseudonyms = calls[t].connectedPseudonyms
  <1>1. TypeInv
    BY DEF RosterInv, ServerInv
  <1>2. Connecting(p)'
    BY DEF NamesRead
  <1>3. (\E u \in Threads : HandlerStep(u) \/ DropAnswer(u)) \/ ObserverStep
    BY DEF UnaryStep, ReadNames, HandlerStep
  <1>4. /\ UNCHANGED clientVars /\ t \in Threads
        /\ Connecting(p)
        /\ \/ ConnectRoster(t)
           \/ /\ NamesRead(p)
              /\ calls'[t].connectedPseudonyms = calls[t].connectedPseudonyms
    BY <1>1, <1>2, <1>3, ServerConnects
  <1>5. ASSUME ConnectRoster(t)
        PROVE  ReadNames(t)
    <2>1. calls[t].pc = "roster" /\ calls[t] # NoCall
      BY <1>5 DEF ConnectRoster, At
    <2>2. calls'[t] # calls[t]
      BY <1>2, <2>1, <1>4 DEF NamesRead, clientVars
    <2>3. CASE ObserverStep
      <3>1. calls'[t] = calls[t]
        BY <1>1, <1>4, <2>1, <2>3, ObserverShape DEF Returns
      <3>2. QED
        BY <2>2, <3>1
    <2>4. ASSUME NEW u \in Threads, DropAnswer(u)
          PROVE  FALSE
      <3>1. u # t /\ calls' = [calls EXCEPT ![u] = NoCall]
        BY <2>1, <2>4 DEF DropAnswer, Answered
      <3>2. calls'[t] = calls[t]
        BY <1>1, <1>4, <3>1 DEF TypeInv, TypeOK, ServiceTypeOK
      <3>3. QED
        BY <2>2, <3>2
    <2>5. ASSUME NEW u \in Threads, UnaryStep(u), u # t
          PROVE  FALSE
      <3>1. Shape(u)
        BY <1>1, <2>5, HandlerShape DEF UnaryStep, ReadNames, HandlerStep
      <3>2. QED
        BY <1>4, <2>2, <2>5, <3>1 DEF Shape
    <2>6. UnaryStep(t) => ReadNames(t)
      BY <1>5 DEF UnaryStep, ConnectRoster
    <2>7. QED
      BY <2>3, <2>4, <2>5, <2>6
  <1>6. QED
    BY <1>4, <1>5 DEF Connecting, clientVars

\* The names are read: they are those the log says are there.
LEMMA ReadRight ==
    ASSUME RosterInv, SessionInv, LogInv, NEW p \in Peers, RightAt(p), PlacedAt(p), LogMoves,
           NEW t \in Threads, t = awaiting[p], Busy(t, "Connect"), ReadNames(t)
    PROVE  RightAt(p)'
  <1>1. /\ TypeInv /\ TypeOK
        /\ At(t, "Connect", "roster") /\ UNCHANGED <<clients, clientEvents, dispatch, view, awaiting>>
        /\ UNCHANGED <<shown, stream>>
    BY DEF RosterInv, ServerInv, TypeInv, ReadNames, ConnectRoster, LocalStep, ServerOnly, clientVars,
           clientEventVars, streamVars
  <1>2. t # NoThread /\ calls[t].peer = p /\ view[p] = "login"
    BY ClientAssumption DEF SessionInv, AwaitedInv, Busy
  <1>3. snapshotAt'[p] = Len(clientEvents) /\ stream'[p] = NoStream
    BY <1>1, <1>2 DEF ReadNames, RosterInv, RosterTypes, PlacedAt
  <1>4. calls'[awaiting'[p]].connectedPseudonyms = getConnectedPseudonyms
    <2> DEFINE c == calls[t]
               d == [c EXCEPT !.pc = "notify", !.connectedPseudonyms = getConnectedPseudonyms]
    <2>1. c \in ConnectCall
      BY <1>1, CallOfOp DEF TypeOK, ServiceTypeOK, CallsTyped, At
    <2>2. d.connectedPseudonyms = getConnectedPseudonyms
      BY <2>1 DEF ConnectCall
    <2>3. calls' = [calls EXCEPT ![t] = d]
      BY DEF ReadNames, ConnectRoster, Continue
    <2> HIDE DEF c, d
    <2>4. QED
      BY <1>1, <2>2, <2>3 DEF TypeOK, ServiceTypeOK
  <1>5. /\ Len(clientEvents) \in Nat
        /\ \A k \in DOMAIN shown[p] : shown[p][k] <= Len(clientEvents)
    BY ShownLogged
  <1>6. ASSUME NEW n \in Pseudonyms, ~InFlight(n)'
        PROVE  n \in calls'[awaiting'[p]].connectedPseudonyms <=> Announced(n)'
    <2>1. ~InFlight(n) /\ (Announced(n)' <=> Announced(n))
      BY <1>1, <1>6 DEF InFlight, Announced
    <2>2. n \in getConnectedPseudonyms <=> PeersNamed(n) # {}
      BY DEF getConnectedPseudonyms, PeersNamed
    <2>3. QED
      BY <1>4, <2>1, <2>2 DEF LogInv
  <1>7. QED
    BY <1>1, <1>3, <1>5, <1>6 DEF RightAt

LEMMA ServerRight ==
    ASSUME RosterInv, SessionInv, LogInv, PlacedInv, RightInv,
           \/ \E u \in Threads : UnaryStep(u)
           \/ \E u \in Threads : DropAnswer(u) /\ UNCHANGED rosterVars
           \/ ObserverStep /\ UNCHANGED rosterVars
    PROVE  RightInv'
  <1> SUFFICES ASSUME NEW p \in Peers
               PROVE  RightAt(p)'
    BY DEF RightInv
  <1> PICK t : t = awaiting[p]
    OBVIOUS
  <1>1. RightAt(p) /\ PlacedAt(p) /\ TypeInv
    BY DEF RightInv, PlacedInv, RosterInv, ServerInv
  <1>2. (\E u \in Threads : HandlerStep(u) \/ DropAnswer(u)) \/ ObserverStep
    BY DEF UnaryStep, ReadNames, HandlerStep
  <1>3. [Next]_vars
    BY <1>2 DEF Next
  <1>4. LogMoves
    BY <1>3, NextMoves
  <1>5. UNCHANGED <<handlers, stream, roster, shown, base>>
    BY DEF UnaryStep, ReadNames, rosterVars, streamVars, rosterHistory
  <1>6. stream'[p] # NoStream => /\ stream[p] # NoStream /\ roster'[p] = roster[p]
                                 /\ Placed(p) => Placed(p)' /\ base'[p] = base[p]
    BY <1>5 DEF Placed
  <1>7. CASE t \in Threads /\ Busy(t, "Connect") /\ ReadNames(t)
    BY <1>1, <1>4, <1>7, ReadRight
  <1>8. CASE ~(t \in Threads /\ Busy(t, "Connect") /\ ReadNames(t))
    <2>1. NamesRead(p)' => /\ NamesRead(p)
                           /\ calls'[awaiting'[p]].connectedPseudonyms
                                = calls[awaiting[p]].connectedPseudonyms
      BY <1>8, ServerReads
    <2>2. snapshotAt'[p] = snapshotAt[p]
      <3>1. CASE UNCHANGED snapshotAt
        BY <3>1
      <3>2. ASSUME NEW u \in Threads, ReadNames(u)
            PROVE  snapshotAt'[p] = snapshotAt[p]
        <4>1. Busy(u, "Connect")
          BY <3>2 DEF ReadNames, ConnectRoster, At, Busy
        <4>2. u # t
          BY <1>8, <3>2, <4>1
        <4>3. CASE calls[u].peer = p
          BY <3>2, <4>2, <4>3 DEF ReadNames
        <4>4. CASE calls[u].peer # p
          BY <3>2, <4>4 DEF ReadNames, RosterInv, RosterTypes
        <4>5. QED
          BY <4>3, <4>4
      <3>3. QED
        BY <3>1, <3>2 DEF UnaryStep, rosterVars, rosterHistory
    <2>3. QED
      BY <1>1, <1>4, <1>5, <1>6, <2>1, <2>2, RightFrame
  <1>9. QED
    BY <1>7, <1>8

LEMMA OtherClientRight ==
    ASSUME RosterInv, SessionInv, RightInv, NEW q \in Peers, OtherClientStep(q), UNCHANGED rosterVars
    PROVE  RightInv'
  <1> SUFFICES ASSUME NEW p \in Peers
               PROVE  RightAt(p)'
    BY DEF RightInv
  <1>1. UserStep(q) \/ ReplyStep(q)
    BY DEF OtherClientStep, UserStep, ReplyStep
  <1>2. [Next]_vars /\ TypeInv /\ UNCHANGED <<handlers, stream, roster, shown, base, snapshotAt>>
    BY <1>1 DEF Next, rosterVars, streamVars, rosterHistory, RosterInv, ServerInv
  <1>3. NamesRead(p)' => /\ NamesRead(p)
                         /\ calls'[awaiting'[p]].connectedPseudonyms
                              = calls[awaiting[p]].connectedPseudonyms
    BY <1>1, <1>2, ClientConnects DEF NamesRead
  <1>4. stream'[p] # NoStream => /\ stream[p] # NoStream /\ roster'[p] = roster[p]
                                 /\ Placed(p) => Placed(p)' /\ base'[p] = base[p]
    BY <1>2 DEF Placed
  <1>5. RightAt(p) /\ LogMoves
    BY <1>2, NextMoves DEF RightInv
  <1>6. QED
    BY <1>2, <1>3, <1>4, <1>5, RightFrame

\* The chat view starts from the answer: what the client had been shown before
\* was logged before the names were read.
LEMMA EnterRight ==
    ASSUME RosterInv, SessionInv, LogInv, NamesAreOwn, RightInv, NEW q \in Peers, EnterChat(q)
    PROVE  RightInv'
  <1> SUFFICES ASSUME NEW p \in Peers
               PROVE  RightAt(p)'
    BY DEF RightInv
  <1>1. /\ LoginSucceeded(q) /\ OpenStream(q) /\ StreamInv /\ RosterTypes /\ TypeInv
        /\ UNCHANGED <<shown, snapshotAt, base>>
        /\ ReplyStep(q) /\ [Next]_vars /\ LogMoves
    BY NextMoves DEF EnterChat, RosterInv, ServerInv, rosterHistory, ReplyStep, Next
  <1>2. /\ \A r \in Peers : r # q => stream'[r] = stream[r]
        /\ \A r \in Peers : r # q /\ stream[r] # NoStream => handlers'[stream[r]] = handlers[stream[r]]
    BY <1>1, OpensKept
  <1>3. CASE p # q
    <2>1. NamesRead(p)' => /\ NamesRead(p)
                           /\ calls'[awaiting'[p]].connectedPseudonyms
                                = calls[awaiting[p]].connectedPseudonyms
      BY <1>1, <1>3, ClientConnects DEF NamesRead
    <2>2. roster'[p] = roster[p]
      BY <1>1, <1>3 DEF EnterChat, RosterTypes
    <2>3. stream'[p] # NoStream => /\ stream[p] # NoStream /\ roster'[p] = roster[p]
                                   /\ Placed(p) => Placed(p)' /\ base'[p] = base[p]
      BY <1>1, <1>2, <1>3, <2>2 DEF Placed
    <2>4. RightAt(p)
      BY DEF RightInv
    <2>5. QED
      BY <1>1, <2>1, <2>3, <2>4, RightFrame
  <1>4. CASE p = q
    <2> DEFINE t == awaiting[q]
               c == calls[t]
    <2>1. /\ RightAt(q) /\ t \in Threads /\ t # NoThread
          /\ c # NoCall /\ c.op = "Connect" /\ c.pc = "accepted" /\ c.peer = q
      BY <1>1 DEF RightInv, LoginSucceeded, Returned, At, TypeInv, TypeOK, ClientTypeOK, SessionInv,
                  AwaitedInv
    <2>2. NamesRead(q) /\ Busy(t, "Connect") /\ Past(t)
      BY <2>1 DEF NamesRead, Connecting, Busy, Past
    <2>3. /\ awaiting'[q] = NoThread
          /\ UNCHANGED <<clientEvents, dispatch>>
      BY <1>1 DEF LoginSucceeded, Return, LocalStep, clientEventVars, TypeInv, TypeOK, ClientTypeOK
    <2>4. ~NamesRead(q)'
      BY <2>3 DEF NamesRead, Connecting
    <2>5. roster'[q] = {c.pseudonym} \cup c.connectedPseudonyms
      BY <1>1 DEF EnterChat, RosterTypes
    <2>6. \A n \in Pseudonyms : /\ LastMention(n)' = LastMention(n) /\ (Announced(n)' <=> Announced(n))
                                /\ InFlight(n)' <=> InFlight(n)
      BY <2>3 DEF LastMention, Announced, InFlight
    <2>7. isPeerConnected(q) /\ clients[q].pseudonym = c.pseudonym
      <3>1. isPeerConnected(q)
        BY <2>1, <2>2 DEF SessionInv, Registered
      <3>2. clients[q].pseudonym \in NamesOf[q] /\ c.pseudonym \in NamesOf[q]
        BY <2>1, <3>1 DEF SessionInv, NamesUsed
      <3>3. QED
        BY <3>1, <3>2 DEF NamesAreOwn
    <2>8. ASSUME NEW n \in Pseudonyms, Seen(q, LastMention(n))', ~InFlight(n)'
          PROVE  n \in roster'[q] <=> Announced(n)'
      <3>1. LastMention(n) <= snapshotAt[q] /\ ~InFlight(n)
        BY <1>1, <2>1, <2>2, <2>6, <2>8 DEF Seen, RightAt
      <3>2. n \in c.connectedPseudonyms <=> Announced(n)
        BY <2>1, <2>2, <3>1 DEF RightAt
      <3>3. n = c.pseudonym => Announced(n)
        <4>1. n = c.pseudonym => q \in PeersNamed(n)
          BY <2>7 DEF PeersNamed
        <4>2. QED
          BY <3>1, <4>1 DEF LogInv
      <3>4. QED
        BY <2>5, <2>6, <3>2, <3>3
    <2>9. snapshotAt'[q] <= Len(clientEvents)'
      BY <1>1, <2>1, <2>3 DEF RightAt
    <2>10. QED
      BY <1>4, <2>4, <2>8, <2>9 DEF RightAt
  <1>5. QED
    BY <1>3, <1>4

LEMMA LeaveRight ==
    ASSUME RosterInv, SessionInv, RightInv, NEW q \in Peers, LeaveChat(q)
    PROVE  RightInv'
  <1> SUFFICES ASSUME NEW p \in Peers
               PROVE  RightAt(p)'
    BY DEF RightInv
  <1>1. /\ StopStream(q) \/ AbandonStream(q)
        /\ UserStep(q) /\ [Next]_vars /\ StreamInv /\ RosterTypes /\ TypeInv /\ LogMoves
        /\ UNCHANGED <<roster, shown>>
    BY NextMoves DEF LeaveChat, UserStep, Next, RosterInv, ServerInv
  <1>2. /\ UNCHANGED handlers /\ stream'[q] = NoStream
        /\ \A r \in Peers : r # q => stream'[r] = stream[r]
    BY <1>1, StopsKept
  <1>3. CASE p = q
    <2>1. ~NamesRead(q)'
      BY LeaveConnects DEF NamesRead
    <2>2. snapshotAt'[q] = 0 /\ Len(clientEvents)' \in Nat
      BY <1>1, LimitGrows DEF LeaveChat, RosterTypes
    <2>3. QED
      BY <1>2, <1>3, <2>1, <2>2 DEF RightAt
  <1>4. CASE p # q
    <2>1. NamesRead(p)' => /\ NamesRead(p)
                           /\ calls'[awaiting'[p]].connectedPseudonyms
                                = calls[awaiting[p]].connectedPseudonyms
      BY <1>1, <1>4, ClientConnects DEF NamesRead
    <2>2. base'[p] = base[p] /\ snapshotAt'[p] = snapshotAt[p] /\ RightAt(p)
      BY <1>1, <1>4 DEF LeaveChat, RosterTypes, RightInv
    <2>3. stream'[p] # NoStream => /\ stream[p] # NoStream /\ roster'[p] = roster[p]
                                   /\ Placed(p) => Placed(p)' /\ base'[p] = base[p]
      BY <1>1, <1>2, <1>4, <2>2 DEF Placed
    <2>4. QED
      BY <1>1, <2>1, <2>2, <2>3, RightFrame
  <1>5. QED
    BY <1>3, <1>4

\* An event is shown: the roster is right about its name unless a later event
\* is about that name too, and then the roster has not seen the last of it.
LEMMA ShowRight ==
    ASSUME RosterInv, PlacedInv, RightInv, NEW q \in Peers, ShowEvent(q)
    PROVE  RightInv'
  <1> SUFFICES ASSUME NEW p \in Peers
               PROVE  RightAt(p)'
    BY DEF RightInv
  <1> PICK box, at, e : box = inbox[q] /\ at = Head(box).at /\ e = clientEvents[at]
    OBVIOUS
  <1>1. /\ StreamInv /\ RosterTypes /\ TakeInbox(q)
        /\ UNCHANGED <<clientVars, serverVars, snapshotAt, base>>
    BY DEF ShowEvent, RosterInv
  <1>2. UNCHANGED <<awaiting, calls, clientEvents, dispatch>>
    BY <1>1 DEF clientVars, serverVars, clientEventVars
  <1>3. /\ UNCHANGED <<handlers, stream>>
        /\ box # <<>> /\ box \in Seq(Item) /\ at \in Nat
    BY <1>1, TakesKept
  <1>4. /\ shown[q] \in Seq(Nat) /\ shown'[q] = Append(shown[q], at)
        /\ \A r \in Peers : r # q => shown'[r] = shown[r] /\ roster'[r] = roster[r]
        /\ \A n : n \in roster'[q] <=> IF e.pseudonym = n THEN e.type = "ADD" ELSE n \in roster[q]
    BY <1>1 DEF ShowEvent, handleClientEvent, RosterTypes
  <1>5. LogMoves
    BY <1>2, LogStands DEF InFlight
  <1>6. /\ RightAt(p) /\ (NamesRead(p)' <=> NamesRead(p)) /\ (Placed(p)' <=> Placed(p))
        /\ calls'[awaiting'[p]] = calls[awaiting[p]]
    BY <1>2, <1>3 DEF RightInv, NamesRead, Connecting, Busy, Placed
  <1>7. CASE p # q
    <2>1. shown'[p] = shown[p] /\ roster'[p] = roster[p] /\ base'[p] = base[p]
          /\ snapshotAt'[p] = snapshotAt[p] /\ stream'[p] = stream[p]
      BY <1>1, <1>3, <1>4, <1>7
    <2>2. NamesRead(p)' => /\ NamesRead(p)
                           /\ calls'[awaiting'[p]].connectedPseudonyms
                                = calls[awaiting[p]].connectedPseudonyms
      BY <1>6
    <2>3. stream'[p] # NoStream => /\ stream[p] # NoStream /\ roster'[p] = roster[p]
                                   /\ Placed(p) => Placed(p)' /\ base'[p] = base[p]
      BY <1>6, <2>1
    <2>4. QED
      BY <1>5, <1>6, <2>1, <2>2, <2>3, RightFrame
  <1>8. CASE p = q
    <2>1. /\ 1 \in DOMAIN box /\ Head(box) = box[1]
      BY <1>3
    <2>2. /\ ~Connecting(q) /\ (stream[q] = NoStream \/ Placed(q))
          /\ Placed(q) => base[q] < at
      BY <1>3, <2>1 DEF PlacedInv, PlacedAt
    <2>3. box[1].kind = "event"
      BY <2>1 DEF RosterInv, OnlyEvents
    <2>4. at \in 1..Limit(q) /\ \A i \in DOMAIN shown[q] : shown[q][i] < at
      BY <2>1, <2>3 DEF RosterInv, OrderInv, InLine
    <2>5. /\ Limit(q) \in Nat /\ Limit(q) <= Len(clientEvents) /\ Len(clientEvents) \in Nat
          /\ clientEvents \in Seq(ClientEventData) /\ ClientEventsTypeOK
      BY CursorTypes DEF RosterInv, ServerInv, TypeInv, TypeOK
    <2>6. at \in DOMAIN clientEvents /\ at # 0
      BY <2>4, <2>5
    <2>7. \A n : /\ LastMention(n) \in Nat /\ LastMention(n)' = LastMention(n)
                 /\ Announced(n)' <=> Announced(n)
                 /\ InFlight(n)' <=> InFlight(n)
                 /\ LastMention(n) = at => e.pseudonym = n /\ (Announced(n) <=> e.type = "ADD")
                 /\ e.pseudonym = n => at <= LastMention(n)
      <3> SUFFICES ASSUME NEW n
                   PROVE  /\ LastMention(n) \in Nat /\ LastMention(n)' = LastMention(n)
                          /\ Announced(n)' <=> Announced(n)
                          /\ InFlight(n)' <=> InFlight(n)
                          /\ LastMention(n) = at => e.pseudonym = n /\ (Announced(n) <=> e.type = "ADD")
                          /\ e.pseudonym = n => at <= LastMention(n)
        OBVIOUS
      <3> PICK last : last = LastIn(clientEvents, n)
        OBVIOUS
      <3>1. LastMention(n)' = LastMention(n) /\ (Announced(n)' <=> Announced(n))
            /\ (InFlight(n)' <=> InFlight(n)) /\ LastMention(n) = last
        BY <1>2 DEF LastMention, Announced, InFlight, LastIn
      <3>2. /\ last \in Nat
            /\ last # 0 => clientEvents[last].pseudonym = n
            /\ e.pseudonym = n => at <= last
        BY <2>5, <2>6, LastInIs
      <3>3. Announced(n) <=> last # 0 /\ clientEvents[last].type = "ADD"
        BY <2>5, AnnouncedLast
      <3>4. QED
        BY <2>6, <3>1, <3>2, <3>3
    <2>8. \A i \in Nat : Seen(q, i)' => i = at \/ Seen(q, i)
      <3>1. \A k \in DOMAIN shown'[q] : shown'[q][k] = at \/ (k \in DOMAIN shown[q] /\ shown'[q][k] = shown[q][k])
        BY <1>3, <1>4
      <3>2. QED
        BY <1>1, <1>6, <1>8, <3>1 DEF Seen
    <2>9. base[q] \in Nat /\ \A k \in DOMAIN shown[q] : shown[q][k] \in Nat
      BY <1>1, <1>4 DEF RosterTypes
    <2>10. ASSUME stream[q] # NoStream, NEW n \in Pseudonyms, Seen(q, LastMention(n))', ~InFlight(n)'
           PROVE  n \in roster'[q] <=> Announced(n)'
      <3>1. Placed(q) /\ base[q] < at
        BY <2>2, <2>10
      <3>2. LastMention(n) = at \/ Seen(q, LastMention(n))
        BY <2>7, <2>8, <2>10
      <3>3. CASE LastMention(n) = at
        BY <1>4, <2>7, <3>3
      <3>4. CASE LastMention(n) # at
        <4>1. Seen(q, LastMention(n))
          BY <3>2, <3>4
        <4>2. LastMention(n) < at
          BY <1>3, <2>4, <2>7, <2>9, <3>1, <4>1 DEF Seen
        <4>3. e.pseudonym # n
          BY <1>3, <2>7, <4>2
        <4>4. n \in roster[q] <=> Announced(n)
          BY <1>6, <1>8, <2>7, <2>10, <4>1 DEF RightAt
        <4>5. QED
          BY <1>4, <2>7, <4>3, <4>4
      <3>5. QED
        BY <3>3, <3>4
    <2>11. ~NamesRead(q)' /\ snapshotAt'[q] <= Len(clientEvents)'
      BY <1>1, <1>2, <1>6, <1>8, <2>2 DEF NamesRead, RightAt
    <2>12. QED
      BY <1>3, <1>8, <2>10, <2>11, <2>7 DEF RightAt
  <1>9. QED
    BY <1>7, <1>8

\* A handler's step shows nothing.  It says where in the log a session begins
\* once for each session.
LEMMA HandlerRight ==
    ASSUME RosterInv, RightInv, NEW h \in StreamThreads, EventsHandler(h)
    PROVE  RightInv'
  <1> SUFFICES ASSUME NEW q \in Peers
               PROVE  RightAt(q)'
    BY DEF RightInv
  <1> PICK p : p = handlers[h].peer
    OBVIOUS
  <1>1. /\ handlers[h] # NoHandler /\ p \in Peers /\ StreamStep
        /\ HandlerEnds(h, p) \/ HandlerGoes(h, p) \/ HandlerTakes(h, p) \/ HandlerWrites(h, p)
    BY HandlerCases
  <1>2. UNCHANGED <<clientEvents, dispatch, awaiting, calls, roster, shown, snapshotAt>>
    BY <1>1 DEF StreamStep, clientVars
  <1>3. StreamInv /\ RosterTypes
    BY DEF RosterInv
  <1>4. LogMoves /\ RightAt(q)
    BY <1>2, LogStands DEF InFlight, RightInv
  <1>5. NamesRead(q)' => /\ NamesRead(q)
                         /\ calls'[awaiting'[q]].connectedPseudonyms
                              = calls[awaiting[q]].connectedPseudonyms
    BY <1>2 DEF NamesRead, Connecting, Busy
  <1>6. ASSUME stream'[q] # NoStream
        PROVE  stream'[q] = stream[q] /\ (Placed(q) => Placed(q)' /\ base'[q] = base[q])
    <2>1. CASE HandlerEnds(h, p)
      <3>1. /\ UNCHANGED base
            /\ \A k \in StreamThreads : k # h => handlers'[k] = handlers[k]
            /\ stream[q] # h /\ stream'[q] = stream[q]
        BY <1>3, <1>6, <2>1, EndsKept DEF HandlerEnds
      <3>2. handlers'[stream[q]] = handlers[stream[q]]
        BY <1>3, <1>6, <3>1 DEF StreamInv, StreamTypeOK
      <3>3. QED
        BY <3>1, <3>2 DEF Placed
    <2>2. CASE HandlerGoes(h, p)
      <3>1. PICK pc \in {"queue", "loop", "wait"} :
               /\ StreamGoto(h, pc) /\ handlers[h].pc # "write"
               /\ pc = "queue" => handlers[h].pc = "start"
        BY <2>2 DEF HandlerGoes
      <3>2. Moves(h, pc, NoItem) /\ UNCHANGED stream
        BY <1>1, <1>3, <3>1, GotoMoves DEF Places
      <3>3. Placed(q) => Placed(q)'
        BY <1>3, <1>6, <3>1, <3>2 DEF Placed, Moves, StreamInv, StreamTypeOK
      <3>4. Placed(q) => base'[q] = base[q]
        <4>1. CASE UNCHANGED base
          BY <4>1
        <4>2. CASE ~Stale(h) /\ handlers[h].pc = "queue" /\ base' = [base EXCEPT ![p] = Limit(p)]
          <5>1. stream[p] = h
            BY <1>1, <4>2 DEF Stale
          <5>2. ~Placed(p)
            BY <4>2, <5>1 DEF Placed
          <5>3. p # q => base'[q] = base[q]
            BY <1>3, <4>2 DEF RosterTypes
          <5>4. QED
            BY <5>2, <5>3
        <4>3. QED
          BY <2>2, <4>1, <4>2 DEF HandlerGoes
      <3>5. QED
        BY <3>2, <3>3, <3>4
    <2>3. CASE HandlerTakes(h, p)
      <3>1. [kind |-> "event", at |-> Limit(p) + 1] \in Item
        BY <1>1, CursorTypes DEF Item
      <3>2. UNCHANGED <<base, stream>> /\ \E item : Moves(h, "write", item)
        BY <1>1, <1>3, <2>3, <3>1, TakesMoves DEF HandlerTakes
      <3>3. QED
        BY <1>3, <1>6, <3>2 DEF Placed, Moves, StreamInv, StreamTypeOK
    <2>4. CASE HandlerWrites(h, p)
      <3>1. CASE StreamWrites(h)
        <4>1. UNCHANGED <<base, stream>> /\ Moves(h, "loop", NoItem)
          BY <1>3, <2>4, <3>1, WritesKept DEF HandlerWrites
        <4>2. QED
          BY <1>3, <1>6, <4>1 DEF Placed, Moves, StreamInv, StreamTypeOK
      <3>2. CASE StreamWriteLost(h)
        <4>1. /\ UNCHANGED <<base, stream>> /\ stream[q] # h
              /\ \A k \in StreamThreads : k # h => handlers'[k] = handlers[k]
          BY <1>3, <2>4, <3>2, WriteLostKept DEF HandlerWrites
        <4>2. handlers'[stream[q]] = handlers[stream[q]]
          BY <1>3, <1>6, <4>1 DEF StreamInv, StreamTypeOK
        <4>3. QED
          BY <4>1, <4>2 DEF Placed
      <3>3. QED
        BY <2>4, <3>1, <3>2 DEF HandlerWrites
    <2>5. QED
      BY <1>1, <2>1, <2>2, <2>3, <2>4
  <1>7. /\ stream'[q] # NoStream => /\ stream[q] # NoStream /\ roster'[q] = roster[q]
                                    /\ Placed(q) => Placed(q)' /\ base'[q] = base[q]
        /\ shown'[q] = shown[q] /\ snapshotAt'[q] = snapshotAt[q]
    BY <1>2, <1>6
  <1>8. QED
    BY <1>4, <1>5, <1>7, RightFrame

LEMMA CancelRight ==
    ASSUME RosterInv, RightInv, NEW h \in StreamThreads, CancelArrives(h),
           UNCHANGED <<now, serverVars, clientVars, roster, rosterHistory>>
    PROVE  RightInv'
  <1> SUFFICES ASSUME NEW p \in Peers
               PROVE  RightAt(p)'
    BY DEF RightInv
  <1>1. /\ StreamInv /\ UNCHANGED <<stream, roster, shown, snapshotAt, base>>
        /\ UNCHANGED <<awaiting, calls, clientEvents, dispatch>>
        /\ Moves(h, handlers[h].pc, handlers[h].item)
    BY CancelMoves DEF RosterInv, rosterHistory, clientVars, serverVars, clientEventVars
  <1>2. stream[p] # NoStream => stream[p] \in StreamThreads
    BY <1>1 DEF StreamInv, StreamTypeOK
  <1>3. Placed(p)' <=> Placed(p)
    BY <1>1, <1>2 DEF Placed, Moves
  <1>4. LogMoves /\ RightAt(p) /\ (NamesRead(p)' <=> NamesRead(p))
    BY <1>1, LogStands DEF InFlight, RightInv, NamesRead, Connecting, Busy
  <1>5. NamesRead(p)' => /\ NamesRead(p)
                         /\ calls'[awaiting'[p]].connectedPseudonyms
                              = calls[awaiting[p]].connectedPseudonyms
    BY <1>1, <1>4
  <1>6. QED
    BY <1>1, <1>3, <1>4, <1>5, RightFrame

LEMMA RightKept ==
    ASSUME RosterInv, SessionInv, LogInv, NamesAreOwn, PlacedInv, RightInv, [RosterNext]_allVars
    PROVE  RightInv'
  <1>1. CASE UNCHANGED allVars
    <2>1. UNCHANGED <<handlers, stream, roster, shown, snapshotAt, base, awaiting, calls,
                      clientEvents, dispatch>>
      BY <1>1 DEF allVars, vars, rosterVars, streamVars, rosterHistory, clientVars, serverVars,
                  clientEventVars
    <2>2. \A n : /\ LastMention(n)' = LastMention(n) /\ (Announced(n)' <=> Announced(n))
                 /\ InFlight(n)' <=> InFlight(n)
      BY <2>1 DEF LastMention, Announced, InFlight
    <2>3. QED
      BY <2>1, <2>2 DEF RightInv, RightAt, Seen, Placed, NamesRead, Connecting, Busy
  <1>2. QED
    BY <1>1, ServerRight, OtherClientRight, EnterRight, LeaveRight, ShowRight, HandlerRight,
       CancelRight DEF RosterNext

LEMMA InitRight == RosterInit => RightInv
  <1> SUFFICES ASSUME RosterInit, NEW p \in Peers
               PROVE  RightAt(p)
    BY DEF RightInv
  <1>1. stream[p] = NoStream /\ snapshotAt[p] = 0 /\ Len(clientEvents) \in Nat
    BY InitRoster, CursorTypes DEF RosterInit, StreamInit
  <1>2. awaiting[p] = NoThread
    BY DEF RosterInit, Init, ClientInit
  <1>3. QED
    BY <1>1, <1>2 DEF RightAt, NamesRead, Connecting

LEMMA RightSafe == RosterSpec => [](RosterInv /\ (NamesAreOwn => PlacedInv /\ RightInv))
  <1>1. RosterInv /\ (NamesAreOwn => PlacedInv) /\ (NamesAreOwn => RightInv) /\ [RosterNext]_allVars
          => (NamesAreOwn => RightInv)'
    <2>1. NamesAreOwn' <=> NamesAreOwn
      BY DEF NamesAreOwn
    <2>2. RosterInv /\ NamesAreOwn => SessionInv /\ LogInv
      BY DEF RosterInv, ServerInv
    <2>3. QED
      BY <2>1, <2>2, RightKept
  <1>2. RosterInv /\ (NamesAreOwn => PlacedInv) /\ (NamesAreOwn => RightInv)
          <=> RosterInv /\ (NamesAreOwn => PlacedInv /\ RightInv)
    OBVIOUS
  <1>3. RosterInit => (NamesAreOwn => RightInv)
    BY InitRight
  <1>4. QED
    BY <1>1, <1>2, <1>3, PlacedSafe, PTL DEF RosterSpec

\* The roster of a client that has caught up agrees with the registry on every
\* name whose last event it did not miss: those events were logged between the
\* moment Connect read the names and the subscription, or a stale handler of an
\* earlier session took them.
THEOREM RosterIsRight == RosterSpec => []RosterRight
  <1>1. RosterInv /\ (NamesAreOwn => PlacedInv /\ RightInv) => RosterRight
    <2> SUFFICES ASSUME RosterInv, NamesAreOwn, PlacedInv, RightInv,
                        NEW p \in Watchers, CaughtUp(p), NEW n \in Pseudonyms,
                        LastMention(n) \notin Missed(p)
                 PROVE  n \in roster[p] <=> PeersNamed(n) # {}
      BY DEF RosterRight
    <2> PICK i : i = LastMention(n)
      OBVIOUS
    <2>1. /\ p \in Peers /\ Subscribed(p) /\ inbox[p] = <<>>
          /\ eventIndices[p] = Len(clientEvents)
      BY StreamAssumption DEF CaughtUp
    <2>2. /\ Placed(p) /\ PlacedAt(p) /\ RightAt(p)
      BY <2>1 DEF Placed, Subscribed, PlacedInv, RightInv
    <2>3. /\ base[p] \in Nat /\ snapshotAt[p] \in Nat /\ Len(clientEvents) \in Nat
      BY <2>1, ShownLogged
    <2>4. i \in Nat /\ i <= Len(clientEvents)
      BY CursorTypes, LastMentionIs, LastInIs
    <2>5. Seen(p, i)
      <3>1. CASE base[p] < i
        <4>1. Found(p, i)
          BY <2>1, <2>2, <2>4, <3>1 DEF PlacedAt
        <4>2. DOMAIN inbox[p] = {}
          BY <2>1
        <4>3. i \notin stolen[p] /\ ~Held(p, i)
          BY DEF Missed, InHand, Held
        <4>4. QED
          BY <4>1, <4>2, <4>3 DEF Found, Seen
      <3>2. CASE i <= base[p]
        <4>1. i <= snapshotAt[p]
          BY <2>3, <2>4, <3>2 DEF Missed
        <4>2. QED
          BY <3>2, <4>1 DEF Seen
      <3>3. QED
        BY <2>3, <2>4, <3>1, <3>2
    <2>6. ~InFlight(n)
      BY DEF InFlight, CaughtUp
    <2>7. n \in roster[p] <=> Announced(n)
      BY <2>2, <2>5, <2>6 DEF RightAt, Placed
    <2>8. QED
      BY <2>6, <2>7 DEF RosterInv, ServerInv, LogInv
  <1>2. QED
    BY <1>1, RightSafe, PTL
===============================================================================
