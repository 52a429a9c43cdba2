-------------------------- MODULE ChatSystem_proofs --------------------------
(***************************************************************************)
(* Proofs about ChatSystem, for every set of peers, names and threads and  *)
(* every bound: types; overlapping Connects; with names of their own, that *)
(* the client's view, the registry and the event log agree; and whose      *)
(* names messages carry.                                                   *)
(***************************************************************************)
EXTENDS ChatSystem, TLAPS

\* The variables' types but for calls, dispatch and admittedAt, which the
\* handlers and the dispatcher change together.
CallsTyped == calls \in [Threads -> Call \cup {NoCall}]

\* The call of a busy thread is of its operation's type.
LEMMA CallOfOp ==
    ASSUME CallsTyped, NEW t \in Threads, calls[t] # NoCall
    PROVE  /\ calls[t] \in Call
           /\ calls[t].op = "Connect" => calls[t] \in ConnectCall
           /\ calls[t].op = "Disconnect" => calls[t] \in DisconnectCall
           /\ calls[t].op = "SendMessage" => calls[t] \in SendMessageCall
  <1>1. calls[t] \in Call
    BY DEF CallsTyped
  <1>2. QED
    BY <1>1 DEF Call, ConnectCall, DisconnectCall, SendMessageCall

LEMMA ContinueTyped ==
    ASSUME CallsTyped, NEW t \in Threads, NEW call \in Call \cup {NoCall}, Continue(t, call)
    PROVE  CallsTyped'
  BY DEF CallsTyped, Continue

-----------------------------------------------------------------------------
(* Type correctness.  Each group of actions keeps the types and leaves the *)
(* dispatcher's mutex with a handler that is dispatching.                  *)

TypeInv == TypeOK /\ WalkOwned /\ TimesPassed

\* A handler step before the notification touches its own call alone.
LEMMA LocalTyped ==
    ASSUME TypeInv, LocalStep, UNCHANGED clientVars,
           NEW t \in Threads, calls[t] # NoCall, calls[t].pc # "dispatching",
           NEW call \in Call \cup {NoCall}, Continue(t, call),
           call # NoCall /\ call.op = "Connect" => call.checkedAt <= now
    PROVE  TypeInv'
  <1>1. CallsTyped'
    BY ContinueTyped DEF TypeInv, TypeOK, ServiceTypeOK, CallsTyped
  <1>2. TypeOK'
    BY <1>1 DEF TypeInv, TypeOK, RegistryTypeOK, MessagesTypeOK, PrivateTypeOK, ClientEventsTypeOK,
                ValidationTypeOK, StatisticsTypeOK,
                DispatcherTypeOK, ServiceTypeOK, ClientTypeOK, CallsTyped, LocalStep,
                clientVars, statisticsVars, messageVars, privateVars, clientEventVars
  <1>3. WalkOwned'
    BY DEF TypeInv, TypeOK, DispatcherTypeOK, Dispatch, WalkOwned, LocalStep, Continue,
           ServiceTypeOK
  <1>4. TimesPassed'
    BY DEF TypeInv, TypeOK, ServiceTypeOK, TimesPassed, LocalStep, Continue, isPeerConnected
  <1>5. QED
    BY <1>2, <1>3, <1>4 DEF TypeInv

\* The step that takes the dispatcher's mutex.
LEMMA LockTyped ==
    ASSUME TypeInv, UNCHANGED clientVars,
           NEW t \in Threads, NEW event \in Event, Lock(t, event),
           NEW call \in Call, call.pc = "dispatching", Continue(t, call),
           event.kind = "ClientConnected" =>
             call.op = "Connect" /\ call.peer = event.peer /\ call.pseudonym = event.pseudonym,
           call.op = "Connect" => call.checkedAt <= now,
           UNCHANGED <<now, clients, messageVars, privateVars, clientEventVars, lastMessageTime,
                       statisticsVars, admittedAt>>
    PROVE  TypeInv'
  <1>1. CallsTyped'
    BY ContinueTyped DEF TypeInv, TypeOK, ServiceTypeOK, CallsTyped
  <1>2. dispatch' \in Dispatch
    BY DEF Lock, Dispatch
  <1>3. TypeOK'
    BY <1>1, <1>2 DEF TypeInv, TypeOK, RegistryTypeOK, MessagesTypeOK, PrivateTypeOK, ClientEventsTypeOK,
                ValidationTypeOK, StatisticsTypeOK,
                DispatcherTypeOK, ServiceTypeOK, ClientTypeOK, CallsTyped,
                clientVars, statisticsVars, messageVars, privateVars, clientEventVars
  <1>4. calls'[t] = call /\ call # NoCall
    BY NoCallAssumption DEF Continue, TypeInv, TypeOK, ServiceTypeOK
  <1>5. 1 \in 1..Len(Observers[event.kind])
    BY DEF Observers, Event, ClientConnectedEvent, ClientDisconnectedEvent, MessageSentEvent,
           PrivateMessageSentEvent
  <1>6. WalkOwned'
    BY <1>4, <1>5 DEF WalkOwned, Lock
  <1>7. TimesPassed'
    BY DEF TypeInv, TypeOK, ServiceTypeOK, TimesPassed, Continue, isPeerConnected
  <1>8. QED
    BY <1>3, <1>6, <1>7 DEF TypeInv

LEMMA HandlerTyped ==
    ASSUME TypeInv, NEW t \in Threads, HandlerStep(t)
    PROVE  TypeInv'
  <1> DEFINE c == calls[t]
             d == [c EXCEPT !.pc = "dispatching"]
  <1>1. /\ CallsTyped
        /\ now \in Time
        /\ clients \in [Peers -> ClientInfo \cup {NoClient}]
        /\ TimesPassed
    BY DEF TypeInv, TypeOK, ServiceTypeOK, RegistryTypeOK, CallsTyped
  <1>2. Time \subseteq Nat /\ now <= now
    BY <1>1 DEF Time
  <1>3. CASE ConnectCheck(t) /\ ServerOnly
    <2>1. c \in ConnectCall
      BY <1>1, <1>3, CallOfOp DEF ConnectCheck, At
    <2>2. /\ [c EXCEPT !.pc = "roster", !.checkedAt = now] \in Call
          /\ [c EXCEPT !.pc = "roster", !.checkedAt = now].checkedAt <= now
          /\ [c EXCEPT !.pc = "rejected"] \in Call
          /\ [c EXCEPT !.pc = "rejected"].checkedAt <= now
      BY <1>1, <1>2, <2>1, NoCallAssumption DEF ConnectCall, Call, TimesPassed
    <2>3. QED
      BY <1>3, <2>2, LocalTyped DEF ConnectCheck, At, Goto, ServerOnly
  <1>4. CASE ConnectRoster(t) /\ ServerOnly
    <2> DEFINE e == [c EXCEPT !.pc = "notify", !.connectedPseudonyms = getConnectedPseudonyms]
    <2>1. c \in ConnectCall
      BY <1>1, <1>4, CallOfOp DEF ConnectRoster, At
    <2>2. getConnectedPseudonyms \in SUBSET Pseudonyms
      BY <1>1, NoClientAssumption DEF getConnectedPseudonyms, isPeerConnected, ClientInfo
    <2>3. e \in Call /\ e.checkedAt <= now
      BY <1>1, <2>1, <2>2, NoCallAssumption DEF ConnectCall, Call, TimesPassed
    <2>4. QED
      BY <1>4, <2>3, LocalTyped DEF ConnectRoster, At, ServerOnly
  <1>5. CASE ConnectNotify(t) /\ ServerOnly
    <2> DEFINE e == [kind |-> "ClientConnected", peer |-> c.peer, pseudonym |-> c.pseudonym]
    <2>1. c \in ConnectCall
      BY <1>1, <1>5, CallOfOp DEF ConnectNotify, Notify, At
    <2>2. e \in Event
      BY <2>1 DEF ConnectCall, Event, ClientConnectedEvent
    <2>3. /\ d \in Call /\ d.pc = "dispatching" /\ d.op = "Connect"
          /\ d.peer = e.peer /\ d.pseudonym = e.pseudonym /\ d.checkedAt <= now
      BY <1>1, <2>1, NoCallAssumption DEF ConnectCall, Call, TimesPassed
    <2>4. Lock(t, e) /\ Continue(t, d)
      BY <1>5 DEF ConnectNotify, Notify, Goto
    <2> HIDE DEF c, d, e
    <2>5. QED
      BY <1>5, <2>2, <2>3, <2>4, LockTyped DEF ConnectNotify, Notify, ServerOnly
  <1>6. CASE DisconnectDuration(t) /\ ServerOnly
    <2> DEFINE e == [c EXCEPT !.pc = "notify",
                              !.connectionDuration = getConnectionDuration(c.peer)]
    <2>1. c \in DisconnectCall
      BY <1>1, <1>6, CallOfOp DEF DisconnectDuration, At
    <2>2. isPeerConnected(c.peer) => getConnectionDuration(c.peer) \in Time
      <3>1. c.peer \in Peers
        BY <2>1 DEF DisconnectCall
      <3>2. SUFFICES ASSUME isPeerConnected(c.peer)
                     PROVE  getConnectionDuration(c.peer) \in Time
        OBVIOUS
      <3>3. clients[c.peer] \in ClientInfo /\ clients[c.peer].initialTimePoint <= now
        BY <1>1, <3>1, <3>2 DEF isPeerConnected, TimesPassed
      <3>4. clients[c.peer].initialTimePoint \in Time
        BY <3>3 DEF ClientInfo
      <3>5. QED
        BY <1>1, <3>3, <3>4, ClockAssumption DEF getConnectionDuration, Time
    <2>3. /\ [c EXCEPT !.pc = "ok"] \in Call /\ [c EXCEPT !.pc = "ok"].op = "Disconnect"
          /\ isPeerConnected(c.peer) => e \in Call /\ e.op = "Disconnect"
      BY <2>1, <2>2 DEF DisconnectCall, Call
    <2>4. QED
      BY <1>6, <2>3, LocalTyped DEF DisconnectDuration, At, Goto, ServerOnly
  <1>7. CASE DisconnectNotify(t) /\ ServerOnly
    <2> DEFINE e == [kind |-> "ClientDisconnected", peer |-> c.peer, pseudonym |-> c.pseudonym,
                     connectionDuration |-> c.connectionDuration]
    <2>1. c \in DisconnectCall
      BY <1>1, <1>7, CallOfOp DEF DisconnectNotify, Notify, At
    <2>2. e \in Event /\ e.kind # "ClientConnected"
      BY <2>1 DEF DisconnectCall, Event, ClientDisconnectedEvent
    <2>3. d \in Call /\ d.pc = "dispatching" /\ d.op # "Connect"
      BY <2>1 DEF DisconnectCall, Call
    <2>4. Lock(t, e) /\ Continue(t, d)
      BY <1>7 DEF DisconnectNotify, Notify, Goto
    <2> HIDE DEF c, d, e
    <2>5. QED
      BY <1>7, <2>2, <2>3, <2>4, LockTyped DEF DisconnectNotify, Notify, ServerOnly
  <1>8. CASE SendLookup(t) /\ ServerOnly
    <2> DEFINE e == [c EXCEPT !.pc = "validate", !.pseudonym = getPseudonymForPeer(c.peer)]
    <2>1. c \in SendMessageCall
      BY <1>1, <1>8, CallOfOp DEF SendLookup, At
    <2>2. isPeerConnected(c.peer) => getPseudonymForPeer(c.peer) \in Pseudonyms
      BY <1>1, <2>1 DEF SendMessageCall, getPseudonymForPeer, isPeerConnected, ClientInfo
    <2>3. /\ [c EXCEPT !.pc = "refused"] \in Call /\ [c EXCEPT !.pc = "refused"].op = "SendMessage"
          /\ isPeerConnected(c.peer) => e \in Call /\ e.op = "SendMessage"
      BY <2>1, <2>2 DEF SendMessageCall, Call
    <2>4. QED
      BY <1>8, <2>3, LocalTyped DEF SendLookup, At, Goto, ServerOnly
  <1>9. CASE SendValidate(t) /\ ServerOnly
    <2> DEFINE e(pc) == [c EXCEPT !.pc = pc, !.timestamp = now]
               f == [c EXCEPT !.pc = "refused"]
    <2>1. c \in SendMessageCall
      BY <1>1, <1>9, CallOfOp DEF SendValidate, At
    <2>2. /\ \A pc \in {"notify", "recipient"} : e(pc) \in Call /\ e(pc).op # "Connect"
          /\ f \in Call /\ f.op # "Connect"
      BY <1>1, <2>1 DEF SendMessageCall, Call
    <2>3. PICK call \in Call : call.op # "Connect" /\ Continue(t, call)
      <3>1. CASE contentAccepted(c.content) /\ rateAccepted(c.peer, now)
        <4>1. Continue(t, e("notify")) \/ Continue(t, e("recipient"))
          BY <1>9, <3>1 DEF SendValidate
        <4>2. QED
          BY <2>2, <4>1
      <3>2. CASE ~(contentAccepted(c.content) /\ rateAccepted(c.peer, now))
        BY <1>9, <2>2, <3>2 DEF SendValidate, Goto
      <3>3. QED
        BY <3>1, <3>2
    <2>4. lastMessageTime' \in [Peers -> Time \cup {Never}]
      BY <1>1, <1>9 DEF SendValidate, RecordMessageTime, TypeInv, TypeOK, ValidationTypeOK
    <2> HIDE DEF c
    <2>5. CallsTyped' /\ calls' = [calls EXCEPT ![t] = call]
      BY <1>1, <2>3, ContinueTyped DEF Continue
    <2>6. TypeOK'
      BY <1>9, <2>4, <2>5 DEF SendValidate, TypeInv, TypeOK, RegistryTypeOK, MessagesTypeOK, PrivateTypeOK, ClientEventsTypeOK,
                ValidationTypeOK,
            StatisticsTypeOK, DispatcherTypeOK, ServiceTypeOK, ClientTypeOK, CallsTyped,
            clientVars, statisticsVars, messageVars, privateVars, clientEventVars, ServerOnly
    <2>7. WalkOwned'
      BY <1>9, <2>5 DEF SendValidate, At, TypeInv, TypeOK, DispatcherTypeOK, Dispatch, WalkOwned,
                        ServiceTypeOK
    <2>8. TimesPassed'
      BY <1>9, <2>3, <2>5 DEF SendValidate, TypeInv, TypeOK, ServiceTypeOK, TimesPassed,
                              isPeerConnected
    <2>9. QED
      BY <2>6, <2>7, <2>8 DEF TypeInv
  <1>10. CASE SendRecipient(t) /\ ServerOnly
    <2>1. c \in SendMessageCall
      BY <1>1, <1>10, CallOfOp DEF SendRecipient, At
    <2>2. getPeerForPseudonym(c.recipient) \subseteq Peers
      BY DEF getPeerForPseudonym, PeersNamed
    <2>3. /\ [c EXCEPT !.pc = "refused"] \in Call /\ [c EXCEPT !.pc = "refused"].op = "SendMessage"
          /\ \A q \in Peers : [c EXCEPT !.pc = "notify", !.recipientPeer = q] \in Call
          /\ \A q \in Peers : [c EXCEPT !.pc = "notify", !.recipientPeer = q].op = "SendMessage"
      BY <2>1, <2>2 DEF SendMessageCall, Call
    <2>4. QED
      BY <1>10, <2>2, <2>3, LocalTyped DEF SendRecipient, At, Goto, ServerOnly
  <1>11. CASE SendNotify(t) /\ ServerOnly
    <2> DEFINE e == SentEvent(c)
    <2>1. c \in SendMessageCall
      BY <1>1, <1>11, CallOfOp DEF SendNotify, Notify, At
    <2>2. e \in Event /\ e.kind # "ClientConnected"
      BY <2>1, LengthsAssumption DEF SendMessageCall, Event, MessageSentEvent,
                                     PrivateMessageSentEvent, SentEvent
    <2>3. d \in Call /\ d.pc = "dispatching" /\ d.op # "Connect"
      BY <2>1 DEF SendMessageCall, Call
    <2>4. Lock(t, e) /\ Continue(t, d)
      BY <1>11 DEF SendNotify, Notify, Goto
    <2> HIDE DEF c, d, e
    <2>5. QED
      BY <1>11, <2>2, <2>3, <2>4, LockTyped DEF SendNotify, Notify, ServerOnly
  <1>12. QED
    BY <1>3, <1>4, <1>5, <1>6, <1>7, <1>8, <1>9, <1>10, <1>11 DEF HandlerStep

LEMMA WithinWalk ==
    ASSUME NEW length \in 1..4, NEW n \in 1..length
    PROVE  n \in 1..4
  OBVIOUS

\* The end of a callback moves the walk on, or ends it with the answer.
LEMMA ReturnsTyped ==
    ASSUME TypeInv, dispatch # Unlocked, ObserverReturns
    PROVE  /\ CallsTyped' /\ DispatcherTypeOK'
           /\ WalkOwned'
           /\ \A t \in Threads :
                /\ calls'[t] = NoCall <=> calls[t] = NoCall
                /\ calls[t] # NoCall =>
                     /\ calls'[t].op = calls[t].op
                     /\ calls'[t].peer = calls[t].peer
                /\ calls[t] # NoCall /\ calls[t].op = "Connect" =>
                     /\ calls'[t].checkedAt = calls[t].checkedAt
                     /\ calls'[t].pseudonym = calls[t].pseudonym
  <1> DEFINE o == dispatch.owner
             c == calls[o]
             d == [c EXCEPT !.pc = Answer(c.op)]
  <1>1. /\ dispatch \in Dispatch /\ o \in Threads /\ dispatch.next \in 1..4
        /\ dispatch.event \in Event
    BY DEF TypeInv, TypeOK, DispatcherTypeOK, Dispatch
  <1>2. /\ CallsTyped /\ c # NoCall /\ c \in Call /\ c.pc = "dispatching"
        /\ dispatch.next \in 1..Len(Observers[dispatch.event.kind])
    BY <1>1 DEF TypeInv, TypeOK, ServiceTypeOK, CallsTyped, WalkOwned
  <1>3. d \in Call /\ d.op = c.op /\ d.peer = c.peer
    BY <1>2 DEF Call, ConnectCall, DisconnectCall, SendMessageCall, Answer
  <1>4. d # NoCall
    BY <1>3, NoCallAssumption
  <1>5. c.op = "Connect" => d.checkedAt = c.checkedAt /\ d.pseudonym = c.pseudonym
    BY <1>1, <1>2, CallOfOp DEF ConnectCall
  <1>6. Len(Observers[dispatch.event.kind]) \in 1..4
    BY <1>1 DEF Observers, Event, ClientConnectedEvent, ClientDisconnectedEvent,
                MessageSentEvent, PrivateMessageSentEvent
  <1>7. CASE LastObserver
    <2>1. dispatch' = Unlocked /\ Continue(o, d)
      BY <1>7 DEF ObserverReturns, NextObserver, Goto
    <2>2. DispatcherTypeOK' /\ WalkOwned'
      BY <2>1 DEF DispatcherTypeOK, WalkOwned
    <2> HIDE DEF d
    <2>3. calls' = [calls EXCEPT ![o] = d]
      BY <2>1 DEF Continue
    <2>4. CallsTyped'
      BY <1>1, <1>2, <1>3, <2>3 DEF CallsTyped
    <2>5. QED
      BY <1>1, <1>2, <1>3, <1>4, <1>5, <2>2, <2>3, <2>4 DEF CallsTyped
  <1>8. CASE ~LastObserver
    <2>1. dispatch' = [dispatch EXCEPT !.next = @ + 1] /\ calls' = calls
      BY <1>8 DEF ObserverReturns, NextObserver
    <2>2. dispatch.next + 1 \in 1..Len(Observers[dispatch.event.kind])
      BY <1>1, <1>2, <1>6, <1>8 DEF LastObserver
    <2> DEFINE n == dispatch.next + 1
    <2>n. n \in 1..4
      BY <1>6, <2>2, WithinWalk
    <2>3. /\ dispatch' = [dispatch EXCEPT !.next = n]
          /\ dispatch' \in Dispatch /\ dispatch'.owner = o /\ dispatch'.event = dispatch.event
      <3> HIDE DEF n
      <3>1. dispatch' = [dispatch EXCEPT !.next = n]
        BY <2>1 DEF n
      <3>2. QED
        BY <1>1, <2>n, <3>1 DEF Dispatch
    <2>4. DispatcherTypeOK' /\ WalkOwned'
      BY <1>1, <2>1, <2>2, <2>3 DEF DispatcherTypeOK, TypeInv, WalkOwned, Dispatch
    <2>5. QED
      BY <1>2, <2>1, <2>4 DEF CallsTyped
  <1>9. QED
    BY <1>7, <1>8

\* What holds of the event of a callback that is about to run.
LEMMA NotifiedEvent ==
    ASSUME TypeInv, NEW o, NEW kind, Notifies(o, kind)
    PROVE  /\ dispatch \in Dispatch /\ dispatch # Unlocked
           /\ dispatch.owner \in Threads
           /\ dispatch.event \in Event
           /\ dispatch.event.kind = kind
           /\ kind = "ClientConnected" => dispatch.event \in ClientConnectedEvent
           /\ kind = "ClientDisconnected" => dispatch.event \in ClientDisconnectedEvent
           /\ kind = "MessageSent" => dispatch.event \in MessageSentEvent
           /\ kind = "PrivateMessageSent" => dispatch.event \in PrivateMessageSentEvent
  <1>1. dispatch \in Dispatch /\ dispatch # Unlocked /\ dispatch.event.kind = kind
    BY DEF TypeInv, TypeOK, DispatcherTypeOK, Notifies
  <1>2. dispatch.owner \in Threads /\ dispatch.event \in Event
    BY <1>1 DEF Dispatch
  <1>3. QED
    BY <1>1, <1>2 DEF Event, ClientConnectedEvent, ClientDisconnectedEvent, MessageSentEvent,
                      PrivateMessageSentEvent

\* A callback that leaves registry, clock and clients alone and keeps the
\* types of what it changes.
LEMMA CallbackTyped ==
    ASSUME TypeInv, dispatch # Unlocked, ObserverReturns, ServerOnly,
           UNCHANGED <<now, clients, lastMessageTime, admittedAt>>,
           MessagesTypeOK', PrivateTypeOK', ClientEventsTypeOK', StatisticsTypeOK'
    PROVE  TypeInv'
  <1>1. CallsTyped' /\ DispatcherTypeOK' /\ WalkOwned'
    BY ReturnsTyped
  <1>2. TypeOK'
    BY <1>1 DEF TypeInv, TypeOK, RegistryTypeOK, ValidationTypeOK, ServiceTypeOK, ClientTypeOK,
                CallsTyped, clientVars, ServerOnly
  <1>3. TimesPassed'
    BY ReturnsTyped DEF TypeInv, TimesPassed, isPeerConnected
  <1>4. QED
    BY <1>1, <1>2, <1>3 DEF TypeInv

\* The three updates of the table keep its type.
LEMMA RowsTyped ==
    ASSUME StatisticsTypeOK, NEW n \in Pseudonyms, NEW seconds \in Nat,
           \/ clientConnectionEvent(n)
           \/ incrementTxMessage(n)
           \/ updateCumulatedConnectionTime(n, seconds)
    PROVE  StatisticsTypeOK'
  <1>1. CASE WriteFails
    BY <1>1 DEF WriteFails, StatisticsTypeOK
  <1>2. statistics[n] \in Row \cup {NoRow}
    BY DEF StatisticsTypeOK
  <1>3. CASE \E row \in Row \cup {NoRow} : SetRow(n, row)
    BY <1>3 DEF SetRow, StatisticsTypeOK
  <1>4. statistics[n] # NoRow =>
          /\ [statistics[n] EXCEPT !.nb_of_connection = @ + 1] \in Row
          /\ [statistics[n] EXCEPT !.tx_messages = @ + 1] \in Row
          /\ [statistics[n] EXCEPT !.cumulated_connection_time_sec = @ + seconds] \in Row
    BY <1>2 DEF Row
  <1>5. [nb_of_connection |-> 1, tx_messages |-> 0, cumulated_connection_time_sec |-> 0] \in Row
    BY DEF Row
  <1>6. QED
    BY <1>1, <1>3, <1>4, <1>5 DEF clientConnectionEvent, incrementTxMessage,
                                  updateCumulatedConnectionTime

LEMMA ObserverTyped ==
    ASSUME TypeInv, ObserverStep
    PROVE  TypeInv'
  <1> DEFINE e == dispatch.event
             c == calls[dispatch.owner]
  <1>1. MessagesTypeOK /\ PrivateTypeOK /\ ClientEventsTypeOK /\ StatisticsTypeOK
    BY DEF TypeInv, TypeOK
  <1>2. CASE RegistryConnected /\ ServerOnly
    <2>1. /\ dispatch # Unlocked /\ dispatch.owner \in Threads
          /\ e \in ClientConnectedEvent /\ e.kind = "ClientConnected"
      BY <1>2, NotifiedEvent DEF RegistryConnected
    <2>2. c # NoCall /\ c.op = "Connect" /\ c \in ConnectCall /\ c.checkedAt <= now
      BY <2>1, CallOfOp DEF TypeInv, TypeOK, ServiceTypeOK, CallsTyped, WalkOwned, TimesPassed
    <2>3. CallsTyped' /\ DispatcherTypeOK' /\ WalkOwned'
      BY <1>2, <2>1, ReturnsTyped DEF RegistryConnected
    <2>4. /\ clients' = [clients EXCEPT ![e.peer] =
                           [pseudonym |-> e.pseudonym, initialTimePoint |-> now]]
          /\ admittedAt' = [admittedAt EXCEPT ![e.peer] = c.checkedAt]
          /\ now' = now
      BY <1>2 DEF RegistryConnected, RegistryOnClientConnected
    <2>5. RegistryTypeOK'
      BY <2>1, <2>4 DEF TypeInv, TypeOK, RegistryTypeOK, ClientInfo, ClientConnectedEvent
    <2>6. admittedAt' \in [Peers -> Time]
      BY <2>1, <2>2, <2>4 DEF TypeInv, TypeOK, ServiceTypeOK, ConnectCall, ClientConnectedEvent
    <2>7. TypeOK'
      BY <1>2, <2>3, <2>5, <2>6 DEF RegistryConnected, TypeInv, TypeOK, ValidationTypeOK,
            MessagesTypeOK, PrivateTypeOK, ClientEventsTypeOK, StatisticsTypeOK, ServiceTypeOK,
            ClientTypeOK, CallsTyped, clientVars, statisticsVars, messageVars, privateVars,
            clientEventVars, ServerOnly
    <2>8. now \in Nat
      BY ClockAssumption DEF TypeInv, TypeOK, Time
    <2>9. TimesPassed'
      <3>1. \A p \in Peers : admittedAt'[p] <= now'
        BY <2>2, <2>4 DEF TypeInv, TypeOK, ServiceTypeOK, TimesPassed
      <3>2. \A p \in Peers : clients'[p] # NoClient => clients'[p].initialTimePoint <= now'
        BY <2>4, <2>8 DEF TypeInv, TypeOK, RegistryTypeOK, TimesPassed, isPeerConnected
      <3>3. \A t \in Threads : (calls'[t] # NoCall /\ calls'[t].op = "Connect")
                                => calls'[t].checkedAt <= now'
        BY <1>2, <2>1, <2>4, ReturnsTyped DEF RegistryConnected, TypeInv, TimesPassed
      <3>4. QED
        BY <3>1, <3>2, <3>3 DEF TimesPassed, isPeerConnected
    <2>10. QED
      BY <2>3, <2>7, <2>9 DEF TypeInv
  <1>3. CASE RegistryDisconnected /\ ServerOnly
    <2>1. dispatch # Unlocked
      BY <1>3, NotifiedEvent DEF RegistryDisconnected
    <2>2. CallsTyped' /\ DispatcherTypeOK' /\ WalkOwned'
      BY <1>3, <2>1, ReturnsTyped DEF RegistryDisconnected
    <2>3. /\ clients' \in [Peers -> ClientInfo \cup {NoClient}]
          /\ \A p \in Peers : clients'[p] \in {clients[p], NoClient}
      BY <1>3 DEF RegistryDisconnected, RegistryOnClientDisconnected, PeersNamed,
                  TypeInv, TypeOK, RegistryTypeOK
    <2>4. RegistryTypeOK'
      BY <2>3 DEF TypeInv, TypeOK, RegistryTypeOK
    <2>5. TypeOK'
      BY <1>3, <2>2, <2>4 DEF RegistryDisconnected, TypeInv, TypeOK, ValidationTypeOK,
            MessagesTypeOK, PrivateTypeOK, ClientEventsTypeOK, StatisticsTypeOK, ServiceTypeOK,
            ClientTypeOK, CallsTyped, clientVars, statisticsVars, messageVars, privateVars,
            clientEventVars, ServerOnly
    <2>6. TimesPassed'
      <3>1. now' = now /\ admittedAt' = admittedAt
        BY <1>3 DEF RegistryDisconnected
      <3>2. \A p \in Peers : clients'[p] # NoClient => clients'[p].initialTimePoint <= now'
        BY <2>3, <3>1 DEF TypeInv, TimesPassed, isPeerConnected
      <3>3. \A t \in Threads : (calls'[t] # NoCall /\ calls'[t].op = "Connect")
                                => calls'[t].checkedAt <= now'
        BY <1>3, <2>1, <3>1, ReturnsTyped DEF RegistryDisconnected, TypeInv, TimesPassed
      <3>4. QED
        BY <3>1, <3>2, <3>3 DEF TypeInv, TimesPassed, isPeerConnected
    <2>7. QED
      BY <2>2, <2>5, <2>6 DEF TypeInv
  <1>4. CASE DatabaseLogs /\ ServerOnly
    <2>1. dispatch # Unlocked
      BY <1>4, NotifiedEvent DEF DatabaseLogs
    <2>2. StatisticsTypeOK'
      <3>1. CASE Notifies("database", "ClientConnected") /\ DatabaseOnClientConnected(e)
        <4>1. e.pseudonym \in Pseudonyms
          BY <3>1, NotifiedEvent DEF ClientConnectedEvent
        <4>2. QED
          BY <1>1, <3>1, <4>1, RowsTyped DEF DatabaseOnClientConnected
      <3>2. CASE Notifies("database", "ClientDisconnected") /\ DatabaseOnClientDisconnected(e)
        <4>1. e.pseudonym \in Pseudonyms /\ e.connectionDuration \in Nat
          BY <3>2, NotifiedEvent DEF ClientDisconnectedEvent, Time
        <4>2. InSeconds(e.connectionDuration) \in Nat
          BY <4>1, ClockAssumption DEF InSeconds
        <4>3. QED
          BY <1>1, <3>2, <4>1, <4>2, RowsTyped DEF DatabaseOnClientDisconnected
      <3>3. CASE Notifies("database", "MessageSent") /\ DatabaseOnMessageSent(e)
        <4>1. e.pseudonym \in Pseudonyms
          BY <3>3, NotifiedEvent DEF MessageSentEvent
        <4>2. QED
          BY <1>1, <3>3, <4>1, RowsTyped DEF DatabaseOnMessageSent
      <3>4. CASE Notifies("database", "PrivateMessageSent") /\ DatabaseOnPrivateMessageSent(e)
        <4>1. e.senderPseudonym \in Pseudonyms
          BY <3>4, NotifiedEvent DEF PrivateMessageSentEvent
        <4>2. QED
          BY <1>1, <3>4, <4>1, RowsTyped DEF DatabaseOnPrivateMessageSent
      <3>5. QED
        BY <1>4, <3>1, <3>2, <3>3, <3>4 DEF DatabaseLogs
    <2>3. QED
      BY <1>1, <1>4, <2>1, <2>2, CallbackTyped DEF DatabaseLogs, messageVars, privateVars,
            clientEventVars, MessagesTypeOK, PrivateTypeOK, ClientEventsTypeOK
  <1>5. CASE EventsLog /\ ServerOnly
    <2>1. dispatch # Unlocked /\ e.pseudonym \in Pseudonyms
      BY <1>5, NotifiedEvent DEF EventsLog, ClientConnectedEvent, ClientDisconnectedEvent
    <2>2. PICK type \in {"ADD", "REMOVE"} :
            /\ clientEvents' = Append(clientEvents, [type |-> type, pseudonym |-> e.pseudonym])
            /\ UNCHANGED eventIndices
      BY <1>5 DEF EventsLog, EventsOnClientConnected, EventsOnClientDisconnected,
                  broadcastClientEvent
    <2>3. ClientEventsTypeOK'
      BY <1>1, <2>1, <2>2 DEF ClientEventsTypeOK, ClientEventData
    <2>4. QED
      BY <1>1, <1>5, <2>1, <2>3, CallbackTyped DEF EventsLog, messageVars, privateVars,
            statisticsVars, MessagesTypeOK, PrivateTypeOK, StatisticsTypeOK
  <1>6. CASE MessagesStore /\ ServerOnly
    <2>1. dispatch # Unlocked /\ e \in MessageSentEvent
      BY <1>6, NotifiedEvent DEF MessagesStore
    <2>2. MessagesTypeOK'
      BY <1>1, <1>6, <2>1 DEF MessagesStore, MessagesOnMessageSent, MessagesTypeOK, Message,
                              MessageSentEvent
    <2>3. QED
      BY <1>1, <1>6, <2>1, <2>2, CallbackTyped DEF MessagesStore, clientEventVars, privateVars,
            statisticsVars, ClientEventsTypeOK, PrivateTypeOK, StatisticsTypeOK
  <1>7. CASE PrivateQueues /\ ServerOnly
    <2>1. dispatch # Unlocked
      BY <1>7, NotifiedEvent DEF PrivateQueues
    <2>2. PrivateTypeOK'
      <3>1. CASE PrivateOnClientDisconnected(e)
        BY <1>1, <3>1 DEF PrivateOnClientDisconnected, PrivateTypeOK
      <3>2. CASE Notifies("privateMessages", "PrivateMessageSent")
                   /\ PrivateOnPrivateMessageSent(e)
        <4> DEFINE m == [author |-> e.senderPseudonym, content |-> e.content,
                         to |-> e.recipientPseudonym, id |-> Len(privateSent) + 1]
        <4>1. e \in PrivateMessageSentEvent
          BY <3>2, NotifiedEvent
        <4>2. m \in PrivateMessage
          BY <1>1, <4>1 DEF PrivateMessageSentEvent, PrivateMessage, PrivateTypeOK
        <4>3. /\ peerMessageQueues' = [peerMessageQueues EXCEPT ![e.recipientPeer] = Append(@, m)]
              /\ privateSent' = Append(privateSent, m)
          BY <3>2 DEF PrivateOnPrivateMessageSent
        <4> HIDE DEF m
        <4>4. QED
          BY <1>1, <4>1, <4>2, <4>3 DEF PrivateTypeOK, PrivateMessageSentEvent
      <3>3. QED
        BY <1>7, <3>1, <3>2 DEF PrivateQueues
    <2>3. QED
      BY <1>1, <1>7, <2>1, <2>2, CallbackTyped DEF PrivateQueues, messageVars, clientEventVars,
            statisticsVars, MessagesTypeOK, ClientEventsTypeOK, StatisticsTypeOK
  <1>8. QED
    BY <1>2, <1>3, <1>4, <1>5, <1>6, <1>7 DEF ObserverStep

\* A client step: its own variables, and at most one call of a thread that
\* does not hold the dispatcher's mutex.
LEMMA ClientTyped ==
    ASSUME TypeInv, LocalStep, ClientTypeOK',
           \/ calls' = calls
           \/ \E t \in Threads, call \in Call \cup {NoCall} :
                 /\ calls' = [calls EXCEPT ![t] = call]
                 /\ calls[t] = NoCall \/ calls[t].pc # "dispatching"
                 /\ call # NoCall /\ call.op = "Connect" => call.checkedAt = 0
    PROVE  TypeInv'
  <1>1. CASE calls' = calls
    BY <1>1 DEF TypeInv, TypeOK, RegistryTypeOK, MessagesTypeOK, PrivateTypeOK,
                ClientEventsTypeOK, ValidationTypeOK, StatisticsTypeOK, DispatcherTypeOK,
                ServiceTypeOK, LocalStep, messageVars, privateVars, clientEventVars,
                statisticsVars, WalkOwned, TimesPassed, isPeerConnected
  <1>2. CASE calls' # calls
    <2>1. PICK t \in Threads, call \in Call \cup {NoCall} :
                 /\ calls' = [calls EXCEPT ![t] = call]
                 /\ calls[t] = NoCall \/ calls[t].pc # "dispatching"
                 /\ call # NoCall /\ call.op = "Connect" => call.checkedAt = 0
      BY <1>2
    <2>2. CallsTyped'
      BY <2>1 DEF CallsTyped, TypeInv, TypeOK, ServiceTypeOK
    <2>3. TypeOK'
      BY <2>2 DEF TypeInv, TypeOK, RegistryTypeOK, MessagesTypeOK, PrivateTypeOK,
                ClientEventsTypeOK, ValidationTypeOK, StatisticsTypeOK, DispatcherTypeOK,
                ServiceTypeOK, CallsTyped, LocalStep, messageVars, privateVars, clientEventVars,
                statisticsVars
    <2>4. WalkOwned'
      BY <2>1 DEF TypeInv, TypeOK, DispatcherTypeOK, Dispatch, WalkOwned, LocalStep,
                  ServiceTypeOK
    <2>5. 0 <= now
      BY ClockAssumption DEF TypeInv, TypeOK, Time
    <2>6. TimesPassed'
      BY <2>1, <2>5 DEF TypeInv, TypeOK, ServiceTypeOK, TimesPassed, LocalStep, isPeerConnected
    <2>7. QED
      BY <2>3, <2>4, <2>6 DEF TypeInv
  <1>3. QED
    BY <1>1, <1>2

LEMMA InvokeTyped ==
    ASSUME TypeInv, LocalStep, ClientTypeOK', NEW p \in Peers, NEW call \in Call,
           call.op = "Connect" => call.checkedAt = 0, Invoke(p, call)
    PROVE  TypeInv'
  BY ClientTyped DEF Invoke

LEMMA ReturnTyped ==
    ASSUME TypeInv, LocalStep, ClientTypeOK', NEW p \in Peers, NEW op, NEW pc,
           pc # "dispatching", Returned(p, op, pc), Return(p)
    PROVE  TypeInv'
  <1>1. awaiting[p] \in Threads /\ calls[awaiting[p]].pc = pc
    BY DEF TypeInv, TypeOK, ClientTypeOK, Returned, At
  <1>2. QED
    BY <1>1, ClientTyped DEF Return

LEMMA UserTyped ==
    ASSUME TypeInv, NEW p \in Peers, UserStep(p)
    PROVE  TypeInv'
  <1>1. ClientTypeOK
    BY DEF TypeInv, TypeOK
  <1>2. 0 \in Time
    BY ClockAssumption DEF Time
  <1>3. ASSUME NEW n \in NamesOf[p], Login(p, n)
        PROVE  TypeInv'
    <2>1. n \in Pseudonyms
      BY ClientAssumption
    <2>2. NewConnect(p, n) \in Call /\ NewConnect(p, n).checkedAt = 0
      BY <1>2, <2>1 DEF NewConnect, ConnectCall, Call
    <2>3. ClientTypeOK'
      BY <1>1, <1>3 DEF ClientTypeOK, Login, Invoke
    <2>4. QED
      BY <1>3, <2>2, <2>3, InvokeTyped DEF Login
  <1>4. CASE ConnectTimesOut(p)
    <2>1. ClientTypeOK'
      BY <1>1, <1>4 DEF ClientTypeOK, ConnectTimesOut
    <2>2. QED
      BY <1>4, <2>1, ClientTyped DEF ConnectTimesOut
  <1>5. ASSUME NEW next \in {"leaving", "closing"}, PrepareClose(p, next), pseudonym[p] # NoName
        PROVE  TypeInv'
    <2>1. pseudonym[p] \in Pseudonyms
      BY <1>1, <1>5 DEF ClientTypeOK
    <2>2. /\ NewDisconnect(p, pseudonym[p]) \in Call
          /\ NewDisconnect(p, pseudonym[p]).op = "Disconnect"
      BY <1>2, <2>1 DEF NewDisconnect, DisconnectCall, Call
    <2>3. ClientTypeOK'
      BY <1>1, <1>5 DEF ClientTypeOK, PrepareClose, SetView, Invoke
    <2>4. QED
      BY <1>5, <2>2, <2>3, InvokeTyped DEF PrepareClose
  <1>6. CASE Disconnect(p)
    BY <1>1, <1>5, <1>6 DEF Disconnect, ClientTypeOK
  <1>7. CASE CloseWindow(p)
    BY <1>5, <1>7 DEF CloseWindow
  <1>8. CASE CloseUnused(p)
    <2>1. ClientTypeOK'
      BY <1>1, <1>8 DEF ClientTypeOK, CloseUnused, SetView
    <2>2. QED
      BY <1>8, <2>1, ClientTyped DEF CloseUnused
  <1>9. ASSUME NEW recipient \in Recipients, NEW content \in Lengths,
               SendMessage(p, recipient, content)
        PROVE  TypeInv'
    <2> DEFINE c == NewSendMessage(p, pseudonym[p], recipient, content)
    <2>1. pseudonym[p] \in Pseudonyms /\ recipient \in Pseudonyms \cup {Everyone}
      BY <1>1, <1>9, ClientAssumption DEF ClientTypeOK, SendMessage
    <2>2. c \in Call /\ c.op = "SendMessage"
      BY <1>2, <2>1 DEF NewSendMessage, SendMessageCall, Call
    <2>3. ClientTypeOK'
      BY <1>1, <1>9 DEF ClientTypeOK, SendMessage, Invoke
    <2>4. LocalStep /\ Invoke(p, c)
      BY <1>9 DEF SendMessage
    <2> HIDE DEF c
    <2>5. QED
      BY <2>2, <2>3, <2>4, InvokeTyped
  <1>10. CASE Crash(p)
    <2>1. ClientTypeOK'
      BY <1>1, <1>10 DEF ClientTypeOK, Crash, SetView
    <2>2. QED
      BY <1>10, <2>1, ClientTyped DEF Crash
  <1>11. QED
    BY <1>3, <1>4, <1>6, <1>7, <1>8, <1>9, <1>10 DEF UserStep

LEMMA ReplyTyped ==
    ASSUME TypeInv, NEW p \in Peers, ReplyStep(p)
    PROVE  TypeInv'
  <1>1. ClientTypeOK /\ CallsTyped
    BY DEF TypeInv, TypeOK, ServiceTypeOK, CallsTyped
  <1>2. CASE LoginSucceeded(p)
    <2>1. awaiting[p] \in Threads /\ calls[awaiting[p]].pseudonym \in Pseudonyms
      BY <1>1, <1>2, CallOfOp DEF ClientTypeOK, LoginSucceeded, Returned, At, ConnectCall
    <2>2. ClientTypeOK'
      BY <1>1, <1>2, <2>1, ClientAssumption DEF ClientTypeOK, LoginSucceeded, SetView, Return
    <2>3. QED
      BY <1>2, <2>2, ReturnTyped DEF LoginSucceeded
  <1>3. CASE LoginRejected(p)
    <2>1. ClientTypeOK'
      BY <1>1, <1>3 DEF ClientTypeOK, LoginRejected, Return
    <2>2. QED
      BY <1>3, <2>1, ReturnTyped DEF LoginRejected
  <1>4. CASE Disconnected(p)
    <2>1. ClientTypeOK'
      BY <1>1, <1>4 DEF ClientTypeOK, Disconnected, SetView, Return
    <2>2. QED
      BY <1>4, <2>1, ReturnTyped DEF Disconnected
  <1>5. CASE MessageSent(p)
    <2>1. ClientTypeOK'
      BY <1>1, <1>5 DEF ClientTypeOK, MessageSent, Return
    <2>2. QED
      BY <1>5, <2>1, ReturnTyped DEF MessageSent
  <1>6. QED
    BY <1>2, <1>3, <1>4, <1>5 DEF ReplyStep

LEMMA InitTyped == Init => TypeInv
  <1> SUFFICES ASSUME Init PROVE TypeInv
    OBVIOUS
  <1>1. 0 \in Time
    BY ClockAssumption DEF Time
  <1>2. TypeOK
    BY <1>1 DEF Init, ClockInit, ServiceInit, ClientInit, RegistryInit, MessagesInit,
         PrivateInit, ClientEventsInit, ValidationInit, StatisticsInit, DispatcherInit,
         TypeOK, RegistryTypeOK, MessagesTypeOK, PrivateTypeOK, ClientEventsTypeOK,
         ValidationTypeOK, StatisticsTypeOK, DispatcherTypeOK, ServiceTypeOK, ClientTypeOK
  <1>3. WalkOwned
    BY DEF Init, ServiceInit, DispatcherInit, WalkOwned
  <1>4. TimesPassed
    BY DEF Init, ClockInit, ServiceInit, RegistryInit, TimesPassed, isPeerConnected
  <1>5. QED
    BY <1>2, <1>3, <1>4 DEF TypeInv

\* The clock only moves forward, so recorded times stay in the past.
LEMMA LaterStill ==
    ASSUME TypeInv, now \in Time, now' \in Time, now <= now', UNCHANGED serverVars
    PROVE  TimesPassed'
  <1>1. \A x \in Nat : x <= now => x <= now'
    BY DEF Time
  <1>2. Time \subseteq Nat
    BY DEF Time
  <1>3. admittedAt \in [Peers -> Time] /\ UNCHANGED <<admittedAt, clients, calls>>
    BY DEF TypeInv, TypeOK, ServiceTypeOK, serverVars
  <1>4. \A p \in Peers : isPeerConnected(p) => clients[p].initialTimePoint \in Time
    BY DEF TypeInv, TypeOK, RegistryTypeOK, isPeerConnected, ClientInfo
  <1>5. \A t \in Threads : (calls[t] # NoCall /\ calls[t].op = "Connect") => calls[t].checkedAt \in Time
    BY CallOfOp DEF TypeInv, TypeOK, ServiceTypeOK, CallsTyped, ConnectCall
  <1>6. QED
    BY <1>1, <1>2, <1>3, <1>4, <1>5 DEF TypeInv, TimesPassed, isPeerConnected

\* One step of Next keeps the types.
LEMMA NextTyped == TypeInv /\ [Next]_vars => TypeInv'
  <1> SUFFICES ASSUME TypeInv, [Next]_vars PROVE TypeInv'
    OBVIOUS
  <1>1. CASE Tick /\ UNCHANGED <<serverVars, clientVars>>
    <2>1. now \in Time /\ now' \in Time /\ now <= now'
      BY <1>1, ClockAssumption DEF TypeInv, TypeOK, Tick, Time
    <2>2. TypeOK' /\ WalkOwned'
      BY <1>1, <2>1 DEF TypeInv, TypeOK, WalkOwned, serverVars, clientVars, messageVars,
           privateVars, clientEventVars, statisticsVars, RegistryTypeOK, MessagesTypeOK,
           PrivateTypeOK, ClientEventsTypeOK, ValidationTypeOK, StatisticsTypeOK,
           DispatcherTypeOK, ServiceTypeOK, ClientTypeOK
    <2>3. TimesPassed'
      BY <1>1, <2>1, LaterStill
    <2>4. QED
      BY <2>2, <2>3 DEF TypeInv
  <1>2. ASSUME NEW t \in Threads, HandlerStep(t) PROVE TypeInv'
    BY <1>2, HandlerTyped
  <1>3. ASSUME NEW t \in Threads, DropAnswer(t) PROVE TypeInv'
    <2>1. ClientTypeOK'
      BY <1>3 DEF DropAnswer, TypeInv, TypeOK, ClientTypeOK, clientVars
    <2>2. QED
      BY <1>3, <2>1, ClientTyped DEF DropAnswer, Answered
  <1>4. CASE ObserverStep
    BY <1>4, ObserverTyped
  <1>5. ASSUME NEW p \in Peers, UserStep(p) \/ ReplyStep(p) PROVE TypeInv'
    BY <1>5, UserTyped, ReplyTyped
  <1>6. CASE UNCHANGED vars
    BY <1>6 DEF vars, serverVars, clientVars, messageVars, privateVars, clientEventVars,
         statisticsVars, TypeInv, TypeOK, WalkOwned, TimesPassed, isPeerConnected, RegistryTypeOK,
         MessagesTypeOK, PrivateTypeOK, ClientEventsTypeOK, ValidationTypeOK, StatisticsTypeOK,
         DispatcherTypeOK, ServiceTypeOK, ClientTypeOK
  <1>7. QED
    BY <1>1, <1>2, <1>3, <1>4, <1>5, <1>6 DEF Next

\* Every variable of the system keeps its type, and the dispatcher's mutex is
\* only ever held by a handler that is dispatching.
THEOREM TypeCorrect == Spec => []TypeOK
  <1>1. Spec => []TypeInv
    BY InitTyped, NextTyped, PTL DEF Spec
  <1>2. TypeInv => TypeOK
    BY DEF TypeInv
  <1>3. QED
    BY <1>1, <1>2, PTL

-----------------------------------------------------------------------------
(* Names held twice.  A Connect is pending between its check and its       *)
(* registration; RivalsCameLater says what may happen to its name then.    *)

Overlap == RivalsCameLater /\ DuplicatesOnlyFromOverlap

\* Every Connect that is pending after the step was pending before it, with
\* the same locals.
PendingKept ==
    \A t \in Threads :
       Pending(t)' => /\ Pending(t)
                      /\ calls'[t].peer = calls[t].peer
                      /\ calls'[t].pseudonym = calls[t].pseudonym
                      /\ calls'[t].checkedAt = calls[t].checkedAt

\* Every entry of the registry after the step was there before it.
EntriesKept ==
    \A p \in Peers : isPeerConnected(p)' => isPeerConnected(p) /\ clients'[p] = clients[p]

\* Such a step makes no new rival and no new duplicate.
LEMMA OverlapFrame ==
    ASSUME Overlap, PendingKept, EntriesKept, UNCHANGED admittedAt
    PROVE  Overlap'
  <1>1. RivalsCameLater'
    <2> SUFFICES ASSUME NEW t \in Threads, NEW q \in Peers, Pending(t)',
                        q # calls'[t].peer, isPeerConnected(q)',
                        clients'[q].pseudonym = calls'[t].pseudonym
                 PROVE  calls'[t].checkedAt <= clients'[q].initialTimePoint
      BY DEF RivalsCameLater
    <2> QED
      BY DEF Overlap, RivalsCameLater, PendingKept, EntriesKept
  <1>2. DuplicatesOnlyFromOverlap'
    <2> SUFFICES ASSUME NEW p \in Peers, NEW q \in Peers, p # q, isPeerConnected(p)',
                        isPeerConnected(q)', clients'[p].pseudonym = clients'[q].pseudonym
                 PROVE  admittedAt'[p] <= clients'[q].initialTimePoint
      BY DEF DuplicatesOnlyFromOverlap
    <2> QED
      BY DEF Overlap, DuplicatesOnlyFromOverlap, EntriesKept
  <1>3. QED
    BY <1>1, <1>2 DEF Overlap

\* A step of one thread that ends outside Connect's pending stretch.
LEMMA SettledKept ==
    ASSUME TypeInv, UNCHANGED <<clients, dispatch>>, NEW t \in Threads, NEW call,
           calls' = [calls EXCEPT ![t] = call],
           \/ call = NoCall
           \/ call.op # "Connect"
           \/ call.pc \in {"check", "accepted", "rejected"}
    PROVE  PendingKept /\ EntriesKept
  <1>1. ASSUME NEW u \in Threads, Pending(u)'
        PROVE  calls'[u] = calls[u]
    BY <1>1 DEF Pending, At, TypeInv, TypeOK, ServiceTypeOK
  <1>2. ASSUME NEW u \in Threads, Pending(u)'
        PROVE  Pending(u)
    BY <1>1, <1>2 DEF Pending, At
  <1>3. QED
    BY <1>1, <1>2 DEF PendingKept, EntriesKept, isPeerConnected

\* A handler other than Connect's that takes the dispatcher's mutex.
LEMMA NotifyKept ==
    ASSUME TypeInv, NEW t \in Threads, NEW op, op # "Connect", NEW event, Notify(t, op, event)
    PROVE  PendingKept /\ EntriesKept
  <1>1. calls'[t].op # "Connect"
    BY CallOfOp DEF Notify, At, Goto, Continue, TypeInv, TypeOK, ServiceTypeOK, CallsTyped,
       ConnectCall, DisconnectCall, SendMessageCall, Call
  <1>2. dispatch'.owner = t
    BY DEF Notify, Lock
  <1>3. ASSUME NEW u \in Threads, Pending(u)'
        PROVE  Pending(u) /\ calls'[u] = calls[u]
    <2>1. u # t
      BY <1>1, <1>3 DEF Pending, At
    <2>2. calls'[u] = calls[u]
      BY <2>1 DEF Notify, Goto, Continue, TypeInv, TypeOK, ServiceTypeOK
    <2>3. QED
      BY <1>2, <1>3, <2>1, <2>2 DEF Pending, At
  <1>4. QED
    BY <1>3 DEF PendingKept, EntriesKept, Notify, isPeerConnected

LEMMA HandlerOverlap ==
    ASSUME TypeInv, Overlap, NEW t \in Threads, HandlerStep(t)
    PROVE  Overlap'
  <1> DEFINE c == calls[t]
  <1>1. CallsTyped /\ calls \in [Threads -> Call \cup {NoCall}]
    BY DEF TypeInv, TypeOK, ServiceTypeOK, CallsTyped
  <1>2. CASE ConnectCheck(t)
    <2>1. CASE isPseudonymAvailable(c.peer, c.pseudonym)
      <3> DEFINE d == [c EXCEPT !.pc = "roster", !.checkedAt = now]
      <3>1. c \in ConnectCall
        BY <1>1, <1>2, CallOfOp DEF ConnectCheck, At
      <3>2. calls' = [calls EXCEPT ![t] = d] /\ UNCHANGED <<clients, dispatch, admittedAt>>
        BY <1>2, <2>1 DEF ConnectCheck, Continue, LocalStep
      <3>3. calls'[t] = d /\ d.peer = c.peer /\ d.pseudonym = c.pseudonym
        BY <1>1, <3>1, <3>2 DEF ConnectCall
      <3>4. ASSUME NEW u \in Threads, u # t, Pending(u)'
            PROVE  Pending(u) /\ calls'[u] = calls[u]
        BY <1>1, <3>2, <3>4 DEF Pending, At
      <3>5. ASSUME NEW q \in Peers, q # calls'[t].peer, isPeerConnected(q)'
            PROVE  clients'[q].pseudonym # calls'[t].pseudonym
        BY <2>1, <3>2, <3>3, <3>5 DEF isPseudonymAvailable, PeersNamed, isPeerConnected
      <3>6. RivalsCameLater'
        <4> SUFFICES ASSUME NEW u \in Threads, NEW q \in Peers, Pending(u)',
                            q # calls'[u].peer, isPeerConnected(q)',
                            clients'[q].pseudonym = calls'[u].pseudonym
                     PROVE  calls'[u].checkedAt <= clients'[q].initialTimePoint
          BY DEF RivalsCameLater
        <4>1. u # t
          BY <3>5
        <4>2. QED
          BY <3>2, <3>4, <4>1 DEF Overlap, RivalsCameLater, isPeerConnected
      <3>7. DuplicatesOnlyFromOverlap'
        BY <3>2 DEF Overlap, DuplicatesOnlyFromOverlap, isPeerConnected
      <3>8. QED
        BY <3>6, <3>7 DEF Overlap
    <2>2. CASE ~isPseudonymAvailable(c.peer, c.pseudonym)
      <3> DEFINE d == [c EXCEPT !.pc = "rejected"]
      <3>1. c \in ConnectCall
        BY <1>1, <1>2, CallOfOp DEF ConnectCheck, At
      <3>2. d.pc = "rejected"
        BY <3>1 DEF ConnectCall
      <3>3. calls' = [calls EXCEPT ![t] = d] /\ UNCHANGED <<clients, dispatch, admittedAt>>
        BY <1>2, <2>2 DEF ConnectCheck, Goto, Continue, LocalStep
      <3> HIDE DEF d
      <3>4. QED
        BY <3>2, <3>3, SettledKept, OverlapFrame
    <2>3. QED
      BY <2>1, <2>2
  <1>3. CASE ConnectRoster(t)
    <2>1. c \in ConnectCall /\ c.pc = "roster" /\ c.op = "Connect" /\ c # NoCall
      BY <1>1, <1>3, CallOfOp DEF ConnectRoster, At
    <2>2. /\ calls' = [calls EXCEPT ![t] = [c EXCEPT !.pc = "notify",
                                   !.connectedPseudonyms = getConnectedPseudonyms]]
          /\ UNCHANGED <<clients, dispatch, admittedAt>>
      BY <1>3 DEF ConnectRoster, Continue, LocalStep
    <2>3. ASSUME NEW u \in Threads, u # t, Pending(u)'
          PROVE  Pending(u) /\ calls'[u] = calls[u]
      BY <1>1, <2>2, <2>3 DEF Pending, At
    <2>4. /\ Pending(t) /\ calls'[t].peer = c.peer /\ calls'[t].pseudonym = c.pseudonym
          /\ calls'[t].checkedAt = c.checkedAt
      BY <1>1, <2>1, <2>2 DEF Pending, At, ConnectCall
    <2>5. PendingKept /\ EntriesKept
      BY <2>2, <2>3, <2>4 DEF PendingKept, EntriesKept, isPeerConnected
    <2>6. QED
      BY <2>2, <2>5, OverlapFrame
  <1>4. CASE ConnectNotify(t)
    <2>1. c \in ConnectCall /\ c.pc = "notify" /\ c.op = "Connect" /\ c # NoCall
      BY <1>1, <1>4, CallOfOp DEF ConnectNotify, Notify, At
    <2>2. /\ calls' = [calls EXCEPT ![t] = [c EXCEPT !.pc = "dispatching"]]
          /\ dispatch'.owner = t
          /\ UNCHANGED <<clients, admittedAt>>
      BY <1>4 DEF ConnectNotify, Notify, Lock, Goto, Continue
    <2>3. ASSUME NEW u \in Threads, u # t, Pending(u)'
          PROVE  Pending(u) /\ calls'[u] = calls[u]
      BY <1>1, <2>2, <2>3 DEF Pending, At
    <2>4. /\ Pending(t) /\ calls'[t].peer = c.peer /\ calls'[t].pseudonym = c.pseudonym
          /\ calls'[t].checkedAt = c.checkedAt
      BY <1>1, <2>1, <2>2 DEF Pending, At, ConnectCall
    <2>5. PendingKept /\ EntriesKept
      BY <2>2, <2>3, <2>4 DEF PendingKept, EntriesKept, isPeerConnected
    <2>6. QED
      BY <2>2, <2>5, OverlapFrame
  <1>5. CASE DisconnectDuration(t)
    <2>1. c \in DisconnectCall
      BY <1>1, <1>5, CallOfOp DEF DisconnectDuration, At
    <2>2. PICK d : calls' = [calls EXCEPT ![t] = d] /\ d.op = "Disconnect"
      BY <1>5, <2>1 DEF DisconnectDuration, Goto, Continue, DisconnectCall
    <2>3. UNCHANGED <<clients, dispatch, admittedAt>>
      BY <1>5 DEF DisconnectDuration, LocalStep
    <2>4. QED
      BY <2>2, <2>3, SettledKept, OverlapFrame
  <1>6. CASE DisconnectNotify(t)
    BY <1>6, NotifyKept, OverlapFrame DEF DisconnectNotify, Notify
  <1>7. CASE SendLookup(t)
    <2>1. c \in SendMessageCall
      BY <1>1, <1>7, CallOfOp DEF SendLookup, At
    <2>2. PICK d : calls' = [calls EXCEPT ![t] = d] /\ d.op = "SendMessage"
      BY <1>7, <2>1 DEF SendLookup, Goto, Continue, SendMessageCall
    <2>3. UNCHANGED <<clients, dispatch, admittedAt>>
      BY <1>7 DEF SendLookup, LocalStep
    <2>4. QED
      BY <2>2, <2>3, SettledKept, OverlapFrame
  <1>8. CASE SendValidate(t)
    <2>1. c \in SendMessageCall
      BY <1>1, <1>8, CallOfOp DEF SendValidate, At
    <2>2. PICK d : calls' = [calls EXCEPT ![t] = d] /\ d.op = "SendMessage"
      BY <1>8, <2>1 DEF SendValidate, Goto, Continue, SendMessageCall
    <2>3. UNCHANGED <<clients, dispatch, admittedAt>>
      BY <1>8 DEF SendValidate
    <2>4. QED
      BY <2>2, <2>3, SettledKept, OverlapFrame
  <1>9. CASE SendRecipient(t)
    <2>1. c \in SendMessageCall
      BY <1>1, <1>9, CallOfOp DEF SendRecipient, At
    <2>2. PICK d : calls' = [calls EXCEPT ![t] = d] /\ d.op = "SendMessage"
      BY <1>9, <2>1 DEF SendRecipient, Goto, Continue, SendMessageCall
    <2>3. UNCHANGED <<clients, dispatch, admittedAt>>
      BY <1>9 DEF SendRecipient, LocalStep
    <2>4. QED
      BY <2>2, <2>3, SettledKept, OverlapFrame
  <1>10. CASE SendNotify(t)
    BY <1>10, NotifyKept, OverlapFrame DEF SendNotify, Notify
  <1>11. QED
    BY <1>2, <1>3, <1>4, <1>5, <1>6, <1>7, <1>8, <1>9, <1>10 DEF HandlerStep

\* After an observer's callback no Connect is new to its pending stretch.
LEMMA ReturnsKept ==
    ASSUME TypeInv, dispatch # Unlocked, ObserverReturns
    PROVE  /\ PendingKept
           /\ \A t \in Threads : Pending(t)' => calls'[t] = calls[t] /\ t # dispatch.owner
  <1>1. /\ dispatch \in Dispatch /\ calls \in [Threads -> Call \cup {NoCall}]
        /\ calls[dispatch.owner] # NoCall /\ calls[dispatch.owner].pc = "dispatching"
    BY DEF TypeInv, TypeOK, ServiceTypeOK, DispatcherTypeOK, WalkOwned
  <1>2. dispatch' # Unlocked => dispatch'.next # 1
    <2>1. dispatch.next \in 1..4
      BY <1>1 DEF Dispatch
    <2>2. dispatch.next + 1 # 1
      BY <2>1
    <2>3. dispatch' = Unlocked \/ dispatch' = [dispatch EXCEPT !.next = @ + 1]
      BY DEF ObserverReturns, NextObserver
    <2>4. QED
      BY <1>1, <2>2, <2>3 DEF Dispatch
  <1>3. ASSUME NEW t \in Threads, t # dispatch.owner
        PROVE  calls'[t] = calls[t]
    BY <1>1, <1>3 DEF ObserverReturns, Goto, Continue
  <1>4. ASSUME NEW t \in Threads, t = dispatch.owner
        PROVE  ~Pending(t)'
    <2>1. calls[dispatch.owner] \in Call /\ dispatch.owner \in Threads
      BY <1>1 DEF Dispatch
    <2>2. calls'[t].pc \in {"dispatching", "accepted", "ok"}
      BY <1>1, <1>4, <2>1 DEF ObserverReturns, Goto, Continue, Answer, Call, ConnectCall,
                        DisconnectCall, SendMessageCall
    <2>3. QED
      BY <1>2, <2>2 DEF Pending, At
  <1>5. ASSUME NEW t \in Threads, Pending(t)'
        PROVE  Pending(t) /\ calls'[t] = calls[t] /\ t # dispatch.owner
    BY <1>2, <1>3, <1>4, <1>5 DEF Pending, At
  <1>6. QED
    BY <1>5 DEF PendingKept

LEMMA ObserverOverlap ==
    ASSUME TypeInv, Overlap, ObserverStep
    PROVE  Overlap'
  <1> DEFINE e == dispatch.event
             o == dispatch.owner
  <1>1. /\ clients \in [Peers -> ClientInfo \cup {NoClient}]
        /\ admittedAt \in [Peers -> Time]
    BY DEF TypeInv, TypeOK, RegistryTypeOK, ServiceTypeOK
  <1>2. dispatch # Unlocked /\ ObserverReturns
    BY DEF ObserverStep, RegistryConnected, RegistryDisconnected, DatabaseLogs, EventsLog,
           MessagesStore, PrivateQueues, Notifies
  <1>3. PendingKept
    BY <1>2, ReturnsKept
  <1>4. CASE RegistryConnected
    <2> DEFINE entry == [pseudonym |-> e.pseudonym, initialTimePoint |-> now]
    <2>1. e \in ClientConnectedEvent /\ o \in Threads
      BY <1>4, NotifiedEvent DEF RegistryConnected, TypeInv, TypeOK, DispatcherTypeOK, Dispatch
    <2>2. e.peer \in Peers /\ e.pseudonym \in Pseudonyms
      BY <2>1 DEF ClientConnectedEvent
    <2>3. /\ clients' = [clients EXCEPT ![e.peer] = entry]
          /\ admittedAt' = [admittedAt EXCEPT ![e.peer] = calls[o].checkedAt]
          /\ now' = now
      BY <1>4 DEF RegistryConnected, RegistryOnClientConnected
    <2>4. /\ Pending(o) /\ calls[o].peer = e.peer /\ calls[o].pseudonym = e.pseudonym
          /\ calls[o].checkedAt <= now
      <3>1. dispatch \in Dispatch /\ e.kind = "ClientConnected"
        BY <1>2, <1>4 DEF RegistryConnected, Notifies, TypeInv, TypeOK, DispatcherTypeOK
      <3>2. dispatch.next = 1
        <4>1. dispatch.next \in 1..4 /\ dispatch.next <= 3
          BY <1>2, <3>1 DEF Dispatch, TypeInv, WalkOwned, Observers
        <4>2. Observers["ClientConnected"][dispatch.next] = "registry"
          BY <1>4 DEF RegistryConnected, Notifies
        <4>3. dispatch.next = 1 \/ dispatch.next = 2 \/ dispatch.next = 3
          BY <4>1
        <4>4. QED
          BY <4>2, <4>3 DEF Observers
      <3>3. /\ calls[o] # NoCall /\ calls[o].op = "Connect" /\ calls[o].pc = "dispatching"
            /\ calls[o].peer = e.peer /\ calls[o].pseudonym = e.pseudonym
        BY <1>2, <3>1 DEF TypeInv, WalkOwned
      <3>4. QED
        BY <1>2, <2>1, <3>2, <3>3 DEF Pending, At, TypeInv, TimesPassed
    <2>5. entry # NoClient /\ clients'[e.peer] = entry
      BY <1>1, <2>2, <2>3, NoClientAssumption DEF ClientInfo, TypeInv, TypeOK
    <2>6. ASSUME NEW q \in Peers, q # e.peer
          PROVE  clients'[q] = clients[q] /\ admittedAt'[q] = admittedAt[q]
      BY <1>1, <2>3, <2>6
    <2>7. RivalsCameLater'
      <3> SUFFICES ASSUME NEW t \in Threads, NEW q \in Peers, Pending(t)',
                          q # calls'[t].peer, isPeerConnected(q)',
                          clients'[q].pseudonym = calls'[t].pseudonym
                   PROVE  calls'[t].checkedAt <= clients'[q].initialTimePoint
        BY DEF RivalsCameLater
      <3>1. CASE q = e.peer
        <4>1. calls'[t] = calls[t]
          BY <1>2, ReturnsKept
        <4>2. calls[t].checkedAt <= now
          BY <1>3 DEF PendingKept, Pending, At, TypeInv, TimesPassed
        <4>3. QED
          BY <2>5, <3>1, <4>1, <4>2
      <3>2. CASE q # e.peer
        BY <1>3, <2>6, <3>2 DEF PendingKept, Overlap, RivalsCameLater, isPeerConnected
      <3>3. QED
        BY <3>1, <3>2
    <2>8. DuplicatesOnlyFromOverlap'
      <3> SUFFICES ASSUME NEW p \in Peers, NEW q \in Peers, p # q, isPeerConnected(p)',
                          isPeerConnected(q)', clients'[p].pseudonym = clients'[q].pseudonym
                   PROVE  admittedAt'[p] <= clients'[q].initialTimePoint
        BY DEF DuplicatesOnlyFromOverlap
      <3>1. CASE p = e.peer
        <4>1. admittedAt'[p] = calls[o].checkedAt /\ clients'[q] = clients[q]
          BY <1>1, <2>3, <2>6, <3>1
        <4>2. QED
          BY <2>1, <2>4, <2>5, <3>1, <4>1 DEF Overlap, RivalsCameLater, isPeerConnected
      <3>2. CASE q = e.peer
        BY <2>5, <2>6, <3>2 DEF TypeInv, TimesPassed
      <3>3. CASE p # e.peer /\ q # e.peer
        BY <2>6, <3>3 DEF Overlap, DuplicatesOnlyFromOverlap, isPeerConnected
      <3>4. QED
        BY <3>1, <3>2, <3>3
    <2>9. QED
      BY <2>7, <2>8 DEF Overlap
  <1>5. CASE RegistryDisconnected
    <2>1. EntriesKept
      <3>1. \/ clients' = clients
            \/ \E p \in PeersNamed(e.pseudonym) : clients' = [clients EXCEPT ![p] = NoClient]
        BY <1>5 DEF RegistryDisconnected, RegistryOnClientDisconnected
      <3>2. QED
        BY <1>1, <3>1 DEF EntriesKept, isPeerConnected, PeersNamed
    <2>2. QED
      BY <1>3, <1>5, <2>1, OverlapFrame DEF RegistryDisconnected
  <1>6. CASE UNCHANGED <<clients, admittedAt>>
    BY <1>3, <1>6, OverlapFrame DEF EntriesKept, isPeerConnected
  <1>7. QED
    BY <1>4, <1>5, <1>6 DEF ObserverStep, DatabaseLogs, EventsLog, MessagesStore, PrivateQueues

LEMMA InvokeOverlap ==
    ASSUME TypeInv, Overlap, LocalStep, NEW p \in Peers, NEW call,
           call.op # "Connect" \/ call.pc = "check", Invoke(p, call)
    PROVE  Overlap'
  <1>1. PICK t \in Threads : calls' = [calls EXCEPT ![t] = call]
    BY DEF Invoke
  <1>2. QED
    BY <1>1, SettledKept, OverlapFrame DEF LocalStep

LEMMA ReturnOverlap ==
    ASSUME TypeInv, Overlap, LocalStep, NEW t \in Threads,
           calls' = [calls EXCEPT ![t] = NoCall]
    PROVE  Overlap'
  BY SettledKept, OverlapFrame DEF LocalStep

LEMMA QuietOverlap ==
    ASSUME Overlap, UNCHANGED <<clients, calls, dispatch, admittedAt>>
    PROVE  Overlap'
  BY OverlapFrame DEF PendingKept, EntriesKept, Pending, At, isPeerConnected

LEMMA ClientOverlap ==
    ASSUME TypeInv, Overlap, NEW p \in Peers, UserStep(p) \/ ReplyStep(p)
    PROVE  Overlap'
  <1>1. ASSUME NEW n \in NamesOf[p], Login(p, n)
        PROVE  Overlap'
    BY <1>1, InvokeOverlap DEF Login, NewConnect
  <1>2. ASSUME NEW next, PrepareClose(p, next)
        PROVE  Overlap'
    BY <1>2, InvokeOverlap DEF PrepareClose, NewDisconnect
  <1>3. ASSUME NEW recipient, NEW content, SendMessage(p, recipient, content)
        PROVE  Overlap'
    BY <1>3, InvokeOverlap DEF SendMessage, NewSendMessage
  <1>4. CASE ConnectTimesOut(p) \/ CloseUnused(p) \/ Crash(p)
    BY <1>4, QuietOverlap DEF ConnectTimesOut, CloseUnused, Crash, LocalStep
  <1>5. CASE ReplyStep(p)
    <2>1. awaiting[p] \in Threads /\ Return(p) /\ LocalStep
      BY <1>5 DEF ReplyStep, LoginSucceeded, LoginRejected, Disconnected, MessageSent, Returned,
                  TypeInv, TypeOK, ClientTypeOK
    <2>2. QED
      BY <2>1, ReturnOverlap DEF Return
  <1>6. QED
    BY <1>1, <1>2, <1>3, <1>4, <1>5 DEF UserStep, Disconnect, CloseWindow

LEMMA NextOverlap == TypeInv /\ Overlap /\ [Next]_vars => Overlap'
  <1> SUFFICES ASSUME TypeInv, Overlap, [Next]_vars PROVE Overlap'
    OBVIOUS
  <1>1. ASSUME NEW t \in Threads, HandlerStep(t) PROVE Overlap'
    BY <1>1, HandlerOverlap
  <1>2. ASSUME NEW t \in Threads, DropAnswer(t) PROVE Overlap'
    BY <1>2, ReturnOverlap DEF DropAnswer
  <1>3. ASSUME NEW p \in Peers, UserStep(p) \/ ReplyStep(p) PROVE Overlap'
    BY <1>3, ClientOverlap
  <1>4. CASE UNCHANGED <<serverVars>>
    BY <1>4, QuietOverlap DEF serverVars
  <1>5. QED
    BY <1>1, <1>2, <1>3, <1>4, ObserverOverlap DEF Next, vars

\* Two peers are connected under one name only if each found it free before
\* the other was registered: Connect never admits a name it has seen taken.
THEOREM OverlapSafe == Spec => []DuplicatesOnlyFromOverlap
  <1>1. Init => TypeInv /\ Overlap
    BY InitTyped DEF Init, ServiceInit, RegistryInit, Overlap, RivalsCameLater,
                     DuplicatesOnlyFromOverlap, isPeerConnected
  <1>2. TypeInv /\ Overlap /\ [Next]_vars => (TypeInv /\ Overlap)'
    BY NextTyped, NextOverlap
  <1>3. Overlap => DuplicatesOnlyFromOverlap
    BY DEF Overlap
  <1>4. QED
    BY <1>1, <1>2, <1>3, PTL DEF Spec

-----------------------------------------------------------------------------
(* The dispatcher's walk and the calls of the handlers.                    *)

\* The event is the one that this call raises.
RaisedBy(event, call) ==
    /\ event.kind = "ClientDisconnected" =>
         call.op = "Disconnect" /\ call.peer = event.peer /\ call.pseudonym = event.pseudonym
    /\ event.kind = "MessageSent" =>
         /\ call.op = "SendMessage" /\ call.recipient = Everyone
         /\ call.peer = event.peer /\ call.content = event.content
         /\ call.timestamp = event.sentAt
    /\ event.kind = "PrivateMessageSent" =>
         call.op = "SendMessage" /\ call.recipient # Everyone

\* The mutex is held by the one handler that is dispatching, for its event.
WalkInv ==
    /\ \A t \in Threads :
          calls[t] # NoCall /\ calls[t].pc = "dispatching" =>
             dispatch # Unlocked /\ dispatch.owner = t
    /\ dispatch # Unlocked => RaisedBy(dispatch.event, calls[dispatch.owner])

\* d is the call c at another place of its handler.
SameCall(c, d) ==
    /\ d # NoCall
    /\ d.op = c.op /\ d.peer = c.peer
    /\ c.op # "SendMessage" => d.pseudonym = c.pseudonym

\* What a handler's step does outside the walk.
Shape(t) ==
    /\ calls[t] # NoCall
    /\ calls[t].pc \notin {"dispatching", "accepted", "ok"}
    /\ \A u \in Threads : u # t => calls'[u] = calls[u]
    /\ SameCall(calls[t], calls'[t])
    /\ UNCHANGED <<clients, clientEvents, clientVars>>
    /\ \/ /\ dispatch' = dispatch
          /\ calls'[t].pc \notin {"dispatching", "accepted"}
          /\ calls'[t].pc = "ok" => calls[t].op = "Disconnect" /\ ~isPeerConnected(calls[t].peer)
       \/ /\ dispatch = Unlocked /\ dispatch' # Unlocked
          /\ dispatch'.owner = t /\ dispatch'.next = 1
          /\ calls'[t].pc = "dispatching"
          /\ RaisedBy(dispatch'.event, calls'[t])

\* A step that changes the handler's locals, and no other server state that
\* matters here.
LEMMA LocalShape ==
    ASSUME TypeInv, NEW t \in Threads, calls[t] # NoCall,
           calls[t].pc \notin {"dispatching", "accepted", "ok"},
           NEW d, SameCall(calls[t], d), calls' = [calls EXCEPT ![t] = d],
           d.pc \notin {"dispatching", "accepted"},
           d.pc = "ok" => calls[t].op = "Disconnect" /\ ~isPeerConnected(calls[t].peer),
           UNCHANGED <<clients, clientEvents, clientVars, dispatch>>
    PROVE  Shape(t)
  <1>1. calls'[t] = d /\ \A u \in Threads : u # t => calls'[u] = calls[u]
    BY DEF TypeInv, TypeOK, ServiceTypeOK
  <1>2. QED
    BY <1>1 DEF Shape

LEMMA RaiseShape ==
    ASSUME TypeInv, NEW t \in Threads, calls[t] # NoCall, calls[t].pc = "notify",
           NEW d, SameCall(calls[t], d), calls' = [calls EXCEPT ![t] = d], d.pc = "dispatching",
           NEW event \in Event, Lock(t, event), RaisedBy(event, d),
           UNCHANGED <<clients, clientEvents, clientVars>>
    PROVE  Shape(t)
  <1>1. calls'[t] = d /\ \A u \in Threads : u # t => calls'[u] = calls[u]
    BY DEF TypeInv, TypeOK, ServiceTypeOK
  <1>2. /\ dispatch = Unlocked /\ dispatch'.owner = t /\ dispatch'.next = 1
        /\ dispatch'.event = event /\ dispatch' \in Dispatch
    BY DEF Lock, Dispatch
  <1>3. dispatch' # Unlocked
    BY <1>2, UnlockedAssumption
  <1>4. QED
    BY <1>1, <1>2, <1>3 DEF Shape

LEMMA HandlerShape ==
    ASSUME TypeInv, NEW t \in Threads, HandlerStep(t)
    PROVE  Shape(t)
  <1> DEFINE c == calls[t]
             d == [c EXCEPT !.pc = "dispatching"]
  <1>1. CallsTyped
    BY DEF TypeInv, TypeOK, ServiceTypeOK, CallsTyped
  <1>2. UNCHANGED clientVars
    BY DEF HandlerStep, ServerOnly
  <1>3. CASE ConnectCheck(t)
    <2> DEFINE e == [c EXCEPT !.pc = "roster", !.checkedAt = now]
               f == [c EXCEPT !.pc = "rejected"]
    <2>1. c \in ConnectCall /\ c # NoCall /\ c.pc = "check"
      BY <1>1, <1>3, CallOfOp DEF ConnectCheck, At
    <2>2. now \in Time
      BY DEF TypeInv, TypeOK
    <2>3. /\ e \in ConnectCall /\ f \in ConnectCall /\ e.pc = "roster" /\ f.pc = "rejected"
          /\ e.op = c.op /\ e.peer = c.peer /\ e.pseudonym = c.pseudonym
          /\ f.op = c.op /\ f.peer = c.peer /\ f.pseudonym = c.pseudonym
      BY <2>1, <2>2 DEF ConnectCall
    <2>4. SameCall(c, e) /\ SameCall(c, f)
      BY <2>3, NoCallAssumption DEF SameCall, Call
    <2>5. calls' = [calls EXCEPT ![t] = e] \/ calls' = [calls EXCEPT ![t] = f]
      BY <1>3 DEF ConnectCheck, Continue, Goto
    <2>6. UNCHANGED <<clients, clientEvents, dispatch>>
      BY <1>3 DEF ConnectCheck, LocalStep, clientEventVars
    <2> HIDE DEF c, e, f
    <2>7. QED
      BY <1>2, <2>1, <2>3, <2>4, <2>5, <2>6, LocalShape DEF c
  <1>4. CASE ConnectRoster(t)
    <2> DEFINE e == [c EXCEPT !.pc = "notify", !.connectedPseudonyms = getConnectedPseudonyms]
    <2>1. c \in ConnectCall /\ c # NoCall /\ c.pc = "roster"
      BY <1>1, <1>4, CallOfOp DEF ConnectRoster, At
    <2>2. getConnectedPseudonyms \in SUBSET Pseudonyms
      BY NoClientAssumption DEF getConnectedPseudonyms, isPeerConnected, ClientInfo, TypeInv, TypeOK,
                                RegistryTypeOK
    <2>3. /\ e \in ConnectCall /\ e.pc = "notify"
          /\ e.op = c.op /\ e.peer = c.peer /\ e.pseudonym = c.pseudonym
      BY <2>1, <2>2 DEF ConnectCall
    <2>4. SameCall(c, e)
      BY <2>3, NoCallAssumption DEF SameCall, Call
    <2>5. calls' = [calls EXCEPT ![t] = e] /\ UNCHANGED <<clients, clientEvents, dispatch>>
      BY <1>4 DEF ConnectRoster, Continue, LocalStep, clientEventVars
    <2> HIDE DEF c, e
    <2>6. QED
      BY <1>2, <2>1, <2>3, <2>4, <2>5, LocalShape DEF c
  <1>5. CASE ConnectNotify(t)
    <2> DEFINE e == [kind |-> "ClientConnected", peer |-> c.peer, pseudonym |-> c.pseudonym]
    <2>1. c \in ConnectCall /\ c # NoCall /\ c.pc = "notify"
      BY <1>1, <1>5, CallOfOp DEF ConnectNotify, Notify, At
    <2>2. e \in Event /\ e.kind = "ClientConnected"
      BY <2>1 DEF ConnectCall, Event, ClientConnectedEvent
    <2>3. /\ d \in ConnectCall /\ d.pc = "dispatching"
          /\ d.op = c.op /\ d.peer = c.peer /\ d.pseudonym = c.pseudonym
      BY <2>1 DEF ConnectCall
    <2>4. SameCall(c, d) /\ RaisedBy(e, d)
      BY <2>2, <2>3, NoCallAssumption DEF SameCall, Call, RaisedBy
    <2>5. Lock(t, e) /\ calls' = [calls EXCEPT ![t] = d] /\ UNCHANGED <<clients, clientEvents>>
      BY <1>5 DEF ConnectNotify, Notify, Goto, Continue, clientEventVars
    <2> HIDE DEF c, d, e
    <2>6. QED
      BY <1>2, <2>1, <2>2, <2>3, <2>4, <2>5, RaiseShape DEF c
  <1>6. CASE DisconnectDuration(t)
    <2> DEFINE e == [c EXCEPT !.pc = "notify",
                              !.connectionDuration = getConnectionDuration(c.peer)]
               f == [c EXCEPT !.pc = "ok"]
    <2>1. c \in DisconnectCall /\ c # NoCall /\ c.pc = "duration" /\ c.op = "Disconnect"
      BY <1>1, <1>6, CallOfOp DEF DisconnectDuration, At
    <2>2. isPeerConnected(c.peer) => getConnectionDuration(c.peer) \in Time
      <3>1. ASSUME isPeerConnected(c.peer)
            PROVE  clients[c.peer] \in ClientInfo /\ clients[c.peer].initialTimePoint <= now
        BY <2>1, <3>1 DEF DisconnectCall, isPeerConnected, TypeInv, TypeOK, RegistryTypeOK, TimesPassed
      <3>2. now \in Time
        BY DEF TypeInv, TypeOK
      <3>3. QED
        BY <3>1, <3>2, ClockAssumption DEF getConnectionDuration, Time, ClientInfo
    <2>3. /\ f \in Call /\ f.pc = "ok" /\ f.op = c.op /\ f.peer = c.peer /\ f.pseudonym = c.pseudonym
          /\ isPeerConnected(c.peer) => e \in Call
          /\ e.pc = "notify" /\ e.op = c.op /\ e.peer = c.peer /\ e.pseudonym = c.pseudonym
      BY <2>1, <2>2 DEF DisconnectCall, Call
    <2>4. \/ calls' = [calls EXCEPT ![t] = e] /\ isPeerConnected(c.peer)
          \/ calls' = [calls EXCEPT ![t] = f] /\ ~isPeerConnected(c.peer)
      BY <1>6 DEF DisconnectDuration, Continue, Goto
    <2>5. UNCHANGED <<clients, clientEvents, dispatch>>
      BY <1>6 DEF DisconnectDuration, LocalStep, clientEventVars
    <2> HIDE DEF c, e, f
    <2>6. PICK g \in Call : /\ calls' = [calls EXCEPT ![t] = g]
                            /\ g.op = c.op /\ g.peer = c.peer /\ g.pseudonym = c.pseudonym
                            /\ g.pc = "notify" \/ (g.pc = "ok" /\ ~isPeerConnected(c.peer))
      BY <2>3, <2>4
    <2>7. SameCall(c, g)
      BY <2>6, NoCallAssumption DEF SameCall
    <2>8. QED
      BY <1>2, <2>1, <2>5, <2>6, <2>7, LocalShape DEF c
  <1>7. CASE DisconnectNotify(t)
    <2> DEFINE e == [kind |-> "ClientDisconnected", peer |-> c.peer, pseudonym |-> c.pseudonym,
                     connectionDuration |-> c.connectionDuration]
    <2>1. c \in DisconnectCall /\ c # NoCall /\ c.pc = "notify"
      BY <1>1, <1>7, CallOfOp DEF DisconnectNotify, Notify, At
    <2>2. e \in Event /\ e.kind = "ClientDisconnected" /\ e.peer = c.peer /\ e.pseudonym = c.pseudonym
      BY <2>1 DEF DisconnectCall, Event, ClientDisconnectedEvent
    <2>3. /\ d \in DisconnectCall /\ d.pc = "dispatching" /\ d.op = "Disconnect"
          /\ d.op = c.op /\ d.peer = c.peer /\ d.pseudonym = c.pseudonym
      BY <2>1 DEF DisconnectCall
    <2>4. SameCall(c, d) /\ RaisedBy(e, d)
      BY <2>2, <2>3, NoCallAssumption DEF SameCall, Call, RaisedBy
    <2>5. Lock(t, e) /\ calls' = [calls EXCEPT ![t] = d] /\ UNCHANGED <<clients, clientEvents>>
      BY <1>7 DEF DisconnectNotify, Notify, Goto, Continue, clientEventVars
    <2> HIDE DEF c, d, e
    <2>6. QED
      BY <1>2, <2>1, <2>2, <2>3, <2>4, <2>5, RaiseShape DEF c
  <1>8. CASE SendLookup(t) \/ SendValidate(t) \/ SendRecipient(t)
    <2>1. c \in SendMessageCall /\ c # NoCall /\ c.pc \in {"lookup", "validate", "recipient"}
      BY <1>1, <1>8, CallOfOp DEF SendLookup, SendValidate, SendRecipient, At
    <2>2. PICK g \in SendMessageCall : /\ calls' = [calls EXCEPT ![t] = g]
                                       /\ g.peer = c.peer
                                       /\ g.pc \in {"validate", "recipient", "notify", "refused"}
      <3> DEFINE f == [c EXCEPT !.pc = "refused"]
      <3>1. f \in SendMessageCall /\ f.peer = c.peer /\ f.pc = "refused"
        BY <2>1 DEF SendMessageCall
      <3>2. CASE SendLookup(t)
        <4> DEFINE e == [c EXCEPT !.pc = "validate", !.pseudonym = getPseudonymForPeer(c.peer)]
        <4>1. isPeerConnected(c.peer) => getPseudonymForPeer(c.peer) \in Pseudonyms
          BY <2>1 DEF SendMessageCall, getPseudonymForPeer, isPeerConnected, ClientInfo, TypeInv,
                      TypeOK, RegistryTypeOK
        <4>2. isPeerConnected(c.peer) => e \in SendMessageCall /\ e.peer = c.peer /\ e.pc = "validate"
          BY <2>1, <4>1 DEF SendMessageCall
        <4>3. \/ calls' = [calls EXCEPT ![t] = e] /\ isPeerConnected(c.peer)
              \/ calls' = [calls EXCEPT ![t] = f]
          BY <3>2 DEF SendLookup, Continue, Goto
        <4> HIDE DEF c, e, f
        <4>4. QED
          BY <3>1, <4>2, <4>3
      <3>3. CASE SendValidate(t)
        <4> DEFINE e(pc) == [c EXCEPT !.pc = pc, !.timestamp = now]
        <4>1. \A pc \in {"notify", "recipient"} :
                e(pc) \in SendMessageCall /\ e(pc).peer = c.peer /\ e(pc).pc = pc
          BY <2>1 DEF SendMessageCall, TypeInv, TypeOK
        <4>2. \/ calls' = [calls EXCEPT ![t] = e("notify")]
              \/ calls' = [calls EXCEPT ![t] = e("recipient")]
              \/ calls' = [calls EXCEPT ![t] = f]
          BY <3>3 DEF SendValidate, Continue, Goto
        <4> HIDE DEF c, e, f
        <4>3. QED
          BY <3>1, <4>1, <4>2
      <3>4. CASE SendRecipient(t)
        <4> DEFINE e(q) == [c EXCEPT !.pc = "notify", !.recipientPeer = q]
        <4>1. \A q \in Peers : e(q) \in SendMessageCall /\ e(q).peer = c.peer /\ e(q).pc = "notify"
          BY <2>1 DEF SendMessageCall
        <4>2. \/ calls' = [calls EXCEPT ![t] = f]
              \/ \E q \in Peers : calls' = [calls EXCEPT ![t] = e(q)]
          BY <3>4 DEF SendRecipient, Continue, Goto, getPeerForPseudonym, PeersNamed
        <4> HIDE DEF c, e, f
        <4>3. QED
          BY <3>1, <4>1, <4>2
      <3>5. QED
        BY <1>8, <3>2, <3>3, <3>4
    <2>3. SameCall(c, g) /\ c.op = "SendMessage"
      BY <2>1, <2>2, NoCallAssumption DEF SameCall, SendMessageCall, Call
    <2>4. UNCHANGED <<clients, clientEvents, dispatch>>
      BY <1>8 DEF SendLookup, SendValidate, SendRecipient, LocalStep, clientEventVars
    <2> HIDE DEF c
    <2>5. QED
      BY <1>2, <2>1, <2>2, <2>3, <2>4, LocalShape DEF c
  <1>9. CASE SendNotify(t)
    <2> DEFINE e == SentEvent(c)
    <2>1. c \in SendMessageCall /\ c # NoCall /\ c.pc = "notify"
      BY <1>1, <1>9, CallOfOp DEF SendNotify, Notify, At
    <2>2. e \in Event
      BY <2>1, LengthsAssumption DEF SendMessageCall, Event, MessageSentEvent,
                                     PrivateMessageSentEvent, SentEvent
    <2>3. /\ d \in SendMessageCall /\ d.pc = "dispatching" /\ d.op = "SendMessage"
          /\ d.op = c.op /\ d.peer = c.peer /\ d.recipient = c.recipient
          /\ d.content = c.content /\ d.timestamp = c.timestamp
      BY <2>1 DEF SendMessageCall
    <2>4. SameCall(c, d)
      BY <2>3, NoCallAssumption DEF SameCall, Call
    <2>5. RaisedBy(e, d)
      BY <2>3 DEF RaisedBy, SentEvent
    <2>6. Lock(t, e) /\ calls' = [calls EXCEPT ![t] = d] /\ UNCHANGED <<clients, clientEvents>>
      BY <1>9 DEF SendNotify, Notify, Goto, Continue, clientEventVars
    <2> HIDE DEF c, d, e
    <2>7. QED
      BY <1>2, <2>1, <2>2, <2>3, <2>4, <2>5, <2>6, RaiseShape DEF c
  <1>10. QED
    BY <1>3, <1>4, <1>5, <1>6, <1>7, <1>8, <1>9 DEF HandlerStep

LEMMA NextWithin ==
    ASSUME NEW length \in 1..4, NEW n \in 1..length, n # length
    PROVE  n + 1 \in 1..4
  OBVIOUS

\* What the end of an observer's callback does.
Returns ==
    LET o == dispatch.owner IN
    /\ o \in Threads /\ calls[o] # NoCall /\ calls[o].pc = "dispatching"
    /\ \A u \in Threads : u # o => calls'[u] = calls[u]
    /\ \/ /\ calls' = calls
          /\ dispatch' # Unlocked
          /\ dispatch'.owner = o /\ dispatch'.event = dispatch.event
          /\ dispatch'.next = dispatch.next + 1
       \/ /\ dispatch' = Unlocked
          /\ LastObserver
          /\ calls'[o] # NoCall
          /\ SameCall(calls[o], calls'[o])
          /\ calls'[o].pc = Answer(calls[o].op)

LEMMA ReturnsShape ==
    ASSUME TypeInv, dispatch # Unlocked, ObserverReturns
    PROVE  Returns
  <1> DEFINE o == dispatch.owner
             c == calls[o]
             d == [c EXCEPT !.pc = Answer(c.op)]
  <1>1. /\ dispatch \in Dispatch /\ o \in Threads /\ CallsTyped
        /\ c # NoCall /\ c \in Call /\ c.pc = "dispatching"
    BY DEF TypeInv, TypeOK, DispatcherTypeOK, Dispatch, WalkOwned, ServiceTypeOK, CallsTyped
  <1>2. CASE LastObserver
    <2>1. dispatch' = Unlocked /\ calls' = [calls EXCEPT ![o] = d]
      BY <1>2 DEF ObserverReturns, NextObserver, Goto, Continue
    <2>2. d \in Call /\ d.pc = Answer(c.op) /\ d.op = c.op /\ d.peer = c.peer
      BY <1>1 DEF Call, ConnectCall, DisconnectCall, SendMessageCall, Answer
    <2>3. c.op # "SendMessage" => d.pseudonym = c.pseudonym
      BY <1>1 DEF Call, ConnectCall, DisconnectCall, SendMessageCall
    <2> HIDE DEF d
    <2>4. calls'[o] = d /\ \A u \in Threads : u # o => calls'[u] = calls[u]
      BY <1>1, <2>1 DEF CallsTyped
    <2>5. d # NoCall
      BY <2>2, NoCallAssumption
    <2>6. QED
      BY <1>1, <1>2, <2>1, <2>2, <2>3, <2>4, <2>5 DEF Returns, SameCall
  <1>3. CASE ~LastObserver
    <2>1. calls' = calls /\ dispatch' = [dispatch EXCEPT !.next = @ + 1]
      BY <1>3 DEF ObserverReturns, NextObserver
    <2>2. /\ dispatch'.owner = o /\ dispatch'.event = dispatch.event
          /\ dispatch'.next = dispatch.next + 1
      BY <1>1, <2>1 DEF Dispatch
    <2>3. dispatch' # Unlocked
      <3>1. DispatcherTypeOK'
        BY ReturnsTyped
      <3>2. dispatch' \in Dispatch
        <4>1. dispatch.next + 1 \in 1..4
          <5>1. dispatch.event \in Event
            BY <1>1 DEF Dispatch
          <5>2. Len(Observers[dispatch.event.kind]) \in 1..4
            BY <5>1 DEF Observers, Event, ClientConnectedEvent, ClientDisconnectedEvent,
                        MessageSentEvent, PrivateMessageSentEvent
          <5>3. dispatch.next \in 1..Len(Observers[dispatch.event.kind])
            BY DEF TypeInv, WalkOwned
          <5>4. dispatch.next # Len(Observers[dispatch.event.kind])
            BY <1>3 DEF LastObserver
          <5>5. QED
            BY <5>2, <5>3, <5>4, NextWithin
        <4> DEFINE n == dispatch.next + 1
        <4>2. dispatch' = [dispatch EXCEPT !.next = n] /\ n \in 1..4
          BY <2>1, <4>1
        <4> HIDE DEF n
        <4>3. QED
          BY <1>1, <4>2 DEF Dispatch
      <3>3. QED
        BY <3>2, UnlockedAssumption
    <2>4. QED
      BY <1>1, <2>1, <2>2, <2>3 DEF Returns
  <1>4. QED
    BY <1>2, <1>3

\* Every observer's step returns from its callback.
LEMMA ObserverShape ==
    ASSUME TypeInv, ObserverStep
    PROVE  dispatch # Unlocked /\ ObserverReturns /\ Returns /\ UNCHANGED clientVars
  <1>1. dispatch # Unlocked /\ ObserverReturns /\ UNCHANGED clientVars
    BY DEF ObserverStep, RegistryConnected, RegistryDisconnected, DatabaseLogs, EventsLog,
           MessagesStore, PrivateQueues, Notifies, ServerOnly
  <1>2. QED
    BY <1>1, ReturnsShape

\* What a client's step does to the server: it starts a call in an idle
\* thread, or takes an answer away, or neither.
Starts(t, call) ==
    /\ calls[t] = NoCall /\ calls' = [calls EXCEPT ![t] = call]
    /\ call # NoCall /\ call.pc \in {"check", "duration", "lookup"}
Ends(t) ==
    /\ Answered(t) /\ calls' = [calls EXCEPT ![t] = NoCall]

LEMMA ClientShape ==
    ASSUME TypeInv, NEW p \in Peers, UserStep(p) \/ ReplyStep(p)
    PROVE  /\ UNCHANGED <<clients, clientEvents, dispatch>>
           /\ \/ UNCHANGED calls
              \/ \E t \in Threads, call \in Call : Starts(t, call)
              \/ \E t \in Threads : Ends(t)
  <1>1. LocalStep
    BY DEF UserStep, Login, ConnectTimesOut, Disconnect, CloseWindow, CloseUnused, PrepareClose,
           SendMessage, Crash, ReplyStep, LoginSucceeded, LoginRejected, Disconnected, MessageSent
  <1>2. UNCHANGED <<clients, clientEvents, dispatch>>
    BY <1>1 DEF LocalStep, clientEventVars
  <1>3. 0 \in Time /\ ClientTypeOK
    BY ClockAssumption DEF Time, TypeInv, TypeOK
  <1>4. ASSUME NEW call \in Call, call.pc \in {"check", "duration", "lookup"}, Invoke(p, call)
        PROVE  \E t \in Threads : Starts(t, call)
    BY <1>4, NoCallAssumption DEF Invoke, Starts
  <1>5. ASSUME NEW n \in NamesOf[p], Login(p, n)
        PROVE  \E t \in Threads, call \in Call : Starts(t, call)
    <2>1. NewConnect(p, n) \in Call /\ NewConnect(p, n).pc = "check"
      BY <1>3, ClientAssumption DEF NewConnect, ConnectCall, Call
    <2>2. QED
      BY <1>4, <1>5, <2>1 DEF Login
  <1>6. ASSUME NEW next, PrepareClose(p, next), pseudonym[p] # NoName
        PROVE  \E t \in Threads, call \in Call : Starts(t, call)
    <2>1. NewDisconnect(p, pseudonym[p]) \in Call /\ NewDisconnect(p, pseudonym[p]).pc = "duration"
      BY <1>3, <1>6 DEF NewDisconnect, DisconnectCall, Call, ClientTypeOK
    <2>2. QED
      BY <1>4, <1>6, <2>1 DEF PrepareClose
  <1>7. ASSUME NEW recipient \in Recipients, NEW content \in Lengths,
               SendMessage(p, recipient, content)
        PROVE  \E t \in Threads, call \in Call : Starts(t, call)
    <2> DEFINE c == NewSendMessage(p, pseudonym[p], recipient, content)
    <2>1. c \in Call /\ c.pc = "lookup"
      BY <1>3, <1>7, ClientAssumption DEF NewSendMessage, SendMessageCall, Call, ClientTypeOK, SendMessage
    <2>2. QED
      BY <1>4, <1>7, <2>1 DEF SendMessage
  <1>8. CASE ReplyStep(p)
    <2>1. Return(p) /\ awaiting[p] \in Threads /\ Answered(awaiting[p])
      BY <1>3, <1>8 DEF ReplyStep, LoginSucceeded, LoginRejected, Disconnected, MessageSent, Returned,
                        ClientTypeOK, Answered, At
    <2>2. QED
      BY <1>2, <2>1 DEF Return, Ends
  <1>9. CASE ConnectTimesOut(p) \/ CloseUnused(p) \/ Crash(p)
    BY <1>2, <1>9 DEF ConnectTimesOut, CloseUnused, Crash
  <1>10. CASE Disconnect(p) \/ CloseWindow(p)
    BY <1>2, <1>3, <1>6, <1>10 DEF Disconnect, CloseWindow, ClientTypeOK
  <1>11. QED
    BY <1>2, <1>5, <1>7, <1>8, <1>9, <1>10 DEF UserStep

LEMMA StartWalk ==
    ASSUME TypeInv, WalkInv, UNCHANGED dispatch, NEW t \in Threads, NEW call \in Call, Starts(t, call)
    PROVE  WalkInv'
  <1>1. calls'[t] = call /\ \A u \in Threads : u # t => calls'[u] = calls[u]
    BY DEF Starts, TypeInv, TypeOK, ServiceTypeOK
  <1>2. dispatch # Unlocked => dispatch.owner \in Threads /\ dispatch.owner # t
    BY DEF Starts, TypeInv, TypeOK, DispatcherTypeOK, Dispatch, WalkOwned
  <1>3. QED
    BY <1>1, <1>2 DEF WalkInv, Starts, RaisedBy

LEMMA EndWalk ==
    ASSUME TypeInv, WalkInv, UNCHANGED dispatch, NEW t \in Threads, Ends(t)
    PROVE  WalkInv'
  <1>1. calls'[t] = NoCall /\ \A u \in Threads : u # t => calls'[u] = calls[u]
    BY DEF Ends, TypeInv, TypeOK, ServiceTypeOK
  <1>2. dispatch # Unlocked => dispatch.owner \in Threads /\ dispatch.owner # t
    BY DEF Ends, Answered, TypeInv, TypeOK, DispatcherTypeOK, Dispatch, WalkOwned
  <1>3. QED
    BY <1>1, <1>2 DEF WalkInv, RaisedBy

LEMMA WalkKept ==
    ASSUME TypeInv, WalkInv, [Next]_vars
    PROVE  WalkInv'
  <1>1. CASE UNCHANGED <<calls, dispatch>>
    BY <1>1 DEF WalkInv, RaisedBy
  <1>2. ASSUME NEW t \in Threads, HandlerStep(t)
        PROVE  WalkInv'
    <2>1. Shape(t)
      BY <1>2, HandlerShape
    <2>2. CASE dispatch' = dispatch /\ calls'[t].pc # "dispatching"
      <3>1. dispatch # Unlocked => dispatch.owner \in Threads /\ dispatch.owner # t
        BY <2>1 DEF Shape, TypeInv, TypeOK, DispatcherTypeOK, Dispatch, WalkOwned
      <3>2. QED
        BY <2>1, <2>2, <3>1 DEF Shape, WalkInv, RaisedBy
    <2>3. CASE /\ dispatch = Unlocked /\ dispatch' # Unlocked /\ dispatch'.owner = t
               /\ RaisedBy(dispatch'.event, calls'[t])
      BY <2>1, <2>3 DEF Shape, WalkInv, RaisedBy
    <2>4. QED
      BY <2>1, <2>2, <2>3 DEF Shape
  <1>3. CASE ObserverStep
    <2>1. Returns /\ dispatch # Unlocked
      BY <1>3, ObserverShape
    <2>2. CASE dispatch' = Unlocked
      <3>1. Answer(calls[dispatch.owner].op) # "dispatching"
        BY DEF Answer
      <3>2. QED
        BY <2>1, <2>2, <3>1 DEF Returns, WalkInv
    <2>3. CASE dispatch' # Unlocked
      BY <2>1, <2>3 DEF Returns, WalkInv, RaisedBy
    <2>4. QED
      BY <2>2, <2>3
  <1>4. ASSUME NEW p \in Peers, UserStep(p) \/ ReplyStep(p)
        PROVE  WalkInv'
    BY <1>1, <1>4, ClientShape, StartWalk, EndWalk
  <1>5. ASSUME NEW t \in Threads, DropAnswer(t)
        PROVE  WalkInv'
    BY <1>5, EndWalk DEF DropAnswer, Ends, LocalStep
  <1>6. CASE UNCHANGED serverVars
    BY <1>1, <1>6 DEF serverVars
  <1>7. QED
    BY <1>2, <1>3, <1>4, <1>5, <1>6 DEF Next, vars

-----------------------------------------------------------------------------
(* Sessions.                                                               *)

Busy(t, op) == calls[t] # NoCall /\ calls[t].op = op

\* The registry's callback for the call in t has run, or has nothing to do.
Past(t) ==
    \/ calls[t].pc \in {"accepted", "ok"}
    \/ calls[t].pc = "dispatching" /\ dispatch # Unlocked /\ dispatch.owner = t /\ dispatch.next # 1

\* Whatever is named, is named as its user names it.
NamesUsed ==
    /\ \A t \in Threads :
          calls[t] # NoCall /\ calls[t].op # "SendMessage" => calls[t].pseudonym \in NamesOf[calls[t].peer]
    /\ \A p \in Peers : pseudonym[p] \in NamesOf[p] \cup {NoName}
    /\ \A p \in Peers : isPeerConnected(p) => clients[p].pseudonym \in NamesOf[p]

\* The awaited call is the client's, and its view tells which it is.
AwaitedInv ==
    \A p \in Peers :
       /\ awaiting[p] # NoThread =>
             /\ calls[awaiting[p]] # NoCall
             /\ calls[awaiting[p]].peer = p
             /\ calls[awaiting[p]].op = "Connect" => view[p] = "login"
             /\ calls[awaiting[p]].op = "Disconnect" => view[p] \in {"leaving", "closing"}
       /\ view[p] \in {"leaving", "closing"} =>
             awaiting[p] # NoThread /\ calls[awaiting[p]].op = "Disconnect"
       /\ view[p] \in {"closed", "crashed"} => awaiting[p] = NoThread

\* A Disconnect is awaited, unless its client died; a Connect too, unless its
\* client's deadline expired.
CallsAwaited ==
    \A t \in Threads :
       LET p == calls[t].peer IN
       /\ Busy(t, "Disconnect") => awaiting[p] = t \/ view[p] = "crashed"
       /\ Busy(t, "Connect") => awaiting[p] = t \/ view[p] = "crashed" \/ timeouts[p] # 0

\* Who is in the registry: at the latest when the answer to a Connect is on
\* its way, at the longest until the registry has heard of the Disconnect.
Registered ==
    \A p \in Peers :
       /\ view[p] = "chat" => isPeerConnected(p)
       /\ awaiting[p] # NoThread /\ Busy(awaiting[p], "Connect") /\ Past(awaiting[p])
             => isPeerConnected(p)
       /\ timeouts[p] = 0 /\ isPeerConnected(p) =>
             /\ view[p] \in {"login", "closed"} =>
                   awaiting[p] # NoThread /\ Busy(awaiting[p], "Connect") /\ Past(awaiting[p])
             /\ view[p] \in {"leaving", "closing"} => ~Past(awaiting[p])

SessionInv == NamesUsed /\ AwaitedInv /\ CallsAwaited /\ Registered

\* A step that leaves the clients, the registry and what each call is alone,
\* and moves no call past the registry but a Disconnect that has nothing to do.
LEMMA SessionFrame ==
    ASSUME TypeInv, SessionInv, UNCHANGED <<clients, clientVars>>,
           \A t \in Threads : calls[t] = NoCall => calls'[t] = NoCall,
           \A t \in Threads : calls[t] # NoCall => SameCall(calls[t], calls'[t]),
           \A t \in Threads : Busy(t, "Connect") => (Past(t)' <=> Past(t)),
           \A t \in Threads : Busy(t, "Disconnect") =>
                                (Past(t)' => Past(t) \/ ~isPeerConnected(calls[t].peer))
    PROVE  SessionInv'
  <1>1. UNCHANGED <<view, pseudonym, awaiting, timeouts>> /\ ClientTypeOK
    BY DEF clientVars, TypeInv, TypeOK
  <1>2. \A t \in Threads : /\ calls'[t] = NoCall <=> calls[t] = NoCall
                           /\ calls[t] # NoCall => calls'[t].op = calls[t].op /\ calls'[t].peer = calls[t].peer
                           /\ calls[t] # NoCall /\ calls[t].op # "SendMessage" =>
                                 calls'[t].pseudonym = calls[t].pseudonym
    BY DEF SameCall
  <1>3. \A p \in Peers : isPeerConnected(p)' <=> isPeerConnected(p)
    BY DEF isPeerConnected
  <1>4. \A p \in Peers : awaiting[p] # NoThread => awaiting[p] \in Threads
    BY <1>1 DEF ClientTypeOK
  <1>5. \A t \in Threads : calls[t] # NoCall => calls[t].peer \in Peers
    BY CallOfOp DEF TypeInv, TypeOK, ServiceTypeOK, CallsTyped, Call, ConnectCall, DisconnectCall,
                    SendMessageCall
  <1>6. NamesUsed'
    BY <1>1, <1>2, <1>3 DEF SessionInv, NamesUsed
  <1>7. AwaitedInv'
    BY <1>1, <1>2, <1>4 DEF SessionInv, AwaitedInv
  <1>8. CallsAwaited'
    BY <1>1, <1>2, <1>5 DEF SessionInv, CallsAwaited, Busy
  <1>9. Registered'
    <2> SUFFICES ASSUME NEW p \in Peers
                 PROVE  /\ view'[p] = "chat" => isPeerConnected(p)'
                        /\ awaiting'[p] # NoThread /\ Busy(awaiting[p], "Connect")' /\ Past(awaiting[p])'
                             => isPeerConnected(p)'
                        /\ timeouts'[p] = 0 /\ isPeerConnected(p)' =>
                             /\ view'[p] \in {"login", "closed"} =>
                                   awaiting'[p] # NoThread /\ Busy(awaiting[p], "Connect")' /\ Past(awaiting[p])'
                             /\ view'[p] \in {"leaving", "closing"} => ~Past(awaiting[p])'
      BY DEF Registered
    <2>1. awaiting'[p] # NoThread =>
             /\ Busy(awaiting[p], "Connect")' <=> Busy(awaiting[p], "Connect")
             /\ Busy(awaiting[p], "Connect") => (Past(awaiting[p])' <=> Past(awaiting[p]))
      BY <1>1, <1>2, <1>4 DEF Busy
    <2>2. view'[p] \in {"leaving", "closing"} =>
             /\ awaiting[p] # NoThread /\ Busy(awaiting[p], "Disconnect")
             /\ calls[awaiting[p]].peer = p
      BY <1>1 DEF SessionInv, AwaitedInv, Busy
    <2>3. view'[p] \in {"leaving", "closing"} =>
             (Past(awaiting[p])' => Past(awaiting[p]) \/ ~isPeerConnected(p))
      BY <1>1, <1>4, <2>2
    <2>4. QED
      BY <1>1, <1>3, <2>1, <2>3 DEF SessionInv, Registered
  <1>10. QED
    BY <1>6, <1>7, <1>8, <1>9 DEF SessionInv

LEMMA HandlerSession ==
    ASSUME TypeInv, WalkInv, SessionInv, NEW t \in Threads, HandlerStep(t)
    PROVE  SessionInv'
  <1>1. Shape(t)
    BY HandlerShape
  <1>2. \A u \in Threads : u # t => (Past(u)' <=> Past(u)) \/ calls[u] = NoCall
    BY <1>1 DEF Shape, Past, WalkInv
  <1>3. ~Past(t)
    BY <1>1 DEF Shape, Past
  <1>4. Busy(t, "Connect") => ~Past(t)'
    BY <1>1 DEF Shape, Past, Busy
  <1>5. Past(t)' => calls[t].op = "Disconnect" /\ ~isPeerConnected(calls[t].peer)
    BY <1>1 DEF Shape, Past
  <1>6. \A u \in Threads : /\ calls[u] = NoCall => calls'[u] = NoCall
                           /\ calls[u] # NoCall => SameCall(calls[u], calls'[u])
    BY <1>1 DEF Shape, SameCall
  <1>7. UNCHANGED <<clients, clientVars>>
    BY <1>1 DEF Shape
  <1>8. QED
    BY <1>2, <1>3, <1>4, <1>5, <1>6, <1>7, SessionFrame DEF Busy

LEMMA CallsFrame ==
    ASSUME TypeInv, AwaitedInv, CallsAwaited, UNCHANGED clientVars,
           \A t \in Threads : calls[t] = NoCall => calls'[t] = NoCall,
           \A t \in Threads : calls[t] # NoCall => SameCall(calls[t], calls'[t])
    PROVE  AwaitedInv' /\ CallsAwaited'
  <1>1. UNCHANGED <<view, pseudonym, awaiting, timeouts>> /\ ClientTypeOK
    BY DEF clientVars, TypeInv, TypeOK
  <1>2. \A t \in Threads : /\ calls'[t] = NoCall <=> calls[t] = NoCall
                           /\ calls[t] # NoCall => calls'[t].op = calls[t].op /\ calls'[t].peer = calls[t].peer
    BY DEF SameCall
  <1>3. \A p \in Peers : awaiting[p] # NoThread => awaiting[p] \in Threads
    BY <1>1 DEF ClientTypeOK
  <1>4. AwaitedInv'
    BY <1>1, <1>2, <1>3 DEF AwaitedInv
  <1>5. CallsAwaited'
    BY <1>1, <1>2 DEF CallsAwaited, Busy
  <1>6. QED
    BY <1>4, <1>5

\* What an observer's return does to the calls: o is the walk's owner.
LEMMA ReturnsCalls ==
    ASSUME TypeInv, WalkInv, dispatch # Unlocked, Returns, NEW o, o = dispatch.owner
    PROVE  /\ \A t \in Threads : calls[t] = NoCall => calls'[t] = NoCall
           /\ \A t \in Threads : calls[t] # NoCall => SameCall(calls[t], calls'[t])
           /\ \A t \in Threads : calls[t] # NoCall /\ t # o => (Past(t)' <=> Past(t))
           /\ o \in Threads
           /\ Past(o)'
           /\ dispatch.next # 1 => Past(o)
  <1>1. dispatch.next \in 1..4
    BY DEF TypeInv, TypeOK, DispatcherTypeOK, Dispatch
  <1>2. \A t \in Threads : /\ calls[t] = NoCall => calls'[t] = NoCall
                           /\ calls[t] # NoCall => SameCall(calls[t], calls'[t])
    BY DEF Returns, SameCall
  <1>3. ASSUME NEW t \in Threads, calls[t] # NoCall, t # o
        PROVE  Past(t)' <=> Past(t)
    BY <1>3 DEF Returns, Past, WalkInv
  <1>4. Past(o)'
    <2>1. dispatch.next + 1 # 1
      BY <1>1
    <2>2. CASE dispatch' = Unlocked
      BY <2>2 DEF Returns, Past, Answer
    <2>3. CASE dispatch' # Unlocked
      BY <2>1, <2>3 DEF Returns, Past
    <2>4. QED
      BY <2>2, <2>3
  <1>5. dispatch.next # 1 => Past(o)
    BY DEF Past, Returns
  <1>6. QED
    BY <1>2, <1>3, <1>4, <1>5 DEF Returns

\* The registry is the first to hear of a connection or a disconnection.
LEMMA RegistryFirst ==
    ASSUME TypeInv, NEW o, NEW kind \in {"ClientConnected", "ClientDisconnected"}, Notifies(o, kind)
    PROVE  /\ dispatch.next = 1 <=> o = "registry"
           /\ dispatch.next = 3 <=> o = "clientEvents"
           /\ kind = "ClientConnected" => dispatch.next # 4
           /\ dispatch.next \in 1..4
  <1>1. dispatch.next \in 1..4 /\ dispatch.next \in 1..Len(Observers[kind])
    BY DEF Notifies, TypeInv, TypeOK, DispatcherTypeOK, Dispatch, WalkOwned
  <1>2. kind = "ClientConnected" => dispatch.next # 4
    BY <1>1 DEF Observers
  <1>3. Observers[kind][dispatch.next] = o
    BY DEF Notifies
  <1>4. dispatch.next = 1 \/ dispatch.next = 2 \/ dispatch.next = 3 \/ dispatch.next = 4
    BY <1>1
  <1>5. QED
    BY <1>1, <1>2, <1>3, <1>4 DEF Observers

\* What the registry's callbacks do, as the calls and the names tell.
LEMMA Entered ==
    ASSUME TypeInv, WalkInv, NamesUsed, RegistryConnected,
           NEW e, e = dispatch.event, NEW q, q = e.peer, NEW o, o = dispatch.owner
    PROVE  /\ dispatch # Unlocked /\ dispatch.next = 1 /\ o \in Threads /\ q \in Peers
           /\ e.kind = "ClientConnected" /\ e.pseudonym \in Pseudonyms /\ e.pseudonym \in NamesOf[q]
           /\ Busy(o, "Connect") /\ calls[o].peer = q /\ calls[o].pseudonym = e.pseudonym
           /\ \A p \in Peers : p # q => clients'[p] = clients[p]
           /\ clients'[q].pseudonym = e.pseudonym /\ clients'[q] # NoClient
  <1>1. /\ dispatch # Unlocked /\ o \in Threads /\ e \in ClientConnectedEvent
        /\ e.kind = "ClientConnected" /\ dispatch.next = 1
    BY NotifiedEvent, RegistryFirst DEF RegistryConnected
  <1>2. q \in Peers /\ e.pseudonym \in Pseudonyms
    BY <1>1 DEF ClientConnectedEvent
  <1>3. Busy(o, "Connect") /\ calls[o].peer = q /\ calls[o].pseudonym = e.pseudonym
    BY <1>1 DEF TypeInv, WalkOwned, Busy
  <1>4. e.pseudonym \in NamesOf[q]
    BY <1>1, <1>3 DEF NamesUsed, Busy
  <1>5. /\ \A p \in Peers : p # q => clients'[p] = clients[p]
        /\ clients'[q].pseudonym = e.pseudonym /\ clients'[q] # NoClient
    <2> DEFINE entry == [pseudonym |-> e.pseudonym, initialTimePoint |-> now]
    <2>1. clients' = [clients EXCEPT ![q] = entry]
      BY DEF RegistryConnected, RegistryOnClientConnected
    <2>2. entry # NoClient
      BY <1>2, NoClientAssumption DEF ClientInfo, TypeInv, TypeOK
    <2>3. QED
      BY <1>2, <2>1, <2>2 DEF TypeInv, TypeOK, RegistryTypeOK
  <1>6. QED
    BY <1>1, <1>2, <1>3, <1>4, <1>5

LEMMA Erased ==
    ASSUME TypeInv, WalkInv, NamesUsed, NamesAreOwn, RegistryDisconnected,
           NEW e, e = dispatch.event, NEW q, q = e.peer, NEW o, o = dispatch.owner
    PROVE  /\ dispatch # Unlocked /\ dispatch.next = 1 /\ o \in Threads /\ q \in Peers
           /\ e.kind = "ClientDisconnected" /\ e.pseudonym \in Pseudonyms
           /\ e.pseudonym \in NamesOf[q]
           /\ Busy(o, "Disconnect") /\ calls[o].peer = q
           /\ \A p \in Peers : /\ isPeerConnected(p)' <=> isPeerConnected(p) /\ p # q
                               /\ p # q => clients'[p] = clients[p]
  <1>1. /\ dispatch # Unlocked /\ o \in Threads /\ e \in ClientDisconnectedEvent
        /\ e.kind = "ClientDisconnected" /\ dispatch.next = 1
    BY NotifiedEvent, RegistryFirst DEF RegistryDisconnected
  <1>2. q \in Peers /\ e.pseudonym \in Pseudonyms
    BY <1>1 DEF ClientDisconnectedEvent
  <1>3. Busy(o, "Disconnect") /\ calls[o].peer = q /\ calls[o].pseudonym = e.pseudonym
    BY <1>1 DEF TypeInv, WalkOwned, WalkInv, RaisedBy, Busy
  <1>4. e.pseudonym \in NamesOf[q]
    BY <1>1, <1>3 DEF NamesUsed, Busy
  <1>5. PeersNamed(e.pseudonym) = {p \in {q} : isPeerConnected(p)}
    <2>1. ASSUME NEW p \in Peers, isPeerConnected(p), clients[p].pseudonym = e.pseudonym
          PROVE  p = q
      <3>1. e.pseudonym \in NamesOf[p]
        BY <2>1 DEF NamesUsed
      <3>2. QED
        BY <1>2, <1>4, <3>1 DEF NamesAreOwn
    <2>2. isPeerConnected(q) => clients[q].pseudonym = e.pseudonym
      BY <1>2, <1>4 DEF NamesUsed, NamesAreOwn
    <2>3. QED
      BY <1>2, <2>1, <2>2 DEF PeersNamed
  <1>6. \A p \in Peers : /\ isPeerConnected(p)' <=> isPeerConnected(p) /\ p # q
                         /\ p # q => clients'[p] = clients[p]
    <2>1. CASE isPeerConnected(q)
      <3>1. PeersNamed(e.pseudonym) = {q}
        BY <1>5, <2>1
      <3>2. clients' = [clients EXCEPT ![q] = NoClient]
        BY <3>1 DEF RegistryDisconnected, RegistryOnClientDisconnected
      <3>3. QED
        BY <1>2, <3>2 DEF isPeerConnected, TypeInv, TypeOK, RegistryTypeOK
    <2>2. CASE ~isPeerConnected(q)
      <3>1. PeersNamed(e.pseudonym) = {}
        BY <1>5, <2>2
      <3>2. clients' = clients
        BY <3>1 DEF RegistryDisconnected, RegistryOnClientDisconnected
      <3>3. QED
        BY <2>2, <3>2 DEF isPeerConnected
    <2>3. QED
      BY <2>1, <2>2
  <1>7. QED
    BY <1>1, <1>2, <1>3, <1>4, <1>6

LEMMA RegistrySession ==
    ASSUME TypeInv, WalkInv, SessionInv, RegistryConnected, ServerOnly
    PROVE  SessionInv'
  <1> PICK e, q, o : e = dispatch.event /\ q = e.peer /\ o = dispatch.owner
    OBVIOUS
  <1>1. /\ dispatch # Unlocked /\ o \in Threads /\ e.kind = "ClientConnected" /\ dispatch.next = 1
        /\ q \in Peers /\ e.pseudonym \in NamesOf[q]
    BY Entered DEF SessionInv
  <1>2. Busy(o, "Connect") /\ calls[o].peer = q
    BY Entered DEF SessionInv
  <1>3. Returns
    BY <1>1, ReturnsShape DEF RegistryConnected
  <1>4. UNCHANGED clientVars /\ UNCHANGED <<view, pseudonym, awaiting, timeouts>>
    BY DEF ServerOnly, clientVars
  <1>5. AwaitedInv' /\ CallsAwaited'
    BY <1>1, <1>3, <1>4, ReturnsCalls, CallsFrame DEF SessionInv
  <1>6. /\ \A p \in Peers : p # q => clients'[p] = clients[p]
        /\ clients'[q].pseudonym = e.pseudonym /\ clients'[q] # NoClient
    BY Entered DEF SessionInv
  <1>7. NamesUsed'
    <2>1. \A t \in Threads : calls'[t] # NoCall /\ calls'[t].op # "SendMessage" =>
                               calls'[t].pseudonym \in NamesOf[calls'[t].peer]
      BY <1>1, <1>3, ReturnsCalls DEF SessionInv, NamesUsed, SameCall
    <2>2. \A p \in Peers : pseudonym'[p] \in NamesOf[p] \cup {NoName}
      BY <1>4 DEF SessionInv, NamesUsed
    <2>3. \A p \in Peers : isPeerConnected(p)' => clients'[p].pseudonym \in NamesOf[p]
      BY <1>1, <1>6 DEF SessionInv, NamesUsed, isPeerConnected
    <2>4. QED
      BY <2>1, <2>2, <2>3 DEF NamesUsed
  <1>8. \A p \in Peers : awaiting[p] # NoThread => awaiting[p] \in Threads /\ calls[awaiting[p]] # NoCall
                                                    /\ calls[awaiting[p]].peer = p
    BY DEF TypeInv, TypeOK, ClientTypeOK, SessionInv, AwaitedInv
  <1>9. \A p \in Peers : awaiting[p] # NoThread /\ p # q =>
            /\ awaiting[p] # o
            /\ Past(awaiting[p])' <=> Past(awaiting[p])
            /\ Busy(awaiting[p], "Connect")' <=> Busy(awaiting[p], "Connect")
    BY <1>1, <1>2, <1>3, <1>4, <1>8, ReturnsCalls DEF Busy, SameCall
  <1>10. Past(o)' /\ Busy(o, "Connect")'
    BY <1>1, <1>2, <1>3, ReturnsCalls DEF Busy, SameCall
  <1>11. Registered'
    <2> SUFFICES ASSUME NEW p \in Peers
                 PROVE  /\ view[p] = "chat" => isPeerConnected(p)'
                        /\ awaiting[p] # NoThread /\ Busy(awaiting[p], "Connect")' /\ Past(awaiting[p])'
                             => isPeerConnected(p)'
                        /\ timeouts[p] = 0 /\ isPeerConnected(p)' =>
                             /\ view[p] \in {"login", "closed"} =>
                                   awaiting[p] # NoThread /\ Busy(awaiting[p], "Connect")' /\ Past(awaiting[p])'
                             /\ view[p] \in {"leaving", "closing"} => ~Past(awaiting[p])'
      BY <1>4 DEF Registered
    <2>1. CASE p = q
      <3>1. isPeerConnected(p)'
        BY <1>6, <2>1 DEF isPeerConnected
      <3>2. timeouts[p] = 0 /\ view[p] # "crashed" => awaiting[p] = o /\ view[p] = "login"
        BY <1>1, <1>2, <1>8, <2>1, ClientAssumption DEF SessionInv, CallsAwaited, AwaitedInv, Busy
      <3>3. QED
        BY <1>1, <1>4, <1>10, <3>1, <3>2, ClientAssumption
    <2>2. CASE p # q
      <3>1. isPeerConnected(p)' <=> isPeerConnected(p)
        BY <1>6, <2>2 DEF isPeerConnected
      <3>2. view[p] \in {"leaving", "closing"} => awaiting[p] # NoThread
        BY DEF SessionInv, AwaitedInv
      <3>3. QED
        BY <1>9, <2>2, <3>1, <3>2 DEF SessionInv, Registered
    <2>3. QED
      BY <2>1, <2>2
  <1>12. QED
    BY <1>5, <1>7, <1>11 DEF SessionInv

LEMMA ErasureSession ==
    ASSUME TypeInv, WalkInv, SessionInv, NamesAreOwn, RegistryDisconnected, ServerOnly
    PROVE  SessionInv'
  <1> PICK e, q, o : e = dispatch.event /\ q = e.peer /\ o = dispatch.owner
    OBVIOUS
  <1>1. dispatch # Unlocked /\ o \in Threads /\ q \in Peers
    BY Erased DEF SessionInv
  <1>2. /\ Busy(o, "Disconnect") /\ calls[o].peer = q
        /\ calls[o].op # "Connect" /\ calls[o].op # "SendMessage"
    BY Erased DEF SessionInv, Busy
  <1>3. Returns
    BY <1>1, ReturnsShape DEF RegistryDisconnected
  <1>4. UNCHANGED clientVars /\ UNCHANGED <<view, pseudonym, awaiting, timeouts>>
    BY DEF ServerOnly, clientVars
  <1>5. AwaitedInv' /\ CallsAwaited'
    BY <1>1, <1>3, <1>4, ReturnsCalls, CallsFrame DEF SessionInv
  <1>6. \A p \in Peers : /\ isPeerConnected(p)' <=> isPeerConnected(p) /\ p # q
                         /\ p # q => clients'[p] = clients[p]
    BY Erased DEF SessionInv
  <1>7. NamesUsed'
    <2>1. \A t \in Threads : calls'[t] # NoCall /\ calls'[t].op # "SendMessage" =>
                               calls'[t].pseudonym \in NamesOf[calls'[t].peer]
      BY <1>1, <1>3, ReturnsCalls DEF SessionInv, NamesUsed, SameCall
    <2>2. \A p \in Peers : pseudonym'[p] \in NamesOf[p] \cup {NoName}
      BY <1>4 DEF SessionInv, NamesUsed
    <2>3. \A p \in Peers : isPeerConnected(p)' => clients'[p].pseudonym \in NamesOf[p]
      BY <1>6 DEF SessionInv, NamesUsed
    <2>4. QED
      BY <2>1, <2>2, <2>3 DEF NamesUsed
  <1>8. \A p \in Peers : awaiting[p] # NoThread => awaiting[p] \in Threads /\ calls[awaiting[p]] # NoCall
                                                    /\ calls[awaiting[p]].peer = p
    BY DEF TypeInv, TypeOK, ClientTypeOK, SessionInv, AwaitedInv
  <1>9. \A p \in Peers : awaiting[p] # NoThread /\ p # q =>
            /\ awaiting[p] # o
            /\ Past(awaiting[p])' <=> Past(awaiting[p])
            /\ Busy(awaiting[p], "Connect")' <=> Busy(awaiting[p], "Connect")
    BY <1>1, <1>2, <1>3, <1>4, <1>8, ReturnsCalls DEF Busy, SameCall
  <1>10. /\ view[q] \in {"leaving", "closing", "crashed"}
         /\ awaiting[q] # NoThread => awaiting[q] = o
    BY <1>1, <1>2, ClientAssumption DEF SessionInv, CallsAwaited, AwaitedInv, Busy
  <1>11. Registered'
    <2> SUFFICES ASSUME NEW p \in Peers
                 PROVE  /\ view[p] = "chat" => isPeerConnected(p)'
                        /\ awaiting[p] # NoThread /\ Busy(awaiting[p], "Connect")' /\ Past(awaiting[p])'
                             => isPeerConnected(p)'
                        /\ timeouts[p] = 0 /\ isPeerConnected(p)' =>
                             /\ view[p] \in {"login", "closed"} =>
                                   awaiting[p] # NoThread /\ Busy(awaiting[p], "Connect")' /\ Past(awaiting[p])'
                             /\ view[p] \in {"leaving", "closing"} => ~Past(awaiting[p])'
      BY <1>4 DEF Registered
    <2>1. CASE p = q
      <3>1. ~isPeerConnected(p)' /\ view[p] # "chat"
        BY <1>6, <1>10, <2>1
      <3>2. awaiting[p] # NoThread => ~Busy(awaiting[p], "Connect")'
        BY <1>1, <1>2, <1>3, <1>4, <1>10, <2>1, ReturnsCalls DEF Busy, SameCall
      <3>3. QED
        BY <3>1, <3>2
    <2>2. CASE p # q
      <3>1. isPeerConnected(p)' <=> isPeerConnected(p)
        BY <1>6, <2>2
      <3>2. view[p] \in {"leaving", "closing"} => awaiting[p] # NoThread
        BY DEF SessionInv, AwaitedInv
      <3>3. QED
        BY <1>9, <2>2, <3>1, <3>2 DEF SessionInv, Registered
    <2>3. QED
      BY <2>1, <2>2
  <1>12. QED
    BY <1>5, <1>7, <1>11 DEF SessionInv

LEMMA ObserverSession ==
    ASSUME TypeInv, WalkInv, SessionInv, NamesAreOwn, ObserverStep
    PROVE  SessionInv'
  <1>1. CASE RegistryConnected \/ RegistryDisconnected
    BY <1>1, RegistrySession, ErasureSession, ObserverShape DEF ServerOnly
  <1>2. CASE DatabaseLogs \/ EventsLog \/ MessagesStore \/ PrivateQueues
    <2> DEFINE o == dispatch.owner
    <2>1. Returns /\ dispatch # Unlocked /\ UNCHANGED clientVars
      BY ObserverShape
    <2>2. UNCHANGED clients
      BY <1>2 DEF DatabaseLogs, EventsLog, MessagesStore, PrivateQueues
    <2>3. dispatch.next # 1 \/ calls[o].op = "SendMessage"
      <3>1. ASSUME NEW x, NEW kind \in {"ClientConnected", "ClientDisconnected"}, Notifies(x, kind),
                   x # "registry"
            PROVE  dispatch.next # 1
        BY <3>1, RegistryFirst
      <3>2. ASSUME NEW x, NEW kind \in {"MessageSent", "PrivateMessageSent"}, Notifies(x, kind)
            PROVE  calls[o].op = "SendMessage"
        BY <3>2, NotifiedEvent DEF WalkInv, RaisedBy
      <3>3. QED
        BY <1>2, <3>1, <3>2 DEF DatabaseLogs, EventsLog, MessagesStore, PrivateQueues
    <2>4. QED
      BY <2>1, <2>2, <2>3, ReturnsCalls, SessionFrame DEF Busy
  <1>3. QED
    BY <1>1, <1>2 DEF ObserverStep

\* A client that awaits nothing calls.
LEMMA StartSession ==
    ASSUME TypeInv, SessionInv, NEW p \in Peers, awaiting[p] = NoThread,
           NEW t \in Threads, NEW call \in Call, Starts(t, call), call.peer = p,
           call.op # "SendMessage" => call.pseudonym \in NamesOf[p],
           NEW v,
           view' = [view EXCEPT ![p] = v], awaiting' = [awaiting EXCEPT ![p] = t],
           UNCHANGED <<clients, dispatch, pseudonym, timeouts>>,
           \/ call.op \in {"Connect", "SendMessage"} /\ view[p] \in {"login", "chat"} /\ v = view[p]
           \/ call.op = "Disconnect" /\ view[p] \in {"login", "chat"} /\ v \in {"leaving", "closing"},
           call.op = "Connect" => v = "login"
    PROVE  SessionInv'
  <1>1. /\ calls'[t] = call /\ \A u \in Threads : u # t => calls'[u] = calls[u]
        /\ view'[p] = v /\ awaiting'[p] = t
        /\ \A q \in Peers : q # p => view'[q] = view[q] /\ awaiting'[q] = awaiting[q]
    BY DEF Starts, TypeInv, TypeOK, ServiceTypeOK, ClientTypeOK
  <1>2. /\ calls[t] = NoCall /\ call # NoCall
        /\ call.pc \notin {"accepted", "ok", "dispatching"}
        /\ t # NoThread
    BY ClientAssumption DEF Starts
  <1>3. \A q \in Peers : awaiting[q] # NoThread => awaiting[q] \in Threads /\ awaiting[q] # t
    BY <1>2 DEF TypeInv, TypeOK, ClientTypeOK, SessionInv, AwaitedInv
  <1>4. \A q \in Peers : isPeerConnected(q)' <=> isPeerConnected(q)
    BY DEF isPeerConnected
  <1>5. NamesUsed'
    BY <1>1, <1>2, <1>4 DEF SessionInv, NamesUsed
  <1>6. AwaitedInv'
    <2> SUFFICES ASSUME NEW q \in Peers
                 PROVE  /\ awaiting'[q] # NoThread =>
                             /\ calls'[awaiting'[q]] # NoCall
                             /\ calls'[awaiting'[q]].peer = q
                             /\ calls'[awaiting'[q]].op = "Connect" => view'[q] = "login"
                             /\ calls'[awaiting'[q]].op = "Disconnect" => view'[q] \in {"leaving", "closing"}
                        /\ view'[q] \in {"leaving", "closing"} =>
                             awaiting'[q] # NoThread /\ calls'[awaiting'[q]].op = "Disconnect"
                        /\ view'[q] \in {"closed", "crashed"} => awaiting'[q] = NoThread
      BY DEF AwaitedInv
    <2>1. CASE q = p
      BY <1>1, <1>2, <2>1
    <2>2. CASE q # p
      BY <1>1, <1>3, <2>2 DEF SessionInv, AwaitedInv
    <2>3. QED
      BY <2>1, <2>2
  <1>7. CallsAwaited'
    <2> SUFFICES ASSUME NEW u \in Threads
                 PROVE  /\ Busy(u, "Disconnect")' =>
                              awaiting'[calls'[u].peer] = u \/ view'[calls'[u].peer] = "crashed"
                        /\ Busy(u, "Connect")' =>
                              \/ awaiting'[calls'[u].peer] = u \/ view'[calls'[u].peer] = "crashed"
                              \/ timeouts'[calls'[u].peer] # 0
      BY DEF CallsAwaited
    <2>1. CASE u = t
      BY <1>1, <2>1
    <2>2. CASE u # t
      <3>1. calls[u] # NoCall => calls[u].peer \in Peers
        BY CallOfOp DEF TypeInv, TypeOK, ServiceTypeOK, CallsTyped, Call, ConnectCall, DisconnectCall,
                        SendMessageCall
      <3>2. u # NoThread
        BY ClientAssumption
      <3>3. QED
        BY <1>1, <2>2, <3>1, <3>2 DEF SessionInv, CallsAwaited, Busy
    <2>3. QED
      BY <2>1, <2>2
  <1>8. Registered'
    <2> SUFFICES ASSUME NEW q \in Peers
                 PROVE  /\ view'[q] = "chat" => isPeerConnected(q)'
                        /\ awaiting'[q] # NoThread /\ Busy(awaiting[q], "Connect")' /\ Past(awaiting[q])'
                             => isPeerConnected(q)'
                        /\ timeouts'[q] = 0 /\ isPeerConnected(q)' =>
                             /\ view'[q] \in {"login", "closed"} =>
                                   awaiting'[q] # NoThread /\ Busy(awaiting[q], "Connect")' /\ Past(awaiting[q])'
                             /\ view'[q] \in {"leaving", "closing"} => ~Past(awaiting[q])'
      BY DEF Registered
    <2>1. CASE q = p
      <3>1. ~Past(awaiting[p])'
        BY <1>1, <1>2 DEF Past
      <3>2. v = "chat" => isPeerConnected(p)
        BY DEF SessionInv, Registered
      <3>3. v \in {"login", "closed"} => timeouts[p] # 0 \/ ~isPeerConnected(p)
        BY DEF SessionInv, Registered
      <3>4. QED
        BY <1>1, <1>4, <2>1, <3>1, <3>2, <3>3
    <2>2. CASE q # p
      <3>1. view[q] \in {"leaving", "closing"} => awaiting[q] # NoThread
        BY DEF SessionInv, AwaitedInv
      <3>2. awaiting[q] # NoThread => /\ Past(awaiting[q])' <=> Past(awaiting[q])
                                      /\ Busy(awaiting[q], "Connect")' <=> Busy(awaiting[q], "Connect")
        BY <1>1, <1>3, <2>2 DEF Past, Busy
      <3>3. QED
        BY <1>1, <1>4, <2>2, <3>1, <3>2 DEF SessionInv, Registered
    <2>3. QED
      BY <2>1, <2>2
  <1>9. QED
    BY <1>5, <1>6, <1>7, <1>8 DEF SessionInv

\* A client gets the answer it awaits.
LEMMA EndSession ==
    ASSUME TypeInv, SessionInv, NEW p \in Peers, NEW t \in Threads, awaiting[p] = t, Ends(t),
           NEW v \in {"login", "chat", "closed"},
           view' = [view EXCEPT ![p] = v], awaiting' = [awaiting EXCEPT ![p] = NoThread],
           \A q \in Peers : pseudonym'[q] = pseudonym[q] \/ (q = p /\ pseudonym'[q] \in NamesOf[q]),
           UNCHANGED <<clients, dispatch, timeouts>>,
           \/ v = view[p] /\ (calls[t].op = "Connect" => calls[t].pc = "rejected")
           \/ v = "chat" /\ calls[t].op = "Connect" /\ calls[t].pc = "accepted"
           \/ v # "chat" /\ calls[t].op = "Disconnect" /\ calls[t].pc = "ok"
    PROVE  SessionInv'
  <1>1. /\ calls'[t] = NoCall /\ \A u \in Threads : u # t => calls'[u] = calls[u]
        /\ view'[p] = v /\ awaiting'[p] = NoThread
        /\ \A q \in Peers : q # p => view'[q] = view[q] /\ awaiting'[q] = awaiting[q]
    BY DEF Ends, TypeInv, TypeOK, ServiceTypeOK, ClientTypeOK
  <1>2. calls[t] # NoCall /\ calls[t].peer = p /\ t # NoThread
    BY ClientAssumption DEF Ends, Answered, SessionInv, AwaitedInv
  <1>3. \A q \in Peers : awaiting[q] # NoThread =>
                           awaiting[q] \in Threads /\ (q # p => awaiting[q] # t)
    BY <1>2 DEF TypeInv, TypeOK, ClientTypeOK, SessionInv, AwaitedInv
  <1>4. \A q \in Peers : isPeerConnected(q)' <=> isPeerConnected(q)
    BY DEF isPeerConnected
  <1>5. NamesUsed'
    BY <1>1, <1>2, <1>4 DEF SessionInv, NamesUsed
  <1>6. AwaitedInv'
    <2> SUFFICES ASSUME NEW q \in Peers
                 PROVE  /\ awaiting'[q] # NoThread =>
                             /\ calls'[awaiting'[q]] # NoCall
                             /\ calls'[awaiting'[q]].peer = q
                             /\ calls'[awaiting'[q]].op = "Connect" => view'[q] = "login"
                             /\ calls'[awaiting'[q]].op = "Disconnect" => view'[q] \in {"leaving", "closing"}
                        /\ view'[q] \in {"leaving", "closing"} =>
                             awaiting'[q] # NoThread /\ calls'[awaiting'[q]].op = "Disconnect"
                        /\ view'[q] \in {"closed", "crashed"} => awaiting'[q] = NoThread
      BY DEF AwaitedInv
    <2>1. CASE q = p
      BY <1>1, <2>1
    <2>2. CASE q # p
      BY <1>1, <1>3, <2>2 DEF SessionInv, AwaitedInv
    <2>3. QED
      BY <2>1, <2>2
  <1>7. CallsAwaited'
    <2> SUFFICES ASSUME NEW u \in Threads
                 PROVE  /\ Busy(u, "Disconnect")' =>
                              awaiting'[calls'[u].peer] = u \/ view'[calls'[u].peer] = "crashed"
                        /\ Busy(u, "Connect")' =>
                              \/ awaiting'[calls'[u].peer] = u \/ view'[calls'[u].peer] = "crashed"
                              \/ timeouts'[calls'[u].peer] # 0
      BY DEF CallsAwaited
    <2>1. CASE u = t
      BY <1>1, <2>1 DEF Busy
    <2>2. CASE u # t
      <3>1. calls[u] # NoCall => calls[u].peer \in Peers
        BY CallOfOp DEF TypeInv, TypeOK, ServiceTypeOK, CallsTyped, Call, ConnectCall, DisconnectCall,
                        SendMessageCall
      <3>2. view[p] # "crashed"
        BY <1>2 DEF SessionInv, AwaitedInv
      <3>3. QED
        BY <1>1, <2>2, <3>1, <3>2 DEF SessionInv, CallsAwaited, Busy
    <2>3. QED
      BY <2>1, <2>2
  <1>8. Registered'
    <2> SUFFICES ASSUME NEW q \in Peers
                 PROVE  /\ view'[q] = "chat" => isPeerConnected(q)'
                        /\ awaiting'[q] # NoThread /\ Busy(awaiting[q], "Connect")' /\ Past(awaiting[q])'
                             => isPeerConnected(q)'
                        /\ timeouts'[q] = 0 /\ isPeerConnected(q)' =>
                             /\ view'[q] \in {"login", "closed"} =>
                                   awaiting'[q] # NoThread /\ Busy(awaiting[q], "Connect")' /\ Past(awaiting[q])'
                             /\ view'[q] \in {"leaving", "closing"} => ~Past(awaiting[q])'
      BY DEF Registered
    <2>1. CASE q = p
      <3>1. v = "chat" => isPeerConnected(p)
        BY <1>2 DEF SessionInv, Registered, Busy, Past
      <3>2. v # "chat" => timeouts[p] # 0 \/ ~isPeerConnected(p)
        <4>1. CASE calls[t].op = "Disconnect" /\ calls[t].pc = "ok"
          BY <1>2, <4>1 DEF SessionInv, Registered, AwaitedInv, Past
        <4>2. CASE v = view[p] /\ (calls[t].op = "Connect" => calls[t].pc = "rejected")
          BY <1>2, <4>2 DEF SessionInv, Registered, Busy, Past
        <4>3. QED
          BY <4>1, <4>2
      <3>3. QED
        BY <1>1, <1>4, <2>1, <3>1, <3>2
    <2>2. CASE q # p
      <3>1. view[q] \in {"leaving", "closing"} => awaiting[q] # NoThread
        BY DEF SessionInv, AwaitedInv
      <3>2. awaiting[q] # NoThread => /\ Past(awaiting[q])' <=> Past(awaiting[q])
                                      /\ Busy(awaiting[q], "Connect")' <=> Busy(awaiting[q], "Connect")
        BY <1>1, <1>3, <2>2 DEF Past, Busy
      <3>3. QED
        BY <1>1, <1>4, <2>2, <3>1, <3>2 DEF SessionInv, Registered
    <2>3. QED
      BY <2>1, <2>2
  <1>9. QED
    BY <1>5, <1>6, <1>7, <1>8 DEF SessionInv

\* A client gives up waiting, dies, or closes a window that was never used.
LEMMA QuitSession ==
    ASSUME TypeInv, SessionInv, NEW p \in Peers, ConnectTimesOut(p) \/ Crash(p) \/ CloseUnused(p)
    PROVE  SessionInv'
  <1>1. UNCHANGED <<calls, clients, dispatch, pseudonym>>
    BY DEF ConnectTimesOut, Crash, CloseUnused, LocalStep
  <1>2. \A q \in Peers : q # p => /\ view'[q] = view[q] /\ awaiting'[q] = awaiting[q]
                                  /\ timeouts'[q] = timeouts[q]
    BY DEF ConnectTimesOut, Crash, CloseUnused, SetView, TypeInv, TypeOK, ClientTypeOK
  <1>3. awaiting'[p] = NoThread
    BY DEF ConnectTimesOut, Crash, CloseUnused, Responsive, TypeInv, TypeOK, ClientTypeOK
  <1>4. \/ view'[p] = "crashed"
        \/ view'[p] = view[p] /\ view[p] = "login" /\ timeouts'[p] # 0
        \/ /\ view'[p] = "closed" /\ timeouts'[p] = timeouts[p]
           /\ view[p] = "login" /\ awaiting[p] = NoThread
    <2>1. CASE ConnectTimesOut(p)
      BY <2>1 DEF ConnectTimesOut, TypeInv, TypeOK, ClientTypeOK, SessionInv, AwaitedInv
    <2>2. CASE Crash(p)
      BY <2>2 DEF Crash, SetView, TypeInv, TypeOK, ClientTypeOK
    <2>3. CASE CloseUnused(p)
      BY <2>3 DEF CloseUnused, SetView, Responsive, TypeInv, TypeOK, ClientTypeOK
    <2>4. QED
      BY <2>1, <2>2, <2>3
  <1>5. \A q \in Peers : isPeerConnected(q)' <=> isPeerConnected(q)
    BY <1>1 DEF isPeerConnected
  <1>6. NamesUsed'
    BY <1>1, <1>5 DEF SessionInv, NamesUsed
  <1>7. AwaitedInv'
    BY <1>1, <1>2, <1>3, <1>4 DEF SessionInv, AwaitedInv
  <1>8. CallsAwaited'
    <2>1. \A u \in Threads : calls[u] # NoCall => calls[u].peer \in Peers
      BY CallOfOp DEF TypeInv, TypeOK, ServiceTypeOK, CallsTyped, Call, ConnectCall, DisconnectCall,
                      SendMessageCall
    <2>2. \A u \in Threads : u # NoThread
      BY ClientAssumption
    <2>3. \A u \in Threads : Busy(u, "Disconnect") /\ calls[u].peer = p => view'[p] = "crashed"
      BY <1>4, <2>2 DEF SessionInv, CallsAwaited, AwaitedInv, Busy
    <2>4. \A u \in Threads : Busy(u, "Connect") /\ calls[u].peer = p =>
                               view'[p] = "crashed" \/ timeouts'[p] # 0
      BY <1>4, <2>2 DEF SessionInv, CallsAwaited, Busy
    <2>5. QED
      BY <1>1, <1>2, <2>1, <2>3, <2>4 DEF SessionInv, CallsAwaited, Busy
  <1>9. Registered'
    <2> SUFFICES ASSUME NEW q \in Peers
                 PROVE  /\ view'[q] = "chat" => isPeerConnected(q)'
                        /\ awaiting'[q] # NoThread /\ Busy(awaiting[q], "Connect")' /\ Past(awaiting[q])'
                             => isPeerConnected(q)'
                        /\ timeouts'[q] = 0 /\ isPeerConnected(q)' =>
                             /\ view'[q] \in {"login", "closed"} =>
                                   awaiting'[q] # NoThread /\ Busy(awaiting[q], "Connect")' /\ Past(awaiting[q])'
                             /\ view'[q] \in {"leaving", "closing"} => ~Past(awaiting[q])'
      BY DEF Registered
    <2>1. CASE q = p
      BY <1>3, <1>4, <1>5, <2>1 DEF SessionInv, Registered
    <2>2. CASE q # p
      BY <1>1, <1>2, <1>5, <2>2 DEF SessionInv, Registered, Busy, Past
    <2>3. QED
      BY <2>1, <2>2
  <1>10. QED
    BY <1>6, <1>7, <1>8, <1>9 DEF SessionInv

LEMMA DropSession ==
    ASSUME TypeInv, SessionInv, NEW t \in Threads, DropAnswer(t)
    PROVE  SessionInv'
  <1>1. /\ calls'[t] = NoCall /\ \A u \in Threads : u # t => calls'[u] = calls[u]
        /\ UNCHANGED <<clients, dispatch, view, pseudonym, awaiting, timeouts>>
    BY DEF DropAnswer, LocalStep, clientVars, TypeInv, TypeOK, ServiceTypeOK
  <1>2. \A p \in Peers : awaiting[p] # NoThread => awaiting[p] \in Threads /\ awaiting[p] # t
    BY DEF DropAnswer, TypeInv, TypeOK, ClientTypeOK
  <1>3. \A p \in Peers : isPeerConnected(p)' <=> isPeerConnected(p)
    BY <1>1 DEF isPeerConnected
  <1>4. NamesUsed'
    BY <1>1, <1>3 DEF SessionInv, NamesUsed
  <1>5. AwaitedInv'
    BY <1>1, <1>2 DEF SessionInv, AwaitedInv
  <1>6. CallsAwaited'
    BY <1>1 DEF SessionInv, CallsAwaited, Busy
  <1>7. Registered'
    <2>1. \A p \in Peers : awaiting[p] # NoThread =>
            /\ Past(awaiting[p])' <=> Past(awaiting[p])
            /\ Busy(awaiting[p], "Connect")' <=> Busy(awaiting[p], "Connect")
      BY <1>1, <1>2 DEF Past, Busy
    <2>2. \A p \in Peers : view[p] \in {"leaving", "closing"} => awaiting[p] # NoThread
      BY DEF SessionInv, AwaitedInv
    <2>3. QED
      BY <1>1, <1>3, <2>1, <2>2 DEF SessionInv, Registered
  <1>8. QED
    BY <1>4, <1>5, <1>6, <1>7 DEF SessionInv

LEMMA ClientSession ==
    ASSUME TypeInv, SessionInv, NEW p \in Peers, UserStep(p) \/ ReplyStep(p)
    PROVE  SessionInv'
  <1>1. ClientTypeOK
    BY DEF TypeInv, TypeOK
  <1>2. UNCHANGED <<clients, dispatch>>
    BY ClientShape
  <1>3. 0 \in Time
    BY ClockAssumption DEF Time
  <1>4. ASSUME NEW call \in Call, call.pc \in {"check", "duration", "lookup"}, Invoke(p, call)
        PROVE  \E t \in Threads : Starts(t, call) /\ awaiting' = [awaiting EXCEPT ![p] = t]
    BY <1>4, NoCallAssumption DEF Invoke, Starts
  <1>5. view = [view EXCEPT ![p] = view[p]]
    BY <1>1 DEF ClientTypeOK
  <1>6. ASSUME NEW n \in NamesOf[p], Login(p, n)
        PROVE  SessionInv'
    <2> DEFINE c == NewConnect(p, n)
    <2>1. c \in Call /\ c.pc = "check" /\ c.op = "Connect" /\ c.peer = p /\ c.pseudonym = n
      BY <1>3, ClientAssumption DEF NewConnect, ConnectCall, Call
    <2>2. /\ Invoke(p, c) /\ awaiting[p] = NoThread /\ view[p] = "login"
          /\ UNCHANGED <<view, pseudonym, timeouts>>
      BY <1>6 DEF Login, Responsive
    <2> HIDE DEF c
    <2>3. QED
      BY <1>2, <1>4, <1>5, <2>1, <2>2, StartSession
  <1>7. ASSUME NEW next \in {"leaving", "closing"}, PrepareClose(p, next), Responsive(p),
               view[p] \in {"login", "chat"}, pseudonym[p] # NoName
        PROVE  SessionInv'
    <2> DEFINE c == NewDisconnect(p, pseudonym[p])
    <2>1. c \in Call /\ c.pc = "duration" /\ c.op = "Disconnect" /\ c.peer = p /\ c.pseudonym = pseudonym[p]
      BY <1>1, <1>3, <1>7 DEF NewDisconnect, DisconnectCall, Call, ClientTypeOK
    <2>2. pseudonym[p] \in NamesOf[p]
      BY <1>7 DEF SessionInv, NamesUsed
    <2>3. /\ Invoke(p, c) /\ awaiting[p] = NoThread /\ view' = [view EXCEPT ![p] = next]
          /\ UNCHANGED <<pseudonym, timeouts>>
      BY <1>7 DEF PrepareClose, Responsive, SetView
    <2> HIDE DEF c
    <2>4. QED
      BY <1>2, <1>4, <1>7, <2>1, <2>2, <2>3, StartSession
  <1>8. ASSUME NEW recipient \in Recipients, NEW content \in Lengths,
               SendMessage(p, recipient, content)
        PROVE  SessionInv'
    <2> DEFINE c == NewSendMessage(p, pseudonym[p], recipient, content)
    <2>1. c \in Call /\ c.pc = "lookup" /\ c.op = "SendMessage" /\ c.peer = p
      BY <1>1, <1>3, <1>8, ClientAssumption DEF NewSendMessage, SendMessageCall, Call, ClientTypeOK,
                                                SendMessage
    <2>2. /\ Invoke(p, c) /\ awaiting[p] = NoThread /\ view[p] \in {"login", "chat"}
          /\ UNCHANGED <<view, pseudonym, timeouts>>
      BY <1>8 DEF SendMessage, Responsive
    <2> HIDE DEF c
    <2>3. QED
      BY <1>2, <1>4, <1>5, <2>1, <2>2, StartSession
  <1>9. CASE ReplyStep(p)
    <2> DEFINE t == awaiting[p]
    <2>1. /\ t \in Threads /\ Ends(t) /\ awaiting' = [awaiting EXCEPT ![p] = NoThread]
          /\ UNCHANGED timeouts
      BY <1>1, <1>9 DEF ReplyStep, LoginSucceeded, LoginRejected, Disconnected, MessageSent, Returned,
                        Return, ClientTypeOK, Ends, Answered, At
    <2>2. CASE LoginSucceeded(p)
      <3>1. /\ calls[t].op = "Connect" /\ calls[t].pc = "accepted" /\ calls[t].peer = p
            /\ calls[t] # NoCall /\ view' = [view EXCEPT ![p] = "chat"]
            /\ pseudonym' = [pseudonym EXCEPT ![p] = calls[t].pseudonym]
        BY <2>2 DEF LoginSucceeded, Returned, At, SetView, SessionInv, AwaitedInv
      <3>2. calls[t].pseudonym \in NamesOf[p]
        BY <2>1, <3>1 DEF SessionInv, NamesUsed
      <3>3. \A q \in Peers : pseudonym'[q] = pseudonym[q] \/ (q = p /\ pseudonym'[q] \in NamesOf[q])
        BY <1>1, <3>1, <3>2 DEF ClientTypeOK
      <3>4. QED
        BY <1>2, <2>1, <3>1, <3>3, EndSession
    <2>3. CASE LoginRejected(p) \/ MessageSent(p)
      <3>1. /\ calls[t].op = "Connect" => calls[t].pc = "rejected"
            /\ UNCHANGED <<view, pseudonym>>
            /\ calls[t].op \in {"Connect", "SendMessage"} /\ awaiting[p] # NoThread
        BY <2>3 DEF LoginRejected, MessageSent, Returned, At
      <3>2. view[p] \in {"login", "chat"}
        <4>1. view[p] \notin {"leaving", "closing", "closed", "crashed"}
          BY <3>1 DEF SessionInv, AwaitedInv
        <4>2. QED
          BY <1>1, <4>1 DEF ClientTypeOK
      <3>3. QED
        BY <1>2, <1>5, <2>1, <3>1, <3>2, EndSession
    <2>4. CASE Disconnected(p)
      <3> DEFINE v == IF view[p] = "leaving" THEN "login" ELSE "closed"
      <3>1. /\ calls[t].op = "Disconnect" /\ calls[t].pc = "ok"
            /\ view' = [view EXCEPT ![p] = v] /\ UNCHANGED pseudonym
        BY <2>4 DEF Disconnected, Returned, At, SetView
      <3>2. v \in {"login", "chat", "closed"} /\ v # "chat"
        OBVIOUS
      <3> HIDE DEF v
      <3>3. QED
        BY <1>2, <2>1, <3>1, <3>2, EndSession
    <2>5. QED
      BY <1>9, <2>2, <2>3, <2>4 DEF ReplyStep
  <1>10. CASE Disconnect(p) \/ CloseWindow(p)
    BY <1>1, <1>7, <1>10 DEF Disconnect, CloseWindow, ClientTypeOK
  <1>11. QED
    BY <1>6, <1>8, <1>9, <1>10, QuitSession DEF UserStep

LEMMA InitSession == Init => WalkInv /\ SessionInv
  <1> SUFFICES ASSUME Init
               PROVE  WalkInv /\ SessionInv
    OBVIOUS
  <1>1. /\ \A t \in Threads : calls[t] = NoCall
        /\ \A p \in Peers : ~isPeerConnected(p)
        /\ \A p \in Peers : view[p] = "login" /\ awaiting[p] = NoThread /\ pseudonym[p] = NoName
        /\ dispatch = Unlocked
    BY DEF Init, ServiceInit, ClientInit, RegistryInit, DispatcherInit, isPeerConnected
  <1>2. WalkInv
    BY <1>1 DEF WalkInv
  <1>3. SessionInv
    BY <1>1 DEF SessionInv, NamesUsed, AwaitedInv, CallsAwaited, Registered, Busy
  <1>4. QED
    BY <1>2, <1>3

LEMMA NextSession ==
    ASSUME TypeInv, WalkInv, SessionInv, NamesAreOwn, [Next]_vars
    PROVE  SessionInv'
  <1>1. CASE UNCHANGED <<serverVars, clientVars>>
    <2>1. UNCHANGED <<clients, clientVars, calls, dispatch>>
      BY <1>1 DEF serverVars
    <2>2. \A t \in Threads : (Past(t)' <=> Past(t)) /\ (calls[t] # NoCall => SameCall(calls[t], calls'[t]))
      BY <2>1 DEF Past, SameCall
    <2>3. QED
      BY <2>1, <2>2, SessionFrame
  <1>2. ASSUME NEW t \in Threads, HandlerStep(t) \/ DropAnswer(t)
        PROVE  SessionInv'
    BY <1>2, HandlerSession, DropSession
  <1>3. ASSUME NEW p \in Peers, UserStep(p) \/ ReplyStep(p)
        PROVE  SessionInv'
    BY <1>3, ClientSession
  <1>4. QED
    BY <1>1, <1>2, <1>3, ObserverSession DEF Next, vars

LEMMA SessionSafe == Spec => [](TypeInv /\ WalkInv /\ (NamesAreOwn => SessionInv))
  <1> DEFINE IInv == TypeInv /\ WalkInv /\ (NamesAreOwn => SessionInv)
  <1>1. Init => IInv
    BY InitTyped, InitSession
  <1>2. IInv /\ [Next]_vars => IInv'
    <2>1. NamesAreOwn' <=> NamesAreOwn
      BY DEF NamesAreOwn
    <2>2. QED
      BY <2>1, NextTyped, WalkKept, NextSession
  <1>3. QED
    BY <1>1, <1>2, PTL DEF Spec

\* With names of their own, clients that show the chat view are registered
\* under the name they show: nothing another client, a late Connect or a
\* Disconnect of another does puts them out.
THEOREM ChatRegistered == Spec => []ChatImpliesRegistered
  <1>1. TypeInv /\ (NamesAreOwn => SessionInv) => ChatImpliesRegistered
    <2> SUFFICES ASSUME TypeInv, SessionInv, NamesAreOwn, NEW p \in Peers, view[p] = "chat"
                 PROVE  isPeerConnected(p) /\ clients[p].pseudonym = pseudonym[p]
      BY DEF ChatImpliesRegistered
    <2>1. isPeerConnected(p)
      BY DEF SessionInv, Registered
    <2>2. clients[p].pseudonym \in NamesOf[p]
      BY <2>1 DEF SessionInv, NamesUsed
    <2>3. pseudonym[p] \in NamesOf[p]
      BY DEF SessionInv, NamesUsed, TypeInv, TypeOK, ClientTypeOK
    <2>4. QED
      BY <2>1, <2>2, <2>3 DEF NamesAreOwn
  <1>2. QED
    BY <1>1, SessionSafe, PTL

\* With names of their own, clients that are back at the login view or closed,
\* and that never gave up on a Connect, have left the registry.
THEOREM GoneUnregistered == Spec => []GoneImpliesUnregistered
  <1>1. (NamesAreOwn => SessionInv) => GoneImpliesUnregistered
    BY DEF GoneImpliesUnregistered, SessionInv, Registered, Responsive
  <1>2. QED
    BY <1>1, SessionSafe, PTL

-----------------------------------------------------------------------------
(* The event log.                                                          *)

\* The registry has heard of the event, the log of arrivals has not.
InFlight(n) ==
    /\ dispatch # Unlocked
    /\ dispatch.event.kind \in {"ClientConnected", "ClientDisconnected"}
    /\ dispatch.event.pseudonym = n
    /\ dispatch.next \in {2, 3}

\* But for the event in flight, log and registry agree; of that event the
\* registry knows what the log is about to say.
LogInv ==
    \A n \in Pseudonyms :
       IF InFlight(n)
         THEN PeersNamed(n) # {} <=> dispatch.event.kind = "ClientConnected"
         ELSE PeersNamed(n) # {} <=> Announced(n)

\* The last entry about a name decides.
LEMMA AnnouncedAppend ==
    ASSUME ClientEventsTypeOK, NEW e \in ClientEventData, clientEvents' = Append(clientEvents, e),
           NEW n
    PROVE  Announced(n)' <=> IF e.pseudonym = n THEN e.type = "ADD" ELSE Announced(n)
  <1> DEFINE k == Len(clientEvents)
  <1>1. /\ k \in Nat /\ DOMAIN clientEvents = 1..k /\ DOMAIN clientEvents' = 1..(k + 1)
        /\ clientEvents'[k + 1] = e /\ \A i \in 1..k : clientEvents'[i] = clientEvents[i]
    BY DEF ClientEventsTypeOK
  <1> HIDE DEF k
  <1>2. CASE e.pseudonym = n
    BY <1>1, <1>2 DEF Announced
  <1>3. CASE e.pseudonym # n
    <2>1. \A i \in 1..(k + 1) : clientEvents'[i].pseudonym = n <=>
                                  i \in 1..k /\ clientEvents[i].pseudonym = n
      BY <1>1, <1>3
    <2>2. QED
      BY <1>1, <1>3, <2>1 DEF Announced
  <1>4. QED
    BY <1>2, <1>3

\* A step that leaves the log and the registry alone, and no event in flight
\* or none else.
LEMMA LogFrame ==
    ASSUME LogInv, UNCHANGED <<clients, clientEvents>>,
           \A n \in Pseudonyms : InFlight(n)' <=> InFlight(n),
           \A n \in Pseudonyms : InFlight(n) => dispatch'.event.kind = dispatch.event.kind
    PROVE  LogInv'
  <1>1. \A n \in Pseudonyms : PeersNamed(n)' = PeersNamed(n) /\ (Announced(n)' <=> Announced(n))
    BY DEF PeersNamed, isPeerConnected, Announced
  <1>2. QED
    BY <1>1 DEF LogInv

\* What is in flight after an observer's return.
LEMMA InFlightNext ==
    ASSUME TypeInv, dispatch # Unlocked, Returns, NEW n,
           NEW e, e = dispatch.event, NEW k, k = dispatch.next
    PROVE  InFlight(n)' <=> /\ e.kind \in {"ClientConnected", "ClientDisconnected"}
                            /\ e.pseudonym = n
                            /\ k \in {1, 2}
  <1>1. k \in 1..4
    BY DEF TypeInv, TypeOK, DispatcherTypeOK, Dispatch
  <1>2. CASE dispatch' = Unlocked
    <2>1. k = Len(Observers[e.kind])
      BY <1>2 DEF Returns, LastObserver
    <2>2. Len(Observers["ClientConnected"]) = 3 /\ Len(Observers["ClientDisconnected"]) = 4
      BY DEF Observers
    <2>3. e.kind \in {"ClientConnected", "ClientDisconnected"} => k = 3 \/ k = 4
      BY <2>1, <2>2
    <2>4. ~InFlight(n)'
      BY <1>2 DEF InFlight
    <2>5. QED
      BY <2>3, <2>4
  <1>3. CASE dispatch' # Unlocked
    BY <1>1, <1>3 DEF Returns, InFlight
  <1>4. QED
    BY <1>2, <1>3

LEMMA ObserverLog ==
    ASSUME TypeInv, WalkInv, SessionInv, NamesAreOwn, LogInv, ObserverStep
    PROVE  LogInv'
  <1> PICK e, k, q, o : e = dispatch.event /\ k = dispatch.next /\ q = e.peer /\ o = dispatch.owner
    OBVIOUS
  <1>1. dispatch # Unlocked /\ Returns
    BY ObserverShape
  <1>2. \A n : InFlight(n)' <=> /\ e.kind \in {"ClientConnected", "ClientDisconnected"}
                                /\ e.pseudonym = n
                                /\ k \in {1, 2}
    BY <1>1, InFlightNext
  <1>3. \A n : InFlight(n) <=> /\ e.kind \in {"ClientConnected", "ClientDisconnected"}
                               /\ e.pseudonym = n
                               /\ k \in {2, 3}
    BY <1>1 DEF InFlight
  <1>4. \A n : InFlight(n)' => dispatch'.event = e
    BY <1>1 DEF Returns, InFlight
  <1>5. UNCHANGED clientEvents => \A n : Announced(n)' <=> Announced(n)
    BY DEF Announced
  <1>6. UNCHANGED clients => \A n : PeersNamed(n)' = PeersNamed(n)
    BY DEF PeersNamed, isPeerConnected
  <1>7. CASE RegistryConnected
    <2>1. /\ k = 1 /\ q \in Peers /\ e.kind = "ClientConnected" /\ e.pseudonym \in NamesOf[q]
          /\ \A p \in Peers : p # q => clients'[p] = clients[p]
          /\ clients'[q].pseudonym = e.pseudonym /\ clients'[q] # NoClient
      BY <1>7, Entered DEF SessionInv
    <2>2. isPeerConnected(q) => clients[q].pseudonym = e.pseudonym
      BY <2>1 DEF SessionInv, NamesUsed, NamesAreOwn
    <2>3. /\ q \in PeersNamed(e.pseudonym)'
          /\ \A n : n # e.pseudonym => PeersNamed(n)' = PeersNamed(n)
      BY <2>1, <2>2 DEF PeersNamed, isPeerConnected
    <2>4. UNCHANGED clientEvents
      BY <1>7 DEF RegistryConnected, clientEventVars
    <2>5. QED
      BY <1>2, <1>3, <1>4, <1>5, <2>1, <2>3, <2>4 DEF LogInv
  <1>8. CASE RegistryDisconnected
    <2>1. /\ k = 1 /\ q \in Peers /\ e.kind = "ClientDisconnected" /\ e.pseudonym \in NamesOf[q]
          /\ \A p \in Peers : /\ isPeerConnected(p)' <=> isPeerConnected(p) /\ p # q
                              /\ p # q => clients'[p] = clients[p]
      BY <1>8, Erased DEF SessionInv
    <2>2. \A p \in Peers : isPeerConnected(p) =>
             (p = q <=> clients[p].pseudonym = e.pseudonym)
      BY <2>1 DEF SessionInv, NamesUsed, NamesAreOwn
    <2>3. /\ PeersNamed(e.pseudonym)' = {}
          /\ \A n : n # e.pseudonym => PeersNamed(n)' = PeersNamed(n)
      BY <2>1, <2>2 DEF PeersNamed
    <2>4. UNCHANGED clientEvents
      BY <1>8 DEF RegistryDisconnected, clientEventVars
    <2>5. QED
      BY <1>2, <1>3, <1>4, <1>5, <2>1, <2>3, <2>4 DEF LogInv
  <1>9. CASE EventsLog
    <2>1. PICK kind \in {"ClientConnected", "ClientDisconnected"} :
             /\ Notifies("clientEvents", kind)
             /\ clientEvents' = Append(clientEvents,
                  [type |-> IF kind = "ClientConnected" THEN "ADD" ELSE "REMOVE",
                   pseudonym |-> e.pseudonym])
      BY <1>9 DEF EventsLog, EventsOnClientConnected, EventsOnClientDisconnected, broadcastClientEvent
    <2> DEFINE entry == [type |-> IF kind = "ClientConnected" THEN "ADD" ELSE "REMOVE",
                         pseudonym |-> e.pseudonym]
    <2>2. k = 3 /\ e.kind = kind /\ e.pseudonym \in Pseudonyms
      BY <2>1, NotifiedEvent, RegistryFirst DEF ClientConnectedEvent, ClientDisconnectedEvent
    <2>3. /\ entry \in ClientEventData /\ entry.pseudonym = e.pseudonym
          /\ entry.type = "ADD" <=> kind = "ClientConnected"
      BY <2>2 DEF ClientEventData
    <2>4. ClientEventsTypeOK /\ clientEvents' = Append(clientEvents, entry)
      BY <2>1 DEF TypeInv, TypeOK
    <2> HIDE DEF entry
    <2>5. \A n : Announced(n)' <=> IF e.pseudonym = n THEN kind = "ClientConnected" ELSE Announced(n)
      BY <2>3, <2>4, AnnouncedAppend
    <2>6. UNCHANGED clients
      BY <1>9 DEF EventsLog
    <2>7. QED
      BY <1>2, <1>3, <1>6, <2>2, <2>5, <2>6 DEF LogInv
  <1>10. CASE DatabaseLogs \/ MessagesStore \/ PrivateQueues
    <2>1. UNCHANGED <<clients, clientEvents>>
      BY <1>10 DEF DatabaseLogs, MessagesStore, PrivateQueues, clientEventVars
    <2>2. e.kind \in {"ClientConnected", "ClientDisconnected"} => k \notin {1, 3}
      <3>1. ASSUME NEW x, NEW kind \in {"ClientConnected", "ClientDisconnected"}, Notifies(x, kind),
                   x \notin {"registry", "clientEvents"}
            PROVE  k \notin {1, 3}
        BY <3>1, RegistryFirst
      <3>2. PICK x \in {"database", "messages", "privateMessages"} :
               Notifies(x, e.kind)
        BY <1>10 DEF DatabaseLogs, MessagesStore, PrivateQueues, Notifies
      <3>3. QED
        BY <3>1, <3>2
    <2>3. k \in 1..4
      BY <1>1 DEF TypeInv, TypeOK, DispatcherTypeOK, Dispatch
    <2>4. \A n : InFlight(n)' <=> InFlight(n)
      BY <1>2, <1>3, <2>2, <2>3
    <2>5. QED
      BY <1>4, <2>1, <2>4, LogFrame
  <1>11. QED
    BY <1>7, <1>8, <1>9, <1>10 DEF ObserverStep

LEMMA NextLog ==
    ASSUME TypeInv, WalkInv, SessionInv, NamesAreOwn, LogInv, [Next]_vars
    PROVE  LogInv'
  <1>1. CASE UNCHANGED <<clients, clientEvents, dispatch>>
    BY <1>1, LogFrame DEF InFlight
  <1>2. ASSUME NEW t \in Threads, HandlerStep(t)
        PROVE  LogInv'
    <2>1. Shape(t)
      BY <1>2, HandlerShape
    <2>2. CASE dispatch = Unlocked /\ dispatch' # Unlocked /\ dispatch'.next = 1
      BY <2>1, <2>2, LogFrame DEF Shape, InFlight
    <2>3. QED
      BY <1>1, <2>1, <2>2 DEF Shape
  <1>3. ASSUME NEW t \in Threads, DropAnswer(t)
        PROVE  LogInv'
    BY <1>1, <1>3 DEF DropAnswer, LocalStep, clientEventVars
  <1>4. ASSUME NEW p \in Peers, UserStep(p) \/ ReplyStep(p)
        PROVE  LogInv'
    BY <1>1, <1>4, ClientShape
  <1>5. CASE UNCHANGED <<serverVars, clientVars>>
    BY <1>1, <1>5 DEF serverVars, clientEventVars
  <1>6. QED
    BY <1>2, <1>3, <1>4, <1>5, ObserverLog DEF Next, vars

\* With users that have names of their own, the log of arrivals that every
\* roster is built from and the registry agree between two events.
THEOREM EventLogRight == Spec => []EventLogAgrees
  <1> DEFINE IInv == TypeInv /\ WalkInv /\ (NamesAreOwn => SessionInv)
             LInv == NamesAreOwn => LogInv
  <1>1. Init => LInv
    <2> SUFFICES ASSUME Init, NEW n \in Pseudonyms
                 PROVE  dispatch = Unlocked /\ PeersNamed(n) = {} /\ ~Announced(n)
      BY DEF LogInv, InFlight
    <2>1. dispatch = Unlocked /\ PeersNamed(n) = {} /\ clientEvents = <<>>
      BY DEF Init, ServiceInit, RegistryInit, DispatcherInit, ClientEventsInit, PeersNamed,
             isPeerConnected
    <2>2. QED
      BY <2>1 DEF Announced
  <1>2. IInv /\ LInv /\ [Next]_vars => LInv'
    <2>1. NamesAreOwn' <=> NamesAreOwn
      BY DEF NamesAreOwn
    <2>2. QED
      BY <2>1, NextLog
  <1>3. LInv => EventLogAgrees
    BY DEF LogInv, EventLogAgrees, InFlight
  <1>4. Spec => []IInv
    BY SessionSafe
  <1>5. QED
    BY <1>1, <1>2, <1>3, <1>4, PTL DEF Spec

-----------------------------------------------------------------------------
(* Whose names messages carry, whoever else may use them.                  *)

\* A SendMessage writes under its caller's name, to a name of its recipient's.
Addressed(call) ==
    /\ call.pc \in {"validate", "recipient", "notify", "dispatching"} =>
         call.pseudonym \in NamesOf[call.peer]
    /\ call.recipient # Everyone /\ call.pc \in {"notify", "dispatching"} =>
         call.recipient \in NamesOf[call.recipientPeer]

Announcing(event) ==
    /\ event.kind = "MessageSent" => event.pseudonym \in NamesOf[event.peer]
    /\ event.kind = "PrivateMessageSent" =>
         event.recipientPseudonym \in NamesOf[event.recipientPeer]

RouteInv ==
    /\ NamesUsed
    /\ \A t \in Threads : Busy(t, "SendMessage") => Addressed(calls[t])
    /\ dispatch # Unlocked => Announcing(dispatch.event)

LEMMA RouteFrame ==
    ASSUME RouteInv, UNCHANGED <<calls, clients, dispatch, pseudonym>>
    PROVE  RouteInv'
  BY DEF RouteInv, NamesUsed, Busy, isPeerConnected, Addressed, Announcing

\* The call in t becomes c, and whatever it raises carries the right names.
LEMMA RouteCall ==
    ASSUME TypeInv, RouteInv, NEW t \in Threads, NEW c, calls' = [calls EXCEPT ![t] = c],
           c # NoCall /\ c.op # "SendMessage" => c.pseudonym \in NamesOf[c.peer],
           c # NoCall /\ c.op = "SendMessage" => Addressed(c),
           UNCHANGED clients,
           \A p \in Peers : pseudonym'[p] = pseudonym[p] \/ pseudonym'[p] \in NamesOf[p],
           dispatch' = dispatch \/ (dispatch' # Unlocked => Announcing(dispatch'.event))
    PROVE  RouteInv'
  <1>1. calls'[t] = c /\ \A u \in Threads : u # t => calls'[u] = calls[u]
    BY DEF TypeInv, TypeOK, ServiceTypeOK
  <1>2. \A p \in Peers : isPeerConnected(p)' <=> isPeerConnected(p)
    BY DEF isPeerConnected
  <1>3. NamesUsed'
    BY <1>1, <1>2 DEF RouteInv, NamesUsed
  <1>4. \A u \in Threads : Busy(u, "SendMessage")' => Addressed(calls'[u])
    BY <1>1 DEF RouteInv, Busy
  <1>5. dispatch' # Unlocked => Announcing(dispatch'.event)
    BY DEF RouteInv
  <1>6. QED
    BY <1>3, <1>4, <1>5 DEF RouteInv, Busy, Addressed, Announcing

\* Connect and Disconnect keep their names, SendMessage finds them in the
\* registry.
LEMMA HandlerRoute ==
    ASSUME TypeInv, RouteInv, NEW t \in Threads, HandlerStep(t)
    PROVE  RouteInv'
  <1> PICK c : c = calls[t]
    OBVIOUS
  <1>1. Shape(t) /\ CallsTyped
    BY HandlerShape DEF TypeInv, TypeOK, ServiceTypeOK, CallsTyped
  <1>2. UNCHANGED clients /\ \A p \in Peers : pseudonym'[p] = pseudonym[p]
    BY <1>1 DEF Shape, clientVars
  <1>3. /\ c # NoCall /\ calls'[t] # NoCall /\ calls'[t].op = c.op /\ calls'[t].peer = c.peer
        /\ c.op # "SendMessage" => calls'[t].pseudonym = c.pseudonym
        /\ dispatch' = dispatch \/ RaisedBy(dispatch'.event, calls'[t])
    BY <1>1 DEF Shape, SameCall
  <1>4. CASE c.op # "SendMessage"
    <2>1. calls' = [calls EXCEPT ![t] = calls'[t]]
      BY <1>1 DEF Shape, CallsTyped, HandlerStep, ConnectCheck, ConnectRoster, ConnectNotify,
                  DisconnectDuration, DisconnectNotify, SendLookup, SendValidate, SendRecipient,
                  SendNotify, Notify, Goto, Continue
    <2>2. calls'[t].pseudonym \in NamesOf[calls'[t].peer]
      BY <1>3, <1>4 DEF RouteInv, NamesUsed
    <2>3. dispatch' = dispatch \/ Announcing(dispatch'.event)
      BY <1>3, <1>4 DEF RaisedBy, Announcing
    <2> QED
      BY <1>2, <1>3, <1>4, <2>1, <2>2, <2>3, RouteCall
  <1>5. CASE c.op = "SendMessage"
    <2>1. c \in SendMessageCall
      BY <1>1, <1>3, <1>5, CallOfOp
    <2>2. Addressed(c)
      BY <1>3, <1>5 DEF RouteInv, Busy
    <2>3. ASSUME NEW d, calls' = [calls EXCEPT ![t] = d], d.op = "SendMessage", Addressed(d),
                 dispatch' = dispatch \/ Announcing(dispatch'.event)
          PROVE  RouteInv'
      BY <1>2, <2>3, RouteCall
    <2>4. ASSUME Goto(t, "refused"), UNCHANGED dispatch
          PROVE  RouteInv'
      <3> DEFINE d == [c EXCEPT !.pc = "refused"]
      <3>1. calls' = [calls EXCEPT ![t] = d]
        BY <2>4 DEF Goto, Continue
      <3>2. d.op = "SendMessage" /\ d.pc = "refused"
        BY <2>1 DEF SendMessageCall
      <3> HIDE DEF d
      <3>3. Addressed(d)
        BY <3>2 DEF Addressed
      <3>4. QED
        BY <2>3, <2>4, <3>1, <3>2, <3>3
    <2>5. CASE SendLookup(t)
      <3> DEFINE d == [c EXCEPT !.pc = "validate", !.pseudonym = getPseudonymForPeer(c.peer)]
      <3>1. CASE isPeerConnected(c.peer)
        <4>1. calls' = [calls EXCEPT ![t] = d] /\ UNCHANGED dispatch
          BY <2>5, <3>1 DEF SendLookup, Continue, LocalStep
        <4>2. /\ d.op = "SendMessage" /\ d.pc = "validate" /\ d.peer = c.peer
              /\ d.pseudonym = getPseudonymForPeer(c.peer) /\ c.peer \in Peers
          BY <2>1 DEF SendMessageCall
        <4> HIDE DEF d
        <4>3. d.pseudonym \in NamesOf[d.peer]
          BY <3>1, <4>2 DEF getPseudonymForPeer, RouteInv, NamesUsed
        <4>4. Addressed(d)
          BY <4>2, <4>3 DEF Addressed
        <4>5. QED
          BY <2>3, <4>1, <4>2, <4>4
      <3>2. CASE ~isPeerConnected(c.peer)
        BY <2>4, <2>5, <3>2 DEF SendLookup, LocalStep
      <3>3. QED
        BY <3>1, <3>2
    <2>6. CASE SendValidate(t)
      <3> DEFINE d == [c EXCEPT !.pc = IF c.recipient = Everyone THEN "notify" ELSE "recipient",
                                !.timestamp = now]
      <3>1. CASE calls' = [calls EXCEPT ![t] = d] /\ UNCHANGED dispatch
        <4>1. /\ d.op = "SendMessage" /\ d.peer = c.peer /\ d.recipient = c.recipient
              /\ d.pseudonym = c.pseudonym
              /\ d.pc = IF c.recipient = Everyone THEN "notify" ELSE "recipient"
          BY <2>1 DEF SendMessageCall
        <4>2. c.pc = "validate"
          BY <2>6 DEF SendValidate, At
        <4> HIDE DEF d
        <4>3. Addressed(d)
          BY <2>2, <4>1, <4>2 DEF Addressed
        <4>4. QED
          BY <2>3, <3>1, <4>1, <4>3
      <3>2. \/ calls' = [calls EXCEPT ![t] = d] /\ UNCHANGED dispatch
            \/ Goto(t, "refused") /\ UNCHANGED dispatch
        BY <2>6 DEF SendValidate, Continue
      <3>3. QED
        BY <2>4, <3>1, <3>2
    <2>7. CASE SendRecipient(t)
      <3>1. ASSUME NEW q \in getPeerForPseudonym(c.recipient),
                   Continue(t, [c EXCEPT !.pc = "notify", !.recipientPeer = q])
            PROVE  RouteInv'
        <4> DEFINE d == [c EXCEPT !.pc = "notify", !.recipientPeer = q]
        <4>1. calls' = [calls EXCEPT ![t] = d] /\ UNCHANGED dispatch
          BY <2>7, <3>1 DEF SendRecipient, Continue, LocalStep
        <4>2. /\ d.op = "SendMessage" /\ d.pc = "notify" /\ d.peer = c.peer
              /\ d.pseudonym = c.pseudonym /\ d.recipient = c.recipient /\ d.recipientPeer = q
          BY <2>1 DEF SendMessageCall
        <4>3. c.pc = "recipient"
          BY <2>7 DEF SendRecipient, At
        <4> HIDE DEF d
        <4>4. c.recipient \in NamesOf[q]
          BY <3>1 DEF getPeerForPseudonym, PeersNamed, RouteInv, NamesUsed
        <4>5. Addressed(d)
          BY <2>2, <4>2, <4>3, <4>4 DEF Addressed
        <4>6. QED
          BY <2>3, <4>1, <4>2, <4>5
      <3>2. QED
        BY <2>4, <2>7, <3>1 DEF SendRecipient, LocalStep
    <2>8. CASE SendNotify(t)
      <3> DEFINE d == [c EXCEPT !.pc = "dispatching"]
                 e == SentEvent(c)
      <3>1. calls' = [calls EXCEPT ![t] = d] /\ Lock(t, e) /\ c.pc = "notify"
        BY <2>8 DEF SendNotify, Notify, Goto, Continue, At
      <3>2. /\ d.op = "SendMessage" /\ d.pc = "dispatching" /\ d.peer = c.peer
            /\ d.pseudonym = c.pseudonym /\ d.recipient = c.recipient
            /\ d.recipientPeer = c.recipientPeer
        BY <2>1 DEF SendMessageCall
      <3>3. /\ e.kind = "MessageSent" => e.pseudonym = c.pseudonym /\ e.peer = c.peer
            /\ e.kind = "PrivateMessageSent" =>
                 /\ c.recipient # Everyone
                 /\ e.recipientPseudonym = c.recipient /\ e.recipientPeer = c.recipientPeer
        BY DEF SentEvent
      <3> HIDE DEF d, e
      <3>4. dispatch'.event = e
        BY <3>1 DEF Lock
      <3>5. Addressed(d) /\ Announcing(e)
        BY <2>2, <3>1, <3>2, <3>3 DEF Addressed, Announcing
      <3>6. QED
        BY <2>3, <3>1, <3>2, <3>4, <3>5
    <2>9. SendLookup(t) \/ SendValidate(t) \/ SendRecipient(t) \/ SendNotify(t)
      BY <1>5 DEF HandlerStep, ConnectCheck, ConnectRoster, ConnectNotify, DisconnectDuration,
                  DisconnectNotify, Notify, At
    <2>10. QED
      BY <2>5, <2>6, <2>7, <2>8, <2>9
  <1>6. QED
    BY <1>4, <1>5

\* The registry's callbacks enter a name of the peer's, or take an entry away.
LEMMA ObserverRoute ==
    ASSUME TypeInv, WalkInv, RouteInv, ObserverStep
    PROVE  RouteInv'
  <1>1. Returns /\ dispatch # Unlocked /\ UNCHANGED clientVars
    BY ObserverShape
  <1>2. \A p \in Peers : isPeerConnected(p)' =>
          clients'[p].pseudonym \in NamesOf[p]
    <2>1. CASE RegistryConnected
      <3>1. PICK q \in Peers : /\ \A p \in Peers : p # q => clients'[p] = clients[p]
                               /\ clients'[q].pseudonym \in NamesOf[q]
        BY <2>1, Entered DEF RouteInv
      <3>2. QED
        BY <3>1 DEF RouteInv, NamesUsed, isPeerConnected
    <2>2. CASE RegistryDisconnected
      <3>1. \/ clients' = clients
            \/ \E q \in Peers : clients' = [clients EXCEPT ![q] = NoClient]
        BY <2>2 DEF RegistryDisconnected, RegistryOnClientDisconnected, PeersNamed
      <3>2. \A p \in Peers : clients'[p] = clients[p] \/ clients'[p] = NoClient
        BY <3>1 DEF TypeInv, TypeOK, RegistryTypeOK
      <3>3. QED
        BY <3>2 DEF RouteInv, NamesUsed, isPeerConnected
    <2>3. CASE DatabaseLogs \/ EventsLog \/ MessagesStore \/ PrivateQueues
      BY <2>3 DEF DatabaseLogs, EventsLog, MessagesStore, PrivateQueues, RouteInv, NamesUsed,
                  isPeerConnected
    <2>4. QED
      BY <2>1, <2>2, <2>3 DEF ObserverStep
  <1>3. NamesUsed'
    <2>1. \A t \in Threads : calls'[t] # NoCall /\ calls'[t].op # "SendMessage" =>
                               calls'[t].pseudonym \in NamesOf[calls'[t].peer]
      BY <1>1, ReturnsCalls DEF RouteInv, NamesUsed, SameCall
    <2>2. \A p \in Peers : pseudonym'[p] \in NamesOf[p] \cup {NoName}
      BY <1>1 DEF RouteInv, NamesUsed, clientVars
    <2>3. QED
      BY <1>2, <2>1, <2>2 DEF NamesUsed
  <1>4. \A t \in Threads : Busy(t, "SendMessage")' => Addressed(calls'[t])
    BY <1>1 DEF Returns, RouteInv, Busy, Addressed, Answer
  <1>5. dispatch' # Unlocked => Announcing(dispatch'.event)
    BY <1>1 DEF Returns, RouteInv
  <1>6. QED
    BY <1>3, <1>4, <1>5 DEF RouteInv, Busy, Addressed, Announcing


\* The call a client waits for is its own.
OwnCalls ==
    \A p \in Peers : awaiting[p] # NoThread =>
                       calls[awaiting[p]] # NoCall /\ calls[awaiting[p]].peer = p

LEMMA OwnCallsKept ==
    ASSUME TypeInv, WalkInv, OwnCalls, [Next]_vars
    PROVE  OwnCalls'
  <1>1. /\ \A p \in Peers : awaiting[p] \in Threads \cup {NoThread}
        /\ DOMAIN awaiting = Peers /\ DOMAIN calls = Threads
    BY DEF TypeInv, TypeOK, ClientTypeOK, ServiceTypeOK
  <1>2. ASSUME \A p \in Peers : awaiting'[p] = awaiting[p] \/ awaiting'[p] = NoThread,
               \A t \in Threads : calls[t] # NoCall => SameCall(calls[t], calls'[t])
        PROVE  OwnCalls'
    BY <1>1, <1>2 DEF OwnCalls, SameCall
  <1>3. CASE UNCHANGED <<calls, awaiting>>
    BY <1>3 DEF OwnCalls
  <1>4. ASSUME NEW t \in Threads, HandlerStep(t)
        PROVE  OwnCalls'
    <2>1. Shape(t)
      BY <1>4, HandlerShape
    <2>2. UNCHANGED awaiting /\ \A u \in Threads : calls[u] # NoCall => SameCall(calls[u], calls'[u])
      BY <2>1 DEF Shape, SameCall, clientVars
    <2>3. QED
      BY <1>2, <2>2
  <1>5. CASE ObserverStep
    <2>1. Returns /\ dispatch # Unlocked /\ UNCHANGED awaiting
      BY <1>5, ObserverShape DEF clientVars
    <2>2. \A u \in Threads : calls[u] # NoCall => SameCall(calls[u], calls'[u])
      BY <2>1, ReturnsCalls
    <2>3. QED
      BY <1>2, <2>1, <2>2
  <1>6. ASSUME NEW p \in Peers, NEW c, c # NoCall, c.peer = p, Invoke(p, c)
        PROVE  OwnCalls'
    <2>1. PICK t \in Threads : /\ calls[t] = NoCall /\ calls' = [calls EXCEPT ![t] = c]
                               /\ awaiting' = [awaiting EXCEPT ![p] = t]
      BY <1>6 DEF Invoke
    <2>2. /\ calls'[t] = c /\ awaiting'[p] = t
          /\ \A u \in Threads : u # t => calls'[u] = calls[u]
          /\ \A q \in Peers : q # p => awaiting'[q] = awaiting[q]
      BY <1>1, <2>1
    <2>3. \A q \in Peers : awaiting[q] # t
      BY <2>1, ClientAssumption DEF OwnCalls
    <2>4. QED
      BY <1>1, <1>6, <2>2, <2>3 DEF OwnCalls
  <1>7. ASSUME NEW p \in Peers, UserStep(p)
        PROVE  OwnCalls'
    <2>0. 0 \in Time /\ ClientTypeOK
      BY ClockAssumption DEF Time, TypeInv, TypeOK
    <2>1. ASSUME NEW n \in NamesOf[p], Login(p, n)
          PROVE  OwnCalls'
      <3>1. NewConnect(p, n) \in Call /\ NewConnect(p, n).peer = p
        BY <2>0, ClientAssumption DEF NewConnect, ConnectCall, Call
      <3>2. NewConnect(p, n) # NoCall
        BY <3>1, NoCallAssumption
      <3>3. QED
        BY <1>6, <2>1, <3>1, <3>2 DEF Login
    <2>2. ASSUME NEW next, PrepareClose(p, next), pseudonym[p] # NoName
          PROVE  OwnCalls'
      <3>1. NewDisconnect(p, pseudonym[p]) \in Call /\ NewDisconnect(p, pseudonym[p]).peer = p
        BY <2>0, <2>2 DEF NewDisconnect, DisconnectCall, Call, ClientTypeOK
      <3>2. NewDisconnect(p, pseudonym[p]) # NoCall
        BY <3>1, NoCallAssumption
      <3>3. QED
        BY <1>6, <2>2, <3>1, <3>2 DEF PrepareClose
    <2>3. ASSUME NEW recipient \in Recipients, NEW content \in Lengths,
                 SendMessage(p, recipient, content)
          PROVE  OwnCalls'
      <3> DEFINE c == NewSendMessage(p, pseudonym[p], recipient, content)
      <3>1. c \in Call /\ c.peer = p
        BY <2>0, <2>3, ClientAssumption DEF NewSendMessage, SendMessageCall, Call, ClientTypeOK,
                                            SendMessage
      <3>2. c # NoCall
        BY <3>1, NoCallAssumption
      <3>3. Invoke(p, c)
        BY <2>3 DEF SendMessage
      <3> HIDE DEF c
      <3>4. QED
        BY <1>6, <3>1, <3>2, <3>3
    <2>4. CASE ConnectTimesOut(p) \/ Crash(p)
      <3>1. calls' = calls /\ awaiting' = [awaiting EXCEPT ![p] = NoThread]
        BY <2>4 DEF ConnectTimesOut, Crash
      <3>2. QED
        BY <1>1, <3>1 DEF OwnCalls
    <2>5. CASE CloseUnused(p)
      BY <1>3, <2>5 DEF CloseUnused
    <2>6. QED
      BY <1>7, <2>0, <2>1, <2>2, <2>3, <2>4, <2>5
         DEF UserStep, Disconnect, CloseWindow, ClientTypeOK
  <1>8. ASSUME NEW p \in Peers, ReplyStep(p)
        PROVE  OwnCalls'
    <2> PICK t : t = awaiting[p]
      OBVIOUS
    <2>1. /\ t \in Threads /\ calls' = [calls EXCEPT ![t] = NoCall]
          /\ awaiting' = [awaiting EXCEPT ![p] = NoThread]
      BY <1>1, <1>8 DEF ReplyStep, LoginSucceeded, LoginRejected, Disconnected, MessageSent,
                        Returned, Return
    <2>2. \A q \in Peers : q # p => awaiting[q] # t
      BY <2>1, ClientAssumption DEF OwnCalls
    <2>3. QED
      BY <1>1, <2>1, <2>2 DEF OwnCalls
  <1>9. ASSUME NEW t \in Threads, DropAnswer(t)
        PROVE  OwnCalls'
    BY <1>1, <1>9 DEF DropAnswer, OwnCalls, clientVars
  <1>10. CASE UNCHANGED <<serverVars, clientVars>>
    BY <1>3, <1>10 DEF serverVars, clientVars
  <1>11. QED
    BY <1>4, <1>5, <1>7, <1>8, <1>9, <1>10 DEF Next, vars

\* A client's step calls under a name of the user's, or ends a call.
LEMMA ClientRoute ==
    ASSUME TypeInv, OwnCalls, RouteInv, NEW p \in Peers, UserStep(p) \/ ReplyStep(p)
    PROVE  RouteInv'
  <1>1. ClientTypeOK /\ UNCHANGED <<clients, dispatch>>
    BY ClientShape DEF TypeInv, TypeOK
  <1>2. ASSUME NEW c, Invoke(p, c), UNCHANGED pseudonym,
               c.op # "SendMessage" => c.pseudonym \in NamesOf[c.peer],
               c.op = "SendMessage" => c.pc = "lookup"
        PROVE  RouteInv'
    <2>1. PICK t \in Threads : calls' = [calls EXCEPT ![t] = c]
      BY <1>2 DEF Invoke
    <2>2. c.op = "SendMessage" => Addressed(c)
      BY <1>2 DEF Addressed
    <2>3. QED
      BY <1>1, <1>2, <2>1, <2>2, RouteCall
  <1>3. ASSUME NEW n \in NamesOf[p], Login(p, n)
        PROVE  RouteInv'
    <2> DEFINE c == NewConnect(p, n)
    <2>1. Invoke(p, c) /\ UNCHANGED pseudonym
      BY <1>3 DEF Login
    <2>2. c.op = "Connect" /\ c.peer = p /\ c.pseudonym = n
      BY DEF NewConnect
    <2> HIDE DEF c
    <2>3. QED
      BY <1>2, <1>3, <2>1, <2>2
  <1>4. ASSUME NEW next, PrepareClose(p, next), pseudonym[p] # NoName
        PROVE  RouteInv'
    <2> DEFINE c == NewDisconnect(p, pseudonym[p])
    <2>1. Invoke(p, c) /\ UNCHANGED pseudonym
      BY <1>4 DEF PrepareClose
    <2>2. c.op = "Disconnect" /\ c.peer = p /\ c.pseudonym = pseudonym[p]
      BY DEF NewDisconnect
    <2> HIDE DEF c
    <2>3. c.pseudonym \in NamesOf[c.peer]
      BY <1>4, <2>2 DEF RouteInv, NamesUsed
    <2>4. QED
      BY <1>2, <2>1, <2>2, <2>3
  <1>5. ASSUME NEW recipient, NEW content, SendMessage(p, recipient, content)
        PROVE  RouteInv'
    <2> DEFINE c == NewSendMessage(p, pseudonym[p], recipient, content)
    <2>1. Invoke(p, c) /\ UNCHANGED pseudonym
      BY <1>5 DEF SendMessage
    <2>2. c.op = "SendMessage" /\ c.pc = "lookup"
      BY DEF NewSendMessage
    <2> HIDE DEF c
    <2>3. QED
      BY <1>2, <2>1, <2>2
  <1>6. CASE ReplyStep(p)
    <2> PICK t : t = awaiting[p]
      OBVIOUS
    <2>1. /\ t \in Threads /\ calls' = [calls EXCEPT ![t] = NoCall]
          /\ LoginSucceeded(p) \/ UNCHANGED pseudonym
      BY <1>1, <1>6 DEF ReplyStep, LoginSucceeded, LoginRejected, Disconnected, MessageSent,
                        Returned, Return, ClientTypeOK
    <2>2. ASSUME LoginSucceeded(p), NEW q \in Peers
          PROVE  pseudonym'[q] = pseudonym[q] \/ pseudonym'[q] \in NamesOf[q]
      <3>1. /\ calls[t] # NoCall /\ calls[t].op = "Connect" /\ calls[t].peer = p
            /\ pseudonym' = [pseudonym EXCEPT ![p] = calls[t].pseudonym]
        BY <2>2 DEF LoginSucceeded, Returned, At, OwnCalls
      <3>2. calls[t].pseudonym \in NamesOf[calls[t].peer]
        BY <2>1, <3>1 DEF RouteInv, NamesUsed
      <3>3. QED
        BY <1>1, <2>2, <3>1, <3>2 DEF ClientTypeOK
    <2>3. \A q \in Peers : pseudonym'[q] = pseudonym[q] \/ pseudonym'[q] \in NamesOf[q]
      BY <2>1, <2>2
    <2>4. QED
      BY <1>1, <2>1, <2>3, RouteCall
  <1>7. CASE ConnectTimesOut(p) \/ CloseUnused(p) \/ Crash(p)
    BY <1>1, <1>7, RouteFrame DEF ConnectTimesOut, CloseUnused, Crash
  <1>8. QED
    BY <1>1, <1>3, <1>4, <1>5, <1>6, <1>7 DEF UserStep, Disconnect, CloseWindow, ClientTypeOK

\* Answers are dropped, time goes on.
LEMMA RouteKept ==
    ASSUME TypeInv, WalkInv, OwnCalls, RouteInv, [Next]_vars
    PROVE  RouteInv'
  <1>1. ASSUME NEW t \in Threads, DropAnswer(t)
        PROVE  RouteInv'
    <2>1. /\ calls' = [calls EXCEPT ![t] = NoCall]
          /\ UNCHANGED <<clients, dispatch, pseudonym>>
      BY <1>1 DEF DropAnswer, LocalStep, clientVars
    <2>2. QED
      BY <2>1, RouteCall
  <1>2. CASE UNCHANGED <<serverVars, clientVars>>
    BY <1>2, RouteFrame DEF serverVars, clientVars
  <1>3. QED
    BY <1>1, <1>2, HandlerRoute, ObserverRoute, ClientRoute DEF Next, vars

LEMMA InitRoute == Init => OwnCalls /\ RouteInv
  BY InitSession DEF Init, ServiceInit, DispatcherInit, ClientInit, SessionInv, OwnCalls, RouteInv, Busy

\* A message of the history is under a name of its sender's.
AuthorsKnown ==
    \A k \in DOMAIN messageHistory : messageHistory[k].author \in NamesOf[messageHistory[k].sender]

LEMMA AuthorsKept ==
    ASSUME TypeInv, RouteInv, AuthorsKnown, [Next]_vars
    PROVE  AuthorsKnown'
  <1>1. CASE UNCHANGED messageHistory
    BY <1>1 DEF AuthorsKnown
  <1>2. CASE MessagesStore
    <2> DEFINE e == dispatch.event
               m == [author |-> e.pseudonym, content |-> e.content, sender |-> e.peer,
                     sentAt |-> e.sentAt]
    <2>1. messageHistory' = Append(messageHistory, m) /\ messageHistory \in Seq(Message)
      BY <1>2 DEF MessagesStore, MessagesOnMessageSent, TypeInv, TypeOK, MessagesTypeOK
    <2>2. m.author \in NamesOf[m.sender]
      <3>1. dispatch # Unlocked /\ e.kind = "MessageSent"
        BY <1>2, NotifiedEvent DEF MessagesStore
      <3>2. QED
        BY <3>1 DEF RouteInv, Announcing
    <2> HIDE DEF m
    <2>3. \A k \in DOMAIN messageHistory' :
             messageHistory'[k] = m \/ (k \in DOMAIN messageHistory /\ messageHistory'[k] = messageHistory[k])
      BY <2>1
    <2>4. QED
      BY <2>2, <2>3 DEF AuthorsKnown
  <1>3. MessagesStore \/ UNCHANGED messageHistory
    BY DEF Next, vars, serverVars, messageVars, HandlerStep, ConnectCheck, ConnectRoster, ConnectNotify,
           DisconnectDuration, DisconnectNotify, SendLookup, SendValidate, SendRecipient, SendNotify,
           Notify, LocalStep, ObserverStep, RegistryConnected, RegistryDisconnected, DatabaseLogs,
           EventsLog, PrivateQueues, UserStep, Login, ConnectTimesOut, Disconnect, CloseWindow,
           PrepareClose, CloseUnused, SendMessage, Crash, ReplyStep, LoginSucceeded, LoginRejected,
           Disconnected, MessageSent, DropAnswer
  <1>4. QED
    BY <1>1, <1>2, <1>3

\* No message is stored under a name that its sender's user does not use: the
\* author is looked up when the message comes in and stored after waiting for
\* the dispatcher, while the sender may have left, come back under another name,
\* or been thrown out by a namesake.
THEOREM AuthorsAreSenders == Spec => []AuthorsKnown
  <1> DEFINE IInv == TypeInv /\ WalkInv /\ OwnCalls /\ RouteInv /\ AuthorsKnown
  <1>1. Init => IInv
    BY InitTyped, InitSession, InitRoute DEF Init, ServiceInit, MessagesInit, AuthorsKnown
  <1>2. IInv /\ [Next]_vars => IInv'
    BY NextTyped, WalkKept, OwnCallsKept, RouteKept, AuthorsKept
  <1>3. QED
    BY <1>1, <1>2, PTL DEF Spec
=============================================================================
