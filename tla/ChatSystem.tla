------------------------------ MODULE ChatSystem ------------------------------
(***************************************************************************)
(* The server's unary side with its clients: who is connected, under which *)
(* name, and what the event log, the message history and the statistics    *)
(* say of it.  The two subscription streams only read this state, apart    *)
(* from their own cursors and queues, and are in RosterSystem and          *)
(* MessageSystem.                                                          *)
(***************************************************************************)
EXTENDS ChatClient, FiniteSets

vars == <<now, serverVars, clientVars>>

Init == ClockInit /\ ServiceInit /\ ClientInit

\* A step of the server leaves the clients alone.
ServerOnly == UNCHANGED clientVars

\* A step of the handler in thread t, outside the dispatcher's walk.
HandlerStep(t) ==
    \/ ConnectCheck(t) /\ ServerOnly
    \/ ConnectRoster(t) /\ ServerOnly
    \/ ConnectNotify(t) /\ ServerOnly
    \/ DisconnectDuration(t) /\ ServerOnly
    \/ DisconnectNotify(t) /\ ServerOnly
    \/ SendLookup(t) /\ ServerOnly
    \/ SendValidate(t) /\ ServerOnly
    \/ SendRecipient(t) /\ ServerOnly
    \/ SendNotify(t) /\ ServerOnly

\* A step of the dispatcher's walk, in the thread that holds its mutex.
ObserverStep ==
    \/ RegistryConnected /\ ServerOnly
    \/ RegistryDisconnected /\ ServerOnly
    \/ DatabaseLogs /\ ServerOnly
    \/ EventsLog /\ ServerOnly
    \/ MessagesStore /\ ServerOnly
    \/ PrivateQueues /\ ServerOnly

\* What a client's user, its deadline or its machine may make it do.
UserStep(p) ==
    \/ \E n \in NamesOf[p] : Login(p, n)
    \/ ConnectTimesOut(p)
    \/ Disconnect(p)
    \/ CloseWindow(p)
    \/ CloseUnused(p)
    \/ \E recipient \in Recipients, content \in Lengths : SendMessage(p, recipient, content)
    \/ Crash(p)

\* What a client does with an answer.
ReplyStep(p) ==
    \/ LoginSucceeded(p)
    \/ LoginRejected(p)
    \/ Disconnected(p)
    \/ MessageSent(p)

Next ==
    \/ Tick /\ UNCHANGED <<serverVars, clientVars>>
    \/ \E t \in Threads : HandlerStep(t) \/ DropAnswer(t)
    \/ ObserverStep
    \/ \E p \in Peers : UserStep(p) \/ ReplyStep(p)

Spec == Init /\ [][Next]_vars

\* The operating system runs every handler thread, and lets one that waits
\* for the dispatcher's mutex have it; the clients' GUI threads run.
Fairness ==
    /\ \A t \in Threads : WF_vars(HandlerStep(t))
    /\ WF_vars(ObserverStep)
    /\ \A p \in Peers : WF_vars(ReplyStep(p))

FairSpec == Spec /\ Fairness

-----------------------------------------------------------------------------
(* Invariants.                                                             *)

\* Every variable has its type.
TypeOK ==
    /\ now \in Time
    /\ RegistryTypeOK /\ MessagesTypeOK /\ PrivateTypeOK /\ ClientEventsTypeOK
    /\ ValidationTypeOK /\ StatisticsTypeOK /\ DispatcherTypeOK
    /\ ServiceTypeOK /\ ClientTypeOK

\* Two peers hold the same name only if their Connect calls overlapped: each
\* checked the name before the other was registered.  This is the most that
\* Connect's separate check and registration can promise.
DuplicatesOnlyFromOverlap ==
    \A p, q \in Peers :
       (p # q /\ isPeerConnected(p) /\ isPeerConnected(q)
          /\ clients[p].pseudonym = clients[q].pseudonym)
       => admittedAt[p] <= clients[q].initialTimePoint

-----------------------------------------------------------------------------
(* The strengthening that makes DuplicatesOnlyFromOverlap inductive.       *)

\* The dispatcher's mutex is held by a handler that is dispatching, and a
\* ClientConnected event is the one its Connect raised.
WalkOwned ==
    dispatch # Unlocked =>
      LET call == calls[dispatch.owner] IN
      /\ dispatch.next \in 1..Len(Observers[dispatch.event.kind])
      /\ call # NoCall
      /\ call.pc = "dispatching"
      /\ dispatch.event.kind = "ClientConnected" =>
           /\ call.op = "Connect"
           /\ call.peer = dispatch.event.peer
           /\ call.pseudonym = dispatch.event.pseudonym

\* The Connect in t has found its name free and is not in the registry yet.
Pending(t) ==
    \/ At(t, "Connect", "roster")
    \/ At(t, "Connect", "notify")
    \/ At(t, "Connect", "dispatching") /\ dispatch # Unlocked
         /\ dispatch.owner = t /\ dispatch.next = 1

\* Whoever took the name of a pending Connect did so after it was found free.
RivalsCameLater ==
    \A t \in Threads, q \in Peers :
       (Pending(t) /\ q # calls[t].peer /\ isPeerConnected(q)
          /\ clients[q].pseudonym = calls[t].pseudonym)
       => calls[t].checkedAt <= clients[q].initialTimePoint

\* No recorded time is in the future.
TimesPassed ==
    /\ \A p \in Peers : admittedAt[p] <= now
    /\ \A p \in Peers : isPeerConnected(p) => clients[p].initialTimePoint <= now
    /\ \A t \in Threads :
         (calls[t] # NoCall /\ calls[t].op = "Connect") => calls[t].checkedAt <= now

-----------------------------------------------------------------------------
(* Invariants of users with a name of their own, and of the logs.          *)

\* Each user types one name, and nobody else types it.
NamesAreOwn ==
    /\ \A p \in Peers : \A m, n \in NamesOf[p] : m = n
    /\ \A p, q \in Peers : p # q => NamesOf[p] \cap NamesOf[q] = {}

\* A client that shows the chat view is in the registry, under the name it
\* shows: nobody else's Disconnect and no late Connect of its own has thrown
\* it out or renamed it.  Needs NamesAreOwn: Disconnect erases by name.
ChatImpliesRegistered ==
    NamesAreOwn =>
      \A p \in Peers :
         view[p] = "chat" => isPeerConnected(p) /\ clients[p].pseudonym = pseudonym[p]

\* A client that is back at the login view, or closed, and whose deadline
\* never expired, has left no entry behind.
GoneImpliesUnregistered ==
    NamesAreOwn =>
      \A p \in Peers :
         (view[p] \in {"login", "closed"} /\ Responsive(p) /\ timeouts[p] = 0)
         => ~isPeerConnected(p)

\* The last thing the event log says of n is that it arrived.
Announced(n) ==
    LET about == {i \in DOMAIN clientEvents : clientEvents[i].pseudonym = n} IN
    \E i \in about : clientEvents[i].type = "ADD" /\ \A j \in about : j <= i

\* Between two events the log and the registry agree on who is connected:
\* the dispatcher's mutex orders both alike, whatever calls overlap.
EventLogAgrees ==
    (NamesAreOwn /\ dispatch = Unlocked) =>
      \A n \in Pseudonyms : Announced(n) <=> PeersNamed(n) # {}

\* How many entries of a log satisfy the test.
Occurrences(log, Test(_)) == Cardinality({i \in DOMAIN log : Test(log[i])})

\* Between two events, unless a write failed, the table counts what the logs
\* hold: a row from the first arrival on, its arrivals and its messages; and
\* no more time than has passed, if the name has one user.
StatisticsMatchLogs ==
    (dispatch = Unlocked /\ dbErrors = 0) =>
      \A n \in Pseudonyms :
         LET Arrival(e) == e.type = "ADD" /\ e.pseudonym = n
             Written(m) == m.author = n
             arrivals == Occurrences(clientEvents, Arrival)
             row == statistics[n] IN
         IF arrivals = 0
           THEN row = NoRow
           ELSE /\ row # NoRow
                /\ row.nb_of_connection = arrivals
                /\ row.tx_messages = Occurrences(messageHistory, Written)
                                       + Occurrences(privateSent, Written)
                /\ NamesAreOwn => row.cumulated_connection_time_sec <= InSeconds(now)

\* What got into the history obeys the validators: a length in bounds, and a
\* second between two messages of a peer, in the order they were sent.
MessagesObeyLimits ==
    \A i \in DOMAIN messageHistory :
       /\ messageHistory[i].content \in MinLength..MaxLength
       /\ \A j \in 1..(i - 1) :
             messageHistory[j].sender = messageHistory[i].sender
             => messageHistory[i].sentAt - messageHistory[j].sentAt >= MinInterval

-----------------------------------------------------------------------------
(* Liveness.                                                               *)

\* Every call is answered: no handler waits for the dispatcher for ever.
CallsAnswered == \A t \in Threads : calls[t] # NoCall ~> (calls[t] = NoCall \/ Answered(t))

\* The GUI thread of a client gets back from every RPC.
ClientsResponsive == \A p \in Peers : ~Responsive(p) ~> Responsive(p)

-----------------------------------------------------------------------------
(* What the repository says and the code does not do.                      *)

\* "The pseudo you are using is already in use, please choose another one":
\* no two peers are connected under one name.
UniquePseudonyms == \A n \in Pseudonyms : Cardinality(PeersNamed(n)) <= 1
=============================================================================
