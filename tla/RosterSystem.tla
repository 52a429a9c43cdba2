----------------------------- MODULE RosterSystem -----------------------------
(***************************************************************************)
(* SubscribeClientEvents and the client's roster: a client starts from the *)
(* names Connect answered and applies the events it is sent.               *)
(***************************************************************************)
EXTENDS StreamCalls, SequencesExt

VARIABLES
    roster,        \* clientsList_: the names the chat view lists
    shown,         \* history: positions of the events applied, all sessions
    snapshotAt,    \* history: length of the event log when Connect read the names
    base,          \* history: where the session's handler starts to read
    stolen         \* history: events a stale handler took from the session

rosterHistory == <<shown, snapshotAt, base, stolen>>
rosterVars == <<streamVars, roster, rosterHistory>>

RosterTypeOK ==
    /\ StreamTypeOK
    /\ roster \in [Peers -> SUBSET Pseudonyms]
    /\ shown \in [Peers -> Seq(Nat)]
    /\ snapshotAt \in [Peers -> Nat]
    /\ base \in [Peers -> Nat]
    /\ stolen \in [Peers -> SUBSET Nat]

RosterInit ==
    /\ Init
    /\ StreamInit
    /\ roster = [p \in Peers |-> {}]
    /\ shown = [p \in Peers |-> <<>>]
    /\ snapshotAt = [p \in Peers |-> 0]
    /\ base = [p \in Peers |-> 0]
    /\ stolen = [p \in Peers |-> {}]

\* A handler of the stream changes nothing else but its peer's index.
StreamStep ==
    UNCHANGED <<now, clients, messageVars, privateVars, clientEvents, lastMessageTime,
                statisticsVars, dispatch, calls, admittedAt, clientVars, roster, shown,
                snapshotAt>>

\* The session's handler has found its place in the log.
Subscribed(p) ==
    /\ stream[p] # NoStream
    /\ handlers[stream[p]].pc \notin {"start", "queue"}
    /\ eventIndices[p] # NoIndex

-----------------------------------------------------------------------------
(* SubscribeClientEvents.                                                  *)

\* PERMISSION_DENIED unless the peer is connected.
EventsStart(h) ==
    /\ Serving(h, "start")
    /\ IF isPeerConnected(handlers[h].peer) THEN StreamGoto(h, "queue") ELSE StreamEnds(h)
    /\ UNCHANGED <<eventIndices, base, stolen>>
    /\ StreamStep

\* The answer of normalizeClientEventIndex is ignored.
EventsNormalize(h) ==
    LET p == handlers[h].peer IN
    /\ Serving(h, "queue")
    /\ normalizeClientEventIndex(p)
    /\ StreamGoto(h, "loop")
    /\ base' = IF isPeerConnected(p) /\ ~Stale(h)
                 THEN [base EXCEPT ![p] = eventIndices'[p]] ELSE base
    /\ UNCHANGED stolen
    /\ StreamStep

\* kOk: the event below the index is written next.
EventTaken(h) == StreamTakes(h, [kind |-> "event", at |-> eventIndices'[handlers[h].peer]])

\* nextClientEvent up to its wait.
EventsNext(h) ==
    LET p == handlers[h].peer IN
    /\ Serving(h, "loop")
    /\ ~handlers[h].cancelled
    /\ \/ DropEventIndex(p) /\ StreamEnds(h)
       \/ StartEventTaken(p) /\ EventTaken(h)
       \/ StartEventWaits(p) /\ StreamGoto(h, "wait")
    /\ UNCHANGED <<base, stolen>>
    /\ StreamStep

\* A mutant: the status is not looked at, and nothing is written as an event.
EventsWake_NoStatusCheck(h) ==
    LET p == handlers[h].peer IN
    /\ Serving(h, "wait")
    /\ \/ DropEventIndex(p) /\ StreamEnds(h)
       \/ ResumeEventEntryGone(p) /\ StreamEnds(h)
       \/ ResumeEventTaken(p) /\ EventTaken(h)
       \/ ResumeEventEmpty(p) /\ StreamGoto(h, "write")
    /\ UNCHANGED <<base, stolen>>
    /\ StreamStep

\* nextClientEvent after its wait.
EventsWake(h) ==
    LET p == handlers[h].peer IN
    /\ Serving(h, "wait")
    /\ \/ DropEventIndex(p) /\ StreamEnds(h)
       \/ ResumeEventEntryGone(p) /\ StreamEnds(h)
       \/ ResumeEventTaken(p) /\ EventTaken(h)
       \/ ResumeEventEmpty(p) /\ StreamGoto(h, "loop")
    /\ UNCHANGED <<base, stolen>>
    /\ StreamStep

EventsWrite(h) ==
    LET p == handlers[h].peer
        at == handlers[h].item.at IN
    /\ \/ StreamWrites(h) /\ UNCHANGED stolen
       \/ /\ StreamWriteLost(h)
          /\ stolen' = IF Subscribed(p) /\ at > base[p]
                         THEN [stolen EXCEPT ![p] = @ \cup {at}] ELSE stolen
    /\ UNCHANGED <<eventIndices, base>>
    /\ StreamStep

EventsCancelled(h) == StreamCancelled(h) /\ UNCHANGED <<eventIndices, base, stolen>> /\ StreamStep

EventsHandler(h) ==
    \/ EventsStart(h) \/ EventsNormalize(h) \/ EventsNext(h) \/ EventsWake(h)
    \/ EventsWrite(h) \/ EventsCancelled(h)

-----------------------------------------------------------------------------
(* The client.                                                             *)

\* A mutant: departures are ignored.
handleClientEvent_KeepsName(p, event) == roster' = [roster EXCEPT ![p] = @ \cup {event.pseudonym}]

\* ChatWindow::handleClientEvent.
handleClientEvent(p, event) ==
    roster' = [roster EXCEPT ![p] = IF event.type = "ADD" THEN @ \cup {event.pseudonym}
                                                          ELSE @ \ {event.pseudonym}]

\* The GUI thread shows the next event it was sent.
ShowEvent(p) ==
    /\ TakeInbox(p)
    /\ handleClientEvent(p, clientEvents[Head(inbox[p]).at])
    /\ shown' = [shown EXCEPT ![p] = Append(@, Head(inbox[p]).at)]
    /\ UNCHANGED <<now, serverVars, clientVars, snapshotAt, base, stolen>>

\* ChatWindow::onLoginSucceeded: initChatView lists the user and the names of
\* the answer, before the GUI thread can get to an event of the new stream.
EnterChat(p) ==
    /\ LoginSucceeded(p)
    /\ OpenStream(p)
    /\ roster' = [roster EXCEPT ![p] = {calls[awaiting[p]].pseudonym}
                                         \cup calls[awaiting[p]].connectedPseudonyms]
    /\ UNCHANGED rosterHistory

\* ChatWindow::prepareClose, or the end of the process.
LeaveChat(p) ==
    /\ \/ Disconnect(p) /\ StopStream(p)
       \/ CloseWindow(p) /\ AbandonStream(p)
       \/ Crash(p) /\ AbandonStream(p)
    /\ snapshotAt' = [snapshotAt EXCEPT ![p] = 0]
    /\ base' = [base EXCEPT ![p] = 0]
    /\ stolen' = [stolen EXCEPT ![p] = {}]
    /\ UNCHANGED <<roster, shown>>

\* What else a client does has no part in its stream.  The event loop hands
\* out what was posted before it looks at the user's next click.
OtherClientStep(p) ==
    \/ inbox[p] = <<>> /\ \E n \in NamesOf[p] : Login(p, n)
    \/ ConnectTimesOut(p)
    \/ LoginRejected(p)
    \/ CloseUnused(p)
    \/ Disconnected(p)

\* A Connect whose answer its client awaits reads the names.
ReadNames(t) ==
    /\ ConnectRoster(t)
    /\ ServerOnly
    /\ snapshotAt' = IF awaiting[calls[t].peer] = t
                       THEN [snapshotAt EXCEPT ![calls[t].peer] = Len(clientEvents)]
                       ELSE snapshotAt
    /\ UNCHANGED <<streamVars, roster, shown, base, stolen>>

\* The handlers of the other RPCs, as in ChatSystem.
UnaryStep(t) ==
    \/ ReadNames(t)
    \/ ~At(t, "Connect", "roster") /\ HandlerStep(t) /\ UNCHANGED rosterVars

\* The clock stands still: durations and rates do not touch the roster.
RosterNext ==
    \/ \E t \in Threads : UnaryStep(t)
    \/ \E t \in Threads : DropAnswer(t) /\ UNCHANGED rosterVars
    \/ ObserverStep /\ UNCHANGED rosterVars
    \/ \E p \in Peers : OtherClientStep(p) /\ UNCHANGED rosterVars
    \/ \E p \in Peers : EnterChat(p) \/ LeaveChat(p) \/ ShowEvent(p)
    \/ \E h \in StreamThreads : EventsHandler(h)
    \/ \E h \in StreamThreads :
          CancelArrives(h) /\ UNCHANGED <<now, serverVars, clientVars, roster, rosterHistory>>

allVars == <<vars, rosterVars>>

RosterSpec == RosterInit /\ [][RosterNext]_allVars

\* The operating system runs every handler, a wait ends, a cancellation gets
\* through, and the GUI thread comes back to its event loop.
RosterFairness ==
    /\ \A t \in Threads : WF_allVars(UnaryStep(t))
    /\ WF_allVars(ObserverStep /\ UNCHANGED rosterVars)
    /\ \A h \in StreamThreads : WF_allVars(EventsHandler(h))
    /\ \A h \in StreamThreads :
          WF_allVars(CancelArrives(h) /\ UNCHANGED <<now, serverVars, clientVars, roster, rosterHistory>>)
    /\ \A p \in Peers : WF_allVars(ShowEvent(p))

FairRosterSpec == RosterSpec /\ RosterFairness

-----------------------------------------------------------------------------
(* Properties.                                                             *)

EventsFeed == INSTANCE Feed WITH Readers <- Peers, log <- clientEvents

\* SubscribeClientEvents implements Feed: a client is shown events in the order
\* the server logged them and none twice, over all its sessions, even while
\* a handler of an earlier session runs beside the present one.
EventsInOrder == EventsFeed!FeedSpec

\* The events of p that some handler has in hand.
InHand(p) ==
    {handlers[h].item.at :
       h \in {k \in StreamThreads : handlers[k] # NoHandler /\ handlers[k].peer = p
                                      /\ handlers[k].item # NoItem}}

\* No event falls between the cursor and the reader: from where the session
\* began, each was shown, is under way, or was taken by a stale handler.  Needs
\* NamesAreOwn: a namesake's Disconnect takes the peer out of the registry, a
\* handler that looks then leaves it without an index, and once a late Connect
\* has registered the peer again the session goes on at the end of the log.
EventsAccountedFor ==
    NamesAreOwn =>
      \A p \in Watchers :
         Subscribed(p) =>
           (base[p] + 1)..eventIndices[p]
             \subseteq ToSet(shown[p]) \cup {inbox[p][k].at : k \in DOMAIN inbox[p]}
                        \cup InHand(p) \cup stolen[p]

\* p has been shown all its stream will bring it, and no event is on its way.
CaughtUp(p) ==
    /\ view[p] = "chat" /\ Subscribed(p)
    /\ dispatch = Unlocked
    /\ eventIndices[p] = Len(clientEvents)
    /\ handlers[stream[p]].pc # "write" /\ inbox[p] = <<>>

\* Where the log last mentions n.
LastMention(n) ==
    LET about == {i \in DOMAIN clientEvents : clientEvents[i].pseudonym = n} IN
    IF about = {} THEN 0 ELSE CHOOSE i \in about : \A j \in about : j <= i

\* Events p can not be shown: logged after Connect read the names and before
\* the subscription, or taken by a stale handler.
Missed(p) == (snapshotAt[p] + 1)..base[p] \cup stolen[p] \cup InHand(p)

\* The roster of a client that has caught up is right about every name whose
\* last event it did not miss.
RosterRight ==
    NamesAreOwn =>
      \A p \in Watchers :
         CaughtUp(p) =>
           \A n \in Pseudonyms :
              LastMention(n) \notin Missed(p) => (n \in roster[p] <=> PeersNamed(n) # {})

\* While a client stays subscribed it catches up again and again: no event
\* waits for ever in the log, at the handler or in the client's queue.
SubscriberCatchesUp == \A p \in Watchers : []<>(~Subscribed(p) \/ CaughtUp(p))

\* A handler whose client gave up returns: no server thread is lost.
StaleHandlersEnd == \A h \in StreamThreads : Stale(h) ~> ~Stale(h)

-----------------------------------------------------------------------------
(* What the repository says and the code does not do.                      *)

\* "Live roster updates": the roster of a client that has caught up lists the
\* names that are connected.
RosterLive ==
    \A p \in Watchers : CaughtUp(p) => roster[p] = getConnectedPseudonyms
=============================================================================
