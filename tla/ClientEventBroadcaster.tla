------------------------ MODULE ClientEventBroadcaster ------------------------
(***************************************************************************)
(* domain::ClientEventBroadcaster: the log of arrivals and departures and, *)
(* per peer, how far a subscriber has read it.  nextClientEvent is two     *)
(* atomic steps, as MessageBroadcaster!nextMessage is.                     *)
(***************************************************************************)
EXTENDS ClientRegistry, PeerCursor, Sequences

VARIABLES
    clientEvents,   \* clientEvents_
    eventIndices    \* peerIndices_

clientEventVars == <<clientEvents, eventIndices>>

ClientEventData == [type : {"ADD", "REMOVE"}, pseudonym : Pseudonyms]

ClientEventsTypeOK ==
    /\ clientEvents \in Seq(ClientEventData)
    /\ eventIndices \in [Peers -> Nat \cup {NoIndex}]

ClientEventsInit ==
    /\ clientEvents = <<>>
    /\ eventIndices = [p \in Peers |-> NoIndex]

SetEventIndex(p, index) == eventIndices' = [eventIndices EXCEPT ![p] = index]

\* A mutant: off by one, the last entry is never handed out.
TakeEvent_LeavesLast(p, index) ==
    /\ index + 1 < Len(clientEvents)
    /\ SetEventIndex(p, index + 1)

\* The tail of nextClientEvent once the entry is known to be at index.
TakeEvent(p, index) ==
    /\ index < Len(clientEvents)
    /\ SetEventIndex(p, index + 1)

-----------------------------------------------------------------------------
\* A client can not have an empty pseudonym here: Connect and Disconnect
\* return early on one, so the guard of broadcastClientEvent never stops.
broadcastClientEvent(pseudonym, type) ==
    /\ clientEvents' = Append(clientEvents, [type |-> type, pseudonym |-> pseudonym])
    /\ UNCHANGED eventIndices

\* Observer callbacks.
EventsOnClientConnected(event) == broadcastClientEvent(event.pseudonym, "ADD")

\* A mutant: the departure is announced as an arrival.
EventsOnClientDisconnected_AsArrival(event) == broadcastClientEvent(event.pseudonym, "ADD")

EventsOnClientDisconnected(event) == broadcastClientEvent(event.pseudonym, "REMOVE")

normalizeClientEventIndex(p) ==
    SetEventIndex(p, IF isPeerConnected(p)
                       THEN Normalized(eventIndices[p], Len(clientEvents))
                       ELSE NoIndex)

\* kPeerMissing, before or after the wait: the registry does not know the peer.
DropEventIndex(p) == ~isPeerConnected(p) /\ SetEventIndex(p, NoIndex)

\* kOk without waiting.
StartEventTaken(p) ==
    isPeerConnected(p) /\ TakeEvent(p, Located(eventIndices[p], Len(clientEvents)))

\* Nothing to hand out: the call waits.
StartEventWaits(p) ==
    LET index == Located(eventIndices[p], Len(clientEvents)) IN
    /\ isPeerConnected(p)
    /\ index >= Len(clientEvents)
    /\ SetEventIndex(p, index)

\* kPeerMissing after the wait because another call dropped the entry.
ResumeEventEntryGone(p) ==
    isPeerConnected(p) /\ eventIndices[p] = NoIndex /\ UNCHANGED eventIndices

\* A mutant: after a wait the index is set to the end of the log.
ResumeEventTaken_JumpsToEnd(p) ==
    /\ isPeerConnected(p) /\ eventIndices[p] # NoIndex
    /\ eventIndices[p] < Len(clientEvents)
    /\ SetEventIndex(p, Len(clientEvents))

\* kOk after the wait.
ResumeEventTaken(p) ==
    isPeerConnected(p) /\ eventIndices[p] # NoIndex /\ TakeEvent(p, eventIndices[p])

\* kNoEvent.
ResumeEventEmpty(p) ==
    /\ isPeerConnected(p)
    /\ eventIndices[p] >= Len(clientEvents)
    /\ UNCHANGED eventIndices
=============================================================================
