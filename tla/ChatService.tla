----------------------------- MODULE ChatService -----------------------------
(***************************************************************************)
(* ChatService's unary handlers.  The server is a synchronous gRPC server: *)
(* each call runs in a thread of its own, so a handler is a sequence of    *)
(* steps, one per call into a component with a lock, and the steps of      *)
(* several handlers interleave.  A handler's locals are in calls[t].  The  *)
(* early returns on an empty pseudonym or peer are not taken: the login    *)
(* view asks for a pseudonym and gRPC always names the peer.               *)
(***************************************************************************)
EXTENDS MessageBroadcaster, PrivateMessageBroadcaster, ClientEventBroadcaster,
        MessageValidation, StatisticsDatabase, EventDispatcher

CONSTANTS
    Everyone,     \* a message's recipient when it is public
    Lengths,      \* content lengths clients send
    NoCall        \* an idle thread

VARIABLES
    calls,        \* per thread, the call it handles
    admittedAt    \* history: when the Connect that registered a peer checked its name

ASSUME LengthsAssumption == Lengths \subseteq Nat

ConnectCall ==
    [op : {"Connect"}, peer : Peers, pseudonym : Pseudonyms,
     pc : {"check", "roster", "notify", "dispatching", "accepted", "rejected"},
     connectedPseudonyms : SUBSET Pseudonyms, checkedAt : Time]
DisconnectCall ==
    [op : {"Disconnect"}, peer : Peers, pseudonym : Pseudonyms,
     pc : {"duration", "notify", "dispatching", "ok"}, connectionDuration : Time]
SendMessageCall ==
    [op : {"SendMessage"}, peer : Peers, content : Lengths,
     recipient : Pseudonyms \cup {Everyone},
     pc : {"lookup", "validate", "recipient", "notify", "dispatching", "ok", "refused"},
     pseudonym : Pseudonyms, timestamp : Time, recipientPeer : Peers]

Call == ConnectCall \cup DisconnectCall \cup SendMessageCall

ASSUME NoCallAssumption == NoCall \notin Call

serverVars == <<clients, messageVars, privateVars, clientEventVars, lastMessageTime,
                statisticsVars, dispatch, calls, admittedAt>>

ServiceTypeOK ==
    /\ calls \in [Threads -> Call \cup {NoCall}]
    /\ admittedAt \in [Peers -> Time]

ServiceInit ==
    /\ RegistryInit /\ MessagesInit /\ PrivateInit /\ ClientEventsInit
    /\ ValidationInit /\ StatisticsInit /\ DispatcherInit
    /\ calls = [t \in Threads |-> NoCall]
    /\ admittedAt = [p \in Peers |-> 0]

\* Thread t handles a call of kind op and has reached pc.
At(t, op, pc) == calls[t] # NoCall /\ calls[t].op = op /\ calls[t].pc = pc

\* The handler goes on with its locals changed to call.
Continue(t, call) == calls' = [calls EXCEPT ![t] = call]

Goto(t, pc) == Continue(t, [calls[t] EXCEPT !.pc = pc])

\* The call has its answer.
Answered(t) == calls[t] # NoCall /\ calls[t].pc \in {"accepted", "rejected", "ok", "refused"}

\* A handler step that touches nothing but its locals.
LocalStep ==
    UNCHANGED <<now, clients, messageVars, privateVars, clientEventVars, lastMessageTime,
                statisticsVars, dispatch, admittedAt>>

-----------------------------------------------------------------------------
(* Connect                                                                 *)

NewConnect(p, n) ==
    [op |-> "Connect", peer |-> p, pseudonym |-> n, pc |-> "check",
     connectedPseudonyms |-> {}, checkedAt |-> 0]

\* The name check; the call has decided and not yet registered anything.
ConnectCheck(t) ==
    /\ At(t, "Connect", "check")
    /\ IF isPseudonymAvailable(calls[t].peer, calls[t].pseudonym)
         THEN Continue(t, [calls[t] EXCEPT !.pc = "roster", !.checkedAt = now])
         ELSE Goto(t, "rejected")
    /\ LocalStep

\* The answer's roster is read before the caller is in the registry.
ConnectRoster(t) ==
    /\ At(t, "Connect", "roster")
    /\ Continue(t, [calls[t] EXCEPT !.pc = "notify",
                                    !.connectedPseudonyms = getConnectedPseudonyms])
    /\ LocalStep

\* notifyX: waits for the dispatcher, which then runs the observers.
Notify(t, op, event) ==
    /\ At(t, op, "notify")
    /\ Lock(t, event)
    /\ Goto(t, "dispatching")
    /\ UNCHANGED <<now, clients, messageVars, privateVars, clientEventVars, lastMessageTime,
                   statisticsVars, admittedAt>>

ConnectNotify(t) ==
    Notify(t, "Connect", [kind |-> "ClientConnected", peer |-> calls[t].peer,
                          pseudonym |-> calls[t].pseudonym])

-----------------------------------------------------------------------------
(* Disconnect                                                              *)

NewDisconnect(p, n) ==
    [op |-> "Disconnect", peer |-> p, pseudonym |-> n, pc |-> "duration",
     connectionDuration |-> 0]

\* Only a connected peer raises the event.  The event will carry the
\* request's pseudonym, whatever name the peer is registered under.
DisconnectDuration(t) ==
    /\ At(t, "Disconnect", "duration")
    /\ IF isPeerConnected(calls[t].peer)
         THEN Continue(t, [calls[t] EXCEPT
                             !.pc = "notify",
                             !.connectionDuration = getConnectionDuration(calls[t].peer)])
         ELSE Goto(t, "ok")
    /\ LocalStep

DisconnectNotify(t) ==
    Notify(t, "Disconnect", [kind |-> "ClientDisconnected", peer |-> calls[t].peer,
                             pseudonym |-> calls[t].pseudonym,
                             connectionDuration |-> calls[t].connectionDuration])

-----------------------------------------------------------------------------
(* SendMessage                                                             *)

\* The last three locals have no value yet: any will do.
NewSendMessage(p, n, recipient, content) ==
    [op |-> "SendMessage", peer |-> p, content |-> content, recipient |-> recipient,
     pc |-> "lookup", pseudonym |-> n, timestamp |-> 0, recipientPeer |-> p]

\* PERMISSION_DENIED for an unknown peer; the author is the registered name.
SendLookup(t) ==
    /\ At(t, "SendMessage", "lookup")
    /\ IF isPeerConnected(calls[t].peer)
         THEN Continue(t, [calls[t] EXCEPT
                             !.pc = "validate",
                             !.pseudonym = getPseudonymForPeer(calls[t].peer)])
         ELSE Goto(t, "refused")
    /\ LocalStep

\* The timestamp is read and the validation chain runs.  A client has one
\* SendMessage at a time, so no other message of the peer can come between.
SendValidate(t) ==
    LET call == calls[t] IN
    /\ At(t, "SendMessage", "validate")
    /\ IF contentAccepted(call.content) /\ rateAccepted(call.peer, now)
         THEN /\ RecordMessageTime(call.peer, now)
              /\ Continue(t, [call EXCEPT
                                 !.pc = IF call.recipient = Everyone THEN "notify" ELSE "recipient",
                                 !.timestamp = now])
         ELSE Goto(t, "refused") /\ UNCHANGED lastMessageTime
    /\ UNCHANGED <<now, clients, messageVars, privateVars, clientEventVars, statisticsVars,
                   dispatch, admittedAt>>

\* A mutant: the handler waits until the recipient is there.
SendRecipient_Waits(t) ==
    /\ At(t, "SendMessage", "recipient")
    /\ \E q \in getPeerForPseudonym(calls[t].recipient) :
          Continue(t, [calls[t] EXCEPT !.pc = "notify", !.recipientPeer = q])
    /\ LocalStep

\* NOT_FOUND for an unknown recipient, after the rate limiter has counted it.
SendRecipient(t) ==
    /\ At(t, "SendMessage", "recipient")
    /\ IF getPeerForPseudonym(calls[t].recipient) = {}
         THEN Goto(t, "refused")
         ELSE \E q \in getPeerForPseudonym(calls[t].recipient) :
                Continue(t, [calls[t] EXCEPT !.pc = "notify", !.recipientPeer = q])
    /\ LocalStep

\* What SendMessage announces: a public or a private message.
SentEvent(call) ==
    IF call.recipient = Everyone
      THEN [kind |-> "MessageSent", peer |-> call.peer, pseudonym |-> call.pseudonym,
            content |-> call.content, sentAt |-> call.timestamp]
      ELSE [kind |-> "PrivateMessageSent",
            senderPeer |-> call.peer, senderPseudonym |-> call.pseudonym,
            recipientPeer |-> call.recipientPeer, recipientPseudonym |-> call.recipient,
            content |-> call.content]

SendNotify(t) == Notify(t, "SendMessage", SentEvent(calls[t]))

-----------------------------------------------------------------------------
(* The dispatcher's walk: one step per observer, in the caller's thread.   *)

\* What the handler answers once every observer has run.
Answer(op) == IF op = "Connect" THEN "accepted" ELSE "ok"

\* The end of a callback; after the last one the handler returns.
ObserverReturns ==
    /\ NextObserver
    /\ IF LastObserver THEN Goto(dispatch.owner, Answer(calls[dispatch.owner].op))
                       ELSE UNCHANGED calls

RegistryConnected ==
    /\ Notifies("registry", "ClientConnected")
    /\ RegistryOnClientConnected(dispatch.event)
    /\ admittedAt' = [admittedAt EXCEPT ![dispatch.event.peer] = calls[dispatch.owner].checkedAt]
    /\ ObserverReturns
    /\ UNCHANGED <<now, messageVars, privateVars, clientEventVars, lastMessageTime, statisticsVars>>

RegistryDisconnected ==
    /\ Notifies("registry", "ClientDisconnected")
    /\ RegistryOnClientDisconnected(dispatch.event)
    /\ ObserverReturns
    /\ UNCHANGED <<now, messageVars, privateVars, clientEventVars, lastMessageTime, statisticsVars,
                   admittedAt>>

DatabaseLogs ==
    /\ \/ Notifies("database", "ClientConnected") /\ DatabaseOnClientConnected(dispatch.event)
       \/ Notifies("database", "ClientDisconnected") /\ DatabaseOnClientDisconnected(dispatch.event)
       \/ Notifies("database", "MessageSent") /\ DatabaseOnMessageSent(dispatch.event)
       \/ Notifies("database", "PrivateMessageSent") /\ DatabaseOnPrivateMessageSent(dispatch.event)
    /\ ObserverReturns
    /\ UNCHANGED <<now, clients, messageVars, privateVars, clientEventVars, lastMessageTime, admittedAt>>

EventsLog ==
    /\ \/ Notifies("clientEvents", "ClientConnected") /\ EventsOnClientConnected(dispatch.event)
       \/ Notifies("clientEvents", "ClientDisconnected") /\ EventsOnClientDisconnected(dispatch.event)
    /\ ObserverReturns
    /\ UNCHANGED <<now, clients, messageVars, privateVars, lastMessageTime, statisticsVars, admittedAt>>

MessagesStore ==
    /\ Notifies("messages", "MessageSent")
    /\ MessagesOnMessageSent(dispatch.event)
    /\ ObserverReturns
    /\ UNCHANGED <<now, clients, privateVars, clientEventVars, lastMessageTime, statisticsVars,
                   admittedAt>>

PrivateQueues ==
    /\ \/ /\ Notifies("privateMessages", "ClientDisconnected")
          /\ PrivateOnClientDisconnected(dispatch.event)
       \/ /\ Notifies("privateMessages", "PrivateMessageSent")
          /\ PrivateOnPrivateMessageSent(dispatch.event)
    /\ ObserverReturns
    /\ UNCHANGED <<now, clients, messageVars, clientEventVars, lastMessageTime, statisticsVars,
                   admittedAt>>

=============================================================================
