--------------------------- MODULE EventDispatcher ---------------------------
(***************************************************************************)
(* events::EventDispatcher: an event is handed to the registered observers *)
(* one after the other, in registration order, under mutex_.  GrpcRunner   *)
(* registers registry, message broadcaster, database logger, client event  *)
(* broadcaster, private message broadcaster; callbacks with an empty body  *)
(* are left out of the walk.                                               *)
(***************************************************************************)
EXTENDS ClientRegistry, Sequences

CONSTANTS
    Threads,      \* the server's handler threads: bound on concurrent calls
    Unlocked      \* mutex_ is free

\* What each event carries.  sentAt is a history field.
ClientConnectedEvent ==
    [kind : {"ClientConnected"}, peer : Peers, pseudonym : Pseudonyms]
ClientDisconnectedEvent ==
    [kind : {"ClientDisconnected"}, peer : Peers, pseudonym : Pseudonyms,
     connectionDuration : Time]
MessageSentEvent ==
    [kind : {"MessageSent"}, peer : Peers, pseudonym : Pseudonyms, content : Nat,
     sentAt : Time]
PrivateMessageSentEvent ==
    [kind : {"PrivateMessageSent"}, senderPeer : Peers, senderPseudonym : Pseudonyms,
     recipientPeer : Peers, recipientPseudonym : Pseudonyms, content : Nat]

Event == ClientConnectedEvent \cup ClientDisconnectedEvent
           \cup MessageSentEvent \cup PrivateMessageSentEvent

\* observers_, per kind of event.
Observers ==
    [ClientConnected    |-> <<"registry", "database", "clientEvents">>,
     ClientDisconnected |-> <<"registry", "database", "clientEvents", "privateMessages">>,
     MessageSent        |-> <<"messages", "database">>,
     PrivateMessageSent |-> <<"database", "privateMessages">>]

VARIABLE dispatch   \* who holds mutex_, its event, and the observer that is next

Dispatch == [owner : Threads, event : Event, next : 1..4]

ASSUME UnlockedAssumption == Unlocked \notin Dispatch

DispatcherTypeOK == dispatch \in Dispatch \cup {Unlocked}

DispatcherInit == dispatch = Unlocked

\* notify...: waits for the mutex, then starts the walk.
Lock(t, event) ==
    /\ dispatch = Unlocked
    /\ dispatch' = [owner |-> t, event |-> event, next |-> 1]

\* The observer o is about to run its callback for an event of this kind.
Notifies(o, kind) ==
    /\ dispatch # Unlocked
    /\ dispatch.event.kind = kind
    /\ Observers[kind][dispatch.next] = o

LastObserver == dispatch.next = Len(Observers[dispatch.event.kind])

\* The callback returned: on to the next observer, or release the mutex.
NextObserver ==
    dispatch' = IF LastObserver THEN Unlocked
                                ELSE [dispatch EXCEPT !.next = @ + 1]
=============================================================================
