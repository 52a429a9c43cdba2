------------------------------ MODULE StreamCalls ------------------------------
(***************************************************************************)
(* A server-streaming RPC between ChatServiceGrpc and ChatService: the     *)
(* client opens one when it enters the chat view and cancels it when it    *)
(* leaves.  A handler learns of the cancellation later, between two        *)
(* writes, so one of an earlier session may still run beside the next.     *)
(* The client's stream thread hands what it reads to the GUI thread.       *)
(***************************************************************************)
EXTENDS ChatSystem

CONSTANTS
    StreamThreads,   \* server threads for this RPC: bound on concurrent handlers
    NoHandler,       \* an idle stream thread
    NoStream,        \* the client reads no stream
    NoItem,          \* the handler has nothing to write
    Watchers         \* bound: the clients whose stream is followed

\* What is written is known by its position in the log it was taken from.
Item == [kind : {"event", "public", "private"}, at : Nat]

Handler ==
    [peer : Peers, pc : {"start", "queue", "loop", "privateWait", "public", "wait", "write"},
     item : Item \cup {NoItem}, cancelled : BOOLEAN]

ASSUME StreamAssumption ==
    /\ NoHandler \notin Handler
    /\ NoStream \notin StreamThreads
    /\ NoItem \notin Item
    /\ Watchers \subseteq Peers

VARIABLES
    handlers,        \* per stream thread, the handler it runs
    stream,          \* per client, the handler it reads from
    inbox            \* per client, what was written to it and not yet shown

streamVars == <<handlers, stream, inbox>>

StreamTypeOK ==
    /\ handlers \in [StreamThreads -> Handler \cup {NoHandler}]
    /\ stream \in [Peers -> StreamThreads \cup {NoStream}]
    /\ inbox \in [Peers -> Seq(Item)]

StreamInit ==
    /\ handlers = [h \in StreamThreads |-> NoHandler]
    /\ stream = [p \in Peers |-> NoStream]
    /\ inbox = [p \in Peers |-> <<>>]

Serving(h, pc) == handlers[h] # NoHandler /\ handlers[h].pc = pc

\* The client gave up on h, which belongs to an earlier session.
Stale(h) == handlers[h] # NoHandler /\ stream[handlers[h].peer] # h

-----------------------------------------------------------------------------
(* The client's end.                                                       *)

\* start...Stream, on entering the chat view.
OpenStream(p) ==
    IF p \in Watchers
      THEN \E h \in StreamThreads :
              /\ handlers[h] = NoHandler
              /\ handlers' = [handlers EXCEPT
                                ![h] = [peer |-> p, pc |-> "start", item |-> NoItem,
                                        cancelled |-> FALSE]]
              /\ stream' = [stream EXCEPT ![p] = h]
              /\ UNCHANGED inbox
      ELSE UNCHANGED streamVars

\* stop...Stream: TryCancel, then the stream thread is joined.  What it had
\* read is posted to the GUI thread and stays; what it had not is dropped.
StopStream(p) ==
    /\ stream' = [stream EXCEPT ![p] = NoStream]
    /\ \E k \in 0..Len(inbox[p]) : inbox' = [inbox EXCEPT ![p] = SubSeq(@, 1, k)]
    /\ UNCHANGED handlers

\* The process ends, and what was posted with it.
AbandonStream(p) ==
    /\ stream' = [stream EXCEPT ![p] = NoStream]
    /\ inbox' = [inbox EXCEPT ![p] = <<>>]
    /\ UNCHANGED handlers

-----------------------------------------------------------------------------
(* The server's end.                                                       *)

\* The cancellation reaches the handler's ServerContext.
CancelArrives(h) ==
    /\ Stale(h)
    /\ ~handlers[h].cancelled
    /\ handlers' = [handlers EXCEPT ![h].cancelled = TRUE]
    /\ UNCHANGED <<stream, inbox>>

\* The handler goes on.
StreamGoto(h, pc) ==
    /\ handlers' = [handlers EXCEPT ![h].pc = pc]
    /\ UNCHANGED <<stream, inbox>>

\* The handler goes on to write item.
StreamTakes(h, item) ==
    /\ handlers' = [handlers EXCEPT ![h].pc = "write", ![h].item = item]
    /\ UNCHANGED <<stream, inbox>>

\* The handler returns; a client that still reads sees the stream end.
StreamEnds(h) ==
    /\ handlers' = [handlers EXCEPT ![h] = NoHandler]
    /\ stream' = [p \in Peers |-> IF stream[p] = h THEN NoStream ELSE stream[p]]
    /\ UNCHANGED inbox

\* writer->Write to a client that reads.
StreamWrites(h) ==
    /\ Serving(h, "write")
    /\ ~Stale(h)
    /\ handlers' = [handlers EXCEPT ![h].pc = "loop", ![h].item = NoItem]
    /\ inbox' = [inbox EXCEPT ![handlers[h].peer] = Append(@, handlers[h].item)]
    /\ UNCHANGED stream

\* writer->Write to a client that gave up: TRUE while the transport does not
\* know, FALSE afterwards, and then the handler returns.  The item is lost.
StreamWriteLost(h) ==
    /\ Serving(h, "write")
    /\ Stale(h)
    /\ \/ handlers' = [handlers EXCEPT ![h].pc = "loop", ![h].item = NoItem]
       \/ handlers' = [handlers EXCEPT ![h] = NoHandler]
    /\ UNCHANGED <<stream, inbox>>

\* A mutant: the handler learns of the cancellation and goes on.
StreamCancelled_Ignored(h) ==
    /\ Serving(h, "loop")
    /\ handlers[h].cancelled
    /\ UNCHANGED streamVars

\* IsCancelled at the head of the handler's loop.
StreamCancelled(h) ==
    /\ Serving(h, "loop")
    /\ handlers[h].cancelled
    /\ StreamEnds(h)

\* The GUI thread takes the next item, unless an RPC blocks it; after a
\* disconnection, what is left.
TakeInbox(p) ==
    /\ view[p] \in {"chat", "login"} /\ Responsive(p)
    /\ inbox[p] # <<>>
    /\ inbox' = [inbox EXCEPT ![p] = Tail(@)]
    /\ UNCHANGED <<handlers, stream>>
=============================================================================
