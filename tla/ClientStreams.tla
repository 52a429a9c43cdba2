----------------------------- MODULE ClientStreams -----------------------------
(***************************************************************************)
(* ChatServiceGrpc's two streams: for each a flag shared by two threads, a *)
(* context through which the RPC can be cancelled, and a thread that reads *)
(* until the stream ends.  Start and stop run on the GUI thread, as        *)
(* sequences of steps that interleave with the stream threads.             *)
(***************************************************************************)
EXTENDS Sequences

Streams == {"message", "clientEvent"}

CONSTANT NoThread      \* the std::thread is not joinable

VARIABLES
    running,       \* messageStreamRunning_, clientEventStreamRunning_
    thread,        \* per stream, its thread until it is joined
    wasRunning     \* the GUI thread's local in stop...Stream

streamVars == <<running, thread, wasRunning>>

\* cancelled belongs to the thread's own context; status is Finish's.
StreamThread ==
    [pc : {"open", "loop", "read", "post", "finish", "exchange", "report", "done"},
     cancelled : BOOLEAN,
     status : {"none", "OK", "failed", "CANCELLED"}]

ASSUME NoThreadAssumption == NoThread \notin StreamThread

StreamsTypeOK ==
    /\ running \in [Streams -> BOOLEAN]
    /\ thread \in [Streams -> StreamThread \cup {NoThread}]
    /\ wasRunning \in BOOLEAN

\* A raised flag: the stream's thread is at work and was not told to stop.
FlagAgrees ==
    \A s \in Streams : running[s] =>
        /\ thread[s] # NoThread
        /\ ~thread[s].cancelled
        /\ thread[s].pc \notin {"report", "done"}

StreamsInit ==
    /\ running = [s \in Streams |-> FALSE]
    /\ thread = [s \in Streams |-> NoThread]
    /\ wasRunning = FALSE

-----------------------------------------------------------------------------
(* On the GUI thread                                                       *)

\* A mutant: the stream is cancelled before the flag is cleared.
StopStream_CancelsFirst(s) == << <<"cancel", s>>, <<"flag", s>>, <<"join", s>> >>

\* The steps of stop...Stream and start...Stream.
StopStream(s) == << <<"flag", s>>, <<"cancel", s>>, <<"join", s>> >>
StartStream(s) == StopStream(s) \o << <<"launch", s>> >>

ClearFlag(s) ==
    /\ wasRunning' = running[s]
    /\ running' = [running EXCEPT ![s] = FALSE]
    /\ UNCHANGED thread

\* A mutant: the stream is not cancelled.
TryCancel_Never(s) == UNCHANGED streamVars

\* TryCancel works on a call that did not start yet, too.
TryCancel(s) ==
    /\ thread' = IF wasRunning THEN [thread EXCEPT ![s].cancelled = TRUE] ELSE thread
    /\ UNCHANGED <<running, wasRunning>>

\* A mutant: a stream that ended by itself is not joined.
Join_IfItWasRunning(s) ==
    /\ wasRunning => thread[s].pc = "done"
    /\ thread' = IF wasRunning THEN [thread EXCEPT ![s] = NoThread] ELSE thread
    /\ UNCHANGED <<running, wasRunning>>

\* Waits for the thread, if there is one.
Join(s) ==
    /\ thread[s] # NoThread => thread[s].pc = "done"
    /\ thread' = [thread EXCEPT ![s] = NoThread]
    /\ UNCHANGED <<running, wasRunning>>

Launch(s) ==
    /\ running' = [running EXCEPT ![s] = TRUE]
    /\ thread' = [thread EXCEPT ![s] = [pc |-> "open", cancelled |-> FALSE, status |-> "none"]]
    /\ UNCHANGED wasRunning

-----------------------------------------------------------------------------
(* On the stream's thread                                                  *)

At(s, pc) == thread[s] # NoThread /\ thread[s].pc = pc

Goto(s, pc) == thread' = [thread EXCEPT ![s].pc = pc] /\ UNCHANGED <<running, wasRunning>>

StreamOpens(s) == At(s, "open") /\ Goto(s, "loop")

StreamChecksFlag(s) == At(s, "loop") /\ Goto(s, IF running[s] THEN "read" ELSE "finish")

\* Read returns with an item, or because the stream is over.
ReadItem(s) == At(s, "read") /\ ~thread[s].cancelled /\ Goto(s, "post")
ReadEnds(s) == At(s, "read") /\ Goto(s, "finish")
ReadCancelled(s) == thread[s] # NoThread /\ thread[s].cancelled /\ ReadEnds(s)

\* A mutant: the signal waits for the GUI thread to handle it.
StreamPosts_Waits(s, guiIdle) == At(s, "post") /\ guiIdle /\ Goto(s, "loop")

\* The callback's signal is queued for the GUI thread, whatever that does.
StreamPosts(s, guiIdle) == At(s, "post") /\ Goto(s, "loop")

\* Finish returns the server's status, or CANCELLED.  A stream that is
\* not cancelled may have to be waited for.
Finishes(s, statuses) ==
    /\ At(s, "finish")
    /\ \E status \in statuses :
          thread' = [thread EXCEPT ![s].pc = "exchange", ![s].status = status]
    /\ UNCHANGED <<running, wasRunning>>

StreamFinishes(s) == Finishes(s, {"OK", "failed"})
FinishCancelled(s) == thread[s] # NoThread /\ thread[s].cancelled /\ Finishes(s, {"CANCELLED"})

\* A mutant: an error is reported whoever ended the stream.
StreamExchangesFlag_Always(s) ==
    /\ At(s, "exchange")
    /\ running' = [running EXCEPT ![s] = FALSE]
    /\ thread' = [thread EXCEPT ![s].pc = IF @ = "exchange" /\ thread[s].status # "OK" THEN "report" ELSE "done"]
    /\ UNCHANGED wasRunning

\* An error is reported unless the stream was told to stop.
StreamExchangesFlag(s) ==
    /\ At(s, "exchange")
    /\ running' = [running EXCEPT ![s] = FALSE]
    /\ thread' = [thread EXCEPT
                    ![s].pc = IF thread[s].status # "OK" /\ running[s] THEN "report" ELSE "done"]
    /\ UNCHANGED wasRunning

StreamReports(s) == At(s, "report") /\ Goto(s, "done")

\* The steps that do not wait for the server.
StreamSteps(s, guiIdle) ==
    \/ StreamOpens(s) \/ StreamChecksFlag(s) \/ StreamPosts(s, guiIdle)
    \/ ReadCancelled(s) \/ FinishCancelled(s)
    \/ StreamExchangesFlag(s) \/ StreamReports(s)

\* Those that do: the server writes, or the stream breaks.
ServerSteps(s) == ReadItem(s) \/ ReadEnds(s) \/ StreamFinishes(s)
===============================================================================
