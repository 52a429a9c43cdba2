------------------------------ MODULE LockOrder ------------------------------
(***************************************************************************)
(* The server's mutexes as such: which handler takes which, in which order *)
(* and around what.  Elsewhere a method under its own mutex is one step;   *)
(* here a handler is nothing but the steps that lock, unlock or block, and *)
(* the rest of what it does is left out.                                   *)
(***************************************************************************)
EXTENDS Naturals, Sequences

CONSTANTS
    Threads,      \* the server's handler threads: bound on concurrent calls
    NoThread,     \* a free mutex
    MaxRounds     \* bound: rounds of handlers that are begun

ASSUME NoThreadAssumption == NoThread \notin Threads
ASSUME MaxRoundsAssumption == MaxRounds \in Nat

\* EventDispatcher::mutex_, those of the three broadcasters, of the rate
\* limiter and of the registry.
Mutexes == {"dispatcher", "messages", "privateMessages", "clientEvents", "rateLimit", "registry"}

\* The order that the code takes them in.
Rank == [dispatcher |-> 1, messages |-> 2, privateMessages |-> 2, clientEvents |-> 2,
         rateLimit |-> 3, registry |-> 3]

VARIABLES
    holder,   \* per mutex, the thread that has it
    call,     \* per thread, the call it handles
    round,    \* per thread, the steps of the handler up to its next loop or its end
    at,       \* per thread, the index in these of the step that is next
    rounds    \* how many rounds were begun, for the bound

vars == <<holder, call, round, at, rounds>>

Lock(m) == [op |-> "lock", of |-> m]
Unlock(m) == [op |-> "unlock", of |-> m]

\* wait_for on m's condition variable, between letting go of m and taking it
\* again; ServerWriter::Write, which waits for a client that does not read.
Wait(m) == [op |-> "wait", of |-> m]
Write == [op |-> "write", of |-> "client"]

-----------------------------------------------------------------------------
(* What methods do to mutexes.                                             *)

\* A block under a lock_guard.
Locked(m, block) == <<Lock(m)>> \o block \o <<Unlock(m)>>

\* Any method of the registry; validate of the rate limiter.
Registry == Locked("registry", <<>>)
RateLimit == Locked("rateLimit", <<>>)

\* nextMessage, nextPrivateMessage, nextClientEvent: at once, or after a wait.
NextItem(m) ==
    {Locked(m, Registry), Locked(m, Registry) \o <<Wait(m)>> \o Locked(m, Registry)}

\* A mutant: the item is written before the mutex is free again.
Delivered_Locked(m) == {Locked(m, Registry \o <<Write>>)}

\* An item is taken, and written to the client.
Delivered(m) == {taken \o <<Write>> : taken \in NextItem(m)}

\* normalizeMessageIndex and its like.
Normalize(m) == Locked(m, Registry)

\* A mutant: the clean-up keeps the registry from changing meanwhile.
CleanUp_RegistryFirst == {Locked("registry", Locked("privateMessages", <<>>))}

\* PrivateMessageBroadcaster::onClientDisconnected asks for every queue.
\* Bound: two queues.
CleanUp ==
    {Locked("privateMessages", queues) : queues \in {<<>>, Registry, Registry \o Registry}}

\* notify...: the callbacks under the dispatcher's mutex.
Walk(callbacks) == Locked("dispatcher", callbacks)

-----------------------------------------------------------------------------
(* The handlers.                                                           *)

Unary == {"Connect", "Disconnect", "SendMessage"}
Streaming == {"SubscribeMessages", "SubscribeClientEvents"}

\* A round and whether the handler loops after it.
Last(steps) == [steps |-> steps, more |-> FALSE]
More(steps) == [steps |-> steps, more |-> TRUE]

\* Rejected, or registered and announced.
Connect ==
    {Last(Registry),
     Last(Registry \o Registry \o Walk(Registry \o Locked("clientEvents", <<>>)))}

\* Nobody, or erased and announced.
Disconnect ==
    {Last(Registry)}
      \cup {Last(Registry \o Walk(Registry \o Locked("clientEvents", <<>>) \o cleanUp)) :
              cleanUp \in CleanUp}

\* Unknown sender or bad content, too fast or public, private with no
\* recipient, private.
SendMessage ==
    {Last(Registry), Last(Registry \o RateLimit),
     Last(Registry \o RateLimit \o Walk(Locked("messages", <<>>))),
     Last(Registry \o RateLimit \o Registry),
     Last(Registry \o RateLimit \o Registry \o Walk(Locked("privateMessages", <<>>)))}

\* An unknown peer is refused; a known one's queue is prepared too.
SubscribeMessages ==
    {Last(Normalize("messages")),
     More(Normalize("messages") \o Normalize("privateMessages"))}

SubscribeClientEvents == {Last(Registry), More(Registry \o Normalize("clientEvents"))}

Begun == [Connect |-> Connect, Disconnect |-> Disconnect, SendMessage |-> SendMessage,
          SubscribeMessages |-> SubscribeMessages,
          SubscribeClientEvents |-> SubscribeClientEvents]

\* One of these, then one of those.
Then(firsts, seconds) == UNION {{a \o b : b \in seconds} : a \in firsts}

\* Once around a handler's loop: the peer is gone, an item is written with or
\* without success, or there was none.  Private messages come first.
MessagesLoop ==
    LET private == NextItem("privateMessages")
        neither == Then(private, NextItem("messages"))
        written == Delivered("privateMessages") \cup Then(private, Delivered("messages")) IN
    {Last(s) : s \in written \cup private \cup neither} \cup {More(s) : s \in written \cup neither}

EventsLoop ==
    {Last(s) : s \in Delivered("clientEvents") \cup NextItem("clientEvents")}
      \cup {More(s) : s \in Delivered("clientEvents") \cup NextItem("clientEvents")}

Looped == [SubscribeMessages |-> MessagesLoop, SubscribeClientEvents |-> EventsLoop]

-----------------------------------------------------------------------------
(* Threads.                                                                *)

Idle == Last(<<>>)

Init ==
    /\ holder = [m \in Mutexes |-> NoThread]
    /\ call = [t \in Threads |-> "none"]
    /\ round = [t \in Threads |-> Idle]
    /\ at = [t \in Threads |-> 1]
    /\ rounds = 0

RoundOver(t) == at[t] > Len(round[t].steps)

StartRound(t, r) ==
    /\ rounds < MaxRounds
    /\ rounds' = rounds + 1
    /\ round' = [round EXCEPT ![t] = r]
    /\ at' = [at EXCEPT ![t] = 1]
    /\ UNCHANGED holder

\* A call arrives.
Begin(t) ==
    /\ call[t] = "none"
    /\ \E c \in Unary \cup Streaming : \E r \in Begun[c] :
          StartRound(t, r) /\ call' = [call EXCEPT ![t] = c]

\* The handler of a stream goes on.
Loop(t) ==
    /\ call[t] # "none" /\ RoundOver(t) /\ round[t].more
    /\ \E r \in Looped[call[t]] : StartRound(t, r)
    /\ UNCHANGED call

\* The handler returns: at its end, or, in a stream's loop, cancelled.
Return(t) ==
    /\ call[t] # "none" /\ RoundOver(t)
    /\ call' = [call EXCEPT ![t] = "none"]
    /\ round' = [round EXCEPT ![t] = Idle]
    /\ at' = [at EXCEPT ![t] = 1]
    /\ UNCHANGED <<holder, rounds>>

NextIs(t, op) == ~RoundOver(t) /\ round[t].steps[at[t]].op = op

Mutex(t) == round[t].steps[at[t]].of

Advance(t) == at' = [at EXCEPT ![t] = @ + 1] /\ UNCHANGED <<call, round, rounds>>

Acquire(t) ==
    /\ NextIs(t, "lock") /\ holder[Mutex(t)] = NoThread
    /\ holder' = [holder EXCEPT ![Mutex(t)] = t]
    /\ Advance(t)

Release(t) ==
    /\ NextIs(t, "unlock")
    /\ holder' = [holder EXCEPT ![Mutex(t)] = NoThread]
    /\ Advance(t)

\* Notified, timed out, or spuriously.
WakeUp(t) == NextIs(t, "wait") /\ Advance(t) /\ UNCHANGED holder

\* The client has read, or is found gone.
WriteReturns(t) == NextIs(t, "write") /\ Advance(t) /\ UNCHANGED holder

Next ==
    \E t \in Threads :
       Begin(t) \/ Loop(t) \/ Return(t) \/ Acquire(t) \/ Release(t) \/ WakeUp(t) \/ WriteReturns(t)

Spec == Init /\ [][Next]_vars

-----------------------------------------------------------------------------
(* Properties.                                                             *)

RoundsOf(c) ==
    IF c = "none" THEN {Idle} ELSE Begun[c] \cup (IF c \in Streaming THEN Looped[c] ELSE {})

\* Every variable has its type, and every thread is at a step of a round of
\* its call or has just finished it.
TypeOK ==
    /\ holder \in [Mutexes -> Threads \cup {NoThread}]
    /\ call \in [Threads -> Unary \cup Streaming \cup {"none"}]
    /\ round \in [Threads -> UNION {RoundsOf(c) : c \in Unary \cup Streaming \cup {"none"}}]
    /\ at \in [Threads -> Nat]
    /\ \A t \in Threads : round[t] \in RoundsOf(call[t]) /\ at[t] \in 1..(Len(round[t].steps) + 1)
    /\ rounds \in 0..MaxRounds

Holds(t, m) == holder[m] = t

\* No thread waits for a mutex while it has one of the same or a later rank:
\* dispatcher, then broadcaster or limiter, then registry.
LocksInOrder ==
    \A t \in Threads : NextIs(t, "lock") =>
       \A m \in Mutexes : Holds(t, m) => Rank[m] < Rank[Mutex(t)]

\* t waits for a mutex that somebody in group has.
BlockedBy(t, group) == NextIs(t, "lock") /\ holder[Mutex(t)] \in group

\* No threads wait for each other in a circle.
NoCircularWait ==
    ~ \E group \in (SUBSET Threads) \ {{}} : \A t \in group : BlockedBy(t, group)

\* A thread that sleeps in wait_for, or writes to a client that may not read,
\* has no mutex: nobody but its own handler waits for that client.
SleepersHoldNothing ==
    \A t \in Threads : (NextIs(t, "wait") \/ NextIs(t, "write")) =>
       \A m \in Mutexes : ~Holds(t, m)
=============================================================================
