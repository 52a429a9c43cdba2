# The chat server and its clients, in TLA+

This directory models the server in `server/src` (a synchronous gRPC server in
C++) and the Qt client in `client/src`: its threads, its windows and its ban
lists.  It checks the models with TLC, and proves theorems about the server's
core, its subscriptions, its locks, and the client's views and threads with TLAPS.

    tlc -workers 2 -config unary_calls.cfg MCChatSystem
    tlapm ChatSystem_proofs.tla
    tlapm ServerLogs_proofs.tla
    tlapm StreamCalls_proofs.tla
    tlapm RosterSystem_proofs.tla
    tlapm MessageSystem_proofs.tla
    tlapm ClientViews_proofs.tla
    tlapm ClientProcess_proofs.tla
    tlapm LockOrder_proofs.tla

## 1. The system

### Components, their state and their operations

| component | state | operations |
|---|---|---|
| `domain::ClientRegistry` | `clients_`: peer address -> pseudonym, time of connection; one leaf mutex | name check, look-ups both ways, list of names, connection time; add or overwrite on *connected*, erase **by pseudonym** on *disconnected* |
| `events::EventDispatcher` | `mutex_`, list of observers | `notifyX`: every observer in registration order, under the mutex, in the caller's thread |
| `ChatService` (unary) | none of its own | `Connect`, `Disconnect`, `SendMessage`: read the registry, decide, then raise an event |
| validators | per peer, the time of the last message | content length, then one message per second and peer |
| `MessageBroadcaster` | history of public messages, index per peer | append; hand out the next one or wait 200 ms |
| `PrivateMessageBroadcaster` | queue per peer | append; pop the next one; drop the queues of peers that left |
| `ClientEventBroadcaster` | log of ADD/REMOVE, index per peer | append; hand out the next one or wait 200 ms |
| `ChatService` (streams) | a handler thread per subscription | `SubscribeMessages`, `SubscribeClientEvents`: loop over cancellation test, next item, write |
| `DatabaseEventLogger`, `DatabaseManagerSQLite` | a row of totals per pseudonym | count a connection, a message, a duration; any write may fail |
| client RPC layer, `ChatServiceGrpc` | two streams, each with a running flag, a context and a thread | unary calls that block the GUI thread (only `Connect` has a deadline); start, cancel and join the streams; probe the channel |
| client session: `LoginView`, `ChatWindow`, `MainWindow` | current view, `pseudonym_` (never cleared), context menu, connect button | log in, disconnect, close, send, show what arrives; open and reset the user's database |
| roster, `ClientListHelper` | rows: a text and a banned flag; the current row | populate, add, remove, ban, unban; rows are found by name without case and without the ban mark |
| private windows, `ChatWindow` | table of windows by lower-case name, never shrinking | show a message, open on request, close |
| ban list, `BanListView`, `BannedUsersModel` | visible or not; the names listed at the last refresh | toggle, close, remove a name (twice: here and in the roster) |
| client database, `DatabaseManagerSQLite` | a file per user with a table of banned names | open at login, reset on disconnection, ban, unban, query; any call may fail |

### How they interact

A client's unary call runs in a server thread of its own.  It reads the registry
in one or more locked steps and then waits for the dispatcher's mutex.  With the
mutex it runs the observers: registry, message broadcaster, database logger,
event broadcaster, private broadcaster, each of which takes its own lock.  The
two subscriptions of each client run in two more threads; they take a
broadcaster's lock, ask the registry, and let go of the lock while they wait.
On the client, a stream thread posts what it reads to the GUI thread, which also
makes the unary calls and therefore shows nothing while one of them is out; it
stops a stream by clearing the flag, cancelling the context and joining the thread.
The windows all live on the GUI thread; the context menu of the roster leaves the
event loop running, so rows come and go under it.

### Where it is hard

* **Check, then act.**  Every decision of a handler is made from the registry
  before the event that changes it, with no lock in between.
* **Two identities.**  The registry is keyed by transport address, but
  `Disconnect` erases by pseudonym, and a private message looks its recipient up
  by pseudonym and is then queued by address.
* **Sessions overlap.**  The channel is kept over a disconnection, so the next
  session has the same address, the indices of the former one, and possibly a
  handler of the former one that has not noticed its cancellation.
* **A gap between snapshot and stream.**  The roster is read before the caller is
  registered, and the event stream starts at the end of the log.
* **A deadline that only the client knows.**  `Connect` goes on after it.
* **Waits that release the lock.**  Whatever was looked up before is looked up again.
* **One mutex for everything**, held over a database write and over callbacks that
  take two more levels of mutexes below it.
* **Two ends of one stream.**  A stream may end by itself or be stopped, and both
  sides touch the flag; a finished thread that was not joined ends the program when
  the next one is assigned to it.
* **Three copies of who is banned**, in the database, the roster's marks and the
  ban list's rows, each changed by calls of which any may fail.
* **Names compared in two ways**: exactly in the registry and the ban table, without
  case in the roster and the private windows; and " - banned" is both a mark and
  something a user may be called, more than once: what is cleaned may be cleaned again.
* **What a session leaves behind** on the client: `pseudonym_`, rows, private windows.

## 2. The modules

    SteadyClock            now, seconds
      ClientRegistry       clients_
        MessageValidation  MessageBroadcaster  ClientEventBroadcaster   (+ PeerCursor)
        PrivateMessageBroadcaster  StatisticsDatabase  EventDispatcher
          ChatService      the unary handlers and the dispatcher's walk
            ChatClient     the client process and its RPCs
              ChatSystem   the closed system, its properties
                ChatSystem_proofs            theorems: types, overlapping Connects, views,
                                             registry and event log, authors
                  ServerLogs_proofs          ... message history, statistics
                StreamCalls                  a streaming RPC between client and server
                  StreamCalls_proofs         lemmas on streams (with ChatSystem_proofs)
                  RosterSystem               SubscribeClientEvents and the roster
                    RosterSystem_proofs      theorems
                  MessageSystem              SubscribeMessages and the conversations
                    MessageSystem_proofs     theorems
    Feed                   what a subscription promises (abstract)

    DisplayNames           names, marks, the two comparisons
      ClientDatabase       a ban table per user
        ClientListHelper   the roster's rows          BanListView   the ban list
      PrivateChats         the private windows
        ClientViews        the client's GUI: sessions, menus, the views together
          ClientViews_proofs                 theorems
    PerUserBans            what per-user ban lists promise (abstract)

    ClientStreams          flag, context and thread of each stream
    LoginView              connect button and probe
      ClientProcess        the GUI thread and the stream threads, start to exit
        ClientProcess_proofs               theorems

    LockOrder              every mutex of the server, lock by lock
      LockOrder_proofs                       theorems

    MCChatSystem, MCRosterSystem, MCMessageSystem,
    MCClientViews, MCClientProcess, MCLockOrder   small instances

A component module holds its state and one operator per method; a method that is
a leaf under its own mutex is one atomic step of its caller.  A method that waits
on a condition variable is split where it lets go of the mutex (`Start...` up to
the wait, `Resume...` after it).  The wait itself is a program counter of the
handler: it may end at any time, as a notification, a time-out or a spurious
wake-up do, so no timer is modelled.

`ChatService` keeps the locals of the handler in thread `t` in `calls[t]`, with a
`pc` that names the step it is about to take:

| call | steps | code |
|---|---|---|
| Connect | `check`, `roster`, `notify`, `dispatching` | `chat_service.cpp` 47-53, 60-64, 66-70 |
| Disconnect | `duration`, `notify`, `dispatching` | 92-93, 97-103 |
| SendMessage | `lookup`, `validate`, `recipient`, `notify`, `dispatching` | 123-127, 129-143, 150-159, 161-178 |

`dispatch` is the dispatcher's mutex together with the walk of its owner: the
event, and the observer that is next.  `Observers` is the registration order of
`GrpcRunner`, with the callbacks that have an empty body left out.

`ChatClient` has a `view` per client and at most one awaited call; `Invoke` puts
a call into an idle server thread.  A call whose client gave up (deadline, crash)
runs on and its answer is dropped.  In `StreamCalls` a handler is started for
every login; `Stale(h)` says that its client has moved on.  Between the
cancellation and the handler's next look at `IsCancelled` it goes on taking items
from the broadcaster, and what it writes reaches nobody.  What the client's
stream thread had read when the stream is stopped is still handed to the GUI
thread afterwards (`StopStream` keeps any prefix of what was written); the event
loop delivers it before the user can log in again.

`ClientProcess` takes the client from the inside.  `gui` is what is left of the
program the GUI thread is in: a handler (`HandleConnect`, `HandleDisconnect`,
`HandleClose`...) sets it to the sequence of flag, cancel, join, launch and call
steps that the code makes, destructors included, and `GuiSteps` takes one at a
time, between any steps of the stream threads.  A join waits for its thread, a call
for its answer, and no handler begins meanwhile.  A stream's thread is a
`pc` through `open`, `loop`, `read`, `post`, `finish`, `exchange`, `report`
(`chat_service_grpc.cpp`, the two thread lambdas).

`ClientViews` has no server: any name may be listed, announced or heard from at
any time (a name that is announced twice is what overlapping sessions on the server
can bring).  Each action is a handler of the event loop.  The roster's context menu
is a state, `menu`, because the loop runs on under it: the row it was opened on may
go, and its actions take the row that is *current* when they are chosen.

Names are records of letters, a case, and a `tail` of what follows the letters: any
sequence of suffixes as the list writes them, suffixes in another case and blanks,
which is what the code's comparisons and `cleanPseudonym` tell apart.  Nothing bounds
it, as nothing in the login view or the server does.  So the code's repeated cleaning
is there as it is: `banUser` and `unbanUser` clean a row's text for the database and
`findItem` cleans the result once more, and Remove deletes a listed name and then its
cleaned form, which may be another user's.  An item of the list is identified by the
name it was made for and a copy number; the position in the list is left out, and
`findItem` is the set of the items that match, of which the code takes the first and
the model any.

`LockOrder` is the other half of the first rule above, that a method under its own
mutex is one step.  It leaves out all data and keeps, of each handler, the locks it
takes and gives back, the waits on a condition variable and the writes to a client:
a handler is a set of sequences of such steps, one per way through it, put together
from blocks (`Locked`, `Normalize`, `NextItem`, `Walk`...) as the methods are from
each other.  The loop of a stream begins such a sequence anew, as often as it likes.

| module | state | code |
|---|---|---|
| `ClientStreams` | `running`, `thread`, `wasRunning` | `chat_service_grpc.cpp` 121-256 |
| `LoginView` | `ready`, `connectButton` | `login_view.cpp` 73-130 |
| `ClientProcess` | `gui`, `view`, `loggedInOnce` | `main.cpp`, `main_window.cpp`, `chat_window.cpp` |
| `ClientDatabase` | `banned_users`, `dbPath`, `opened` | client's `database_manager_sqlite.cpp` |
| `ClientListHelper` | `rows`, `current` | `client_list_helper.cpp` |
| `BanListView` | `visible`, `listed` | `ban_list_view.cpp`, `banned_users_model.cpp` |
| `PrivateChats` | `privateChats` | `chat_window.cpp` 128-155, 314-334 |
| `LockOrder` | `holder`, `call`, `round`, `at` | the server's `lock_guard`s and `unique_lock`s |

History variables have no counterpart in the code and influence no step:
`admittedAt` and `checkedAt` (when a Connect checked its name), the fields
`sender`, `sentAt`, `to` and `id` of messages, `privateSent`, in the stream
modules `shown...`, `snapshotAt`, `base`, `stolen`, `lost`, and in the client's
`faults` (which kinds of calls failed), `menuRowLeft`, `changedSince`, and the
`authors` of a private window.

**The abstract specifications.**  `Feed` says what a subscription promises: a log
that only grows, and readers that are shown entries in log order, none twice,
over all their sessions.  It does not promise that nothing is missed; the code
does not.  `EventsInOrder`, `PublicInOrder` and `PrivateInOrder` state that the
three streams implement it, with the server's log as `log` and the client's
screen as `shown`.  What is missed is bounded by the invariants below.
`PerUserBans` says what the README's "per-user ban lists" are: somebody is logged in
or nobody is, and a list changes only while its owner is, by one name, with which its
bare form may go when it is taken off; `PerUser` states that the client implements it, with the tables of the files as `bans`.

## 3. What is checked

Every property is stated in words where it is defined.  The main ones:

* `DuplicatesOnlyFromOverlap`: two peers hold one name only if each checked it
  before the other was registered, that is if their Connect calls overlapped.
* `ChatImpliesRegistered`, `GoneImpliesUnregistered`: as long as users have names
  of their own, a client that shows the chat is in the registry under the name it
  shows, and one that has left is not, whatever other clients do.
* `EventLogAgrees`: between two events, the last thing the log says of a name is
  that it arrived if and only if the name is connected.
* `StatisticsMatchLogs`, `MessagesObeyLimits`: the totals are the counts of the
  logs, and the history obeys the validators' limits.
* `EventsAccountedFor`, `PublicAccountedFor`, `PrivateAccountedFor`: an item the
  server has handed out was shown, is under way, was taken by a handler of an
  earlier session, or was dropped with a session or a queue; a private message is
  in exactly one place.  The first two need names of one's own: a namesake's
  Disconnect erases the peer from the registry, a handler that looks then leaves the
  peer without an index, and when a late Connect has put the peer back, the session
  goes on at the end of the log and skips what came before.
* `RosterRight`: a roster that has caught up is right about every name whose last
  event its reader did not miss, and `Missed` says exactly which those are.
* `MarksTrue`, `MarksComplete`, `ViewMatchesDatabase`: the roster's marks and the
  ban list's rows agree with the database of the user who is logged in, up to named
  exceptions, whichever of the database's calls failed before.  The exceptions that
  come from the code's cleaning of names, below, are part of what they state.
* `RowsDistinct`, `ReplyReachesAuthor`, `WindowsAreForUsers`: rows and private windows
  stand for one name each, and a reply goes to whom it answers.
* `BanHitsItsRow`, `NeverBansOneself`: a menu that is up while rows come and go bans
  whom it was opened for, unless that row itself left.
* `NeverOverwritten`, `QuietWithoutSession`, `OwnCancelIsSilent`: no thread is assigned
  over an unjoined one, no stream outlives its session, and the client does not report
  the cancellation it made itself.
* `NoCircularWait`, `SleepersHoldNothing`: nobody waits in a circle, because mutexes are
  taken in the order dispatcher, broadcaster, then registry or rate limiter
  (`LocksInOrder`, which is proved); and nobody has one in `wait_for` or `Write`, so that
  a client that does not read stops nobody but its own handler.
* `CallsAnswered`, `ClientsResponsive`, `SubscriberCatchesUp`, `StaleHandlersEnd`,
  `GuiReturns`, `ButtonFollowsChannel`: progress.

**Names that end with the suffix.**  Nobody keeps a user from being called "x - banned",
or "x - banned - banned", and the client cleans names of a suffix that is part of them.
What then happens is in the model, and the properties say it:

* A ban of "x - banned - banned" puts "x - banned" in the table and marks the row of x,
  who is not banned (`client_list_helper.cpp:57`, `65`, `99`).  `MarksTrue` has it as its
  second case: a marked row's user is banned, or somebody is whose name is taken for that
  user's with one more suffix.
* The row of a user whose own name ends with the suffix never gets a mark
  (`client_list_helper.cpp:128`).  `MarksComplete` is about the others, and it holds of
  x also while "x - banned" and "x - banned - banned" come, go, and are banned.  It leaves
  out names that occur in two cases (`PlainNames`): they share a row, and Remove of one
  takes off the mark that stands for the other.
* Remove of "x - banned" deletes that ban and then, cleaned, the one of x
  (`ban_list_view.cpp:41`, `client_list_helper.cpp:71`).  `PerUserBans` lets the bare form
  go with a name, and `ViewMatchesDatabase` counts that second deletion as one made in the
  roster, as it is: the view goes on listing x.
* Four suffixes are too many for `RowsDistinct`: an unban that is meant for one row may
  unmark another and take a suffix off it that is part of its name, after which two rows
  are found by one name.  A suffix in another case and extra blanks do similar things.
  `TidyWords` are the letters of names free of both; `RowsDistinct`, `MarksTrue` and
  `WindowsAreForUsers` are about names with these letters, whoever else is about.
* `BanHitsItsRow`, `NeverBansOneself`, `ReplyReachesAuthor`, `PerUser` and
  `ViewMatchesDatabase` make no such exceptions.

### Runs

| run | module | shows | instance |
|---|---|---|---|
| `unary_calls` | MCChatSystem | `TypeOK`, `DuplicatesOnlyFromOverlap`, `StatisticsMatchLogs`, `MessagesObeyLimits` | two users who compete for a name; p1 may try twice, under either name, give up on a Connect, close, and send twice, publicly or privately, 300 or 301 characters; p2 may crash, or leave and write from a window it still has; one write may fail |
| `roster_relogin` | MCRosterSystem | `ChatImpliesRegistered`, `GoneImpliesUnregistered`, `EventLogAgrees`, `RosterTypeOK`, `EventsAccountedFor`, `RosterRight`, `EventsInOrder` | a name each; p1 watches, logs in twice and may give up on a Connect, p2 comes and goes |
| `roster_liveness` | MCRosterSystem | `SubscriberCatchesUp`, `StaleHandlersEnd` | one login each; p1 may close, p2 may crash |
| `streams_relogin` | MCMessageSystem | `MessageSystemTypeOK`, `PublicAccountedFor`, `PrivateAccountedFor`, `PublicInOrder`, `PrivateInOrder` | p2 watches and logs in twice, p1 sends two messages |
| `streams_liveness` | MCMessageSystem | `CallsAnswered`, `ClientsResponsive`, `SubscriberCatchesUp`, `StaleHandlersEnd` | p2 watches and may leave, close or crash; p1 sends one |
| `client_views` | MCClientViews | `ClientViewsTypeOK`, `RowsDistinct`, `MarksTrue`, `MarksComplete`, `ViewMatchesDatabase`, `ReplyReachesAuthor`, `WindowsAreForUsers`, `BanHitsItsRow`, `NeverBansOneself`, `PerUser` | two users, bob and eve, share the program; the names bob, "bob - banned", "bob - banned - banned", eve and Eve; two logins, two roster events, two private messages, one kind of failing call, two bans, and no more than two or three of these things at once (below); 166,458 states |
| `client_threads` | MCClientProcess | `TypeOK`, `NeverOverwritten`, `QuietWithoutSession`, `OwnCancelIsSilent`, `GuiReturns`, `ButtonFollowsChannel` | one process, both streams, any number of sessions: no bounds |
| `lock_order` | MCLockOrder | `NoCircularWait`, `SleepersHoldNothing` | three threads, four rounds of handlers between them |
| `unique_pseudonyms` | MCChatSystem | `UniquePseudonyms` is violated | two overlapping Connects |
| `roster_live` | MCRosterSystem | `RosterLive` is violated | two logins |
| `late_joiner` | MCMessageSystem | `HistoryForLateJoiners` is violated | p2 joins after a message |
| `wrong_addressee` | MCMessageSystem | `PrivateReachesAddressee` is violated | p2 comes back under another name |

### The four disagreements

* **`unique_pseudonyms`.**  Both Connects pass `isPseudonymAvailable`
  (`chat_service.cpp:47`) before either is registered.  One consequence, because
  `onClientDisconnected` erases the first entry under a name: the Disconnect of
  one of the two may throw the other out.
* **`roster_live`.**  A name that arrives after the answer's roster was read and
  before the caller's event stream has found its place is in neither, and stays
  missing (a departure in that gap leaves a ghost).
* **`late_joiner`.**  The README promises history to late joiners; the code, and
  its unit test, start a new peer at the end.
* **`wrong_addressee`.**  The recipient's address is looked up, the recipient
  leaves, the message is queued for the address, and the same client's next
  session, under another name, is shown it.

More observations, which no document contradicts:

* A new session first replays what was logged after its predecessor's index, its own
  REMOVE included, so its roster may for a moment lack its own name.
* A handler of the former session that has not noticed its cancellation can take one
  item from the new session on each stream (`stolen`, `lost`).
* When the row under the context menu leaves, Qt makes a neighbour current, and the
  menu's action bans the neighbour, possibly the user's own row.
* Somebody called "bob - banned" is taken for a marked bob: banning that user bans bob,
  and the user's own row has a menu.  Banning "bob - banned - banned" marks bob.
  In the ban list, Remove of "bob - banned" removes the ban of bob too, and Remove of one
  spelling of a name takes the mark off another's row.
* A private window the user closed is raised by *private chat* but not shown
  (`chat_window.cpp:317`); it comes back with the next message.  A private window
  keeps the name its owner had when it was made (`chat_window.cpp:140`).
* `onConnectFinished` enables the connect button whatever the channel's state, until
  the next probe (the comment at `login_view.cpp:128` has the probe decide), and the
  Enter shortcuts do not ask whether the button is enabled.

### Bounds, and why they are enough

* **Two peers, two or three names.**  Every property relates at most two peers; a
  third would be one more independent actor on the same locks.  `wrong_addressee`
  needs a third name.
* **Threads.**  Two handler threads, one per client or one for a call that outlived its
  deadline; `OverlapSafe` is proved for any number.  Two stream
  threads: the present handler and one of the former session.
* **`MaxLogins`, `MaxSends`, `MaxTimeouts`** bound what users do.  Two logins are
  what a stale index or handler needs, two messages what an order and the rate
  limit need.  `LeavePeers`, `ClosePeers`, `CrashPeers` say who may end a session
  how; in the stream runs the sender stays.
* **`MaxTime`, `TicksPerSecond`.**  One tick is enough for the rate limit and for
  "before" and "after"; the durations that matter are in whole ticks.
* In `RosterSystem` the clock stands still: durations and rates do not touch the roster.
* **`MaxDbErrors`.**  One failing write.  **`OneFault`** (a constraint of `unary_calls`):
  a write fails, a deadline expires or a client dies, but no two of these in one
  behaviour; none of the four invariants relates two of them, and `roster_relogin` has
  the deadlines of clients that come and go.
* **`WritesAfterwards`** (an action constraint of `unary_calls`): p2 writes once, from a
  private window after its session, while p1 is in the chat and has not written, and
  nothing has failed.  The server refuses it, or takes it where a shared name made p1's
  entry go in place of p2's.
* **`Watchers`**: whose stream is followed; streams of different clients touch
  different indices and queues.
* **`SenderFirst`, `TickBetweenCalls`** (constraints of `streams_relogin`): the
  sender is in the chat before the reader starts, and the clock waits for the first
  message and for a moment with no unary call under way.  What they cut off,
  overlapping logins and a clock that moves during a call, `roster_relogin` and
  `unary_calls` explore.
* **`WatcherFirst`** (a constraint of `roster_relogin`): the second client starts to
  log in once the watcher has entered the chat.  Its call may linger over the
  watcher's departure and return, so the second session meets every order.

* **`MaxFaults`** counts *kinds* of failing calls: one kind may fail any number of
  times.  The exceptions in the properties name one kind each, so one is enough to
  see each alone.
* **`MaxLogins`, `MaxEvents`, `MaxPrivate`** of `ClientViews`: the second login is the
  other user's or the same one's; two roster events let a row leave and come back, or
  two rows leave, under one menu; two messages make two authors of one window.
* **The five names** are the cases the comparisons know: equal, equal but for the case,
  equal but for one suffix or two, different.  With two suffixes a name that was cleaned
  can be cleaned again, and the two deletions of Remove can be of two names.  Names with
  three suffixes, and what `TidyWords` leaves out, are for the proofs.
* **`MCCopies`**: no second item is made for a name while its first one is there, as
  `RowsDistinct` shows, so one copy is enough where the properties speak.
* **`FewBans`** (a constraint of `client_views`): one more ban is followed while there
  are at most two in both lists.  **`FewComplications`** (another): roster events, a
  second login, a failed call (which counts twice) and an open or filled ban list are
  three at most in one behaviour.  Both cut where a state is gone on from, so the step
  that exceeds them is still checked.  Every exception in the properties names two of
  these things at most; together they are followed by the proofs.
* **`PrivateApart`** (an action constraint of `client_views`): private windows are opened
  while no call failed, no roster event came, the ban list was not opened, one name is
  banned at most and the roster has two rows at most; they share no state with these.
* **`MaxRounds`** of `LockOrder`: four rounds let two streams loop at once, or a stream's
  loop meet the calls of the other threads; three mutexes are nested at most.  The clean-up of private queues
  (`CleanUp`) asks the registry for two queues at most: each is one more lock and unlock
  of the same mutex.
* `ClientProcess` needs no bound: its sessions leave nothing behind but flags.

Server and stream threads are interchangeable, so the safety runs use symmetry
over them; the liveness runs do not.  `CHECK_DEADLOCK FALSE` is set everywhere:
users stop for good when they have closed their window or used up their bounds.
That nobody waits for ever is what the liveness properties say instead.

### Fairness

Weak fairness of each handler's steps, of the dispatcher's walk, of the delivery
of a cancellation, and of the GUI threads' event loops: the operating system runs
threads that are ready, a timed wait ends, and gRPC delivers a cancellation.  For
a handler that waits for the dispatcher's mutex weak fairness asks a little more
than `std::mutex` promises, but with finitely many calls the others run out, and
then the mutex stays free.  No fairness is assumed of users: nobody has to log
in, send, leave, time out or crash.

In `ClientProcess`: weak fairness of the GUI thread's steps (a call is answered,
which `CallsAnswered` says of the server) and of each stream thread's own steps,
among them that `Read` and `Finish` return once the context is cancelled.  Nothing
is assumed of a stream that is not cancelled: it may be silent for ever.  The probe's
timer has strong fairness: whenever the event loop gets to run again and again, Qt
handles an expired timer some time, however busy the loop is in between.

## 4. What is proved

### The server's core

`ChatSystem_proofs.tla`, for every number of peers, names, threads, calls and
ticks:

* `TypeCorrect`: `Spec => []TypeOK`.
* `OverlapSafe`: `Spec => []DuplicatesOnlyFromOverlap`.

`TypeOK` is not inductive: that an observer's step keeps the types depends on the
walk's owner being a handler that is dispatching.  `TypeInv` adds `WalkOwned`
(the mutex is held by a handler in its `dispatching` step, and a ClientConnected
event is the one its Connect raised) and `TimesPassed` (no recorded time is in
the future).

For `DuplicatesOnlyFromOverlap` the danger is a Connect that has found its name
free and has not registered yet (`Pending`).  `RivalsCameLater` says that whoever
holds the name of a pending Connect was registered no earlier than the check.
When the check succeeds nobody else holds the name; from then on a rival can only
appear by being registered now, which is no earlier; and when the pending Connect
is itself registered, `RivalsCameLater` is what `DuplicatesOnlyFromOverlap`
claims in one direction, and `TimesPassed` gives the other.  The proof has one
step per action: most keep every entry of the registry and every pending Connect
(`OverlapFrame`), and the two that do not are the registry's callbacks.

It goes on from `TypeInv`, and so does `ServerLogs_proofs.tla` with the last two:

* `ChatRegistered`: `Spec => []ChatImpliesRegistered`.
* `GoneUnregistered`: `Spec => []GoneImpliesUnregistered`.
* `EventLogRight`: `Spec => []EventLogAgrees`.
* `AuthorsAreSenders`: `Spec => []AuthorsKnown`.
* `LimitsObeyed`: `Spec => []MessagesObeyLimits`.
* `StatisticsRight`: `Spec => []StatisticsMatchLogs`.

`Spec` is `ChatSystem`'s, whose variables the two streams only read; the run
`roster_relogin` checks the first three with the roster's stream around it.  The first
three are about users with names of their own, so the invariant they rest on is
assumed only under `NamesAreOwn`.

`WalkInv` says that no handler but the mutex's owner is dispatching and that the event
is the one its call raises.  `SessionInv` has four parts.  `NamesUsed`: every name in
a call, a client or the registry is its user's.  `AwaitedInv` and `CallsAwaited` tie
the call a GUI thread waits for to the view, and say that nobody's Disconnect, and no
Connect whose deadline did not expire, runs without being waited for: a late call is
what could throw a client out of the chat.  `Registered` says from when to when a
client is in the registry, in terms of the awaited call being `Past` the registry's
callback.  The erasing callback is where names of one's own are needed: it erases
whoever has the event's name, and `Erased` shows that this is the caller.  What a
step does to the calls is stated once per kind of step: `Shape` for a handler's,
`Returns` for an observer's, `Starts` and `Ends` for a client's.

`EventLogAgrees` only speaks of an unlocked dispatcher.  `LogInv` adds the walk: an
event is `InFlight` from the registry's callback to the log's, and then the registry
knows already what the log is about to say.

`MessagesObeyLimits` does not need names.  A message between validation and storage is
`Fresh`; `LimitsInv` says that its timestamp is the recorded one of its peer and at
least the interval after all of the peer's in the history.  That two fresh messages of
a peer can not exist is `SendsInv`: a client has one SendMessage under way, because the
GUI thread waits for it and a client that died sends no more.

`AuthorsKnown` says that every message of the history is under a name of its sender's
user.  It is no run's property, and holds whoever competes for names: a SendMessage looks
its author up by address, and only the owner of an address registers anything there.
`RouteInv` follows the names from there: the author and, of a private message, the
recipient in each SendMessage (`Addressed`) and in the event being walked (`Announcing`)
are names that the user behind the address may use.  `OwnCalls`, that a client's answer
is to a call of its own, replaces `AwaitedInv`, which needs names of one's own.

`StatisticsMatchLogs` speaks of an unlocked dispatcher too.  `CountInv` says by how much
the table and the logs differ during a walk: whichever of a log and the table is the
observer further up the chain is one `Ahead` of the other.  Appending adds one place to
the cardinality of an author's places (`OneMore`).  An update that finds no row is
skipped by the code, silently; `RowInv` shows that none is while no write has failed:
whoever is in the registry, or writes under a name found there, has a row or is about to,
since the walk of ClientConnected goes from the registry straight to the database and no
other event is walked before it ends.  Neither of them needs names of one's own.  The clause on `cumulated_connection_time_sec` does: `TimeInv`
says that the seconds in a row were over before the session began that the name is in,
and that a Disconnect which has measured its own adds no more than has passed since;
adding up whole seconds only loses (`SecondsAdd`).  `OneDisconnect` keeps a client from
being measured twice at once.

### The subscription to the roster

`RosterSystem_proofs.tla`, for every number of peers, names and handlers of either kind:

* `RosterTypeCorrect`: `RosterSpec => []RosterTypeOK`.
* `ImplementsEventsFeed`: `RosterSpec => EventsInOrder`, the refinement of `Feed`.
* `NoEventLost`: `RosterSpec => []EventsAccountedFor`.
* `RosterIsRight`: `RosterSpec => []RosterRight`.

`StreamCalls_proofs.tla` holds what does not depend on what is streamed.  `InLine` says
of one reader that what it was shown, what is in its inbox and what its handler has in
hand come in this order in the log and go no further than a limit; there is one lemma
for each thing that may happen to the line (`LineTakes`, `LineWrites`, `LineStops`,
`LineShows`, ...).  `StreamInv` ties a client to the handler it reads from, and one
lemma per operation of `StreamCalls` says what the operation does to each client's hand
and inbox.  The server behind the stream keeps `ServerInv`, what the sections above
prove, since each step of `RosterSystem` is one of `ChatSystem`'s or touches only
cursors and queues (`ServerKept`, `ServerFrame`).

`EventsInOrder` needs `OrderInv`: every reader's line is in order up to its `Limit`, the
index of its peer, or the whole log while the peer has none, since an index that was
dropped comes back at the end of the log.  This is what makes a handler of an earlier
session harmless: it moves the index it shares with its successor, but never back.

`EventsAccountedFor` adds `PlacedInv`: every position from where the session's handler
found its place up to the limit is `Found`, on the screen, in the inbox, in somebody's
hand or taken by a stale handler.  The proof attempt showed that the property is false
when users compete for names (section 3), and TLC then found the run of it.  With names
of their own, `SessionInv` keeps a client in the chat in the registry, so that no handler
drops the index of a session that goes on.

`RosterRight` adds `RightInv`: a roster is right about every name whose last mention in
the log its reader has `Seen`, because it was shown or because Connect read the names
after it.  Between Connect's reading and the answer the same is said of the names the
call carries.  When an event is shown that is not its name's last, the reader has not
seen the last one yet, since events come in order; when it is the last, the row it
leaves is the right one.  `LogInv` then equates the last mention with the registry.

### The subscription to messages

`MessageSystem_proofs.tla`, for every number of peers, names and handlers of either kind:

* `MessageTypeCorrect`: `MessageSystemSpec => []MessageSystemTypeOK`.
* `ImplementsPublicFeed`: `MessageSystemSpec => PublicInOrder`, a refinement of `Feed`.
* `ImplementsPrivateFeed`: `MessageSystemSpec => PrivateInOrder`, another one.
* `NoMessageLost`: `MessageSystemSpec => []PublicAccountedFor`.
* `PrivateKept`: `MessageSystemSpec => []PrivateAccountedFor`.
* `PrivateStays`: `MessageSystemSpec => []PrivateStaysWithUser`.
* `OneNameReachesAddressee`: `MessageSystemSpec => [](OneNameEach => PrivateReachesAddressee)`.

The first three follow from `MessageInv`.  Its `OrderInv` puts two lines on one
stream: the public messages a client was shown, has in its inbox and its handler has in
hand are in order up to the client's index in the history, and the private ones in order
up to the head of its queue.  Two handlers may take from one queue, the second one of an
earlier session; that the ranks in a queue grow (`QueueInv`) is what keeps the rest of
the queue beyond everything taken.  `HandlerCases` lists the five things a handler's step
can do to the lines, `QueueSteps` what a step of the server can do to the queues.

`NoMessageLost` adds `PlacedInv`, as the roster does, and like it needs names of
their own: a client that reads a stream is then registered, and its index is not dropped.

`PrivateKept` does not need them.  The queues, the handlers' hands, the inboxes, the
screens and what was dropped are the sites of a private message, and `TallyInv` says that
they share out the ranks of everything ever sent: no rank is at two sites, none is
missing.  Every step moves some ranks from one site to another (`TallyMoves`) or puts a
new one into a queue (`TallyNew`); there is one lemma per kind of move, `MoveToHand`,
`MoveToBox`, `MoveToScreen`, `MoveToQueue` and `MoveToLost`.  Within a site the ranks are
distinct because lines and queues are in order, so counting places comes down to
counting sites.

The last two are what is true of the disagreement `wrong_addressee`.  A private message
can be shown under a name it was not written to, but never to a user it was not written
to: what is shown to a client was written to a name of its own user (`PrivateStaysWithUser`),
with no assumption about names.  And the shown name is the written one wherever each
user keeps to one name: changing one's name between two sessions is the only way to the
disagreement.  `MailInv` says it of every message in a client's `Mail`, that is its queue,
its handlers' hands, its inbox and its screen.  `RouteInv` of the server's core gives it for the message that
the walk queues (`WalkMail`); every other step moves a message within one client's mail
or takes it away (`HandlerMail`, `LeaveMail`, `ShowMail`), a stale handler's too, since
it serves the same client.

### The client's views

`ClientViews_proofs.tla` proves every property of the run `client_views`, for all
names, users and bounds: `ViewsTypeCorrect`, `RowsStayDistinct`, `MarksStayTrue`,
`MarksStayComplete`, `ViewStaysTrue`, `RepliesReachAuthors`, `WindowsStayForUsers`,
`BansHitTheirRow`, `NobodyBansOneself`, and that the client implements `PerUserBans`
(`ImplementsPerUserBans`).  What is assumed of names is that they are trimmed, as the
login view trims them; they may end with any number of suffixes.

They rest on one inductive invariant, `Inv`.  `ListInv` is about rows with tidy letters.
Cleaning takes one suffix off, so of a tidy text only the letters and the number of
suffixes less one, or none, matter to `findItem` (`AlikeTidy`): two texts are `Twin` when
they agree in these.  `ListInv` says that no two items were made for names that are
twins, and `RowFor` that each row is still found where its item's name is: a mark turns
no suffix into one, which cleaning levels, and only a row with exactly one suffix is
marked.  `RedisplayRight` shows that a ban or an unban leaves a row so whatever row it
reaches, the wrong one included.  It needs to know how long a text it is called with can be
(`Target`), which is where three suffixes are the limit: what an unban looks for, cleaned
twice, has none left, so a row it reaches has one suffix at most and is found by the
same name without it.

`DatabaseInv` and `ViewInv` say that what is banned or listed is what cleaning left of a
name (`Stored`): every way into them cleans first.  `SessionInv` ties the open database
to the user in the chat, who alone has a menu or the ban list up.  `MenuInv` is what makes
the menu safe: as long as the row it was opened on has not left, it is the current one,
since only a removal moves the current row, and it is not the user's own.  `StepInv` has
one lemma per part (`ListKept`, `DatabaseKept`, ...) and in each one step per action.

`BansHitTheirRow`, `NobodyBansOneself` and `ImplementsPerUserBans` follow from `Inv`
action by action, for names of any form: `NewlyBanned` shows that only the menu's action
adds a name, the current row's, to the list of the user in the chat.  `ViewStaysTrue`,
`MarksStayTrue` and `RepliesReachAuthors` add themselves (the last with the window's key,
`ChatsInv`).  For `MarksStayTrue`, `MarkMade` gives the two ways a row gets its mark: its
own name was banned, or one that cleaning makes it; and `MarksLeft` says that an unban
leaves no marked row with the letters of its name.  `MarksStayComplete` needs that an
unban which reaches a plain user's row was of that user's very name (`PlainUnmarked`).

### The client's threads

`ClientProcess_proofs.tla` proves the safety properties of the run `client_threads`, and
two more of the same specification:

* `ProcessTypeCorrect`: `Spec => []TypeOK`.
* `ThreadsAreJoined`: `Spec => []NeverOverwritten`.
* `NothingLeftBehind`: `Spec => []QuietWithoutSession`.
* `CancelIsSilent`: `Spec => []OwnCancelIsSilent`.
* `NoJoinHangs`: `Spec => []JoinsNeverHang`, the safe part of `GuiReturns`: the GUI thread
  joins no thread that is in `Read` or `Finish` and was not cancelled.
* `StreamsStayInSession`: `Spec => []StreamsWithinSession`: no thread of a stream is left
  when Disconnect or Connect is sent.  `StreamCalls`, which stops a stream and
  disconnects in one step, takes that for granted.

`ClientProcess` has no constant to generalise over, and TLC sees all of its states; what
the proofs add is the reason.  `gui` is what is left of a handler's program, and `Ordered`
says of it that each stream is launched just after a join, joined just after a cancellation
and cancelled just after its flag was cleared.  Every program a handler begins is `Whole`
(it begins with none of the three), and a step off its front leaves it `Ordered`.
`HeadInv` says what the step before has done for the one to come, `ThreadInv` what state a
thread with its flag down can be in: cancelled, about to be, or past its last wait, whether
the stream ended by itself or was stopped, which is a race that the code decides with one
`exchange`.  `SessionInv` says that outside a session each stream's thread is gone or
the rest of the program joins it (`JoinedBy`), from which the programs that send
Disconnect (`Closes`) and those that end a session (`Ends`) are checked once each.

### The locks

`LockOrder_proofs.tla` proves, for any number of handlers at once and of rounds:

* `LocksTypeCorrect`: `Spec => []TypeOK`.
* `OrderKept`: `Spec => []LocksInOrder`.
* `NoDeadlock`: `Spec => []NoCircularWait`.
* `SleepersAreFree`: `Spec => []SleepersHoldNothing`.

`Safe(s, r)` says of a sequence of steps that, taken with mutexes up to rank `r` held
around it, it takes others in order, gives all of them back and sleeps with none.  One
safe sequence after another is safe (`SafeConcat`), and so is a block with its lock
around it (`SafeLocked`); with these two, `SafeUnary` and `SafeStreaming` follow the
handlers' definitions, method by method.  The inductive invariant, `HoldersRight`, says
that a thread has exactly the mutexes that the steps it has taken keep, and carries the
safety of the sequences over to the threads.  Along a circle of waiters the ranks would
grow for ever, and there are three.

### Assumptions

Those the modules state of their constants: model values are distinct from the
values they stand beside, users type pseudonyms, write to pseudonyms or to everyone,
content lengths and bounds are numbers, the user of the client logs in with somebody's
name, and names have no blanks at their end (`NamesAssumption`; blanks in a row count as
one).

TLC first checked what is proved (`unary_calls`, `roster_relogin`,
`streams_relogin`, `client_views`, `client_threads`, `lock_order`);
`RouteInv`, `AuthorsKnown`, `MailInv` and what follows from them on the instances of
`streams_relogin` (without its constraints) and `wrong_addressee`.

### Only model-checked

Liveness, which is out of the prover's reach: `CallsAnswered`, `ClientsResponsive`,
`SubscriberCatchesUp`, `StaleHandlersEnd`, `GuiReturns`, `ButtonFollowsChannel`.  Every
other property of a passing run is a theorem.  That the four statements of section 3's
disagreements are violated is shown by TLC's counterexamples.

## 5. What is not modelled, and why

* The widgets' looks, the connectivity label and its colours, the command line,
  printing the statistics: no state of the chat depends on them.
* Server start-up failure, restart and shutdown: the server keeps nothing in memory
  over a restart but the statistics table.
* The nested event loops of modal message boxes and of the ban list's own menu:
  Remove and the error boxes act at once here.  A roster event or message handled
  while one is up is handled just after it instead.
* `ensureOpen`'s second attempt to open the client's database: after a failed `init`
  the window closes.
* The protocol definition is generated code; its messages are the records the
  handlers exchange.

## 6. Plan

Done: the registry, the dispatcher, the unary handlers, the validators, the three
broadcasters, the statistics, the client session, the two streams, `Feed`; the
client's stream threads and connect button; the roster, the ban lists and the private
windows with `PerUserBans`; the server's mutexes; the theorems of section 4.

Next, in this order:

1. Both streams and the roster in one session, fed by the server's model instead of
   by a free one.
2. Proofs about that composition: `StreamsStayInSession` is already the client's half of
   what `StreamCalls` takes for one step.
