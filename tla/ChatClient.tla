------------------------------ MODULE ChatClient ------------------------------
(***************************************************************************)
(* The client process: LoginView and ChatWindow over ChatServiceGrpc.      *)
(* Every unary RPC blocks the GUI thread until it returns, so a client     *)
(* awaits at most one answer.  Only Connect has a deadline: when it        *)
(* expires the client goes on and the server's handler does not notice.    *)
(* The channel is kept, so a later login comes from the same peer; a       *)
(* process that dies takes its address with it.                            *)
(***************************************************************************)
EXTENDS ChatService

CONSTANTS
    NoName,        \* pseudonym_ before the first login
    NoThread,      \* no answer is awaited
    NamesOf,       \* the names the user of each peer may type
    Recipients,    \* whom users write to: pseudonyms, or Everyone
    LeavePeers,    \* bound: clients whose user may disconnect
    ClosePeers,    \* bound: clients whose window may be closed
    CrashPeers,    \* bound: clients that may die
    MaxLogins, MaxSends, MaxTimeouts   \* bounds: [Peers -> Nat]

ASSUME ClientAssumption ==
    /\ NamesOf \in [Peers -> SUBSET Pseudonyms]
    /\ Recipients \subseteq Pseudonyms \cup {Everyone}
    /\ NoThread \notin Threads /\ NoName \notin Pseudonyms
    /\ Everyone \notin Pseudonyms
    /\ LeavePeers \cup ClosePeers \cup CrashPeers \subseteq Peers

VARIABLES
    view,          \* which view is up, and where the user is going from it
    pseudonym,     \* ChatWindow::pseudonym_, kept after a disconnection
    awaiting,      \* the thread whose answer the GUI thread waits for
    logins, sends, timeouts   \* how often the client did each, for the bounds

clientVars == <<view, pseudonym, awaiting, logins, sends, timeouts>>

ClientTypeOK ==
    /\ view \in [Peers -> {"login", "chat", "leaving", "closing", "closed", "crashed"}]
    /\ pseudonym \in [Peers -> Pseudonyms \cup {NoName}]
    /\ awaiting \in [Peers -> Threads \cup {NoThread}]
    /\ logins \in [Peers -> Nat]
    /\ sends \in [Peers -> Nat]
    /\ timeouts \in [Peers -> Nat]
    /\ \A p \in Peers : view[p] = "chat" => pseudonym[p] # NoName

ClientInit ==
    /\ view = [p \in Peers |-> "login"]
    /\ pseudonym = [p \in Peers |-> NoName]
    /\ awaiting = [p \in Peers |-> NoThread]
    /\ logins = [p \in Peers |-> 0]
    /\ sends = [p \in Peers |-> 0]
    /\ timeouts = [p \in Peers |-> 0]

\* The GUI thread is not inside a call.
Responsive(p) == awaiting[p] = NoThread

SetView(p, v) == view' = [view EXCEPT ![p] = v]

\* An RPC: some idle server thread takes the call and the GUI thread blocks.
Invoke(p, call) ==
    \E t \in Threads :
       /\ calls[t] = NoCall
       /\ calls' = [calls EXCEPT ![t] = call]
       /\ awaiting' = [awaiting EXCEPT ![p] = t]

\* The RPC returns: the thread is idle again.
Return(p) ==
    /\ calls' = [calls EXCEPT ![awaiting[p]] = NoCall]
    /\ awaiting' = [awaiting EXCEPT ![p] = NoThread]

\* p awaits a call that has its answer, and the answer is pc.
Returned(p, op, pc) == awaiting[p] # NoThread /\ At(awaiting[p], op, pc)

-----------------------------------------------------------------------------
\* LoginView::handleConnect, with one of the names the user may type.
Login(p, n) ==
    /\ view[p] = "login" /\ Responsive(p)
    /\ n \in NamesOf[p]
    /\ logins[p] < MaxLogins[p]
    /\ logins' = [logins EXCEPT ![p] = @ + 1]
    /\ Invoke(p, NewConnect(p, n))
    /\ UNCHANGED <<view, pseudonym, sends, timeouts>>
    /\ LocalStep

\* Connect's deadline expires; the handler runs on with nobody waiting.
ConnectTimesOut(p) ==
    /\ awaiting[p] # NoThread
    /\ calls[awaiting[p]].op = "Connect"
    /\ timeouts[p] < MaxTimeouts[p]
    /\ timeouts' = [timeouts EXCEPT ![p] = @ + 1]
    /\ awaiting' = [awaiting EXCEPT ![p] = NoThread]
    /\ UNCHANGED <<view, pseudonym, logins, sends, calls>>
    /\ LocalStep

\* LoginView::onConnectFinished and ChatWindow::onLoginSucceeded.
LoginSucceeded(p) ==
    /\ Returned(p, "Connect", "accepted")
    /\ SetView(p, "chat")
    /\ pseudonym' = [pseudonym EXCEPT ![p] = calls[awaiting[p]].pseudonym]
    /\ Return(p)
    /\ UNCHANGED <<logins, sends, timeouts>>
    /\ LocalStep

\* LoginView::onConnectFinished: refused, the login view stays.
LoginRejected(p) ==
    /\ Returned(p, "Connect", "rejected")
    /\ Return(p)
    /\ UNCHANGED <<view, pseudonym, logins, sends, timeouts>>
    /\ LocalStep

\* A mutant: the GUI thread does not wait for Disconnect.
PrepareClose_DoesNotWait(p, next) ==
    /\ SetView(p, IF next = "leaving" THEN "login" ELSE "closed")
    /\ \E t \in Threads :
          calls[t] = NoCall /\ calls' = [calls EXCEPT ![t] = NewDisconnect(p, pseudonym[p])]
    /\ UNCHANGED <<pseudonym, awaiting, logins, sends, timeouts>>
    /\ LocalStep

\* ChatWindow::prepareClose sends Disconnect with pseudonym_ as it stands.
PrepareClose(p, next) ==
    /\ SetView(p, next)
    /\ Invoke(p, NewDisconnect(p, pseudonym[p]))
    /\ UNCHANGED <<pseudonym, logins, sends, timeouts>>
    /\ LocalStep

\* MainWindow::onDisconnectTriggered: back to the login view afterwards.
Disconnect(p) ==
    /\ p \in LeavePeers
    /\ view[p] = "chat" /\ Responsive(p)
    /\ PrepareClose(p, "leaving")

\* A mutant: Disconnect is sent without asking whether there is a pseudonym.
CloseWindow_Always(p) ==
    /\ p \in ClosePeers
    /\ view[p] \in {"login", "chat"} /\ Responsive(p)
    /\ PrepareClose(p, "closing")

\* MainWindow::closeEvent: from the chat view, or from the login view after
\* an earlier session, for pseudonym_ is never cleared.
CloseWindow(p) ==
    /\ p \in ClosePeers
    /\ view[p] \in {"login", "chat"} /\ Responsive(p)
    /\ pseudonym[p] # NoName
    /\ PrepareClose(p, "closing")

\* closeEvent when the user never got in: no Disconnect.
CloseUnused(p) ==
    /\ p \in ClosePeers
    /\ view[p] = "login" /\ Responsive(p)
    /\ pseudonym[p] = NoName
    /\ SetView(p, "closed")
    /\ UNCHANGED <<pseudonym, awaiting, logins, sends, timeouts, calls>>
    /\ LocalStep

\* Disconnect returned.
Disconnected(p) ==
    /\ Returned(p, "Disconnect", "ok")
    /\ SetView(p, IF view[p] = "leaving" THEN "login" ELSE "closed")
    /\ Return(p)
    /\ UNCHANGED <<pseudonym, logins, sends, timeouts>>
    /\ LocalStep

\* A message to everyone needs the chat view; a private window outlives the
\* session, does not check that the client is connected, and may by now be
\* for the user's own name.
SendMessage(p, recipient, content) ==
    /\ view[p] = "chat" \/ (view[p] = "login" /\ recipient # Everyone /\ pseudonym[p] # NoName)
    /\ Responsive(p)
    /\ sends[p] < MaxSends[p]
    /\ sends' = [sends EXCEPT ![p] = @ + 1]
    /\ Invoke(p, NewSendMessage(p, pseudonym[p], recipient, content))
    /\ UNCHANGED <<view, pseudonym, logins, timeouts>>
    /\ LocalStep

\* A mutant: only a message that was sent gives the GUI thread back.
MessageSent_OnlyIfSent(p) ==
    /\ Returned(p, "SendMessage", "ok")
    /\ Return(p)
    /\ UNCHANGED <<view, pseudonym, logins, sends, timeouts>>
    /\ LocalStep

\* SendMessage returned, sent or refused: the view does not change.
MessageSent(p) ==
    /\ Returned(p, "SendMessage", "ok") \/ Returned(p, "SendMessage", "refused")
    /\ Return(p)
    /\ UNCHANGED <<view, pseudonym, logins, sends, timeouts>>
    /\ LocalStep

\* The process dies; nobody tells the server.
Crash(p) ==
    /\ p \in CrashPeers
    /\ view[p] \notin {"closed", "crashed"}
    /\ SetView(p, "crashed")
    /\ awaiting' = [awaiting EXCEPT ![p] = NoThread]
    /\ UNCHANGED <<pseudonym, logins, sends, timeouts, calls>>
    /\ LocalStep

\* gRPC drops the answer of a call nobody waits for.
DropAnswer(t) ==
    /\ Answered(t)
    /\ \A p \in Peers : awaiting[p] # t
    /\ calls' = [calls EXCEPT ![t] = NoCall]
    /\ LocalStep
    /\ UNCHANGED clientVars

=============================================================================
