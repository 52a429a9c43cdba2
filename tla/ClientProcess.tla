----------------------------- MODULE ClientProcess -----------------------------
(***************************************************************************)
(* The client's threads from start to exit: what the GUI thread does in a  *)
(* handler is a program of steps over ChatServiceGrpc, some of which wait, *)
(* for an answer or for a stream's thread; while it waits nothing else is  *)
(* handled.  gui is what is left of the handler's program.                 *)
(***************************************************************************)
EXTENDS ClientStreams, LoginView

VARIABLES
    gui,           \* the steps the GUI thread still has to do
    view,          \* login, chat, or exited
    loggedInOnce   \* pseudonym_ is not empty

vars == <<streamVars, loginViewVars, gui, view, loggedInOnce>>

Step == {<<op, s>> : op \in {"flag", "cancel", "join", "launch"}, s \in Streams}
          \cup {<<"call", method>> : method \in {"Connect", "Disconnect", "SendMessage"}}

TypeOK ==
    /\ StreamsTypeOK /\ FlagAgrees /\ LoginViewTypeOK
    /\ \A i \in DOMAIN gui : gui[i] \in Step
    /\ view \in {"login", "chat", "exited"}
    /\ loggedInOnce \in BOOLEAN

Init ==
    /\ StreamsInit /\ LoginViewInit
    /\ gui = <<>>
    /\ view = "login"
    /\ loggedInOnce = FALSE

Idle == gui = <<>> /\ view # "exited"

\* The GUI thread has come to this step of its program.
AtStep(op, x) == gui # <<>> /\ Head(gui) = <<op, x>>

Done == gui' = Tail(gui)

-----------------------------------------------------------------------------
(* The programs.                                                           *)

StopStreams == StopStream("message") \o StopStream("clientEvent")
StartStreams == StartStream("message") \o StartStream("clientEvent")

\* ChatWindow::prepareClose.
PrepareClose(named) ==
    StopStreams \o (IF named THEN << <<"call", "Disconnect">> >> ELSE <<>>)

\* A mutant: only prepareClose stops streams.
Destructors_DoNothing == <<>>

\* ~ChatWindow, then ~ChatServiceGrpc.
Destructors == StopStreams \o StopStreams

-----------------------------------------------------------------------------
(* Handlers: they begin when the GUI thread is idle.                       *)

\* LoginView::handleConnect.
HandleConnect ==
    /\ Idle /\ view = "login"
    /\ ButtonPressed
    /\ gui' = << <<"call", "Connect">> >>
    /\ UNCHANGED <<streamVars, view, loggedInOnce>>

\* From the chat view, or from a private window that was left open.
HandleSend ==
    /\ Idle
    /\ loggedInOnce
    /\ gui' = << <<"call", "SendMessage">> >>
    /\ UNCHANGED <<streamVars, loginViewVars, view, loggedInOnce>>

\* MainWindow::onDisconnectTriggered.
HandleDisconnect ==
    /\ Idle /\ view = "chat"
    /\ gui' = PrepareClose(loggedInOnce)
    /\ view' = "login"
    /\ UNCHANGED <<streamVars, loginViewVars, loggedInOnce>>

\* MainWindow::closeEvent, the end of the event loop, the destructors.
HandleClose ==
    /\ Idle
    /\ gui' = PrepareClose(loggedInOnce) \o Destructors
    /\ view' = "exited"
    /\ UNCHANGED <<streamVars, loginViewVars, loggedInOnce>>

\* The login view's timer, which runs in every view.
HandleTimer ==
    /\ Idle
    /\ onConnectivityStateChanged
    /\ UNCHANGED <<streamVars, gui, view, loggedInOnce>>

-----------------------------------------------------------------------------
(* What the GUI thread does and waits for.                                 *)

\* Connect is answered: refused or failed, or accepted.  When the database
\* can not be opened the window closes first, and the streams are
\* started all the same, after their stop, before the destructors.
ConnectReturns ==
    /\ AtStep("call", "Connect")
    /\ ButtonReleased
    /\ \/ gui' = <<>> /\ UNCHANGED <<view, loggedInOnce>>
       \/ gui' = StartStreams /\ view' = "chat" /\ loggedInOnce' = TRUE
       \/ /\ gui' = PrepareClose(TRUE) \o StartStreams \o Destructors
          /\ view' = "exited" /\ loggedInOnce' = TRUE
    /\ UNCHANGED streamVars

\* Disconnect and SendMessage: the answer changes nothing here.
CallReturns ==
    /\ AtStep("call", "Disconnect") \/ AtStep("call", "SendMessage")
    /\ Done
    /\ UNCHANGED <<streamVars, loginViewVars, view, loggedInOnce>>

StreamStep(s) ==
    /\ \/ AtStep("flag", s) /\ ClearFlag(s)
       \/ AtStep("cancel", s) /\ TryCancel(s)
       \/ AtStep("join", s) /\ Join(s)
       \/ AtStep("launch", s) /\ Launch(s)
    /\ Done
    /\ UNCHANGED <<loginViewVars, view, loggedInOnce>>

GuiSteps == ConnectReturns \/ CallReturns \/ \E s \in Streams : StreamStep(s)

User == HandleConnect \/ HandleSend \/ HandleDisconnect \/ HandleClose

\* A stream's thread goes on; nothing waits for the GUI thread.
ThreadSteps(s) ==
    /\ StreamSteps(s, gui = <<>>)
    /\ UNCHANGED <<loginViewVars, gui, view, loggedInOnce>>

Network ==
    \/ /\ ChannelChanges
       /\ UNCHANGED <<streamVars, gui, view, loggedInOnce>>
    \/ /\ \E s \in Streams : ServerSteps(s)
       /\ UNCHANGED <<loginViewVars, gui, view, loggedInOnce>>

Next == User \/ HandleTimer \/ GuiSteps \/ (\E s \in Streams : ThreadSteps(s)) \/ Network

Fairness ==
    /\ SF_vars(HandleTimer)
    /\ WF_vars(GuiSteps)
    /\ \A s \in Streams : WF_vars(ThreadSteps(s))

Spec == Init /\ [][Next]_vars /\ Fairness

-----------------------------------------------------------------------------
(* Properties                                                              *)

\* A thread is started only where none is left unjoined: assigning to a
\* joinable std::thread ends the program.  The stream may have ended long
\* before the user logs in again.
NeverOverwritten ==
    \A s \in Streams : AtStep("launch", s) => thread[s] = NoThread

\* No stream outlives its session, on the way back to the login view or out,
\* not even the ones opened after the client database failed.
QuietWithoutSession ==
    gui = <<>> /\ view # "chat" =>
        \A s \in Streams : thread[s] = NoThread /\ ~running[s]

\* The end that the client itself causes is not reported as an error.
OwnCancelIsSilent ==
    \A s \in Streams : At(s, "report") => thread[s].status # "CANCELLED"

\* Whatever the GUI thread waits for comes: it returns to its event loop, or
\* to the end of main, however silent the server's streams are.
GuiReturns == gui # <<>> ~> gui = <<>>

\* The button tells the channel's state, if that lasts: whatever connecting
\* did to it, the next probe corrects it.
ButtonFollowsChannel ==
    /\ <>[]ready => []<>(connectButton \/ view = "exited")
    /\ <>[]~ready => []<>(~connectButton \/ view = "exited")
===============================================================================
