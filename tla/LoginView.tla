------------------------------- MODULE LoginView -------------------------------
(***************************************************************************)
(* LoginView's connect button and the probe of the channel behind it.      *)
(***************************************************************************)

VARIABLES
    ready,         \* the channel's state is READY
    connectButton  \* the button is enabled

loginViewVars == <<ready, connectButton>>

LoginViewTypeOK == ready \in BOOLEAN /\ connectButton \in BOOLEAN

LoginViewInit == ready = FALSE /\ connectButton = FALSE

\* The channel gets or loses its connection.
ChannelChanges ==
    /\ ready' = ~ready
    /\ UNCHANGED connectButton

\* A mutant: the button is never disabled again.
onConnectivityStateChanged_OnlyEnables ==
    /\ connectButton' = (connectButton \/ ready)
    /\ UNCHANGED ready

\* Timer, GetState and label in one go on the GUI thread.
onConnectivityStateChanged ==
    /\ connectButton' = ready
    /\ UNCHANGED ready

\* handleConnect: by the button, or by the Enter shortcuts, which do not ask
\* whether the button is enabled.
ButtonPressed == connectButton' = FALSE /\ UNCHANGED ready

\* onConnectFinished, whatever the channel's state.
ButtonReleased == connectButton' = TRUE /\ UNCHANGED ready
===============================================================================
