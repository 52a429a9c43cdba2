\* One client process, any number of sessions.
CONSTANT NoThread = NoThread
SPECIFICATION Spec
INVARIANT TypeOK
INVARIANT NeverOverwritten
INVARIANT QuietWithoutSession
INVARIANT OwnCancelIsSilent
PROPERTY GuiReturns
PROPERTY ButtonFollowsChannel
CHECK_DEADLOCK FALSE
