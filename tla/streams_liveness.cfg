\* p1 writes to everyone or to p2.
CONSTANTS
    p1 = p1  p2 = p2   n1 = n1  n2 = n2  n3 = n3  t1 = t1  t2 = t2  h1 = h1  h2 = h2
    Peers = {p1, p2}
    Pseudonyms = {n1, n2}
    Threads = {t1, t2}
    StreamThreads = {h1, h2}
    Watchers = {p2}
    Everyone = Everyone
    NoClient = NoClient  NoRow = NoRow  NoCall = NoCall  NoName = NoName
    NoThread = NoThread  Unlocked = Unlocked  NoHandler = NoHandler
    NoStream = NoStream  NoItem = NoItem
    NamesOf <- OwnNames
    Recipients = {Everyone, n2}
    Lengths = {2}
    MinLength = 2  MaxLength = 300
    LeavePeers = {p2}
    ClosePeers = {p2}
    CrashPeers = {p2}
    TicksPerSecond = 1
    MaxTime = 0
    MaxDbErrors = 0
    MaxLogins <- OneEach
    MaxSends <- OneForP1
    MaxTimeouts <- NoneEach
SPECIFICATION FairMessageSystemSpec
PROPERTIES CallsAnswered ClientsResponsive SubscriberCatchesUp StaleHandlersEnd
CHECK_DEADLOCK FALSE
