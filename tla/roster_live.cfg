\* The roster against the registry.
CONSTANTS
    p1 = p1  p2 = p2   n1 = n1  n2 = n2  t1 = t1  t2 = t2  h1 = h1  h2 = h2
    Peers = {p1, p2}
    Pseudonyms = {n1, n2}
    Threads = {t1, t2}
    StreamThreads = {h1, h2}
    Watchers = {p1}
    Everyone = Everyone
    NoClient = NoClient  NoRow = NoRow  NoCall = NoCall  NoName = NoName
    NoThread = NoThread  Unlocked = Unlocked  NoHandler = NoHandler
    NoStream = NoStream  NoItem = NoItem
    NamesOf <- OwnNames
    Recipients = {}
    Lengths = {}
    MinLength = 2  MaxLength = 300
    LeavePeers = {p1, p2}
    ClosePeers = {}
    CrashPeers = {}
    TicksPerSecond = 1
    MaxTime = 0
    MaxDbErrors = 0
    MaxLogins <- OneEach
    MaxSends <- NoneEach
    MaxTimeouts <- NoneEach
SPECIFICATION RosterSpec
SYMMETRY ThreadSymmetry
INVARIANTS RosterLive
CHECK_DEADLOCK FALSE
