\* p1 tries twice, under either name, p2 insists on n1 and may leave or die.  Messages
\* at the limits, an expired deadline, a failing write, a closed window, and a
\* message from a window that outlived p2's session.
CONSTANTS
    p1 = p1  p2 = p2   n1 = n1  n2 = n2  t1 = t1  t2 = t2  t3 = t3
    Peers = {p1, p2}
    Pseudonyms = {n1, n2}
    Threads = {t1, t2}
    Everyone = Everyone
    NoClient = NoClient  NoRow = NoRow  NoCall = NoCall  NoName = NoName
    NoThread = NoThread  Unlocked = Unlocked
    NamesOf <- Contested
    Recipients = {Everyone, n1}
    Lengths = {300, 301}
    MinLength = 2  MaxLength = 300
    LeavePeers = {p2}
    ClosePeers = {p1}
    CrashPeers = {p2}
    TicksPerSecond = 1
    MaxTime = 1
    MaxDbErrors = 1
    MaxLogins <- TwoAndOne
    MaxSends <- TwoAndOne
    MaxTimeouts <- OneForP1
SPECIFICATION Spec
CONSTRAINT OneFault
ACTION_CONSTRAINT WritesAfterwards
SYMMETRY ThreadSymmetry
INVARIANTS TypeOK DuplicatesOnlyFromOverlap StatisticsMatchLogs MessagesObeyLimits
CHECK_DEADLOCK FALSE
