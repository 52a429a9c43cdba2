\* Two Connects with one name overlap.
CONSTANTS
    p1 = p1  p2 = p2   n1 = n1  n2 = n2  t1 = t1  t2 = t2  t3 = t3
    Peers = {p1, p2}
    Pseudonyms = {n1, n2}
    Threads = {t1, t2, t3}
    Everyone = Everyone
    NoClient = NoClient  NoRow = NoRow  NoCall = NoCall  NoName = NoName
    NoThread = NoThread  Unlocked = Unlocked
    NamesOf <- Contested
    Recipients = {}
    Lengths = {}
    MinLength = 2  MaxLength = 300
    LeavePeers = {p1, p2}
    ClosePeers = {p1, p2}
    CrashPeers = {}
    TicksPerSecond = 1
    MaxTime = 1
    MaxDbErrors = 0
    MaxLogins <- OneEach
    MaxSends <- NoneEach
    MaxTimeouts <- NoneEach
SPECIFICATION Spec
SYMMETRY ThreadSymmetry
INVARIANTS UniquePseudonyms
CHECK_DEADLOCK FALSE
