\* Two users share the program; one name with no, one and two suffixes, one in two cases.
CONSTANTS
    Words <- MCWords
    Names <- MCNames
    Users <- MCUsers
    NoFile = NoFile
    NoRow = NoRow
    Copies <- MCCopies
    NoUser = NoUser
    MaxFaults = 1
    MaxLogins = 2
    MaxEvents = 2
    MaxPrivate = 2
CONSTRAINT FewBans
CONSTRAINT FewComplications
ACTION_CONSTRAINT PrivateApart
SPECIFICATION Spec
INVARIANT ClientViewsTypeOK
INVARIANT RowsDistinct
INVARIANT MarksTrue
INVARIANT MarksComplete
INVARIANT ViewMatchesDatabase
INVARIANT ReplyReachesAuthor
INVARIANT WindowsAreForUsers
PROPERTY BanHitsItsRow
PROPERTY NeverBansOneself
PROPERTY PerUser
CHECK_DEADLOCK FALSE
