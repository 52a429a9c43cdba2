------------------------------ MODULE ClientViews ------------------------------
(***************************************************************************)
(* The client's windows on the GUI thread: the main window, which opens    *)
(* and resets the user's database, the chat window with its roster and its *)
(* context menu, the ban list view, the private chat windows.  Everything  *)
(* is a handler of the event loop; a popup menu leaves the loop running,   *)
(* so roster events and messages are handled while it is up.  The server   *)
(* is free: it may list, announce and bring messages from anyone.          *)
(***************************************************************************)
EXTENDS ClientListHelper, BanListView, PrivateChats

CONSTANTS
    NoUser,        \* pseudonym_ before the first login
    MaxLogins,     \* bound on logins
    MaxEvents,     \* bound on roster events
    MaxPrivate     \* bound on private messages received

ASSUME NoUserAssumption == NoUser \notin Users
ASSUME BoundsAssumption == MaxLogins \in Nat /\ MaxEvents \in Nat /\ MaxPrivate \in Nat

VARIABLES
    screen,        \* which view is up
    pseudonym,     \* ChatWindow::pseudonym_
    menu,          \* the item the context menu was opened on
    logins, events, letters,   \* how much happened so far, for the bounds
    menuRowLeft,   \* history: that row was removed while the menu was up
    changedSince   \* history: names banned or unbanned while the ban list is shown

sessionVars == <<screen, pseudonym, logins>>
boundVars == <<events, letters>>
historyVars == <<menuRowLeft, changedSince>>

vars == <<databaseVars, listVars, viewVars, privateChats, sessionVars, menu, boundVars, historyVars>>

ClientViewsTypeOK ==
    /\ DatabaseTypeOK /\ ListTypeOK /\ ViewTypeOK
    /\ PrivateChatsTypeOK(Users)
    /\ screen \in {"login", "chat", "closed"}
    /\ pseudonym \in Users \cup {NoUser}
    /\ menu \in Items \cup {NoRow}
    /\ logins \in 0..MaxLogins /\ events \in 0..MaxEvents /\ letters \in 0..MaxPrivate
    /\ menuRowLeft \in BOOLEAN /\ changedSince \subseteq Text

Init ==
    /\ DatabaseInit /\ ListInit /\ ViewInit /\ PrivateChatsInit
    /\ screen = "login" /\ pseudonym = NoUser
    /\ menu = NoRow
    /\ menuRowLeft = FALSE /\ changedSince = {}
    /\ logins = 0 /\ events = 0 /\ letters = 0

-----------------------------------------------------------------------------
(* MainWindow and ChatWindow: sessions.                                    *)

\* ChatWindow::onLoginSucceeded for user u, with the names the server listed
\* and the banned ones whose look-up fails.  loginCompleted opens the database; when
\* that fails the main window closes, and the list is filled all the same.
LoginSucceeded(u, names, failing, ok) ==
    /\ screen = "login" /\ logins < MaxLogins
    /\ logins' = logins + 1
    /\ pseudonym' = u
    /\ init(u, ok)
    /\ screen' = IF opened' THEN "chat" ELSE "closed"
    /\ populateList(u, names, Banned' \ failing)
    /\ current' \in DOMAIN rows'
    /\ Fail((IF ok THEN {} ELSE {"init"}) \cup (IF opened' /\ failing # {} THEN {"isUserBanned"} ELSE {}))
    /\ UNCHANGED <<viewVars, privateChats, menu, boundVars, historyVars>>

\* A mutant: the ban list stays on the screen.
Disconnect_LeavesView ==
    /\ screen = "chat" /\ menu = NoRow
    /\ screen' = "login"
    /\ resetConnection
    /\ UNCHANGED <<faults, listVars, viewVars, privateChats, pseudonym, menu, logins, boundVars,
                   menuRowLeft, changedSince>>

\* MainWindow::onDisconnectTriggered: the views are hidden, not emptied.
Disconnect ==
    /\ screen = "chat" /\ menu = NoRow
    /\ screen' = "login"
    /\ resetConnection
    /\ hideView
    /\ changedSince' = {}
    /\ UNCHANGED <<faults, listVars, privateChats, pseudonym, menu, logins, boundVars, menuRowLeft>>

\* The window is closed, or the process dies, and the program is started
\* again: nothing is known but what the files hold.
Restart ==
    /\ screen # "login" /\ logins < MaxLogins
    /\ resetConnection
    /\ rows' = NoRows /\ current' = NoRow
    /\ visible' = FALSE /\ listed' = {}
    /\ privateChats' = [key \in {} |-> {}]
    /\ screen' = "login" /\ pseudonym' = NoUser
    /\ menu' = NoRow
    /\ menuRowLeft' = FALSE /\ changedSince' = {}
    /\ UNCHANGED <<faults, logins, boundVars>>

-----------------------------------------------------------------------------
(* What the streams bring; it may be handled after the session it is from. *)

\* handleClientEvent, ADD.  The look-up may fail, if there is a database.
UserArrives(name, ok) ==
    /\ screen # "closed" /\ events < MaxEvents
    /\ events' = events + 1
    /\ addUser(name, IF ok THEN Banned ELSE {})
    /\ ok \/ (isInitialized /\ findItem(name) = {})
    /\ Fail(IF ok THEN {} ELSE {"isUserBanned"})
    /\ UNCHANGED <<banned_users, dbPath, opened, viewVars, privateChats, sessionVars, menu, letters,
                   historyVars>>

\* handleClientEvent, REMOVE.
UserLeaves(name) ==
    /\ screen # "closed" /\ events < MaxEvents
    /\ events' = events + 1
    /\ removeUser(name)
    /\ menuRowLeft' = (menuRowLeft \/ (menu # NoRow /\ menu \notin DOMAIN rows'))
    /\ UNCHANGED <<databaseVars, viewVars, privateChats, sessionVars, menu, letters, changedSince>>

\* onMessageReceived, a private one.
PrivateMessageReceived(author) ==
    /\ screen # "closed" /\ letters < MaxPrivate
    /\ pseudonym # NoUser
    /\ letters' = letters + 1
    /\ addPrivateMessage(pseudonym, author)
    /\ UNCHANGED <<databaseVars, listVars, viewVars, sessionVars, menu, events, historyVars>>

-----------------------------------------------------------------------------
(* The roster's context menu.                                              *)

\* The user has the chat view and no popup on it.
AtChat == screen = "chat" /\ menu = NoRow

\* A mutant: the user's own row is recognised by its exact text.
ShowMenu_ExactName(item) ==
    /\ AtChat
    /\ rows[item].text # pseudonym
    /\ current' = item
    /\ menu' = item
    /\ menuRowLeft' = FALSE
    /\ UNCHANGED <<databaseVars, rows, viewVars, privateChats, sessionVars, boundVars, changedSince>>

\* showClientsContextMenu; the user's own row has no menu.  Rows selected in
\* other ways do not matter: the menu selects its own.
ShowMenu(item) ==
    /\ AtChat
    /\ ~SameText(cleanPseudonym(rows[item].text), pseudonym)
    /\ current' = item
    /\ menu' = item
    /\ menuRowLeft' = FALSE
    /\ UNCHANGED <<databaseVars, rows, viewVars, privateChats, sessionVars, boundVars, changedSince>>

MenuCloses == menu' = NoRow

\* The menu is dismissed, or used when the list has no current row.
DismissMenu ==
    /\ menu # NoRow
    /\ MenuCloses
    /\ UNCHANGED <<databaseVars, listVars, viewVars, privateChats, sessionVars, boundVars, historyVars>>

\* A change of the ban list is noted while the view is up.
Noted(name) == changedSince' = IF visible THEN changedSince \cup {name} ELSE changedSince

\* banUnbanUser, on the row that is current by then: what it does is decided
\* by the flag of the row isUserBanned finds for its text.
MenuBanUnban(found, ok) ==
    /\ menu # NoRow /\ current # NoRow
    /\ MenuCloses
    /\ found \in findItem(rows[current].text)
    /\ IF rows[found].banned
         THEN unbanUser(rows[current].text, ok) /\ Fail(IF ok THEN {} ELSE {"unbanUser"})
         ELSE banUser(rows[current].text, ok) /\ Fail(IF ok THEN {} ELSE {"banUser"})
    /\ Noted(cleanPseudonym(rows[current].text))
    /\ UNCHANGED <<dbPath, opened, current, viewVars, privateChats, sessionVars, boundVars, menuRowLeft>>

\* A mutant: the window is opened under the text the row shows.
MenuPrivateChat_RowText ==
    /\ menu # NoRow /\ current # NoRow
    /\ MenuCloses
    /\ openPrivateChatWith(pseudonym, rows[current].text)
    /\ UNCHANGED <<databaseVars, listVars, viewVars, sessionVars, boundVars, historyVars>>

MenuPrivateChat ==
    /\ menu # NoRow /\ current # NoRow
    /\ MenuCloses
    /\ openPrivateChatWith(pseudonym, cleanPseudonym(rows[current].text))
    /\ UNCHANGED <<databaseVars, listVars, viewVars, sessionVars, boundVars, historyVars>>

\* The user closes a private window; it is not tied to the session.
ClosePrivateWindow(key) ==
    /\ screen # "closed" /\ menu = NoRow
    /\ hideWindow(key)
    /\ UNCHANGED <<databaseVars, listVars, viewVars, sessionVars, menu, boundVars, historyVars>>

-----------------------------------------------------------------------------
(* The ban list view.                                                      *)

ToggleBanList(ok) ==
    /\ AtChat
    /\ toggle(ok)
    /\ ok \/ isInitialized
    /\ Fail(IF ok THEN {} ELSE {"refresh"})
    /\ changedSince' = {}
    /\ UNCHANGED <<banned_users, dbPath, opened, listVars, privateChats, sessionVars, menu, boundVars,
                   menuRowLeft>>

\* The dock's own close button.
CloseBanList ==
    /\ AtChat /\ visible
    /\ hideView
    /\ changedSince' = {}
    /\ UNCHANGED <<databaseVars, listVars, privateChats, sessionVars, menu, boundVars, menuRowLeft>>

\* BanListView::showContextMenu, Remove: the model removes the name, and
\* userUnbanned has the roster remove its cleaned form, which may be another
\* name, and unmark a row.  deleted and ok say whether the first and the
\* second removal work.  What the second takes away is noted; the model has
\* followed the first.
RemoveFromBanList(name, deleted, ok) ==
    LET clean == cleanPseudonym(name) IN
    /\ AtChat /\ visible
    /\ name \in listed
    /\ viewRemoveUser(name, deleted)
    /\ IF isInitialized /\ deleted
         THEN /\ dbUnbanUsers(IF ok THEN {name, clean} ELSE {name})
              /\ IF ok THEN Redisplay(clean, FALSE) ELSE UNCHANGED rows
              /\ IF ok /\ clean # name THEN Noted(clean) ELSE UNCHANGED changedSince
         ELSE ok /\ UNCHANGED <<banned_users, rows, changedSince>>
    /\ Fail((IF deleted THEN {} ELSE {"removeUser"}) \cup (IF ok THEN {} ELSE {"unbanUser"}))
    /\ UNCHANGED <<dbPath, opened, current, visible, privateChats, sessionVars, menu, boundVars,
                   menuRowLeft>>

-----------------------------------------------------------------------------
Next ==
    \/ \E u \in Users, names \in Rosters, ok \in BOOLEAN :
          \E failing \in SUBSET ((names \cup {u}) \cap banned_users[u]) : LoginSucceeded(u, names, failing, ok)
    \/ Disconnect
    \/ Restart
    \/ \E name \in Names, ok \in BOOLEAN : UserArrives(name, ok)
    \/ \E name \in Names : UserLeaves(name)
    \/ \E author \in Names : PrivateMessageReceived(author)
    \/ \E item \in DOMAIN rows : ShowMenu(item)
    \/ DismissMenu
    \/ \E found \in DOMAIN rows, ok \in BOOLEAN : MenuBanUnban(found, ok)
    \/ MenuPrivateChat
    \/ \E key \in DOMAIN privateChats : ClosePrivateWindow(key)
    \/ \E ok \in BOOLEAN : ToggleBanList(ok)
    \/ CloseBanList
    \/ \E name \in listed, deleted, ok \in BOOLEAN : RemoveFromBanList(name, deleted, ok)

Spec == Init /\ [][Next]_vars

-----------------------------------------------------------------------------
(* Properties                                                              *)

\* The letters that every name that has them follows with at most three
\* suffixes and nothing else.
TidyWords ==
    {word \in Words : \A n \in Names : n.word = word => OnlySuffixes(n) /\ Len(n.tail) <= 3}

\* The list never shows two rows that findItem takes for the same user, for
\* then a ban or a REMOVE would reach only one of them.  Four suffixes are
\* too many: taking a ban off such a user may unmark the row of another and
\* with that change the name it is found by.
RowsDistinct ==
    \A i, j \in DOMAIN rows :
       i # j /\ rows[i].text.word \in TidyWords => Key(rows[i]) # Key(rows[j])

\* In the chat view a marked row's user is banned by the user who is logged
\* in, whatever calls failed, but for the second removal of BanListView's
\* Remove, which leaves the mark when it fails.  Or somebody is banned
\* whose name, one more suffix, is taken for the row's: findItem cleans the
\* name that was cleaned for the database, and marks the wrong row.
MarksTrue ==
    screen = "chat" /\ "unbanUser" \notin faults =>
        \A item \in DOMAIN rows :
           LET text == rows[item].text IN
           text.word \in TidyWords /\ rows[item].banned =>
               \/ cleanPseudonym(text) \in Banned
               \/ \E b \in Banned : Suffixed(b) /\ Alike(b, text)

\* The names with no suffix of which the letters are in nobody's name in
\* another case or followed by more than two suffixes.
PlainNames ==
    {user \in Names :
        /\ user.tail = <<>>
        /\ \A n \in Names :
              n.word = user.word => n.capital = user.capital /\ OnlySuffixes(n) /\ Len(n.tail) <= 2}

\* The other way round: a banned user's row is marked unless the look-up
\* failed.  Not so for a user whose own name ends with the suffix, whose row
\* never gets the mark, nor where names differ only in case: Remove of one
\* of them in the ban list view takes the mark off the row of the other.
MarksComplete ==
    screen = "chat" /\ "isUserBanned" \notin faults =>
        \A item \in DOMAIN rows :
           item[1] \in Banned \cap PlainNames => rows[item].banned

\* The ban list view shows the list of the user who is logged in, and what
\* it lacks or has too much was banned or unbanned in the roster since it
\* was opened, which includes the roster's part in a Remove.  After a failed
\* query it may show anything of the past.
ViewMatchesDatabase ==
    visible /\ "refresh" \notin faults =>
        (listed \ Banned) \cup (Banned \ listed) \subseteq changedSince

\* A name that becomes banned is that of the row that was right-clicked, unless
\* that row left the list while the menu was up: the menu's action then takes
\* whichever row is current.
BanHitsItsRow ==
    [][\A u \in Users : \A name \in banned_users'[u] \ banned_users[u] :
          menuRowLeft \/ (menu \in DOMAIN rows /\ name = cleanPseudonym(rows[menu].text))]_vars

\* And it is not the user's own, with the same exception, under which the
\* user may end up on the user's own ban list.
NeverBansOneself ==
    [][\A u \in Users : \A name \in banned_users'[u] \ banned_users[u] :
          menuRowLeft \/ ~SameText(name, u)]_vars

\* A private window holds messages of its own correspondent only, up to the
\* case of the name: a reply goes to remoteUser.
ReplyReachesAuthor ==
    \A key \in DOMAIN privateChats :
       \A author \in privateChats[key].authors : SameText(author, privateChats[key].remoteUser)

\* A private window is for a name somebody can have, or what cleaning leaves
\* of one, not for a row's text with the mark.
WindowsAreForUsers ==
    \A key \in DOMAIN privateChats :
       LET remote == privateChats[key].remoteUser IN
       remote.word \in TidyWords => remote \in Names \cup {cleanPseudonym(n) : n \in Names}

\* Who is logged in, if somebody is.
CurrentUser == IF screen = "chat" THEN pseudonym ELSE NoUser

\* Every user's ban list changes one name at a time, in that user's sessions;
\* Remove takes the cleaned form of a name off with it.
Bans == INSTANCE PerUserBans
           WITH Bare <- cleanPseudonym,
                bans <- banned_users,
                user <- CurrentUser

PerUser == Bans!Spec
===============================================================================
