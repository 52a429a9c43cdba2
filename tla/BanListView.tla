----------------------------- MODULE BanListView -----------------------------
(***************************************************************************)
(* BanListView and its BannedUsersModel: a dock that lists the banned      *)
(* names as they were when it was last shown.                              *)
(***************************************************************************)
EXTENDS ClientDatabase

VARIABLES
    visible,       \* the dock is shown
    listed         \* the model's pseudonyms_

viewVars == <<visible, listed>>

ViewTypeOK ==
    /\ visible \in BOOLEAN
    /\ listed \subseteq Text

ViewInit == visible = FALSE /\ listed = {}

\* Without a database the list is emptied; when the query fails it stays.
refresh(ok) ==
    listed' = IF ~isInitialized THEN {} ELSE IF ok THEN Banned ELSE listed

\* MainWindow::onBanListToggled.
toggle(ok) ==
    IF visible
      THEN ok /\ visible' = FALSE /\ UNCHANGED listed
      ELSE visible' = TRUE /\ refresh(ok)

hideView == visible' = FALSE /\ UNCHANGED listed

\* The model's removeUser; it removes nothing without the database.
viewRemoveUser(name, ok) ==
    listed' = IF isInitialized /\ ok THEN listed \ {name} ELSE listed
===============================================================================
