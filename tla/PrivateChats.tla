----------------------------- MODULE PrivateChats -----------------------------
(***************************************************************************)
(* ChatWindow's private chat windows.  A window is found by the other      *)
(* user's name in lower case, keeps both names as they were when it was    *)
(* made, and stays in the table when the user closes it or logs out.       *)
(***************************************************************************)
EXTENDS DisplayNames

VARIABLE privateChats    \* per key, the window made for it

Window(localNames) ==
    [remoteUser : Text, localUser : localNames, visible : BOOLEAN, authors : SUBSET Names]

PrivateChatsTypeOK(localNames) ==
    /\ DOMAIN privateChats \subseteq Text
    /\ \A key \in DOMAIN privateChats : privateChats[key] \in Window(localNames)

PrivateChatsInit == privateChats = [key \in {} |-> {}]

\* The window at key becomes window; the others are left alone.
SetWindow(key, window) ==
    privateChats' = [k \in DOMAIN privateChats \cup {key} |->
                        IF k = key THEN window ELSE privateChats[k]]

NewWindow(local, remote) ==
    [remoteUser |-> remote, localUser |-> local, visible |-> TRUE, authors |-> {}]

\* A mutant: the names are cleaned as the roster's are.
chatKey_Cleaned(name) == lower(cleanPseudonym(name))

chatKey(name) == lower(name)

\* A message comes in: its window is made, or shown if it was closed.
addPrivateMessage(local, author) ==
    LET key == chatKey(author)
        window == IF key \in DOMAIN privateChats THEN privateChats[key]
                                                 ELSE NewWindow(local, author)
    IN  SetWindow(key, [window EXCEPT !.visible = TRUE, !.authors = @ \cup {author}])

\* The user asks for a window.  One that is there is only raised: raise and
\* activateWindow do not show a window that was closed.
openPrivateChatWith(local, name) ==
    IF chatKey(name) \in DOMAIN privateChats
      THEN UNCHANGED privateChats
      ELSE SetWindow(chatKey(name), NewWindow(local, name))

\* The user closes a window: it is hidden, not destroyed.
hideWindow(key) ==
    /\ key \in DOMAIN privateChats
    /\ privateChats[key].visible
    /\ SetWindow(key, [privateChats[key] EXCEPT !.visible = FALSE])
===============================================================================
