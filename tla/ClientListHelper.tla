--------------------------- MODULE ClientListHelper ---------------------------
(***************************************************************************)
(* ClientListHelper: the rows of the roster and their ban marks.           *)
(***************************************************************************)
EXTENDS ClientDatabase, Functions

CONSTANTS
    NoRow,         \* no row is meant
    Copies         \* what tells items apart that were made for one name

\* The list's items: the name each was made for, and which copy it is.
Items == Names \X Copies

ASSUME ItemsAssumption == NoRow \notin Items /\ 0 \in Copies

VARIABLES
    rows,          \* per item of the list, its text and its banned flag (UserRole)
    current        \* the list's current item

listVars == <<rows, current>>

Row == [text : Text, banned : BOOLEAN]

ListTypeOK ==
    /\ DOMAIN rows \subseteq Items
    /\ \A item \in DOMAIN rows : rows[item] \in Row
    /\ current \in DOMAIN rows \cup {NoRow}

NoRows == [item \in {} |-> {}]

ListInit == rows = NoRows /\ current = NoRow

\* findItem takes one name for the other.
Alike(m, n) == SameText(cleanPseudonym(m), cleanPseudonym(n))

\* What findItem compares rows by.
Key(row) == lower(cleanPseudonym(row.text))

\* A mutant: the case counts.
findItem_Exact(name) ==
    {item \in DOMAIN rows : cleanPseudonym(rows[item].text) = cleanPseudonym(name)}

\* The items with that name, in any case.  The code takes the first one in
\* the order of the list; which of several that is, is left open.
findItem(name) == {item \in DOMAIN rows : Key(rows[item]) = lower(cleanPseudonym(name))}

\* A row that ends with the suffix is left as it is, its flag too.
BannedDisplay(row) ==
    IF Suffixed(row.text) THEN row ELSE [text |-> WithSuffix(row.text), banned |-> TRUE]

NormalDisplay(row) ==
    [text |-> IF Suffixed(row.text) THEN WithoutLast(row.text) ELSE row.text, banned |-> FALSE]

\* A mutant: a new row is never marked.
NewRow_Unmarked(name, marked) == [text |-> name, banned |-> FALSE]

\* A new row, marked when the database answered that the name is banned.
NewRow(name, marked) ==
    LET row == [text |-> name, banned |-> FALSE] IN
    IF name \in marked THEN BannedDisplay(row) ELSE row

\* The display of the row found for name changes.
Redisplay(name, banned) ==
    IF findItem(name) = {}
      THEN UNCHANGED rows
      ELSE \E item \in findItem(name) :
              rows' = [rows EXCEPT ![item] = IF banned THEN BannedDisplay(@) ELSE NormalDisplay(@)]

\* The list gets an item for name.
AddItem(item, row) ==
    rows' = [i \in DOMAIN rows \cup {item} |-> IF i = item THEN row ELSE rows[i]]

\* A mutant: the new row becomes the current one.
addUser_Selects(name, marked) ==
    IF findItem(name) # {}
      THEN UNCHANGED listVars
      ELSE \E item \in ({name} \X Copies) \ DOMAIN rows :
              AddItem(item, NewRow(name, marked)) /\ current' = item

\* A name that is listed, in any case, is not listed again.
addUser(name, marked) ==
    /\ IF findItem(name) # {}
         THEN UNCHANGED rows
         ELSE \E item \in ({name} \X Copies) \ DOMAIN rows : AddItem(item, NewRow(name, marked))
    /\ UNCHANGED current

\* A mutant: the item that goes may stay the current one.
RemoveItem_KeepsCurrent(item) ==
    rows' = Restrict(rows, DOMAIN rows \ {item}) /\ UNCHANGED current

\* When the current row goes, Qt makes another one the current one.
RemoveItem(item) ==
    /\ rows' = Restrict(rows, DOMAIN rows \ {item})
    /\ IF current = item
         THEN current' \in (IF DOMAIN rows' = {} THEN {NoRow} ELSE DOMAIN rows')
         ELSE UNCHANGED current

removeUser(name) ==
    IF findItem(name) = {} THEN UNCHANGED listVars ELSE \E item \in findItem(name) : RemoveItem(item)

\* The names of a list the server may send.  Of names that are alike only
\* the first gets a row: the others are left out.
Rosters == {names \in SUBSET Names : \A m, n \in names : Alike(m, n) => m = n}

\* The list is rebuilt from names, the user's own first.
populateList(own, names, marked) ==
    rows' = [item \in ({own} \cup {m \in names : ~Alike(m, own)}) \X {0} |-> NewRow(item[1], marked)]

\* A mutant: the row is marked even if the database refused.
banUser_MarksAnyway(name, ok) ==
    /\ IF ok THEN dbBanUser(cleanPseudonym(name)) ELSE UNCHANGED banned_users
    /\ Redisplay(cleanPseudonym(name), TRUE)

\* The row follows only if the database did its part.  What findItem looks
\* for is the name cleaned twice.
banUser(name, ok) ==
    IF ok
      THEN dbBanUser(cleanPseudonym(name)) /\ Redisplay(cleanPseudonym(name), TRUE)
      ELSE UNCHANGED <<banned_users, rows>>

unbanUser(name, ok) ==
    IF ok
      THEN dbUnbanUsers({cleanPseudonym(name)}) /\ Redisplay(cleanPseudonym(name), FALSE)
      ELSE UNCHANGED <<banned_users, rows>>
===============================================================================
