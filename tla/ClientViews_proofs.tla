-------------------------- MODULE ClientViews_proofs --------------------------
(***************************************************************************)
(* Proofs about ClientViews, for all sets of names and users and all       *)
(* bounds.                                                                 *)
(***************************************************************************)
EXTENDS ClientViews, SequenceTheorems, TLAPS

-----------------------------------------------------------------------------
(* Texts.                                                                  *)

\* A text whose letters are followed by suffixes only is determined by its
\* letters, their case and how many suffixes there are.
Tidy(text) == text \in Text /\ OnlySuffixes(text)
Size(text) == Len(text.tail)

\* What is left of so many suffixes when one is taken off.
Less(k) == IF k = 0 THEN 0 ELSE k - 1

\* Tidy texts that findItem takes one for the other.
Twin(a, b) == a.word = b.word /\ Less(Size(a)) = Less(Size(b))

LEMMA TextParts ==
    ASSUME NEW text \in Text
    PROVE  /\ text.word \in Words /\ text.capital \in BOOLEAN /\ text.tail \in Seq(Tokens)
           /\ Size(text) \in Nat /\ DOMAIN text.tail = 1..Size(text)
           /\ text.tail # <<>> <=> Size(text) # 0
  <1>1. text.word \in Words /\ text.capital \in BOOLEAN /\ text.tail \in Seq(Tokens)
    BY DEF Text
  <1> QED
    BY <1>1, LenProperties, EmptySeq DEF Size

LEMMA WithoutLastText ==
    ASSUME NEW text \in Text, text.tail # <<>>
    PROVE  /\ WithoutLast(text) \in Text
           /\ WithoutLast(text).word = text.word /\ WithoutLast(text).capital = text.capital
           /\ Size(WithoutLast(text)) = Size(text) - 1
           /\ Tidy(text) => Tidy(WithoutLast(text))
  <1> DEFINE tail == SubSeq(text.tail, 1, Size(text) - 1)
  <1>1. Size(text) \in Nat \ {0} /\ text.tail \in Seq(Tokens) /\ DOMAIN text.tail = 1..Size(text)
    BY TextParts
  <1>2. /\ tail \in Seq(Tokens)
        /\ Len(tail) = Size(text) - 1
        /\ \A i \in 1..(Size(text) - 1) : tail[i] = text.tail[i]
    <2>1. \A i \in 1..(Size(text) - 1) : text.tail[i] \in Tokens
      BY <1>1, ElementOfSeq DEF Size
    <2> DEFINE size == Size(text) - 1
    <2>2. size \in Nat
      BY <1>1
    <2> HIDE DEF size
    <2>3. /\ SubSeq(text.tail, 1, size) \in Seq(Tokens)
          /\ Len(SubSeq(text.tail, 1, size)) = IF 1 <= size THEN size - 1 + 1 ELSE 0
          /\ \A i \in 1..(size - 1 + 1) : SubSeq(text.tail, 1, size)[i] = text.tail[1 + i - 1]
      BY <2>1, <2>2, SubSeqProperties DEF size
    <2>4. Len(SubSeq(text.tail, 1, size)) = size
      BY <2>2, <2>3
    <2>5. \A i \in 1..size : SubSeq(text.tail, 1, size)[i] = text.tail[i]
      BY <2>2, <2>3
    <2> QED
      BY <2>3, <2>4, <2>5 DEF size
  <1>3. WithoutLast(text) = [text EXCEPT !.tail = tail]
    BY DEF WithoutLast, Size
  <1> HIDE DEF tail
  <1>4. /\ WithoutLast(text) \in Text
        /\ WithoutLast(text).word = text.word /\ WithoutLast(text).capital = text.capital
        /\ WithoutLast(text).tail = tail
    BY <1>2, <1>3 DEF Text
  <1>5. DOMAIN tail = 1..(Size(text) - 1)
    BY <1>2, LenProperties
  <1> QED
    BY <1>1, <1>2, <1>4, <1>5 DEF Tidy, OnlySuffixes, Size

LEMMA WithSuffixText ==
    ASSUME NEW text \in Text
    PROVE  /\ WithSuffix(text) \in Text
           /\ WithSuffix(text).word = text.word /\ WithSuffix(text).capital = text.capital
           /\ Size(WithSuffix(text)) = Size(text) + 1
           /\ Tidy(text) => Tidy(WithSuffix(text))
  <1> DEFINE tail == Append(text.tail, "suffix")
  <1>1. Size(text) \in Nat /\ text.tail \in Seq(Tokens) /\ DOMAIN text.tail = 1..Size(text)
    BY TextParts
  <1>2. /\ tail \in Seq(Tokens) /\ Len(tail) = Size(text) + 1
        /\ \A i \in 1..Size(text) : tail[i] = text.tail[i]
        /\ tail[Size(text) + 1] = "suffix"
    BY <1>1 DEF Tokens, Size
  <1>3. WithSuffix(text) = [text EXCEPT !.tail = tail]
    BY DEF WithSuffix
  <1> HIDE DEF tail
  <1>4. /\ WithSuffix(text) \in Text
        /\ WithSuffix(text).word = text.word /\ WithSuffix(text).capital = text.capital
        /\ WithSuffix(text).tail = tail
    BY <1>2, <1>3 DEF Text
  <1>5. DOMAIN tail = 1..(Size(text) + 1)
    BY <1>2, LenProperties
  <1> QED
    BY <1>1, <1>2, <1>4, <1>5 DEF Tidy, OnlySuffixes, Size

LEMMA LowerText ==
    ASSUME NEW text \in Text
    PROVE  /\ lower(text) \in Text /\ lower(text).word = text.word
           /\ Tidy(text) => lower(text) = [text EXCEPT !.capital = FALSE]
  <1> DEFINE tail == [i \in DOMAIN text.tail |-> IF text.tail[i] = "SUFFIX" THEN "suffix" ELSE text.tail[i]]
  <1>1. /\ text.tail \in Seq(Tokens) /\ Size(text) \in Nat /\ DOMAIN text.tail = 1..Size(text)
        /\ text.tail \in [1..Size(text) -> Tokens]
    BY TextParts, LenProperties DEF Size
  <1>2. tail \in [1..Size(text) -> Tokens]
    BY <1>1 DEF Tokens
  <1>3. tail \in Seq(Tokens)
    BY <1>1, <1>2, SeqDef
  <1>4. Tidy(text) => tail = text.tail
    <2>1. ASSUME Tidy(text)
          PROVE  \A i \in 1..Size(text) : tail[i] = text.tail[i]
      BY <1>1, <2>1 DEF Tidy, OnlySuffixes
    <2> QED
      BY <1>1, <1>2, <2>1
  <1>5. lower(text) = [text EXCEPT !.capital = FALSE, !.tail = tail]
    BY DEF lower
  <1> HIDE DEF tail
  <1>6. lower(text) \in Text /\ lower(text).word = text.word
    BY <1>3, <1>5 DEF Text
  <1>7. tail = text.tail => lower(text) = [text EXCEPT !.capital = FALSE]
    BY <1>5 DEF Text
  <1> QED
    BY <1>4, <1>6, <1>7

LEMMA CleanText ==
    ASSUME NEW text \in Text
    PROVE  cleanPseudonym(text) \in Text /\ cleanPseudonym(text).word = text.word
  <1>1. trimmed(text) \in Text /\ trimmed(text).word = text.word
    BY WithoutLastText DEF trimmed, Ends
  <1> QED
    BY <1>1, WithoutLastText DEF cleanPseudonym, Suffixed, Ends

LEMMA TidyEnds ==
    ASSUME NEW text, Tidy(text)
    PROVE  Suffixed(text) <=> Size(text) # 0
  BY TextParts DEF Tidy, OnlySuffixes, Suffixed, Ends, Size

LEMMA CleanTidy ==
    ASSUME NEW text, Tidy(text)
    PROVE  /\ Tidy(cleanPseudonym(text))
           /\ cleanPseudonym(text).word = text.word /\ cleanPseudonym(text).capital = text.capital
           /\ Size(cleanPseudonym(text)) = Less(Size(text))
  <1>1. trimmed(text) = text
    BY TextParts DEF Tidy, OnlySuffixes, trimmed, Ends, Size
  <1>2. CASE Size(text) = 0
    BY <1>1, <1>2, TidyEnds DEF cleanPseudonym, Less
  <1>3. CASE Size(text) # 0
    BY <1>1, <1>3, TidyEnds, TextParts, WithoutLastText DEF cleanPseudonym, Less, Tidy
  <1> QED
    BY <1>2, <1>3

LEMMA SameTidy ==
    ASSUME NEW a, Tidy(a), NEW b, Tidy(b),
           a.word = b.word, a.capital = b.capital, Size(a) = Size(b)
    PROVE  a = b
  <1>1. a \in Text /\ b \in Text /\ Size(a) \in Nat
    BY TextParts DEF Tidy
  <1>2. \A i \in 1..Size(a) : a.tail[i] = b.tail[i]
    BY <1>1, TextParts DEF Tidy, OnlySuffixes
  <1>3. a.tail = b.tail
    BY <1>1, <1>2, TextParts, SeqEqual DEF Size
  <1> QED
    BY <1>1, <1>3 DEF Text

\* Texts that are alike have the same letters; tidy ones are alike when
\* cleaning leaves as many suffixes of one as of the other.
LEMMA AlikeWord ==
    ASSUME NEW a \in Text, NEW b \in Text, Alike(a, b)
    PROVE  a.word = b.word
  <1>1. lower(cleanPseudonym(a)).word = a.word /\ lower(cleanPseudonym(b)).word = b.word
    BY CleanText, LowerText
  <1> QED
    BY <1>1 DEF Alike, SameText

LEMMA AlikeTidy ==
    ASSUME NEW a, Tidy(a), NEW b, Tidy(b)
    PROVE  Alike(a, b) <=> Twin(a, b)
  <1> DEFINE c == cleanPseudonym(a)
  <1> DEFINE d == cleanPseudonym(b)
  <1>1. /\ Tidy(c) /\ c.word = a.word /\ Size(c) = Less(Size(a))
        /\ Tidy(d) /\ d.word = b.word /\ Size(d) = Less(Size(b))
    BY CleanTidy
  <1>2. Alike(a, b) <=> lower(c) = lower(d)
    BY DEF Alike, SameText
  <1> HIDE DEF c, d
  <1>3. c \in Text /\ d \in Text
    BY <1>1 DEF Tidy
  <1>4. lower(c) = [c EXCEPT !.capital = FALSE] /\ lower(d) = [d EXCEPT !.capital = FALSE]
    BY <1>1, <1>3, LowerText
  <1>5. lower(c) = lower(d) => c.word = d.word /\ c.tail = d.tail
    BY <1>3, <1>4 DEF Text
  <1>6. ASSUME c.word = d.word, Size(c) = Size(d)
        PROVE  lower(c) = lower(d)
    <2>1. /\ Tidy(lower(c)) /\ lower(c).word = c.word /\ Size(lower(c)) = Size(c) /\ lower(c).capital = FALSE
          /\ Tidy(lower(d)) /\ lower(d).word = d.word /\ Size(lower(d)) = Size(d) /\ lower(d).capital = FALSE
      BY <1>1, <1>3, <1>4 DEF Tidy, OnlySuffixes, Size, Text
    <2> QED
      BY <1>6, <2>1, SameTidy
  <1> QED
    BY <1>1, <1>2, <1>5, <1>6 DEF Twin, Size

-----------------------------------------------------------------------------
(* The rows of the list.                                                   *)

\* What row the item made for name may have.  A mark is one suffix more than
\* the name has, and where the name has suffixes of its own it leaves no trace.
RowFor(name, row) ==
    /\ Tidy(row.text)
    /\ row.text.capital = name.capital
    /\ Less(Size(row.text)) = Less(Size(name))
    /\ row.banned => Size(row.text) = 1
    /\ ~row.banned /\ Size(name) = 0 => Size(row.text) = 0

\* Items are apart: no two are for names that findItem takes for one.
ListInv ==
    /\ ListTypeOK
    /\ \A item \in DOMAIN rows :
          /\ rows[item].text.word = item[1].word
          /\ item[1].word \in TidyWords => RowFor(item[1], rows[item])
    /\ \A i, j \in DOMAIN rows : i # j /\ i[1].word \in TidyWords => ~Twin(i[1], j[1])

\* A text that Redisplay may be called with.
Target(text, banned) ==
    /\ text \in Text
    /\ text.word \in TidyWords => Tidy(text) /\ (~banned => Size(text) <= 1)

LEMMA NameTidy ==
    ASSUME NEW name \in Names
    PROVE  /\ name \in Text
           /\ name.word \in TidyWords => Tidy(name) /\ Size(name) \in 0..3
  <1>1. name \in Text /\ Size(name) \in Nat
    BY NamesAssumption, TextParts
  <1>2. name.word \in TidyWords => OnlySuffixes(name) /\ Size(name) <= 3
    BY DEF TidyWords, Size
  <1> QED
    BY <1>1, <1>2 DEF Tidy

LEMMA ItemParts ==
    ASSUME NEW item \in Items
    PROVE  item[1] \in Names /\ item # NoRow
  BY ItemsAssumption DEF Items

LEMMA RowParts ==
    ASSUME ListInv, NEW item \in DOMAIN rows
    PROVE  /\ item \in Items /\ item[1] \in Names
           /\ rows[item] \in Row /\ rows[item].text \in Text /\ rows[item].banned \in BOOLEAN
  BY ItemParts DEF ListInv, ListTypeOK, Row

\* A new row is right for its name, and its mark means what the database said.
LEMMA NewRowRight ==
    ASSUME NEW name \in Names, NEW marked, NEW row, row = NewRow(name, marked)
    PROVE  /\ row \in Row /\ row.text.word = name.word
           /\ name.word \in TidyWords => RowFor(name, row)
           /\ row.banned => name \in marked
           /\ name \in marked /\ name.word \in TidyWords /\ Size(name) = 0 => row.banned
  <1>1. name \in Text
    BY NameTidy
  <1>2. CASE name \in marked /\ ~Suffixed(name)
    <2>1. row = [text |-> WithSuffix(name), banned |-> TRUE]
      BY <1>2 DEF NewRow, BannedDisplay
    <2>2. row \in Row /\ row.text.word = name.word /\ row.banned
      BY <1>1, <2>1, WithSuffixText DEF Row
    <2>3. ASSUME name.word \in TidyWords
          PROVE  RowFor(name, row)
      <3>1. Tidy(name) /\ Size(name) = 0
        BY <1>2, <2>3, NameTidy, TidyEnds
      <3> QED
        BY <1>1, <2>1, <3>1, WithSuffixText DEF RowFor, Less
    <2> QED
      BY <1>2, <2>2, <2>3
  <1>3. CASE name \notin marked \/ Suffixed(name)
    <2>1. row = [text |-> name, banned |-> FALSE]
      BY <1>3 DEF NewRow, BannedDisplay
    <2>2. row \in Row /\ row.text = name /\ ~row.banned
      BY <1>1, <2>1 DEF Row
    <2>3. ASSUME name.word \in TidyWords
          PROVE  Tidy(name) /\ RowFor(name, row)
      BY <2>2, <2>3, NameTidy DEF RowFor
    <2> QED
      BY <1>3, <2>2, <2>3, TidyEnds
  <1> QED
    BY <1>2, <1>3

\* Which rows are found: those of texts with the same letters, and among
\* tidy texts those of a twin.
LEMMA FoundWord ==
    ASSUME ListInv, NEW text \in Text, NEW item \in findItem(text)
    PROVE  item \in DOMAIN rows /\ item[1].word = text.word
  <1>1. item \in DOMAIN rows /\ Alike(rows[item].text, text)
    BY DEF findItem, Key, Alike, SameText
  <1> QED
    BY <1>1, RowParts, AlikeWord DEF ListInv

LEMMA FoundTwin ==
    ASSUME ListInv, NEW text, Tidy(text), NEW item \in DOMAIN rows, item[1].word \in TidyWords
    PROVE  item \in findItem(text) <=> Twin(item[1], text)
  <1>1. item \in findItem(text) <=> Alike(rows[item].text, text)
    BY DEF findItem, Key, Alike, SameText
  <1>2. Tidy(rows[item].text) /\ (Twin(rows[item].text, text) <=> Twin(item[1], text))
    BY DEF ListInv, RowFor, Twin
  <1> QED
    BY <1>1, <1>2, AlikeTidy

LEMMA DisplayKeepsRow ==
    ASSUME NEW row \in Row, NEW banned \in BOOLEAN, NEW new,
           new = IF banned THEN BannedDisplay(row) ELSE NormalDisplay(row)
    PROVE  new \in Row /\ new.text.word = row.text.word
  <1>1. row.text \in Text
    BY DEF Row
  <1>2. CASE banned
    <2>1. CASE Suffixed(row.text)
      BY <1>2, <2>1 DEF BannedDisplay
    <2>2. CASE ~Suffixed(row.text)
      BY <1>1, <1>2, <2>2, WithSuffixText DEF BannedDisplay, Row
    <2> QED
      BY <2>1, <2>2
  <1>3. CASE ~banned
    BY <1>1, <1>3, WithoutLastText DEF NormalDisplay, Row, Suffixed, Ends
  <1> QED
    BY <1>2, <1>3

LEMMA DisplayRight ==
    ASSUME NEW name, Tidy(name), NEW row \in Row, RowFor(name, row), NEW banned \in BOOLEAN,
           ~banned => Less(Size(name)) = 0,
           NEW new, new = IF banned THEN BannedDisplay(row) ELSE NormalDisplay(row)
    PROVE  /\ RowFor(name, new)
           /\ ~banned => ~new.banned
           /\ banned /\ (row.banned \/ Size(name) = 0) => new.banned
  <1> DEFINE text == row.text
  <1>1. text \in Text /\ Tidy(text) /\ Size(text) \in Nat /\ Size(name) \in Nat
    BY TextParts DEF RowFor, Tidy
  <1>2. CASE banned /\ Size(text) = 0
    <2>1. new = [text |-> WithSuffix(text), banned |-> TRUE]
      BY <1>1, <1>2, TidyEnds DEF BannedDisplay
    <2>2. Tidy(new.text) /\ new.text.capital = text.capital /\ Size(new.text) = 1 /\ new.banned
      BY <1>1, <1>2, <2>1, WithSuffixText
    <2> QED
      BY <1>2, <2>2 DEF RowFor, Less
  <1>3. CASE banned /\ Size(text) # 0
    <2>1. new = row
      BY <1>1, <1>3, TidyEnds DEF BannedDisplay
    <2> QED
      BY <1>3, <2>1 DEF RowFor
  <1>4. CASE ~banned /\ Size(text) = 0
    <2>1. new = [text |-> text, banned |-> FALSE]
      BY <1>1, <1>4, TidyEnds DEF NormalDisplay
    <2> QED
      BY <1>4, <2>1 DEF RowFor
  <1>5. CASE ~banned /\ Size(text) # 0
    <2>1. new = [text |-> WithoutLast(text), banned |-> FALSE]
      BY <1>1, <1>5, TidyEnds DEF NormalDisplay
    <2>2. Size(text) = 1
      BY <1>1, <1>5 DEF RowFor, Less
    <2>3. Tidy(new.text) /\ new.text.capital = text.capital /\ Size(new.text) = 0 /\ ~new.banned
      BY <1>1, <2>1, <2>2, WithoutLastText, TextParts
    <2> QED
      BY <1>1, <1>5, <2>2, <2>3 DEF RowFor, Less
  <1> QED
    BY <1>2, <1>3, <1>4, <1>5

-----------------------------------------------------------------------------
(* The list's operations keep the items apart.                             *)

LEMMA ItemAdded ==
    ASSUME ListInv, NEW item \in Items \ DOMAIN rows, NEW row \in Row, AddItem(item, row),
           UNCHANGED current, row.text.word = item[1].word,
           item[1].word \in TidyWords => RowFor(item[1], row),
           findItem(item[1]) = {}
    PROVE  ListInv'
  <1>1. /\ DOMAIN rows' = DOMAIN rows \cup {item}
        /\ \A i \in DOMAIN rows : rows'[i] = rows[i]
        /\ rows'[item] = row
    BY DEF AddItem
  <1>2. \A i \in DOMAIN rows : i[1].word \in TidyWords => ~Twin(i[1], item[1])
    <2> SUFFICES ASSUME NEW i \in DOMAIN rows, i[1].word \in TidyWords, Twin(i[1], item[1])
                 PROVE  FALSE
      OBVIOUS
    <2>1. Tidy(item[1])
      BY ItemParts, NameTidy DEF Twin
    <2> QED
      BY <2>1, FoundTwin
  <1>3. ListTypeOK'
    BY <1>1 DEF ListInv, ListTypeOK
  <1>4. \A i \in DOMAIN rows' :
           /\ rows'[i].text.word = i[1].word
           /\ i[1].word \in TidyWords => RowFor(i[1], rows'[i])
    BY <1>1 DEF ListInv
  <1>5. \A i, j \in DOMAIN rows' : i # j /\ i[1].word \in TidyWords => ~Twin(i[1], j[1])
    <2>1. \A i, j \in DOMAIN rows : i # j /\ i[1].word \in TidyWords => ~Twin(i[1], j[1])
      BY DEF ListInv
    <2> QED
      BY <1>1, <1>2, <2>1 DEF Twin
  <1> QED
    BY <1>3, <1>4, <1>5 DEF ListInv

LEMMA ArrivalKeepsList ==
    ASSUME ListInv, NEW name \in Names, NEW marked, addUser(name, marked)
    PROVE  ListInv'
  <1>1. CASE findItem(name) # {}
    BY <1>1 DEF addUser, ListInv, ListTypeOK
  <1>2. CASE findItem(name) = {}
    <2>1. PICK item \in ({name} \X Copies) \ DOMAIN rows : AddItem(item, NewRow(name, marked))
      BY <1>2 DEF addUser
    <2>2. item \in Items /\ item[1] = name
      BY DEF Items
    <2>3. PICK row : row = NewRow(name, marked)
      OBVIOUS
    <2>4. row \in Row /\ row.text.word = name.word /\ (name.word \in TidyWords => RowFor(name, row))
      BY <2>3, NewRowRight
    <2>5. UNCHANGED current
      BY DEF addUser
    <2> QED
      BY <1>2, <2>1, <2>2, <2>3, <2>4, <2>5, ItemAdded
  <1> QED
    BY <1>1, <1>2

LEMMA FewerRows ==
    ASSUME ListInv, NEW items \in SUBSET DOMAIN rows, rows' = Restrict(rows, items),
           current' \in DOMAIN rows' \cup {NoRow}
    PROVE  ListInv'
  <1>1. DOMAIN rows' = items /\ \A i \in items : rows'[i] = rows[i]
    BY DEF Restrict
  <1> QED
    BY <1>1 DEF ListInv, ListTypeOK

LEMMA DepartureKeepsList ==
    ASSUME ListInv, NEW name \in Names, removeUser(name)
    PROVE  ListInv'
  <1>1. CASE UNCHANGED listVars
    BY <1>1 DEF listVars, ListInv, ListTypeOK
  <1>2. ASSUME NEW item \in findItem(name), RemoveItem(item)
        PROVE  ListInv'
    <2> DEFINE items == DOMAIN rows \ {item}
    <2>1. rows' = Restrict(rows, items) /\ DOMAIN rows' = items
      BY <1>2 DEF RemoveItem, Restrict
    <2>2. current' \in DOMAIN rows' \cup {NoRow}
      <3>1. CASE current = item
        BY <1>2, <3>1 DEF RemoveItem
      <3>2. CASE current # item
        BY <1>2, <2>1, <3>2 DEF RemoveItem, ListInv, ListTypeOK
      <3> QED
        BY <3>1, <3>2
    <2> QED
      BY <2>1, <2>2, FewerRows
  <1> QED
    BY <1>1, <1>2 DEF removeUser

LEMMA LoginFillsList ==
    ASSUME NEW own \in Names, NEW names \in Rosters, NEW marked,
           populateList(own, names, marked), current' \in DOMAIN rows'
    PROVE  ListInv'
  <1> DEFINE shown == {own} \cup {m \in names : ~Alike(m, own)}
  <1>1. /\ DOMAIN rows' = shown \X {0}
        /\ \A item \in DOMAIN rows' : rows'[item] = NewRow(item[1], marked)
    BY DEF populateList
  <1>2. \A m, n \in shown : m # n => ~Alike(m, n)
    BY DEF Rosters, Alike, SameText
  <1>3. shown \subseteq Names
    BY DEF Rosters
  <1> HIDE DEF shown
  <1>4. \A item \in DOMAIN rows' : item[1] \in shown /\ item[1] \in Names /\ item = <<item[1], 0>>
    BY <1>1, <1>3
  <1>5. \A item \in DOMAIN rows' :
           /\ item \in Items /\ rows'[item] \in Row
           /\ rows'[item].text.word = item[1].word
           /\ item[1].word \in TidyWords => RowFor(item[1], rows'[item])
    <2> SUFFICES ASSUME NEW item \in DOMAIN rows'
                 PROVE  /\ item \in Items /\ rows'[item] \in Row
                        /\ rows'[item].text.word = item[1].word
                        /\ item[1].word \in TidyWords => RowFor(item[1], rows'[item])
      OBVIOUS
    <2>1. PICK row : row = NewRow(item[1], marked)
      OBVIOUS
    <2>2. item \in Items
      BY <1>4, ItemsAssumption DEF Items
    <2>3. rows'[item] = row /\ item[1] \in Names
      BY <1>1, <1>4, <2>1
    <2>4. row \in Row /\ row.text.word = item[1].word /\ (item[1].word \in TidyWords => RowFor(item[1], row))
      BY <2>1, <2>3, NewRowRight
    <2> QED
      BY <2>2, <2>3, <2>4
  <1>6. \A i, j \in DOMAIN rows' : i # j /\ i[1].word \in TidyWords => ~Twin(i[1], j[1])
    <2> SUFFICES ASSUME NEW i \in DOMAIN rows', NEW j \in DOMAIN rows', i # j,
                        i[1].word \in TidyWords, Twin(i[1], j[1])
                 PROVE  FALSE
      OBVIOUS
    <2>1. i[1] # j[1] /\ ~Alike(i[1], j[1])
      BY <1>2, <1>4
    <2>2. Tidy(i[1]) /\ Tidy(j[1])
      BY <1>4, NameTidy DEF Twin
    <2> QED
      BY <2>1, <2>2, AlikeTidy
  <1> QED
    BY <1>5, <1>6 DEF ListInv, ListTypeOK

\* What a change of the display does: to no row, or to one that is found.
LEMMA RedisplayRows ==
    ASSUME ListInv, NEW name, NEW banned \in BOOLEAN, Redisplay(name, banned)
    PROVE  /\ DOMAIN rows' = DOMAIN rows
           /\ \/ findItem(name) = {} /\ \A i \in DOMAIN rows : rows'[i] = rows[i]
              \/ \E item \in findItem(name) :
                    /\ item \in DOMAIN rows
                    /\ \A i \in DOMAIN rows : i # item => rows'[i] = rows[i]
                    /\ rows'[item] = IF banned THEN BannedDisplay(rows[item]) ELSE NormalDisplay(rows[item])
  <1>1. CASE findItem(name) = {}
    BY <1>1 DEF Redisplay
  <1>2. CASE findItem(name) # {}
    <2>1. PICK item \in findItem(name) :
             rows' = [rows EXCEPT ![item] = IF banned THEN BannedDisplay(@) ELSE NormalDisplay(@)]
      BY <1>2 DEF Redisplay
    <2>2. item \in DOMAIN rows
      BY DEF findItem
    <2> QED
      BY <2>1, <2>2
  <1> QED
    BY <1>1, <1>2

\* It leaves the rows right for their names.
LEMMA RedisplayRight ==
    ASSUME ListInv, NEW name, NEW banned \in BOOLEAN, Target(name, banned), Redisplay(name, banned)
    PROVE  \A i \in DOMAIN rows :
              /\ rows'[i] \in Row /\ rows'[i].text.word = i[1].word
              /\ i[1].word \in TidyWords => RowFor(i[1], rows'[i])
              /\ banned /\ i[1].word \in TidyWords /\ rows[i].banned => rows'[i].banned
  <1> SUFFICES ASSUME NEW i \in DOMAIN rows
               PROVE  /\ rows'[i] \in Row /\ rows'[i].text.word = i[1].word
                      /\ i[1].word \in TidyWords => RowFor(i[1], rows'[i])
                      /\ banned /\ i[1].word \in TidyWords /\ rows[i].banned => rows'[i].banned
    OBVIOUS
  <1>1. CASE rows'[i] = rows[i]
    BY <1>1, RowParts DEF ListInv
  <1>2. CASE rows'[i] # rows[i]
    <2>1. /\ i \in findItem(name)
          /\ rows'[i] = IF banned THEN BannedDisplay(rows[i]) ELSE NormalDisplay(rows[i])
      BY <1>2, RedisplayRows
    <2>2. rows[i] \in Row /\ rows[i].text.word = i[1].word /\ i[1] \in Names
      BY RowParts DEF ListInv
    <2>3. rows'[i] \in Row /\ rows'[i].text.word = i[1].word
      BY <2>1, <2>2, DisplayKeepsRow
    <2>4. ASSUME i[1].word \in TidyWords
          PROVE  /\ RowFor(i[1], rows'[i])
                 /\ banned /\ rows[i].banned => rows'[i].banned
      <3>1. Tidy(i[1]) /\ RowFor(i[1], rows[i])
        BY <2>2, <2>4, NameTidy DEF ListInv
      <3>2. name.word = i[1].word
        BY <2>1, FoundWord DEF Target
      <3>3. Tidy(name) /\ (~banned => Size(name) <= 1)
        BY <2>4, <3>2 DEF Target
      <3>4. Less(Size(i[1])) = Less(Size(name))
        BY <2>1, <2>4, <3>3, FoundTwin DEF Twin
      <3>5. ~banned => Less(Size(i[1])) = 0
        <4>1. Size(name) \in Nat
          BY <3>3, TextParts DEF Tidy
        <4>2. ~banned => Size(name) = 0 \/ Size(name) = 1
          BY <3>3, <4>1
        <4>3. ~banned => Less(Size(name)) = 0
          BY <4>2 DEF Less
        <4> QED
          BY <3>4, <4>3
      <3> QED
        BY <2>1, <2>2, <3>1, <3>5, DisplayRight
    <2> QED
      BY <2>3, <2>4
  <1> QED
    BY <1>1, <1>2

LEMMA RedisplayKeepsList ==
    ASSUME ListInv, NEW name, NEW banned \in BOOLEAN, Target(name, banned), Redisplay(name, banned),
           current' = current
    PROVE  ListInv'
  <1>1. DOMAIN rows' = DOMAIN rows
    BY RedisplayRows
  <1>2. ListTypeOK'
    BY <1>1, RedisplayRight DEF ListInv, ListTypeOK
  <1>3. \A i \in DOMAIN rows' :
           /\ rows'[i].text.word = i[1].word
           /\ i[1].word \in TidyWords => RowFor(i[1], rows'[i])
    BY <1>1, RedisplayRight
  <1> QED
    BY <1>1, <1>2, <1>3 DEF ListInv

-----------------------------------------------------------------------------
(* The database, the ban list view, the private windows, the session.      *)

Cleaned == {cleanPseudonym(n) : n \in Names}

\* What is banned or listed is what cleaning left of a name.
Stored(text) == text.word \in TidyWords => text \in Cleaned

DatabaseInv ==
    /\ DatabaseTypeOK
    /\ \A u \in Users : \A name \in banned_users[u] : Stored(name)

ViewInv ==
    /\ ViewTypeOK
    /\ \A name \in listed : Stored(name)

SessionTypeOK ==
    /\ screen \in {"login", "chat", "closed"}
    /\ pseudonym \in Users \cup {NoUser}
    /\ menu \in Items \cup {NoRow}
    /\ logins \in 0..MaxLogins /\ events \in 0..MaxEvents /\ letters \in 0..MaxPrivate
    /\ menuRowLeft \in BOOLEAN /\ changedSince \subseteq Text

\* The database that is open is the one of the user in the chat, who alone
\* has a menu or the ban list up.
SessionInv ==
    /\ SessionTypeOK
    /\ opened = (screen = "chat")
    /\ screen = "chat" => dbPath = pseudonym /\ pseudonym \in Users
    /\ menu # NoRow \/ visible => screen = "chat"

\* The menu's row is still the current one, unless it left, and is not the
\* user's own.
MenuInv ==
    menu # NoRow /\ ~menuRowLeft =>
        /\ current = menu /\ menu \in DOMAIN rows
        /\ ~SameText(cleanPseudonym(rows[menu].text), pseudonym)

Inv == ListInv /\ DatabaseInv /\ ViewInv /\ PrivateChatsTypeOK(Users) /\ SessionInv /\ MenuInv

\* Cleaning a row's text gives what cleaning its name does.
LEMMA RowCleaned ==
    ASSUME ListInv, NEW item \in DOMAIN rows, NEW text, text = rows[item].text
    PROVE  /\ text \in Text /\ cleanPseudonym(text) \in Text
           /\ text.word = item[1].word /\ cleanPseudonym(text).word = item[1].word
           /\ item[1].word \in TidyWords =>
                 Tidy(text) /\ cleanPseudonym(text) = cleanPseudonym(item[1])
           /\ Stored(cleanPseudonym(text))
  <1>1. text \in Text /\ cleanPseudonym(text) \in Text /\ item[1] \in Names
    BY RowParts, CleanText
  <1>2. text.word = item[1].word /\ cleanPseudonym(text).word = item[1].word
    BY <1>1, CleanText DEF ListInv
  <1>3. ASSUME item[1].word \in TidyWords
        PROVE  Tidy(text) /\ cleanPseudonym(text) = cleanPseudonym(item[1])
    <2>1. /\ Tidy(text) /\ Tidy(item[1]) /\ text.capital = item[1].capital
          /\ Less(Size(text)) = Less(Size(item[1]))
      BY <1>1, <1>3, NameTidy DEF ListInv, RowFor
    <2> QED
      BY <1>2, <2>1, CleanTidy, SameTidy
  <1> QED
    BY <1>1, <1>2, <1>3 DEF Stored, Cleaned

\* What the menu's handlers and Remove look for in the list.
LEMMA RowTarget ==
    ASSUME ListInv, NEW item \in DOMAIN rows, NEW text, text = rows[item].text
    PROVE  /\ Target(cleanPseudonym(text), TRUE)
           /\ \A found \in findItem(text) :
                 rows[found].banned =>
                    /\ Target(cleanPseudonym(text), FALSE)
                    /\ text.word \in TidyWords => Size(cleanPseudonym(text)) = 0
  <1> DEFINE clean == cleanPseudonym(text)
  <1>1. /\ text \in Text /\ clean \in Text /\ clean.word = text.word /\ text.word = item[1].word
        /\ item[1].word \in TidyWords => Tidy(text)
    BY RowCleaned
  <1>2. item[1].word \in TidyWords => Tidy(clean) /\ Size(clean) = Less(Size(text))
    BY <1>1, CleanTidy
  <1> HIDE DEF clean
  <1>3. Target(clean, TRUE)
    BY <1>1, <1>2 DEF Target
  <1>4. ASSUME NEW found \in findItem(text), rows[found].banned
        PROVE  /\ Target(clean, FALSE)
               /\ text.word \in TidyWords => Size(clean) = 0
    <2>1. ASSUME text.word \in TidyWords
          PROVE  Size(clean) = 0
      <3>1. found \in DOMAIN rows /\ found[1].word = text.word
        BY <1>1, FoundWord
      <3>2. Tidy(text) /\ Twin(found[1], text)
        BY <1>1, <1>4, <2>1, <3>1, FoundTwin
      <3>3. RowFor(found[1], rows[found])
        BY <2>1, <3>1 DEF ListInv
      <3>4. Less(Size(text)) = 0
        <4>1. Size(rows[found].text) = 1
          BY <1>4, <3>3 DEF RowFor
        <4>2. Less(Size(rows[found].text)) = 0
          BY <4>1 DEF Less
        <4> QED
          BY <3>2, <3>3, <4>2 DEF Twin, RowFor
      <3> QED
        BY <1>1, <1>2, <2>1, <3>4
    <2> QED
      BY <1>1, <1>2, <2>1 DEF Target
  <1> QED
    BY <1>3, <1>4 DEF clean

LEMMA StoredTarget ==
    ASSUME NEW text \in Text, Stored(text)
    PROVE  Target(cleanPseudonym(text), FALSE)
  <1> DEFINE clean == cleanPseudonym(text)
  <1>1. clean \in Text /\ clean.word = text.word
    BY CleanText
  <1>2. ASSUME text.word \in TidyWords
        PROVE  Tidy(clean) /\ Size(clean) <= 1
    <2>1. PICK n \in Names : text = cleanPseudonym(n)
      BY <1>2 DEF Stored, Cleaned
    <2>2. Tidy(n) /\ Size(n) \in 0..3
      BY <1>2, <2>1, NameTidy, CleanText
    <2>3. Tidy(text) /\ Size(text) = Less(Size(n))
      BY <2>1, <2>2, CleanTidy
    <2>4. Tidy(clean) /\ Size(clean) = Less(Size(text))
      BY <2>3, CleanTidy
    <2>5. Size(text) \in 0..2
      BY <2>2, <2>3 DEF Less
    <2> HIDE DEF clean
    <2> QED
      BY <2>4, <2>5 DEF Less
  <1> HIDE DEF clean
  <1>3. Target(clean, FALSE)
    BY <1>1, <1>2 DEF Target
  <1> QED
    BY <1>3 DEF clean

\* What is in the database when its owner is in the chat.
LEMMA BannedStored ==
    ASSUME DatabaseInv, SessionInv
    PROVE  Banned \subseteq Text /\ \A name \in Banned : Stored(name)
  BY DEF DatabaseInv, DatabaseTypeOK, SessionInv, Banned

LEMMA BanKeepsDatabase ==
    ASSUME DatabaseInv, NEW name \in Text, Stored(name), dbBanUser(name)
    PROVE  /\ banned_users' \in [Users -> SUBSET Text]
           /\ \A u \in Users : \A other \in banned_users'[u] : Stored(other)
  BY DEF DatabaseInv, DatabaseTypeOK, dbBanUser

LEMMA UnbanKeepsDatabase ==
    ASSUME DatabaseInv, NEW names, dbUnbanUsers(names)
    PROVE  /\ banned_users' \in [Users -> SUBSET Text]
           /\ \A u \in Users : \A other \in banned_users'[u] : Stored(other)
  BY DEF DatabaseInv, DatabaseTypeOK, dbUnbanUsers

LEMMA FailTyped ==
    ASSUME DatabaseInv, NEW kinds \in SUBSET FaultKinds, Fail(kinds)
    PROVE  faults' \subseteq FaultKinds
  BY DEF DatabaseInv, DatabaseTypeOK, Fail

LEMMA WindowSet ==
    ASSUME PrivateChatsTypeOK(Users), NEW key \in Text, NEW window \in Window(Users),
           SetWindow(key, window)
    PROVE  PrivateChatsTypeOK(Users)'
  BY DEF PrivateChatsTypeOK, SetWindow

LEMMA NewWindowTyped ==
    ASSUME NEW local \in Users, NEW remote \in Text
    PROVE  NewWindow(local, remote) \in Window(Users)
  BY DEF NewWindow, Window

-----------------------------------------------------------------------------
(* Each part of the invariant is kept by every action.                     *)

\* The menu's Ban/Unban changes one name in the database and the display of
\* one row, or nothing.
LEMMA MenuChange ==
    ASSUME NEW found \in DOMAIN rows, NEW ok \in BOOLEAN, MenuBanUnban(found, ok), ListInv,
           NEW text, text = rows[current].text, NEW clean, clean = cleanPseudonym(text)
    PROVE  /\ current \in DOMAIN rows /\ found \in findItem(text)
           /\ \/ UNCHANGED <<banned_users, rows>>
              \/ ok /\ ~rows[found].banned /\ dbBanUser(clean) /\ Redisplay(clean, TRUE)
              \/ ok /\ rows[found].banned /\ dbUnbanUsers({clean}) /\ Redisplay(clean, FALSE)
  BY DEF MenuBanUnban, banUser, unbanUser, ListInv, ListTypeOK

LEMMA ListKept ==
    ASSUME Inv, Next
    PROVE  ListInv'
  <1> USE DEF Inv
  <1>0. ASSUME UNCHANGED listVars
        PROVE  ListInv'
    BY <1>0 DEF ListInv, ListTypeOK, listVars
  <1>1. ASSUME NEW u \in Users, NEW names \in Rosters, NEW ok \in BOOLEAN, NEW failing,
               LoginSucceeded(u, names, failing, ok)
        PROVE  ListInv'
    <2>1. PICK marked : marked = Banned' \ failing
      OBVIOUS
    <2>2. u \in Names /\ populateList(u, names, marked) /\ current' \in DOMAIN rows'
      BY <1>1, <2>1, UsersAssumption DEF LoginSucceeded
    <2> QED
      BY <2>2, LoginFillsList
  <1>2. CASE Restart
    BY <1>2 DEF Restart, NoRows, ListInv, ListTypeOK
  <1>3. ASSUME NEW name \in Names, NEW ok \in BOOLEAN, UserArrives(name, ok)
        PROVE  ListInv'
    BY <1>3, ArrivalKeepsList DEF UserArrives
  <1>4. ASSUME NEW name \in Names, UserLeaves(name)
        PROVE  ListInv'
    BY <1>4, DepartureKeepsList DEF UserLeaves
  <1>5. ASSUME NEW item \in DOMAIN rows, ShowMenu(item)
        PROVE  ListInv'
    BY <1>5 DEF ShowMenu, ListInv, ListTypeOK
  <1>6. ASSUME NEW found \in DOMAIN rows, NEW ok \in BOOLEAN, MenuBanUnban(found, ok)
        PROVE  ListInv'
    <2>1. PICK text : text = rows[current].text
      OBVIOUS
    <2>2. PICK clean : clean = cleanPseudonym(text)
      OBVIOUS
    <2>3. UNCHANGED current
      BY <1>6 DEF MenuBanUnban
    <2>4. CASE UNCHANGED rows
      BY <1>0, <2>3, <2>4 DEF listVars
    <2>5. CASE ~rows[found].banned /\ Redisplay(clean, TRUE)
      BY <1>6, <2>1, <2>2, <2>3, <2>5, MenuChange, RowTarget, RedisplayKeepsList
    <2>6. CASE rows[found].banned /\ Redisplay(clean, FALSE)
      BY <1>6, <2>1, <2>2, <2>3, <2>6, MenuChange, RowTarget, RedisplayKeepsList
    <2> QED
      BY <1>6, <2>1, <2>2, <2>4, <2>5, <2>6, MenuChange
  <1>7. ASSUME NEW name \in listed, NEW deleted \in BOOLEAN, NEW ok \in BOOLEAN,
               RemoveFromBanList(name, deleted, ok)
        PROVE  ListInv'
    <2>1. UNCHANGED current
      BY <1>7 DEF RemoveFromBanList
    <2>2. CASE UNCHANGED rows
      BY <1>0, <2>1, <2>2 DEF listVars
    <2>3. CASE Redisplay(cleanPseudonym(name), FALSE)
      <3>1. Target(cleanPseudonym(name), FALSE)
        BY StoredTarget DEF ViewInv, ViewTypeOK
      <3> QED
        BY <2>1, <2>3, <3>1, RedisplayKeepsList
    <2> QED
      BY <1>7, <2>2, <2>3 DEF RemoveFromBanList
  <1> QED
    BY <1>0, <1>1, <1>2, <1>3, <1>4, <1>5, <1>6, <1>7
       DEF Next, Disconnect, PrivateMessageReceived, DismissMenu, MenuPrivateChat, ClosePrivateWindow,
           ToggleBanList, CloseBanList

LEMMA DatabaseKept ==
    ASSUME Inv, Next
    PROVE  DatabaseInv'
  <1> USE DEF Inv
  <1>0. ASSUME UNCHANGED databaseVars
        PROVE  DatabaseInv'
    BY <1>0 DEF DatabaseInv, DatabaseTypeOK, databaseVars
  <1>1. ASSUME NEW u \in Users, NEW names \in Rosters, NEW ok \in BOOLEAN, NEW failing,
               LoginSucceeded(u, names, failing, ok)
        PROVE  DatabaseInv'
    <2>1. faults' \subseteq FaultKinds
      BY <1>1, FailTyped DEF LoginSucceeded, FaultKinds
    <2>2. dbPath' \in Users \cup {NoFile} /\ opened' \in BOOLEAN /\ UNCHANGED banned_users
      BY <1>1 DEF LoginSucceeded, init, DatabaseInv, DatabaseTypeOK
    <2> QED
      BY <2>1, <2>2 DEF DatabaseInv, DatabaseTypeOK
  <1>2. CASE Disconnect \/ Restart
    BY <1>2 DEF Disconnect, Restart, resetConnection, DatabaseInv, DatabaseTypeOK
  <1>3. ASSUME NEW name \in Names, NEW ok \in BOOLEAN, UserArrives(name, ok)
        PROVE  DatabaseInv'
    <2>1. faults' \subseteq FaultKinds
      BY <1>3, FailTyped DEF UserArrives, FaultKinds
    <2> QED
      BY <1>3, <2>1 DEF UserArrives, DatabaseInv, DatabaseTypeOK
  <1>4. ASSUME NEW found \in DOMAIN rows, NEW ok \in BOOLEAN, MenuBanUnban(found, ok)
        PROVE  DatabaseInv'
    <2>1. faults' \subseteq FaultKinds
      BY <1>4, FailTyped DEF MenuBanUnban, FaultKinds
    <2>2. UNCHANGED <<dbPath, opened>>
      BY <1>4 DEF MenuBanUnban
    <2>3. /\ banned_users' \in [Users -> SUBSET Text]
          /\ \A u \in Users : \A other \in banned_users'[u] : Stored(other)
      <3>1. PICK text : text = rows[current].text
        OBVIOUS
      <3>2. PICK clean : clean = cleanPseudonym(text)
        OBVIOUS
      <3>3. current \in DOMAIN rows
        BY <1>4, <3>1, <3>2, MenuChange
      <3>4. UNCHANGED banned_users \/ dbBanUser(clean) \/ dbUnbanUsers({clean})
        BY <1>4, <3>1, <3>2, MenuChange
      <3>5. clean \in Text /\ Stored(clean)
        BY <3>1, <3>2, <3>3, RowCleaned
      <3> QED
        BY <3>4, <3>5, BanKeepsDatabase, UnbanKeepsDatabase DEF DatabaseInv, DatabaseTypeOK
    <2> QED
      BY <2>1, <2>2, <2>3 DEF DatabaseInv, DatabaseTypeOK
  <1>5. ASSUME NEW ok \in BOOLEAN, ToggleBanList(ok)
        PROVE  DatabaseInv'
    <2>1. faults' \subseteq FaultKinds
      BY <1>5, FailTyped DEF ToggleBanList, FaultKinds
    <2> QED
      BY <1>5, <2>1 DEF ToggleBanList, DatabaseInv, DatabaseTypeOK
  <1>6. ASSUME NEW name \in listed, NEW deleted \in BOOLEAN, NEW ok \in BOOLEAN,
               RemoveFromBanList(name, deleted, ok)
        PROVE  DatabaseInv'
    <2>1. faults' \subseteq FaultKinds
      BY <1>6, FailTyped DEF RemoveFromBanList, FaultKinds
    <2>2. UNCHANGED <<dbPath, opened>>
      BY <1>6 DEF RemoveFromBanList
    <2>3. \/ UNCHANGED banned_users
          \/ dbUnbanUsers(IF ok THEN {name, cleanPseudonym(name)} ELSE {name})
      BY <1>6 DEF RemoveFromBanList
    <2>4. /\ banned_users' \in [Users -> SUBSET Text]
          /\ \A u \in Users : \A other \in banned_users'[u] : Stored(other)
      BY <2>3, UnbanKeepsDatabase DEF DatabaseInv, DatabaseTypeOK
    <2> QED
      BY <2>1, <2>2, <2>4 DEF DatabaseInv, DatabaseTypeOK
  <1> QED
    BY <1>0, <1>1, <1>2, <1>3, <1>4, <1>5, <1>6
       DEF Next, UserLeaves, PrivateMessageReceived, ShowMenu, DismissMenu, MenuPrivateChat,
           ClosePrivateWindow, CloseBanList

LEMMA ViewKept ==
    ASSUME Inv, Next
    PROVE  ViewInv'
  <1> USE DEF Inv
  <1>0. ASSUME UNCHANGED listed, visible' \in BOOLEAN
        PROVE  ViewInv'
    BY <1>0 DEF ViewInv, ViewTypeOK
  <1>1. visible \in BOOLEAN
    BY DEF ViewInv, ViewTypeOK
  <1>2. CASE Disconnect \/ CloseBanList
    BY <1>0, <1>2 DEF Disconnect, CloseBanList, hideView
  <1>3. CASE Restart
    BY <1>3 DEF Restart, ViewInv, ViewTypeOK
  <1>4. ASSUME NEW ok \in BOOLEAN, ToggleBanList(ok)
        PROVE  ViewInv'
    <2>1. visible' \in BOOLEAN
      BY <1>4 DEF ToggleBanList, toggle
    <2>2. listed' \in {{}, Banned, listed}
      BY <1>4 DEF ToggleBanList, toggle, refresh
    <2> QED
      BY <2>1, <2>2, BannedStored DEF ViewInv, ViewTypeOK
  <1>5. ASSUME NEW name \in listed, NEW deleted \in BOOLEAN, NEW ok \in BOOLEAN,
               RemoveFromBanList(name, deleted, ok)
        PROVE  ViewInv'
    BY <1>5 DEF RemoveFromBanList, viewRemoveUser, ViewInv, ViewTypeOK
  <1>6. ASSUME UNCHANGED viewVars
        PROVE  ViewInv'
    BY <1>0, <1>1, <1>6 DEF viewVars
  <1> QED
    BY <1>2, <1>3, <1>4, <1>5, <1>6
       DEF Next, LoginSucceeded, UserArrives, UserLeaves, PrivateMessageReceived, ShowMenu, DismissMenu,
           MenuBanUnban, MenuPrivateChat, ClosePrivateWindow

LEMMA ChatsKept ==
    ASSUME Inv, Next
    PROVE  PrivateChatsTypeOK(Users)'
  <1> USE DEF Inv
  <1>0. ASSUME UNCHANGED privateChats
        PROVE  PrivateChatsTypeOK(Users)'
    BY <1>0 DEF PrivateChatsTypeOK
  <1>1. ASSUME NEW author \in Names, PrivateMessageReceived(author)
        PROVE  PrivateChatsTypeOK(Users)'
    <2> DEFINE key == chatKey(author)
    <2> DEFINE old == IF key \in DOMAIN privateChats THEN privateChats[key]
                                                     ELSE NewWindow(pseudonym, author)
    <2> DEFINE new == [old EXCEPT !.visible = TRUE, !.authors = @ \cup {author}]
    <2>1. author \in Text /\ key \in Text /\ pseudonym \in Users
      BY <1>1, NameTidy, LowerText DEF chatKey, PrivateMessageReceived, SessionInv, SessionTypeOK
    <2>2. old \in Window(Users)
      BY <2>1, NewWindowTyped DEF PrivateChatsTypeOK
    <2>3. SetWindow(key, new)
      BY <1>1 DEF PrivateMessageReceived, addPrivateMessage
    <2> HIDE DEF old
    <2>4. new \in Window(Users)
      BY <2>2 DEF Window
    <2> QED
      BY <2>1, <2>3, <2>4, WindowSet
  <1>2. CASE MenuPrivateChat
    <2>1. PICK name : name = cleanPseudonym(rows[current].text)
      OBVIOUS
    <2>2. name \in Text /\ chatKey(name) \in Text
      BY <1>2, <2>1, RowCleaned, LowerText DEF MenuPrivateChat, chatKey, ListInv, ListTypeOK
    <2>3. pseudonym \in Users
      BY <1>2 DEF MenuPrivateChat, SessionInv
    <2>4. openPrivateChatWith(pseudonym, name)
      BY <1>2, <2>1 DEF MenuPrivateChat
    <2> QED
      BY <1>0, <2>2, <2>3, <2>4, NewWindowTyped, WindowSet DEF openPrivateChatWith
  <1>3. ASSUME NEW key \in DOMAIN privateChats, ClosePrivateWindow(key)
        PROVE  PrivateChatsTypeOK(Users)'
    <2>1. key \in Text /\ privateChats[key] \in Window(Users)
      BY DEF PrivateChatsTypeOK
    <2>2. [privateChats[key] EXCEPT !.visible = FALSE] \in Window(Users)
      BY <2>1 DEF Window
    <2> QED
      BY <1>3, <2>1, <2>2, WindowSet DEF ClosePrivateWindow, hideWindow
  <1>4. CASE Restart
    BY <1>4 DEF Restart, PrivateChatsTypeOK
  <1> QED
    BY <1>0, <1>1, <1>2, <1>3, <1>4
       DEF Next, LoginSucceeded, Disconnect, UserArrives, UserLeaves, ShowMenu, DismissMenu,
           MenuBanUnban, ToggleBanList, CloseBanList, RemoveFromBanList

LEMMA SessionKept ==
    ASSUME Inv, Next
    PROVE  SessionInv'
  <1> USE DEF Inv
  <1>1. ASSUME NEW u \in Users, NEW names \in Rosters, NEW ok \in BOOLEAN, NEW failing,
               LoginSucceeded(u, names, failing, ok)
        PROVE  SessionInv'
    <2>1. ~opened /\ ~visible /\ menu = NoRow
      BY <1>1 DEF LoginSucceeded, SessionInv, ViewInv, ViewTypeOK
    <2>2. dbPath' = u /\ opened' = ok
      BY <1>1, <2>1 DEF LoginSucceeded, init
    <2>3. /\ pseudonym' = u /\ logins' = logins + 1 /\ logins < MaxLogins
          /\ screen' = IF opened' THEN "chat" ELSE "closed"
          /\ UNCHANGED <<visible, menu, events, letters, menuRowLeft, changedSince>>
      BY <1>1 DEF LoginSucceeded, viewVars, boundVars, historyVars
    <2> QED
      BY <2>1, <2>2, <2>3, BoundsAssumption DEF SessionInv, SessionTypeOK
  <1>2. CASE Disconnect
    BY <1>2 DEF Disconnect, resetConnection, hideView, boundVars, SessionInv, SessionTypeOK
  <1>3. CASE Restart
    BY <1>3 DEF Restart, resetConnection, boundVars, SessionInv, SessionTypeOK
  <1>4. ASSUME NEW name \in Names, NEW ok \in BOOLEAN, UserArrives(name, ok)
        PROVE  SessionInv'
    BY <1>4, BoundsAssumption
       DEF UserArrives, viewVars, sessionVars, historyVars, SessionInv, SessionTypeOK
  <1>5. ASSUME NEW name \in Names, UserLeaves(name)
        PROVE  SessionInv'
    BY <1>5, BoundsAssumption
       DEF UserLeaves, databaseVars, viewVars, sessionVars, SessionInv, SessionTypeOK
  <1>6. ASSUME NEW author \in Names, PrivateMessageReceived(author)
        PROVE  SessionInv'
    BY <1>6, BoundsAssumption
       DEF PrivateMessageReceived, databaseVars, viewVars, sessionVars, historyVars, SessionInv, SessionTypeOK
  <1>7. ASSUME NEW item \in DOMAIN rows, ShowMenu(item)
        PROVE  SessionInv'
    <2>1. menu' \in Items
      BY <1>7, RowParts DEF ShowMenu
    <2> QED
      BY <1>7, <2>1 DEF ShowMenu, AtChat, databaseVars, viewVars, sessionVars, boundVars,
                        SessionInv, SessionTypeOK
  <1>8. CASE DismissMenu
    BY <1>8 DEF DismissMenu, MenuCloses, databaseVars, viewVars, sessionVars, boundVars, historyVars,
                SessionInv, SessionTypeOK
  <1>9. ASSUME NEW found \in DOMAIN rows, NEW ok \in BOOLEAN, MenuBanUnban(found, ok)
        PROVE  SessionInv'
    <2>1. PICK clean : clean = cleanPseudonym(rows[current].text)
      OBVIOUS
    <2>2. clean \in Text
      BY <1>9, <2>1, RowCleaned DEF MenuBanUnban, ListInv, ListTypeOK
    <2>3. Noted(clean)
      BY <1>9, <2>1 DEF MenuBanUnban
    <2> QED
      BY <1>9, <2>2, <2>3 DEF MenuBanUnban, MenuCloses, Noted, viewVars, sessionVars, boundVars,
                              SessionInv, SessionTypeOK
  <1>10. CASE MenuPrivateChat
    BY <1>10 DEF MenuPrivateChat, MenuCloses, databaseVars, viewVars, sessionVars, boundVars, historyVars,
                 SessionInv, SessionTypeOK
  <1>11. ASSUME NEW key \in DOMAIN privateChats, ClosePrivateWindow(key)
         PROVE  SessionInv'
    BY <1>11 DEF ClosePrivateWindow, databaseVars, viewVars, sessionVars, boundVars, historyVars,
                 SessionInv, SessionTypeOK
  <1>12. ASSUME NEW ok \in BOOLEAN, ToggleBanList(ok)
         PROVE  SessionInv'
    BY <1>12 DEF ToggleBanList, AtChat, sessionVars, boundVars, SessionInv, SessionTypeOK
  <1>13. CASE CloseBanList
    BY <1>13 DEF CloseBanList, AtChat, hideView, databaseVars, sessionVars, boundVars,
                 SessionInv, SessionTypeOK
  <1>14. ASSUME NEW name \in listed, NEW deleted \in BOOLEAN, NEW ok \in BOOLEAN,
                RemoveFromBanList(name, deleted, ok)
         PROVE  SessionInv'
    <2>1. cleanPseudonym(name) \in Text
      BY CleanText DEF ViewInv, ViewTypeOK
    <2>2. changedSince' \subseteq Text
      BY <1>14, <2>1 DEF RemoveFromBanList, Noted, SessionInv, SessionTypeOK
    <2> QED
      BY <1>14, <2>2 DEF RemoveFromBanList, AtChat, sessionVars, boundVars, SessionInv, SessionTypeOK
  <1> QED
    BY <1>1, <1>2, <1>3, <1>4, <1>5, <1>6, <1>7, <1>8, <1>9, <1>10, <1>11, <1>12, <1>13, <1>14 DEF Next

LEMMA MenuKept ==
    ASSUME Inv, Next
    PROVE  MenuInv'
  <1> USE DEF Inv
  <1>0. ASSUME menu' = NoRow
        PROVE  MenuInv'
    BY <1>0 DEF MenuInv
  <1>2. ASSUME NEW u \in Users, NEW names \in Rosters, NEW ok \in BOOLEAN, NEW failing,
               LoginSucceeded(u, names, failing, ok)
        PROVE  MenuInv'
    BY <1>0, <1>2 DEF LoginSucceeded, SessionInv
  <1>3. ASSUME NEW name \in Names, UserLeaves(name), menu # NoRow
        PROVE  MenuInv'
    <2>1. /\ UNCHANGED <<menu, pseudonym>>
          /\ menuRowLeft' = (menuRowLeft \/ menu \notin DOMAIN rows')
      BY <1>3 DEF UserLeaves, sessionVars
    <2>2. ASSUME ~menuRowLeft, menu \in DOMAIN rows'
          PROVE  UNCHANGED current /\ rows'[menu] = rows[menu]
      <3>1. current = menu
        BY <1>3, <2>2 DEF MenuInv
      <3>2. CASE UNCHANGED listVars
        BY <3>2 DEF listVars
      <3>3. ASSUME NEW item \in findItem(name), RemoveItem(item)
            PROVE  UNCHANGED current /\ rows'[menu] = rows[menu]
        <4>1. DOMAIN rows' \subseteq DOMAIN rows \ {item} /\ \A i \in DOMAIN rows' : rows'[i] = rows[i]
          BY <3>3 DEF RemoveItem, Restrict
        <4> QED
          BY <2>2, <3>1, <3>3, <4>1 DEF RemoveItem
      <3> QED
        BY <1>3, <3>2, <3>3 DEF UserLeaves, removeUser
    <2> QED
      BY <1>3, <2>1, <2>2 DEF MenuInv
  <1>4. ASSUME NEW item \in DOMAIN rows, ShowMenu(item)
        PROVE  MenuInv'
    BY <1>4 DEF ShowMenu, sessionVars, MenuInv
  <1>5. ASSUME NEW name \in Names, NEW ok \in BOOLEAN, UserArrives(name, ok), menu # NoRow
        PROVE  MenuInv'
    <2>1. UNCHANGED <<menu, current, pseudonym, menuRowLeft>>
      BY <1>5 DEF UserArrives, addUser, listVars, sessionVars, historyVars
    <2>2. \A i \in DOMAIN rows : i \in DOMAIN rows' /\ rows'[i] = rows[i]
      <3>1. \/ UNCHANGED rows
            \/ \E row : \E item \in ({name} \X Copies) \ DOMAIN rows : AddItem(item, row)
        BY <1>5 DEF UserArrives, addUser
      <3> QED
        BY <3>1 DEF AddItem
    <2> QED
      BY <1>5, <2>1, <2>2 DEF MenuInv
  <1>6. ASSUME NEW author \in Names, PrivateMessageReceived(author)
        PROVE  MenuInv'
    BY <1>6 DEF PrivateMessageReceived, listVars, sessionVars, historyVars, MenuInv
  <1> QED
    BY <1>0, <1>2, <1>3, <1>4, <1>5, <1>6
       DEF Next, UserArrives, UserLeaves, Disconnect, Restart, DismissMenu, MenuBanUnban, MenuPrivateChat,
           MenuCloses, ClosePrivateWindow, ToggleBanList, CloseBanList, RemoveFromBanList, AtChat

-----------------------------------------------------------------------------
(* The invariant, and what follows from it.                                *)

LEMMA InitInv == Init => Inv
  <1> SUFFICES ASSUME Init
               PROVE  Inv
    OBVIOUS
  <1>1. ListInv
    BY DEF Init, ListInit, NoRows, ListInv, ListTypeOK
  <1>2. DatabaseInv
    BY DEF Init, DatabaseInit, DatabaseInv, DatabaseTypeOK
  <1>3. ViewInv
    BY DEF Init, ViewInit, ViewInv, ViewTypeOK
  <1>4. PrivateChatsTypeOK(Users)
    BY DEF Init, PrivateChatsInit, PrivateChatsTypeOK
  <1>5. SessionInv
    <2>1. /\ screen = "login" /\ pseudonym = NoUser /\ menu = NoRow
          /\ opened = FALSE /\ visible = FALSE
          /\ logins = 0 /\ events = 0 /\ letters = 0 /\ menuRowLeft = FALSE /\ changedSince = {}
      BY DEF Init, DatabaseInit, ViewInit
    <2>2. SessionTypeOK
      <3>1. logins \in 0..MaxLogins /\ events \in 0..MaxEvents /\ letters \in 0..MaxPrivate
        BY <2>1, BoundsAssumption
      <3> QED
        BY <2>1, <3>1 DEF SessionTypeOK
    <2> QED
      BY <2>1, <2>2 DEF SessionInv
  <1>6. MenuInv
    BY DEF Init, MenuInv
  <1> QED
    BY <1>1, <1>2, <1>3, <1>4, <1>5, <1>6 DEF Inv

LEMMA StepInv == Inv /\ [Next]_vars => Inv'
  <1> SUFFICES ASSUME Inv, [Next]_vars
               PROVE  Inv'
    OBVIOUS
  <1>1. CASE Next
    BY <1>1, ListKept, DatabaseKept, ViewKept, ChatsKept, SessionKept, MenuKept DEF Inv
  <1>2. CASE UNCHANGED vars
    BY <1>2 DEF vars, databaseVars, listVars, viewVars, sessionVars, boundVars, historyVars, Inv,
                ListInv, ListTypeOK, DatabaseInv, DatabaseTypeOK, ViewInv, ViewTypeOK,
                PrivateChatsTypeOK, SessionInv, SessionTypeOK, MenuInv
  <1> QED
    BY <1>1, <1>2

\* The invariant that the theorems below rest on: the roster's items
\* are apart and their rows right for the names they were made for, bans are
\* of what cleaning left of a name, the open database is the user's, and the
\* menu's row is current unless it left (the handlers of ChatWindow,
\* MainWindow, ClientListHelper and BanListView together).
THEOREM Invariance == Spec => []Inv
  BY InitInv, StepInv, PTL DEF Spec

\* The variables of the client's windows have their types (ChatWindow,
\* MainWindow, ClientListHelper, BannedUsersModel, DatabaseManagerSQLite).
THEOREM ViewsTypeCorrect == Spec => []ClientViewsTypeOK
  <1>1. Inv => ClientViewsTypeOK
    BY DEF Inv, ListInv, DatabaseInv, ViewInv, SessionInv, SessionTypeOK, ClientViewsTypeOK
  <1> QED
    BY <1>1, Invariance, PTL

\* ClientListHelper never lists two rows that findItem takes for one user, as
\* long as no name with their letters has more than three suffixes.
THEOREM RowsStayDistinct == Spec => []RowsDistinct
  <1>1. ASSUME ListInv, NEW i \in DOMAIN rows, NEW j \in DOMAIN rows, i # j,
               rows[i].text.word \in TidyWords
        PROVE  Key(rows[i]) # Key(rows[j])
    <2> SUFFICES ASSUME Key(rows[i]) = Key(rows[j])
                 PROVE  FALSE
      OBVIOUS
    <2>1. Alike(rows[i].text, rows[j].text)
      BY DEF Key, Alike, SameText
    <2>2. i[1].word = j[1].word /\ i[1].word \in TidyWords
      BY <1>1, <2>1, RowParts, AlikeWord DEF ListInv
    <2>3. RowFor(i[1], rows[i]) /\ RowFor(j[1], rows[j])
      BY <1>1, <2>2 DEF ListInv
    <2>4. Less(Size(i[1])) = Less(Size(j[1]))
      BY <2>1, <2>3, AlikeTidy DEF RowFor, Twin
    <2> QED
      BY <1>1, <2>2, <2>4 DEF ListInv, Twin
  <1>2. Inv => RowsDistinct
    BY <1>1 DEF Inv, RowsDistinct
  <1> QED
    BY <1>2, Invariance, PTL

-----------------------------------------------------------------------------
(* Whom a ban hits.                                                        *)

\* Only the menu's Ban/Unban bans, and it bans the current row's name in the
\* database of the user in the chat.
LEMMA NewlyBanned ==
    ASSUME Inv, Next, NEW u \in Users, NEW name \in banned_users'[u] \ banned_users[u]
    PROVE  /\ menu # NoRow /\ current \in DOMAIN rows
           /\ name = cleanPseudonym(rows[current].text)
           /\ u = pseudonym
  <1> USE DEF Inv
  <1>1. banned_users \in [Users -> SUBSET Text]
    BY DEF DatabaseInv, DatabaseTypeOK
  <1>2. ~(UNCHANGED banned_users) /\ \A names : ~dbUnbanUsers(names)
    BY <1>1 DEF dbUnbanUsers
  <1>3. PICK found \in DOMAIN rows, ok \in BOOLEAN : MenuBanUnban(found, ok)
    BY <1>2 DEF Next, LoginSucceeded, init, Disconnect, Restart, resetConnection, UserArrives, UserLeaves,
                PrivateMessageReceived, ShowMenu, DismissMenu, MenuPrivateChat, ClosePrivateWindow,
                ToggleBanList, CloseBanList, RemoveFromBanList, databaseVars
  <1>4. PICK clean : clean = cleanPseudonym(rows[current].text)
    OBVIOUS
  <1>5. current \in DOMAIN rows /\ dbBanUser(clean)
    BY <1>2, <1>3, <1>4, MenuChange
  <1>6. menu # NoRow /\ screen = "chat" /\ dbPath = pseudonym /\ pseudonym \in Users
    BY <1>3 DEF MenuBanUnban, SessionInv
  <1>7. u = pseudonym /\ name = clean
    BY <1>1, <1>5, <1>6 DEF dbBanUser
  <1> QED
    BY <1>4, <1>5, <1>6, <1>7

\* The context menu of the roster bans the user whose row was clicked,
\* unless that row left while the menu was up.
THEOREM BansHitTheirRow == Spec => BanHitsItsRow
  <1>1. ASSUME Inv, [Next]_vars, NEW u \in Users, NEW name \in banned_users'[u] \ banned_users[u],
               ~menuRowLeft
        PROVE  menu \in DOMAIN rows /\ name = cleanPseudonym(rows[menu].text)
    <2>1. Next
      BY <1>1 DEF vars, databaseVars
    <2>2. menu # NoRow /\ name = cleanPseudonym(rows[current].text)
      BY <1>1, <2>1, NewlyBanned
    <2> QED
      BY <1>1, <2>2 DEF Inv, MenuInv
  <1>2. Inv /\ [Next]_vars =>
          [\A u \in Users : \A name \in banned_users'[u] \ banned_users[u] :
              menuRowLeft \/ (menu \in DOMAIN rows /\ name = cleanPseudonym(rows[menu].text))]_vars
    BY <1>1
  <1> QED
    BY <1>2, Invariance, PTL DEF Spec, BanHitsItsRow

\* Nobody is put on the own ban list, with the same exception.
THEOREM NobodyBansOneself == Spec => NeverBansOneself
  <1>1. ASSUME Inv, [Next]_vars, NEW u \in Users, NEW name \in banned_users'[u] \ banned_users[u],
               ~menuRowLeft
        PROVE  ~SameText(name, u)
    <2>1. Next
      BY <1>1 DEF vars, databaseVars
    <2>2. menu # NoRow /\ name = cleanPseudonym(rows[current].text) /\ u = pseudonym
      BY <1>1, <2>1, NewlyBanned
    <2> QED
      BY <1>1, <2>2 DEF Inv, MenuInv
  <1>2. Inv /\ [Next]_vars =>
          [\A u \in Users : \A name \in banned_users'[u] \ banned_users[u] :
              menuRowLeft \/ ~SameText(name, u)]_vars
    BY <1>1
  <1> QED
    BY <1>2, Invariance, PTL DEF Spec, NeverBansOneself

-----------------------------------------------------------------------------
(* Per-user ban lists: the client's database and windows implement          *)
(* PerUserBans.                                                            *)

\* Every action is a login, a logout, a ban or an unban by the user in the
\* chat, or nothing of these.
LEMMA StepPerUser ==
    ASSUME Inv, Next
    PROVE  Bans!LogIn \/ Bans!LogOut \/ Bans!Ban \/ Bans!Unban \/ UNCHANGED <<banned_users, CurrentUser>>
  <1> USE DEF Inv
  <1>0. ASSUME UNCHANGED <<banned_users, screen, pseudonym>>
        PROVE  UNCHANGED <<banned_users, CurrentUser>>
    BY <1>0 DEF CurrentUser
  <1>1. ASSUME NEW u \in Users, NEW names \in Rosters, NEW ok \in BOOLEAN, NEW failing,
               LoginSucceeded(u, names, failing, ok)
        PROVE  Bans!LogIn \/ UNCHANGED <<banned_users, CurrentUser>>
    <2>1. CurrentUser = NoUser /\ UNCHANGED banned_users
      BY <1>1 DEF LoginSucceeded, init, CurrentUser
    <2>2. CurrentUser' \in {u, NoUser}
      BY <1>1 DEF LoginSucceeded, CurrentUser
    <2> QED
      BY <2>1, <2>2 DEF Bans!LogIn
  <1>2. CASE Disconnect \/ Restart
    <2>1. CurrentUser' = NoUser /\ UNCHANGED banned_users
      BY <1>2 DEF Disconnect, Restart, resetConnection, CurrentUser
    <2> QED
      BY <2>1 DEF Bans!LogOut
  <1>3. ASSUME screen = "chat", UNCHANGED <<screen, pseudonym>>
        PROVE  /\ CurrentUser # NoUser /\ CurrentUser = dbPath /\ UNCHANGED CurrentUser
               /\ CurrentUser \in Users /\ banned_users \in [Users -> SUBSET Text]
    BY <1>3, NoUserAssumption DEF SessionInv, CurrentUser, DatabaseInv, DatabaseTypeOK
  <1>4. ASSUME NEW name, screen = "chat", UNCHANGED <<screen, pseudonym>>, dbBanUser(name)
        PROVE  Bans!Ban
    <2>1. banned_users' = [banned_users EXCEPT ![CurrentUser] = @ \cup {name}]
      BY <1>3, <1>4 DEF dbBanUser
    <2>2. name \in banned_users'[CurrentUser]
      BY <1>3, <1>4, <2>1
    <2> QED
      BY <1>3, <1>4, <2>1, <2>2 DEF Bans!Ban
  <1>5. ASSUME NEW name, NEW clean, clean = cleanPseudonym(name),
               screen = "chat", UNCHANGED <<screen, pseudonym>>,
               dbUnbanUsers({name}) \/ dbUnbanUsers({name, clean})
        PROVE  Bans!Unban \/ UNCHANGED <<banned_users, CurrentUser>>
    <2> DEFINE list == banned_users[CurrentUser]
    <2>1. \/ banned_users' = [banned_users EXCEPT ![CurrentUser] = list \ {name}]
          \/ banned_users' = [banned_users EXCEPT ![CurrentUser] = list \ {name, clean}]
      BY <1>3, <1>5 DEF dbUnbanUsers
    <2>2. CASE name \in list
      BY <1>3, <1>5, <2>1, <2>2 DEF Bans!Unban
    <2>3. CASE name \notin list /\ clean \in list
      <3>1. list \ {name, clean} = list \ {clean} /\ list \ {name} = list
        BY <2>3
      <3>2. CASE banned_users' = [banned_users EXCEPT ![CurrentUser] = list \ {name}]
        BY <1>3, <1>5, <3>1, <3>2
      <3>3. CASE banned_users' = [banned_users EXCEPT ![CurrentUser] = list \ {name, clean}]
        BY <1>3, <1>5, <2>3, <3>1, <3>3 DEF Bans!Unban
      <3> QED
        BY <2>1, <3>2, <3>3
    <2>4. CASE name \notin list /\ clean \notin list
      <3>1. list \ {name, clean} = list /\ list \ {name} = list
        BY <2>4
      <3> QED
        BY <1>3, <1>5, <2>1, <3>1
    <2> QED
      BY <2>2, <2>3, <2>4
  <1>6. ASSUME NEW found \in DOMAIN rows, NEW ok \in BOOLEAN, MenuBanUnban(found, ok)
        PROVE  Bans!Ban \/ Bans!Unban \/ UNCHANGED <<banned_users, CurrentUser>>
    <2>1. PICK text : text = rows[current].text
      OBVIOUS
    <2>2. PICK clean : clean = cleanPseudonym(text)
      OBVIOUS
    <2>3. screen = "chat" /\ UNCHANGED <<screen, pseudonym>>
      BY <1>6 DEF MenuBanUnban, sessionVars, SessionInv
    <2>4. UNCHANGED banned_users \/ dbBanUser(clean) \/ dbUnbanUsers({clean})
      BY <1>6, <2>1, <2>2, MenuChange
    <2>5. CASE dbUnbanUsers({clean})
      <3>1. PICK other : other = cleanPseudonym(clean)
        OBVIOUS
      <3> QED
        BY <1>5, <2>3, <2>5, <3>1
    <2> QED
      BY <1>0, <1>4, <2>3, <2>4, <2>5
  <1>7. ASSUME NEW name \in listed, NEW deleted \in BOOLEAN, NEW ok \in BOOLEAN,
               RemoveFromBanList(name, deleted, ok)
        PROVE  Bans!Unban \/ UNCHANGED <<banned_users, CurrentUser>>
    <2>1. PICK clean : clean = cleanPseudonym(name)
      OBVIOUS
    <2>2. screen = "chat" /\ UNCHANGED <<screen, pseudonym>>
      BY <1>7 DEF RemoveFromBanList, AtChat, sessionVars
    <2>3. UNCHANGED banned_users \/ dbUnbanUsers({name}) \/ dbUnbanUsers({name, clean})
      BY <1>7, <2>1 DEF RemoveFromBanList
    <2> QED
      BY <1>0, <1>5, <2>1, <2>2, <2>3
  <1> QED
    BY <1>0, <1>1, <1>2, <1>6, <1>7
       DEF Next, UserArrives, UserLeaves, PrivateMessageReceived, ShowMenu, DismissMenu, MenuPrivateChat,
           ClosePrivateWindow, ToggleBanList, CloseBanList, databaseVars, sessionVars

\* The client keeps what "per-user ban lists" promise: DatabaseManagerSQLite,
\* opened and reset by MainWindow and changed through the roster's menu and
\* the ban list view, implements PerUserBans.  Ban/Unban changes one name;
\* Remove takes off the name and, the second time, its cleaned form.
THEOREM ImplementsPerUserBans == Spec => PerUser
  <1>1. Init => Bans!Init
    BY DEF Init, DatabaseInit, CurrentUser, Bans!Init
  <1>2. Inv /\ [Next]_vars =>
          [Bans!LogIn \/ Bans!LogOut \/ Bans!Ban \/ Bans!Unban]_<<banned_users, CurrentUser>>
    <2>1. ASSUME UNCHANGED vars
          PROVE  UNCHANGED <<banned_users, CurrentUser>>
      BY <2>1 DEF vars, databaseVars, sessionVars, CurrentUser
    <2> QED
      BY <2>1, StepPerUser
  <1> QED
    BY <1>1, <1>2, Invariance, PTL DEF Spec, PerUser, Bans!Spec

-----------------------------------------------------------------------------
(* The marks tell the truth.                                               *)

\* What a mark on a row with that text says of the banned names.
Justified(text, bans) ==
    \/ cleanPseudonym(text) \in bans
    \/ \E b \in bans : Suffixed(b) /\ Alike(b, text)

LEMMA RowShows ==
    ASSUME NEW name, Tidy(name), NEW row, RowFor(name, row), row.text.word = name.word
    PROVE  cleanPseudonym(row.text) = cleanPseudonym(name)
  BY CleanTidy, SameTidy DEF RowFor

\* After a row was unmarked no row with the same letters has a mark.
LEMMA MarksLeft ==
    ASSUME ListInv, NEW clean, Target(clean, FALSE), Redisplay(clean, FALSE),
           NEW item \in DOMAIN rows, item[1].word \in TidyWords, rows'[item].banned
    PROVE  rows'[item] = rows[item] /\ item[1].word # clean.word
  <1>1. rows'[item] = rows[item]
    <2>1. ~NormalDisplay(rows[item]).banned
      BY DEF NormalDisplay
    <2> QED
      BY <2>1, RedisplayRows
  <1>2. ASSUME item[1].word = clean.word
        PROVE  FALSE
    <2>1. Tidy(clean) /\ Size(clean) <= 1 /\ Size(clean) \in Nat
      BY <1>2, TextParts DEF Target, Tidy
    <2>2. Size(clean) = 0 \/ Size(clean) = 1
      BY <2>1
    <2>3. RowFor(item[1], rows[item]) /\ rows[item].banned
      BY <1>1 DEF ListInv
    <2>4. Less(Size(item[1])) = Less(1)
      BY <2>3 DEF RowFor
    <2>5. Twin(item[1], clean)
      BY <1>2, <2>2, <2>4 DEF Twin, Less
    <2>6. item \in findItem(clean)
      BY <2>1, <2>5, FoundTwin
    <2>7. PICK other \in findItem(clean) :
             /\ other \in DOMAIN rows
             /\ rows'[other] = NormalDisplay(rows[other])
      BY <2>6, RedisplayRows
    <2>8. other # item
      BY <2>7 DEF NormalDisplay
    <2>9. other[1].word = item[1].word
      BY <1>2, <2>7, FoundWord DEF Target
    <2>10. Twin(other[1], item[1])
      BY <2>1, <2>5, <2>7, <2>9, FoundTwin DEF Twin
    <2> QED
      BY <2>7, <2>8, <2>9, <2>10 DEF ListInv
  <1> QED
    BY <1>1, <1>2

\* A row that is marked because a row's name is banned.
LEMMA MarkMade ==
    ASSUME ListInv, NEW row \in DOMAIN rows, NEW text, text = rows[row].text,
           NEW clean, clean = cleanPseudonym(text), Redisplay(clean, TRUE),
           NEW item \in DOMAIN rows, item[1].word \in TidyWords, rows'[item] # rows[item],
           NEW new, new = rows'[item].text
    PROVE  cleanPseudonym(new) = clean \/ (Suffixed(clean) /\ Alike(clean, new))
  <1>1. item \in findItem(clean)
    BY RedisplayRows
  <1>2. Target(clean, TRUE)
    BY RowTarget
  <1>3. RowFor(item[1], rows'[item]) /\ new.word = item[1].word /\ item[1] \in Names /\ row[1] \in Names
    BY <1>2, RedisplayRight, RowParts
  <1>4. clean \in Text /\ clean.word = row[1].word /\ text.word = row[1].word
    BY RowCleaned
  <1>5. clean.word = item[1].word
    BY <1>1, <1>4, FoundWord
  <1>6. Tidy(clean) /\ clean = cleanPseudonym(row[1]) /\ Tidy(row[1]) /\ Tidy(item[1]) /\ Tidy(new)
    BY <1>3, <1>4, <1>5, RowCleaned, NameTidy, CleanTidy DEF RowFor
  <1>7. Twin(item[1], clean)
    BY <1>1, <1>6, FoundTwin
  <1>8. CASE Size(clean) # 0
    <2>1. Twin(clean, new)
      BY <1>3, <1>5, <1>7 DEF RowFor, Twin
    <2> QED
      BY <1>6, <1>8, <2>1, AlikeTidy, TidyEnds
  <1>9. CASE Size(clean) = 0
    <2>1. Less(Size(row[1])) = 0
      BY <1>6, <1>9, CleanTidy
    <2>2. Less(Size(item[1])) = 0
      BY <1>7, <1>9 DEF Twin, Less
    <2>3. Twin(item[1], row[1])
      BY <1>4, <1>5, <2>1, <2>2 DEF Twin
    <2>4. item = row
      BY <2>3 DEF ListInv
    <2> QED
      BY <1>3, <1>6, <2>4, RowShows
  <1> QED
    BY <1>8, <1>9

LEMMA MarksKept ==
    ASSUME Inv, MarksTrue, Next
    PROVE  MarksTrue'
  <1> USE DEF Inv
  <1> SUFFICES ASSUME screen' = "chat", "unbanUser" \notin faults', NEW item \in DOMAIN rows',
                      NEW new, new = rows'[item], new.text.word \in TidyWords, new.banned
               PROVE  Justified(new.text, Banned')
    BY DEF MarksTrue, Justified
  <1>0. ASSUME screen = "chat", "unbanUser" \notin faults, item \in DOMAIN rows, rows[item] = new
        PROVE  Justified(new.text, Banned)
    BY <1>0 DEF MarksTrue, Justified
  <1>1. ASSUME NEW name \in Names, Tidy(name), NEW marked, new = NewRow(name, marked)
        PROVE  Justified(new.text, marked)
    <2>1. RowFor(name, new) /\ new.text.word = name.word /\ name \in marked /\ Size(name) = 0
      <3>1. name \in Text /\ new.text.word = name.word /\ name \in marked
        BY <1>1, NewRowRight, NameTidy
      <3>2. ~Suffixed(name)
        BY <1>1 DEF NewRow, BannedDisplay
      <3> QED
        BY <1>1, <3>1, <3>2, NewRowRight, TidyEnds
    <2>2. cleanPseudonym(new.text) = cleanPseudonym(name)
      BY <1>1, <2>1, RowShows
    <2>3. cleanPseudonym(name) = name
      BY <1>1, <2>1, CleanTidy, SameTidy DEF Less
    <2> QED
      BY <2>1, <2>2, <2>3 DEF Justified
  <1>2. ASSUME NEW u \in Users, NEW names \in Rosters, NEW ok \in BOOLEAN, NEW failing,
               LoginSucceeded(u, names, failing, ok)
        PROVE  Justified(new.text, Banned')
    <2>1. PICK marked : marked = Banned' \ failing
      OBVIOUS
    <2>2. new = NewRow(item[1], marked) /\ item[1] \in Names
      BY <1>2, <2>1, UsersAssumption DEF LoginSucceeded, populateList, Rosters
    <2>3. Tidy(item[1])
      BY <2>2, NewRowRight, NameTidy
    <2>4. Justified(new.text, marked)
      BY <1>1, <2>2, <2>3
    <2> QED
      BY <2>1, <2>4 DEF Justified
  <1>3. ASSUME NEW name \in Names, NEW ok \in BOOLEAN, UserArrives(name, ok)
        PROVE  Justified(new.text, Banned')
    <2>1. screen = "chat" /\ "unbanUser" \notin faults /\ UNCHANGED Banned
      BY <1>3 DEF UserArrives, sessionVars, Fail, Banned
    <2>2. PICK marked : marked = IF ok THEN Banned ELSE {}
      OBVIOUS
    <2>3. \/ item \in DOMAIN rows /\ rows[item] = new
          \/ new = NewRow(name, marked)
      BY <1>3, <2>2 DEF UserArrives, addUser, AddItem
    <2>4. CASE new = NewRow(name, marked)
      <3>1. Tidy(name)
        BY <2>4, NewRowRight, NameTidy
      <3>2. Justified(new.text, marked)
        BY <1>1, <2>4, <3>1
      <3> QED
        BY <2>1, <2>2, <3>2 DEF Justified
    <2>5. CASE item \in DOMAIN rows /\ rows[item] = new
      BY <1>0, <2>1, <2>5
    <2> QED
      BY <2>3, <2>4, <2>5
  <1>4. ASSUME NEW name \in Names, UserLeaves(name)
        PROVE  Justified(new.text, Banned')
    <2>1. item \in DOMAIN rows /\ rows[item] = new
      BY <1>4 DEF UserLeaves, removeUser, RemoveItem, Restrict, listVars
    <2>2. screen = "chat" /\ "unbanUser" \notin faults /\ UNCHANGED Banned
      BY <1>4 DEF UserLeaves, databaseVars, sessionVars, Banned
    <2> QED
      BY <1>0, <2>1, <2>2
  <1>5. ASSUME NEW clean, Target(clean, FALSE), Redisplay(clean, FALSE),
               screen = "chat", "unbanUser" \notin faults,
               \A b \in Banned : b \in Banned' \/ b.word = clean.word
        PROVE  Justified(new.text, Banned')
    <2>1. item \in DOMAIN rows
      BY <1>5, RedisplayRows
    <2>2. rows[item].text.word = item[1].word /\ new.text.word = item[1].word /\ rows[item].text \in Text
      BY <1>5, <2>1, RedisplayRight, RowParts DEF ListInv
    <2>3. rows[item] = new /\ item[1].word # clean.word
      BY <1>5, <2>1, <2>2, MarksLeft
    <2>4. Justified(new.text, Banned)
      BY <1>0, <1>5, <2>1, <2>3
    <2>5. cleanPseudonym(new.text).word = new.text.word
      BY <2>2, <2>3, CleanText
    <2>6. ASSUME NEW b \in Banned, Alike(b, new.text)
          PROVE  b.word = new.text.word
      BY <2>2, <2>3, <2>6, BannedStored, AlikeWord
    <2> QED
      BY <1>5, <2>2, <2>3, <2>4, <2>5, <2>6 DEF Justified
  <1>6. ASSUME NEW found \in DOMAIN rows, NEW ok \in BOOLEAN, MenuBanUnban(found, ok)
        PROVE  Justified(new.text, Banned')
    <2>1. PICK text : text = rows[current].text
      OBVIOUS
    <2>2. PICK clean : clean = cleanPseudonym(text)
      OBVIOUS
    <2>3. /\ screen = "chat" /\ "unbanUser" \notin faults /\ opened /\ dbPath \in Users
          /\ UNCHANGED <<opened, dbPath>> /\ banned_users \in [Users -> SUBSET Text]
      BY <1>6 DEF MenuBanUnban, sessionVars, Fail, SessionInv, DatabaseInv, DatabaseTypeOK
    <2>4. current \in DOMAIN rows /\ found \in findItem(text)
      BY <1>6, <2>1, <2>2, MenuChange
    <2>5. CASE UNCHANGED <<banned_users, rows>>
      BY <1>0, <2>3, <2>5 DEF Banned
    <2>6. CASE dbBanUser(clean) /\ Redisplay(clean, TRUE)
      <3>1. Banned' = Banned \cup {clean}
        BY <2>3, <2>6 DEF dbBanUser, Banned
      <3>2. item \in DOMAIN rows
        BY <2>6, RedisplayRows
      <3>3. CASE rows[item] = new
        BY <1>0, <2>3, <3>1, <3>2, <3>3 DEF Justified
      <3>4. CASE rows[item] # new
        <4>1. item[1].word \in TidyWords
          BY <2>1, <2>2, <2>4, <2>6, <3>2, RowTarget, RedisplayRight
        <4>2. cleanPseudonym(new.text) = clean \/ (Suffixed(clean) /\ Alike(clean, new.text))
          BY <2>1, <2>2, <2>4, <2>6, <3>2, <3>4, <4>1, MarkMade
        <4> QED
          BY <3>1, <4>2 DEF Justified
      <3> QED
        BY <3>3, <3>4
    <2>7. CASE rows[found].banned /\ dbUnbanUsers({clean}) /\ Redisplay(clean, FALSE)
      <3>1. Banned' = Banned \ {clean}
        BY <2>3, <2>7 DEF dbUnbanUsers, Banned
      <3>2. Target(clean, FALSE)
        BY <2>1, <2>2, <2>4, <2>7, RowTarget
      <3> QED
        BY <1>5, <2>3, <2>7, <3>1, <3>2
    <2> QED
      BY <1>6, <2>1, <2>2, <2>5, <2>6, <2>7, MenuChange
  <1>7. ASSUME NEW name \in listed, NEW deleted \in BOOLEAN, NEW ok \in BOOLEAN,
               RemoveFromBanList(name, deleted, ok)
        PROVE  Justified(new.text, Banned')
    <2>1. PICK clean : clean = cleanPseudonym(name)
      OBVIOUS
    <2>2. /\ screen = "chat" /\ "unbanUser" \notin faults /\ ok /\ opened /\ dbPath \in Users
          /\ UNCHANGED <<opened, dbPath>> /\ banned_users \in [Users -> SUBSET Text]
      BY <1>7 DEF RemoveFromBanList, AtChat, Fail, SessionInv, DatabaseInv, DatabaseTypeOK
    <2>3. CASE ~deleted
      BY <1>0, <1>7, <2>2, <2>3 DEF RemoveFromBanList, Banned
    <2>4. CASE deleted
      <3>1. dbUnbanUsers({name, clean}) /\ Redisplay(clean, FALSE)
        BY <1>7, <2>1, <2>2, <2>4 DEF RemoveFromBanList, isInitialized
      <3>2. Banned' = Banned \ {name, clean}
        BY <2>2, <3>1 DEF dbUnbanUsers, Banned
      <3>3. name \in Text /\ Stored(name)
        BY DEF ViewInv, ViewTypeOK
      <3>4. Target(clean, FALSE) /\ clean.word = name.word
        BY <2>1, <3>3, StoredTarget, CleanText
      <3> QED
        BY <1>5, <2>2, <3>1, <3>2, <3>4
    <2> QED
      BY <2>3, <2>4
  <1>8. ASSUME NEW ok \in BOOLEAN, ToggleBanList(ok)
        PROVE  Justified(new.text, Banned')
    BY <1>0, <1>8 DEF ToggleBanList, Fail, listVars, sessionVars, Banned
  <1>9. ASSUME UNCHANGED <<databaseVars, rows, screen>>
        PROVE  Justified(new.text, Banned')
    BY <1>0, <1>9 DEF databaseVars, Banned
  <1> QED
    BY <1>2, <1>3, <1>4, <1>6, <1>7, <1>8, <1>9
       DEF Next, Disconnect, Restart, PrivateMessageReceived, ShowMenu, DismissMenu, MenuPrivateChat,
           ClosePrivateWindow, CloseBanList, listVars, sessionVars

\* A row that ClientListHelper shows as banned is that of a user banned by
\* the user who is logged in, or of one that is taken for a banned name with
\* one more suffix, whichever calls failed but the second removal.
THEOREM MarksStayTrue == Spec => []MarksTrue
  <1>1. Init => MarksTrue
    BY DEF Init, MarksTrue
  <1>2. Inv /\ MarksTrue /\ [Next]_vars => MarksTrue'
    <2>1. ASSUME MarksTrue, UNCHANGED vars
          PROVE  MarksTrue'
      BY <2>1 DEF MarksTrue, Banned, vars, databaseVars, listVars, sessionVars
    <2> QED
      BY <2>1, MarksKept
  <1> QED
    BY <1>1, <1>2, Invariance, PTL DEF Spec

-----------------------------------------------------------------------------
(* The ban list view.                                                      *)

LEMMA ViewMatchKept ==
    ASSUME Inv, ViewMatchesDatabase, Next
    PROVE  ViewMatchesDatabase'
  <1> USE DEF Inv
  <1> SUFFICES ASSUME visible', "refresh" \notin faults'
               PROVE  (listed' \ Banned') \cup (Banned' \ listed') \subseteq changedSince'
    BY DEF ViewMatchesDatabase
  <1>0. ASSUME visible, "refresh" \notin faults, UNCHANGED <<listed, Banned, changedSince>>
        PROVE  (listed' \ Banned') \cup (Banned' \ listed') \subseteq changedSince'
    BY <1>0 DEF ViewMatchesDatabase
  <1>1. ASSUME NEW u \in Users, NEW names \in Rosters, NEW ok \in BOOLEAN, NEW failing,
               LoginSucceeded(u, names, failing, ok)
        PROVE  FALSE
    BY <1>1 DEF LoginSucceeded, viewVars, SessionInv
  <1>2. CASE Disconnect \/ Restart \/ CloseBanList
    BY <1>2 DEF Disconnect, Restart, CloseBanList, hideView
  <1>3. ASSUME NEW name \in Names, NEW ok \in BOOLEAN, UserArrives(name, ok)
        PROVE  (listed' \ Banned') \cup (Banned' \ listed') \subseteq changedSince'
    BY <1>0, <1>3 DEF UserArrives, Fail, viewVars, historyVars, Banned
  <1>4. ASSUME NEW found \in DOMAIN rows, NEW ok \in BOOLEAN, MenuBanUnban(found, ok)
        PROVE  (listed' \ Banned') \cup (Banned' \ listed') \subseteq changedSince'
    <2>1. PICK text : text = rows[current].text
      OBVIOUS
    <2>2. PICK clean : clean = cleanPseudonym(text)
      OBVIOUS
    <2>3. visible /\ "refresh" \notin faults /\ opened /\ dbPath \in Users
      BY <1>4 DEF MenuBanUnban, Fail, viewVars, SessionInv
    <2>4. UNCHANGED <<opened, dbPath>> /\ banned_users \in [Users -> SUBSET Text]
      BY <1>4 DEF MenuBanUnban, DatabaseInv, DatabaseTypeOK
    <2>5. listed' = listed /\ changedSince' = changedSince \cup {clean}
      BY <1>4, <2>1, <2>2, <2>3 DEF MenuBanUnban, Noted, viewVars
    <2>6. UNCHANGED banned_users \/ dbBanUser(clean) \/ dbUnbanUsers({clean})
      BY <1>4, <2>1, <2>2, MenuChange
    <2>7. Banned' \in {Banned, Banned \cup {clean}, Banned \ {clean}}
      BY <2>3, <2>4, <2>6 DEF dbBanUser, dbUnbanUsers, Banned
    <2> QED
      BY <2>3, <2>5, <2>7 DEF ViewMatchesDatabase
  <1>5. ASSUME NEW name \in listed, NEW deleted \in BOOLEAN, NEW ok \in BOOLEAN,
               RemoveFromBanList(name, deleted, ok)
        PROVE  (listed' \ Banned') \cup (Banned' \ listed') \subseteq changedSince'
    <2>1. PICK clean : clean = cleanPseudonym(name)
      OBVIOUS
    <2>2. visible /\ "refresh" \notin faults /\ opened /\ dbPath \in Users
      BY <1>5 DEF RemoveFromBanList, AtChat, Fail, SessionInv
    <2>3. UNCHANGED <<opened, dbPath>> /\ banned_users \in [Users -> SUBSET Text]
      BY <1>5 DEF RemoveFromBanList, DatabaseInv, DatabaseTypeOK
    <2>4. CASE ~deleted
      BY <1>0, <1>5, <2>2, <2>3, <2>4 DEF RemoveFromBanList, viewRemoveUser, Banned
    <2>5. CASE deleted
      <3>1. listed' = listed \ {name}
        BY <1>5, <2>2, <2>5 DEF RemoveFromBanList, viewRemoveUser, isInitialized
      <3>2. CASE ok /\ clean # name
        <4>1. Banned' = Banned \ {name, clean}
          BY <1>5, <2>1, <2>2, <2>3, <2>5, <3>2 DEF RemoveFromBanList, dbUnbanUsers, isInitialized, Banned
        <4>2. changedSince' = changedSince \cup {clean}
          BY <1>5, <2>1, <2>2, <2>5, <3>2 DEF RemoveFromBanList, isInitialized, Noted
        <4> QED
          BY <2>2, <3>1, <4>1, <4>2 DEF ViewMatchesDatabase
      <3>3. CASE ~ok \/ clean = name
        <4>1. Banned' = Banned \ {name}
          <5>1. (IF ok THEN {name, clean} ELSE {name}) = {name}
            BY <3>3
          <5> QED
            BY <1>5, <2>1, <2>2, <2>3, <2>5, <5>1 DEF RemoveFromBanList, dbUnbanUsers, isInitialized, Banned
        <4>2. UNCHANGED changedSince
          BY <1>5, <2>1, <2>2, <2>5, <3>3 DEF RemoveFromBanList, isInitialized
        <4> QED
          BY <2>2, <3>1, <4>1, <4>2 DEF ViewMatchesDatabase
      <3> QED
        BY <3>2, <3>3
    <2> QED
      BY <2>4, <2>5
  <1>6. ASSUME NEW ok \in BOOLEAN, ToggleBanList(ok)
        PROVE  (listed' \ Banned') \cup (Banned' \ listed') \subseteq changedSince'
    <2>1. ok /\ opened /\ UNCHANGED Banned
      BY <1>6 DEF ToggleBanList, AtChat, Fail, Banned, SessionInv
    <2>2. listed' = Banned
      BY <1>6, <2>1 DEF ToggleBanList, toggle, refresh, isInitialized
    <2> QED
      BY <2>1, <2>2
  <1>7. ASSUME UNCHANGED <<databaseVars, viewVars, changedSince>>
        PROVE  (listed' \ Banned') \cup (Banned' \ listed') \subseteq changedSince'
    BY <1>0, <1>7 DEF databaseVars, viewVars, Banned
  <1> QED
    BY <1>1, <1>2, <1>3, <1>4, <1>5, <1>6, <1>7
       DEF Next, UserLeaves, PrivateMessageReceived, ShowMenu, DismissMenu, MenuPrivateChat,
           ClosePrivateWindow, historyVars

\* While it is up and no query failed, BanListView differs from the database
\* only in names that were banned or unbanned in the roster since, the
\* roster's part in a Remove included.
THEOREM ViewStaysTrue == Spec => []ViewMatchesDatabase
  <1>1. Init => ViewMatchesDatabase
    BY DEF Init, ViewInit, ViewMatchesDatabase
  <1>2. Inv /\ ViewMatchesDatabase /\ [Next]_vars => ViewMatchesDatabase'
    <2>1. ASSUME ViewMatchesDatabase, UNCHANGED vars
          PROVE  ViewMatchesDatabase'
      BY <2>1 DEF ViewMatchesDatabase, Banned, vars, databaseVars, viewVars, historyVars
    <2> QED
      BY <2>1, ViewMatchKept
  <1> QED
    BY <1>1, <1>2, Invariance, PTL DEF Spec

-----------------------------------------------------------------------------
(* Private windows.                                                        *)

\* A window is kept under its correspondent's name in lower case, and so are
\* the messages in it.
ChatsInv ==
    \A key \in DOMAIN privateChats :
        /\ key = lower(privateChats[key].remoteUser)
        /\ \A author \in privateChats[key].authors : lower(author) = key

LEMMA WindowSetKeyed ==
    ASSUME PrivateChatsTypeOK(Users), ChatsInv, NEW key, NEW window, SetWindow(key, window),
           key = lower(window.remoteUser),
           \A author \in window.authors : lower(author) = key
    PROVE  ChatsInv'
  BY DEF ChatsInv, SetWindow

LEMMA ChatsInvKept ==
    ASSUME Inv, ChatsInv, Next
    PROVE  ChatsInv'
  <1> USE DEF Inv
  <1>0. ASSUME UNCHANGED privateChats
        PROVE  ChatsInv'
    BY <1>0 DEF ChatsInv
  <1>1. ASSUME NEW author \in Names, PrivateMessageReceived(author)
        PROVE  ChatsInv'
    <2> DEFINE key == lower(author)
    <2> DEFINE old == IF key \in DOMAIN privateChats THEN privateChats[key]
                                                     ELSE NewWindow(pseudonym, author)
    <2> DEFINE new == [old EXCEPT !.visible = TRUE, !.authors = @ \cup {author}]
    <2>1. author \in Text /\ pseudonym \in Users
      BY <1>1, NameTidy DEF PrivateMessageReceived, SessionInv, SessionTypeOK
    <2>2. old \in Window(Users)
      BY <2>1, NewWindowTyped DEF PrivateChatsTypeOK
    <2>3. key = lower(old.remoteUser) /\ \A a \in old.authors : lower(a) = key
      BY DEF ChatsInv, NewWindow
    <2>4. SetWindow(key, new)
      BY <1>1 DEF PrivateMessageReceived, addPrivateMessage, chatKey
    <2> HIDE DEF old
    <2>5. new.remoteUser = old.remoteUser /\ new.authors = old.authors \cup {author}
      BY <2>2 DEF Window
    <2> HIDE DEF new
    <2>6. key = lower(new.remoteUser) /\ \A a \in new.authors : lower(a) = key
      BY <2>3, <2>5
    <2> QED
      BY <2>4, <2>6, WindowSetKeyed
  <1>2. CASE MenuPrivateChat
    <2>1. PICK name : name = cleanPseudonym(rows[current].text)
      OBVIOUS
    <2>2. openPrivateChatWith(pseudonym, name)
      BY <1>2, <2>1 DEF MenuPrivateChat
    <2> DEFINE new == NewWindow(pseudonym, name)
    <2>3. lower(name) = lower(new.remoteUser) /\ new.authors = {}
      BY DEF NewWindow
    <2>4. UNCHANGED privateChats \/ SetWindow(lower(name), new)
      BY <2>2 DEF openPrivateChatWith, chatKey
    <2> HIDE DEF new
    <2> QED
      BY <1>0, <2>3, <2>4, WindowSetKeyed
  <1>3. ASSUME NEW key \in DOMAIN privateChats, ClosePrivateWindow(key)
        PROVE  ChatsInv'
    <2> DEFINE new == [privateChats[key] EXCEPT !.visible = FALSE]
    <2>1. privateChats[key] \in Window(Users)
      BY DEF PrivateChatsTypeOK
    <2>2. new.remoteUser = privateChats[key].remoteUser /\ new.authors = privateChats[key].authors
      BY <2>1 DEF Window
    <2>3. SetWindow(key, new)
      BY <1>3 DEF ClosePrivateWindow, hideWindow
    <2> HIDE DEF new
    <2>4. key = lower(new.remoteUser) /\ \A a \in new.authors : lower(a) = key
      BY <2>2 DEF ChatsInv
    <2> QED
      BY <2>3, <2>4, WindowSetKeyed
  <1>4. CASE Restart
    BY <1>4 DEF Restart, ChatsInv
  <1> QED
    BY <1>0, <1>1, <1>2, <1>3, <1>4
       DEF Next, LoginSucceeded, Disconnect, UserArrives, UserLeaves, ShowMenu, DismissMenu,
           MenuBanUnban, ToggleBanList, CloseBanList, RemoveFromBanList

\* ChatWindow shows a private message in a window whose replies go to its
\* author, up to the case of the name.
THEOREM RepliesReachAuthors == Spec => []ReplyReachesAuthor
  <1>1. Init => ChatsInv
    BY DEF Init, PrivateChatsInit, ChatsInv
  <1>2. Inv /\ ChatsInv /\ [Next]_vars => ChatsInv'
    <2>1. ASSUME ChatsInv, UNCHANGED vars
          PROVE  ChatsInv'
      BY <2>1 DEF ChatsInv, vars
    <2> QED
      BY <2>1, ChatsInvKept
  <1>3. ChatsInv => ReplyReachesAuthor
    BY DEF ChatsInv, ReplyReachesAuthor, SameText
  <1> QED
    BY <1>1, <1>2, <1>3, Invariance, PTL DEF Spec

LEMMA WindowsKept ==
    ASSUME Inv, WindowsAreForUsers, Next
    PROVE  WindowsAreForUsers'
  <1> USE DEF Inv
  <1> DEFINE Fits(window) == window.remoteUser.word \in TidyWords => window.remoteUser \in Names \cup Cleaned
  <1>0. ASSUME NEW key, NEW window, Fits(window), SetWindow(key, window)
        PROVE  WindowsAreForUsers'
    BY <1>0 DEF WindowsAreForUsers, SetWindow, Cleaned
  <1>1. \A key \in DOMAIN privateChats : Fits(privateChats[key]) /\ privateChats[key] \in Window(Users)
    BY DEF WindowsAreForUsers, PrivateChatsTypeOK, Cleaned
  <1>2. ASSUME UNCHANGED privateChats
        PROVE  WindowsAreForUsers'
    BY <1>2 DEF WindowsAreForUsers
  <1>3. ASSUME NEW author \in Names, PrivateMessageReceived(author)
        PROVE  WindowsAreForUsers'
    <2> DEFINE old == IF chatKey(author) \in DOMAIN privateChats THEN privateChats[chatKey(author)]
                                                                 ELSE NewWindow(pseudonym, author)
    <2> DEFINE new == [old EXCEPT !.visible = TRUE, !.authors = @ \cup {author}]
    <2>1. pseudonym \in Users /\ author \in Text
      BY <1>3, NameTidy DEF PrivateMessageReceived, SessionInv, SessionTypeOK
    <2>2. old \in Window(Users)
      BY <1>1, <2>1, NewWindowTyped
    <2>3. Fits(old)
      BY <1>1 DEF NewWindow
    <2>4. SetWindow(chatKey(author), new)
      BY <1>3 DEF PrivateMessageReceived, addPrivateMessage
    <2> HIDE DEF old
    <2>5. new.remoteUser = old.remoteUser
      BY <2>2 DEF Window
    <2> HIDE DEF new
    <2> QED
      BY <1>0, <2>3, <2>4, <2>5
  <1>4. CASE MenuPrivateChat
    <2>1. PICK name : name = cleanPseudonym(rows[current].text)
      OBVIOUS
    <2> DEFINE new == NewWindow(pseudonym, name)
    <2>2. UNCHANGED privateChats \/ SetWindow(chatKey(name), new)
      BY <1>4, <2>1 DEF MenuPrivateChat, openPrivateChatWith
    <2>3. Stored(name)
      BY <1>4, <2>1, RowCleaned DEF MenuPrivateChat, ListInv, ListTypeOK
    <2>4. Fits(new)
      BY <2>3 DEF NewWindow, Stored
    <2> HIDE DEF new
    <2> QED
      BY <1>0, <1>2, <2>2, <2>4
  <1>5. ASSUME NEW key \in DOMAIN privateChats, ClosePrivateWindow(key)
        PROVE  WindowsAreForUsers'
    <2> DEFINE new == [privateChats[key] EXCEPT !.visible = FALSE]
    <2>1. new.remoteUser = privateChats[key].remoteUser
      BY <1>1 DEF Window
    <2>2. SetWindow(key, new)
      BY <1>5 DEF ClosePrivateWindow, hideWindow
    <2> HIDE DEF new
    <2> QED
      BY <1>0, <1>1, <2>1, <2>2
  <1>6. CASE Restart
    BY <1>6 DEF Restart, WindowsAreForUsers
  <1> QED
    BY <1>2, <1>3, <1>4, <1>5, <1>6
       DEF Next, LoginSucceeded, Disconnect, UserArrives, UserLeaves, ShowMenu, DismissMenu,
           MenuBanUnban, ToggleBanList, CloseBanList, RemoveFromBanList

\* ChatWindow opens private windows for names, never for what a row shows.
THEOREM WindowsStayForUsers == Spec => []WindowsAreForUsers
  <1>1. Init => WindowsAreForUsers
    BY DEF Init, PrivateChatsInit, WindowsAreForUsers
  <1>2. Inv /\ WindowsAreForUsers /\ [Next]_vars => WindowsAreForUsers'
    <2>1. ASSUME WindowsAreForUsers, UNCHANGED vars
          PROVE  WindowsAreForUsers'
      BY <2>1 DEF WindowsAreForUsers, vars
    <2> QED
      BY <2>1, WindowsKept
  <1> QED
    BY <1>1, <1>2, Invariance, PTL DEF Spec

-----------------------------------------------------------------------------
(* No mark is missing.                                                     *)

LEMMA PlainName ==
    ASSUME NEW user \in PlainNames
    PROVE  /\ user \in Names /\ Tidy(user) /\ Size(user) = 0 /\ user.word \in TidyWords
           /\ \A n \in Names :
                 n.word = user.word => Tidy(n) /\ n.capital = user.capital /\ Size(n) \in 0..2
  <1>1. user \in Names /\ user \in Text /\ user.tail = <<>>
    BY NameTidy DEF PlainNames
  <1>2. \A n \in Names :
           n.word = user.word => OnlySuffixes(n) /\ n.capital = user.capital /\ Size(n) <= 2
    BY DEF PlainNames, Size
  <1>3. \A n \in Names : n \in Text /\ Size(n) \in Nat
    BY NameTidy, TextParts
  <1>4. \A n \in Names :
           n.word = user.word => Tidy(n) /\ n.capital = user.capital /\ Size(n) \in 0..2
    BY <1>2, <1>3 DEF Tidy
  <1>5. Size(user) = 0
    BY <1>1, TextParts
  <1>6. user.word \in TidyWords
    <2>1. user.word \in Words
      BY <1>1, TextParts
    <2>2. \A n \in Names : n.word = user.word => Size(n) <= 3
      BY <1>4
    <2>3. \A n \in Names : n.word = user.word => OnlySuffixes(n) /\ Len(n.tail) <= 3
      BY <1>4, <2>2 DEF Tidy, Size
    <2> QED
      BY <2>1, <2>3 DEF TidyWords
  <1> QED
    BY <1>1, <1>4, <1>5, <1>6

\* Whose mark is taken off, when it is a plain name's.
LEMMA PlainUnmarked ==
    ASSUME ListInv, NEW clean, Target(clean, FALSE), Redisplay(clean, FALSE),
           NEW item \in DOMAIN rows, item[1] \in PlainNames, rows'[item] # rows[item],
           NEW n \in Names, clean.word = n.word, clean.capital = n.capital, Size(clean) = 0
    PROVE  item[1] = clean
  <1>1. item \in findItem(clean)
    BY RedisplayRows
  <1>2. item[1].word = clean.word
    BY <1>1, FoundWord DEF Target
  <1>3. Tidy(item[1]) /\ Size(item[1]) = 0 /\ n.capital = item[1].capital /\ item[1].word \in TidyWords
    BY <1>2, PlainName
  <1>4. Tidy(clean)
    BY <1>2, <1>3 DEF Target
  <1> QED
    BY <1>2, <1>3, <1>4, SameTidy

LEMMA CompleteKept ==
    ASSUME Inv, MarksComplete, Next
    PROVE  MarksComplete'
  <1> USE DEF Inv
  <1> SUFFICES ASSUME screen' = "chat", "isUserBanned" \notin faults', NEW item \in DOMAIN rows',
                      NEW user, user = item[1], user \in Banned', user \in PlainNames
               PROVE  rows'[item].banned
    BY DEF MarksComplete
  <1>0. ASSUME screen = "chat", "isUserBanned" \notin faults, item \in DOMAIN rows, user \in Banned
        PROVE  rows[item].banned
    BY <1>0 DEF MarksComplete
  <1>a. /\ user \in Names /\ Tidy(user) /\ Size(user) = 0 /\ user.word \in TidyWords
        /\ \A n \in Names :
              n.word = user.word => Tidy(n) /\ n.capital = user.capital /\ Size(n) \in 0..2
    BY PlainName
  <1>1. ASSUME NEW marked, user \in marked, NEW new, new = NewRow(user, marked)
        PROVE  new.banned
    BY <1>a, <1>1, NewRowRight
  <1>2. ASSUME NEW u \in Users, NEW names \in Rosters, NEW ok \in BOOLEAN, NEW failing,
               LoginSucceeded(u, names, failing, ok)
        PROVE  rows'[item].banned
    <2>1. PICK marked : marked = Banned' \ failing
      OBVIOUS
    <2>2. rows'[item] = NewRow(user, marked)
      BY <1>2, <2>1 DEF LoginSucceeded, populateList
    <2>3. user \in marked
      BY <1>2, <2>1 DEF LoginSucceeded, Fail
    <2> QED
      BY <1>1, <2>2, <2>3
  <1>3. ASSUME NEW name \in Names, NEW ok \in BOOLEAN, UserArrives(name, ok)
        PROVE  rows'[item].banned
    <2>1. ok /\ screen = "chat" /\ "isUserBanned" \notin faults /\ user \in Banned
      BY <1>3 DEF UserArrives, sessionVars, Fail, Banned
    <2>2. PICK marked : marked = Banned
      OBVIOUS
    <2>3. \/ item \in DOMAIN rows /\ rows'[item] = rows[item]
          \/ user = name /\ rows'[item] = NewRow(name, marked)
      BY <1>3, <2>1, <2>2 DEF UserArrives, addUser, AddItem
    <2> QED
      BY <1>0, <1>1, <2>1, <2>2, <2>3
  <1>4. ASSUME NEW name \in Names, UserLeaves(name)
        PROVE  rows'[item].banned
    <2>1. item \in DOMAIN rows /\ rows'[item] = rows[item]
      BY <1>4 DEF UserLeaves, removeUser, RemoveItem, Restrict, listVars
    <2>2. screen = "chat" /\ "isUserBanned" \notin faults /\ user \in Banned
      BY <1>4 DEF UserLeaves, databaseVars, sessionVars, Banned
    <2> QED
      BY <1>0, <2>1, <2>2
  <1>5. ASSUME NEW found \in DOMAIN rows, NEW ok \in BOOLEAN, MenuBanUnban(found, ok)
        PROVE  rows'[item].banned
    <2>1. PICK text : text = rows[current].text
      OBVIOUS
    <2>2. PICK clean : clean = cleanPseudonym(text)
      OBVIOUS
    <2>3. /\ screen = "chat" /\ "isUserBanned" \notin faults /\ opened /\ dbPath \in Users
          /\ UNCHANGED <<opened, dbPath>> /\ banned_users \in [Users -> SUBSET Text]
      BY <1>5 DEF MenuBanUnban, sessionVars, Fail, SessionInv, DatabaseInv, DatabaseTypeOK
    <2>4. current \in DOMAIN rows /\ current[1] \in Names /\ found \in findItem(text)
      BY <1>5, <2>1, <2>2, MenuChange, RowParts
    <2>5. /\ clean \in Text /\ clean.word = current[1].word
          /\ current[1].word \in TidyWords => clean = cleanPseudonym(current[1])
      BY <2>1, <2>2, <2>4, RowCleaned
    <2>6. CASE UNCHANGED <<banned_users, rows>>
      BY <1>0, <2>3, <2>6 DEF Banned
    <2>7. CASE dbBanUser(clean) /\ Redisplay(clean, TRUE)
      <3>1. Banned' = Banned \cup {clean} /\ item \in DOMAIN rows
        BY <2>3, <2>7, RedisplayRows DEF dbBanUser, Banned
      <3>2. Target(clean, TRUE)
        BY <2>1, <2>2, <2>4, RowTarget
      <3>3. CASE user \in Banned
        BY <1>0, <1>a, <2>3, <2>7, <3>1, <3>2, <3>3, RedisplayRight
      <3>4. CASE user = clean
        <4>1. Tidy(current[1]) /\ Size(clean) = Less(Size(current[1]))
          BY <1>a, <2>4, <2>5, <3>4, CleanTidy
        <4>2. Twin(item[1], current[1])
          BY <1>a, <2>5, <3>4, <4>1 DEF Twin, Less
        <4>3. item = current
          BY <1>a, <2>4, <3>1, <4>2 DEF ListInv
        <4>4. Twin(item[1], clean)
          BY <3>4 DEF Twin
        <4>5. item \in findItem(clean)
          BY <1>a, <3>1, <3>4, <4>4, FoundTwin
        <4>6. PICK other \in findItem(clean) :
                 /\ other \in DOMAIN rows
                 /\ rows'[other] = BannedDisplay(rows[other])
          BY <2>7, <4>5, RedisplayRows
        <4>7. other[1].word = user.word
          BY <2>5, <3>4, <4>6, FoundWord
        <4>8. Twin(other[1], item[1])
          BY <1>a, <3>4, <4>6, <4>7, FoundTwin
        <4>9. other = item
          BY <1>a, <3>1, <4>6, <4>7, <4>8 DEF ListInv
        <4>10. RowFor(user, rows[item]) /\ rows[item] \in Row
          BY <1>a, <3>1, RowParts DEF ListInv
        <4>11. PICK new : new = BannedDisplay(rows[item])
          OBVIOUS
        <4>12. new.banned
          BY <1>a, <4>10, <4>11, DisplayRight
        <4> QED
          BY <4>6, <4>9, <4>11, <4>12
      <3> QED
        BY <3>1, <3>3, <3>4
    <2>8. CASE rows[found].banned /\ dbUnbanUsers({clean}) /\ Redisplay(clean, FALSE)
      <3>1. Banned' = Banned \ {clean} /\ item \in DOMAIN rows
        BY <2>3, <2>8, RedisplayRows DEF dbUnbanUsers, Banned
      <3>2. Target(clean, FALSE) /\ (text.word \in TidyWords => Size(clean) = 0)
        BY <2>1, <2>2, <2>4, <2>8, RowTarget
      <3>3. rows'[item] = rows[item]
        <4> SUFFICES ASSUME rows'[item] # rows[item]
                     PROVE  FALSE
          OBVIOUS
        <4>1. item \in findItem(clean)
          BY <2>8, <3>1, RedisplayRows
        <4>2. clean.word = user.word
          BY <2>5, <4>1, FoundWord
        <4>3. clean.capital = current[1].capital /\ Size(clean) = 0
          <5>1. Tidy(current[1]) /\ text.word = clean.word
            BY <1>a, <2>1, <2>4, <2>5, <4>2, RowCleaned
          <5> QED
            BY <1>a, <2>5, <3>2, <4>2, <5>1, CleanTidy
        <4>4. user = clean
          BY <2>4, <2>5, <2>8, <3>1, <3>2, <4>3, PlainUnmarked
        <4> QED
          BY <3>1, <4>4
      <3> QED
        BY <1>0, <2>3, <3>1, <3>3
    <2> QED
      BY <1>5, <2>1, <2>2, <2>6, <2>7, <2>8, MenuChange
  <1>6. ASSUME NEW name \in listed, NEW deleted \in BOOLEAN, NEW ok \in BOOLEAN,
               RemoveFromBanList(name, deleted, ok)
        PROVE  rows'[item].banned
    <2>1. PICK clean : clean = cleanPseudonym(name)
      OBVIOUS
    <2>2. /\ screen = "chat" /\ "isUserBanned" \notin faults /\ opened /\ dbPath \in Users
          /\ UNCHANGED <<opened, dbPath>> /\ banned_users \in [Users -> SUBSET Text]
      BY <1>6 DEF RemoveFromBanList, AtChat, Fail, SessionInv, DatabaseInv, DatabaseTypeOK
    <2>3. user \in Banned
      BY <1>6, <2>2 DEF RemoveFromBanList, dbUnbanUsers, Banned
    <2>4. CASE UNCHANGED rows
      BY <1>0, <2>2, <2>3, <2>4
    <2>5. CASE dbUnbanUsers({name, clean}) /\ Redisplay(clean, FALSE)
      <3>1. user # clean /\ item \in DOMAIN rows
        BY <2>2, <2>5, RedisplayRows DEF dbUnbanUsers, Banned
      <3>2. name \in Text /\ Stored(name)
        BY DEF ViewInv, ViewTypeOK
      <3>3. Target(clean, FALSE) /\ clean \in Text /\ clean.word = name.word
        BY <2>1, <3>2, StoredTarget, CleanText
      <3>4. rows'[item] = rows[item]
        <4> SUFFICES ASSUME rows'[item] # rows[item]
                     PROVE  FALSE
          OBVIOUS
        <4>1. item \in findItem(clean)
          BY <2>5, <3>1, RedisplayRows
        <4>2. clean.word = user.word
          BY <3>3, <4>1, FoundWord
        <4>3. PICK n \in Names : name = cleanPseudonym(n)
          BY <1>a, <3>2, <3>3, <4>2 DEF Stored, Cleaned
        <4>4. n.word = clean.word
          BY <3>3, <4>3, NameTidy, CleanText
        <4>5. Tidy(n) /\ Size(n) \in 0..2
          BY <1>a, <4>2, <4>4
        <4>6. Tidy(name) /\ name.capital = n.capital /\ Size(name) = Less(Size(n))
          BY <4>3, <4>5, CleanTidy
        <4>7. clean.capital = n.capital /\ Size(clean) = Less(Size(name))
          BY <2>1, <4>6, CleanTidy
        <4>8. Size(name) \in 0..1
          BY <4>5, <4>6 DEF Less
        <4>9. Size(clean) = 0
          BY <4>7, <4>8 DEF Less
        <4>10. user = clean
          BY <2>5, <3>1, <3>3, <4>4, <4>7, <4>9, PlainUnmarked
        <4> QED
          BY <3>1, <4>10
      <3> QED
        BY <1>0, <2>2, <2>3, <3>1, <3>4
    <2> QED
      BY <1>6, <2>1, <2>4, <2>5 DEF RemoveFromBanList
  <1>7. ASSUME NEW ok \in BOOLEAN, ToggleBanList(ok)
        PROVE  rows'[item].banned
    BY <1>0, <1>7 DEF ToggleBanList, Fail, listVars, sessionVars, Banned
  <1>8. ASSUME UNCHANGED <<databaseVars, rows, screen>>
        PROVE  rows'[item].banned
    BY <1>0, <1>8 DEF databaseVars, Banned
  <1> QED
    BY <1>2, <1>3, <1>4, <1>5, <1>6, <1>7, <1>8
       DEF Next, Disconnect, Restart, PrivateMessageReceived, ShowMenu, DismissMenu, MenuPrivateChat,
           ClosePrivateWindow, CloseBanList, listVars, sessionVars

\* ClientListHelper shows every banned user with a plain name as banned,
\* unless a look-up failed.
THEOREM MarksStayComplete == Spec => []MarksComplete
  <1>1. Init => MarksComplete
    BY DEF Init, MarksComplete
  <1>2. Inv /\ MarksComplete /\ [Next]_vars => MarksComplete'
    <2>1. ASSUME MarksComplete, UNCHANGED vars
          PROVE  MarksComplete'
      BY <2>1 DEF MarksComplete, Banned, vars, databaseVars, listVars, sessionVars
    <2> QED
      BY <2>1, CompleteKept
  <1> QED
    BY <1>1, <1>2, Invariance, PTL DEF Spec
===============================================================================
