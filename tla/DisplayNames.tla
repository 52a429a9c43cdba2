----------------------------- MODULE DisplayNames -----------------------------
(***************************************************************************)
(* What the roster's rows show: names, some with " - banned" at the end.   *)
(* A name may end with that suffix too, any number of times: neither the   *)
(* login view nor the server looks at it.  A text is its letters, up to    *)
(* their case, and what comes after them.                                  *)
(***************************************************************************)
EXTENDS Naturals, Sequences

CONSTANTS
    Words,         \* a name's letters, without case, up to the suffixes
    Names          \* what users may be called

\* What may come after the letters: the suffix, the suffix in another case,
\* and blanks, one or more, that belong to neither.
Tokens == {"suffix", "SUFFIX", "blanks"}

Text == [word : Words, capital : BOOLEAN, tail : Seq(Tokens)]

Ends(text, token) == text.tail # <<>> /\ text.tail[Len(text.tail)] = token

\* endsWith(bannedSuffix_), which tells cases apart.
Suffixed(text) == Ends(text, "suffix")

WithoutLast(text) == [text EXCEPT !.tail = SubSeq(@, 1, Len(@) - 1)]

WithSuffix(text) == [text EXCEPT !.tail = Append(@, "suffix")]

trimmed(text) == IF Ends(text, "blanks") THEN WithoutLast(text) ELSE text

\* One suffix is taken off, whether the list put it there or it belongs to
\* the name: cleaning a cleaned text may change it again.
cleanPseudonym(text) ==
    LET clean == trimmed(text) IN
    IF Suffixed(clean) THEN WithoutLast(clean) ELSE clean

\* toLower.
lower(text) ==
    [text EXCEPT !.capital = FALSE,
                 !.tail = [i \in DOMAIN @ |-> IF @[i] = "SUFFIX" THEN "suffix" ELSE @[i]]]

\* QString::compare without case.
SameText(a, b) == lower(a) = lower(b)

\* The login view trims what is typed.  Blanks in a row are one token.
ASSUME NamesAssumption ==
    /\ Names \subseteq Text
    /\ \A n \in Names : \A i \in DOMAIN n.tail :
          n.tail[i] = "blanks" => i < Len(n.tail) /\ n.tail[i + 1] # "blanks"

\* After its letters the text has the suffix, written as the list writes it,
\* and nothing else.
OnlySuffixes(text) == \A i \in DOMAIN text.tail : text.tail[i] = "suffix"
===============================================================================
