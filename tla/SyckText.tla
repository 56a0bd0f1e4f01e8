------------------------------ MODULE SyckText ------------------------------
(***************************************************************************)
(* Texts are TLA+ strings and a character is a string of length one: the   *)
(* helpers the text modules share, and Perl's looks_like_number as the     *)
(* dumper uses it.  Nothing here keeps state.                              *)
(***************************************************************************)
EXTENDS Naturals, Sequences

\* The C string's terminator: what a read at or past the end yields.
NUL == ""
Least(m, n) == IF m < n THEN m ELSE n

At(s, i) == IF i \in 1..Len(s) THEN SubSeq(s, i, i) ELSE NUL
From(s, i) == IF i > Len(s) THEN "" ELSE SubSeq(s, i, Len(s))
\* The characters of a text; none of them is NUL.
Chars(s) == {At(s, i) : i \in 1..Len(s)} \ {NUL}
\* A NUL inside a text of known length, and what such code takes for the text.
Zero == ";"
CString(s) ==
    SubSeq(s, 1, CHOOSE n \in 0..Len(s) : At(s, n + 1) \in {NUL, Zero} /\ \A i \in 1..n : At(s, i) # Zero)
StartsAt(s, i, w) == i + Len(w) - 1 <= Len(s) /\ SubSeq(s, i, i + Len(w) - 1) = w
Occurs(w, s) == \E i \in 1..Len(s) : StartsAt(s, i, w)

\* s without the characters of blanks at its end, or at its start, and n blanks.
Kept(s, blanks) == {i \in 1..Len(s) : At(s, i) \notin blanks}
TrimEnd(s, blanks) ==
    IF Kept(s, blanks) = {} THEN ""
    ELSE SubSeq(s, 1, CHOOSE i \in Kept(s, blanks) : \A j \in Kept(s, blanks) : j <= i)
TrimStart(s, blanks) ==
    IF Kept(s, blanks) = {} THEN ""
    ELSE From(s, CHOOSE i \in Kept(s, blanks) : \A j \in Kept(s, blanks) : i <= j)
Blanks(n) == SubSeq("                                ", 1, n)

Digits == {"0", "1", "2", "3", "4", "5", "6", "7", "8", "9"}

\* An optional sign, taken off.
Unsigned(s) == IF At(s, 1) \in {"+", "-"} THEN From(s, 2) ELSE s

\* Perl's looks_like_number (external), for the forms a text of the runs can
\* take: a decimal integer or fraction, with a sign, with an exponent, and
\* with blanks around it.
PerlSpaces == {" ", "\t", "\n", "\r", "\f"}
Decimal(s) ==
    /\ s # "" /\ Chars(s) \subseteq Digits \cup {"."} /\ s # "."
    /\ \A i, j \in 1..Len(s) : At(s, i) = "." /\ At(s, j) = "." => i = j
LooksLikeNumber(s) ==
    LET u == Unsigned(TrimEnd(TrimStart(s, PerlSpaces), PerlSpaces))
    IN  \/ Decimal(u)
        \/ \E i \in 1..Len(u) :
             /\ At(u, i) \in {"e", "E"} /\ Decimal(SubSeq(u, 1, i - 1))
             /\ LET exponent == Unsigned(From(u, i + 1))
                IN  exponent # "" /\ Chars(exponent) \subseteq Digits
=============================================================================
