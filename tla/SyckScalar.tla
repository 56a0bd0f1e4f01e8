----------------------------- MODULE SyckScalar -----------------------------
(***************************************************************************)
(* One scalar on its way out: what syck_scan_scalar sees in a text, the    *)
(* style syck_emit_scalar settles on, and the pieces the quoting functions *)
(* hand to syck_emitter_write.  A literal block is never written (it comes *)
(* out double-quoted), and a folded one, which dumped code asks for, needs *)
(* the emitter's levels: SyckEmitter writes it.                            *)
(***************************************************************************)
EXTENDS SyckImplicit

\* Stands for a control character that has no escape letter of its own (0x01);
\* of those that have one, the ones a TLA+ string can hold.
Control == "$"
Letter == [c \in {"\\", "\f", "\r", "\t", "\n"} |->
             CASE c = "\\" -> "\\" [] c = "\f" -> "f" [] c = "\r" -> "r"
               [] c = "\t" -> "t"  [] c = "\n" -> "n"]

\* The grave accent is one too; a TLA+ string cannot hold it.
Indicators == {"[", "]", "{", "}", "!", "*", "&", "|", ">", "'", "\"", "#", "%", "@", "^"}

\* SCAN_INDIC_S and SCAN_INDIC_C
(* Mutant of OpensAsToken: indicators that need a blank are forgotten.     *)
OpensAsToken_FirstOnly(s) == At(s, 1) \in Indicators
OpensAsToken(s) ==
    \/ At(s, 1) \in Indicators
    \/ At(s, 1) \in {"-", ":", "?", ","} /\ (Len(s) = 1 \/ At(s, 2) \in {" ", "\n", "\r"})
HoldsIndicator(s) ==
    \E i \in 1..Len(s) : \/ StartsAt(s, i, " #")
                         \/ At(s, i) = ":" /\ (i = Len(s) \/ At(s, i + 1) \in {" ", "\n"})
WhiteEdge(s) == At(s, 1) \in {" ", "\t"} \/ (Len(s) > 1 /\ At(s, Len(s)) \in {" ", "\t"})
NonPrint(s) == Chars(s) \cap {Control, "\f", "\r", "\t"} # {}
NewLine(s) == "\n" \in Chars(s)
Indented(s) == Occurs("\n ", s) \/ Occurs("\n\t", s)
DocSep(s) ==
    \E w \in {"---", "..."} : StartsAt(s, 1, w) \/ Occurs("\n" \o w, s)
HasSeparator(s) ==
    \E i \in 1..Len(s) : At(s, i) = "," /\ (i = Len(s) \/ At(s, i + 1) \in {" ", "\n"})
FlowUnsafe(s, close) == close \in Chars(s) \/ HasSeparator(s)

\* A text that would load as something else under implicit typing, numbers
\* written in plain decimal apart.
Ambiguous(s) ==
    /\ s # ""
    /\ MatchImplicit(s) \in {"bool#yes", "bool#no", "null", "int#hex", "int#oct", "int#base60",
                             "float#inf", "float#neginf", "float#nan", "float#base60"}

\* syck_emit_scalar's choice, from the style the handler asks for and the
\* level above: its status, and whether it is at a key (an odd count).
Style(s, asked, place) ==
    LET key    == place.status = "map" /\ place.odd
        inline == place.status \in {"iseq", "imap"}
        wanted == IF Ambiguous(s) /\ asked # "plain"
                  THEN IF asked = "2quote" THEN asked ELSE "1quote"
                  ELSE IF asked # "none" THEN asked
                  ELSE IF NewLine(s) THEN "literal" ELSE "plain"
        sniffed ==
            IF NonPrint(s) THEN IF wanted = "2quote_1" THEN wanted ELSE "2quote"
            ELSE IF WhiteEdge(s) /\ wanted \notin {"1quote", "2quote_1"} THEN "2quote"
            ELSE IF Indented(s) /\ wanted # "fold" THEN "literal"
            ELSE IF wanted = "plain" /\ NewLine(s) THEN "literal"
            ELSE IF /\ wanted = "plain"
                    /\ \/ place.status = "iseq" /\ FlowUnsafe(s, "]")
                       \/ place.status = "imap" /\ FlowUnsafe(s, "}")
                       \/ OpensAsToken(s) \/ HoldsIndicator(s) \/ DocSep(s)
                 THEN "2quote"
            ELSE wanted
    IN  IF key /\ sniffed # "plain" THEN "2quote"
        ELSE IF inline /\ sniffed \notin {"plain", "1quote", "2quote_1"} THEN "2quote"
        ELSE IF sniffed = "plain" /\ MatchImplicit(s) = "str" /\ At(s, 1) = ":" THEN "literal"
        ELSE sniffed

\* syck_emit_1quoted: a newline is written twice unless the line before it is
\* empty.
Single(s, i) ==
    LET lineStart == LET breaks == {j \in 1..i - 1 : At(s, j) = "\n"}
                     IN  IF breaks = {} THEN 1
                         ELSE 1 + CHOOSE j \in breaks : \A k \in breaks : k <= j
    IN  CASE At(s, i) = "'"  -> "''"
          [] At(s, i) = "\n" -> IF At(s, lineStart) # "\n" \/ lineStart = 1 THEN "\n\n" ELSE "\n"
          [] OTHER           -> At(s, i)

\* syck_emit_2quoted (delim is a double quote) and syck_emit_2quoted_1, with
\* syck_emitter_escape for what has no letter.
Escaped(c, delim, json) ==
    CASE c = delim            -> "\\" \o delim
      [] c \in DOMAIN Letter  -> "\\" \o Letter[c]
      [] c = "/"              -> IF json THEN "\\/" ELSE "/"
      [] c = Control          -> IF json THEN "\\u0001" ELSE "\\x01"
      [] OTHER                -> c

\* The writes that put s out in a style, in order.
Pieces(s, style, json) ==
    LET delim == IF style \in {"1quote", "2quote_1"} THEN "'" ELSE "\""
    IN  IF style = "plain" THEN <<s>>
        ELSE <<delim>>
               \o [i \in 1..Len(s) |-> IF style = "1quote" THEN Single(s, i)
                                       ELSE Escaped(At(s, i), delim, json)]
               \o <<delim>>

\* The reading side: escape_seq for a letter, and the character of a \x or \u
\* escape's digits, of which the runs only need the one
\* (as one character: its UTF-8 bytes are not told apart).
Unescape(c) ==
    IF \E d \in DOMAIN Letter : Letter[d] = c THEN CHOOSE d \in DOMAIN Letter : Letter[d] = c ELSE c
Coded(digits) == IF digits \in {"01", "0001"} THEN Control ELSE "?"
=============================================================================
