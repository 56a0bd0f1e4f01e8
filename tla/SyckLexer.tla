----------------------------- MODULE SyckLexer -----------------------------
(***************************************************************************)
(* The tokenizer (sycklex_yaml_utf8 in token.c) over the parser's input    *)
(* window and level stack (syck_.c).                                       *)
(*                                                                         *)
(* The whole input is lx.src; the buffer holds it up to lx.limit, and what *)
(* lies behind reads as NUL.  A rule that may look n characters ahead asks *)
(* for them first (YYFILL), which keeps the text from lx.token on and      *)
(* reads until the buffer is full again: a position beyond lx.limit that   *)
(* is looked at without asking is the end of the text to the rule.         *)
(*                                                                         *)
(* One action is one rule of the generated scanner.  Not here: carriage    *)
(* returns, the escape letters 0, a, b, e and v, and what a quoted scalar  *)
(* that the text ends inside reads behind the end: the model stops there.  *)
(***************************************************************************)
EXTENDS SyckScalar, Integers, FiniteSets, SequencesExt

CONSTANT Window      \* SYCK_BUFFERSIZE - 1 (4095 in the code)
ASSUME WindowAssumption == Window \in Nat \ {0}

VARIABLE lx
lexerVars == lx

NoToken == [type |-> "none", name |-> "", text |-> "", style |-> ""]
Token(type) == [NoToken EXCEPT !.type = type]
Word(text, style) == [NoToken EXCEPT !.type = "PLAIN", !.text = text, !.style = style]

\* lx.section is where sycklex stands: at its entry, in a part of the document
\* or in a scalar, "done" with lx.out to be taken by the parser, or "lost".
\* lx.force is the type of the token the next call returns, "none" for what the
\* text says.  lx.base is the place in the text of the buffer's first character.
\* lx.text is the scalar or tag so far, lx.indent a plain scalar's parentIndent,
\* lx.block what a block scalar's indicators said and how its last line was
\* indented past its level, lx.after where a comment was met.  A level counts its
\* items only for the scanner of SyckBytecode.  History: lx.most, the most levels
\* there have been, and lx.quirks, what the text did that upsets the levels.
NoBlock == [fold |-> FALSE, keep |-> NUL, force |-> NUL, last |-> 0]
NewLexer(text) ==
    [src |-> text, cur |-> 1, token |-> 1, line |-> 1, limit |-> Least(Len(text), Window),
     base |-> 1, force |-> "none", section |-> "entry", after |-> "header", doc |-> 0,
     text |-> "", indent |-> 0, block |-> NoBlock, out |-> NoToken, most |-> 1, quirks |-> {},
     levels |-> <<[spaces |-> -1, status |-> "header", ncount |-> 0, domain |-> ""]>>]

Peek(l, i) == IF i > l.limit THEN NUL ELSE At(l.src, i)
Here(l) == Peek(l, l.cur)

\* YYFILL: what the buffer keeps moves to its start.
(* Mutant of Need: the buffer takes a character more than it holds.        *)
Need_OneMore(l, n) ==
    IF l.limit - l.cur + 1 >= n THEN l
    ELSE [l EXCEPT !.limit = Least(Len(l.src), l.token + Window), !.base = l.token]
Need(l, n) ==
    IF l.limit - l.cur + 1 >= n THEN l
    ELSE [l EXCEPT !.limit = Least(Len(l.src), l.token + Window - 1), !.base = l.token]

\* A rule's repeated part, which asks for n characters each time: on while the
\* character is in chars.  The end of the text is in none.
Over(l, chars, n) ==
    LET from(i) == Need([l EXCEPT !.cur = i], n)
        stops   == {i \in l.cur..Len(l.src) + 1 : Here(from(i)) \notin chars \ {NUL}}
    IN  from(Min(stops))
Skip(l, chars) == Over(l, chars, 1)
Forward(l, n) == [l EXCEPT !.cur = @ + n]
Back(l) == [l EXCEPT !.cur = l.token]

\* Where a rule starts: YYTOKEN = YYCURSOR, and the characters it may look at.
Mark(l, n) == Need([l EXCEPT !.token = l.cur], n)

(***************************************************************************)
(* The level stack.                                                        *)
(***************************************************************************)
LexLevel(l) == Last(l.levels)
InFlow(l) == LexLevel(l).status \in {"iseq", "imap"}
AddLexLevel(l, spaces, status) ==
    [l EXCEPT !.levels = Append(@, [spaces |-> spaces, status |-> status, ncount |-> 0,
                                    domain |-> LexLevel(l).domain]),
              !.most = IF Len(l.levels) < @ THEN @ ELSE Len(l.levels) + 1]
PopLexLevel(l) == IF Len(l.levels) = 1 THEN l ELSE [l EXCEPT !.levels = Front(@)]
Quirk(l, quirk) == [l EXCEPT !.quirks = @ \cup {quirk}]
SetStatus(l, status) == [l EXCEPT !.levels[Len(l.levels)].status = status]

(***************************************************************************)
(* A newline and what may follow it (GOBBLE_UP_YAML_INDENT): the line      *)
(* starts behind the last newline passed, its indentation is -1 at the end *)
(* of the text.                                                            *)
(***************************************************************************)
Breaks(l) == {i \in l.token..l.cur - 1 : At(l.src, i) = "\n"}
Gobbled(l) ==
    LET f == Skip(l, {" ", "\n"})
    IN  [f EXCEPT !.line = 1 + Max(Breaks(f))]
Indent(l) == IF Here(l) = NUL THEN -1 ELSE IF Peek(l, l.line) = " " THEN l.cur - l.line ELSE 0

\* What a folded line break contributes to a scalar.
NewLines(n) == SubSeq("\n\n\n\n\n\n\n\n", 1, n)
Fold(l) == IF Cardinality(Breaks(l)) = 1 THEN " " ELSE NewLines(Cardinality(Breaks(l)) - 1)

\* Three of c, and then a blank or the end of the line.
Separator(l, c) ==
    /\ \A i \in 0..2 : Peek(l, l.cur + i) = c
    /\ Peek(l, l.cur + 3) \in {" ", "\n"}

\* ENDSPC behind the character at the cursor.
EndSpace(l) == Peek(l, l.cur + 1) \in {" ", "\n"}

(***************************************************************************)
(* Sections: the scanner's labels.  Each begins with Mark, and so does each *)
(* of their rounds, except where the token goes on.                        *)
(***************************************************************************)
\* goto Header, goto Document; the header ends with the first thing the document
\* section sees.
ToHeader(l) == [Mark(l, 5) EXCEPT !.section = "header"]
ToDocument(l) ==
    LET f == Mark(l, 3)
    IN  [IF LexLevel(f).status = "header" THEN SetStatus(f, "doc") ELSE f
           EXCEPT !.section = "document"]

\* goto Directive, eat_comments, and the labels of the scalars, with the text so
\* far; a quoted one is between the quotes of l.section.
ToDirective(l) == [Need(l, 2) EXCEPT !.section = "directive"]
ToComment(l, after) == [Mark(l, 2) EXCEPT !.section = "comment", !.after = after]
ToPlain(l, text) == [Mark(l, 3) EXCEPT !.section = "plain", !.text = text]
ToQuote(l, text) == [Mark(l, IF l.section = "1quote" THEN 2 ELSE 4) EXCEPT !.text = text]
ToBlock(l, text) == [Mark(l, 5) EXCEPT !.section = "block", !.text = text]
ToTag(l, text) == [Need(l, 4) EXCEPT !.section = "tag", !.text = text]

Returns(l, token) == lx' = [l EXCEPT !.section = "done", !.out = token]

\* What is read next is lost: the model stops here.
Losing(l) == [l EXCEPT !.section = "lost"]

\* ENSURE_YAML_IEND(-1), then the end of the document.  Only bytecode has levels
\* that are open for a node not seen yet, of which the parser knows nothing.
Ends(l) ==
    IF LexLevel(l).spaces > -1
    THEN Returns(Back(PopLexLevel(IF LexLevel(l).status = "open" THEN Quirk(l, "cut") ELSE l)), Token("IEND"))
    ELSE Returns(Back(l), Token("END"))

In(section) == lx.section = section
Char == Here(lx)
Following == Peek(lx, lx.cur + 1)

\* The call: a forced token first, then where the last call left off.
ForcedToken ==
    /\ In("entry") /\ lx.force # "none"
    /\ Returns([lx EXCEPT !.force = "none"], Token(lx.force))
EnterLexer ==
    /\ In("entry") /\ lx.force = "none"
    /\ lx' = [IF lx.line # lx.cur THEN ToDocument(lx) ELSE ToHeader(lx) EXCEPT !.doc = 0]

(***************************************************************************)
(* Header, and the directives behind `---'.                                *)
(***************************************************************************)
HeaderBlank == {" ", "\t"}

WordChars == Chars("ABCDEFGHIJKLMNOPQRSTUVWXYZabcdefghijklmnopqrstuvwxyz_-") \cup Digits

HeaderSeparator ==
    /\ In("header") /\ Separator(lx, "-")
    /\ IF LexLevel(lx).status = "header" THEN lx' = ToDirective(Forward(lx, 3)) ELSE Ends(lx)
\* The end of the line, taken here, does not start a line.
HeaderPoints ==
    /\ In("header") /\ Separator(lx, ".")
    /\ IF LexLevel(lx).status = "header"
       THEN lx' = ToHeader(IF Peek(lx, lx.cur + 3) = "\n" THEN Forward(lx, 4)
                           ELSE Skip(Forward(lx, 3), {" "}))
       ELSE Ends(lx)
HeaderComment ==
    /\ In("header") /\ Char \in {"#", "%"}
    /\ lx' = ToComment(Forward(lx, 1), "header")
HeaderEnd == In("header") /\ Char = NUL /\ Ends(lx)
HeaderNewline ==
    /\ In("header") /\ Char = "\n"
    /\ LET f == Gobbled(lx) IN lx' = [ToHeader(f) EXCEPT !.doc = Indent(f)]
HeaderSpaces ==
    /\ In("header") /\ Char \in HeaderBlank
    /\ LET f == Skip(lx, HeaderBlank) IN lx' = [ToHeader(f) EXCEPT !.doc = f.cur - f.line]
HeaderOther ==
    /\ In("header") /\ Char \notin HeaderBlank \cup {NUL, "\n", "#", "%"}
    /\ ~Separator(lx, "-") /\ ~Separator(lx, ".")
    /\ lx' = ToDocument(lx)

\* Directives are passed over; one has a `:' inside.
DirectiveChars == (WordChars \ {"-"}) \cup Chars("./:;<=>?@[\\]^")
IsDirective(word) == \E i \in 2..Len(word) - 1 : At(word, i) = ":"
DirectiveEnd(l) == Over(Forward(l, 1), DirectiveChars, 2)
IsDirectiveAt(l) ==
    Here(l) = "%" /\ IsDirective(SubSeq(l.src, l.cur + 1, DirectiveEnd(l).cur - 1))

DirectiveSpaces ==
    /\ In("directive") /\ Char \in HeaderBlank
    /\ lx' = ToDirective(Skip(lx, HeaderBlank))
DirectiveWord ==
    /\ In("directive") /\ IsDirectiveAt(lx)
    /\ lx' = ToDirective(DirectiveEnd(lx))
DirectiveOther ==
    /\ In("directive") /\ Char \notin HeaderBlank /\ ~IsDirectiveAt(lx)
    /\ Returns(IF Char = "%" THEN [DirectiveEnd(lx) EXCEPT !.cur = lx.cur] ELSE lx, Token("DOCSEP"))

(***************************************************************************)
(* Document.                                                               *)
(***************************************************************************)
Hints == Digits \cup {"-", "+"}
IsBlock(l) ==
    Here(l) \in {"|", ">"} /\ Here(Skip(Forward(l, 1), Hints)) \in {" ", "\n"}
IsSeparator(l) ==
    \/ Here(l) \in {",", ":"} /\ EndSpace(l)
    \/ Here(l) = "," /\ InFlow(l)
IsEntry(l) == Here(l) \in {"-", "?"} /\ EndSpace(l)
IsName(l, c) == Here(l) = c /\ Peek(l, l.cur + 1) \in WordChars

\* The rules whose token belongs to the level of the column doc.
IsContent(l) ==
    /\ Here(l) \notin {NUL, "\n", " ", "\t", "]", "}", "!", "#"} /\ ~IsBlock(l)
    /\ ~IsSeparator(l) /\ ~IsEntry(l) /\ ~IsName(l, "&")
Content == In("document") /\ IsContent(lx) /\ LexLevel(lx).spaces >= lx.doc

\* ENSURE_YAML_IOPEN; inside a flow collection doc is 0 and never deeper.
DocumentOpen ==
    /\ In("document") /\ IsContent(lx) /\ LexLevel(lx).spaces < lx.doc
    /\ Returns(AddLexLevel(lx, lx.doc, "doc"), Token("IOPEN"))

DocumentEnd == In("document") /\ Char = NUL /\ Ends(lx)
(* Mutant of DocumentSpaces: a tab is matched and not passed over.         *)
DocumentSpaces_NoTabs ==
    /\ In("document") /\ Char \in HeaderBlank
    /\ lx' = ToDocument(Skip(lx, {" "}))
DocumentSpaces ==
    /\ In("document") /\ Char \in HeaderBlank
    /\ lx' = ToDocument(Skip(lx, HeaderBlank))

DocumentComment ==
    /\ In("document") /\ Char = "#"
    /\ lx' = ToComment(Forward(lx, 1), "document")

\* At the end of the text the token is the last newline, to come back to.
DocumentNewline ==
    /\ In("document") /\ Char = "\n"
    /\ LET f      == [Gobbled(lx) EXCEPT !.doc = 0]
           indent == Indent(f)
           l      == IF indent = -1 THEN [f EXCEPT !.token = f.cur - 1] ELSE f
       IN  IF InFlow(l) \/ Here(l) = "#" THEN lx' = ToDocument(l)
           ELSE IF LexLevel(l).spaces > indent
                THEN Returns(Back(PopLexLevel(l)), Token("IEND"))
           ELSE IF LexLevel(l).spaces < indent
                THEN Returns(AddLexLevel(l, indent, "doc"), Token("IOPEN"))
           ELSE IF indent = -1 THEN Returns(l, Token("END"))
           ELSE Returns(l, Token("INDENT"))

FlowOpen ==
    /\ Content /\ Char \in {"[", "{"}
    /\ Returns(AddLexLevel(Forward(lx, 1), LexLevel(lx).spaces + 1,
                           IF Char = "[" THEN "iseq" ELSE "imap"), Token(Char))
FlowClose ==
    /\ In("document") /\ Char \in {"]", "}"}
    /\ Returns(PopLexLevel(Forward(lx, 1)), Token(Char))

Separate ==
    /\ In("document") /\ IsSeparator(lx)
    /\ Returns(IF Char = ":" /\ ~InFlow(lx) THEN SetStatus(Forward(lx, 1), "map") ELSE Forward(lx, 1),
               Token(Char))

\* `- ' and `? ' open a level at their column and one behind them, the second
\* one announced by the next token.  Inside a flow collection a level that is too
\* shallow is not opened, and the dash is passed over.
IsBare(l) == Here(l) \in {"#", "\n"} \/ At(l.src, l.cur - 1) = "\n"
(* Mutant of EntryLevel: an entry with nothing behind gets its own column. *)
EntryLevel_SameColumn(l, column) ==
    IF IsBare(l) THEN AddLexLevel(Forward(l, -1), column, "seq")
    ELSE AddLexLevel(l, l.cur - l.line, "seq")
EntryLevel(l, column) ==
    IF IsBare(l) THEN AddLexLevel(Forward(l, -1), column + 1, "seq")
    ELSE AddLexLevel(l, l.cur - l.line, "seq")
Entry ==
    /\ In("document") /\ IsEntry(lx)
    /\ LET column == lx.token - lx.line
           past   == IF Following = " " THEN Skip(Forward(lx, 1), {" "}) ELSE Forward(lx, 2)
           opened == [EntryLevel(past, column) EXCEPT !.force = "IOPEN"]
       IN  IF LexLevel(lx).spaces < column
           THEN IF InFlow(lx) THEN lx' = ToDocument(past)
                ELSE Returns(AddLexLevel(lx, column, "doc"), Token("IOPEN"))
           ELSE Returns(IF LexLevel(lx).spaces > column THEN Quirk(opened, "left") ELSE opened, Token(Char))

Name(l) == SubSeq(l.src, l.token + 1, l.cur - 1)
(* Mutant of Anchor: the name is not passed over.                          *)
Anchor_Again ==
    /\ In("document") /\ IsName(lx, "&")
    /\ LET f == Skip(Forward(lx, 2), WordChars)
       IN  Returns(Back(f), [Token("ANCHOR") EXCEPT !.name = Name(f)])
Anchor ==
    /\ In("document") /\ IsName(lx, "&")
    /\ LET f == Skip(Forward(lx, 2), WordChars)
       IN  Returns(f, [Token("ANCHOR") EXCEPT !.name = Name(f)])
Alias ==
    /\ Content /\ IsName(lx, "*")
    /\ LET f == Skip(Forward(lx, 2), WordChars)
       IN  Returns(f, [Token("ALIAS") EXCEPT !.name = Name(f)])

(***************************************************************************)
(* Plain scalars.  From lx.token to the cursor lie blanks that are kept if *)
(* something follows; the scalar ends at lx.token, and inside a flow       *)
(* collection (PLAIN_IS_INL) without the blanks at the end of its text.    *)
(***************************************************************************)
\* GET_TRUE_YAML_INDENT
TrueIndent(l) ==
    LET deep == LexLevel(l)
    IN  IF deep.status = "seq" \/ (deep.spaces = l.cur - l.line /\ deep.status # "map")
        THEN l.levels[Len(l.levels) - 1].spaces
        ELSE deep.spaces

\* Three dashes or points alone at the start of a line.
AtBoundary(l) ==
    /\ l.cur = l.line
    /\ \E c \in {"-", "."} : \A i \in 0..2 : Peek(l, l.cur + i) = c
    /\ Peek(l, l.cur + 3) \in {NUL, " ", "\t", "\n"}

PlainScalar ==
    /\ Content /\ Char \notin {"[", "{", "'", "\""} /\ ~IsName(lx, "*")
    /\ lx' = ToPlain([lx EXCEPT !.indent = TrueIndent(lx)], "")

Ended(l) == Here(l) = NUL \/ (Here(l) = ":" /\ EndSpace(l))
FlowEnded(l) ==
    \/ Here(l) = "," /\ InFlow(l)
    \/ Here(l) = "}" /\ LexLevel(l).status = "imap"
    \/ Here(l) = "]" /\ LexLevel(l).status = "iseq"
Keeping(l, upTo) == ToPlain([l EXCEPT !.cur = upTo], l.text \o SubSeq(l.src, l.token, upTo - 1))

PlainEnd == In("plain") /\ Ended(lx) /\ Returns(Back(lx), Word(lx.text, "plain"))
PlainFlowEnd ==
    /\ In("plain") /\ FlowEnded(lx)
    /\ Returns(Back(lx), Word(TrimEnd(lx.text, {" ", "\t", "\n"}), "plain"))
PlainNewline ==
    /\ In("plain") /\ Char = "\n"
    /\ LET f == Gobbled(lx)
       IN  IF Indent(f) <= lx.indent \/ AtBoundary(f) THEN Returns(Back(f), Word(lx.text, "plain"))
           ELSE lx' = ToPlain(f, lx.text \o Fold(f))
PlainComment ==
    /\ In("plain") /\ Char = " " /\ Following = "#"
    /\ lx' = ToComment(Forward(lx, 2), "plain")
PlainBlank ==
    /\ In("plain") /\ Char \in {" ", "\t"} /\ ~(Char = " " /\ Following = "#")
    /\ lx' = IF lx.text = "" THEN ToPlain(Forward(lx, 1), "") ELSE Need(Forward(lx, 1), 3)
\* Of the blanks behind a comma all but the last are kept at once.
PlainComma ==
    /\ In("plain") /\ Char = "," /\ ~InFlow(lx) /\ Following = " "
    /\ LET f == Skip(Forward(lx, 1), {" "}) IN lx' = Keeping(f, f.cur - 1)
PlainOther ==
    /\ In("plain") /\ Char \notin {"\n", " ", "\t"} /\ ~Ended(lx) /\ ~FlowEnded(lx)
    /\ ~(Char = "," /\ Following = " ")
    /\ lx' = Keeping(lx, lx.cur + 1)

(***************************************************************************)
(* Quoted scalars.  The first line break inside one opens a level of its   *)
(* own, which its end closes.                                              *)
(***************************************************************************)
InQuote == lx.section \in {"1quote", "2quote"}
IsQuoteEnd(l) ==
    IF l.section = "1quote" THEN Here(l) = "'" /\ Peek(l, l.cur + 1) # "'" ELSE Here(l) = "\""

(* Mutant of Continued: every line break opens a level.                    *)
Continued_EveryLine(l) == LET f == Gobbled(l) IN AddLexLevel(f, Indent(f), "str")
Continued(l) ==
    LET f == Gobbled(l)
    IN  IF LexLevel(f).status = "str" THEN f ELSE AddLexLevel(f, Indent(f), "str")

Quoted ==
    /\ Content /\ Char \in {"'", "\""}
    /\ lx' = ToQuote([Forward(lx, 1) EXCEPT !.section = IF Char = "'" THEN "1quote" ELSE "2quote"], "")

(* Mutant of QuoteEnd: the level of the later lines stays.                 *)
QuoteEnd_LevelLeft ==
    /\ InQuote /\ IsQuoteEnd(lx)
    /\ Returns(Forward(lx, 1), Word(lx.text, lx.section))
QuoteEnd ==
    /\ InQuote /\ IsQuoteEnd(lx)
    /\ Returns(Forward(IF LexLevel(lx).status = "str" THEN PopLexLevel(lx) ELSE lx, 1),
               Word(lx.text, lx.section))
QuoteLost == InQuote /\ Char = NUL /\ lx' = Losing(lx)
QuoteNewline ==
    /\ InQuote /\ Char = "\n"
    /\ LET f == Continued(lx) IN lx' = ToQuote(f, lx.text \o Fold(f))
QuoteDoubled ==
    /\ In("1quote") /\ Char = "'" /\ Following = "'"
    /\ lx' = ToQuote(Forward(lx, 2), lx.text \o "'")

\* The rules ask for four characters; the one for `\u' looks at six.
IsHexChar(c) == c \in Digits \cup {"a", "b", "c", "d", "e", "f", "A", "B", "C", "D", "E", "F"}
IsHexEscape(l, letter, n) ==
    /\ Here(l) = "\\" /\ Peek(l, l.cur + 1) = letter
    /\ \A i \in 2..n + 1 : IsHexChar(Peek(l, l.cur + i))
HexText(l, n) == Coded(SubSeq(l.src, l.cur + 2, l.cur + n + 1))

\* Two `\u' escapes that are the halves of a UTF-16 pair are one character.
IsHalf(l, digits) ==
    /\ IsHexEscape(l, "u", 4)
    /\ Peek(l, l.cur + 2) \in {"d", "D"} /\ Peek(l, l.cur + 3) \in digits
IsPair(l) ==
    /\ IsHalf(l, {"8", "9", "a", "b", "A", "B"})
    /\ IsHalf(Forward(l, 6), {"c", "d", "e", "f", "C", "D", "E", "F"})
IsLetter(l, letters) == Here(l) = "\\" /\ Peek(l, l.cur + 1) \in letters
QuoteLetters == {"\"", "\\", "/", "f", "n", "r", "t"}
EscapedBlanks(l) == Over(Forward(l, 1), {" "}, 2)
IsBreak(l) == IsLetter(l, {" ", "\n"}) /\ Here(EscapedBlanks(l)) = "\n"
IsBlankEscape(l) ==
    \/ IsLetter(l, {"x"}) /\ ~IsHexEscape(l, "x", 2)
    \/ IsLetter(l, {" "}) /\ ~IsBreak(l)

QuoteLetter ==
    /\ In("2quote") /\ IsLetter(lx, QuoteLetters)
    /\ lx' = ToQuote(Forward(lx, 2), lx.text \o Unescape(Following))
QuoteByte ==
    /\ In("2quote") /\ IsHexEscape(lx, "x", 2)
    /\ lx' = ToQuote(Forward(lx, 4), lx.text \o HexText(lx, 2))
QuoteCode ==
    /\ In("2quote") /\ IsHexEscape(lx, "u", 4)
    /\ lx' = ToQuote(Forward(lx, IF IsPair(lx) THEN 12 ELSE 6), lx.text \o HexText(lx, 4))
QuoteBreak ==
    /\ In("2quote") /\ IsBreak(lx)
    /\ lx' = ToQuote(Continued(Mark(EscapedBlanks(lx), 4)), lx.text)
QuoteBlank ==
    /\ In("2quote") /\ IsBlankEscape(lx)
    /\ lx' = ToQuote(Forward(lx, 2), lx.text \o " ")
QuoteOther ==
    /\ InQuote /\ Char \notin {NUL, "\n"} /\ ~IsQuoteEnd(lx)
    /\ In("1quote") => Char # "'"
    /\ In("2quote") => /\ ~IsLetter(lx, QuoteLetters) /\ ~IsBreak(lx) /\ ~IsBlankEscape(lx)
                       /\ ~IsHexEscape(lx, "x", 2) /\ ~IsHexEscape(lx, "u", 4)
    /\ lx' = ToQuote(Forward(lx, 1), lx.text \o Char)

(***************************************************************************)
(* Block scalars.  The first line sets the level: by its indentation, or   *)
(* by the last digit behind the indicator.                                 *)
(***************************************************************************)
Latest(l, from, chars) ==
    LET places == {i \in from..l.cur : At(l.src, i) \in chars}
    IN  IF places = {} THEN NUL ELSE At(l.src, Max(places))

\* The indicators are read up to the character at the cursor.
BlockScalar ==
    /\ In("document") /\ IsBlock(lx)
    /\ LET f == Skip(Skip(Forward(lx, 1), Hints), {" "})
       IN  lx' = ToBlock([f EXCEPT !.block = [fold |-> Char = ">", keep |-> Latest(f, lx.cur + 1, {"-", "+"}),
                                              force |-> Latest(f, lx.cur + 1, Digits), last |-> 0]], "")

\* RETURN_YAML_BLOCK
BlockReturns(l, text) ==
    LET stripped == TrimEnd(text, {"\n"})
        chomped  == IF l.block.keep = "+" THEN text
                    ELSE IF l.block.keep = "-" \/ stripped = text THEN stripped
                    ELSE stripped \o "\n"
    IN  Returns(l, [NoToken EXCEPT !.type = "BLOCK", !.text = chomped,
                                   !.style = IF l.block.fold THEN "fold" ELSE "literal"])

Inside(l) == LexLevel(l).status = "block"
Forced(l, parent) == {n \in 1..9 : ToString(n) = l.block.force /\ parent + n > 0}
BlockSpaces(l) ==
    LET forced == Forced(l, TrueIndent(l))
    IN  IF forced = {} THEN Indent(l) ELSE TrueIndent(l) + CHOOSE n \in forced : TRUE

\* Behind the line breaks: on, or back from a line that is not of the block.
BlockLine(l, spaces, text) ==
    IF Indent(l) < spaces THEN BlockReturns(Back(PopLexLevel(l)), text)
    ELSE lx' = ToBlock([l EXCEPT !.cur = @ - (Indent(l) - spaces), !.block.last = Indent(l) - spaces], text)
BlockFirst ==
    /\ In("block") /\ Char = "\n" /\ ~Inside(lx)
    /\ LET f == Gobbled(lx)
       IN  IF Indent(f) <= TrueIndent(f) THEN BlockReturns(Back(f), lx.text)
           ELSE BlockLine(AddLexLevel(f, BlockSpaces(f), "block"), BlockSpaces(f),
                          lx.text \o NewLines(Cardinality(Breaks(f)) - 1))
\* Two lines at the block's level are folded.
BlockNewline ==
    /\ In("block") /\ Char = "\n" /\ Inside(lx)
    /\ LET f      == Gobbled(lx)
           spaces == LexLevel(lx).spaces
           fold   == lx.block.fold /\ lx.block.last = 0 /\ Indent(f) = spaces
       IN  BlockLine(f, spaces, lx.text \o IF fold THEN Fold(f) ELSE NewLines(Cardinality(Breaks(f))))
BlockComment ==
    /\ In("block") /\ Char = "#" /\ ~Inside(lx)
    /\ lx' = ToComment(Forward(lx, 1), "block")
BlockSeparator ==
    /\ In("block") /\ Separator(lx, "-") /\ lx.cur = lx.line
    /\ LET text == IF lx.block.fold /\ lx.text # "" THEN SubSeq(lx.text, 1, Len(lx.text) - 1) ELSE lx.text
       IN  BlockReturns(PopLexLevel(lx), text \o "\n")
\* The end of the text closes a level, the block's or not.
BlockEnd ==
    /\ In("block") /\ Char = NUL
    /\ BlockReturns(PopLexLevel(IF Inside(lx) THEN lx ELSE Quirk(lx, "cut")), lx.text)
BlockOther ==
    /\ In("block") /\ Char \notin {NUL, "\n"} /\ ~(Char = "#" /\ ~Inside(lx))
    /\ ~(Separator(lx, "-") /\ lx.cur = lx.line)
    /\ lx' = ToBlock(Forward(lx, 1), lx.text \o Char)

(***************************************************************************)
(* Tags (TransferMethod): up to blanks, which are looked past, or the end  *)
(* of the line.  `!' alone is the implicit type.                           *)
(***************************************************************************)
Transfer ==
    /\ In("document") /\ Char = "!"
    /\ lx' = ToTag(Forward(lx, 1), "")

\* What is before a `^' becomes the level's domain, and a `^' at the start of
\* a name stands for that.
Spelt(l, name) == [l EXCEPT !.out.name = name]
Caret(name) == {i \in 2..Len(name) : At(name, i) = "^" /\ \A j \in 2..i - 1 : At(name, j) # "^"}
Prefixed(l, name) ==
    LET domain == IF At(name, 1) = "^" THEN LexLevel(l).domain
                  ELSE SubSeq(name, 1, (CHOOSE i \in Caret(name) : TRUE) - 1)
        rest   == IF At(name, 1) = "^" THEN From(name, 2)
                  ELSE From(name, (CHOOSE i \in Caret(name) : TRUE) + 1)
    IN  IF At(name, 1) # "^" /\ Caret(name) = {} THEN Spelt(l, name)
        ELSE Spelt([l EXCEPT !.levels[Len(l.levels)].domain = domain], domain \o rest)

TagEnd ==
    /\ In("tag") /\ Char \in {NUL, "\n", " "}
    /\ LET f == IF Char = " " THEN [Skip(Forward(lx, 1), {" "}) EXCEPT !.cur = lx.cur] ELSE lx
           g == Prefixed(f, lx.text)
       IN  IF lx.cur = lx.token + 1 THEN Returns(f, Token("ITRANSFER"))
           ELSE Returns(g, [Token("TRANSFER") EXCEPT !.name = g.out.name])
TagLetters == {"\"", "\\", "f", "n", "r", "t"}
TagLetter ==
    /\ In("tag") /\ IsLetter(lx, TagLetters)
    /\ lx' = ToTag(Forward(lx, 2), lx.text \o Unescape(Following))
TagByte ==
    /\ In("tag") /\ IsHexEscape(lx, "x", 2)
    /\ lx' = ToTag(Forward(lx, 4), lx.text \o HexText(lx, 2))
TagOther ==
    /\ In("tag") /\ Char \notin {NUL, "\n", " "}
    /\ ~IsLetter(lx, TagLetters) /\ ~IsHexEscape(lx, "x", 2)
    /\ lx' = ToTag(Forward(lx, 1), lx.text \o Char)

(***************************************************************************)
(* Comments (eat_comments): on to the end of the line, and back to where   *)
(* they were met.                                                          *)
(***************************************************************************)
CommentChar ==
    /\ In("comment") /\ Char \notin {NUL, "\n"}
    /\ lx' = ToComment(Forward(lx, 1), lx.after)
CommentEnd ==
    /\ In("comment") /\ Char \in {NUL, "\n"}
    /\ \/ lx.after = "header"   /\ lx' = ToHeader(lx)
       \/ lx.after = "document" /\ lx' = ToDocument(lx)
       \/ lx.after = "block"    /\ lx' = ToBlock(lx, lx.text)
       \/ lx.after = "plain"    /\ Returns(lx, Word(lx.text, "plain"))

HeaderNext ==
    \/ HeaderSeparator \/ HeaderPoints \/ HeaderComment \/ HeaderEnd \/ HeaderNewline
    \/ HeaderSpaces \/ HeaderOther \/ DirectiveSpaces \/ DirectiveWord \/ DirectiveOther
DocumentNext ==
    \/ DocumentOpen \/ DocumentEnd \/ DocumentSpaces \/ DocumentComment \/ DocumentNewline
    \/ FlowOpen \/ FlowClose \/ Separate \/ Entry \/ Anchor \/ Alias
    \/ PlainScalar \/ Quoted \/ BlockScalar \/ Transfer
PlainNext ==
    \/ PlainEnd \/ PlainFlowEnd \/ PlainNewline \/ PlainComment \/ PlainBlank
    \/ PlainComma \/ PlainOther
QuoteNext ==
    \/ QuoteEnd \/ QuoteLost \/ QuoteNewline \/ QuoteDoubled \/ QuoteLetter
    \/ QuoteByte \/ QuoteCode \/ QuoteBreak \/ QuoteBlank \/ QuoteOther
BlockNext ==
    \/ BlockFirst \/ BlockNewline \/ BlockComment \/ BlockSeparator \/ BlockEnd \/ BlockOther
TagNext == TagEnd \/ TagLetter \/ TagByte \/ TagOther
CommentNext == CommentChar \/ CommentEnd
LexNext ==
    \/ ForcedToken
    \/ EnterLexer
    \/ HeaderNext
    \/ DocumentNext
    \/ PlainNext
    \/ QuoteNext
    \/ BlockNext
    \/ TagNext
    \/ CommentNext
=============================================================================
