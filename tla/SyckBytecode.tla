---------------------------- MODULE SyckBytecode ----------------------------
(***************************************************************************)
(* The tokenizer of libsyck's other input, YAML bytecode (bytecode.c): a   *)
(* line is a letter and its text.  S is a scalar, which lines C, N and Z   *)
(* continue; A an anchor, R an alias, T a tag; M and Q begin a map and a   *)
(* sequence that E ends; D begins and P ends a document, V is a directive  *)
(* and c a comment.  The parser is told of levels as in SyckLexer, but a   *)
(* level's items are counted to know what comes next.                      *)
(*                                                                         *)
(* The scanner keeps a pointer of its own to where a character begins,     *)
(* which YYFILL does not move with the text.  If the buffer moves while    *)
(* that pointer is needed, what is read is lost: the model stops there.    *)
(* So it does in a comment that the text ends inside.  Not here: carriage  *)
(* returns, lines of no meaning that no newline ends, which the scanner    *)
(* reads past, and counts of newlines with an exponent, which strtod reads *)
(* and the scanner not.                                                    *)
(***************************************************************************)
EXTENDS SyckLexer

IsLine(l, letter) == Here(l) = letter /\ Peek(l, l.cur + 1) = "\n"
Deeper(l, status) == AddLexLevel(l, LexLevel(l).spaces + 1, status)
Counted(l) == [l EXCEPT !.levels[Len(l.levels)].ncount = @ + 1]
Odd(l) == LexLevel(l).ncount % 2 = 1

\* ADD_BYTE_LEVEL, but for what an entry of a sequence needs first.
OpenByte(l, status) ==
    CASE LexLevel(l).status = "map"  -> Deeper(Counted(l), status)
      [] LexLevel(l).status = "open" -> SetStatus(l, status)
      [] OTHER                       -> Deeper(l, status)

\* The buffer moved between l and f, while the pointer stood at l.
Lost(l, f) == f.base # l.base
Yields(f, token) == IF f.section = "lost" THEN lx' = f ELSE Returns(f, token)

\* get_inline: the rest of the line, and its end.
RECURSIVE Inline(_, _)
Inline(l, text) ==
    LET f == Need(l, 2)
    IN  IF Here(f) = "\n" THEN Spelt(Forward(f, 1), text)
        ELSE IF Lost(l, f) THEN Losing(f)
        ELSE IF Here(f) = NUL THEN Spelt(f, text)
        ELSE Inline(Forward(f, 1), text \o Here(f))

\* A scalar up to a newline that nothing continues.
RECURSIVE ByteText(_, _)
ByteText(l, text) ==
    LET f == Need(l, 3)
        c == Here(f)
        d == Peek(f, f.cur + 1)
        g == Skip(Forward(f, 2), Digits)
        count == SubSeq(f.src, f.cur + 2, g.cur - 1)
    IN  CASE c = "\n" /\ d = "C" -> ByteText(Forward(f, 2), text)
          [] c = "\n" /\ d = "Z" -> ByteText(Forward(f, 2), text \o Zero)
          [] c = "\n" /\ d = "N" /\ ~Lost(l, g) ->
               ByteText(g, text \o NewLines(IF count = "" THEN 1
                                            ELSE CHOOSE n \in 0..8 : ToString(n) = count))
          [] c \in {NUL, "\n"} /\ d \notin {"C", "N", "Z"} /\ ~Lost(l, f) -> Spelt(f, text)
          [] c \notin {NUL, "\n"} /\ ~Lost(l, f) -> ByteText(Forward(f, 1), text \o c)
          [] OTHER -> Losing(f)

\* Directive lines, and then what is behind them.
VersionEnd(l) == Over(Forward(l, 1), DirectiveChars, 2)
IsVersion(l, f) == Here(l) = "V" /\ Here(f) = "\n" /\ IsDirective(SubSeq(l.src, l.cur + 1, f.cur - 1))
RECURSIVE Versions(_)
Versions(l0) ==
    LET l == Mark(l0, 2)
        f == VersionEnd(l)
    IN  IF Here(l) # "V" THEN l ELSE IF IsVersion(l, f) THEN Versions(Forward(f, 1)) ELSE Back(f)

(***************************************************************************)
(* The rules.                                                              *)
(***************************************************************************)
ByteEnter ==
    /\ In("entry") /\ lx.force = "none"
    /\ lx' = IF LexLevel(lx).status = "doc" THEN ToDocument(lx)
             ELSE [Mark(lx, 3) EXCEPT !.section = "header"]

ByteHeader ==
    /\ In("header")
    /\ IF ~IsLine(lx, "D") THEN lx' = ToDocument(lx)
       ELSE IF LexLevel(lx).status = "header" THEN Returns(Versions(Forward(lx, 2)), Token("DOCSEP"))
       ELSE Ends(lx)

\* What begins a node; in a sequence an entry is announced first.
IsNode(l) == Here(l) \in {"S", "A", "R", "T"} \/ IsLine(l, "M") \/ IsLine(l, "Q")
ByteEntry ==
    /\ In("document") /\ IsNode(lx) /\ LexLevel(lx).status = "seq"
    /\ Returns(Deeper(Counted(lx), "open"), Token("-"))
Begins(letter) == In("document") /\ Char = letter /\ LexLevel(lx).status # "seq"

ByteScalar ==
    /\ Begins("S")
    /\ LET f == ByteText(Forward(OpenByte(lx, "str"), 1), "")
       IN  Yields(PopLexLevel(f), [Token("PLAIN") EXCEPT !.text = f.out.name, !.style = "none"])

ByteAnchor ==
    /\ Begins("A")
    /\ LET f == Inline(Forward(OpenByte(lx, "open"), 1), "")
       IN  Yields(f, [Token("ANCHOR") EXCEPT !.name = f.out.name])

\* The line's end is left for the next token.
ByteAlias ==
    /\ Begins("R")
    /\ LET f == PopLexLevel(Inline(Forward(OpenByte(lx, "str"), 1), ""))
       IN  Yields(IF Peek(f, f.cur - 1) = "\n" THEN Forward(f, -1) ELSE f,
                  [Token("ALIAS") EXCEPT !.name = f.out.name])

ByteTag ==
    /\ Begins("T")
    /\ LET f    == Inline(Forward(OpenByte(lx, "open"), 1), "")
           name == f.out.name
           g    == Prefixed(f, From(name, 2))
       IN  IF At(name, 1) # "!" THEN Yields(f, [Token("TAGURI") EXCEPT !.name = name])
           ELSE IF name = "!" THEN Yields(f, Token("ITRANSFER"))
           ELSE Yields(g, [Token("TRANSFER") EXCEPT !.name = g.out.name])

\* A collection where a key belongs is announced with `?'.
ByteCollection ==
    \E letter \in {"M", "Q"} :
      /\ Begins(letter) /\ IsLine(lx, letter)
      /\ LET f == Forward(OpenByte(lx, IF letter = "M" THEN "map" ELSE "seq"), 2)
         IN  IF LexLevel(lx).status = "map" /\ ~Odd(lx)
             THEN Returns([f EXCEPT !.force = "IOPEN"], Token("?"))
             ELSE Returns(f, Token("IOPEN"))

\* What follows an item: the next one, or a key's value.
Between(l) == IF LexLevel(l).status = "map" /\ Odd(l) THEN ":" ELSE "INDENT"
ByteNewline ==
    /\ In("document") /\ Char = "\n"
    /\ IF LexLevel(lx).status \in {"seq", "map"} THEN Returns(Forward(lx, 1), Token(Between(lx)))
       ELSE lx' = ToDocument(Forward(lx, 1))

\* A collection without items is written as a flow collection first.
ByteEnd ==
    /\ In("document") /\ IsLine(lx, "E")
    /\ LET popped == Forward(PopLexLevel(lx), 2)
           status == LexLevel(lx).status
       IN  IF status \in {"seq", "map"} /\ LexLevel(lx).ncount = 0
           THEN Returns([Counted(lx) EXCEPT !.force = IF status = "seq" THEN "]" ELSE "}"],
                        Token(IF status = "seq" THEN "[" ELSE "{"))
           ELSE Returns([popped EXCEPT !.force = IF LexLevel(popped).status \in {"seq", "map"}
                                                 THEN Between(popped) ELSE "none"],
                        Token("IEND"))

ByteComment ==
    /\ In("document") /\ Char = "c"
    /\ lx' = ToComment(Forward(lx, 1), "bytecode")
ByteCommentEnd ==
    /\ In("comment") /\ Char \in {NUL, "\n"}
    /\ lx' = IF Char = NUL THEN Losing(lx) ELSE ToDocument(Forward(lx, 1))

\* D, P, the end of the text, and lines of no meaning.
ByteStop ==
    /\ In("document")
    /\ ~IsNode(lx) /\ ~IsLine(lx, "E") /\ Char \notin {"\n", "c"}
    /\ Ends(lx)

ByteNext ==
    \/ ForcedToken
    \/ ByteEnter
    \/ ByteHeader
    \/ ByteEntry
    \/ ByteScalar
    \/ ByteAnchor
    \/ ByteAlias
    \/ ByteTag
    \/ ByteCollection
    \/ ByteNewline
    \/ ByteEnd
    \/ ByteComment
    \/ CommentChar
    \/ ByteCommentEnd
    \/ ByteStop
=============================================================================
