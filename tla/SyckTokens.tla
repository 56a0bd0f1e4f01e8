----------------------------- MODULE SyckTokens -----------------------------
(***************************************************************************)
(* The tokenizer and its caller: yyparse takes one token after the other.  *)
(* Of the grammar only this is kept, that what a token closes was opened   *)
(* by one before it: any other is a syntax error, and the parse ends.      *)
(***************************************************************************)
EXTENDS SyckLexer

CONSTANT Texts       \* the inputs
ASSUME TextsAssumption == \A text \in Texts : Len(text) \in Nat

VARIABLES open,      \* history: the tokens that open a level, less those that close one
          idle       \* history: the last step of a call read nothing and led nowhere
tokVars == <<lx, open, idle>>

Closers == {"IEND", "]", "}"}
Change(type) == IF type \in {"IOPEN", "[", "{"} THEN 1 ELSE IF type \in Closers THEN -1 ELSE 0

Take ==
    /\ In("done") /\ lx.out.type # "END"
    /\ lx.out.type \in Closers => open > 0
    /\ open' = open + Change(lx.out.type)
    /\ lx' = [lx EXCEPT !.section = "entry"]

\* Each step of a rule moves the cursor on, or leads to a later label at the
\* same place.  Only the return of a token may take the cursor back.
Rank(section) ==
    CASE section = "entry"    -> 0
      [] section = "comment"  -> 1
      [] section = "header"   -> 2
      [] section = "document" -> 3
      [] OTHER                -> 4
Reads ==
    lx'.section \notin {"entry", "done", "lost"} =>
      lx'.cur > lx.cur \/ (lx'.cur = lx.cur /\ Rank(lx'.section) > Rank(lx.section))

TokInit == open = 0 /\ idle = FALSE /\ \E text \in Texts : lx = NewLexer(text)
TokNext ==
    \/ LexNext /\ idle' = ~Reads /\ UNCHANGED open
    \/ Take /\ UNCHANGED idle
TokSpec == TokInit /\ [][TokNext]_tokVars

(***************************************************************************)
(* Properties.                                                             *)
(***************************************************************************)
\* The cursor stays inside what the buffer holds, or on the terminator behind
\* it, wherever a refill falls and whatever a rule looks ahead to; and the
\* buffer holds no more than its size, the text from lx.base on (YYFILL,
\* syck_.c:424, token.c:165).
CursorInBuffer ==
    /\ lx.base <= lx.token /\ lx.token <= lx.cur /\ lx.cur <= lx.limit + 1
    /\ lx.limit = Least(Len(lx.src), lx.base + Window - 1)

\* The tokenizer's levels deepen from the outermost in: a token that closes a
\* level by indentation closes those above it and no other (syck_.c:381).  The
\* level of a quoted scalar's later lines and that of a block scalar are apart;
\* and so is a text with a dash left of the level it is in.
LevelsDeepen ==
    "left" \notin lx.quirks =>
      \A i \in 2..Len(lx.levels) :
        lx.levels[i].status \notin {"str", "block"} => lx.levels[i].spaces > lx.levels[i - 1].spaces

\* The levels are those the tokens say: what the parser has been told is open
\* is on the stack, nothing else, but for the level whose token is forced.
\* The level of a quoted or a block scalar is closed with the scalar, or the
\* indentation of everything behind it is read against the wrong one.  The
\* bytecode scanner also has levels for nodes that have only begun.  Apart are
\* the texts that end where one of those is open, or in the first line of a
\* block scalar (token.c:2712): the tokenizer then closes a level too many.
LevelsMatchTokens ==
    In("entry") /\ "cut" \notin lx.quirks =>
      Cardinality({i \in 2..Len(lx.levels) : lx.levels[i].status \notin {"open", "str", "block"}})
        = open + Change(lx.force)

\* A call of the tokenizer never goes round without reading: a rule that goes back
\* to its label has passed a character, or the call would not return (token.c:564,
\* token.c:841).
CallsAdvance == ~idle
=============================================================================
