---------------------------- MODULE SyckEmitter ----------------------------
(***************************************************************************)
(* A dump as text: the emitter's level stack, layout and output buffer     *)
(* (emitter.c), driven by the binding's handler (perl_syck.h).             *)
(*                                                                         *)
(* A value is a record [kind, text, tag, anchor, items].  Kind "str",      *)
(* "int" and "undef" are scalars; "seq", "map" and "code" stand for a      *)
(* reference to an array, a hash (its items alternate key and value) or a  *)
(* subroutine (its text is what B::Deparse says), "ref" for a reference to *)
(* a scalar.  The anchor is the name the mark phase gave what is referred  *)
(* to, "" for none (the mark phase itself: SyckDump).  A mode is the       *)
(* binding's settings.                                                     *)
(*                                                                         *)
(* The nested calls of the handler are an agenda of what is left to do,    *)
(* first thing first.  Keys the grammar would need `? ' for, and the       *)
(* shortcuts that put a collection on its parent's line, are not here: the *)
(* binding passes tag names that set anctag and puts a reference's own     *)
(* level between two collections, so that code is never taken.             *)
(***************************************************************************)
EXTENDS SyckScalar, Integers, SequencesExt

CONSTANTS BufSize,   \* the emitter's bufsize (16384 in the code)
          BestWidth  \* best_width: where folded lines break (80 in the code)
ASSUME BufSizeAssumption == BufSize \in Nat \ {0}
ASSUME BestWidthAssumption == BestWidth \in Nat

VARIABLES em,        \* the emitter: settings, levels, indent, output, anchored
          agenda     \* the calls still to make
emitterVars == <<em, agenda>>

Root == [spaces |-> -1, ncount |-> 0, status |-> "header"]
IndentLevel(mode) == IF mode.json THEN 0 ELSE 2

\* em.typed is history: the output of an emitter whose buffer never fills.
NewEmitter(mode) ==
    [mode |-> mode, levels |-> <<Root>>, indent |-> IndentLevel(mode), anchored |-> {},
     sent |-> "", buf |-> "", typed |-> ""]

Level(e) == Last(e.levels)
Parent(e) == e.levels[Len(e.levels) - 1]
ToLevel(e, level) == [e EXCEPT !.levels[Len(e.levels)] = level]

(***************************************************************************)
(* The output buffer.                                                      *)
(***************************************************************************)
Flush(e) == [e EXCEPT !.sent = @ \o e.buf, !.buf = ""]

RECURSIVE Fill(_, _)
Fill(e, s) ==
    IF Len(s) <= BufSize THEN [e EXCEPT !.buf = s]
    ELSE Fill(Flush([e EXCEPT !.buf = SubSeq(s, 1, BufSize)]), From(s, BufSize + 1))

(* Mutant of Write: what the buffer holds is not flushed for a long text.  *)
Write_NoFlush(e, s) ==
    LET typing == [e EXCEPT !.typed = @ \o s]
    IN  IF Len(s) + Len(e.buf) >= BufSize THEN Fill(typing, s)
        ELSE [typing EXCEPT !.buf = @ \o s]
(* Mutant of Write: what the buffer holds already is not counted.          *)
Write_HeldNotCounted(e, s) ==
    LET typing == [e EXCEPT !.typed = @ \o s]
    IN  IF Len(s) >= BufSize THEN Fill(Flush(typing), s)
        ELSE [typing EXCEPT !.buf = @ \o s]
Write(e, s) ==
    LET typing == [e EXCEPT !.typed = @ \o s]
    IN  IF Len(s) + Len(e.buf) >= BufSize THEN Fill(Flush(typing), s)
        ELSE [typing EXCEPT !.buf = @ \o s]
WriteAll(e, pieces) == FoldLeft(Write, e, pieces)

\* Blanks are trimmed from what the buffer still holds.
(* Mutant of EmitIndent: nothing is trimmed.                               *)
EmitIndent_Untrimmed(e) ==
    IF e.sent = "" /\ e.buf = "" THEN e ELSE Write(e, "\n" \o Blanks(Level(e).spaces))
EmitIndent(e) ==
    IF e.sent = "" /\ e.buf = "" THEN e
    ELSE Write([e EXCEPT !.buf = TrimEnd(@, {" "}), !.typed = TrimEnd(@, {" "})],
               "\n" \o Blanks(Level(e).spaces))

(***************************************************************************)
(* syck_emit: a level for the node and, if it is shared, its anchor.       *)
(***************************************************************************)
Header(e) == IF Len(e.levels) = 1 /\ ~e.mode.headless THEN Write(e, "--- ") ELSE e

AddLevel(e) ==
    LET spaces == IF Level(e).spaces >= 0 THEN Level(e).spaces + e.indent ELSE 0
    IN  [e EXCEPT !.levels = Append(@, [spaces |-> spaces, ncount |-> 0, status |-> "open"])]

IsAlias(e, node) == node.anchor # "" /\ ~e.mode.json /\ node.anchor \in e.anchored

Anchored(e, node) ==
    IF node.anchor = "" \/ e.mode.json THEN e
    ELSE [Write(e, "&" \o node.anchor \o " ") EXCEPT !.anchored = @ \cup {node.anchor}]

\* syck_emit_tag: the URI's short form, for the tokenizer to expand.
TagPieces(tag) ==
    LET uri       == From(tag, 5)
        authority == Before(uri, ":")
        under     == Len(authority) > Len(Domain) + 1
                       /\ StartsAt(authority, Len(authority) - Len(Domain) + 1, Domain)
        owner     == IF under THEN SubSeq(authority, 1, Len(authority) - Len(Domain) - 1) ELSE authority
    IN  CASE StartsAt(tag, 1, "tag:" \o Domain) -> <<"!", From(uri, Len(Domain) + 2), " ">>
          [] StartsAt(tag, 1, "tag:") /\ ~StartsAt(tag, 5, Domain) ->
               IF Occurs(":", uri) THEN <<"!", owner, "/", Behind(uri, ":"), " ">> ELSE <<"!">>
          [] StartsAt(tag, 1, "x-private:") -> <<"!!", From(tag, 11), " ">>
          [] OTHER -> <<>>
EmitTag(e, node) == IF e.mode.json THEN e ELSE WriteAll(e, TagPieces(node.tag))

\* syck_emit_seq and syck_emit_map
EmitOpen(e, node) ==
    LET tagged == EmitTag(e, node)
        inline == e.mode.json
        Opened(out, status) == ToLevel(out, [Level(out) EXCEPT !.status = status])
    IN  IF node.kind = "seq"
        THEN IF inline THEN Opened(Write(tagged, "["), "iseq") ELSE Opened(tagged, "seq")
        ELSE IF inline THEN Opened(Write(tagged, "{"), "imap") ELSE Opened(tagged, "map")

\* The separator syck_emit_item writes before the next item, and its count.
ItemMark(e) ==
    LET level == Level(e)
        marked ==
            CASE level.status = "seq"                           -> Write(EmitIndent(e), "- ")
              [] level.status = "map" /\ level.ncount % 2 = 0   -> EmitIndent(e)
              [] level.status = "map" /\ level.ncount % 2 = 1   -> Write(e, ": ")
              [] level.status = "imap" /\ level.ncount % 2 = 1  -> Write(e, ": ")
              [] level.status = "imap" /\ level.ncount % 2 = 0 /\ level.ncount > 0
                                                                -> Write(e, ", ")
              [] level.status = "iseq" /\ level.ncount > 0      -> Write(e, ", ")
              [] OTHER                                          -> e
    IN  ToLevel(marked, [level EXCEPT !.ncount = @ + 1])

\* The style the handler asks syck_emit_scalar for.
Asked(mode, node) ==
    LET string == IF mode.json THEN IF mode.single THEN "2quote_1" ELSE "2quote"
                  ELSE IF mode.single THEN "1quote" ELSE "none"
    IN  CASE node.kind = "undef" -> "plain"
          [] node.kind = "int"   -> "none"
          [] node.kind = "code"  -> "fold"
          [] OTHER -> IF ~mode.json /\ (node.text = "" \/ LooksLikeNumber(node.text)) THEN "1quote"
                      ELSE string
ScalarText(mode, node) ==
    IF node.kind = "undef" THEN IF mode.json THEN "null" ELSE "~" ELSE node.text

\* syck_emit_folded: lines are broken where they are too long, and a line break
\* that the reader would fold is written twice.  The text is read up to mark,
\* its line begins at start, and it is written up to end.
RECURSIVE Folding(_, _, _, _, _)
Folding(e, s, mark, start, end) ==
    LET written == Write(e, SubSeq(s, end, mark - 1))
        edge    == {" ", "\n"}
        doubled == At(s, start) \notin edge /\ At(s, mark + 1) \notin edge
        broken  == IF doubled THEN Write(written, "\n") ELSE written
    IN  IF mark > Len(s) THEN IF end < mark THEN written ELSE e
        ELSE IF At(s, mark) = "\n" /\ mark < Len(s)
             THEN Folding(EmitIndent(broken), s, mark + 1, mark + 1, mark + 1)
        ELSE IF At(s, mark) = "\n"
             THEN IF StartsAt(s, mark - 1, "\n") THEN broken ELSE Write(broken, "\n")
        ELSE IF At(s, mark) = " " /\ At(s, start) # " " /\ mark - end > BestWidth
             THEN Folding(EmitIndent(written), s, mark + 1, start, mark + 1)
        ELSE Folding(e, s, mark + 1, start, end)
Folded(e, s) ==
    LET chomp == IF At(s, Len(s)) # "\n" THEN <<"-">>
                 ELSE IF At(s, Len(s) - 1) = "\n" THEN <<"+">> ELSE <<>>
    IN  Folding(EmitIndent(WriteAll(e, <<">">> \o chomp)), s, 1, 1, 1)

\* syck_emit_scalar with the handler's arguments, on the node's own level.
EmitScalar(e, node) ==
    LET text   == ScalarText(e.mode, node)
        place  == [status |-> Parent(e).status, odd |-> Parent(e).ncount % 2 = 1]
        asked  == Asked(e.mode, node)
        style  == Style(text, asked, place)
        tagged == IF Ambiguous(text) /\ asked # "plain" THEN e ELSE EmitTag(e, node)
        placed == IF DocSep(text)
                  THEN ToLevel(tagged, [Level(tagged) EXCEPT !.spaces = Parent(e).spaces + e.indent])
                  ELSE tagged
    IN  IF style = "fold" THEN Folded(placed, text)
        ELSE WriteAll(placed, Pieces(text, style, e.mode.json))

\* syck_emit_end
EmitEnd(e) ==
    LET level == Level(e)
    IN  CASE level.status = "seq" /\ level.ncount = 0 -> Write(e, "[]")
          [] level.status = "map" /\ level.ncount = 0 -> Write(e, "{}")
          [] level.status = "iseq"                    -> Write(e, "]")
          [] level.status = "imap"                    -> Write(e, "}")
          [] OTHER                                    -> e

(***************************************************************************)
(* The agenda.                                                             *)
(***************************************************************************)
Call(op, node) == [op |-> op, node |-> node]
NoNode == [kind |-> "undef", text |-> "", tag |-> "", anchor |-> "", items |-> <<>>]
Do(op) == Call(op, NoNode)
RefKey == [NoNode EXCEPT !.kind = "str", !.text = "="]

Scalars == {"str", "int", "undef"}
Todo(op) == agenda # <<>> /\ Head(agenda).op = op
Node == Head(agenda).node
Items(nodes) == [i \in 1..Len(nodes) |-> Call("item", nodes[i])]
Becomes(e, calls) == em' = e /\ agenda' = calls \o Tail(agenda)

\* The end of the calls that opened the level.
Closed == <<Do("end"), Do("pop")>>

\* syck_emit on a scalar: a key, an item, or the target of a reference.
EmitLeaf(e, node) ==
    IF IsAlias(e, node) THEN Write(AddLevel(e), "*" \o node.anchor)
    ELSE EmitScalar(Anchored(AddLevel(e), node), node)

\* syck_emit on what a reference points to, or in JSON on the reference
\* itself: the handler calls itself on the same level.
EmitBody ==
    /\ Todo("body")
    /\ LET opened == AddLevel(em)
       IN  IF IsAlias(em, Node)
           THEN Becomes(Write(opened, "*" \o Node.anchor), <<Do("pop")>>)
           ELSE IF Node.kind = "code"
           THEN Becomes(EmitScalar(Anchored(opened, Node), Node), <<Do("pop")>>)
           ELSE Becomes([EmitOpen(Anchored(opened, Node), Node)
                           EXCEPT !.indent = IndentLevel(em.mode)],
                        Items(Node.items) \o Closed)

\* syck_emit_item (nothing for the value dumped), then syck_emit on the item.
EmitNode ==
    /\ \/ Todo("item")
       \/ Todo("emit")
    /\ LET e == Header(IF Todo("item") THEN ItemMark(em) ELSE em)
       IN  CASE Node.kind \in Scalars -> Becomes(EmitLeaf(e, Node), <<Do("pop")>>)
             [] Node.kind = "ref" ->
                  Becomes(EmitOpen(AddLevel(e), [Node EXCEPT !.kind = "map", !.tag = "tag:!perl:ref"]),
                          Items(<<RefKey>> \o Node.items) \o Closed)
             [] e.mode.json -> Becomes(e, <<Call("body", Node)>>)
             [] OTHER -> Becomes([AddLevel(e) EXCEPT !.indent = 0],
                                 <<Call("enter", Node), Do("indent"), Do("pop")>>)

\* The reference's own level takes one item, what it points to.
EnterReference == Todo("enter") /\ Becomes(ItemMark(em), <<Call("body", Node)>>)
LeaveReference == Todo("indent") /\ Becomes([em EXCEPT !.indent = IndentLevel(em.mode)], <<>>)

EndCollection == Todo("end") /\ Becomes(EmitEnd(em), <<>>)

\* The end of syck_emit; the outermost one ends the document's last line.
PopLevel ==
    /\ Todo("pop")
    /\ LET popped == [em EXCEPT !.levels = Front(@)]
       IN  Becomes(IF Len(popped.levels) = 1 THEN Write(popped, "\n") ELSE popped, <<>>)

\* DumpImpl's last flush.
FinalFlush == Todo("flush") /\ Becomes(Flush(em), <<>>)

EmitInit(mode, node) ==
    /\ em = NewEmitter(mode)
    /\ agenda = <<Call("emit", node), Do("flush")>>

EmitNext ==
    \/ EmitNode
    \/ EmitBody
    \/ EnterReference
    \/ LeaveReference
    \/ EndCollection
    \/ PopLevel
    \/ FinalFlush
=============================================================================
