------------------------------ MODULE SyckDump ------------------------------
(***************************************************************************)
(* Dump: the two traversals of a Perl data structure.  The mark phase      *)
(* (perl_syck.h, emitter.c) finds the values reached twice and names them; *)
(* the emit phase writes each of them after `&name' where it meets it      *)
(* first, and `*name' afterwards.  JSON marks only to find cycles and has  *)
(* no names.                                                               *)
(*                                                                         *)
(* The values are a graph chosen in Init: a reference has one child, an    *)
(* array or a hash has its cells.  Both traversals are recursive C         *)
(* functions, here a stack of frames, one step per call and per return, so *)
(* that a croak may leave the recursion anywhere the code does.  What is   *)
(* written is the sequence of events `out'; layout is left out.            *)
(***************************************************************************)
EXTENDS Naturals, Sequences, FiniteSets

CONSTANTS
  Leaves,    \* scalars
  Regexps,   \* compiled regular expressions
  Codes,     \* code values; B::Deparse may croak on one
  Refs,      \* references (RVs)
  Arrays,
  Hashes,
  Cells,     \* what the cells of the arrays and hashes are drawn from
  Implicits, \* scalars that are quoted because their text, or its base 64, looks like
             \* null, a boolean, a special float, an octal, hexadecimal or base 60 number
  Binaries,  \* scalars whose text has high bits, under $YAML::Syck::ImplicitBinary
  Blessed,   \* the values that are blessed, the regular expressions among them
  LongNames, \* those whose class name does not fit the tag buffer of 512 bytes
  MaxCells,  \* bound on the cells of an array or a hash
  MaxDepth,  \* $YAML::Syck::MaxDepth or $JSON::Syck::MaxDepth
  Json,      \* JSON::Syck instead of YAML::Syck
  SortKeys,  \* $YAML::Syck::SortKeys
  BINARY,    \* the tag !binary
  NONE

Containers == Arrays \cup Hashes
Scalars == Leaves \cup Regexps \cup Codes
Objs == Scalars \cup Refs \cup Containers
Kinds == <<Leaves, Regexps, Codes, Refs, Arrays, Hashes>>

ASSUME DumpAssumption ==
  /\ IsFiniteSet(Objs)
  /\ \A i, j \in DOMAIN Kinds : i # j => Kinds[i] \cap Kinds[j] = {}
  /\ Cells \subseteq Leaves \cup Refs
  /\ Implicits \subseteq Leaves /\ Binaries \subseteq Leaves /\ (Json => Binaries = {})
  /\ Regexps \subseteq Blessed /\ Blessed \subseteq Objs /\ LongNames \subseteq Blessed
  /\ MaxCells \in Nat /\ MaxDepth \in Nat
  /\ Json \in BOOLEAN /\ SortKeys \in BOOLEAN
  /\ NONE \notin Objs \cup Nat /\ BINARY \notin Objs \cup Nat \cup {NONE}

VARIABLES
  kids,      \* the children of each value, in the order a hash iterates
  shuffled,  \* the hashes whose sorted keys come in another order
  root,      \* the argument of Dump
  phase,     \* "mark", "emit", "done" or "croaked"
  frames,    \* the recursion: a value, the next child, and the handler's locals
  depth,     \* e->depth
  markers,   \* e->markers: the number of each marked value, or NONE
  anchors,   \* e->anchors: the numbers that got a name, in order; the name of
             \* one is its position
  anchored,  \* e->anchored: the names already written
  tag,       \* bonus->tag: the value whose class it spells, or NONE
  buffer,    \* which allocation bonus->tag is: 0, and 1 once it was moved
  strings,   \* class names allocated by handlers, each called by its depth
  curRef,    \* bonus->cur_ref: one of them, or 0
  out        \* what was written

graph == <<kids, shuffled, root>>
names == <<markers, anchors, anchored>>
buffers == <<tag, buffer, strings, curRef>>
vars == <<graph, phase, frames, depth, names, buffers, out>>

-----------------------------------------------------------------------------
(* The recursion.                                                          *)

Frame(o, locals) == [obj |-> o, next |-> 1, tag |-> locals]
Level == Len(frames)
Top == frames[Level]
Reverse(s) == [i \in DOMAIN s |-> s[Len(s) + 1 - i]]

(* The order of the children: a hash is marked in its own order and, with  *)
(* SortKeys, emitted in another.                                           *)
KidsOf(o) ==
  IF phase = "emit" /\ SortKeys /\ o \in shuffled THEN Reverse(kids[o]) ELSE kids[o]

Starting == frames = <<>>
Visiting == ~Starting => Top.next <= Len(kids[Top.obj])  \* a child is due
Child == IF Starting THEN root ELSE KidsOf(Top.obj)[Top.next]
Advanced == IF Starting THEN frames ELSE [frames EXCEPT ![Level].next = @ + 1]
Returned == SubSeq(frames, 1, Level - 1)

-----------------------------------------------------------------------------
(* The mark phase.                                                         *)

Marked == {o \in Objs : markers[o] # NONE}
Named(number) == \E i \in DOMAIN anchors : anchors[i] = number

(* Mutant of MarkNode: the name is given at the first visit already.       *)
MarkNode_Eager(o) ==
  /\ markers' = [markers EXCEPT ![o] = IF @ = NONE THEN Cardinality(Marked) + 1 ELSE @]
  /\ anchors' = IF Named(markers'[o]) THEN anchors ELSE Append(anchors, markers'[o])

(* syck_emitter_mark_node numbers a value at its first visit and names it  *)
(* at the second.                                                          *)
MarkNode(o) ==
  IF markers[o] = NONE
    THEN /\ markers' = [markers EXCEPT ![o] = Cardinality(Marked) + 1]
         /\ UNCHANGED anchors
    ELSE /\ anchors' = IF Named(markers[o]) THEN anchors ELSE Append(anchors, markers[o])
         /\ UNCHANGED markers

(* It returns 0, and the traversal turns back, for a value seen before;    *)
(* JSON permits duplicates and turns back only where the number was set to *)
(* 0, which it is when the value is complete.                              *)
TurnsBack(o) == markers[o] # NONE /\ (Json => markers[o] = 0)

(* Mutant of MarkAgain: the early return leaves the depth raised.          *)
MarkAgain_KeepsDepth ==
  /\ phase = "mark" /\ Visiting /\ TurnsBack(Child)
  /\ MarkNode(Child)
  /\ depth' = depth + 1
  /\ frames' = Advanced
  /\ UNCHANGED <<graph, phase, anchored, buffers, out>>

MarkAgain ==
  /\ phase = "mark" /\ Visiting /\ TurnsBack(Child)
  /\ MarkNode(Child)
  /\ frames' = Advanced
  /\ UNCHANGED <<graph, phase, depth, anchored, buffers, out>>

(* Mutants of MarkEnter: the depth is not looked at, and the recursion     *)
(* stops only where the stack does; the limit is off by one; JSON sets the *)
(* number to 0 before the value is complete.                               *)
MarkEnter_Unbounded ==
  /\ phase = "mark" /\ Visiting /\ ~TurnsBack(Child)
  /\ Level <= MaxDepth
  /\ MarkNode(Child)
  /\ depth' = depth + 1
  /\ frames' = Append(Advanced, Frame(Child, 0))
  /\ UNCHANGED <<graph, phase, anchored, buffers, out>>
MarkEnter_OffByOne ==
  /\ phase = "mark" /\ Visiting /\ ~TurnsBack(Child)
  /\ MarkNode(Child)
  /\ depth' = depth + 1
  /\ IF depth + 1 > MaxDepth THEN phase' = "croaked" /\ frames' = <<>>
     ELSE frames' = Append(Advanced, Frame(Child, 0)) /\ UNCHANGED phase
  /\ UNCHANGED <<graph, anchored, buffers, out>>
MarkEnter_ZeroFirst ==
  /\ phase = "mark" /\ Visiting /\ ~TurnsBack(Child)
  /\ markers' = [markers EXCEPT ![Child] = 0]
  /\ depth' = depth + 1
  /\ IF depth + 1 >= MaxDepth THEN phase' = "croaked" /\ frames' = <<>>
     ELSE frames' = Append(Advanced, Frame(Child, 0)) /\ UNCHANGED phase
  /\ UNCHANGED <<graph, anchors, anchored, buffers, out>>

(* The traversal enters a value, unless it is nested too deep.             *)
MarkEnter ==
  /\ phase = "mark" /\ Visiting /\ ~TurnsBack(Child)
  /\ MarkNode(Child)
  /\ depth' = depth + 1
  /\ IF depth + 1 >= MaxDepth THEN phase' = "croaked" /\ frames' = <<>>
     ELSE frames' = Append(Advanced, Frame(Child, 0)) /\ UNCHANGED phase
  /\ UNCHANGED <<graph, anchored, buffers, out>>

(* Return of a call.  When it was the first, DumpImpl begins to emit; JSON *)
(* empties the markers.                                                    *)
MarkLeave ==
  /\ phase = "mark" /\ ~Visiting
  /\ frames' = Returned
  /\ depth' = depth - 1
  /\ phase' = IF Level = 1 THEN "emit" ELSE "mark"
  /\ markers' = CASE Json /\ Level = 1 -> [o \in Objs |-> NONE]
                  [] Json /\ Level > 1 -> [markers EXCEPT ![Top.obj] = 0]
                  [] OTHER -> markers
  /\ UNCHANGED <<graph, anchors, anchored, buffers, out>>

-----------------------------------------------------------------------------
(* The emit phase.                                                         *)

NameOf(o) ==
  IF markers[o] # NONE /\ Named(markers[o])
    THEN CHOOSE i \in DOMAIN anchors : anchors[i] = markers[o]
    ELSE 0

Event(what, o, name, class) == [what |-> what, obj |-> o, name |-> name, tag |-> class]
(* Mutant of AnchorEvents: a reference that is inlined leaves its anchor   *)
(* to the value it refers to.                                              *)
AnchorEvents_NotInlined(o) ==
  IF NameOf(o) = 0 \/ o \in Refs THEN <<>> ELSE <<Event("anchor", o, NameOf(o), NONE)>>
AnchorEvents(o) == IF NameOf(o) = 0 THEN <<>> ELSE <<Event("anchor", o, NameOf(o), NONE)>>
AliasEvent(o) == Event("alias", o, NameOf(o), NONE)
Write(events) == out' = out \o events
NowAnchored(S) == anchored' = anchored \cup ({NameOf(o) : o \in S} \ {0})

Referent(o) == kids[o][1]
IsObject(o) == ~Json /\ o \in Refs /\ Referent(o) \in Blessed  \* sv_isobject
Flattened(o) == IsObject(o) /\ Referent(o) \in Leaves
Inlined(o) == Json \/ Referent(o) \in Containers \cup Codes
Written(o) == NameOf(o) \in anchored       \* so an alias is due

Ends == phase' = IF Starting THEN "done" ELSE "emit"  \* the root has no frame
MayMove(o) == buffer' \in IF o \in LongNames /\ buffer = 0 THEN {0, 1} ELSE {buffer}

Emitting == phase = "emit" /\ Visiting

(* syck_emit of a value whose name was written: the handler does not run.  *)
EmitAlias ==
  /\ Emitting /\ Written(Child)
  /\ Write(<<AliasEvent(Child)>>)
  /\ frames' = Advanced
  /\ UNCHANGED <<graph, phase, depth, names, buffers>>

(* The tag of a scalar whose class would be `class': syck_emit_scalar      *)
(* writes none at all before a text that it quotes because it looks        *)
(* implicit, the base 64 of a binary included, and the handler of a binary *)
(* passes the tag of binaries instead of the class.                        *)
LeafTag(o, class) ==
  CASE o \in Implicits -> NONE
    [] o \in Binaries \ Implicits -> BINARY
    [] OTHER -> class

(* A plain scalar, or a code value that is not deparsed.                   *)
EmitLeaf ==
  /\ Emitting /\ ~Written(Child) /\ Child \in Scalars
  /\ Write(Append(AnchorEvents(Child), Event("leaf", Child, 0, LeafTag(Child, tag))))
  /\ NowAnchored({Child})
  /\ frames' = Advanced
  /\ Ends
  /\ tag' = NONE
  /\ UNCHANGED <<graph, depth, markers, anchors, buffer, strings, curRef>>

(* Mutant of EmitFlattened: the scalar is written like any leaf, with no   *)
(* look at its name.                                                       *)
EmitFlattened_Unnamed ==
  /\ Emitting /\ ~Written(Child) /\ Flattened(Child)
  /\ LET o == Referent(Child) IN
     /\ Write(Append(AnchorEvents(Child), Event("leaf", o, 0, LeafTag(o, o))))
     /\ MayMove(o)
  /\ NowAnchored({Child, Referent(Child)})
  /\ tag' = NONE
  /\ frames' = Advanced
  /\ Ends
  /\ curRef' = 0
  /\ UNCHANGED <<graph, depth, markers, anchors, strings>>

(* A reference to a blessed scalar is written as the scalar, whose anchor  *)
(* or alias the handler writes itself.  Its class name is allocated and    *)
(* freed in the step.                                                      *)
EmitFlattened ==
  /\ Emitting /\ ~Written(Child) /\ Flattened(Child)
  /\ LET o == Referent(Child) IN
     /\ Write(AnchorEvents(Child)
                \o IF Written(o) THEN <<AliasEvent(o)>>
                   ELSE Append(AnchorEvents(o), Event("leaf", o, 0, LeafTag(o, o))))
     /\ NowAnchored({Child, o})
     /\ MayMove(o)
  /\ tag' = NONE
  /\ frames' = Advanced
  /\ Ends
  /\ curRef' = 0
  /\ UNCHANGED <<graph, depth, markers, anchors, strings>>

(* A regular expression is written by the handler of the reference, which  *)
(* looks for no anchor.                                                    *)
EmitRegexp ==
  /\ Emitting /\ ~Written(Child) /\ IsObject(Child) /\ Referent(Child) \in Regexps
  /\ Write(Append(AnchorEvents(Child), Event("leaf", Referent(Child), 0, Referent(Child))))
  /\ NowAnchored({Child})
  /\ MayMove(Referent(Child))
  /\ frames' = Advanced
  /\ Ends
  /\ tag' = NONE /\ curRef' = 0
  /\ UNCHANGED <<graph, depth, markers, anchors, strings>>

(* The handler of any other reference.  For an object it spells the class  *)
(* in the tag buffer, which realloc may move, and the value it refers to   *)
(* takes the tag; a reference to a scalar or to a reference is a mapping   *)
(* of its own and takes it here.                                           *)
EmitRef ==
  /\ Emitting /\ ~Written(Child) /\ Child \in Refs /\ ~Flattened(Child)
  /\ Json \/ Referent(Child) \notin Regexps
  /\ LET class == IF IsObject(Child) THEN Referent(Child) ELSE tag IN
     /\ IF IsObject(Child)
          THEN MayMove(class) /\ strings' = strings \cup {Level + 1} /\ curRef' = Level + 1
          ELSE UNCHANGED <<buffer, strings, curRef>>
     /\ tag' = IF Inlined(Child) THEN class ELSE NONE
     /\ Write(AnchorEvents(Child)
                \o IF Inlined(Child) THEN <<>> ELSE <<Event("open", Child, 0, class)>>)
  /\ frames' = Append(Advanced, Frame(Child, buffer'))
  /\ NowAnchored({Child})
  /\ UNCHANGED <<graph, phase, depth, markers, anchors>>

(* Mutant of EmitContainer: the tag stays for the first cell.              *)
EmitContainer_KeepsTag ==
  /\ Emitting /\ ~Written(Child) /\ Child \in Containers
  /\ Write(Append(AnchorEvents(Child), Event("open", Child, 0, tag)))
  /\ NowAnchored({Child})
  /\ frames' = Append(Advanced, Frame(Child, buffer))
  /\ UNCHANGED <<graph, phase, depth, markers, anchors, buffers>>

EmitContainer ==
  /\ Emitting /\ ~Written(Child) /\ Child \in Containers
  /\ Write(Append(AnchorEvents(Child), Event("open", Child, 0, tag)))
  /\ NowAnchored({Child})
  /\ frames' = Append(Advanced, Frame(Child, buffer))
  /\ tag' = NONE
  /\ UNCHANGED <<graph, phase, depth, markers, anchors, buffer, strings, curRef>>

(* Mutant of EmitLeave: cur_ref still points to the name just freed.       *)
EmitLeave_KeepsCurRef ==
  /\ phase = "emit" /\ ~Visiting
  /\ LET o == Top.obj IN
     /\ strings' = IF IsObject(o) THEN strings \ {Level} ELSE strings
     /\ tag' = IF o \in Refs /\ Top.tag = buffer THEN NONE ELSE tag
     /\ IF o \in Containers \/ ~Inlined(o) THEN Write(<<Event("close", o, 0, NONE)>>)
                                         ELSE UNCHANGED out
  /\ frames' = Returned
  /\ phase' = IF Level = 1 THEN "done" ELSE "emit"
  /\ UNCHANGED <<graph, depth, names, buffer, curRef>>

(* Return of a handler.  That of a reference clears the tag through the    *)
(* pointer it took when it was called, and frees its class name.           *)
EmitLeave ==
  /\ phase = "emit" /\ ~Visiting
  /\ LET o == Top.obj IN
     /\ IF IsObject(o)
          THEN strings' = strings \ {Level} /\ curRef' = 0
          ELSE UNCHANGED <<strings, curRef>>
     /\ tag' = IF o \in Refs /\ Top.tag = buffer THEN NONE ELSE tag
     /\ IF o \in Containers \/ ~Inlined(o) THEN Write(<<Event("close", o, 0, NONE)>>)
                                         ELSE UNCHANGED out
  /\ frames' = Returned
  /\ phase' = IF Level = 1 THEN "done" ELSE "emit"
  /\ UNCHANGED <<graph, depth, names, buffer>>

(* B::Deparse, or what it returns, makes the handler croak: the destructor *)
(* frees the emitter, the tag buffer and the string of cur_ref.            *)
EmitCroak ==
  /\ ~Json /\ Emitting /\ ~Written(Child) /\ Child \in Codes
  /\ phase' = "croaked" /\ frames' = <<>>
  /\ strings' = strings \ {curRef}
  /\ curRef' = 0
  /\ UNCHANGED <<graph, depth, names, tag, buffer, out>>

-----------------------------------------------------------------------------
(* The values reached from the root; those that are not are alike.         *)
Kids(k, o) == {k[o][i] : i \in DOMAIN k[o]}
Reached(k, r) ==
  LET closed[S \in SUBSET Objs] ==
        LET next == UNION {Kids(k, o) : o \in S}
        IN IF next \subseteq S THEN S ELSE closed[S \cup next]
  IN closed[{r}]

CellLists == UNION {[1..n -> Cells] : n \in 0..MaxCells}
Graph(target, cells) ==
  [o \in Objs |-> IF o \in Refs THEN <<target[o]>>
                  ELSE IF o \in Containers THEN cells[o] ELSE <<>>]
Plain(k, r) ==
  \A o \in (Refs \cup Containers) \ Reached(k, r) : k[o] = IF o \in Refs THEN <<o>> ELSE <<>>

Init ==
  /\ root \in Refs
  /\ \E target \in [Refs -> Objs], cells \in [Containers -> CellLists] :
       kids = Graph(target, cells) /\ Plain(kids, root)
  /\ shuffled \in SUBSET {o \in Hashes : SortKeys /\ Len(kids[o]) > 1}
  /\ phase = "mark" /\ frames = <<>> /\ depth = 0
  /\ markers = [o \in Objs |-> NONE] /\ anchors = <<>> /\ anchored = {}
  /\ tag = NONE /\ buffer = 0 /\ strings = {} /\ curRef = 0
  /\ out = <<>>

Next ==
  \/ MarkAgain
  \/ MarkEnter
  \/ MarkLeave
  \/ EmitAlias
  \/ EmitLeaf
  \/ EmitFlattened
  \/ EmitRegexp
  \/ EmitRef
  \/ EmitContainer
  \/ EmitLeave
  \/ EmitCroak

Spec == Init /\ [][Next]_vars

(* A call of Dump runs until it returns or croaks.                         *)
FairSpec == Spec /\ WF_vars(Next)

-----------------------------------------------------------------------------
(* Properties.                                                             *)

TypeOK ==
  /\ phase \in {"mark", "emit", "done", "croaked"}
  /\ frames \in Seq([obj : Objs, next : 1..MaxCells + 2, tag : {0, 1}])
  /\ depth \in 0..MaxDepth \cup {1}   \* a MaxDepth of 0 refuses the first value
  /\ markers \in [Objs -> 0..Cardinality(Objs) \cup {NONE}]
  /\ anchors \in Seq(0..Cardinality(Objs))
  /\ anchored \subseteq DOMAIN anchors
  /\ tag \in Blessed \cup {NONE} /\ buffer \in {0, 1}
  /\ strings \subseteq 1..Level \/ phase = "croaked"
  /\ curRef \in 0..Level
  /\ out \in Seq([what : {"anchor", "alias", "leaf", "open", "close"}, obj : Objs,
                  name : DOMAIN anchors \cup {0}, tag : Blessed \cup {NONE, BINARY}])

Positions(what) == {i \in DOMAIN out : out[i].what = what}

(* A reader of the document who takes an alias for the latest anchor of    *)
(* that name gets the value that Dump met there: the mark phase and the    *)
(* emit phase agree on the order of the values, whatever the keys are      *)
(* sorted to.  What Load makes of it is another matter: of two anchors in  *)
(* front of one node, a reference's and its referent's, it keeps one.      *)
AliasesResolve ==
  \A i \in Positions("alias") :
    \E j \in Positions("anchor") :
      /\ j < i /\ out[j].name = out[i].name /\ out[j].obj = out[i].obj
      /\ \A k \in Positions("anchor") : out[k].name = out[i].name => k = j

(* Nothing that is shared is written twice, but for regular expressions,   *)
(* so that Load shares it again.                                           *)
SharingKept ==
  \A i, j \in Positions("open") \cup Positions("leaf") :
    out[i].obj = out[j].obj /\ i # j => out[i].obj \in Regexps

(* Every name is written once as an anchor, and then used: Changes says of *)
(* self-recursive structures that they `no longer generate redundant       *)
(* anchor names'.  The name of a regular expression is never written.      *)
NamesUsed ==
  phase = "done" =>
    \A n \in DOMAIN anchors :
      \/ \E o \in Regexps : markers[o] = anchors[n]
      \/ /\ Cardinality({i \in Positions("anchor") : out[i].name = n}) = 1
         /\ \E i \in Positions("alias") : out[i].name = n

(* The scalars that may be written without their class: those that are     *)
(* cells, where no reference says that they are blessed, and those whose   *)
(* text is quoted because it looks implicit.                               *)
Unclassed(o) ==
  o \in Leaves /\ (o \in Implicits \/ \E p \in Containers : o \in Kids(kids, p))

(* One buffer spells the classes of all the handlers that are active, and  *)
(* still a value never takes the tag of the value before it: its tag is    *)
(* its own class (of the value referred to, for a reference that is a      *)
(* mapping of its own), or !binary for a binary.  A blessed value is       *)
(* written without a tag only if it is one of the scalars above.           *)
TagsRight ==
  \A i \in Positions("open") \cup Positions("leaf") :
    LET e == out[i]
        o == IF e.obj \in Refs THEN Referent(e.obj) ELSE e.obj
    IN \/ e.tag = o
       \/ e.tag = BINARY /\ e.obj \in Binaries
       \/ e.tag = NONE /\ (o \notin Blessed \/ Unclassed(e.obj))

(* JSON writes a value where it occurs, so it must refuse every cycle.     *)
NoCycleWritten ==
  phase = "emit" =>
    \A i, j \in DOMAIN frames : frames[i].obj = frames[j].obj => i = j

(* Only a structure nested as deep as MaxDepth is refused by the mark      *)
(* phase: it has met as many values as the depth says that lie one inside  *)
(* the next, the root outermost.  Each is inside the one with the greatest *)
(* number before it; a value met again, or a cycle, is no depth.           *)
NotRefused ==
  phase = "croaked" /\ depth > 0 =>
    /\ depth >= MaxDepth
    /\ \E S \in SUBSET Marked :
         /\ Cardinality(S) = depth /\ root \in S
         /\ \A o \in S \ {root} :
              \E p \in S :
                /\ o \in Kids(kids, p) /\ markers[p] < markers[o]
                /\ \A q \in S : markers[q] < markers[o] => markers[q] <= markers[p]

(* MaxDepth: `Dump will croak if a data structure exceeds this depth'.     *)
EmitWithinDepth == Emitting /\ ~Written(Child) => Level + 1 < MaxDepth

(* In YAML the mark phase, which looks at MaxDepth, bounds the emit phase, *)
(* which does not, as long as both take the keys in the same order.        *)
EmitWithinDepthUnsorted == shuffled = {} => EmitWithinDepth

(* Every class name a handler allocates is freed once, and the one that    *)
(* the destructor would free is not freed yet.                             *)
ClassNamesFreed ==
  /\ curRef \in strings \cup {0}
  /\ phase = "done" => strings = {}

(* t/croak-leak.t: the destructor ensures that the `ref string' is `freed  *)
(* even when croak() longjmps past normal cleanup'.                        *)
StringsFreedOnCroak == phase = "croaked" => strings = {}

(* Dump ends, whatever refers to whatever.                                 *)
Termination == <>(phase \in {"done", "croaked"})
=============================================================================
