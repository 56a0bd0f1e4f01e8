----------------------------- MODULE SyckAnchors -----------------------------
(***************************************************************************)
(* The node store of libsyck's parser: who owns a SyckNode, and who owns   *)
(* the string that names an anchor, while gram.y reduces and handler.c     *)
(* files anchored nodes in the parser's tables.                            *)
(*                                                                         *)
(* The control state is the value stack of the generated LALR parser: an   *)
(* entry is a grammar symbol with its semantic value (a node, an anchor    *)
(* name, or nothing).  A symbol on top of the stack says what may come     *)
(* next, so every action guards on the top entries and replaces them, as   *)
(* the reduction it models does.  Tokens are chosen nondeterministically   *)
(* among those the grammar can shift; a token it cannot shift is Croak.    *)
(*                                                                         *)
(* Left out: the contents of nodes (module SyckLoad is about those), tags, *)
(* and the reductions that only pass a value on ($$ = $1).                 *)
(***************************************************************************)
EXTENDS Naturals, Integers, Sequences, FiniteSets

CONSTANTS Names,      \* anchor names a document may spell
          Nodes,      \* memory cells a SyckNode may occupy; bounds the heap
          MaxStack,   \* bound on the value stack (YYMAXDEPTH in the build)
          MaxDocs,    \* bound on the documents of one stream
          NONE,       \* the NULL pointer
          DEFINING    \* the table value (void *)1: anchor seen, node not built

ASSUME ConstantsAssumption ==
  /\ IsFiniteSet(Nodes)
  /\ MaxStack \in Nat
  /\ MaxDocs \in Nat
  /\ NONE \notin Names \cup Nodes
  /\ DEFINING \notin Nodes \cup {NONE}

VARIABLES
  phase,      \* "parse", "done" or "eof" (syck_parse returned), or "freed"
  docs,       \* documents started so far
  croaked,    \* an error handler longjmp'd out of the parse
  stack,      \* the value stack, bottom first
  live,       \* the allocated nodes
  bad,        \* live nodes built by the bad-anchor handler
  anchorOf,   \* n->anchor: the name a node carries, or NONE
  shortcut,   \* n->shortcut: a sequence not yet stored in its map, or NONE
  anchors,    \* p->anchors: NONE (no key), DEFINING, or a node
  badAnchors, \* p->bad_anchors: NONE (no key) or a node
  retired,    \* p->retired, in insertion order
  strs        \* allocated copies of each name, counted

vars == <<phase, docs, croaked, stack, live, bad, anchorOf, shortcut,
          anchors, badAnchors, retired, strs>>

-----------------------------------------------------------------------------
(* The value stack.                                                        *)

NameSyms == {"ANCHOR"}                     \* semantic value: a name
NodeSyms == {"ATOM", "SEQ", "MAP", "KEY", "PAIR", "BMAP", "TMAP"}
MarkSyms == {"LBRACKET", "LBRACE", "IOPEN", "SEP", "DASH"} \* no semantic value
Entry == [sym : NameSyms, val : Names] \cup [sym : NodeSyms, val : Nodes]
           \cup [sym : MarkSyms, val : {NONE}]

Depth == Len(stack)
Sym(k) == IF k < Depth THEN stack[Depth - k].sym ELSE "BOTTOM"  \* k below the top
Val(k) == stack[Depth - k].val

(* Replace the top k entries by e: a shift when k = 0, a reduction when    *)
(* more.                                                                   *)
Replace(k, e) == Append(SubSeq(stack, 1, Depth - k), e)

(* Tokens that begin an atom are shifted on these symbols; "BOTTOM" is the *)
(* empty stack.  After "SEQ" and "MAP" the comma, after "BMAP" the indent  *)
(* separator, is left out.                                                 *)
Expecting == phase = "parse" /\ Sym(0) \in
               {"BOTTOM", "ANCHOR", "LBRACKET", "SEQ", "LBRACE", "MAP", "KEY", "IOPEN",
                "SEP", "BMAP", "DASH"}
Parsing(sym) == phase = "parse" /\ Sym(0) = sym
Room == Depth < MaxStack

-----------------------------------------------------------------------------
(* Memory.                                                                 *)

Fresh == CHOOSE n \in Nodes : n \notin live
CanAlloc == live # Nodes
Key(table, a) == IF table[a] # NONE THEN 1 ELSE 0   \* keys spelling a
Unanchored(S) == {n \in S : anchorOf[n] = NONE}

(* Mutant of AddNodes: the anchor is not looked at.                        *)
AddNodes_FreesAnchored(S, allocated) == live' = (live \ S) \cup allocated

(* syck_hdlr_add_node gives the node to the language's handler and frees   *)
(* it, unless an anchor keeps it for later aliases.  `allocated' is the    *)
(* node the same reduction builds from the symbol it got back, if any.     *)
AddNodes(S, allocated) == live' = (live \ Unanchored(S)) \cup allocated

-----------------------------------------------------------------------------
(* handler.c.                                                              *)

(* Mutants of RemoveAnchor: the sentinel is retired as if it were a node;  *)
(* the node evicted is forgotten; the key is the token's string itself.    *)
RemoveAnchor_RetiresSentinel(a) ==
  /\ anchors' = [anchors EXCEPT ![a] = DEFINING]
  /\ retired' = IF anchors[a] # NONE THEN Append(retired, anchors[a]) ELSE retired
  /\ strs' = [strs EXCEPT ![a] = @ + 2 - Key(anchors, a)]
RemoveAnchor_Forgets(a) ==
  /\ anchors' = [anchors EXCEPT ![a] = DEFINING]
  /\ UNCHANGED retired
  /\ strs' = [strs EXCEPT ![a] = @ + 2 - Key(anchors, a)]
RemoveAnchor_SharesKey(a) ==
  /\ anchors' = [anchors EXCEPT ![a] = DEFINING]
  /\ retired' = IF anchors[a] \in Nodes THEN Append(retired, anchors[a])
                                        ELSE retired
  /\ strs' = [strs EXCEPT ![a] = @ + 1 - Key(anchors, a)]

(* syck_hdlr_remove_anchor, called by the lexer.  The token's own copy of  *)
(* the name is on the stack; the key of the table is a copy of its own.    *)
RemoveAnchor(a) ==
  /\ anchors' = [anchors EXCEPT ![a] = DEFINING]
  /\ retired' = IF anchors[a] \in Nodes THEN Append(retired, anchors[a])
                                        ELSE retired
  /\ strs' = [strs EXCEPT ![a] = @ + 2 - Key(anchors, a)]

(* Mutant of AddAnchor: a second anchor files the node once more.          *)
AddAnchor_FilesTwice(a, n) ==
  /\ anchorOf' = [anchorOf EXCEPT ![n] = IF @ = NONE THEN a ELSE @]
  /\ anchors' = [anchors EXCEPT ![a] = n]
  /\ retired' = IF anchors[a] \in Nodes THEN Append(retired, anchors[a])
                                        ELSE retired
  /\ strs' = [strs EXCEPT ![a] = @ - (IF anchorOf[n] # NONE THEN 1 ELSE 0)]

(* syck_hdlr_add_anchor: a node keeps its first anchor, and the name of a  *)
(* second one is freed.                                                    *)
AddAnchor(a, n) ==
  IF anchorOf[n] # NONE
    THEN /\ strs' = [strs EXCEPT ![a] = @ - 1]
         /\ UNCHANGED <<anchorOf, anchors, retired>>
    ELSE /\ anchorOf' = [anchorOf EXCEPT ![n] = a]
         /\ anchors' = [anchors EXCEPT ![a] = n]
         /\ retired' = IF anchors[a] \in Nodes THEN Append(retired, anchors[a])
                                               ELSE retired
         /\ strs' = [strs EXCEPT ![a] = @ + 1 - Key(anchors, a)]

(* syck_hdlr_get_anchor: n is the node an alias stands for.                *)
GetAnchor(a, n) ==
  \/ /\ anchors[a] \in Nodes
     /\ n = anchors[a]
     /\ UNCHANGED <<live, bad, anchorOf, badAnchors, strs>>
  \/ /\ anchors[a] = DEFINING
     /\ badAnchors[a] # NONE
     /\ n = badAnchors[a]
     /\ UNCHANGED <<live, bad, anchorOf, badAnchors, strs>>
  \/ /\ anchors[a] = DEFINING \/ anchors[a] = NONE
     /\ anchors[a] = DEFINING => badAnchors[a] = NONE
     /\ CanAlloc
     /\ n = Fresh
     /\ live' = live \cup {n}
     /\ bad' = bad \cup {n}
     /\ anchorOf' = [anchorOf EXCEPT ![n] = a]
     /\ badAnchors' = IF anchors[a] = DEFINING
                        THEN [badAnchors EXCEPT ![a] = n] ELSE badAnchors
     /\ strs' = [strs EXCEPT ![a] = @ + 1 + Key(anchors, a)]

-----------------------------------------------------------------------------
(* Tokens.                                                                 *)

(* Mutant of ShiftAnchor: the node evicted is freed on the spot.           *)
ShiftAnchor_Frees(a) ==
  /\ Expecting /\ Room
  /\ live' = live \ {anchors[a]}
  /\ anchors' = [anchors EXCEPT ![a] = DEFINING]
  /\ strs' = [strs EXCEPT ![a] = @ + 2 - Key(anchors, a)]
  /\ stack' = Replace(0, [sym |-> "ANCHOR", val |-> a])
  /\ UNCHANGED <<phase, docs, croaked, bad, anchorOf, shortcut, badAnchors, retired>>

ShiftAnchor(a) ==
  /\ Expecting /\ Room
  /\ RemoveAnchor(a)
  /\ stack' = Replace(0, [sym |-> "ANCHOR", val |-> a])
  /\ UNCHANGED <<phase, docs, croaked, live, bad, anchorOf, shortcut, badAnchors>>

(* YAML_ALIAS is reduced before another token is read.                     *)
ShiftAlias(a) ==
  /\ Expecting /\ Room
  /\ \E n \in Nodes : /\ GetAnchor(a, n)
                      /\ stack' = Replace(0, [sym |-> "ATOM", val |-> n])
  /\ UNCHANGED <<phase, docs, croaked, shortcut, anchors, retired>>

(* A scalar of any style, and the `empty' the grammar supplies where a     *)
(* value is missing: a new string node.                                    *)
ShiftScalar ==
  /\ Expecting /\ Room /\ CanAlloc
  /\ live' = live \cup {Fresh}
  /\ stack' = Replace(0, [sym |-> "ATOM", val |-> Fresh])
  /\ UNCHANGED <<phase, docs, croaked, bad, anchorOf, shortcut, anchors,
                 badAnchors, retired, strs>>

(* '[', '{', and the YAML_IOPEN in front of a block mapping.               *)
ShiftOpen(sym) ==
  /\ Expecting /\ Room
  /\ stack' = Replace(0, [sym |-> sym, val |-> NONE])
  /\ UNCHANGED <<phase, docs, croaked, live, bad, anchorOf, shortcut, anchors,
                 badAnchors, retired, strs>>

(* The anchors of a block mapping may stand on a line of their own inside  *)
(* its indent: YAML_IOPEN YAML_ANCHOR indent_sep in_implicit_map.          *)
AnchorsOf(k) == \A i \in 0..(k - 1) : Sym(i) = "ANCHOR"
ShiftSep ==
  /\ Parsing("ANCHOR") /\ Room
  /\ \E k \in 1..Depth : AnchorsOf(k) /\ Sym(k) = "IOPEN"
  /\ stack' = Replace(0, [sym |-> "SEP", val |-> NONE])
  /\ UNCHANGED <<phase, docs, croaked, live, bad, anchorOf, shortcut, anchors,
                 badAnchors, retired, strs>>

(* An entry of a block mapping that is a sequence item at its indent.      *)
ShiftDash ==
  /\ Parsing("BMAP") /\ Room
  /\ stack' = Replace(0, [sym |-> "DASH", val |-> NONE])
  /\ UNCHANGED <<phase, docs, croaked, live, bad, anchorOf, shortcut, anchors,
                 badAnchors, retired, strs>>

(* ':' after an atom: the key waits on the stack, not yet handled.         *)
ShiftColon ==
  /\ Parsing("ATOM")
  /\ Sym(1) \in {"LBRACKET", "SEQ", "LBRACE", "MAP", "IOPEN", "SEP", "BMAP"}
  /\ stack' = Replace(1, [sym |-> "KEY", val |-> Val(0)])
  /\ UNCHANGED <<phase, docs, croaked, live, bad, anchorOf, shortcut, anchors,
                 badAnchors, retired, strs>>

-----------------------------------------------------------------------------
(* Reductions.                                                             *)

(* YAML_ANCHOR word_rep, YAML_ANCHOR ind_rep and YAML_ANCHOR empty, and,   *)
(* for anchors inside the indent, YAML_ANCHOR top_imp_map.                 *)
ReduceAnchor ==
  /\ phase = "parse" /\ Sym(0) \in {"ATOM", "TMAP"} /\ Sym(1) = "ANCHOR"
  /\ AddAnchor(Val(1), Val(0))
  /\ stack' = Replace(2, [sym |-> Sym(0), val |-> Val(0)])
  /\ UNCHANGED <<phase, docs, croaked, live, bad, shortcut, badAnchors>>

(* An item of a sequence: an atom or a one-pair mapping.                   *)
ReduceFirstItem ==
  /\ phase = "parse" /\ Sym(0) \in {"ATOM", "PAIR"} /\ Sym(1) = "LBRACKET"
  /\ CanAlloc
  /\ AddNodes({Val(0)}, {Fresh})
  /\ stack' = Replace(1, [sym |-> "SEQ", val |-> Fresh])
  /\ UNCHANGED <<phase, docs, croaked, bad, anchorOf, shortcut, anchors,
                 badAnchors, retired, strs>>

ReduceItem ==
  /\ phase = "parse" /\ Sym(0) \in {"ATOM", "PAIR"} /\ Sym(1) = "SEQ"
  /\ AddNodes({Val(0)}, {})
  /\ stack' = Replace(2, stack[Depth - 1])
  /\ UNCHANGED <<phase, docs, croaked, bad, anchorOf, shortcut, anchors,
                 badAnchors, retired, strs>>

(* basic_mapping and complex_mapping: key and value are both handled here, *)
(* the key only now that its value is complete.                            *)
ReduceMapping ==
  /\ Parsing("ATOM") /\ Sym(1) = "KEY" /\ CanAlloc
  /\ AddNodes({Val(0), Val(1)}, {Fresh})
  /\ stack' = Replace(2, [sym |-> "PAIR", val |-> Fresh])
  /\ UNCHANGED <<phase, docs, croaked, bad, anchorOf, shortcut, anchors,
                 badAnchors, retired, strs>>

(* inline_map_atom: a lone atom is a key whose value is a null node,       *)
(* handled and freed at once.                                              *)
ReduceLoneKey ==
  /\ Parsing("ATOM") /\ Sym(1) \in {"LBRACE", "MAP"} /\ CanAlloc
  /\ AddNodes({Val(0)}, {Fresh})
  /\ stack' = Replace(1, [sym |-> "PAIR", val |-> Fresh])
  /\ UNCHANGED <<phase, docs, croaked, bad, anchorOf, shortcut, anchors,
                 badAnchors, retired, strs>>

(* The first pair of a mapping becomes the mapping.                        *)
ReduceFirstPair ==
  /\ Parsing("PAIR") /\ Sym(1) \in {"LBRACE", "IOPEN", "SEP"}
  /\ stack' = Replace(1, [sym |-> IF Sym(1) = "LBRACE" THEN "MAP" ELSE "BMAP",
                          val |-> Val(0)])
  /\ UNCHANGED <<phase, docs, croaked, live, bad, anchorOf, shortcut, anchors,
                 badAnchors, retired, strs>>

(* A further pair is copied into the mapping and its node freed; a block   *)
(* mapping first stores the sequence that was waiting in its shortcut.     *)
(* The sequence has no anchor, so handling it frees it.                    *)
ReducePair ==
  /\ Parsing("PAIR") /\ Sym(1) \in {"MAP", "BMAP"}
  /\ live' = live \ ({Val(0)} \cup {shortcut[Val(1)]})
  /\ shortcut' = [shortcut EXCEPT ![Val(1)] = NONE]
  /\ stack' = Replace(2, stack[Depth - 1])
  /\ UNCHANGED <<phase, docs, croaked, bad, anchorOf, anchors, badAnchors,
                 retired, strs>>

(* basic_seq in a block mapping: the item goes to the shortcut sequence,   *)
(* created by the first item.                                              *)
ReduceDash ==
  /\ Parsing("ATOM") /\ Sym(1) = "DASH" /\ Sym(2) = "BMAP"
  /\ \/ /\ shortcut[Val(2)] = NONE /\ CanAlloc
        /\ AddNodes({Val(0)}, {Fresh})
        /\ shortcut' = [shortcut EXCEPT ![Val(2)] = Fresh]
     \/ /\ shortcut[Val(2)] # NONE
        /\ AddNodes({Val(0)}, {})
        /\ UNCHANGED shortcut
  /\ stack' = Replace(3, stack[Depth - 2])
  /\ UNCHANGED <<phase, docs, croaked, bad, anchorOf, anchors, badAnchors,
                 retired, strs>>

(* ']' and '}': the collection is complete; an empty one is built now.     *)
CloseFlow ==
  /\ phase = "parse" /\ <<Sym(1), Sym(0)>> \in {<<"LBRACKET", "SEQ">>, <<"LBRACE", "MAP">>}
  /\ stack' = Replace(2, [sym |-> "ATOM", val |-> Val(0)])
  /\ UNCHANGED <<phase, docs, croaked, live, bad, anchorOf, shortcut, anchors,
                 badAnchors, retired, strs>>

CloseEmptyFlow ==
  /\ phase = "parse" /\ Sym(0) \in {"LBRACKET", "LBRACE"} /\ CanAlloc
  /\ live' = live \cup {Fresh}
  /\ stack' = Replace(1, [sym |-> "ATOM", val |-> Fresh])
  /\ UNCHANGED <<phase, docs, croaked, bad, anchorOf, shortcut, anchors,
                 badAnchors, retired, strs>>

(* YAML_IEND: anchors standing inside the indent are applied first         *)
(* (ReduceAnchor), and only then the pending shortcut is stored.           *)
ReduceTopMap ==
  /\ Parsing("BMAP") /\ Sym(1) = "SEP"
  /\ stack' = Replace(2, [sym |-> "TMAP", val |-> Val(0)])
  /\ UNCHANGED <<phase, docs, croaked, live, bad, anchorOf, shortcut, anchors,
                 badAnchors, retired, strs>>

(* Mutant of CloseBlock: n->shortcut is not cleared.                       *)
CloseBlock_KeepsShortcut ==
  /\ phase = "parse" /\ Sym(0) \in {"BMAP", "TMAP"} /\ Sym(1) = "IOPEN"
  /\ live' = live \ {shortcut[Val(0)]}
  /\ stack' = Replace(2, [sym |-> "ATOM", val |-> Val(0)])
  /\ UNCHANGED <<phase, docs, croaked, bad, anchorOf, shortcut, anchors,
                 badAnchors, retired, strs>>

CloseBlock ==
  /\ phase = "parse" /\ Sym(0) \in {"BMAP", "TMAP"} /\ Sym(1) = "IOPEN"
  /\ live' = live \ {shortcut[Val(0)]}
  /\ shortcut' = [shortcut EXCEPT ![Val(0)] = NONE]
  /\ stack' = Replace(2, [sym |-> "ATOM", val |-> Val(0)])
  /\ UNCHANGED <<phase, docs, croaked, bad, anchorOf, anchors, badAnchors,
                 retired, strs>>

(* doc: the root is handled, and syck_parse returns; at the end of the     *)
(* stream there is no root.                                                *)
ReduceRoot ==
  /\ phase = "parse"
  /\ \/ /\ Sym(0) = "ATOM" /\ Depth = 1
        /\ AddNodes({Val(0)}, {})
        /\ phase' = "done"
     \/ /\ Depth = 0
        /\ phase' = "eof"
        /\ UNCHANGED live
  /\ stack' = <<>>
  /\ UNCHANGED <<docs, croaked, bad, anchorOf, shortcut, anchors, badAnchors,
                 retired, strs>>

-----------------------------------------------------------------------------
(* Teardown.                                                               *)

Entries(table) == {table[a] : a \in Names} \cap Nodes
Filed == Entries(anchors) \cup Entries(badAnchors)
           \cup {retired[i] : i \in DOMAIN retired}

(* Mutant of StFree: the retired nodes are dropped with their table.       *)
StFree_SkipsRetired ==
  LET freed == Entries(anchors) \cup Entries(badAnchors) IN
  /\ live' = live \ freed
  /\ bad' = bad \ freed
  /\ anchorOf' = [n \in Nodes |-> IF n \in freed THEN NONE ELSE anchorOf[n]]
  /\ strs' = [a \in Names |->
                strs[a] - Cardinality({n \in freed : anchorOf[n] = a})
                        - Key(anchors, a)
                        - Key(badAnchors, a)]
  /\ anchors' = [a \in Names |-> NONE]
  /\ badAnchors' = [a \in Names |-> NONE]
  /\ retired' = <<>>

(* syck_st_free: frees the three tables, their nodes and their keys.  A    *)
(* freed node frees the name it carries.                                   *)
StFree ==
  /\ live' = live \ Filed
  /\ bad' = bad \ Filed
  /\ anchorOf' = [n \in Nodes |-> IF n \in Filed THEN NONE ELSE anchorOf[n]]
  /\ strs' = [a \in Names |->
                strs[a] - Cardinality({n \in Filed : anchorOf[n] = a})
                        - Key(anchors, a)
                        - Key(badAnchors, a)]
  /\ anchors' = [a \in Names |-> NONE]
  /\ badAnchors' = [a \in Names |-> NONE]
  /\ retired' = <<>>

(* Load in list context calls syck_parse again after a document; the       *)
(* tables of that document are dropped first.                              *)
NextDocument ==
  /\ phase = "done" /\ docs < MaxDocs
  /\ StFree
  /\ phase' = "parse" /\ docs' = docs + 1
  /\ UNCHANGED <<croaked, stack, shortcut>>

FreeParser ==
  /\ phase \in {"done", "eof"}
  /\ StFree
  /\ phase' = "freed"
  /\ UNCHANGED <<docs, croaked, stack, shortcut>>

(* A syntax error, a level too deep, or a handler that dies: croak leaves  *)
(* the parse by longjmp and the scope destructor cleanup_parser frees the  *)
(* parser.  The value stack is gone, and nothing runs for its entries.     *)
Croak ==
  /\ phase = "parse"
  /\ StFree
  /\ phase' = "freed" /\ croaked' = TRUE
  /\ stack' = <<>>
  /\ UNCHANGED <<docs, shortcut>>

-----------------------------------------------------------------------------
Init ==
  /\ phase = "parse" /\ docs = 1 /\ croaked = FALSE
  /\ stack = <<>>
  /\ live = {} /\ bad = {}
  /\ anchorOf = [n \in Nodes |-> NONE]
  /\ shortcut = [n \in Nodes |-> NONE]
  /\ anchors = [a \in Names |-> NONE]
  /\ badAnchors = [a \in Names |-> NONE]
  /\ retired = <<>>
  /\ strs = [a \in Names |-> 0]

Next ==
  \/ \E a \in Names : ShiftAnchor(a) \/ ShiftAlias(a)
  \/ ShiftScalar
  \/ \E sym \in {"LBRACKET", "LBRACE", "IOPEN"} : ShiftOpen(sym)
  \/ ShiftSep
  \/ ShiftDash
  \/ ShiftColon
  \/ ReduceAnchor
  \/ ReduceFirstItem
  \/ ReduceItem
  \/ ReduceMapping
  \/ ReduceLoneKey
  \/ ReduceFirstPair
  \/ ReducePair
  \/ ReduceDash
  \/ CloseFlow
  \/ CloseEmptyFlow
  \/ ReduceTopMap
  \/ CloseBlock
  \/ ReduceRoot
  \/ NextDocument
  \/ FreeParser
  \/ Croak

Spec == Init /\ [][Next]_vars

-----------------------------------------------------------------------------
(* Properties.                                                             *)

TypeOK ==
  /\ phase \in {"parse", "done", "eof", "freed"}
  /\ docs \in Nat
  /\ croaked \in BOOLEAN
  /\ stack \in Seq(Entry)
  /\ live \subseteq Nodes
  /\ bad \subseteq Nodes
  /\ anchorOf \in [Nodes -> Names \cup {NONE}]
  /\ shortcut \in [Nodes -> Nodes \cup {NONE}]
  /\ anchors \in [Names -> Nodes \cup {NONE, DEFINING}]
  /\ badAnchors \in [Names -> Nodes \cup {NONE}]
  /\ retired \in Seq(Nodes)
  /\ strs \in [Names -> Int]

(* The parser's pointers to nodes: from the value stack, from a map to the *)
(* sequence in its shortcut, and from the tables.                          *)
Places == {i \in DOMAIN stack : stack[i].sym \in NodeSyms}
Held == {stack[i].val : i \in Places}
Waiting == {shortcut[n] : n \in Held} \cap Nodes

(* No use after free: whatever the grammar or a table can still reach is   *)
(* allocated.  (CVE-2026-13713 was a node on the value stack freed when    *)
(* its anchor was redefined.)                                              *)
NoDanglingNode == Held \cup Waiting \cup Filed \subseteq live

(* No double free: a node without an anchor is freed by the reduction that *)
(* hands it to the handler, so exactly one place may hold it; and a node   *)
(* with one is freed with the tables, so at most one slot files it.        *)
HandledOnce ==
  /\ \A i, j \in Places :
       /\ stack[i].val = stack[j].val /\ i # j => anchorOf[stack[i].val] # NONE
       /\ shortcut[stack[i].val] # stack[j].val
       /\ /\ shortcut[stack[i].val] = shortcut[stack[j].val]
          /\ shortcut[stack[i].val] # NONE
          => stack[i].val = stack[j].val
FiledOnce ==
  /\ \A i, j \in DOMAIN retired : retired[i] = retired[j] => i = j
  /\ \A i \in DOMAIN retired : retired[i] \notin Entries(anchors) \cup Entries(badAnchors)
  /\ Entries(anchors) \cap Entries(badAnchors) = {}
  /\ \A a, b \in Names : /\ anchors[a] = anchors[b] /\ anchors[a] \in Nodes => a = b
                         /\ badAnchors[a] = badAnchors[b] /\ badAnchors[a] \in Nodes => a = b
NoDoubleFree ==
  /\ HandledOnce
  /\ FiledOnce
  /\ \A n \in Filed \cup Waiting : (anchorOf[n] # NONE) <=> n \in Filed

(* Until a croak, a node that is allocated is on the value stack, in a     *)
(* shortcut or in a table.  The one exception is the stand-in of an alias  *)
(* whose name is not in the table: no table files it, and once its alias   *)
(* is reduced nothing reaches it.  Of the state after a croak this says    *)
(* nothing: the value stack is gone then, with what only it held.          *)
NoLostNode ==
  ~croaked => live \subseteq Held \cup Waiting \cup Filed \cup bad

(* Every copy of a name has one owner: an anchor token on the stack, the   *)
(* node that carries it, or a key of a table.  A key shared with its node  *)
(* (CVE-2026-57076) counts two owners for one string.                      *)
Owners(a) ==
  Cardinality({i \in DOMAIN stack : stack[i] = [sym |-> "ANCHOR", val |-> a]})
    + Cardinality({n \in live : anchorOf[n] = a})
    + Key(anchors, a)
    + Key(badAnchors, a)
EveryNameOwned == ~croaked => \A a \in Names : strs[a] = Owners(a)

(* An anchored node outlives every alias that may still name it: it is     *)
(* freed only when the document's tables are, whatever redefines its name. *)
AnchoredNodesSurvive ==
  [][phase = "parse" /\ phase' # "freed" =>
       \A n \in live : anchorOf[n] # NONE => n \in live' /\ anchorOf'[n] = anchorOf[n]]_vars

(* Once syck_free_parser has run, after a croak too, no node with an       *)
(* anchor is allocated but stand-ins of undefined aliases; a croak leaves  *)
(* nodes without one, which only the value stack held, and the names of    *)
(* its anchor tokens.  After a parse without an error the stand-ins are    *)
(* all that is left, and the only copies of names are those they carry.    *)
ReclaimedAtEnd ==
  phase = "freed" =>
    /\ \A n \in live \ bad : anchorOf[n] = NONE
    /\ ~croaked => /\ live \subseteq bad
                   /\ \A a \in Names : strs[a] = Cardinality({n \in bad : anchorOf[n] = a})

-----------------------------------------------------------------------------
(* The inductive strengthening of NoDanglingNode and NoDoubleFree.         *)

(* A node that is being built is reached from one entry only; nodes met    *)
(* twice on the stack are complete and anchored.                           *)
StackSound ==
  /\ \A i \in Places :
       /\ stack[i].val \in live
       /\ stack[i].sym \in {"SEQ", "MAP", "PAIR", "BMAP"} => anchorOf[stack[i].val] = NONE
       /\ stack[i].sym = "TMAP" => i = Depth
  /\ \A i, j \in Places :
       i # j /\ stack[i].val = stack[j].val =>
         anchorOf[stack[i].val] # NONE /\ stack[i].sym \in {"ATOM", "KEY"}

(* Where a node is filed agrees with the name it carries.                  *)
TablesSound ==
  /\ bad \subseteq live
  /\ \A n \in Nodes \ live : anchorOf[n] = NONE
  /\ \A n \in bad : anchorOf[n] # NONE
  /\ \A a \in Names :
       /\ anchors[a] \in Nodes =>
            anchors[a] \in live \ bad /\ anchorOf[anchors[a]] = a
       /\ badAnchors[a] \in Nodes =>
            badAnchors[a] \in bad /\ anchorOf[badAnchors[a]] = a
  /\ \A i \in DOMAIN retired :
       /\ retired[i] \in live \ bad
       /\ anchorOf[retired[i]] # NONE
       /\ \A a \in Names : retired[i] # anchors[a]
       /\ \A j \in DOMAIN retired : retired[i] = retired[j] => i = j

(* A pending shortcut belongs to one block mapping on the stack.           *)
ShortcutsSound ==
  ~croaked =>
    /\ \A n \in Nodes : shortcut[n] # NONE =>
         /\ shortcut[n] \in live /\ anchorOf[shortcut[n]] = NONE
         /\ \E i \in Places : stack[i] \in [sym : {"BMAP", "TMAP"}, val : {n}]
         /\ \A i \in Places : stack[i].val # shortcut[n]
    /\ \A m, n \in Nodes : shortcut[m] = shortcut[n] /\ shortcut[m] # NONE => m = n

(* The parse variables agree: only a running parse has a value stack.      *)
PhaseSound ==
  /\ phase # "parse" => stack = <<>>
  /\ croaked => phase = "freed"

OwnershipInv ==
  TypeOK /\ StackSound /\ TablesSound /\ ShortcutsSound /\ PhaseSound

=============================================================================
