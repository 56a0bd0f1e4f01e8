------------------------ MODULE SyckOwnership_proofs ------------------------
(***************************************************************************)
(* Ownership of the nodes: OwnershipInv of SyckAnchors is an invariant of  *)
(* its specification, and with it no node is used after it is freed, none  *)
(* is freed twice, and a node with an anchor lives as long as its          *)
(* document.                                                               *)
(*                                                                         *)
(* First come the types of the variables, for every set of names, every    *)
(* heap and every bound; then lemmas for the moves that the actions share: *)
(* entries taken from the stack and put on it, nodes handled and freed, a  *)
(* name moved from one node to another.  Then each action has a lemma of   *)
(* its own.  The last part is about what must not happen to a node either: *)
(* to be lost.                                                             *)
(***************************************************************************)
EXTENDS SyckAnchors, FiniteSetTheorems, TLAPS

-----------------------------------------------------------------------------
(* The value stack.                                                        *)

(* The step replaces the top k entries of the stack by the entry e.        *)
Pops(k, e) == k \in 0..Depth /\ e \in Entry /\ stack' = Replace(k, e)

LEMMA ReplaceFacts ==
  ASSUME NEW S, NEW s \in Seq(S), NEW k \in 0..Len(s), NEW e \in S,
         NEW t, t = Append(SubSeq(s, 1, Len(s) - k), e)
  PROVE  /\ t \in Seq(S)
         /\ Len(t) = Len(s) - k + 1
         /\ t[Len(s) - k + 1] = e
         /\ \A i \in 1..(Len(s) - k) : t[i] = s[i]
  <1> DEFINE kept == SubSeq(s, 1, Len(s) - k)
  <1>1. kept \in Seq(S) /\ Len(kept) = Len(s) - k /\ \A i \in 1..(Len(s) - k) : kept[i] = s[i]
    OBVIOUS
  <1>2. t = Append(kept, e)
    OBVIOUS
  <1> HIDE DEF kept
  <1>3. QED
    BY <1>1, <1>2

LEMMA SeqFacts ==
  ASSUME NEW S
  PROVE  /\ <<>> \in Seq(S)
         /\ \A s \in Seq(S) : Len(s) \in Nat /\ DOMAIN s = 1..Len(s)
  OBVIOUS

LEMMA StackFacts ==
  ASSUME TypeOK
  PROVE  stack \in Seq(Entry) /\ Depth \in Nat /\ 0 \in 0..Depth /\ DOMAIN stack = 1..Depth
  BY SeqFacts DEF TypeOK, Depth

(* The entries below the k that are popped stay where they were.           *)
LEMMA PopsFacts ==
  ASSUME stack \in Seq(Entry), NEW k, NEW e, Pops(k, e)
  PROVE  /\ stack' \in Seq(Entry)
         /\ Depth \in Nat /\ Depth' \in Nat /\ k \in 0..Depth
         /\ DOMAIN stack = 1..Depth /\ DOMAIN stack' = 1..Depth'
         /\ Depth' = Depth - k + 1
         /\ stack'[Depth'] = e
         /\ \A i \in 1..Depth' : i # Depth' => i \in 1..Depth /\ stack'[i] = stack[i]
  <1>1. /\ k \in 0..Len(stack) /\ e \in Entry
        /\ stack' = Append(SubSeq(stack, 1, Len(stack) - k), e)
    BY DEF Pops, Replace, Depth
  <1>2. /\ stack' \in Seq(Entry)
        /\ Len(stack') = Len(stack) - k + 1
        /\ stack'[Len(stack) - k + 1] = e
        /\ \A i \in 1..(Len(stack) - k) : stack'[i] = stack[i]
    BY <1>1, ReplaceFacts
  <1>3. /\ Len(stack) \in Nat /\ DOMAIN stack = 1..Len(stack)
        /\ Len(stack') \in Nat /\ DOMAIN stack' = 1..Len(stack')
    BY <1>2, SeqFacts
  <1>4. QED
    BY <1>1, <1>2, <1>3 DEF Depth

(* A symbol that is not "BOTTOM" is the symbol of an entry.                     *)
LEMMA TopFacts ==
  ASSUME stack \in Seq(Entry), NEW k \in Nat, Sym(k) # "BOTTOM"
  PROVE  /\ Depth \in Nat /\ k + 1 \in 0..Depth
         /\ Depth - k \in 1..Depth
         /\ stack[Depth - k] \in Entry
         /\ stack[Depth - k].sym = Sym(k)
         /\ stack[Depth - k].val = Val(k)
         /\ Sym(k) \in NodeSyms => Val(k) \in Nodes
         /\ Sym(k) = "ANCHOR" => Val(k) \in Names
  <1>1. k < Depth /\ Depth \in Nat
    BY DEF Sym, Depth
  <1>2. Depth - k \in 1..Depth /\ stack[Depth - k] \in Entry
    BY <1>1 DEF Depth
  <1>3. stack[Depth - k].sym = Sym(k) /\ stack[Depth - k].val = Val(k)
    BY <1>1 DEF Sym, Val
  <1>4. \A e \in Entry : /\ e.sym \in NodeSyms => e.val \in Nodes
                         /\ e.sym = "ANCHOR" => e.val \in Names
    BY DEF Entry, NodeSyms, NameSyms, MarkSyms
  <1>5. QED
    BY <1>1, <1>2, <1>3, <1>4

LEMMA TopNode ==
  ASSUME stack \in Seq(Entry), NEW k \in Nat, Sym(k) \in NodeSyms
  PROVE  Val(k) \in Nodes /\ k + 1 \in 0..Depth
  BY TopFacts DEF NodeSyms

LEMMA TopMark ==
  ASSUME stack \in Seq(Entry), NEW k \in Nat, Sym(k) \in MarkSyms
  PROVE  k + 1 \in 0..Depth
  BY TopFacts DEF MarkSyms

LEMMA FreshIsDead ==
  ASSUME CanAlloc, live \subseteq Nodes
  PROVE  Fresh \in Nodes \ live
  BY DEF CanAlloc, Fresh

LEMMA EntryIntro ==
  /\ \A n \in Nodes, sym \in NodeSyms : [sym |-> sym, val |-> n] \in Entry
  /\ \A a \in Names : [sym |-> "ANCHOR", val |-> a] \in Entry
  /\ \A sym \in MarkSyms : [sym |-> sym, val |-> NONE] \in Entry
  BY DEF Entry, NameSyms

-----------------------------------------------------------------------------
(* What each action does to the stack, and which nodes it is about.        *)

LEMMA ShiftAnchorShape ==
  ASSUME TypeOK, NEW a \in Names, ShiftAnchor(a)
  PROVE  Pops(0, [sym |-> "ANCHOR", val |-> a])
  BY EntryIntro, StackFacts DEF ShiftAnchor, Pops

LEMMA ShiftAliasShape ==
  ASSUME TypeOK, NEW a \in Names, ShiftAlias(a)
  PROVE  \E n \in Nodes : GetAnchor(a, n) /\ Pops(0, [sym |-> "ATOM", val |-> n])
  <1>1. PICK n \in Nodes : GetAnchor(a, n) /\ stack' = Replace(0, [sym |-> "ATOM", val |-> n])
    BY DEF ShiftAlias
  <1>2. [sym |-> "ATOM", val |-> n] \in Entry /\ 0 \in 0..Depth
    BY EntryIntro, StackFacts DEF NodeSyms
  <1>3. QED
    BY <1>1, <1>2 DEF Pops

LEMMA ShiftScalarShape ==
  ASSUME TypeOK, ShiftScalar
  PROVE  Fresh \in Nodes \ live /\ Pops(0, [sym |-> "ATOM", val |-> Fresh])
  <1>1. Fresh \in Nodes \ live
    BY FreshIsDead DEF TypeOK, ShiftScalar
  <1>2. [sym |-> "ATOM", val |-> Fresh] \in Entry /\ 0 \in 0..Depth
    BY <1>1, EntryIntro, StackFacts DEF NodeSyms
  <1>3. QED
    BY <1>1, <1>2 DEF Pops, ShiftScalar

LEMMA ShiftMarkShape ==
  ASSUME TypeOK, \/ \E s \in {"LBRACKET", "LBRACE", "IOPEN"} : ShiftOpen(s)
                 \/ ShiftSep
                 \/ ShiftDash
  PROVE  \E s \in MarkSyms : Pops(0, [sym |-> s, val |-> NONE])
  <1>1. PICK s \in MarkSyms : stack' = Replace(0, [sym |-> s, val |-> NONE])
    BY DEF ShiftOpen, ShiftSep, ShiftDash, MarkSyms
  <1>2. QED
    BY <1>1, EntryIntro, StackFacts DEF Pops

LEMMA ShiftColonShape ==
  ASSUME TypeOK, ShiftColon
  PROVE  /\ Val(0) \in Nodes /\ Sym(0) = "ATOM"
         /\ Pops(1, [sym |-> "KEY", val |-> Val(0)])
  <1>1. Sym(0) = "ATOM" /\ stack \in Seq(Entry)
    BY DEF ShiftColon, Parsing, TypeOK
  <1>2. Val(0) \in Nodes /\ 1 \in 0..Depth
    BY <1>1, TopFacts DEF NodeSyms
  <1>3. QED
    BY <1>1, <1>2, EntryIntro DEF ShiftColon, Pops, NodeSyms

LEMMA ReduceAnchorShape ==
  ASSUME TypeOK, ReduceAnchor
  PROVE  /\ Val(0) \in Nodes /\ Val(1) \in Names /\ Sym(0) \in {"ATOM", "TMAP"}
         /\ Pops(2, [sym |-> Sym(0), val |-> Val(0)])
  <1>1. Sym(0) \in {"ATOM", "TMAP"} /\ Sym(1) = "ANCHOR" /\ stack \in Seq(Entry)
    BY DEF ReduceAnchor, TypeOK
  <1>2. Val(0) \in Nodes /\ Val(1) \in Names /\ 2 \in 0..Depth
    BY <1>1, TopFacts DEF NodeSyms
  <1>3. QED
    BY <1>1, <1>2, EntryIntro DEF ReduceAnchor, Pops, NodeSyms

LEMMA ReduceFirstItemShape ==
  ASSUME TypeOK, ReduceFirstItem
  PROVE  /\ Val(0) \in Nodes /\ Sym(0) \in {"ATOM", "PAIR"}
         /\ Fresh \in Nodes \ live
         /\ Pops(1, [sym |-> "SEQ", val |-> Fresh])
  <1>1. Sym(0) \in {"ATOM", "PAIR"} /\ stack \in Seq(Entry) /\ Fresh \in Nodes \ live
    BY FreshIsDead DEF ReduceFirstItem, TypeOK
  <1>2. Val(0) \in Nodes /\ 1 \in 0..Depth
    BY <1>1, TopFacts DEF NodeSyms
  <1>3. QED
    BY <1>1, <1>2, EntryIntro DEF ReduceFirstItem, Pops, NodeSyms

LEMMA ReduceItemShape ==
  ASSUME TypeOK, ReduceItem
  PROVE  /\ Val(0) \in Nodes /\ Sym(0) \in {"ATOM", "PAIR"}
         /\ Sym(1) = "SEQ" /\ Pops(2, stack[Depth - 1])
  <1>1. Sym(0) \in {"ATOM", "PAIR"} /\ Sym(1) = "SEQ" /\ stack \in Seq(Entry)
    BY DEF ReduceItem, TypeOK
  <1>2. Val(0) \in Nodes /\ 2 \in 0..Depth /\ stack[Depth - 1] \in Entry
    BY <1>1, TopFacts DEF NodeSyms
  <1>3. QED
    BY <1>1, <1>2 DEF ReduceItem, Pops

LEMMA ReduceMappingShape ==
  ASSUME TypeOK, ReduceMapping
  PROVE  /\ Val(0) \in Nodes /\ Val(1) \in Nodes
         /\ Sym(0) = "ATOM" /\ Sym(1) = "KEY"
         /\ Fresh \in Nodes \ live
         /\ Pops(2, [sym |-> "PAIR", val |-> Fresh])
  <1>1. Sym(0) = "ATOM" /\ Sym(1) = "KEY" /\ stack \in Seq(Entry) /\ Fresh \in Nodes \ live
    BY FreshIsDead DEF ReduceMapping, Parsing, TypeOK
  <1>2. Val(0) \in Nodes /\ Val(1) \in Nodes /\ 2 \in 0..Depth
    BY <1>1, TopFacts DEF NodeSyms
  <1>3. QED
    BY <1>1, <1>2, EntryIntro DEF ReduceMapping, Pops, NodeSyms

LEMMA ReduceLoneKeyShape ==
  ASSUME TypeOK, ReduceLoneKey
  PROVE  /\ Val(0) \in Nodes /\ Sym(0) = "ATOM"
         /\ Fresh \in Nodes \ live
         /\ Pops(1, [sym |-> "PAIR", val |-> Fresh])
  <1>1. Sym(0) = "ATOM" /\ stack \in Seq(Entry) /\ Fresh \in Nodes \ live
    BY FreshIsDead DEF ReduceLoneKey, Parsing, TypeOK
  <1>2. Val(0) \in Nodes /\ 1 \in 0..Depth
    BY <1>1, TopFacts DEF NodeSyms
  <1>3. QED
    BY <1>1, <1>2, EntryIntro DEF ReduceLoneKey, Pops, NodeSyms

LEMMA ReduceFirstPairShape ==
  ASSUME TypeOK, ReduceFirstPair
  PROVE  /\ Val(0) \in Nodes /\ Sym(0) = "PAIR"
         /\ \E s \in {"MAP", "BMAP"} : Pops(1, [sym |-> s, val |-> Val(0)])
  <1>1. Sym(0) = "PAIR" /\ stack \in Seq(Entry)
    BY DEF ReduceFirstPair, Parsing, TypeOK
  <1>2. Val(0) \in Nodes /\ 1 \in 0..Depth
    BY <1>1, TopFacts DEF NodeSyms
  <1>3. QED
    BY <1>1, <1>2, EntryIntro DEF ReduceFirstPair, Pops, NodeSyms

LEMMA ReducePairShape ==
  ASSUME TypeOK, ReducePair
  PROVE  /\ Val(0) \in Nodes /\ Val(1) \in Nodes
         /\ Sym(0) = "PAIR" /\ Sym(1) \in {"MAP", "BMAP"}
         /\ Pops(2, stack[Depth - 1])
  <1>1. Sym(0) = "PAIR" /\ Sym(1) \in {"MAP", "BMAP"} /\ stack \in Seq(Entry)
    BY DEF ReducePair, Parsing, TypeOK
  <1>2. Val(0) \in Nodes /\ Val(1) \in Nodes /\ 2 \in 0..Depth /\ stack[Depth - 1] \in Entry
    BY <1>1, TopFacts DEF NodeSyms
  <1>3. QED
    BY <1>1, <1>2 DEF ReducePair, Pops

LEMMA ReduceDashShape ==
  ASSUME TypeOK, ReduceDash
  PROVE  /\ Val(0) \in Nodes /\ Val(2) \in Nodes
         /\ Sym(0) = "ATOM" /\ Sym(2) = "BMAP"
         /\ Pops(3, stack[Depth - 2])
  <1>1. Sym(0) = "ATOM" /\ Sym(2) = "BMAP" /\ stack \in Seq(Entry)
    BY DEF ReduceDash, Parsing, TypeOK
  <1>2. Val(0) \in Nodes /\ Val(2) \in Nodes /\ 3 \in 0..Depth /\ stack[Depth - 2] \in Entry
    BY <1>1, TopFacts DEF NodeSyms
  <1>3. QED
    BY <1>1, <1>2 DEF ReduceDash, Pops

LEMMA CloseFlowShape ==
  ASSUME TypeOK, CloseFlow
  PROVE  /\ Val(0) \in Nodes /\ Sym(0) \in {"SEQ", "MAP"}
         /\ Pops(2, [sym |-> "ATOM", val |-> Val(0)])
  <1>1. Sym(0) \in {"SEQ", "MAP"} /\ Sym(1) \in {"LBRACKET", "LBRACE"} /\ stack \in Seq(Entry)
    BY DEF CloseFlow, TypeOK
  <1>2. Val(0) \in Nodes /\ 2 \in 0..Depth
    BY <1>1, TopNode, TopMark DEF NodeSyms, MarkSyms
  <1>3. QED
    BY <1>1, <1>2, EntryIntro DEF CloseFlow, Pops, NodeSyms

LEMMA CloseEmptyFlowShape ==
  ASSUME TypeOK, CloseEmptyFlow
  PROVE  /\ Fresh \in Nodes \ live
         /\ Pops(1, [sym |-> "ATOM", val |-> Fresh])
  <1>1. Sym(0) \in {"LBRACKET", "LBRACE"} /\ stack \in Seq(Entry) /\ Fresh \in Nodes \ live
    BY FreshIsDead DEF CloseEmptyFlow, TypeOK
  <1>2. 1 \in 0..Depth
    BY <1>1, TopMark DEF MarkSyms
  <1>3. QED
    BY <1>1, <1>2, EntryIntro DEF CloseEmptyFlow, Pops, NodeSyms

LEMMA ReduceTopMapShape ==
  ASSUME TypeOK, ReduceTopMap
  PROVE  /\ Val(0) \in Nodes /\ Sym(0) = "BMAP"
         /\ Pops(2, [sym |-> "TMAP", val |-> Val(0)])
  <1>1. Sym(0) = "BMAP" /\ Sym(1) = "SEP" /\ stack \in Seq(Entry)
    BY DEF ReduceTopMap, Parsing, TypeOK
  <1>2. Val(0) \in Nodes /\ 2 \in 0..Depth
    BY <1>1, TopNode, TopMark DEF NodeSyms, MarkSyms
  <1>3. QED
    BY <1>1, <1>2, EntryIntro DEF ReduceTopMap, Pops, NodeSyms

LEMMA CloseBlockShape ==
  ASSUME TypeOK, CloseBlock
  PROVE  /\ Val(0) \in Nodes /\ Sym(0) \in {"BMAP", "TMAP"}
         /\ Pops(2, [sym |-> "ATOM", val |-> Val(0)])
  <1>1. Sym(0) \in {"BMAP", "TMAP"} /\ Sym(1) = "IOPEN" /\ stack \in Seq(Entry)
    BY DEF CloseBlock, TypeOK
  <1>2. Val(0) \in Nodes /\ 2 \in 0..Depth
    BY <1>1, TopNode, TopMark DEF NodeSyms, MarkSyms
  <1>3. QED
    BY <1>1, <1>2, EntryIntro DEF CloseBlock, Pops, NodeSyms

(* The root's reduction needs an atom, or an empty stack.                  *)
LEMMA ReduceRootShape ==
  ASSUME TypeOK, ReduceRoot
  PROVE  \/ /\ Val(0) \in Nodes /\ Sym(0) = "ATOM" /\ Depth = 1
            /\ AddNodes({Val(0)}, {})
         \/ stack = <<>> /\ UNCHANGED live
  <1>1. CASE Sym(0) = "ATOM" /\ Depth = 1 /\ AddNodes({Val(0)}, {})
    BY <1>1, TopFacts DEF TypeOK, NodeSyms
  <1>2. CASE Depth = 0 /\ UNCHANGED live
    BY <1>2 DEF TypeOK, Depth
  <1>3. QED
    BY <1>1, <1>2 DEF ReduceRoot

-----------------------------------------------------------------------------
(* Type correctness.                                                       *)

(* Freeing the tables, whose nodes are finitely many.                      *)
LEMMA StFreeTypes ==
  ASSUME TypeOK, StFree
  PROVE  /\ live' \subseteq Nodes /\ bad' \subseteq Nodes
         /\ anchorOf' \in [Nodes -> Names \cup {NONE}]
         /\ anchors' \in [Names -> Nodes \cup {NONE, DEFINING}]
         /\ badAnchors' \in [Names -> Nodes \cup {NONE}]
         /\ retired' \in Seq(Nodes)
         /\ strs' \in [Names -> Int]
  <1>1. live' \subseteq Nodes /\ bad' \subseteq Nodes
    BY DEF StFree, TypeOK
  <1>2. anchorOf' \in [Nodes -> Names \cup {NONE}]
    BY DEF StFree, TypeOK
  <1>3. /\ anchors' \in [Names -> Nodes \cup {NONE, DEFINING}]
        /\ badAnchors' \in [Names -> Nodes \cup {NONE}]
    BY DEF StFree
  <1>4. retired' \in Seq(Nodes)
    BY SeqFacts DEF StFree
  <1>5. ASSUME NEW a \in Names
        PROVE  strs[a] - Cardinality({n \in Filed : anchorOf[n] = a})
                 - Key(anchors, a) - Key(badAnchors, a) \in Int
    <2> DEFINE freed == {n \in Filed : anchorOf[n] = a}
    <2>1. freed \subseteq Nodes
      BY SeqFacts DEF Filed, Entries, TypeOK
    <2>2. IsFiniteSet(freed)
      BY <2>1, FS_Subset, ConstantsAssumption
    <2>3. Cardinality(freed) \in Nat
      BY <2>2, FS_CardinalityType
    <2>4. Key(anchors, a) \in Int /\ Key(badAnchors, a) \in Int /\ strs[a] \in Int
      BY DEF Key, TypeOK
    <2> HIDE DEF freed
    <2>5. strs[a] - Cardinality(freed) - Key(anchors, a) - Key(badAnchors, a) \in Int
      BY <2>3, <2>4
    <2>6. QED
      BY <2>5 DEF freed
  <1>6. strs' \in [Names -> Int]
    BY <1>5 DEF StFree
  <1>7. QED
    BY <1>1, <1>2, <1>3, <1>4, <1>6

LEMMA StepTypeOK == TypeOK /\ [Next]_vars => TypeOK'
  <1> SUFFICES ASSUME TypeOK, [Next]_vars
               PROVE  TypeOK'
    OBVIOUS
  <1>t. stack \in Seq(Entry)
    BY DEF TypeOK
  <1>k. \A t, a : Key(t, a) \in Int
    BY DEF Key
  <1>1. ASSUME NEW a \in Names, ShiftAnchor(a)
        PROVE  TypeOK'
    <2>1. stack' \in Seq(Entry)
      BY <1>1, <1>t, ShiftAnchorShape, PopsFacts
    <2>2. strs' \in [Names -> Int]
      BY <1>1, <1>k DEF ShiftAnchor, RemoveAnchor, TypeOK
    <2>3. retired' \in Seq(Nodes)
      BY <1>1 DEF ShiftAnchor, RemoveAnchor, TypeOK
    <2>4. QED
      BY <1>1, <2>1, <2>2, <2>3 DEF ShiftAnchor, RemoveAnchor, TypeOK
  <1>2. ASSUME NEW a \in Names, ShiftAlias(a)
        PROVE  TypeOK'
    <2>1. PICK n \in Nodes : GetAnchor(a, n) /\ Pops(0, [sym |-> "ATOM", val |-> n])
      BY <1>2, ShiftAliasShape
    <2>2. stack' \in Seq(Entry)
      BY <2>1, <1>t, PopsFacts
    <2>3. CASE UNCHANGED <<live, bad, anchorOf, badAnchors, strs>>
      BY <1>2, <2>2, <2>3 DEF ShiftAlias, TypeOK
    <2>4. CASE /\ live' = live \cup {n} /\ bad' = bad \cup {n}
               /\ anchorOf' = [anchorOf EXCEPT ![n] = a]
               /\ badAnchors' = IF anchors[a] = DEFINING
                                  THEN [badAnchors EXCEPT ![a] = n] ELSE badAnchors
               /\ strs' = [strs EXCEPT ![a] = @ + 1 + Key(anchors, a)]
      <3>1. live' \subseteq Nodes /\ bad' \subseteq Nodes
        BY <2>4 DEF TypeOK
      <3>2. anchorOf' \in [Nodes -> Names \cup {NONE}]
        BY <2>4 DEF TypeOK
      <3>3. badAnchors' \in [Names -> Nodes \cup {NONE}]
        BY <2>4 DEF TypeOK
      <3>4. Key(anchors, a) \in Int
        BY <1>k
      <3>5. strs' \in [Names -> Int]
        BY <2>4, <3>4 DEF TypeOK
      <3>6. QED
        BY <1>2, <2>2, <3>1, <3>2, <3>3, <3>5 DEF ShiftAlias, TypeOK
    <2>5. QED
      BY <2>1, <2>3, <2>4 DEF GetAnchor
  <1>3. CASE ShiftScalar
    BY <1>3, <1>t, ShiftScalarShape, PopsFacts DEF ShiftScalar, TypeOK
  <1>4. CASE \/ \E s \in {"LBRACKET", "LBRACE", "IOPEN"} : ShiftOpen(s)
             \/ ShiftSep
             \/ ShiftDash
    <2>1. stack' \in Seq(Entry)
      BY <1>4, <1>t, ShiftMarkShape, PopsFacts
    <2>2. QED
      BY <1>4, <2>1 DEF ShiftOpen, ShiftSep, ShiftDash, TypeOK
  <1>5. CASE ShiftColon
    BY <1>5, <1>t, ShiftColonShape, PopsFacts DEF ShiftColon, TypeOK
  <1>6. CASE ReduceAnchor
    <2> DEFINE a == Val(1)
               n == Val(0)
    <2>1. /\ n \in Nodes /\ a \in Names /\ stack' \in Seq(Entry)
          /\ AddAnchor(a, n)
          /\ UNCHANGED <<phase, docs, croaked, live, bad, shortcut, badAnchors>>
      BY <1>6, <1>t, ReduceAnchorShape, PopsFacts DEF ReduceAnchor
    <2> HIDE DEF a, n
    <2>2. CASE anchorOf[n] # NONE
      <3>1. strs' = [strs EXCEPT ![a] = @ - 1] /\ UNCHANGED <<anchorOf, anchors, retired>>
        BY <2>1, <2>2 DEF AddAnchor
      <3>2. QED
        BY <2>1, <3>1 DEF TypeOK
    <2>3. CASE anchorOf[n] = NONE
      <3>1. strs' = [strs EXCEPT ![a] = @ + 1 - Key(anchors, a)] /\ Key(anchors, a) \in Int
        BY <2>1, <2>3, <1>k DEF AddAnchor
      <3>2. strs' \in [Names -> Int]
        BY <2>1, <3>1 DEF TypeOK
      <3>3. /\ anchorOf' = [anchorOf EXCEPT ![n] = a]
            /\ anchors' = [anchors EXCEPT ![a] = n]
        BY <2>1, <2>3 DEF AddAnchor
      <3>4. /\ anchorOf' \in [Nodes -> Names \cup {NONE}]
            /\ anchors' \in [Names -> Nodes \cup {NONE, DEFINING}]
        BY <2>1, <3>3 DEF TypeOK
      <3>5. retired' \in Seq(Nodes)
        <4>1. retired' = IF anchors[a] \in Nodes THEN Append(retired, anchors[a]) ELSE retired
          BY <2>1, <2>3 DEF AddAnchor
        <4>2. QED
          BY <4>1 DEF TypeOK
      <3>6. QED
        BY <2>1, <3>2, <3>4, <3>5 DEF TypeOK
    <2>4. QED
      BY <2>2, <2>3
  <1>7. CASE ReduceFirstItem
    BY <1>7, <1>t, ReduceFirstItemShape, PopsFacts DEF ReduceFirstItem, AddNodes, TypeOK
  <1>8. CASE ReduceItem
    BY <1>8, <1>t, ReduceItemShape, PopsFacts DEF ReduceItem, AddNodes, TypeOK
  <1>9. CASE ReduceMapping
    BY <1>9, <1>t, ReduceMappingShape, PopsFacts DEF ReduceMapping, AddNodes, TypeOK
  <1>10. CASE ReduceLoneKey
    BY <1>10, <1>t, ReduceLoneKeyShape, PopsFacts DEF ReduceLoneKey, AddNodes, TypeOK
  <1>11. CASE ReduceFirstPair
    BY <1>11, <1>t, ReduceFirstPairShape, PopsFacts DEF ReduceFirstPair, TypeOK
  <1>12. CASE ReducePair
    BY <1>12, <1>t, ReducePairShape, PopsFacts DEF ReducePair, TypeOK
  <1>13. CASE ReduceDash
    <2>1. stack' \in Seq(Entry)
      BY <1>13, <1>t, ReduceDashShape, PopsFacts
    <2>2. CanAlloc => Fresh \in Nodes
      BY FreshIsDead DEF TypeOK
    <2>3. QED
      BY <1>13, <2>1, <2>2 DEF ReduceDash, AddNodes, TypeOK
  <1>14. CASE CloseFlow
    BY <1>14, <1>t, CloseFlowShape, PopsFacts DEF CloseFlow, TypeOK
  <1>15. CASE CloseEmptyFlow
    BY <1>15, <1>t, CloseEmptyFlowShape, PopsFacts DEF CloseEmptyFlow, TypeOK
  <1>16. CASE ReduceTopMap
    BY <1>16, <1>t, ReduceTopMapShape, PopsFacts DEF ReduceTopMap, TypeOK
  <1>17. CASE CloseBlock
    BY <1>17, <1>t, CloseBlockShape, PopsFacts DEF CloseBlock, TypeOK
  <1>18. CASE ReduceRoot
    BY <1>18 DEF ReduceRoot, AddNodes, TypeOK
  <1>19. CASE NextDocument \/ FreeParser \/ Croak
    <2>1. StFree
      BY <1>19 DEF NextDocument, FreeParser, Croak
    <2>2. stack' \in Seq(Entry)
      BY <1>19, <1>t, SeqFacts DEF NextDocument, FreeParser, Croak
    <2>3. shortcut' \in [Nodes -> Nodes \cup {NONE}]
      BY <1>19 DEF NextDocument, FreeParser, Croak, TypeOK
    <2>4. phase' \in {"parse", "done", "eof", "freed"} /\ croaked' \in BOOLEAN
      BY <1>19 DEF NextDocument, FreeParser, Croak, TypeOK
    <2>5. docs' \in Nat
      <3>1. docs' = docs \/ docs' = docs + 1
        BY <1>19 DEF NextDocument, FreeParser, Croak
      <3>2. QED
        BY <3>1 DEF TypeOK
    <2>6. QED
      BY <2>1, <2>2, <2>3, <2>4, <2>5, StFreeTypes DEF TypeOK
  <1>20. CASE UNCHANGED vars
    BY <1>20 DEF vars, TypeOK
  <1>21. QED
    BY <1>1, <1>2, <1>3, <1>4, <1>5, <1>6, <1>7, <1>8, <1>9, <1>10, <1>11, <1>12,
       <1>13, <1>14, <1>15, <1>16, <1>17, <1>18, <1>19, <1>20
    DEF Next

LEMMA InitTypeOK == Init => TypeOK
  <1> SUFFICES ASSUME Init PROVE TypeOK
    OBVIOUS
  <1>1. stack \in Seq(Entry) /\ retired \in Seq(Nodes)
    BY SeqFacts DEF Init
  <1>2. /\ phase \in {"parse", "done", "eof", "freed"} /\ docs \in Nat /\ croaked \in BOOLEAN
        /\ live \subseteq Nodes /\ bad \subseteq Nodes
    BY DEF Init
  <1>3. /\ anchorOf \in [Nodes -> Names \cup {NONE}]
        /\ shortcut \in [Nodes -> Nodes \cup {NONE}]
    BY DEF Init
  <1>4. /\ anchors \in [Names -> Nodes \cup {NONE, DEFINING}]
        /\ badAnchors \in [Names -> Nodes \cup {NONE}]
    BY DEF Init
  <1>5. strs \in [Names -> Int]
    BY DEF Init
  <1>6. QED
    BY <1>1, <1>2, <1>3, <1>4, <1>5 DEF TypeOK

(* The parser's variables keep their types through every parse.            *)
THEOREM TypeCorrect == Spec => []TypeOK
  BY InitTypeOK, StepTypeOK, PTL DEF Spec

-----------------------------------------------------------------------------
(* Which place holds which node.                                           *)

(* The nodes of the top entries.                                           *)
LEMMA TopPlace ==
  ASSUME TypeOK, StackSound, NEW k \in Nat, Sym(k) \in NodeSyms
  PROVE  /\ Depth - k \in Places
         /\ Val(k) \in live
         /\ Sym(k) \in {"SEQ", "MAP", "PAIR", "BMAP"} => anchorOf[Val(k)] = NONE
         /\ \A i \in Places : i # Depth - k /\ stack[i].val = Val(k) =>
              /\ anchorOf[Val(k)] # NONE
              /\ stack[i].sym \in {"ATOM", "KEY"} /\ Sym(k) \in {"ATOM", "KEY"}
  <1> DEFINE j == Depth - k
  <1>1. /\ j \in 1..Depth /\ DOMAIN stack = 1..Depth
        /\ stack[j].sym = Sym(k) /\ stack[j].val = Val(k)
    BY StackFacts, TopFacts DEF NodeSyms
  <1> HIDE DEF j
  <1>2. j \in Places
    BY <1>1 DEF Places
  <1>3. QED
    BY <1>1, <1>2 DEF StackSound, j

(* Every stack move: what it must know of the entries it keeps and of the  *)
(* entry it puts on top.                                                   *)
LEMMA StackStep ==
  ASSUME TypeOK, StackSound, NEW k, NEW e, Pops(k, e),
         \A i \in Places : i < Depth' =>
           /\ stack[i].val \in live'
           /\ stack[i].sym # "TMAP"
           /\ stack[i].sym \in {"SEQ", "MAP", "PAIR", "BMAP"} => anchorOf'[stack[i].val] = NONE
           /\ anchorOf[stack[i].val] # NONE => anchorOf'[stack[i].val] # NONE,
         e.sym \in NodeSyms =>
           /\ e.val \in live'
           /\ e.sym \in {"SEQ", "MAP", "PAIR", "BMAP"} => anchorOf'[e.val] = NONE
           /\ \A i \in Places : i < Depth' /\ stack[i].val = e.val =>
                /\ anchorOf'[e.val] # NONE
                /\ e.sym \in {"ATOM", "KEY"} /\ stack[i].sym \in {"ATOM", "KEY"}
  PROVE  StackSound'
  <1>1. /\ Depth' \in Nat /\ Depth \in Nat
        /\ DOMAIN stack = 1..Depth /\ DOMAIN stack' = 1..Depth'
        /\ stack'[Depth'] = e
        /\ \A i \in 1..Depth' : i # Depth' => i \in 1..Depth /\ stack'[i] = stack[i]
    BY PopsFacts DEF TypeOK
  <1>2. \A i \in Places' : \/ i = Depth' /\ stack'[i] = e /\ e.sym \in NodeSyms
                           \/ i < Depth' /\ i \in Places /\ stack'[i] = stack[i]
    BY <1>1 DEF Places
  <1>3. ASSUME NEW i \in Places'
        PROVE  /\ stack'[i].val \in live'
               /\ stack'[i].sym \in {"SEQ", "MAP", "PAIR", "BMAP"} => anchorOf'[stack'[i].val] = NONE
               /\ stack'[i].sym = "TMAP" => i = Depth'
    BY <1>2, <1>3
  <1>4. ASSUME NEW i \in Places', NEW j \in Places', i # j, stack'[i].val = stack'[j].val
        PROVE  anchorOf'[stack'[i].val] # NONE /\ stack'[i].sym \in {"ATOM", "KEY"}
    <2>1. CASE i < Depth' /\ j < Depth' /\ i \in Places /\ j \in Places
               /\ stack'[i] = stack[i] /\ stack'[j] = stack[j]
      BY <2>1, <1>4 DEF StackSound
    <2>2. CASE i = Depth' /\ stack'[i] = e /\ e.sym \in NodeSyms
               /\ j < Depth' /\ j \in Places /\ stack'[j] = stack[j]
      BY <2>2, <1>4
    <2>3. CASE j = Depth' /\ stack'[j] = e /\ e.sym \in NodeSyms
               /\ i < Depth' /\ i \in Places /\ stack'[i] = stack[i]
      BY <2>3, <1>4
    <2>4. QED
      BY <1>2, <1>4, <2>1, <2>2, <2>3
  <1>5. QED
    BY <1>3, <1>4 DEF StackSound

(* A step that leaves the tables and the names of nodes alone, and frees   *)
(* only nodes without an anchor.                                           *)
LEMMA TablesStep ==
  ASSUME TypeOK, TablesSound,
         UNCHANGED <<bad, anchorOf, anchors, badAnchors, retired>>,
         \A n \in live : anchorOf[n] # NONE => n \in live',
         \A n \in live' \ live : anchorOf[n] = NONE,
         NEW S, live' = S
  PROVE  TablesSound'
  <1>1. \A n \in Nodes \ live' : anchorOf[n] = NONE
    BY DEF TablesSound
  <1>2. bad \subseteq live'
    BY DEF TablesSound
  <1>3. \A a \in Names :
       /\ anchors[a] \in Nodes => anchors[a] \in live' \ bad /\ anchorOf[anchors[a]] = a
       /\ badAnchors[a] \in Nodes => badAnchors[a] \in bad /\ anchorOf[badAnchors[a]] = a
    BY ConstantsAssumption DEF TablesSound
  <1>4. \A i \in DOMAIN retired :
       /\ retired[i] \in live' \ bad
       /\ anchorOf[retired[i]] # NONE
       /\ \A a \in Names : retired[i] # anchors[a]
       /\ \A j \in DOMAIN retired : retired[i] = retired[j] => i = j
    BY DEF TablesSound
  <1>5. \A n \in bad : anchorOf[n] # NONE
    BY DEF TablesSound
  <1>6. QED
    BY <1>1, <1>2, <1>3, <1>4, <1>5 DEF TablesSound

(* The same for the shortcuts: the map that has one keeps its entry.       *)
LEMMA ShortcutsStep ==
  ASSUME TypeOK, ShortcutsSound, UNCHANGED <<shortcut, croaked>>,
         NEW k, NEW e, Pops(k, e),
         \A n \in Nodes : shortcut[n] # NONE =>
           /\ shortcut[n] \in live => shortcut[n] \in live'
           /\ anchorOf[shortcut[n]] = NONE => anchorOf'[shortcut[n]] = NONE
           /\ e.sym \in NodeSyms => e.val # shortcut[n],
         \A i \in Places : /\ stack[i].sym \in {"BMAP", "TMAP"}
                           /\ i >= Depth'
                           /\ shortcut[stack[i].val] # NONE
                           => e.sym \in {"BMAP", "TMAP"} /\ e.val = stack[i].val
  PROVE  ShortcutsSound'
  <1>1. /\ Depth' \in Nat /\ Depth \in Nat
        /\ DOMAIN stack = 1..Depth /\ DOMAIN stack' = 1..Depth'
        /\ stack'[Depth'] = e /\ k \in 0..Depth /\ Depth' = Depth - k + 1
        /\ \A i \in 1..Depth' : i # Depth' => i \in 1..Depth /\ stack'[i] = stack[i]
    BY PopsFacts DEF TypeOK
  <1>2. \A i \in Places' : \/ i = Depth' /\ stack'[i] = e /\ e.sym \in NodeSyms
                           \/ i \in Places /\ stack'[i] = stack[i]
    BY <1>1 DEF Places
  <1>3. SUFFICES ASSUME ~croaked PROVE ShortcutsSound'
    BY DEF ShortcutsSound
  <1>4. ASSUME NEW n \in Nodes, shortcut[n] # NONE
        PROVE  /\ shortcut[n] \in live' /\ anchorOf'[shortcut[n]] = NONE
               /\ \A i \in Places' : stack'[i].val # shortcut[n]
    BY <1>2, <1>3, <1>4 DEF ShortcutsSound
  <1>5. ASSUME NEW n \in Nodes, shortcut[n] # NONE
        PROVE  \E i \in Places' : stack'[i] \in [sym : {"BMAP", "TMAP"}, val : {n}]
    <2>1. PICK i \in Places : stack[i] \in [sym : {"BMAP", "TMAP"}, val : {n}]
      BY <1>3, <1>5 DEF ShortcutsSound
    <2>2. stack[i].sym \in {"BMAP", "TMAP"} /\ stack[i].val = n /\ i \in 1..Depth
      BY <2>1, <1>1 DEF Places
    <2>3. CASE i < Depth'
      <3>1. i \in 1..Depth' /\ stack'[i] = stack[i]
        BY <1>1, <2>2, <2>3
      <3>2. QED
        BY <1>1, <2>1, <2>2, <3>1 DEF Places, NodeSyms
    <2>4. CASE i >= Depth'
      <3>1. e.sym \in {"BMAP", "TMAP"} /\ e.val = n /\ e \in Entry
        BY <1>5, <2>2, <2>4 DEF Pops
      <3>2. e \in [sym : {"BMAP", "TMAP"}, val : {n}]
        BY <3>1 DEF Entry
      <3>3. Depth' \in Places'
        BY <1>1, <3>1 DEF Places, NodeSyms
      <3>4. QED
        BY <1>1, <3>2, <3>3
    <2>5. QED
      BY <1>1, <2>2, <2>3, <2>4
  <1>6. \A m, n \in Nodes : shortcut[m] = shortcut[n] /\ shortcut[m] # NONE => m = n
    BY <1>3 DEF ShortcutsSound
  <1>7. QED
    BY <1>4, <1>5, <1>6 DEF ShortcutsSound

(* Only the top entry can be "TMAP", and only a running parse pushes.      *)
LEMMA KeptEntries ==
  ASSUME TypeOK, StackSound, NEW k, NEW e, Pops(k, e), k # 0 \/ Sym(0) # "TMAP"
  PROVE  /\ \A i \in Places : i < Depth' =>
              /\ i \in 1..(Depth - k)
              /\ stack[i].val \in live
              /\ stack[i].sym # "TMAP"
              /\ stack[i].sym \in {"SEQ", "MAP", "PAIR", "BMAP"} => anchorOf[stack[i].val] = NONE
  <1>1. /\ Depth \in Nat /\ DOMAIN stack = 1..Depth
        /\ k \in 0..Depth /\ Depth' = Depth - k + 1
    BY PopsFacts DEF TypeOK
  <1>2. ASSUME NEW i \in Places, i < Depth', stack[i].sym = "TMAP"
        PROVE  FALSE
    <2>1. i = Depth
      BY <1>2 DEF StackSound
    <2>2. k = 0 /\ Depth > 0
      BY <1>1, <1>2, <2>1 DEF Places
    <2>3. Sym(0) = "TMAP"
      BY <1>1, <1>2, <2>1, <2>2 DEF Sym
    <2>4. QED
      BY <2>2, <2>3
  <1>3. QED
    BY <1>1, <1>2 DEF StackSound, Places

(* A move of the parse that hands the nodes `freed' to the handler, builds *)
(* the node `made' if any, and leaves the tables alone.                    *)
Handling(k, e, freed, made) ==
  /\ Pops(k, e)
  /\ k # 0 \/ Sym(0) # "TMAP"
  /\ phase = "parse"
  /\ UNCHANGED <<phase, croaked, bad, anchorOf, anchors, badAnchors, retired>>
  /\ live' = (live \ freed) \cup made
  /\ made \subseteq Nodes \ live
  /\ \A n \in freed \cap Nodes :
       /\ anchorOf[n] = NONE
       /\ \A i \in Places : i < Depth' => stack[i].val # n
  /\ e.sym \in NodeSyms =>
       /\ e.val \in live'
       /\ e.sym \in {"SEQ", "MAP", "PAIR", "BMAP"} => anchorOf[e.val] = NONE
       /\ \A i \in Places : i < Depth' /\ stack[i].val = e.val =>
            /\ anchorOf[e.val] # NONE
            /\ e.sym \in {"ATOM", "KEY"} /\ stack[i].sym \in {"ATOM", "KEY"}

LEMMA HandlingStep ==
  ASSUME OwnershipInv, TypeOK', NEW k, NEW e, NEW freed, NEW made,
         Handling(k, e, freed, made)
  PROVE  StackSound' /\ TablesSound' /\ PhaseSound'
  <1>1. TypeOK /\ StackSound /\ TablesSound /\ PhaseSound
    BY DEF OwnershipInv
  <1>2. /\ Pops(k, e) /\ (k # 0 \/ Sym(0) # "TMAP") /\ phase = "parse"
        /\ UNCHANGED <<phase, croaked, bad, anchorOf, anchors, badAnchors, retired>>
        /\ live' = (live \ freed) \cup made
    BY DEF Handling
  <1>3. \A i \in Places : i < Depth' =>
              /\ stack[i].val \in live'
              /\ stack[i].sym # "TMAP"
              /\ stack[i].sym \in {"SEQ", "MAP", "PAIR", "BMAP"} => anchorOf[stack[i].val] = NONE
    BY <1>1, <1>2, KeptEntries DEF TypeOK, Handling
  <1>4. StackSound'
    BY <1>1, <1>2, <1>3, StackStep DEF Handling
  <1>5. /\ \A n \in live : anchorOf[n] # NONE => n \in live'
        /\ \A n \in live' \ live : anchorOf[n] = NONE
    BY <1>1 DEF TypeOK, TablesSound, Handling
  <1>6. TablesSound'
    BY <1>1, <1>2, <1>5, TablesStep
  <1>7. PhaseSound'
    BY <1>1, <1>2 DEF PhaseSound
  <1>8. QED
    BY <1>4, <1>6, <1>7

(* Such a move may also leave the shortcuts alone.                         *)
NotPending(n) == \A m \in Nodes : shortcut[m] # n
PlainHandling(k, e, freed, made) ==
  /\ Handling(k, e, freed, made)
  /\ UNCHANGED shortcut
  /\ \A n \in freed \cap Nodes : NotPending(n)
  /\ e.sym \in NodeSyms => NotPending(e.val)
  /\ \A i \in Places : stack[i].sym \in {"BMAP", "TMAP"} /\ i >= Depth' =>
       \/ shortcut[stack[i].val] = NONE
       \/ e.sym \in {"BMAP", "TMAP"} /\ e.val = stack[i].val

LEMMA PlainStep ==
  ASSUME OwnershipInv, TypeOK', NEW k, NEW e, NEW freed, NEW made,
         PlainHandling(k, e, freed, made)
  PROVE  OwnershipInv'
  <1>1. /\ TypeOK /\ ShortcutsSound /\ Handling(k, e, freed, made) /\ Pops(k, e)
        /\ UNCHANGED <<shortcut, croaked>>
    BY DEF OwnershipInv, PlainHandling, Handling
  <1>2. StackSound' /\ TablesSound' /\ PhaseSound'
    BY <1>1, HandlingStep
  <1>3. \A n \in Nodes : shortcut[n] # NONE =>
           /\ shortcut[n] \in live => shortcut[n] \in live'
           /\ anchorOf[shortcut[n]] = NONE => anchorOf'[shortcut[n]] = NONE
           /\ e.sym \in NodeSyms => e.val # shortcut[n]
    BY <1>1 DEF TypeOK, Handling, PlainHandling, NotPending
  <1>4. ShortcutsSound'
    BY <1>1, <1>3, ShortcutsStep DEF PlainHandling
  <1>5. QED
    BY <1>2, <1>4 DEF OwnershipInv

(* While the parse runs, a node on the stack is nobody's shortcut, and no  *)
(* freed node is either.                                                   *)
LEMMA NotAShortcut ==
  ASSUME OwnershipInv, phase = "parse", NEW n \in Nodes, n \notin live \/ n \in Held
  PROVE  NotPending(n)
  <1>1. ~croaked
    BY DEF OwnershipInv, PhaseSound
  <1>2. ShortcutsSound /\ n # NONE
    BY ConstantsAssumption DEF OwnershipInv
  <1>3. QED
    BY <1>1, <1>2 DEF ShortcutsSound, Held, NotPending

(* The stack's top entry, once the invariant holds.                        *)
LEMMA TopHeld ==
  ASSUME OwnershipInv, phase = "parse", NEW k \in Nat, Sym(k) \in NodeSyms
  PROVE  /\ Val(k) \in Held
         /\ NotPending(Val(k))
  <1>1. Depth - k \in Places /\ stack[Depth - k].val = Val(k) /\ Val(k) \in live
    BY TopPlace, TopFacts DEF OwnershipInv, TypeOK, NodeSyms
  <1>2. Val(k) \in Nodes
    BY <1>1 DEF OwnershipInv, TypeOK
  <1>3. Val(k) \in Held
    BY <1>1 DEF Held
  <1>4. QED
    BY <1>2, <1>3, NotAShortcut

LEMMA OwnShiftScalar ==
  ASSUME OwnershipInv, TypeOK', ShiftScalar
  PROVE  OwnershipInv'
  <1> DEFINE e == [sym |-> "ATOM", val |-> Fresh]
  <1>1. /\ Fresh \in Nodes \ live /\ Pops(0, e) /\ phase = "parse" /\ Sym(0) # "TMAP"
        /\ live' = (live \ {}) \cup {Fresh}
        /\ UNCHANGED <<phase, croaked, shortcut, bad, anchorOf, anchors, badAnchors, retired>>
    BY ShiftScalarShape DEF ShiftScalar, OwnershipInv, Expecting
  <1>2. /\ Depth' = Depth + 1
        /\ \A i \in Places : i < Depth' /\ stack[i].val \in live
    BY <1>1, PopsFacts DEF OwnershipInv, TypeOK, Places, StackSound
  <1>3. NotPending(Fresh)
    BY <1>1, NotAShortcut
  <1>4. /\ e.val = Fresh /\ e.sym = "ATOM"
        /\ \A i \in Places : ~(i >= Depth')
    BY <1>2 DEF Places, OwnershipInv, TypeOK
  <1> HIDE DEF e
  <1>5. PlainHandling(0, e, {}, {Fresh})
    BY <1>1, <1>2, <1>3, <1>4 DEF PlainHandling, Handling
  <1>6. QED
    BY <1>5, PlainStep

(* The entries a move pops.                                                *)
LEMMA PoppedEntries ==
  ASSUME TypeOK, NEW k, NEW e, Pops(k, e)
  PROVE  /\ Depth' = Depth - k + 1 /\ Depth \in Nat /\ k \in Nat
         /\ \A i \in Places : i >= Depth' =>
              \E j \in 0..(k - 1) : /\ i = Depth - j
                                    /\ stack[i].sym = Sym(j) /\ stack[i].val = Val(j)
  <1>1. /\ Depth' = Depth - k + 1 /\ Depth \in Nat /\ k \in 0..Depth
        /\ DOMAIN stack = 1..Depth
    BY PopsFacts DEF TypeOK
  <1>2. ASSUME NEW i \in Places, i >= Depth'
        PROVE  \E j \in 0..(k - 1) : /\ i = Depth - j
                                     /\ stack[i].sym = Sym(j) /\ stack[i].val = Val(j)
    <2>1. i \in 1..Depth /\ Depth - i \in 0..(k - 1) /\ i = Depth - (Depth - i)
      BY <1>1, <1>2 DEF Places
    <2> DEFINE j == Depth - i
    <2>2. j \in 0..(k - 1) /\ j < Depth /\ Depth - j = i
      BY <1>1, <2>1
    <2> HIDE DEF j
    <2>3. stack[i].sym = Sym(j) /\ stack[i].val = Val(j)
      BY <2>2 DEF Sym, Val
    <2>4. QED
      BY <2>2, <2>3
  <1>3. QED
    BY <1>1, <1>2

LEMMA OwnCloseEmptyFlow ==
  ASSUME OwnershipInv, TypeOK', CloseEmptyFlow
  PROVE  OwnershipInv'
  <1> DEFINE e == [sym |-> "ATOM", val |-> Fresh]
  <1>1. /\ Fresh \in Nodes \ live /\ Pops(1, e) /\ phase = "parse"
        /\ Sym(0) \in {"LBRACKET", "LBRACE"}
        /\ live' = (live \ {}) \cup {Fresh}
        /\ UNCHANGED <<phase, croaked, shortcut, bad, anchorOf, anchors, badAnchors, retired>>
    BY CloseEmptyFlowShape DEF CloseEmptyFlow, OwnershipInv
  <1>2. \A i \in Places : i >= Depth' => stack[i].sym \in {"LBRACKET", "LBRACE"}
    BY <1>1, PoppedEntries DEF OwnershipInv
  <1>3. NotPending(Fresh)
    BY <1>1, NotAShortcut
  <1>4. \A i \in Places : stack[i].val # Fresh
    BY <1>1 DEF OwnershipInv, StackSound
  <1>5. e.val = Fresh /\ e.sym = "ATOM"
    OBVIOUS
  <1> HIDE DEF e
  <1>6. PlainHandling(1, e, {}, {Fresh})
    BY <1>1, <1>2, <1>3, <1>4, <1>5 DEF PlainHandling, Handling
  <1>7. QED
    BY <1>6, PlainStep

LEMMA OwnShiftMark ==
  ASSUME OwnershipInv, TypeOK', \/ \E s \in {"LBRACKET", "LBRACE", "IOPEN"} : ShiftOpen(s)
                                \/ ShiftSep
                                \/ ShiftDash
  PROVE  OwnershipInv'
  <1>1. PICK s \in MarkSyms : Pops(0, [sym |-> s, val |-> NONE])
    BY ShiftMarkShape DEF OwnershipInv
  <1> DEFINE e == [sym |-> s, val |-> NONE]
  <1>2. /\ Pops(0, e) /\ phase = "parse" /\ Sym(0) # "TMAP"
        /\ live' = (live \ {}) \cup {}
        /\ UNCHANGED <<phase, croaked, shortcut, bad, anchorOf, anchors, badAnchors, retired>>
    BY <1>1 DEF ShiftOpen, ShiftSep, ShiftDash, Expecting, Parsing
  <1>3. \A i \in Places : ~(i >= Depth')
    BY <1>2, PoppedEntries DEF OwnershipInv
  <1>4. e.sym \notin NodeSyms
    BY DEF MarkSyms, NodeSyms
  <1> HIDE DEF e
  <1>5. PlainHandling(0, e, {}, {})
    BY <1>2, <1>3, <1>4 DEF PlainHandling, Handling
  <1>6. QED
    BY <1>5, PlainStep

LEMMA OwnShiftColon ==
  ASSUME OwnershipInv, TypeOK', ShiftColon
  PROVE  OwnershipInv'
  <1> DEFINE e == [sym |-> "KEY", val |-> Val(0)]
  <1>1. /\ Pops(1, e) /\ phase = "parse" /\ Sym(0) = "ATOM"
        /\ live' = (live \ {}) \cup {}
        /\ UNCHANGED <<phase, croaked, shortcut, bad, anchorOf, anchors, badAnchors, retired>>
    BY ShiftColonShape DEF ShiftColon, Parsing, OwnershipInv
  <1>2. \A i \in Places : i >= Depth' => stack[i].sym = "ATOM"
    BY <1>1, PoppedEntries DEF OwnershipInv
  <1>3. NotPending(Val(0))
    BY <1>1, TopHeld DEF NodeSyms
  <1>4. /\ Val(0) \in live
        /\ \A i \in Places : i < Depth' /\ stack[i].val = Val(0) =>
             anchorOf[Val(0)] # NONE /\ stack[i].sym \in {"ATOM", "KEY"}
    BY <1>1, TopPlace, PoppedEntries DEF OwnershipInv, NodeSyms
  <1>5. e.val = Val(0) /\ e.sym = "KEY"
    OBVIOUS
  <1> HIDE DEF e
  <1>6. PlainHandling(1, e, {}, {})
    BY <1>1, <1>2, <1>3, <1>4, <1>5 DEF PlainHandling, Handling
  <1>7. QED
    BY <1>6, PlainStep

LEMMA OwnReduceFirstItem ==
  ASSUME OwnershipInv, TypeOK', ReduceFirstItem
  PROVE  OwnershipInv'
  <1> DEFINE e == [sym |-> "SEQ", val |-> Fresh]
             freed == Unanchored({Val(0)})
  <1>1. /\ Pops(1, e) /\ phase = "parse" /\ Sym(0) \in {"ATOM", "PAIR"}
        /\ Fresh \in Nodes \ live
        /\ live' = (live \ freed) \cup {Fresh}
        /\ UNCHANGED <<phase, croaked, shortcut, bad, anchorOf, anchors, badAnchors, retired>>
    BY ReduceFirstItemShape DEF ReduceFirstItem, AddNodes, OwnershipInv
  <1>2. \A i \in Places : i >= Depth' => stack[i].sym \in {"ATOM", "PAIR"}
    BY <1>1, PoppedEntries DEF OwnershipInv
  <1>3. NotPending(Fresh) /\ NotPending(Val(0))
    BY <1>1, TopHeld, NotAShortcut DEF NodeSyms
  <1>4. \A n \in freed : /\ n = Val(0) /\ anchorOf[n] = NONE
                         /\ \A i \in Places : i < Depth' => stack[i].val # n
    BY <1>1, TopPlace, PoppedEntries DEF OwnershipInv, NodeSyms, Unanchored
  <1>5. /\ \A i \in Places : stack[i].val # Fresh
        /\ anchorOf[Fresh] = NONE
    BY <1>1 DEF OwnershipInv, StackSound, TablesSound
  <1>6. e.val = Fresh /\ e.sym = "SEQ"
    OBVIOUS
  <1> HIDE DEF e, freed
  <1>7. PlainHandling(1, e, freed, {Fresh})
    BY <1>1, <1>2, <1>3, <1>4, <1>5, <1>6 DEF PlainHandling, Handling
  <1>8. QED
    BY <1>7, PlainStep

LEMMA OwnReduceLoneKey ==
  ASSUME OwnershipInv, TypeOK', ReduceLoneKey
  PROVE  OwnershipInv'
  <1> DEFINE e == [sym |-> "PAIR", val |-> Fresh]
             freed == Unanchored({Val(0)})
  <1>1. /\ Pops(1, e) /\ phase = "parse" /\ Sym(0) = "ATOM"
        /\ Fresh \in Nodes \ live
        /\ live' = (live \ freed) \cup {Fresh}
        /\ UNCHANGED <<phase, croaked, shortcut, bad, anchorOf, anchors, badAnchors, retired>>
    BY ReduceLoneKeyShape DEF ReduceLoneKey, Parsing, AddNodes, OwnershipInv
  <1>2. \A i \in Places : i >= Depth' => stack[i].sym = "ATOM"
    BY <1>1, PoppedEntries DEF OwnershipInv
  <1>3. NotPending(Fresh) /\ NotPending(Val(0))
    BY <1>1, TopHeld, NotAShortcut DEF NodeSyms
  <1>4. \A n \in freed : /\ n = Val(0) /\ anchorOf[n] = NONE
                         /\ \A i \in Places : i < Depth' => stack[i].val # n
    BY <1>1, TopPlace, PoppedEntries DEF OwnershipInv, NodeSyms, Unanchored
  <1>5. /\ \A i \in Places : stack[i].val # Fresh
        /\ anchorOf[Fresh] = NONE
    BY <1>1 DEF OwnershipInv, StackSound, TablesSound
  <1>6. e.val = Fresh /\ e.sym = "PAIR"
    OBVIOUS
  <1> HIDE DEF e, freed
  <1>7. PlainHandling(1, e, freed, {Fresh})
    BY <1>1, <1>2, <1>3, <1>4, <1>5, <1>6 DEF PlainHandling, Handling
  <1>8. QED
    BY <1>7, PlainStep

LEMMA OwnReduceMapping ==
  ASSUME OwnershipInv, TypeOK', ReduceMapping
  PROVE  OwnershipInv'
  <1> DEFINE e == [sym |-> "PAIR", val |-> Fresh]
             freed == Unanchored({Val(0), Val(1)})
  <1>1. /\ Pops(2, e) /\ phase = "parse" /\ Sym(0) = "ATOM" /\ Sym(1) = "KEY"
        /\ Fresh \in Nodes \ live
        /\ live' = (live \ freed) \cup {Fresh}
        /\ UNCHANGED <<phase, croaked, shortcut, bad, anchorOf, anchors, badAnchors, retired>>
    BY ReduceMappingShape DEF ReduceMapping, Parsing, AddNodes, OwnershipInv
  <1>2. \A i \in Places : i >= Depth' => stack[i].sym \in {"ATOM", "KEY"}
    <2>1. ASSUME NEW i \in Places, i >= Depth'
          PROVE  stack[i].sym \in {"ATOM", "KEY"}
      <3>1. PICK j \in 0..1 : stack[i].sym = Sym(j)
        BY <1>1, <2>1, PoppedEntries DEF OwnershipInv
      <3>2. QED
        BY <1>1, <3>1
    <2>2. QED
      BY <2>1
  <1>3. NotPending(Fresh) /\ NotPending(Val(0)) /\ NotPending(Val(1))
    BY <1>1, TopHeld, NotAShortcut DEF NodeSyms
  <1>4. \A n \in freed : /\ NotPending(n) /\ anchorOf[n] = NONE
                         /\ \A i \in Places : i < Depth' => stack[i].val # n
    <2>1. /\ \A i \in Places : i # Depth - 0 /\ stack[i].val = Val(0) => anchorOf[Val(0)] # NONE
          /\ \A i \in Places : i # Depth - 1 /\ stack[i].val = Val(1) => anchorOf[Val(1)] # NONE
      BY <1>1, TopPlace DEF OwnershipInv, NodeSyms
    <2>2. Depth' = Depth - 1 /\ Depth \in Nat
      BY <1>1, PoppedEntries DEF OwnershipInv
    <2>3. QED
      BY <1>3, <2>1, <2>2 DEF Unanchored, Places, OwnershipInv, TypeOK
  <1>5. /\ \A i \in Places : stack[i].val # Fresh
        /\ anchorOf[Fresh] = NONE
    BY <1>1 DEF OwnershipInv, StackSound, TablesSound
  <1>6. e.val = Fresh /\ e.sym = "PAIR"
    OBVIOUS
  <1> HIDE DEF e, freed
  <1>7. PlainHandling(2, e, freed, {Fresh})
    BY <1>1, <1>2, <1>3, <1>4, <1>5, <1>6 DEF PlainHandling, Handling
  <1>8. QED
    BY <1>7, PlainStep

(* The entry under the top one survives as the top entry.                  *)
LEMMA UnderTop ==
  ASSUME OwnershipInv, NEW k \in Nat, Sym(k) \in NodeSyms
  PROVE  /\ stack[Depth - k].sym = Sym(k) /\ stack[Depth - k].val = Val(k)
         /\ Depth - k \in Places
  BY TopPlace, TopFacts DEF OwnershipInv, TypeOK, NodeSyms

LEMMA OwnReduceItem ==
  ASSUME OwnershipInv, TypeOK', ReduceItem
  PROVE  OwnershipInv'
  <1> DEFINE e == stack[Depth - 1]
             freed == Unanchored({Val(0)})
  <1>1. /\ Pops(2, e) /\ phase = "parse" /\ Sym(0) \in {"ATOM", "PAIR"} /\ Sym(1) = "SEQ"
        /\ live' = (live \ freed) \cup {}
        /\ UNCHANGED <<phase, croaked, shortcut, bad, anchorOf, anchors, badAnchors, retired>>
    BY ReduceItemShape DEF ReduceItem, AddNodes, OwnershipInv
  <1>2. /\ Depth' = Depth - 1 /\ Depth \in Nat
        /\ \A i \in Places : i >= Depth' => stack[i].sym \in {"ATOM", "PAIR", "SEQ"}
    <2>1. ASSUME NEW i \in Places, i >= Depth'
          PROVE  stack[i].sym \in {"ATOM", "PAIR", "SEQ"}
      <3>1. PICK j \in 0..1 : stack[i].sym = Sym(j)
        BY <1>1, <2>1, PoppedEntries DEF OwnershipInv
      <3>2. QED
        BY <1>1, <3>1
    <2>2. QED
      BY <1>1, <2>1, PoppedEntries DEF OwnershipInv
  <1>3. NotPending(Val(1)) /\ NotPending(Val(0))
    BY <1>1, TopHeld, NotAShortcut DEF NodeSyms
  <1>4. /\ \A i \in Places : i # Depth - 0 /\ stack[i].val = Val(0) => anchorOf[Val(0)] # NONE
        /\ \A i \in Places : i # Depth - 1 => stack[i].val # Val(1)
        /\ Val(1) \in live /\ anchorOf[Val(1)] = NONE
    BY <1>1, TopPlace DEF OwnershipInv, NodeSyms
  <1>5. e.val = Val(1) /\ e.sym = "SEQ" /\ Depth - 0 \in Places /\ stack[Depth - 0].val = Val(0)
    BY <1>1, UnderTop DEF NodeSyms
  <1>6. \A n \in freed : /\ n = Val(0) /\ anchorOf[n] = NONE /\ n # Val(1)
                         /\ \A i \in Places : i < Depth' => stack[i].val # n
    BY <1>2, <1>4, <1>5 DEF Unanchored, Places, OwnershipInv, TypeOK
  <1> HIDE DEF e, freed
  <1>7. PlainHandling(2, e, freed, {})
    BY <1>1, <1>2, <1>3, <1>4, <1>5, <1>6 DEF PlainHandling, Handling
  <1>8. QED
    BY <1>7, PlainStep

LEMMA OwnReduceFirstPair ==
  ASSUME OwnershipInv, TypeOK', ReduceFirstPair
  PROVE  OwnershipInv'
  <1>1. PICK s \in {"MAP", "BMAP"} : Pops(1, [sym |-> s, val |-> Val(0)])
    BY ReduceFirstPairShape DEF OwnershipInv
  <1> DEFINE e == [sym |-> s, val |-> Val(0)]
  <1>2. /\ Pops(1, e) /\ phase = "parse" /\ Sym(0) = "PAIR"
        /\ live' = (live \ {}) \cup {}
        /\ UNCHANGED <<phase, croaked, shortcut, bad, anchorOf, anchors, badAnchors, retired>>
    BY <1>1, ReduceFirstPairShape DEF ReduceFirstPair, Parsing, OwnershipInv
  <1>3. \A i \in Places : i >= Depth' => stack[i].sym = "PAIR"
    BY <1>2, PoppedEntries DEF OwnershipInv
  <1>4. NotPending(Val(0))
    BY <1>2, TopHeld DEF NodeSyms
  <1>5. /\ Val(0) \in live /\ anchorOf[Val(0)] = NONE
        /\ \A i \in Places : i < Depth' => stack[i].val # Val(0)
    BY <1>2, TopPlace, PoppedEntries DEF OwnershipInv, NodeSyms
  <1>6. e.val = Val(0) /\ e.sym \in {"MAP", "BMAP"}
    OBVIOUS
  <1> HIDE DEF e
  <1>7. PlainHandling(1, e, {}, {})
    BY <1>2, <1>3, <1>4, <1>5, <1>6 DEF PlainHandling, Handling
  <1>8. QED
    BY <1>7, PlainStep

LEMMA OwnCloseFlow ==
  ASSUME OwnershipInv, TypeOK', CloseFlow
  PROVE  OwnershipInv'
  <1> DEFINE e == [sym |-> "ATOM", val |-> Val(0)]
  <1>1. /\ Pops(2, e) /\ phase = "parse"
        /\ Sym(0) \in {"SEQ", "MAP"} /\ Sym(1) \in {"LBRACKET", "LBRACE"}
        /\ live' = (live \ {}) \cup {}
        /\ UNCHANGED <<phase, croaked, shortcut, bad, anchorOf, anchors, badAnchors, retired>>
    BY CloseFlowShape DEF CloseFlow, OwnershipInv
  <1>2. \A i \in Places : i >= Depth' => stack[i].sym \notin {"BMAP", "TMAP"}
    <2>1. ASSUME NEW i \in Places, i >= Depth'
          PROVE  stack[i].sym \notin {"BMAP", "TMAP"}
      <3>1. PICK j \in 0..1 : stack[i].sym = Sym(j)
        BY <1>1, <2>1, PoppedEntries DEF OwnershipInv
      <3>2. QED
        BY <1>1, <3>1
    <2>2. QED
      BY <2>1
  <1>3. NotPending(Val(0))
    BY <1>1, TopHeld DEF NodeSyms
  <1>4. /\ Val(0) \in live
        /\ \A i \in Places : i < Depth' => stack[i].val # Val(0)
    BY <1>1, TopPlace, PoppedEntries DEF OwnershipInv, NodeSyms
  <1>5. e.val = Val(0) /\ e.sym = "ATOM"
    OBVIOUS
  <1> HIDE DEF e
  <1>6. PlainHandling(2, e, {}, {})
    BY <1>1, <1>2, <1>3, <1>4, <1>5 DEF PlainHandling, Handling
  <1>7. QED
    BY <1>6, PlainStep

LEMMA OwnReduceTopMap ==
  ASSUME OwnershipInv, TypeOK', ReduceTopMap
  PROVE  OwnershipInv'
  <1> DEFINE e == [sym |-> "TMAP", val |-> Val(0)]
  <1>1. /\ Pops(2, e) /\ phase = "parse" /\ Sym(0) = "BMAP" /\ Sym(1) = "SEP"
        /\ live' = (live \ {}) \cup {}
        /\ UNCHANGED <<phase, croaked, shortcut, bad, anchorOf, anchors, badAnchors, retired>>
    BY ReduceTopMapShape DEF ReduceTopMap, Parsing, OwnershipInv
  <1>2. \A i \in Places : i >= Depth' => stack[i].sym = "SEP" \/ stack[i].val = Val(0)
    <2>1. ASSUME NEW i \in Places, i >= Depth'
          PROVE  stack[i].sym = "SEP" \/ stack[i].val = Val(0)
      <3>1. PICK j \in 0..1 : stack[i].sym = Sym(j) /\ stack[i].val = Val(j)
        BY <1>1, <2>1, PoppedEntries DEF OwnershipInv
      <3>2. QED
        BY <1>1, <3>1
    <2>2. QED
      BY <2>1
  <1>3. NotPending(Val(0))
    BY <1>1, TopHeld DEF NodeSyms
  <1>4. /\ Val(0) \in live
        /\ \A i \in Places : i < Depth' => stack[i].val # Val(0)
    BY <1>1, TopPlace, PoppedEntries DEF OwnershipInv, NodeSyms
  <1>5. e.val = Val(0) /\ e.sym = "TMAP"
    OBVIOUS
  <1> HIDE DEF e
  <1>6. PlainHandling(2, e, {}, {})
    BY <1>1, <1>2, <1>3, <1>4, <1>5 DEF PlainHandling, Handling, NodeSyms
  <1>7. QED
    BY <1>6, PlainStep

-----------------------------------------------------------------------------
(* Shortcuts come and go.                                                  *)

(* Only the shortcut of the map m changes, from one sequence or none to    *)
(* none, or to a new one; m has an entry on the stack while it has one.    *)
LEMMA ShortcutMoves ==
  ASSUME OwnershipInv, TypeOK', phase = "parse", UNCHANGED <<croaked, anchorOf>>,
         NEW k, NEW e, Pops(k, e), e.sym \in NodeSyms,
         NEW m \in Nodes, NEW q, shortcut' = [shortcut EXCEPT ![m] = q],
         \A n \in live : anchorOf[n] = NONE /\ n \notin live' => n = shortcut[m] \/ NotPending(n),
         e.val \in Held,
         q # NONE => /\ q \in live' \ live
                     /\ e.sym = "BMAP" /\ e.val = m,
         \A i \in Places : /\ stack[i].sym \in {"BMAP", "TMAP"}
                           /\ i >= Depth'
                           /\ stack[i].val # m
                           => shortcut[stack[i].val] = NONE
  PROVE  ShortcutsSound'
  <1>1. /\ Depth' \in Nat /\ Depth \in Nat
        /\ DOMAIN stack = 1..Depth /\ DOMAIN stack' = 1..Depth'
        /\ stack'[Depth'] = e
        /\ \A i \in 1..Depth' : i # Depth' => i \in 1..Depth /\ stack'[i] = stack[i]
    BY PopsFacts DEF OwnershipInv, TypeOK
  <1>2. \A i \in Places' : stack'[i].val \in Held
    BY <1>1 DEF Places, Held
  <1>3. TypeOK /\ ShortcutsSound /\ ~croaked /\ StackSound /\ TablesSound
    BY DEF OwnershipInv, PhaseSound
  <1>4. \A n \in Held : n \in live /\ NotPending(n)
    BY <1>3, NotAShortcut DEF Held, StackSound, TypeOK
  <1>5. \A n \in Nodes : shortcut'[n] = IF n = m THEN q ELSE shortcut[n]
    BY <1>3 DEF TypeOK
  <1>6. ASSUME NEW n \in Nodes, n # m, shortcut[n] # NONE
        PROVE  /\ shortcut[n] \in live' /\ anchorOf'[shortcut[n]] = NONE
               /\ shortcut[n] # shortcut[m]
               /\ \A i \in Places' : stack'[i].val # shortcut[n]
    <2>1. shortcut[n] \in live /\ anchorOf[shortcut[n]] = NONE /\ shortcut[n] # shortcut[m]
      BY <1>3, <1>6 DEF ShortcutsSound
    <2>2. ~NotPending(shortcut[n])
      BY DEF NotPending
    <2>3. QED
      BY <1>2, <1>4, <2>1, <2>2
  <1>7. ASSUME NEW n \in Nodes, n # m, shortcut[n] # NONE
        PROVE  \E i \in Places' : stack'[i] \in [sym : {"BMAP", "TMAP"}, val : {n}]
    <2>1. PICK i \in Places : stack[i] \in [sym : {"BMAP", "TMAP"}, val : {n}]
      BY <1>3, <1>7 DEF ShortcutsSound
    <2>2. stack[i].sym \in {"BMAP", "TMAP"} /\ stack[i].val = n /\ i \in 1..Depth
      BY <2>1, <1>1 DEF Places
    <2>3. ~(i >= Depth')
      BY <1>7, <2>2
    <2>4. i \in 1..Depth' /\ stack'[i] = stack[i]
      BY <1>1, <2>2, <2>3
    <2>5. QED
      BY <1>1, <2>1, <2>2, <2>4 DEF Places, NodeSyms
  <1>8. ASSUME q # NONE
        PROVE  /\ q \in live' /\ anchorOf'[q] = NONE
               /\ \A i \in Places' : stack'[i].val # q
               /\ \A n \in Nodes : shortcut[n] # q
               /\ \E i \in Places' : stack'[i] \in [sym : {"BMAP", "TMAP"}, val : {m}]
    <2>1. q \in live' \ live /\ q \in Nodes /\ anchorOf[q] = NONE
      BY <1>3, <1>8 DEF TypeOK, TablesSound
    <2>2. \A n \in Nodes : shortcut[n] # q
      BY <1>3, <1>8, <2>1 DEF ShortcutsSound
    <2>3. Depth' \in Places' /\ e.sym = "BMAP" /\ e.val = m /\ e \in Entry
      <3>1. e \in Entry
        BY DEF Pops
      <3>2. Depth' \in DOMAIN stack' /\ stack'[Depth'] = e
        BY <1>1, PopsFacts, <1>3 DEF TypeOK
      <3>3. QED
        BY <1>8, <3>1, <3>2 DEF Places, NodeSyms
    <2>4. e \in [sym : {"BMAP", "TMAP"}, val : {m}]
      BY <2>3 DEF Entry
    <2>5. QED
      BY <1>1, <1>2, <1>4, <2>1, <2>2, <2>3, <2>4
  <1>9. ASSUME NEW n \in Nodes, shortcut'[n] # NONE
        PROVE  /\ shortcut'[n] \in live' /\ anchorOf'[shortcut'[n]] = NONE
               /\ \E i \in Places' : stack'[i] \in [sym : {"BMAP", "TMAP"}, val : {n}]
               /\ \A i \in Places' : stack'[i].val # shortcut'[n]
    <2>1. CASE n = m
      BY <1>5, <1>8, <1>9, <2>1
    <2>2. CASE n # m
      BY <1>5, <1>6, <1>7, <1>9, <2>2
    <2>3. QED
      BY <2>1, <2>2
  <1>10. \A n, o \in Nodes : shortcut'[n] = shortcut'[o] /\ shortcut'[n] # NONE => n = o
    BY <1>3, <1>5, <1>8 DEF ShortcutsSound
  <1>11. QED
    BY <1>9, <1>10 DEF ShortcutsSound

LEMMA OwnCloseBlock ==
  ASSUME OwnershipInv, TypeOK', CloseBlock
  PROVE  OwnershipInv'
  <1> DEFINE e == [sym |-> "ATOM", val |-> Val(0)]
             m == Val(0)
             freed == {shortcut[m]}
  <1>1. /\ Pops(2, e) /\ phase = "parse" /\ m \in Nodes
        /\ Sym(0) \in {"BMAP", "TMAP"} /\ Sym(1) = "IOPEN"
        /\ live' = (live \ freed) \cup {}
        /\ shortcut' = [shortcut EXCEPT ![m] = NONE]
        /\ UNCHANGED <<phase, croaked, bad, anchorOf, anchors, badAnchors, retired>>
    BY CloseBlockShape DEF CloseBlock, OwnershipInv
  <1>2. \A i \in Places : i >= Depth' => stack[i].sym = "IOPEN" \/ stack[i].val = m
    <2>1. ASSUME NEW i \in Places, i >= Depth'
          PROVE  stack[i].sym = "IOPEN" \/ stack[i].val = m
      <3>1. PICK j \in 0..1 : stack[i].sym = Sym(j) /\ stack[i].val = Val(j)
        BY <1>1, <2>1, PoppedEntries DEF OwnershipInv
      <3>2. QED
        BY <1>1, <3>1
    <2>2. QED
      BY <2>1
  <1>3. NotPending(m) /\ m \in Held
    BY <1>1, TopHeld DEF NodeSyms
  <1>4. /\ m \in live
        /\ \A i \in Places : i < Depth' => stack[i].val # m
    BY <1>1, TopPlace, PoppedEntries DEF OwnershipInv, NodeSyms
  <1>5. e.val = m /\ e.sym = "ATOM" /\ Sym(0) \in NodeSyms
    BY <1>1 DEF NodeSyms
  <1>6. \A n \in freed \cap Nodes : /\ anchorOf[n] = NONE
                                    /\ \A i \in Places : stack[i].val # n
    BY <1>1, ConstantsAssumption DEF OwnershipInv, ShortcutsSound, PhaseSound
  <1>7. e.val \in live' /\ NONE \notin live
    BY <1>1, <1>3, <1>4, <1>5, ConstantsAssumption DEF NotPending, OwnershipInv, TypeOK
  <1>8. \A n \in live : n \notin live' => n = shortcut[m]
    BY <1>1
  <1> HIDE DEF e, m, freed
  <1>9. Handling(2, e, freed, {})
    BY <1>1, <1>2, <1>4, <1>5, <1>6, <1>7 DEF Handling
  <1>10. ShortcutsSound'
    BY <1>1, <1>2, <1>3, <1>5, <1>8, ShortcutMoves DEF NodeSyms
  <1>11. QED
    BY <1>9, <1>10, HandlingStep DEF OwnershipInv

LEMMA OwnReducePair ==
  ASSUME OwnershipInv, TypeOK', ReducePair
  PROVE  OwnershipInv'
  <1> DEFINE e == stack[Depth - 1]
             m == Val(1)
             p == Val(0)
             freed == {p} \cup {shortcut[m]}
  <1>1. /\ Pops(2, e) /\ phase = "parse" /\ m \in Nodes
        /\ Sym(0) = "PAIR" /\ Sym(1) \in {"MAP", "BMAP"}
        /\ live' = (live \ freed) \cup {}
        /\ shortcut' = [shortcut EXCEPT ![m] = NONE]
        /\ UNCHANGED <<phase, croaked, bad, anchorOf, anchors, badAnchors, retired>>
    BY ReducePairShape DEF ReducePair, Parsing, OwnershipInv
  <1>2. /\ Depth' = Depth - 1 /\ Depth \in Nat
        /\ \A i \in Places : i >= Depth' => stack[i].sym = "PAIR" \/ stack[i].val = m
    <2>1. ASSUME NEW i \in Places, i >= Depth'
          PROVE  stack[i].sym = "PAIR" \/ stack[i].val = m
      <3>1. PICK j \in 0..1 : stack[i].sym = Sym(j) /\ stack[i].val = Val(j)
        BY <1>1, <2>1, PoppedEntries DEF OwnershipInv
      <3>2. QED
        BY <1>1, <3>1
    <2>2. QED
      BY <1>1, <2>1, PoppedEntries DEF OwnershipInv
  <1>3. NotPending(m) /\ m \in Held /\ NotPending(p)
    BY <1>1, TopHeld DEF NodeSyms
  <1>4. /\ \A i \in Places : i # Depth - 0 => stack[i].val # p
        /\ \A i \in Places : i # Depth - 1 => stack[i].val # m
        /\ m \in live /\ anchorOf[m] = NONE /\ anchorOf[p] = NONE
    BY <1>1, TopPlace DEF OwnershipInv, NodeSyms
  <1>5. e.val = m /\ e.sym \in {"MAP", "BMAP"} /\ Depth - 1 \in Places /\ e.sym \in NodeSyms
    BY <1>1, UnderTop DEF NodeSyms
  <1>6. \A n \in {shortcut[m]} \cap Nodes : /\ anchorOf[n] = NONE
                                            /\ \A i \in Places : stack[i].val # n
    BY <1>1, ConstantsAssumption DEF OwnershipInv, ShortcutsSound, PhaseSound
  <1>7. p # m
    BY <1>2, <1>4, <1>5
  <1>8. e.val \in live' /\ NONE \notin live
    BY <1>1, <1>3, <1>4, <1>5, <1>7, ConstantsAssumption DEF NotPending, OwnershipInv, TypeOK
  <1>9. \A n \in live : n \notin live' => n = shortcut[m] \/ NotPending(n)
    BY <1>1, <1>3
  <1>10. \A n \in freed \cap Nodes : /\ anchorOf[n] = NONE
                                     /\ \A i \in Places : i < Depth' => stack[i].val # n
    BY <1>2, <1>4, <1>6 DEF Places, OwnershipInv, TypeOK
  <1> HIDE DEF e, m, p, freed
  <1>11. Handling(2, e, freed, {})
    BY <1>1, <1>2, <1>4, <1>5, <1>8, <1>10 DEF Handling
  <1>12. ShortcutsSound'
    BY <1>1, <1>2, <1>3, <1>5, <1>9, ShortcutMoves
  <1>13. QED
    BY <1>11, <1>12, HandlingStep DEF OwnershipInv

LEMMA OwnReduceDash ==
  ASSUME OwnershipInv, TypeOK', ReduceDash
  PROVE  OwnershipInv'
  <1> DEFINE e == stack[Depth - 2]
             m == Val(2)
             v == Val(0)
             freed == Unanchored({v})
  <1>1. /\ Pops(3, e) /\ phase = "parse" /\ m \in Nodes
        /\ Sym(0) = "ATOM" /\ Sym(1) = "DASH" /\ Sym(2) = "BMAP"
        /\ UNCHANGED <<phase, croaked, bad, anchorOf, anchors, badAnchors, retired>>
    BY ReduceDashShape DEF ReduceDash, Parsing, OwnershipInv
  <1>2. /\ Depth' = Depth - 2 /\ Depth \in Nat
        /\ \A i \in Places : i >= Depth' => stack[i].sym \in {"ATOM", "DASH"} \/ stack[i].val = m
    <2>1. ASSUME NEW i \in Places, i >= Depth'
          PROVE  stack[i].sym \in {"ATOM", "DASH"} \/ stack[i].val = m
      <3>1. PICK j \in 0..2 : stack[i].sym = Sym(j) /\ stack[i].val = Val(j)
        BY <1>1, <2>1, PoppedEntries DEF OwnershipInv
      <3>2. QED
        BY <1>1, <3>1
    <2>2. QED
      BY <1>1, <2>1, PoppedEntries DEF OwnershipInv
  <1>3. NotPending(m) /\ m \in Held /\ NotPending(v)
    BY <1>1, TopHeld DEF NodeSyms
  <1>4. /\ \A i \in Places : i # Depth - 0 /\ stack[i].val = v => anchorOf[v] # NONE
        /\ \A i \in Places : i # Depth - 2 => stack[i].val # m
        /\ m \in live /\ anchorOf[m] = NONE
    BY <1>1, TopPlace DEF OwnershipInv, NodeSyms
  <1>5. /\ e.val = m /\ e.sym = "BMAP" /\ e.sym \in NodeSyms
        /\ Depth - 0 \in Places /\ stack[Depth - 0].val = v
    BY <1>1, UnderTop DEF NodeSyms
  <1>6. \A n \in freed : /\ n = v /\ anchorOf[n] = NONE /\ n # m
                         /\ \A i \in Places : i < Depth' => stack[i].val # n
    BY <1>2, <1>4, <1>5 DEF Unanchored, Places, OwnershipInv, TypeOK
  <1>7. CanAlloc => Fresh \in Nodes \ live
    BY FreshIsDead DEF OwnershipInv, TypeOK
  <1>8. CASE /\ shortcut[m] # NONE /\ live' = (live \ freed) \cup {}
             /\ UNCHANGED shortcut
    <2> HIDE DEF e, m, v, freed
    <2>1. PlainHandling(3, e, freed, {})
      BY <1>1, <1>2, <1>3, <1>4, <1>5, <1>6, <1>8 DEF PlainHandling, Handling
    <2>2. QED
      BY <2>1, PlainStep
  <1>9. CASE /\ shortcut[m] = NONE /\ CanAlloc /\ live' = (live \ freed) \cup {Fresh}
             /\ shortcut' = [shortcut EXCEPT ![m] = Fresh]
    <2>1. /\ Fresh \in live' \ live
          /\ \A n \in live : n \notin live' => NotPending(n)
      BY <1>3, <1>6, <1>7, <1>9
    <2> HIDE DEF e, m, v, freed
    <2>2. Handling(3, e, freed, {Fresh})
      BY <1>1, <1>2, <1>4, <1>5, <1>6, <1>7, <1>9 DEF Handling
    <2>3. ShortcutsSound'
      BY <1>1, <1>2, <1>3, <1>5, <1>9, <2>1, ShortcutMoves
    <2>4. QED
      BY <2>2, <2>3, HandlingStep DEF OwnershipInv
  <1>10. QED
    BY <1>8, <1>9 DEF ReduceDash, AddNodes

-----------------------------------------------------------------------------
(* The tables change.                                                      *)

LEMMA AppendFacts ==
  ASSUME NEW S, NEW s \in Seq(S), NEW x \in S
  PROVE  /\ Append(s, x) \in Seq(S)
         /\ DOMAIN Append(s, x) = 1..(Len(s) + 1) /\ DOMAIN s = 1..Len(s) /\ Len(s) \in Nat
         /\ Append(s, x)[Len(s) + 1] = x
         /\ \A i \in 1..Len(s) : Append(s, x)[i] = s[i]
  OBVIOUS

(* The name a takes the new entry `to' and its node, if it had one, is     *)
(* retired; `to' is the sentinel or a node that had no name and gets a.    *)
Refiles(a, to) ==
  /\ a \in Names
  /\ anchors' = [anchors EXCEPT ![a] = to]
  /\ retired' = IF anchors[a] \in Nodes THEN Append(retired, anchors[a]) ELSE retired
  /\ UNCHANGED <<live, bad, badAnchors>>
  /\ \/ to = DEFINING /\ UNCHANGED anchorOf
     \/ /\ to \in live /\ anchorOf[to] = NONE
        /\ anchorOf' = [anchorOf EXCEPT ![to] = a]

LEMMA RefilesStep ==
  ASSUME TypeOK, TablesSound, NEW a, NEW to, Refiles(a, to)
  PROVE  TablesSound'
  <1>1. /\ a \in Names /\ UNCHANGED <<live, bad, badAnchors>>
        /\ \A b \in Names : anchors'[b] = IF b = a THEN to ELSE anchors[b]
        /\ live \subseteq Nodes /\ bad \subseteq live
    BY DEF Refiles, TypeOK, TablesSound
  <1>2. \A n \in Nodes : IF n = to THEN anchorOf'[n] = a /\ anchorOf[n] = NONE
                                   ELSE anchorOf'[n] = anchorOf[n]
    BY ConstantsAssumption DEF Refiles, TypeOK
  <1>3. a # NONE
    BY <1>1, ConstantsAssumption
  <1>4. \A n \in Nodes \ live' : anchorOf'[n] = NONE
    BY <1>1, <1>2, ConstantsAssumption DEF Refiles, TablesSound
  <1>5. \A n \in bad' : anchorOf'[n] # NONE
    BY <1>1, <1>2, <1>3 DEF TablesSound
  <1>6. ASSUME NEW b \in Names, anchors'[b] \in Nodes
        PROVE  anchors'[b] \in live' \ bad' /\ anchorOf'[anchors'[b]] = b
    <2>1. CASE b = a
      <3>1. to \in live /\ anchorOf[to] = NONE
        BY <1>1, <1>6, <2>1, ConstantsAssumption DEF Refiles
      <3>2. QED
        BY <1>1, <1>2, <2>1, <3>1 DEF TablesSound
    <2>2. CASE b # a
      <3>1. anchors[b] \in live \ bad /\ anchorOf[anchors[b]] = b /\ b # NONE
        BY <1>1, <1>6, <2>2, ConstantsAssumption DEF TablesSound
      <3>2. QED
        BY <1>1, <1>2, <2>2, <3>1
    <2>3. QED
      BY <2>1, <2>2
  <1>7. ASSUME NEW b \in Names, badAnchors'[b] \in Nodes
        PROVE  badAnchors'[b] \in bad' /\ anchorOf'[badAnchors'[b]] = b
    <2>1. badAnchors[b] \in bad /\ anchorOf[badAnchors[b]] = b /\ b # NONE
      BY <1>1, <1>7, ConstantsAssumption DEF TablesSound
    <2>2. QED
      BY <1>1, <1>2, <2>1
  <1>8. \A i \in DOMAIN retired' :
          \/ i \in DOMAIN retired /\ retired'[i] = retired[i]
          \/ i \notin DOMAIN retired /\ retired'[i] = anchors[a] /\ anchors[a] \in Nodes
    <2>1. CASE anchors[a] \in Nodes
      <3>1. retired' = Append(retired, anchors[a]) /\ retired \in Seq(Nodes)
        BY <2>1 DEF Refiles, TypeOK
      <3>2. QED
        BY <2>1, <3>1, AppendFacts
    <2>2. CASE anchors[a] \notin Nodes
      BY <2>2 DEF Refiles
    <2>3. QED
      BY <2>1, <2>2
  <1>9. \A i, j \in DOMAIN retired' : i \notin DOMAIN retired /\ j \notin DOMAIN retired => i = j
    <2>1. CASE anchors[a] \in Nodes
      <3>1. retired' = Append(retired, anchors[a]) /\ retired \in Seq(Nodes)
        BY <2>1 DEF Refiles, TypeOK
      <3>2. DOMAIN retired' = 1..(Len(retired) + 1) /\ DOMAIN retired = 1..Len(retired)
            /\ Len(retired) \in Nat
        BY <2>1, <3>1, AppendFacts
      <3>3. QED
        BY <3>2
    <2>2. CASE anchors[a] \notin Nodes
      BY <2>2 DEF Refiles
    <2>3. QED
      BY <2>1, <2>2
  <1>10. ASSUME NEW i \in DOMAIN retired'
         PROVE  /\ retired'[i] \in live' \ bad'
                /\ anchorOf'[retired'[i]] # NONE
                /\ \A b \in Names : retired'[i] # anchors'[b]
                /\ \A j \in DOMAIN retired' : retired'[i] = retired'[j] => i = j
    <2>1. /\ retired'[i] \in live \ bad /\ anchorOf[retired'[i]] # NONE
          /\ \A b \in Names : b # a => retired'[i] # anchors[b]
      BY <1>1, <1>8, ConstantsAssumption DEF TablesSound
    <2>2. retired'[i] # to
      BY <1>1, <2>1, ConstantsAssumption DEF Refiles
    <2>3. \A j \in DOMAIN retired' : retired'[i] = retired'[j] => i = j
      BY <1>8, <1>9, <1>1 DEF TablesSound
    <2>4. QED
      BY <1>1, <1>2, <1>3, <2>1, <2>2, <2>3
  <1>11. QED
    BY <1>1, <1>4, <1>5, <1>6, <1>7, <1>10 DEF TablesSound

LEMMA OwnShiftAnchor ==
  ASSUME OwnershipInv, TypeOK', NEW a \in Names, ShiftAnchor(a)
  PROVE  OwnershipInv'
  <1> DEFINE e == [sym |-> "ANCHOR", val |-> a]
  <1>1. /\ Pops(0, e) /\ phase = "parse" /\ Sym(0) # "TMAP"
        /\ UNCHANGED <<phase, croaked, live, bad, anchorOf, shortcut, badAnchors>>
        /\ TypeOK /\ StackSound /\ TablesSound /\ ShortcutsSound /\ PhaseSound
    BY ShiftAnchorShape DEF ShiftAnchor, OwnershipInv, Expecting
  <1>2. Refiles(a, DEFINING)
    BY DEF ShiftAnchor, RemoveAnchor, Refiles
  <1>3. e.sym \notin NodeSyms
    BY DEF NodeSyms
  <1>4. \A i \in Places : ~(i >= Depth')
    BY <1>1, PoppedEntries
  <1> HIDE DEF e
  <1>5. StackSound'
    BY <1>1, <1>3, KeptEntries, StackStep
  <1>6. ShortcutsSound'
    BY <1>1, <1>3, <1>4, ShortcutsStep
  <1>7. TablesSound' /\ PhaseSound'
    BY <1>1, <1>2, RefilesStep DEF PhaseSound
  <1>8. QED
    BY <1>5, <1>6, <1>7 DEF OwnershipInv

LEMMA OwnReduceAnchor ==
  ASSUME OwnershipInv, TypeOK', ReduceAnchor
  PROVE  OwnershipInv'
  <1> DEFINE e == [sym |-> Sym(0), val |-> Val(0)]
             a == Val(1)
             n == Val(0)
  <1>1. /\ Pops(2, e) /\ phase = "parse" /\ n \in Nodes /\ a \in Names
        /\ Sym(0) \in {"ATOM", "TMAP"} /\ Sym(1) = "ANCHOR"
        /\ AddAnchor(a, n)
        /\ UNCHANGED <<phase, croaked, live, bad, shortcut, badAnchors>>
        /\ TypeOK /\ StackSound /\ TablesSound /\ ShortcutsSound /\ PhaseSound
    BY ReduceAnchorShape DEF ReduceAnchor, OwnershipInv
  <1>2. /\ e.sym = Sym(0) /\ e.val = n /\ e.sym \in {"ATOM", "TMAP"} /\ e.sym \in NodeSyms
        /\ Sym(0) \in NodeSyms
    BY <1>1 DEF NodeSyms
  <1>3. /\ n \in live /\ NotPending(n)
        /\ \A i \in Places : i # Depth - 0 /\ stack[i].val = n =>
             anchorOf[n] # NONE /\ stack[i].sym \in {"ATOM", "KEY"} /\ Sym(0) \in {"ATOM", "KEY"}
    BY <1>1, <1>2, TopPlace, TopHeld
  <1>4. /\ Depth' = Depth - 1 /\ Depth \in Nat
        /\ \A i \in Places : i >= Depth' =>
             stack[i].sym = "ANCHOR" \/ (stack[i].val = n /\ stack[i].sym = Sym(0))
    <2>1. ASSUME NEW i \in Places, i >= Depth'
          PROVE  stack[i].sym = "ANCHOR" \/ (stack[i].val = n /\ stack[i].sym = Sym(0))
      <3>1. PICK j \in 0..1 : stack[i].sym = Sym(j) /\ stack[i].val = Val(j)
        BY <1>1, <2>1, PoppedEntries DEF OwnershipInv
      <3>2. QED
        BY <1>1, <3>1
    <2>2. QED
      BY <1>1, <2>1, PoppedEntries DEF OwnershipInv
  <1>5. \/ anchorOf[n] # NONE /\ UNCHANGED <<anchorOf, anchors, retired>>
        \/ anchorOf[n] = NONE /\ Refiles(a, n)
    BY <1>1, <1>3 DEF AddAnchor, Refiles
  <1>6. /\ a # NONE /\ TablesSound'
        /\ \A o \in Nodes : o # n => anchorOf'[o] = anchorOf[o]
        /\ anchorOf'[n] # NONE
    <2>1. a # NONE
      BY <1>1, ConstantsAssumption
    <2>2. CASE anchorOf[n] # NONE /\ UNCHANGED <<anchorOf, anchors, retired>>
      BY <1>1, <2>1, <2>2 DEF TablesSound
    <2>3. CASE anchorOf[n] = NONE /\ Refiles(a, n)
      <3>1. TablesSound'
        BY <1>1, <2>3, RefilesStep
      <3>2. anchorOf' = [anchorOf EXCEPT ![n] = a]
        BY <1>1, <2>3, ConstantsAssumption DEF Refiles
      <3>3. QED
        BY <1>1, <2>1, <3>1, <3>2 DEF TypeOK
    <2>4. QED
      BY <1>5, <2>2, <2>3
  <1> HIDE DEF e, a, n
  <1>7. \A i \in Places : i < Depth' => stack[i].val \in Nodes
    BY <1>1 DEF StackSound, TypeOK
  <1>8. \A i \in Places : i < Depth' =>
           /\ stack[i].val \in live'
           /\ stack[i].sym # "TMAP"
           /\ stack[i].sym \in {"SEQ", "MAP", "PAIR", "BMAP"} => anchorOf'[stack[i].val] = NONE
           /\ anchorOf[stack[i].val] # NONE => anchorOf'[stack[i].val] # NONE
    BY <1>1, <1>3, <1>4, <1>6, <1>7, KeptEntries
  <1>9. StackSound'
    BY <1>1, <1>2, <1>3, <1>4, <1>6, <1>8, StackStep
  <1>10. \A o \in Nodes : shortcut[o] # NONE =>
           /\ shortcut[o] \in live => shortcut[o] \in live'
           /\ anchorOf[shortcut[o]] = NONE => anchorOf'[shortcut[o]] = NONE
           /\ e.sym \in NodeSyms => e.val # shortcut[o]
    BY <1>1, <1>2, <1>3, <1>6 DEF NotPending, TypeOK
  <1>11. \A i \in Places : /\ stack[i].sym \in {"BMAP", "TMAP"}
                           /\ i >= Depth'
                           /\ shortcut[stack[i].val] # NONE
                           => e.sym \in {"BMAP", "TMAP"} /\ e.val = stack[i].val
    BY <1>2, <1>4
  <1>12. ShortcutsSound'
    BY <1>1, <1>10, <1>11, ShortcutsStep
  <1>13. QED
    BY <1>1, <1>6, <1>9, <1>12 DEF OwnershipInv, PhaseSound

LEMMA OwnShiftAlias ==
  ASSUME OwnershipInv, TypeOK', NEW a \in Names, ShiftAlias(a)
  PROVE  OwnershipInv'
  <1>1. PICK n \in Nodes : GetAnchor(a, n) /\ Pops(0, [sym |-> "ATOM", val |-> n])
    BY ShiftAliasShape DEF OwnershipInv
  <1> DEFINE e == [sym |-> "ATOM", val |-> n]
  <1>2. /\ Pops(0, e) /\ phase = "parse" /\ Sym(0) # "TMAP" /\ GetAnchor(a, n)
        /\ UNCHANGED <<phase, croaked, shortcut, anchors, retired>>
        /\ TypeOK /\ StackSound /\ TablesSound /\ ShortcutsSound /\ PhaseSound
    BY <1>1 DEF ShiftAlias, OwnershipInv, Expecting
  <1>3. e.val = n /\ e.sym = "ATOM"
    OBVIOUS
  <1>4. \A i \in Places : ~(i >= Depth')
    BY <1>2, PoppedEntries
  <1>5. a # NONE /\ PhaseSound'
    BY <1>2, ConstantsAssumption DEF PhaseSound
  <1> HIDE DEF e
  <1>6. CASE /\ n \in live /\ anchorOf[n] # NONE
             /\ UNCHANGED <<live, bad, anchorOf, badAnchors>>
    <2>1. \A i \in Places : stack[i].val = n => stack[i].sym \in {"ATOM", "KEY"} \/ i = Depth
      BY <1>2, <1>6 DEF StackSound, Places, NodeSyms
    <2>2. \A i \in Places : i < Depth' /\ stack[i].val = n => stack[i].sym \in {"ATOM", "KEY"}
      BY <1>2, <1>6, KeptEntries DEF Places, NodeSyms
    <2>3. StackSound'
      BY <1>2, <1>3, <1>6, <2>2, KeptEntries, StackStep
    <2>4. \A m \in Nodes : shortcut[m] # NONE => n # shortcut[m]
      BY <1>2, <1>6 DEF ShortcutsSound, PhaseSound
    <2>5. ShortcutsSound'
      BY <1>2, <1>3, <1>4, <1>6, <2>4, ShortcutsStep
    <2>6. TablesSound'
      BY <1>2, <1>6 DEF TablesSound
    <2>7. QED
      BY <1>5, <2>3, <2>5, <2>6 DEF OwnershipInv
  <1>7. CASE /\ n \in Nodes \ live
             /\ live' = live \cup {n} /\ bad' = bad \cup {n}
             /\ anchorOf' = [anchorOf EXCEPT ![n] = a]
             /\ \A b \in Names : badAnchors'[b] = badAnchors[b] \/ (b = a /\ badAnchors'[b] = n)
    <2>1. /\ \A o \in Nodes : o # n => anchorOf'[o] = anchorOf[o]
          /\ anchorOf'[n] = a /\ anchorOf[n] = NONE
          /\ NotPending(n)
      BY <1>2, <1>7, NotAShortcut DEF TypeOK, TablesSound
    <2>2. \A i \in Places : stack[i].val \in live
      BY <1>2 DEF StackSound
    <2>3. \A i \in Places : i < Depth' =>
           /\ stack[i].val \in live' /\ stack[i].val # e.val
           /\ stack[i].sym # "TMAP"
           /\ anchorOf'[stack[i].val] = anchorOf[stack[i].val]
           /\ stack[i].sym \in {"SEQ", "MAP", "PAIR", "BMAP"} => anchorOf[stack[i].val] = NONE
      BY <1>2, <1>3, <1>7, <2>1, <2>2, KeptEntries DEF TypeOK
    <2>4. StackSound'
      BY <1>2, <1>3, <1>7, <2>3, StackStep
    <2>5. \A m \in Nodes : shortcut[m] # NONE =>
           /\ shortcut[m] \in live => shortcut[m] \in live'
           /\ anchorOf[shortcut[m]] = NONE => anchorOf'[shortcut[m]] = NONE
           /\ e.sym \in NodeSyms => e.val # shortcut[m]
      BY <1>2, <1>3, <1>7, <2>1 DEF NotPending, TypeOK
    <2>6. ShortcutsSound'
      BY <1>2, <1>4, <2>5, ShortcutsStep
    <2>7. /\ bad' \subseteq live'
          /\ \A o \in Nodes \ live' : anchorOf'[o] = NONE
          /\ \A o \in bad' : anchorOf'[o] # NONE
      BY <1>2, <1>5, <1>7, <2>1 DEF TablesSound, TypeOK
    <2>8. ASSUME NEW b \in Names
          PROVE  /\ anchors'[b] \in Nodes => anchors'[b] \in live' \ bad' /\ anchorOf'[anchors'[b]] = b
                 /\ badAnchors'[b] \in Nodes => badAnchors'[b] \in bad' /\ anchorOf'[badAnchors'[b]] = b
      <3>1. /\ anchors[b] \in Nodes => anchors[b] \in live \ bad /\ anchorOf[anchors[b]] = b
            /\ badAnchors[b] \in Nodes => badAnchors[b] \in bad /\ anchorOf[badAnchors[b]] = b
            /\ bad \subseteq live
        BY <1>2 DEF TablesSound
      <3>2. QED
        BY <1>2, <1>7, <2>1, <3>1
    <2>9. ASSUME NEW i \in DOMAIN retired'
          PROVE  /\ retired'[i] \in live' \ bad'
                 /\ anchorOf'[retired'[i]] # NONE
                 /\ \A b \in Names : retired'[i] # anchors'[b]
                 /\ \A j \in DOMAIN retired' : retired'[i] = retired'[j] => i = j
      BY <1>2, <1>7, <2>1 DEF TablesSound, TypeOK
    <2>10. TablesSound'
      BY <2>7, <2>8, <2>9 DEF TablesSound
    <2>11. QED
      BY <1>5, <2>4, <2>6, <2>10 DEF OwnershipInv
  <1>8. QED
    <2>1. CASE n = anchors[a] /\ UNCHANGED <<live, bad, anchorOf, badAnchors>>
      BY <1>2, <1>5, <1>6, <2>1 DEF TablesSound
    <2>2. CASE n = badAnchors[a] /\ UNCHANGED <<live, bad, anchorOf, badAnchors>>
      BY <1>2, <1>5, <1>6, <2>2 DEF TablesSound
    <2>3. CASE /\ n = Fresh /\ CanAlloc /\ live' = live \cup {n} /\ bad' = bad \cup {n}
               /\ anchorOf' = [anchorOf EXCEPT ![n] = a]
               /\ badAnchors' = IF anchors[a] = DEFINING
                                  THEN [badAnchors EXCEPT ![a] = n] ELSE badAnchors
      <3>1. n \in Nodes \ live
        BY <1>2, <2>3, FreshIsDead DEF TypeOK
      <3>2. \A b \in Names : badAnchors'[b] = badAnchors[b] \/ (b = a /\ badAnchors'[b] = n)
        BY <1>2, <2>3 DEF TypeOK
      <3>3. QED
        BY <1>7, <2>3, <3>1, <3>2
    <2>4. QED
      BY <1>2, <2>1, <2>2, <2>3 DEF GetAnchor

-----------------------------------------------------------------------------
(* The end of a document and of a parser.                                  *)

(* No entry on the stack, no shortcut.                                     *)
LEMMA EmptyStack ==
  ASSUME TypeOK', stack' = <<>>
  PROVE  Places' = {} /\ StackSound'
  <1>1. DOMAIN stack' = {}
    BY SeqFacts
  <1>2. Places' = {}
    BY <1>1 DEF Places
  <1>3. QED
    BY <1>2 DEF StackSound

LEMMA OwnReduceRoot ==
  ASSUME OwnershipInv, TypeOK', ReduceRoot
  PROVE  OwnershipInv'
  <1>1. /\ stack' = <<>> /\ phase = "parse" /\ phase' \in {"done", "eof"}
        /\ UNCHANGED <<croaked, bad, anchorOf, shortcut, anchors, badAnchors, retired>>
        /\ TypeOK /\ StackSound /\ TablesSound /\ ShortcutsSound /\ PhaseSound /\ ~croaked
    BY DEF ReduceRoot, OwnershipInv, PhaseSound
  <1>2. \A i \in Places : stack[i].sym \notin {"BMAP", "TMAP"}
    <2>1. CASE Sym(0) = "ATOM" /\ Depth = 1
      BY <2>1, <1>1, StackFacts DEF Places, Sym
    <2>2. CASE stack = <<>>
      BY <2>2, SeqFacts DEF Places
    <2>3. QED
      BY <2>1, <2>2, <1>1, ReduceRootShape
  <1>3. \A n \in Nodes : shortcut[n] = NONE
    <2>1. ASSUME NEW n \in Nodes, shortcut[n] # NONE
          PROVE  FALSE
      <3>1. PICK i \in Places : stack[i] \in [sym : {"BMAP", "TMAP"}, val : {n}]
        BY <1>1, <2>1 DEF ShortcutsSound
      <3>2. QED
        BY <1>2, <3>1
    <2>2. QED
      BY <2>1
  <1>4. ShortcutsSound'
    BY <1>1, <1>3 DEF ShortcutsSound
  <1>5. /\ \A n \in live : anchorOf[n] # NONE => n \in live'
        /\ \A n \in live' \ live : anchorOf[n] = NONE
    BY <1>1 DEF ReduceRoot, AddNodes, Unanchored
  <1>6. TablesSound'
    BY <1>1, <1>5, TablesStep
  <1>7. PhaseSound'
    BY <1>1 DEF PhaseSound
  <1>8. QED
    BY <1>1, <1>4, <1>6, <1>7, EmptyStack DEF OwnershipInv

(* With the stack empty, or after an error, freeing the tables leaves      *)
(* nothing of them behind.                                                 *)
LEMMA OwnStFree ==
  ASSUME TypeOK, TypeOK', TablesSound, StFree
  PROVE  TablesSound'
  <1>1. /\ live' = live \ Filed /\ bad' = bad \ Filed
        /\ \A n \in Nodes : anchorOf'[n] = IF n \in Filed THEN NONE ELSE anchorOf[n]
        /\ \A a \in Names : anchors'[a] = NONE /\ badAnchors'[a] = NONE
        /\ retired' = <<>>
    BY DEF StFree
  <1>2. /\ bad' \subseteq live' /\ bad' \subseteq Nodes
        /\ \A n \in Nodes \ live' : anchorOf'[n] = NONE
        /\ \A n \in bad' : anchorOf'[n] # NONE
    BY <1>1 DEF TablesSound, TypeOK
  <1>3. DOMAIN retired' = {}
    BY <1>1, SeqFacts
  <1>4. QED
    BY <1>1, <1>2, <1>3, ConstantsAssumption DEF TablesSound

LEMMA OwnTeardown ==
  ASSUME OwnershipInv, TypeOK', NextDocument \/ FreeParser \/ Croak
  PROVE  OwnershipInv'
  <1>1. TypeOK /\ StackSound /\ TablesSound /\ ShortcutsSound /\ PhaseSound
    BY DEF OwnershipInv
  <1>2. StFree /\ UNCHANGED shortcut /\ stack' = <<>>
    BY <1>1 DEF NextDocument, FreeParser, Croak, PhaseSound
  <1>3. PhaseSound'
    BY <1>1, <1>2 DEF NextDocument, FreeParser, Croak, PhaseSound
  <1>4. ShortcutsSound'
    <2>1. CASE Croak
      BY <2>1 DEF Croak, ShortcutsSound
    <2>2. CASE NextDocument \/ FreeParser
      <3>1. UNCHANGED croaked /\ stack = <<>>
        BY <2>2, <1>1 DEF NextDocument, FreeParser, PhaseSound
      <3>2. Places = {}
        BY <3>1, SeqFacts DEF Places
      <3>3. ~croaked => \A n \in Nodes : shortcut[n] = NONE
        BY <1>1, <3>2 DEF ShortcutsSound
      <3>4. QED
        BY <1>2, <3>1, <3>3 DEF ShortcutsSound
    <2>3. QED
      BY <2>1, <2>2
  <1>5. QED
    BY <1>1, <1>2, <1>3, <1>4, OwnStFree, EmptyStack DEF OwnershipInv

-----------------------------------------------------------------------------
(* The invariant, and what it says.                                        *)

LEMMA InitOwnership == Init => OwnershipInv
  <1> SUFFICES ASSUME Init PROVE OwnershipInv
    OBVIOUS
  <1>1. TypeOK
    BY InitTypeOK
  <1>2. DOMAIN stack = {} /\ DOMAIN retired = {}
    BY SeqFacts DEF Init
  <1>3. Places = {}
    BY <1>2 DEF Places
  <1>4. StackSound /\ PhaseSound
    BY <1>3 DEF StackSound, PhaseSound, Init
  <1>5. \A a \in Names : anchors[a] \notin Nodes /\ badAnchors[a] \notin Nodes
    BY ConstantsAssumption DEF Init
  <1>6. TablesSound
    BY <1>2, <1>5 DEF TablesSound, Init
  <1>7. ShortcutsSound
    BY DEF ShortcutsSound, Init
  <1>8. QED
    BY <1>1, <1>4, <1>6, <1>7 DEF OwnershipInv

LEMMA StepOwnership == OwnershipInv /\ [Next]_vars => OwnershipInv'
  <1> SUFFICES ASSUME OwnershipInv, [Next]_vars
               PROVE  OwnershipInv'
    OBVIOUS
  <1>1. TypeOK'
    BY StepTypeOK DEF OwnershipInv
  <1>2. CASE UNCHANGED vars
    <2>1. UNCHANGED <<phase, croaked, stack, live, bad, anchorOf, shortcut, anchors,
                      badAnchors, retired, Places, Depth>>
      BY <1>2 DEF vars, Places, Depth
    <2>2. StackSound'
      BY <2>1 DEF OwnershipInv, StackSound
    <2>3. TablesSound'
      BY <2>1 DEF OwnershipInv, TablesSound
    <2>4. ShortcutsSound' /\ PhaseSound'
      BY <2>1 DEF OwnershipInv, ShortcutsSound, PhaseSound
    <2>5. QED
      BY <1>1, <2>2, <2>3, <2>4 DEF OwnershipInv
  <1>3. CASE Next
    BY <1>1, <1>3, OwnShiftAnchor, OwnShiftAlias, OwnShiftScalar, OwnShiftMark,
       OwnShiftColon, OwnReduceAnchor, OwnReduceFirstItem, OwnReduceItem,
       OwnReduceMapping, OwnReduceLoneKey, OwnReduceFirstPair, OwnReducePair,
       OwnReduceDash, OwnCloseFlow, OwnCloseEmptyFlow, OwnReduceTopMap,
       OwnCloseBlock, OwnReduceRoot, OwnTeardown
    DEF Next
  <1>4. QED
    BY <1>2, <1>3

(* Who owns what, in every state of every parse.                           *)
THEOREM Ownership == Spec => []OwnershipInv
  BY InitOwnership, StepOwnership, PTL DEF Spec

(* No use after free, however anchors are redefined, doubled or undefined. *)
THEOREM NoUseAfterFree == Spec => []NoDanglingNode
  <1>1. OwnershipInv => NoDanglingNode
    <2> SUFFICES ASSUME OwnershipInv PROVE NoDanglingNode
      OBVIOUS
    <2>1. Held \subseteq live
      BY DEF OwnershipInv, StackSound, Held
    <2>2. Waiting \subseteq live
      <3>1. CASE croaked
        <4>1. Places = {}
          BY <3>1, SeqFacts DEF OwnershipInv, PhaseSound, Places
        <4>2. QED
          BY <4>1 DEF Waiting, Held
      <3>2. CASE ~croaked
        BY <3>2, <2>1, ConstantsAssumption DEF OwnershipInv, TypeOK, ShortcutsSound, Waiting
      <3>3. QED
        BY <3>1, <3>2
    <2>3. Filed \subseteq live
      BY DEF OwnershipInv, TablesSound, Filed, Entries
    <2>4. QED
      BY <2>1, <2>2, <2>3 DEF NoDanglingNode
  <1>2. QED
    BY <1>1, Ownership, PTL

(* No double free.                                                         *)
THEOREM NoSecondFree == Spec => []NoDoubleFree
  <1>1. OwnershipInv => NoDoubleFree
    <2> SUFFICES ASSUME OwnershipInv PROVE NoDoubleFree
      OBVIOUS
    <2>1. /\ TypeOK /\ StackSound /\ TablesSound /\ ShortcutsSound /\ PhaseSound
          /\ Held \subseteq Nodes
      BY DEF OwnershipInv, StackSound, Held, TypeOK
    <2>2. croaked => Places = {}
      BY <2>1, SeqFacts DEF PhaseSound, Places
    <2>3. HandledOnce
      BY <2>1, <2>2, ConstantsAssumption DEF HandledOnce, StackSound, ShortcutsSound, Held
    <2>4. FiledOnce
      <3>1. \A i, j \in DOMAIN retired : retired[i] = retired[j] => i = j
        BY <2>1 DEF TablesSound
      <3>2. \A i \in DOMAIN retired : retired[i] \notin Entries(anchors) \cup Entries(badAnchors)
        BY <2>1 DEF TablesSound, Entries
      <3>3. Entries(anchors) \cap Entries(badAnchors) = {}
        BY <2>1 DEF TablesSound, Entries
      <3>4. \A a, b \in Names : /\ anchors[a] = anchors[b] /\ anchors[a] \in Nodes => a = b
                                /\ badAnchors[a] = badAnchors[b] /\ badAnchors[a] \in Nodes => a = b
        BY <2>1 DEF TablesSound
      <3>5. QED
        BY <3>1, <3>2, <3>3, <3>4 DEF FiledOnce
    <2>5. \A n \in Filed : anchorOf[n] # NONE
      BY <2>1, ConstantsAssumption DEF TablesSound, Filed, Entries
    <2>6. \A n \in Waiting : anchorOf[n] = NONE
      BY <2>1, <2>2, ConstantsAssumption DEF ShortcutsSound, Waiting, Held
    <2>7. QED
      BY <2>3, <2>4, <2>5, <2>6 DEF NoDoubleFree
  <1>2. QED
    BY <1>1, Ownership, PTL

(* A node with a name survives every step but the one that frees the       *)
(* tables.                                                                 *)
LEMMA NamedSurvive ==
  ASSUME OwnershipInv, [Next]_vars, phase = "parse", phase' # "freed",
         NEW n \in live, anchorOf[n] # NONE
  PROVE  n \in live' /\ anchorOf'[n] = anchorOf[n]
  <1>0. /\ TypeOK /\ TablesSound /\ ShortcutsSound /\ StackSound /\ ~croaked
        /\ n \in Nodes
    BY DEF OwnershipInv, PhaseSound, TypeOK
  <1>1. CASE \/ \E a \in Names : ShiftAnchor(a)
             \/ ShiftScalar \/ ShiftColon \/ ShiftSep \/ ShiftDash
             \/ \E sym \in {"LBRACKET", "LBRACE", "IOPEN"} : ShiftOpen(sym)
             \/ ReduceFirstPair \/ CloseFlow \/ CloseEmptyFlow \/ ReduceTopMap
             \/ UNCHANGED vars
    BY <1>1 DEF ShiftAnchor, ShiftScalar, ShiftColon, ShiftSep, ShiftDash, ShiftOpen,
       ReduceFirstPair, CloseFlow, CloseEmptyFlow, ReduceTopMap, vars
  <1>2. CASE \E a \in Names : ShiftAlias(a)
    <2>1. PICK a \in Names, m \in Nodes : GetAnchor(a, m)
      BY <1>2 DEF ShiftAlias
    <2>2. \/ UNCHANGED <<live, anchorOf>>
          \/ CanAlloc /\ live' = live \cup {m} /\ m = Fresh
             /\ anchorOf' = [anchorOf EXCEPT ![m] = a]
      BY <2>1 DEF GetAnchor
    <2>3. CanAlloc => Fresh \notin live
      BY FreshIsDead, <1>0 DEF TypeOK
    <2>4. QED
      BY <1>0, <2>2, <2>3 DEF TypeOK
  <1>3. CASE ReduceAnchor
    <2>1. \/ anchorOf' = anchorOf
          \/ /\ anchorOf[Val(0)] = NONE
             /\ anchorOf' = [anchorOf EXCEPT ![Val(0)] = Val(1)]
      BY <1>3 DEF ReduceAnchor, AddAnchor
    <2>2. QED
      BY <1>0, <1>3, <2>1 DEF ReduceAnchor, TypeOK
  <1>4. CASE ReduceFirstItem \/ ReduceItem \/ ReduceMapping \/ ReduceLoneKey \/ ReduceRoot
             \/ ReduceDash
    BY <1>4 DEF ReduceFirstItem, ReduceItem, ReduceMapping, ReduceLoneKey,
       ReduceRoot, ReduceDash, AddNodes, Unanchored
  <1>5. CASE ReducePair
    <2>1. Sym(0) \in {"SEQ", "MAP", "PAIR", "BMAP"} /\ Sym(0) \in NodeSyms
          /\ Val(1) \in Nodes
      BY <1>0, <1>5, ReducePairShape DEF NodeSyms
    <2>2. anchorOf[Val(0)] = NONE
      BY <1>0, <2>1, TopPlace
    <2>3. shortcut[Val(1)] # NONE => anchorOf[shortcut[Val(1)]] = NONE
      BY <1>0, <2>1 DEF ShortcutsSound
    <2>4. n # NONE
      BY <1>0, ConstantsAssumption
    <2>5. QED
      BY <1>5, <2>2, <2>3, <2>4 DEF ReducePair
  <1>6. CASE CloseBlock
    <2>1. Val(0) \in Nodes
      BY <1>0, <1>6, CloseBlockShape
    <2>2. shortcut[Val(0)] # NONE => anchorOf[shortcut[Val(0)]] = NONE
      BY <1>0, <2>1 DEF ShortcutsSound
    <2>3. n # NONE
      BY <1>0, ConstantsAssumption
    <2>4. QED
      BY <1>6, <2>2, <2>3 DEF CloseBlock
  <1>7. CASE NextDocument \/ FreeParser \/ Croak
    BY <1>7 DEF NextDocument, FreeParser, Croak
  <1>8. QED
    BY <1>1, <1>2, <1>3, <1>4, <1>5, <1>6, <1>7 DEF Next

(* A node that a later alias may name is not freed before the tables are.  *)
THEOREM AliasedNodesSurvive == Spec => AnchoredNodesSurvive
  <1>1. OwnershipInv /\ [Next]_vars =>
          [phase = "parse" /\ phase' # "freed" =>
             \A n \in live : anchorOf[n] # NONE => n \in live' /\ anchorOf'[n] = anchorOf[n]]_vars
    BY NamedSurvive
  <1>2. QED
    BY <1>1, Ownership, PTL DEF Spec, AnchoredNodesSurvive
-----------------------------------------------------------------------------
(* What is lost: until a croak every node but the stand-in of an undefined *)
(* alias is held, and every copy of a name has an owner; the teardown      *)
(* leaves only those stand-ins.  The invariants rest on OwnershipInv.      *)

(* A node without an anchor is on the stack or waits in a shortcut.        *)
LooseSound ==
  ~croaked => \A n \in live : anchorOf[n] = NONE => n \in Held \cup Waiting

(* A node with one is in a table, or is a bad anchor's.                    *)
FilingSound ==
  ~croaked => \A n \in live : anchorOf[n] # NONE => n \in Filed \cup bad

(* The last tables are gone when the parser is, with every named node in   *)
(* them.                                                                   *)
FreedSound ==
  phase = "freed" =>
    /\ \A n \in live \ bad : anchorOf[n] = NONE
    /\ \A a \in Names : anchors[a] = NONE /\ badAnchors[a] = NONE
    /\ ~croaked => live \subseteq bad

Accounted == LooseSound /\ FilingSound /\ FreedSound

-----------------------------------------------------------------------------
(* What a move of the stack leaves held.                                   *)

LEMMA HeldAfter ==
  ASSUME TypeOK, NEW k, NEW e, Pops(k, e)
  PROVE  /\ \A n \in Held : \/ n \in Held'
                            \/ \E j \in 0..(k - 1) : Sym(j) \in NodeSyms /\ Val(j) = n
         /\ \A i \in Places : i < Depth' => stack[i].val \in Held'
         /\ e.sym \in NodeSyms => e.val \in Held'
  <1>1. /\ Depth' \in Nat /\ Depth \in Nat /\ k \in 0..Depth /\ Depth' = Depth - k + 1
        /\ DOMAIN stack = 1..Depth /\ DOMAIN stack' = 1..Depth'
        /\ stack'[Depth'] = e
        /\ \A i \in 1..Depth' : i # Depth' => i \in 1..Depth /\ stack'[i] = stack[i]
    BY PopsFacts DEF TypeOK
  <1>2. \A i \in Places : i < Depth' => i \in Places' /\ stack'[i] = stack[i]
    BY <1>1 DEF Places
  <1>3. \A i \in Places : i < Depth' => stack[i].val \in Held'
    BY <1>2 DEF Held
  <1>4. e.sym \in NodeSyms => e.val \in Held'
    <2>1. Depth' \in DOMAIN stack'
      BY <1>1
    <2>2. e.sym \in NodeSyms => Depth' \in Places'
      BY <1>1, <2>1 DEF Places
    <2>3. QED
      BY <1>1, <2>2 DEF Held
  <1>5. ASSUME NEW n \in Held
        PROVE  \/ n \in Held'
               \/ \E j \in 0..(k - 1) : Sym(j) \in NodeSyms /\ Val(j) = n
    <2>1. PICK i \in Places : stack[i].val = n
      BY DEF Held
    <2>2. CASE i < Depth'
      BY <1>3, <2>1, <2>2
    <2>3. CASE i >= Depth'
      <3>1. PICK j \in 0..(k - 1) : stack[i].sym = Sym(j) /\ stack[i].val = Val(j)
        BY <2>3, PoppedEntries
      <3>2. QED
        BY <2>1, <3>1 DEF Places
    <2>4. QED
      BY <1>1, <2>2, <2>3 DEF Places
  <1>6. QED
    BY <1>3, <1>4, <1>5

(* The map that has a shortcut has an open block mapping's entry.          *)
LEMMA WaitingFor ==
  ASSUME TypeOK, ShortcutsSound, ~croaked, NEW n \in Waiting
  PROVE  \E m \in Nodes : /\ shortcut[m] = n /\ n # NONE
                          /\ \E i \in Places : stack[i].sym \in {"BMAP", "TMAP"}
                                               /\ stack[i].val = m
  <1>1. PICK m \in Held : shortcut[m] = n /\ n \in Nodes
    BY DEF Waiting
  <1>2. PICK i \in Places : stack[i].val = m
    BY DEF Held
  <1>3. stack[i] \in Entry /\ stack[i].sym \in NodeSyms
    BY DEF TypeOK, Places
  <1>4. m \in Nodes
    BY <1>2, <1>3 DEF Entry, NodeSyms, NameSyms, MarkSyms
  <1>5. n # NONE
    BY <1>1, ConstantsAssumption
  <1>6. PICK l \in Places : stack[l] \in [sym : {"BMAP", "TMAP"}, val : {m}]
    BY <1>1, <1>4, <1>5 DEF ShortcutsSound
  <1>7. stack[l].sym \in {"BMAP", "TMAP"} /\ stack[l].val = m
    BY <1>6
  <1>8. QED
    BY <1>1, <1>4, <1>5, <1>7

(* Every move of a running parse keeps hold of the loose nodes, when it    *)
(* keeps, frees or names what it pops, and stores or keeps a shortcut.     *)
LEMMA LooseStep ==
  ASSUME OwnershipInv, LooseSound, phase = "parse", UNCHANGED croaked,
         NEW k, NEW e, Pops(k, e),
         \A n \in live' : anchorOf'[n] = NONE =>
           (n \in live /\ anchorOf[n] = NONE) \/ n \in Held' \cup Waiting',
         \A j \in 0..(k - 1) : Sym(j) \in NodeSyms =>
           Val(j) \notin live' \/ anchorOf'[Val(j)] # NONE \/ Val(j) \in Held',
         \A j \in 0..(k - 1) : Sym(j) \in {"BMAP", "TMAP"} =>
           shortcut[Val(j)] \notin live' \/ Val(j) \in Held',
         \A m \in Nodes : shortcut[m] \in live' => shortcut'[m] = shortcut[m]
  PROVE  LooseSound'
  <1>1. TypeOK /\ ShortcutsSound /\ ~croaked /\ live \subseteq Nodes
    BY DEF OwnershipInv, PhaseSound, TypeOK
  <1>2. ASSUME NEW n \in live', anchorOf'[n] = NONE, n \in live, anchorOf[n] = NONE
        PROVE  n \in Held' \cup Waiting'
    <2>1. CASE n \in Held
      BY <1>1, <1>2, <2>1, HeldAfter
    <2>2. CASE n \in Waiting
      <3>1. PICK m \in Nodes : /\ shortcut[m] = n /\ n # NONE
                               /\ \E i \in Places : stack[i].sym \in {"BMAP", "TMAP"}
                                                    /\ stack[i].val = m
        BY <1>1, <2>2, WaitingFor
      <3>2. PICK i \in Places : stack[i].sym \in {"BMAP", "TMAP"} /\ stack[i].val = m
        BY <3>1
      <3>3. m \in Held'
        <4>1. CASE i < Depth'
          BY <1>1, <3>2, <4>1, HeldAfter
        <4>2. CASE i >= Depth'
          <5>1. PICK j \in 0..(k - 1) : stack[i].sym = Sym(j) /\ stack[i].val = Val(j)
            BY <1>1, <4>2, PoppedEntries
          <5>2. QED
            BY <1>2, <3>1, <3>2, <5>1
        <4>3. Depth' \in Int /\ i \in Int
          BY <1>1, PopsFacts DEF TypeOK, Places
        <4>4. QED
          BY <4>1, <4>2, <4>3
      <3>4. shortcut'[m] = n /\ n \in Nodes
        BY <1>1, <1>2, <3>1
      <3>5. QED
        BY <3>3, <3>4 DEF Waiting
    <2>3. QED
      BY <1>1, <1>2, <2>1, <2>2 DEF LooseSound
  <1>3. QED
    BY <1>2 DEF LooseSound

(* Where the node on top of the stack may be, and what is not there yet.   *)
LEMMA Unborn ==
  ASSUME OwnershipInv
  PROVE  /\ TypeOK /\ TablesSound /\ \A n \in Nodes \ live : anchorOf[n] = NONE
         /\ CanAlloc => Fresh \in Nodes \ live
         /\ phase = "parse" => ~croaked
  BY FreshIsDead DEF OwnershipInv, TablesSound, TypeOK, PhaseSound

LEMMA LooseShifts ==
  ASSUME OwnershipInv, LooseSound,
         \/ \E a \in Names : ShiftAnchor(a) \/ ShiftAlias(a)
         \/ ShiftScalar \/ ShiftSep \/ ShiftDash \/ ShiftColon \/ CloseEmptyFlow
         \/ \E sym \in {"LBRACKET", "LBRACE", "IOPEN"} : ShiftOpen(sym)
  PROVE  LooseSound'
  <1>1. TypeOK /\ \A n \in Nodes \ live : anchorOf[n] = NONE
    BY Unborn
  <1>2. ASSUME NEW a \in Names, ShiftAnchor(a)
        PROVE  LooseSound'
    <2>1. /\ phase = "parse" /\ UNCHANGED <<croaked, live, anchorOf, shortcut>>
          /\ Pops(0, [sym |-> "ANCHOR", val |-> a])
      BY <1>1, <1>2, ShiftAnchorShape DEF ShiftAnchor, Expecting
    <2>2. QED
      BY <2>1, LooseStep
  <1>3. ASSUME NEW a \in Names, ShiftAlias(a)
        PROVE  LooseSound'
    <2>1. PICK n \in Nodes : GetAnchor(a, n) /\ Pops(0, [sym |-> "ATOM", val |-> n])
      BY <1>1, <1>3, ShiftAliasShape
    <2>2. n \in Held'
      BY <1>1, <2>1, HeldAfter DEF NodeSyms
    <2>3. /\ phase = "parse" /\ UNCHANGED <<croaked, shortcut>>
          /\ \A m \in live' : m \in live \/ m = n
          /\ \A m \in Nodes : anchorOf'[m] = NONE => anchorOf[m] = NONE
      BY <1>1, <1>3, <2>1, ConstantsAssumption DEF ShiftAlias, Expecting, GetAnchor, TypeOK
    <2>4. live \subseteq Nodes
      BY <1>1 DEF TypeOK
    <2>5. QED
      BY <2>1, <2>2, <2>3, <2>4, LooseStep
  <1>4. CASE ShiftScalar
    <2>1. /\ phase = "parse" /\ UNCHANGED <<croaked, shortcut, anchorOf>>
          /\ live' = live \cup {Fresh}
          /\ Pops(0, [sym |-> "ATOM", val |-> Fresh])
      BY <1>1, <1>4, ShiftScalarShape DEF ShiftScalar, Expecting
    <2>2. Fresh \in Held'
      BY <1>1, <2>1, HeldAfter DEF NodeSyms
    <2>3. QED
      BY <2>1, <2>2, LooseStep
  <1>5. CASE ShiftSep \/ ShiftDash \/ \E s \in {"LBRACKET", "LBRACE", "IOPEN"} : ShiftOpen(s)
    <2>1. PICK s \in MarkSyms : Pops(0, [sym |-> s, val |-> NONE])
      BY <1>1, <1>5, ShiftMarkShape
    <2>2. phase = "parse" /\ UNCHANGED <<croaked, live, anchorOf, shortcut>>
      BY <1>5 DEF ShiftOpen, ShiftSep, ShiftDash, Parsing, Expecting
    <2>3. QED
      BY <2>1, <2>2, LooseStep
  <1>6. CASE ShiftColon
    <2>1. /\ phase = "parse" /\ UNCHANGED <<croaked, live, anchorOf, shortcut>>
          /\ Pops(1, [sym |-> "KEY", val |-> Val(0)])
      BY <1>1, <1>6, ShiftColonShape DEF ShiftColon, Parsing
    <2>2. Val(0) \in Held'
      BY <1>1, <2>1, HeldAfter DEF NodeSyms
    <2>3. QED
      BY <2>1, <2>2, LooseStep
  <1>7. CASE CloseEmptyFlow
    <2>1. /\ phase = "parse" /\ UNCHANGED <<croaked, anchorOf, shortcut>>
          /\ live' = live \cup {Fresh} /\ Sym(0) \in {"LBRACKET", "LBRACE"}
          /\ Pops(1, [sym |-> "ATOM", val |-> Fresh])
      BY <1>1, <1>7, CloseEmptyFlowShape DEF CloseEmptyFlow
    <2>2. Fresh \in Held'
      BY <1>1, <2>1, HeldAfter DEF NodeSyms
    <2>3. \A j \in 0..0 : Sym(j) \notin NodeSyms /\ Sym(j) \notin {"BMAP", "TMAP"}
      BY <2>1 DEF NodeSyms
    <2>4. QED
      BY <2>1, <2>2, <2>3, LooseStep
  <1>8. QED
    BY <1>2, <1>3, <1>4, <1>5, <1>6, <1>7

LEMMA LooseReductions ==
  ASSUME OwnershipInv, LooseSound,
         \/ ReduceAnchor \/ ReduceFirstItem \/ ReduceItem \/ ReduceMapping
         \/ ReduceLoneKey \/ ReduceFirstPair \/ CloseFlow \/ ReduceTopMap
  PROVE  LooseSound'
  <1>1. TypeOK /\ \A n \in Nodes \ live : anchorOf[n] = NONE
    BY Unborn
  <1>2. CASE ReduceAnchor
    <2>1. /\ phase = "parse" /\ UNCHANGED <<croaked, live, shortcut>>
          /\ Pops(2, [sym |-> Sym(0), val |-> Val(0)]) /\ AddAnchor(Val(1), Val(0))
          /\ Val(0) \in Nodes /\ Val(1) \in Names
          /\ Sym(0) \in NodeSyms /\ Sym(1) = "ANCHOR"
      BY <1>1, <1>2, ReduceAnchorShape DEF ReduceAnchor, NodeSyms
    <2>2. Val(0) \in Held'
      BY <1>1, <2>1, HeldAfter
    <2>3. \A n \in live : n \in Nodes /\ (anchorOf'[n] = NONE => anchorOf[n] = NONE)
      BY <1>1, <2>1, ConstantsAssumption DEF AddAnchor, TypeOK
    <2>4. \A j \in 0..1 : j = 0 \/ (j = 1 /\ Sym(j) \notin NodeSyms /\ Sym(j) \notin {"BMAP", "TMAP"})
      BY <2>1 DEF NodeSyms
    <2>5. QED
      BY <2>1, <2>2, <2>3, <2>4, LooseStep
  <1>3. CASE ReduceFirstItem \/ ReduceLoneKey
    <2>1. PICK s \in {"SEQ", "PAIR"} :
          /\ phase = "parse" /\ UNCHANGED <<croaked, shortcut, anchorOf>>
          /\ Pops(1, [sym |-> s, val |-> Fresh]) /\ Sym(0) \in {"ATOM", "PAIR"}
          /\ live' = (live \ Unanchored({Val(0)})) \cup {Fresh}
          /\ Fresh \in Nodes \ live
      BY <1>1, <1>3, ReduceFirstItemShape, ReduceLoneKeyShape
         DEF ReduceFirstItem, ReduceLoneKey, Parsing, AddNodes
    <2>2. Fresh \in Held'
      BY <1>1, <2>1, HeldAfter DEF NodeSyms
    <2>3. \A j \in 0..(1 - 1) : /\ Val(j) \in live' => anchorOf'[Val(j)] # NONE \/ Val(j) \in Held'
                          /\ Sym(j) \notin {"BMAP", "TMAP"}
      BY <2>1, <2>2 DEF Unanchored
    <2>4. \A n \in live' : n \in live \/ n \in Held'
      BY <2>1, <2>2
    <2>5. QED
      BY <2>1, <2>3, <2>4, LooseStep
  <1>4. CASE ReduceItem
    <2>1. /\ phase = "parse" /\ UNCHANGED <<croaked, shortcut, anchorOf>>
          /\ Pops(2, stack[Depth - 1]) /\ Sym(0) \in {"ATOM", "PAIR"} /\ Sym(1) = "SEQ"
          /\ live' = live \ Unanchored({Val(0)})
      BY <1>1, <1>4, ReduceItemShape DEF ReduceItem, AddNodes
    <2>2. Val(1) \in Held'
      BY <1>1, <2>1, HeldAfter, UnderTop DEF NodeSyms
    <2>3. \A j \in 0..1 : /\ Val(j) \in live' => anchorOf'[Val(j)] # NONE \/ Val(j) \in Held'
                          /\ Sym(j) \notin {"BMAP", "TMAP"}
      BY <2>1, <2>2 DEF Unanchored
    <2>4. QED
      BY <2>1, <2>3, LooseStep
  <1>5. CASE ReduceMapping
    <2>1. /\ phase = "parse" /\ UNCHANGED <<croaked, shortcut, anchorOf>>
          /\ Pops(2, [sym |-> "PAIR", val |-> Fresh]) /\ Sym(0) = "ATOM" /\ Sym(1) = "KEY"
          /\ live' = (live \ Unanchored({Val(0), Val(1)})) \cup {Fresh}
      BY <1>1, <1>5, ReduceMappingShape DEF ReduceMapping, Parsing, AddNodes
    <2>2. Fresh \in Held'
      BY <1>1, <2>1, HeldAfter DEF NodeSyms
    <2>3. \A j \in 0..1 : /\ Val(j) \in live' => anchorOf'[Val(j)] # NONE \/ Val(j) \in Held'
                          /\ Sym(j) \notin {"BMAP", "TMAP"}
      BY <2>1, <2>2 DEF Unanchored
    <2>4. \A n \in live' : n \in live \/ n \in Held'
      BY <2>1, <2>2
    <2>5. QED
      BY <2>1, <2>3, <2>4, LooseStep
  <1>6. CASE ReduceFirstPair \/ CloseFlow \/ ReduceTopMap
    <2>1. PICK k \in {1, 2}, s \in NodeSyms :
          /\ phase = "parse" /\ UNCHANGED <<croaked, live, shortcut, anchorOf>>
          /\ Pops(k, [sym |-> s, val |-> Val(0)])
          /\ k = 2 => Sym(1) \in MarkSyms
      <3>1. CASE ReduceFirstPair
        <4>1. PICK s \in {"MAP", "BMAP"} : Pops(1, [sym |-> s, val |-> Val(0)])
          BY <1>1, <3>1, ReduceFirstPairShape
        <4>2. phase = "parse" /\ UNCHANGED <<croaked, live, shortcut, anchorOf>>
          BY <3>1 DEF ReduceFirstPair, Parsing
        <4>3. s \in NodeSyms
          BY DEF NodeSyms
        <4>4. QED
          BY <4>1, <4>2, <4>3
      <3>2. CASE CloseFlow
        <4>1. /\ Pops(2, [sym |-> "ATOM", val |-> Val(0)]) /\ phase = "parse"
              /\ UNCHANGED <<croaked, live, shortcut, anchorOf>>
              /\ Sym(1) \in {"LBRACKET", "LBRACE"}
          BY <1>1, <3>2, CloseFlowShape DEF CloseFlow
        <4>2. QED
          BY <4>1 DEF NodeSyms, MarkSyms
      <3>3. CASE ReduceTopMap
        <4>1. /\ Pops(2, [sym |-> "TMAP", val |-> Val(0)]) /\ phase = "parse"
              /\ UNCHANGED <<croaked, live, shortcut, anchorOf>>
              /\ Sym(1) = "SEP"
          BY <1>1, <3>3, ReduceTopMapShape DEF ReduceTopMap, Parsing
        <4>2. QED
          BY <4>1 DEF NodeSyms, MarkSyms
      <3>4. QED
        BY <1>6, <3>1, <3>2, <3>3
    <2>2. Val(0) \in Held'
      BY <1>1, <2>1, HeldAfter
    <2>3. \A j \in 0..(k - 1) :
            j = 0 \/ (j = 1 /\ Sym(j) \notin NodeSyms /\ Sym(j) \notin {"BMAP", "TMAP"})
      BY <2>1 DEF NodeSyms, MarkSyms
    <2>4. QED
      BY <2>1, <2>2, <2>3, LooseStep
  <1>7. QED
    BY <1>2, <1>3, <1>4, <1>5, <1>6

LEMMA LooseMaps ==
  ASSUME OwnershipInv, LooseSound, ReducePair \/ ReduceDash \/ CloseBlock
  PROVE  LooseSound'
  <1>1. TypeOK /\ \A n \in Nodes \ live : anchorOf[n] = NONE
    BY Unborn
  <1>2. CASE ReducePair
    <2>1. /\ phase = "parse" /\ UNCHANGED <<croaked, anchorOf>>
          /\ Pops(2, stack[Depth - 1]) /\ Sym(0) = "PAIR" /\ Sym(1) \in {"MAP", "BMAP"}
          /\ live' = live \ ({Val(0)} \cup {shortcut[Val(1)]})
          /\ shortcut' = [shortcut EXCEPT ![Val(1)] = NONE]
      BY <1>1, <1>2, ReducePairShape DEF ReducePair, Parsing
    <2>2. Val(1) \in Held'
      BY <1>1, <2>1, HeldAfter, UnderTop DEF NodeSyms
    <2>3. \A j \in 0..1 : /\ Val(j) \in live' => Val(j) \in Held'
                          /\ Sym(j) \in {"BMAP", "TMAP"} => Val(j) \in Held'
      BY <2>1, <2>2
    <2>4. \A m \in Nodes : shortcut[m] \in live' => shortcut'[m] = shortcut[m]
      BY <1>1, <2>1 DEF TypeOK
    <2>5. QED
      BY <2>1, <2>3, <2>4, LooseStep
  <1>3. CASE ReduceDash
    <2>1. /\ phase = "parse" /\ UNCHANGED <<croaked, anchorOf>> /\ Val(2) \in Nodes
          /\ Pops(3, stack[Depth - 2])
          /\ Sym(0) = "ATOM" /\ Sym(1) = "DASH" /\ Sym(2) = "BMAP"
      BY <1>1, <1>3, ReduceDashShape DEF ReduceDash, Parsing
    <2>2. Val(2) \in Held'
      BY <1>1, <2>1, HeldAfter, UnderTop DEF NodeSyms
    <2>3. \/ live' = live \ Unanchored({Val(0)}) /\ UNCHANGED shortcut
          \/ /\ live' = (live \ Unanchored({Val(0)})) \cup {Fresh} /\ Fresh \in Nodes \ live
             /\ shortcut[Val(2)] = NONE /\ shortcut' = [shortcut EXCEPT ![Val(2)] = Fresh]
      BY <1>1, <1>3, FreshIsDead DEF ReduceDash, AddNodes, TypeOK
    <2>4. \A j \in 0..2 : /\ Sym(j) \in NodeSyms => \/ Val(j) \notin live'
                                                    \/ anchorOf'[Val(j)] # NONE
                                                    \/ Val(j) \in Held'
                          /\ Sym(j) \in {"BMAP", "TMAP"} => Val(j) \in Held'
      <3>1. Val(0) \in live => Val(0) \notin live' \/ anchorOf'[Val(0)] # NONE
        BY <2>1, <2>3 DEF Unanchored
      <3>2. Val(0) \in live
        BY <2>1, TopPlace DEF NodeSyms, OwnershipInv
      <3>3. QED
        BY <2>1, <2>2, <3>1, <3>2 DEF NodeSyms
    <2>5. \A m \in Nodes : shortcut[m] \in live' => shortcut'[m] = shortcut[m]
      <3>1. NONE \notin live'
        BY <1>1, <2>3, ConstantsAssumption DEF TypeOK
      <3>2. QED
        BY <1>1, <2>1, <2>3, <3>1 DEF TypeOK
    <2>6. \A n \in live' : n \in live \/ n \in Waiting'
      <3>1. ASSUME shortcut' = [shortcut EXCEPT ![Val(2)] = Fresh], Fresh \in Nodes
            PROVE  Fresh \in Waiting'
        BY <1>1, <2>1, <2>2, <3>1 DEF Waiting, TypeOK
      <3>2. QED
        BY <2>3, <3>1
    <2>7. QED
      BY <2>1, <2>4, <2>5, <2>6, LooseStep
  <1>4. CASE CloseBlock
    <2>1. /\ phase = "parse" /\ UNCHANGED <<croaked, anchorOf>>
          /\ Pops(2, [sym |-> "ATOM", val |-> Val(0)]) /\ Sym(1) = "IOPEN"
          /\ live' = live \ {shortcut[Val(0)]}
          /\ shortcut' = [shortcut EXCEPT ![Val(0)] = NONE]
      BY <1>1, <1>4, CloseBlockShape DEF CloseBlock
    <2>2. Val(0) \in Held'
      BY <1>1, <2>1, HeldAfter DEF NodeSyms
    <2>3. \A j \in 0..1 :
            j = 0 \/ (j = 1 /\ Sym(j) \notin NodeSyms /\ Sym(j) \notin {"BMAP", "TMAP"})
      BY <2>1 DEF NodeSyms
    <2>4. \A m \in Nodes : shortcut[m] \in live' => shortcut'[m] = shortcut[m]
      BY <1>1, <2>1 DEF TypeOK
    <2>5. QED
      BY <2>1, <2>2, <2>3, <2>4, LooseStep
  <1>5. QED
    BY <1>2, <1>3, <1>4

(* The end of a document: the root is handled, the tables are freed.       *)
LEMMA NothingLoose ==
  ASSUME OwnershipInv, LooseSound, Places = {}, ~croaked
  PROVE  \A n \in live : anchorOf[n] # NONE
BY DEF LooseSound, Held, Waiting

LEMMA RootLoose ==
  ASSUME OwnershipInv, LooseSound, ReduceRoot
  PROVE  LooseSound'
  <1>1. /\ TypeOK /\ StackSound /\ ShortcutsSound /\ phase = "parse" /\ ~croaked
        /\ UNCHANGED <<croaked, anchorOf>>
    BY Unborn DEF OwnershipInv, ReduceRoot
  <1>2. CASE stack = <<>> /\ UNCHANGED live
    <2>1. Places = {}
      BY <1>2, SeqFacts DEF Places
    <2>2. QED
      BY <1>1, <1>2, <2>1, NothingLoose DEF LooseSound
  <1>3. CASE Sym(0) = "ATOM" /\ Depth = 1 /\ AddNodes({Val(0)}, {})
    <2>1. Places = {1} /\ stack[1].val = Val(0) /\ stack[1].sym = "ATOM"
      BY <1>1, <1>3, StackFacts, UnderTop DEF Places, NodeSyms
    <2>2. Waiting = {}
      BY <1>1, <2>1, WaitingFor
    <2>3. \A n \in live : anchorOf[n] = NONE => n = Val(0)
      BY <1>1, <2>1, <2>2 DEF LooseSound, Held
    <2>4. QED
      BY <1>1, <1>3, <2>3 DEF AddNodes, Unanchored, LooseSound
  <1>4. QED
    BY <1>1, <1>2, <1>3, ReduceRootShape

LEMMA TeardownAccounted ==
  ASSUME OwnershipInv, Accounted, NextDocument \/ FreeParser \/ Croak
  PROVE  Accounted'
  <1>1. CASE Croak
    <2>1. /\ StFree /\ croaked' /\ ~croaked /\ TypeOK
          /\ \A n \in live : anchorOf[n] # NONE => n \in Filed \cup bad
      BY <1>1 DEF Croak, OwnershipInv, PhaseSound, Accounted, FilingSound
    <2>2. \A n \in live' \ bad' : anchorOf'[n] = NONE
      BY <2>1 DEF StFree, TypeOK
    <2>3. \A a \in Names : anchors'[a] = NONE /\ badAnchors'[a] = NONE
      BY <2>1 DEF StFree
    <2>4. QED
      BY <2>1, <2>2, <2>3 DEF Accounted, LooseSound, FilingSound, FreedSound
  <1>2. CASE (NextDocument \/ FreeParser) /\ ~croaked
    <2>1. /\ StFree /\ UNCHANGED croaked /\ stack = <<>>
          /\ TypeOK /\ TablesSound
      BY <1>2 DEF NextDocument, FreeParser, OwnershipInv, PhaseSound
    <2>2. Places = {}
      BY <2>1, SeqFacts DEF Places
    <2>3. \A n \in live : anchorOf[n] # NONE
      BY <1>2, <2>2, NothingLoose DEF Accounted
    <2>4. \A n \in live' : n \in live /\ n \notin Filed /\ n \in bad' /\ anchorOf'[n] # NONE
      BY <1>2, <2>1, <2>3 DEF StFree, Accounted, FilingSound, TypeOK
    <2>5. \A a \in Names : anchors'[a] = NONE /\ badAnchors'[a] = NONE
      BY <2>1 DEF StFree
    <2>6. QED
      BY <2>4, <2>5 DEF Accounted, LooseSound, FilingSound, FreedSound
  <1>3. CASE (NextDocument \/ FreeParser) /\ croaked
    BY <1>3 DEF NextDocument, FreeParser, OwnershipInv, PhaseSound
  <1>4. QED
    BY <1>1, <1>2, <1>3

-----------------------------------------------------------------------------
(* Named nodes.                                                            *)

(* A step that leaves the tables and the names alone.                      *)
LEMMA FilingKept ==
  ASSUME OwnershipInv, FilingSound, \A n \in live' : n \in Nodes,
         UNCHANGED <<croaked, bad, anchorOf, anchors, badAnchors, retired>>
  PROVE  FilingSound'
  <1>1. Filed' = Filed
    BY DEF Filed, Entries
  <1>2. \A n \in Nodes \ live : anchorOf[n] = NONE
    BY Unborn
  <1>3. QED
    BY <1>1, <1>2 DEF FilingSound

(* A name takes a new entry: its node moves to the retired ones.           *)
LEMMA RefilesFiled ==
  ASSUME TypeOK, NEW a, NEW to, Refiles(a, to)
  PROVE  /\ Filed \subseteq Filed'
         /\ to \in Nodes => to \in Filed'
  <1>1. /\ a \in Names /\ UNCHANGED badAnchors
        /\ \A b \in Names : anchors'[b] = IF b = a THEN to ELSE anchors[b]
    BY DEF Refiles, TypeOK
  <1>2. \A i \in DOMAIN retired : i \in DOMAIN retired' /\ retired'[i] = retired[i]
    <2>1. CASE anchors[a] \in Nodes
      <3>1. retired' = Append(retired, anchors[a]) /\ retired \in Seq(Nodes)
        BY <2>1 DEF Refiles, TypeOK
      <3>2. QED
        BY <2>1, <3>1, AppendFacts
    <2>2. CASE anchors[a] \notin Nodes
      BY <2>2 DEF Refiles
    <2>3. QED
      BY <2>1, <2>2
  <1>3. anchors[a] \in Nodes => \E i \in DOMAIN retired' : retired'[i] = anchors[a]
    <2> SUFFICES ASSUME anchors[a] \in Nodes
                 PROVE  \E i \in DOMAIN retired' : retired'[i] = anchors[a]
      OBVIOUS
    <2>1. retired' = Append(retired, anchors[a]) /\ retired \in Seq(Nodes)
      BY DEF Refiles, TypeOK
    <2>2. /\ Len(retired) \in Nat /\ DOMAIN retired' = 1..(Len(retired) + 1)
          /\ retired'[Len(retired) + 1] = anchors[a]
      BY <2>1, AppendFacts
    <2>3. Len(retired) + 1 \in DOMAIN retired'
      BY <2>2
    <2>4. QED
      BY <2>2, <2>3
  <1>4. ASSUME NEW n \in Filed
        PROVE  n \in Filed'
    <2>1. CASE \E i \in DOMAIN retired : retired[i] = n
      BY <1>2, <2>1 DEF Filed
    <2>2. CASE n \in Entries(badAnchors)
      BY <1>1, <2>2 DEF Filed
    <2>3. CASE n \in Entries(anchors)
      <3>1. PICK b \in Names : anchors[b] = n /\ n \in Nodes
        BY <2>3 DEF Entries
      <3>2. CASE b = a
        <4>1. \E i \in DOMAIN retired' : retired'[i] = n
          BY <1>3, <3>1, <3>2
        <4>2. QED
          BY <4>1 DEF Filed
      <3>3. CASE b # a
        <4>1. anchors'[b] = n
          BY <1>1, <3>1, <3>3
        <4>2. n \in {anchors'[c] : c \in Names} \cap Nodes
          BY <3>1, <4>1
        <4>3. QED
          BY <4>2 DEF Filed, Entries
      <3>4. QED
        BY <3>2, <3>3
    <2>4. QED
      BY <2>1, <2>2, <2>3 DEF Filed
  <1>5. to \in Nodes => to \in Filed'
    <2>1. anchors'[a] = to
      BY <1>1
    <2>2. to \in Nodes => to \in {anchors'[c] : c \in Names} \cap Nodes
      BY <1>1, <2>1
    <2>3. QED
      BY <2>2 DEF Filed, Entries
  <1>6. QED
    BY <1>4, <1>5

LEMMA FilingStep ==
  ASSUME OwnershipInv, OwnershipInv', FilingSound, Next,
         ~(NextDocument \/ FreeParser \/ Croak)
  PROVE  FilingSound'
  <1>1. /\ TypeOK /\ \A n \in Nodes \ live : anchorOf[n] = NONE
        /\ \A n \in live' : n \in Nodes
    BY Unborn DEF OwnershipInv, TypeOK
  <1>2. ASSUME NEW a \in Names, ShiftAnchor(a)
        PROVE  FilingSound'
    <2>1. Refiles(a, DEFINING) /\ UNCHANGED <<croaked, live, bad, anchorOf>>
      BY <1>2 DEF ShiftAnchor, RemoveAnchor, Refiles
    <2>2. QED
      BY <1>1, <2>1, RefilesFiled DEF FilingSound
  <1>3. CASE ReduceAnchor
    <2>1. /\ Val(0) \in Nodes /\ Val(1) \in Names /\ AddAnchor(Val(1), Val(0))
          /\ UNCHANGED <<croaked, live, bad, badAnchors>> /\ Val(0) \in live
      <3>1. Sym(0) \in NodeSyms
        BY <1>3 DEF ReduceAnchor, NodeSyms
      <3>2. QED
        BY <1>1, <1>3, <3>1, ReduceAnchorShape, TopPlace DEF ReduceAnchor, OwnershipInv
    <2>2. CASE anchorOf[Val(0)] # NONE
      BY <1>1, <2>1, <2>2, FilingKept DEF AddAnchor
    <2>3. CASE anchorOf[Val(0)] = NONE
      <3>1. Refiles(Val(1), Val(0)) /\ anchorOf' = [anchorOf EXCEPT ![Val(0)] = Val(1)]
        BY <2>1, <2>3 DEF AddAnchor, Refiles
      <3>2. Filed \subseteq Filed' /\ Val(0) \in Filed'
        BY <1>1, <2>1, <3>1, RefilesFiled
      <3>3. \A n \in live : n # Val(0) => anchorOf'[n] = anchorOf[n]
        BY <1>1, <3>1 DEF TypeOK
      <3>4. QED
        BY <2>1, <3>2, <3>3 DEF FilingSound
    <2>4. QED
      BY <2>2, <2>3
  <1>4. ASSUME NEW a \in Names, ShiftAlias(a)
        PROVE  FilingSound'
    <2>1. PICK n \in Nodes : GetAnchor(a, n)
      BY <1>4 DEF ShiftAlias
    <2>2. UNCHANGED <<croaked, anchors, retired>>
      BY <1>4 DEF ShiftAlias
    <2>3. CASE UNCHANGED <<live, bad, anchorOf, badAnchors>>
      BY <1>1, <2>2, <2>3, FilingKept
    <2>4. CASE /\ live' = live \cup {n} /\ bad' = bad \cup {n}
               /\ anchorOf' = [anchorOf EXCEPT ![n] = a]
               /\ anchors[a] = DEFINING => badAnchors[a] = NONE
               /\ badAnchors' = IF anchors[a] = DEFINING
                                  THEN [badAnchors EXCEPT ![a] = n] ELSE badAnchors
      <3>1. \A m \in Entries(badAnchors) : m \in Entries(badAnchors')
        <4>1. \A b \in Names : badAnchors[b] \in Nodes => badAnchors'[b] = badAnchors[b]
          BY <1>1, <2>4, ConstantsAssumption DEF TypeOK
        <4>2. QED
          BY <4>1 DEF Entries
      <3>2. Filed \subseteq Filed'
        BY <2>2, <3>1 DEF Filed
      <3>3. \A m \in Nodes : m # n => anchorOf'[m] = anchorOf[m]
        BY <1>1, <2>4 DEF TypeOK
      <3>4. QED
        BY <1>1, <2>2, <2>4, <3>2, <3>3 DEF FilingSound
    <2>5. QED
      BY <2>1, <2>3, <2>4 DEF GetAnchor
  <1>5. CASE \/ ShiftScalar \/ ShiftSep \/ ShiftDash \/ ShiftColon
             \/ \E sym \in {"LBRACKET", "LBRACE", "IOPEN"} : ShiftOpen(sym)
             \/ ReduceFirstItem \/ ReduceItem \/ ReduceMapping \/ ReduceLoneKey
             \/ ReduceFirstPair \/ ReducePair \/ ReduceDash \/ CloseFlow
             \/ CloseEmptyFlow \/ ReduceTopMap \/ CloseBlock \/ ReduceRoot
    <2>1. UNCHANGED <<croaked, bad, anchorOf, anchors, badAnchors, retired>>
      BY <1>5 DEF ShiftScalar, ShiftSep, ShiftDash, ShiftColon, ShiftOpen,
         ReduceFirstItem, ReduceItem, ReduceMapping, ReduceLoneKey, ReduceFirstPair,
         ReducePair, ReduceDash, CloseFlow, CloseEmptyFlow, ReduceTopMap, CloseBlock,
         ReduceRoot
    <2>2. QED
      BY <1>1, <2>1, FilingKept
  <1>6. QED
    BY <1>2, <1>3, <1>4, <1>5 DEF Next

-----------------------------------------------------------------------------
(* The nodes of a parse.                                                   *)

LEMMA StepAccounted ==
  ASSUME OwnershipInv, OwnershipInv', Accounted, [Next]_vars
  PROVE  Accounted'
  <1>1. CASE UNCHANGED vars
    BY <1>1 DEF vars, Accounted, LooseSound, FilingSound, FreedSound, Held, Waiting,
       Places, Filed, Entries
  <1>2. CASE NextDocument \/ FreeParser \/ Croak
    BY <1>2, TeardownAccounted
  <1>3. CASE Next /\ ~(NextDocument \/ FreeParser \/ Croak)
    <2>1. LooseSound'
      BY <1>3, LooseShifts, LooseReductions, LooseMaps, RootLoose DEF Next, Accounted
    <2>2. FilingSound'
      BY <1>3, FilingStep DEF Accounted
    <2>3. phase' # "freed"
      BY <1>3 DEF Next, ShiftAnchor, ShiftAlias, ShiftScalar, ShiftSep, ShiftDash,
         ShiftColon, ShiftOpen, Expecting, Parsing, ReduceAnchor,
         ReduceFirstItem, ReduceItem, ReduceMapping, ReduceLoneKey, ReduceFirstPair,
         ReducePair, ReduceDash, CloseFlow, CloseEmptyFlow, ReduceTopMap, CloseBlock,
         ReduceRoot
    <2>4. QED
      BY <2>1, <2>2, <2>3 DEF Accounted, FreedSound
  <1>4. QED
    BY <1>1, <1>2, <1>3

LEMMA InitAccounted == Init => Accounted
BY DEF Init, Accounted, LooseSound, FilingSound, FreedSound

THEOREM NodesAccounted == Spec => []Accounted
  <1>1. OwnershipInv /\ OwnershipInv' /\ Accounted /\ [Next]_vars => Accounted'
    BY StepAccounted
  <1>2. QED
    BY <1>1, InitAccounted, Ownership, PTL DEF Spec

(* Until a croak, whatever the grammar reduces, a node that is allocated   *)
(* is on the stack, in a shortcut or in a table, or is the stand-in of an  *)
(* undefined alias.                                                        *)
THEOREM NoNodeLost == Spec => []NoLostNode
  <1>1. Accounted => NoLostNode
    BY DEF Accounted, LooseSound, FilingSound, NoLostNode
  <1>2. QED
    BY <1>1, NodesAccounted, PTL

-----------------------------------------------------------------------------
(* The copies of a name.                                                   *)

Token(a) == [sym |-> "ANCHOR", val |-> a]
TokensOf(a) == {i \in DOMAIN stack : stack[i] = Token(a)}
CarriersOf(a) == {n \in live : anchorOf[n] = a}

LEMMA OwnersIs ==
  ASSUME TypeOK, NEW a
  PROVE  /\ Owners(a) = Cardinality(TokensOf(a)) + Cardinality(CarriersOf(a))
                          + Key(anchors, a) + Key(badAnchors, a)
         /\ IsFiniteSet(TokensOf(a)) /\ IsFiniteSet(CarriersOf(a))
         /\ Cardinality(TokensOf(a)) \in Nat /\ Cardinality(CarriersOf(a)) \in Nat
         /\ Key(anchors, a) \in Nat /\ Key(badAnchors, a) \in Nat
  <1>1. IsFiniteSet(TokensOf(a))
    <2>1. Depth \in Nat /\ TokensOf(a) \subseteq 1..Depth
      BY StackFacts DEF TokensOf
    <2>2. IsFiniteSet(1..Depth)
      BY <2>1, FS_Interval
    <2>3. QED
      BY <2>1, <2>2, FS_Subset
  <1>2. IsFiniteSet(CarriersOf(a))
    <2>1. CarriersOf(a) \in SUBSET Nodes
      BY DEF CarriersOf, TypeOK
    <2>2. QED
      BY <2>1, FS_Subset, ConstantsAssumption
  <1>3. Cardinality(TokensOf(a)) \in Nat /\ Cardinality(CarriersOf(a)) \in Nat
    BY <1>1, <1>2, FS_CardinalityType
  <1>4. Owners(a) = Cardinality(TokensOf(a)) + Cardinality(CarriersOf(a))
                      + Key(anchors, a) + Key(badAnchors, a)
    BY DEF Owners, TokensOf, Token, CarriersOf
  <1>5. QED
    BY <1>1, <1>2, <1>3, <1>4 DEF Key

(* The same of the next state.                                             *)
OwnersSum ==
  \A a \in Names :
    /\ Owners(a) = Cardinality(TokensOf(a)) + Cardinality(CarriersOf(a))
                     + Key(anchors, a) + Key(badAnchors, a)
    /\ IsFiniteSet(TokensOf(a)) /\ IsFiniteSet(CarriersOf(a))
    /\ Cardinality(TokensOf(a)) \in Nat /\ Cardinality(CarriersOf(a)) \in Nat
    /\ Key(anchors, a) \in Nat /\ Key(badAnchors, a) \in Nat

LEMMA OwnersSums == (TypeOK => OwnersSum) /\ (TypeOK' => OwnersSum')
  <1>1. TypeOK => OwnersSum
    BY OwnersIs DEF OwnersSum
  <1>2. QED
    BY <1>1, PTL

(* What a move does to the tokens of a name.                               *)
LEMMA TokensAfter ==
  ASSUME TypeOK, NEW k, NEW e, Pops(k, e), NEW a,
         \A j \in 0..(k - 1) : stack[Depth - j] # Token(a)
  PROVE  TokensOf(a)' = IF e = Token(a) THEN TokensOf(a) \cup {Depth'} ELSE TokensOf(a)
  <1>1. /\ Depth' \in Nat /\ Depth \in Nat /\ k \in 0..Depth /\ Depth' = Depth - k + 1
        /\ DOMAIN stack = 1..Depth /\ DOMAIN stack' = 1..Depth'
        /\ stack'[Depth'] = e /\ Depth' \in 1..Depth'
        /\ \A i \in 1..Depth' : i # Depth' => i \in 1..Depth /\ stack'[i] = stack[i]
    BY PopsFacts DEF TypeOK
  <1>2. ASSUME NEW i \in 1..Depth, stack[i] = Token(a)
        PROVE  i < Depth'
    <2>1. CASE i >= Depth'
      <3>1. Depth - i \in 0..(k - 1) /\ Depth - (Depth - i) = i
        BY <1>1, <2>1
      <3>2. QED
        BY <1>2, <3>1
    <2>2. QED
      BY <1>1, <2>1
  <1>3. \A i : i \in TokensOf(a) <=> i \in 1..Depth' /\ i # Depth' /\ stack'[i] = Token(a)
    BY <1>1, <1>2 DEF TokensOf
  <1>4. \A i : i \in TokensOf(a)' <=> i \in 1..Depth' /\ stack'[i] = Token(a)
    BY <1>1 DEF TokensOf, Token
  <1>5. \A i : i \in TokensOf(a)' <=> i \in TokensOf(a) \/ (i = Depth' /\ e = Token(a))
    BY <1>1, <1>3, <1>4
  <1>6. QED
    BY <1>5

(* The entries a move pops are no tokens, when their symbols are not.      *)
LEMMA NoToken ==
  ASSUME TypeOK, NEW k, NEW e, Pops(k, e), NEW a,
         \A j \in 0..(k - 1) : Sym(j) # "ANCHOR"
  PROVE  \A j \in 0..(k - 1) : stack[Depth - j] # Token(a)
  <1>1. /\ Depth \in Nat /\ k \in 0..Depth
    BY PopsFacts DEF TypeOK
  <1>2. \A j \in 0..(k - 1) : Sym(j) = stack[Depth - j].sym
    BY <1>1 DEF Sym
  <1>3. QED
    BY <1>2 DEF Token

(* A move that neither shifts nor reduces an anchor, and leaves the tables *)
(* and the names of nodes alone.                                           *)
LEMMA NamesKept ==
  ASSUME OwnershipInv, TypeOK', NEW k, NEW e, Pops(k, e),
         \A j \in 0..(k - 1) : Sym(j) # "ANCHOR", e.sym # "ANCHOR",
         UNCHANGED <<croaked, anchorOf, anchors, badAnchors, strs>>,
         \A n \in live : anchorOf[n] # NONE => n \in live',
         EveryNameOwned
  PROVE  EveryNameOwned'
  <1>1. TypeOK /\ \A n \in Nodes \ live : anchorOf[n] = NONE
    BY Unborn
  <1>2. ASSUME NEW a \in Names
        PROVE  Owners(a)' = Owners(a)
    <2>1. TokensOf(a)' = TokensOf(a)
      <3>1. e # Token(a)
        BY DEF Token
      <3>2. \A j \in 0..(k - 1) : stack[Depth - j] # Token(a)
        BY <1>1, NoToken
      <3>3. QED
        BY <1>1, <3>1, <3>2, TokensAfter
    <2>2. CarriersOf(a)' = CarriersOf(a)
      BY <1>1, ConstantsAssumption DEF CarriersOf, TypeOK
    <2>3. QED
      BY <2>1, <2>2, <1>1, OwnersIs DEF Owners, TokensOf, Token, CarriersOf, Key
  <1>3. QED
    BY <1>2 DEF EveryNameOwned

(* No other action shifts or pops an anchor's token.                       *)
Tokenless == \E k, e : /\ Pops(k, e) /\ e.sym # "ANCHOR"
                       /\ \A j \in 0..(k - 1) : Sym(j) # "ANCHOR"

LEMMA PlainTokenless ==
  ASSUME TypeOK,
         \/ ShiftScalar \/ ShiftSep \/ ShiftDash \/ ShiftColon
         \/ \E sym \in {"LBRACKET", "LBRACE", "IOPEN"} : ShiftOpen(sym)
         \/ ReduceFirstItem \/ ReduceItem \/ ReduceMapping \/ ReduceLoneKey
         \/ ReduceFirstPair \/ ReducePair \/ ReduceDash \/ CloseFlow
         \/ CloseEmptyFlow \/ ReduceTopMap \/ CloseBlock
  PROVE  Tokenless
  <1>1. ASSUME NEW k \in {0, 1, 2, 3}, NEW e, Pops(k, e), e.sym # "ANCHOR",
               k > 0 => Sym(0) # "ANCHOR", k > 1 => Sym(1) # "ANCHOR",
               k > 2 => Sym(2) # "ANCHOR"
        PROVE  Tokenless
    <2>1. \A j \in 0..(k - 1) : Sym(j) # "ANCHOR"
      BY <1>1
    <2>2. QED
      BY <1>1, <2>1 DEF Tokenless
  <1>2. ASSUME NEW k \in Nat, Sym(k) \in NodeSyms
        PROVE  stack[Depth - k].sym = Sym(k)
    BY <1>2, TopFacts DEF TypeOK, NodeSyms
  <1>3. CASE ShiftScalar
    BY <1>1, <1>3, ShiftScalarShape
  <1>4. CASE ShiftSep \/ ShiftDash \/ \E s \in {"LBRACKET", "LBRACE", "IOPEN"} : ShiftOpen(s)
    <2>1. PICK s \in MarkSyms : Pops(0, [sym |-> s, val |-> NONE])
      BY <1>4, ShiftMarkShape
    <2>2. QED
      BY <1>1, <2>1 DEF MarkSyms
  <1>5. CASE ShiftColon
    BY <1>1, <1>5, ShiftColonShape
  <1>6. CASE ReduceFirstItem
    BY <1>1, <1>6, ReduceFirstItemShape
  <1>7. CASE ReduceItem
    <2>1. Sym(0) # "ANCHOR" /\ Sym(1) = "SEQ" /\ Pops(2, stack[Depth - 1])
      BY <1>7, ReduceItemShape
    <2>2. stack[Depth - 1].sym # "ANCHOR"
      BY <1>2, <2>1 DEF NodeSyms
    <2>3. QED
      BY <1>1, <2>1, <2>2
  <1>8. CASE ReduceMapping
    BY <1>1, <1>8, ReduceMappingShape
  <1>9. CASE ReduceLoneKey
    BY <1>1, <1>9, ReduceLoneKeyShape
  <1>10. CASE ReduceFirstPair
    <2>1. PICK s \in {"MAP", "BMAP"} : Pops(1, [sym |-> s, val |-> Val(0)])
      BY <1>10, ReduceFirstPairShape
    <2>2. QED
      BY <1>1, <1>10, <2>1, ReduceFirstPairShape
  <1>11. CASE ReducePair
    <2>1. Sym(0) # "ANCHOR" /\ Sym(1) \in {"MAP", "BMAP"} /\ Pops(2, stack[Depth - 1])
      BY <1>11, ReducePairShape
    <2>2. stack[Depth - 1].sym # "ANCHOR"
      BY <1>2, <2>1 DEF NodeSyms
    <2>3. QED
      BY <1>1, <2>1, <2>2
  <1>12. CASE ReduceDash
    <2>1. /\ Sym(0) # "ANCHOR" /\ Sym(1) = "DASH" /\ Sym(2) = "BMAP"
          /\ Pops(3, stack[Depth - 2])
      BY <1>12, ReduceDashShape DEF ReduceDash
    <2>2. stack[Depth - 2].sym # "ANCHOR"
      BY <1>2, <2>1 DEF NodeSyms
    <2>3. QED
      BY <1>1, <2>1, <2>2
  <1>13. CASE CloseFlow
    BY <1>1, <1>13, CloseFlowShape DEF CloseFlow
  <1>14. CASE CloseEmptyFlow
    BY <1>1, <1>14, CloseEmptyFlowShape DEF CloseEmptyFlow
  <1>15. CASE ReduceTopMap
    BY <1>1, <1>15, ReduceTopMapShape DEF ReduceTopMap
  <1>16. CASE CloseBlock
    BY <1>1, <1>16, CloseBlockShape DEF CloseBlock
  <1>17. QED
    BY <1>3, <1>4, <1>5, <1>6, <1>7, <1>8, <1>9, <1>10, <1>11, <1>12, <1>13, <1>14,
       <1>15, <1>16

LEMMA NamesPlain ==
  ASSUME OwnershipInv, TypeOK', EveryNameOwned,
         \/ ShiftScalar \/ ShiftSep \/ ShiftDash \/ ShiftColon
         \/ \E sym \in {"LBRACKET", "LBRACE", "IOPEN"} : ShiftOpen(sym)
         \/ ReduceFirstItem \/ ReduceItem \/ ReduceMapping \/ ReduceLoneKey
         \/ ReduceFirstPair \/ ReducePair \/ ReduceDash \/ CloseFlow
         \/ CloseEmptyFlow \/ ReduceTopMap \/ CloseBlock
  PROVE  EveryNameOwned'
  <1>1. /\ UNCHANGED <<croaked, anchorOf, anchors, badAnchors, strs>>
        /\ phase = "parse" /\ phase' # "freed"
    BY DEF ShiftScalar, ShiftSep, ShiftDash, ShiftColon, ShiftOpen, Expecting, Parsing,
         ReduceFirstItem, ReduceItem, ReduceMapping, ReduceLoneKey, ReduceFirstPair,
         ReducePair, ReduceDash, CloseFlow, CloseEmptyFlow, ReduceTopMap, CloseBlock
  <1>2. PICK k, e : /\ Pops(k, e) /\ e.sym # "ANCHOR"
                    /\ \A j \in 0..(k - 1) : Sym(j) # "ANCHOR"
    BY PlainTokenless DEF OwnershipInv, Tokenless
  <1>3. [Next]_vars
    BY DEF Next
  <1>4. \A n \in live : anchorOf[n] # NONE => n \in live'
    BY <1>1, <1>3, NamedSurvive
  <1>5. QED
    BY <1>1, <1>2, <1>4, NamesKept

-----------------------------------------------------------------------------
(* A token comes, and a token goes.                                        *)

(* The ledger of a name: what it owes before the step and after it.        *)
Ledger(a) ==
  /\ Owners(a) = Cardinality(TokensOf(a)) + Cardinality(CarriersOf(a))
                   + Key(anchors, a) + Key(badAnchors, a)
  /\ Cardinality(TokensOf(a)) \in Nat /\ Cardinality(CarriersOf(a)) \in Nat
  /\ Key(anchors, a) \in Nat /\ Key(badAnchors, a) \in Nat

LEMMA Balance ==
  ASSUME TypeOK, TypeOK', EveryNameOwned, ~croaked, NEW a \in Names
  PROVE  Ledger(a) /\ Ledger(a)' /\ strs[a] = Owners(a)
  <1>1. OwnersSum /\ OwnersSum'
    BY OwnersSums
  <1>2. QED
    BY <1>1 DEF OwnersSum, EveryNameOwned, Ledger

LEMMA NamesShiftAnchor ==
  ASSUME OwnershipInv, TypeOK', EveryNameOwned, NEW a \in Names, ShiftAnchor(a)
  PROVE  EveryNameOwned'
  <1>1. /\ TypeOK /\ Pops(0, Token(a)) /\ ~croaked /\ Depth' \notin TokensOf(a)
        /\ UNCHANGED <<live, anchorOf, badAnchors>> /\ Refiles(a, DEFINING)
        /\ strs' = [strs EXCEPT ![a] = @ + 2 - Key(anchors, a)]
    <2>1. Pops(0, Token(a)) /\ TypeOK
      BY ShiftAnchorShape DEF OwnershipInv, Token
    <2>2. Depth' = Depth + 1 /\ Depth \in Nat /\ DOMAIN stack = 1..Depth
      BY <2>1, PopsFacts DEF TypeOK
    <2>3. Depth' \notin TokensOf(a)
      BY <2>2 DEF TokensOf
    <2>4. QED
      BY <2>1, <2>3, Unborn DEF ShiftAnchor, Expecting, RemoveAnchor, Refiles
  <1>2. ASSUME NEW b \in Names
        PROVE  /\ TokensOf(b)' = IF b = a THEN TokensOf(b) \cup {Depth'} ELSE TokensOf(b)
               /\ CarriersOf(b)' = CarriersOf(b)
               /\ Key(anchors, b)' = IF b = a THEN 1 ELSE Key(anchors, b)
               /\ Key(badAnchors, b)' = Key(badAnchors, b)
               /\ strs'[b] = IF b = a THEN strs[b] + 2 - Key(anchors, b) ELSE strs[b]
    <2>1. TokensOf(b)' = IF Token(a) = Token(b) THEN TokensOf(b) \cup {Depth'} ELSE TokensOf(b)
      BY <1>1, TokensAfter
    <2>2. Token(a) = Token(b) <=> a = b
      BY DEF Token
    <2>3. CarriersOf(b)' = CarriersOf(b) /\ Key(badAnchors, b)' = Key(badAnchors, b)
      BY <1>1 DEF CarriersOf, Key
    <2>4. Key(anchors, b)' = IF b = a THEN 1 ELSE Key(anchors, b)
      BY <1>1, ConstantsAssumption DEF Refiles, Key, TypeOK
    <2>5. strs'[b] = IF b = a THEN strs[b] + 2 - Key(anchors, b) ELSE strs[b]
      BY <1>1 DEF TypeOK
    <2>6. QED
      BY <2>1, <2>2, <2>3, <2>4, <2>5
  <1>3. ASSUME NEW b \in Names
        PROVE  strs'[b] = Owners(b)'
    <2>1. IsFiniteSet(TokensOf(b)) /\ Key(anchors, b) \in Int
      BY <1>1, OwnersIs
    <2>2. Cardinality(TokensOf(b) \cup {Depth'}) = Cardinality(TokensOf(b)) + 1 \/ b # a
      BY <1>1, <2>1, FS_AddElement
    <2>3. CASE b = a
      <3>1. Ledger(b) /\ Ledger(b)' /\ strs[b] = Owners(b)
        BY <1>1, Balance
      <3>2. QED
        <4>1. /\ Cardinality(TokensOf(b))' = Cardinality(TokensOf(b)) + 1
              /\ Cardinality(CarriersOf(b))' = Cardinality(CarriersOf(b))
              /\ Key(anchors, b)' = 1 /\ Key(badAnchors, b)' = Key(badAnchors, b)
              /\ strs'[b] = strs[b] + 2 - Key(anchors, b)
          BY <1>2, <2>2, <2>3
        <4>2. QED
          BY <3>1, <4>1 DEF Ledger
    <2>4. CASE b # a
      <3>1. Ledger(b) /\ Ledger(b)' /\ strs[b] = Owners(b)
        BY <1>1, Balance
      <3>2. QED
        BY <3>1, <1>1, <1>2, <2>4 DEF Ledger
    <2>5. QED
      BY <2>3, <2>4
  <1>4. QED
    BY <1>3 DEF EveryNameOwned

LEMMA NamesReduceAnchor ==
  ASSUME OwnershipInv, TypeOK', EveryNameOwned, ReduceAnchor
  PROVE  EveryNameOwned'
  <1> DEFINE a == Val(1)
             n == Val(0)
             t == Depth - 1
  <1>1. /\ TypeOK /\ ~croaked /\ n \in Nodes /\ a \in Names /\ n \in live
        /\ UNCHANGED <<live, badAnchors>> /\ AddAnchor(a, n)
        /\ Depth \in Nat /\ DOMAIN stack = 1..Depth /\ t \in 1..Depth
        /\ stack[t] = Token(a) /\ t = Depth' /\ DOMAIN stack' = 1..Depth'
        /\ stack'[t] # Token(a) /\ stack[Depth].sym # "ANCHOR"
        /\ \A i \in 1..Depth' : i # t => i \in 1..Depth /\ stack'[i] = stack[i]
    <2>1. /\ Pops(2, [sym |-> Sym(0), val |-> n]) /\ TypeOK /\ ~croaked
          /\ n \in Nodes /\ a \in Names /\ Sym(0) \in {"ATOM", "TMAP"} /\ Sym(1) = "ANCHOR"
          /\ UNCHANGED <<live, badAnchors>> /\ AddAnchor(a, n)
      BY ReduceAnchorShape, Unborn DEF OwnershipInv, ReduceAnchor
    <2>2. /\ Depth' = Depth - 2 + 1 /\ Depth \in Nat
          /\ DOMAIN stack = 1..Depth /\ DOMAIN stack' = 1..Depth'
          /\ stack'[Depth'] = [sym |-> Sym(0), val |-> n] /\ Depth' \in Nat
          /\ \A i \in 1..Depth' : i # Depth' => i \in 1..Depth /\ stack'[i] = stack[i]
      BY <2>1, PopsFacts DEF TypeOK
    <2>3. /\ Depth - 1 \in 1..Depth /\ stack[Depth - 1] \in Entry
          /\ stack[Depth - 1].sym = "ANCHOR" /\ stack[Depth - 1].val = a
      BY <2>1, TopFacts DEF TypeOK
    <2>4. stack[Depth - 1] = Token(a)
      BY <2>3 DEF Entry, NameSyms, NodeSyms, MarkSyms, Token
    <2>5. n \in live /\ stack[Depth - 0].sym = Sym(0)
      BY <2>1, TopPlace, UnderTop DEF OwnershipInv, NodeSyms
    <2>6. t = Depth'
      BY <2>2
    <2>7. stack'[t] # Token(a) /\ stack[Depth].sym # "ANCHOR"
      BY <2>1, <2>2, <2>5, <2>6 DEF Token
    <2>8. QED
      BY <2>1, <2>2, <2>3, <2>4, <2>5, <2>6, <2>7
  <1> HIDE DEF a, n, t
  <1>2. ASSUME NEW b \in Names
        PROVE  TokensOf(b)' = IF b = a THEN TokensOf(b) \ {t} ELSE TokensOf(b)
    <2>1. stack[t].sym = "ANCHOR" /\ stack[t].val = a /\ (b # a => stack[t] # Token(b))
      BY <1>1 DEF Token
    <2>2. stack'[t] # Token(b)
      <3>1. b # a => stack'[t] # Token(b)
        BY ReduceAnchorShape, <1>1, PopsFacts DEF OwnershipInv, TypeOK, Token
      <3>2. QED
        BY <1>1, <3>1
    <2>3. \A i : i \in TokensOf(b)' <=> i \in 1..Depth' /\ stack'[i] = Token(b)
      BY <1>1 DEF TokensOf, Token
    <2>4. \A i : i \in TokensOf(b) <=> i \in 1..Depth /\ stack[i] = Token(b)
      BY <1>1 DEF TokensOf
    <2>5. stack[Depth] # Token(b)
      BY <1>1 DEF Token
    <2>6. \A i \in 1..Depth : i < t \/ i = t \/ i = Depth
      BY <1>1 DEF t
    <2>7. \A i : i \in TokensOf(b)' <=> i \in TokensOf(b) /\ i # t
      BY <1>1, <2>2, <2>3, <2>4, <2>5, <2>6
    <2>8. QED
      BY <2>1, <2>4, <2>7
  <1>3. ASSUME NEW b \in Names
        PROVE  /\ IsFiniteSet(TokensOf(b)) /\ IsFiniteSet(CarriersOf(b))
               /\ Cardinality(TokensOf(b))' = Cardinality(TokensOf(b)) + (IF b = a THEN -1 ELSE 0)
               /\ Key(anchors, b) \in Int /\ Cardinality(CarriersOf(b)) \in Nat
               /\ Key(badAnchors, b)' = Key(badAnchors, b)
    <2>1. /\ IsFiniteSet(TokensOf(b)) /\ Cardinality(TokensOf(b)) \in Nat
          /\ IsFiniteSet(CarriersOf(b)) /\ Key(anchors, b) \in Int
          /\ Cardinality(CarriersOf(b)) \in Nat
      BY <1>1, OwnersIs
    <2>2. t \in TokensOf(a)
      BY <1>1 DEF TokensOf
    <2>3. Cardinality(TokensOf(b) \ {t}) = Cardinality(TokensOf(b)) - 1 \/ b # a
      BY <2>1, <2>2, FS_RemoveElement
    <2>4. Key(badAnchors, b)' = Key(badAnchors, b)
      BY <1>1 DEF Key
    <2>5. Cardinality(TokensOf(b))' = Cardinality(TokensOf(b)) + (IF b = a THEN -1 ELSE 0)
      BY <1>2, <2>1, <2>3
    <2>6. QED
      BY <2>1, <2>4, <2>5
  <1>4. CASE anchorOf[n] # NONE
    <2>1. strs' = [strs EXCEPT ![a] = @ - 1] /\ UNCHANGED <<anchorOf, anchors>>
      BY <1>1, <1>4 DEF AddAnchor
    <2>2. ASSUME NEW b \in Names
          PROVE  strs'[b] = Owners(b)'
      <3>1. /\ Cardinality(CarriersOf(b))' = Cardinality(CarriersOf(b))
            /\ Key(anchors, b)' = Key(anchors, b)
            /\ strs'[b] = strs[b] + (IF b = a THEN -1 ELSE 0)
        BY <1>1, <2>1 DEF CarriersOf, Key, TypeOK
      <3>2. CASE b = a
        <4>1. Ledger(b) /\ Ledger(b)' /\ strs[b] = Owners(b)
          BY <1>1, Balance
        <4>2. QED
          BY <4>1, <1>1, <1>3, <3>1, <3>2 DEF Ledger
      <3>3. CASE b # a
        <4>1. Ledger(b) /\ Ledger(b)' /\ strs[b] = Owners(b)
          BY <1>1, Balance
        <4>2. QED
          BY <4>1, <1>1, <1>3, <3>1, <3>3 DEF Ledger
      <3>4. QED
        BY <3>2, <3>3
    <2>3. QED
      BY <2>2 DEF EveryNameOwned
  <1>5. CASE anchorOf[n] = NONE
    <2>1. /\ strs' = [strs EXCEPT ![a] = @ + 1 - Key(anchors, a)]
          /\ anchorOf' = [anchorOf EXCEPT ![n] = a]
          /\ anchors' = [anchors EXCEPT ![a] = n]
      BY <1>1, <1>5 DEF AddAnchor
    <2>2. ASSUME NEW b \in Names
          PROVE  strs'[b] = Owners(b)'
      <3>1. n \notin CarriersOf(b) /\ b # NONE
        BY <1>5, ConstantsAssumption DEF CarriersOf
      <3>2. CarriersOf(b)' = IF b = a THEN CarriersOf(b) \cup {n} ELSE CarriersOf(b)
        BY <1>1, <2>1, <3>1 DEF CarriersOf, TypeOK
      <3>3. Cardinality(CarriersOf(b) \cup {n}) = Cardinality(CarriersOf(b)) + 1
        BY <1>3, <3>1, FS_AddElement
      <3>4. /\ Key(anchors, b)' = IF b = a THEN 1 ELSE Key(anchors, b)
            /\ strs'[b] = IF b = a THEN strs[b] + 1 - Key(anchors, b) ELSE strs[b]
        BY <1>1, <2>1, ConstantsAssumption DEF Key, TypeOK
      <3>5. CASE b = a
        <4>1. Ledger(b) /\ Ledger(b)' /\ strs[b] = Owners(b)
          BY <1>1, Balance
        <4>2. QED
          <5>1. /\ Cardinality(TokensOf(b))' = Cardinality(TokensOf(b)) - 1
                /\ Cardinality(CarriersOf(b))' = Cardinality(CarriersOf(b)) + 1
                /\ Key(anchors, b)' = 1 /\ Key(badAnchors, b)' = Key(badAnchors, b)
                /\ strs'[b] = strs[b] + 1 - Key(anchors, b)
            BY <1>3, <3>2, <3>3, <3>4, <3>5, <4>1 DEF Ledger
          <5>2. QED
            BY <4>1, <5>1 DEF Ledger
      <3>6. CASE b # a
        <4>1. Ledger(b) /\ Ledger(b)' /\ strs[b] = Owners(b)
          BY <1>1, Balance
        <4>2. QED
          BY <4>1, <1>1, <1>3, <3>2, <3>4, <3>6 DEF Ledger
      <3>7. QED
        BY <3>5, <3>6
    <2>3. QED
      BY <2>2 DEF EveryNameOwned
  <1>6. QED
    BY <1>4, <1>5

LEMMA NamesShiftAlias ==
  ASSUME OwnershipInv, TypeOK', EveryNameOwned, NEW a \in Names, ShiftAlias(a)
  PROVE  EveryNameOwned'
  <1>1. PICK n \in Nodes : GetAnchor(a, n) /\ Pops(0, [sym |-> "ATOM", val |-> n])
    BY ShiftAliasShape DEF OwnershipInv
  <1>2. /\ TypeOK /\ ~croaked /\ UNCHANGED <<croaked, anchors>>
        /\ \A m \in Nodes \ live : anchorOf[m] = NONE
    BY Unborn DEF ShiftAlias, Expecting
  <1>3. ASSUME NEW b \in Names
        PROVE  TokensOf(b)' = TokensOf(b) /\ Key(anchors, b)' = Key(anchors, b)
    <2>1. [sym |-> "ATOM", val |-> n] # Token(b)
      BY DEF Token
    <2>2. QED
      BY <1>1, <1>2, <2>1, TokensAfter DEF Key
  <1>4. CASE UNCHANGED <<live, bad, anchorOf, badAnchors, strs>>
    <2>1. ASSUME NEW b \in Names
          PROVE  strs'[b] = Owners(b)'
      <3>1. CarriersOf(b)' = CarriersOf(b) /\ Key(badAnchors, b)' = Key(badAnchors, b)
        BY <1>4 DEF CarriersOf, Key
      <3>2. QED
        <4>1. Ledger(b) /\ Ledger(b)' /\ strs[b] = Owners(b)
          BY <1>2, Balance
        <4>2. QED
          BY <4>1, <1>2, <1>3, <1>4, <3>1 DEF Ledger
    <2>2. QED
      BY <2>1 DEF EveryNameOwned
  <1>5. CASE /\ anchors[a] = DEFINING \/ anchors[a] = NONE
             /\ anchors[a] = DEFINING => badAnchors[a] = NONE
             /\ CanAlloc /\ n = Fresh /\ live' = live \cup {n}
             /\ anchorOf' = [anchorOf EXCEPT ![n] = a]
             /\ badAnchors' = IF anchors[a] = DEFINING
                                THEN [badAnchors EXCEPT ![a] = n] ELSE badAnchors
             /\ strs' = [strs EXCEPT ![a] = @ + 1 + Key(anchors, a)]
    <2>1. n \notin live
      BY <1>2, <1>5, FreshIsDead DEF TypeOK
    <2>2. ASSUME NEW b \in Names
          PROVE  strs'[b] = Owners(b)'
      <3>1. n \notin CarriersOf(b)
        BY <2>1 DEF CarriersOf
      <3>2. CarriersOf(b)' = IF b = a THEN CarriersOf(b) \cup {n} ELSE CarriersOf(b)
        <4>1. \A m \in Nodes : anchorOf'[m] = IF m = n THEN a ELSE anchorOf[m]
          BY <1>2, <1>5 DEF TypeOK
        <4>2. live \subseteq Nodes
          BY <1>2 DEF TypeOK
        <4>3. QED
          BY <1>5, <2>1, <4>1, <4>2 DEF CarriersOf
      <3>3. /\ IsFiniteSet(CarriersOf(b)) /\ Cardinality(CarriersOf(b)) \in Nat
            /\ Key(anchors, b) \in Int /\ Key(badAnchors, b) \in Int
        BY <1>2, OwnersIs
      <3>4. Cardinality(CarriersOf(b) \cup {n}) = Cardinality(CarriersOf(b)) + 1
        BY <3>1, <3>3, FS_AddElement
      <3>5. strs'[b] = IF b = a THEN strs[b] + 1 + Key(anchors, b) ELSE strs[b]
        BY <1>2, <1>5 DEF TypeOK
      <3>6. Key(badAnchors, b)' = Key(badAnchors, b) + (IF b = a THEN Key(anchors, b) ELSE 0)
        BY <1>2, <1>5, ConstantsAssumption DEF Key, TypeOK
      <3>7. CASE b = a
        <4>1. Ledger(b) /\ Ledger(b)' /\ strs[b] = Owners(b)
          BY <1>2, Balance
        <4>2. QED
          BY <4>1, <1>2, <1>3, <3>2, <3>3, <3>4, <3>5, <3>6, <3>7 DEF Ledger
      <3>8. CASE b # a
        <4>1. Ledger(b) /\ Ledger(b)' /\ strs[b] = Owners(b)
          BY <1>2, Balance
        <4>2. QED
          BY <4>1, <1>2, <1>3, <3>2, <3>5, <3>6, <3>8, <3>3 DEF Ledger
      <3>9. QED
        BY <3>7, <3>8
    <2>3. QED
      BY <2>2 DEF EveryNameOwned
  <1>6. QED
    BY <1>1, <1>4, <1>5 DEF GetAnchor

-----------------------------------------------------------------------------
(* The tables are freed, with the names of their nodes and their keys.     *)

LEMMA NoTokens ==
  ASSUME NEW a, stack = <<>>
  PROVE  TokensOf(a) = {}
BY SeqFacts DEF TokensOf

LEMMA NamesRoot ==
  ASSUME OwnershipInv, TypeOK', EveryNameOwned, ReduceRoot
  PROVE  EveryNameOwned'
  <1>1. /\ TypeOK /\ ~croaked /\ stack' = <<>> /\ phase = "parse" /\ phase' # "freed"
        /\ UNCHANGED <<anchorOf, anchors, badAnchors, strs>>
        /\ \A n \in Nodes \ live : anchorOf[n] = NONE /\ live \subseteq Nodes
        /\ live' \subseteq live
    BY Unborn DEF ReduceRoot, AddNodes, TypeOK
  <1>2. ASSUME NEW a \in Names
        PROVE  TokensOf(a) = {} /\ TokensOf(a)' = {}
    <2>1. TokensOf(a) = {}
      <3>1. CASE stack = <<>>
        BY <3>1, NoTokens
      <3>2. CASE Sym(0) = "ATOM" /\ Depth = 1
        BY <1>1, <3>2, StackFacts, UnderTop DEF TokensOf, Token, NodeSyms
      <3>3. QED
        BY <1>1, <3>1, <3>2, ReduceRootShape
    <2>2. TokensOf(a)' = {}
      BY <1>1, SeqFacts DEF TokensOf
    <2>3. QED
      BY <2>1, <2>2
  <1>3. [Next]_vars
    BY DEF Next
  <1>4. \A n \in live : anchorOf[n] # NONE => n \in live'
    BY <1>1, <1>3, NamedSurvive
  <1>5. ASSUME NEW a \in Names
        PROVE  strs'[a] = Owners(a)'
    <2>1. a # NONE
      BY ConstantsAssumption
    <2>2. CarriersOf(a)' = CarriersOf(a)
      BY <1>1, <1>4, <2>1 DEF CarriersOf
    <2>3. Key(anchors, a)' = Key(anchors, a) /\ Key(badAnchors, a)' = Key(badAnchors, a)
      BY <1>1 DEF Key
    <2>4. QED
      <3>1. Ledger(a) /\ Ledger(a)' /\ strs[a] = Owners(a)
        BY <1>1, Balance
      <3>2. QED
        BY <3>1, <1>1, <1>2, <2>2, <2>3 DEF Ledger
  <1>6. QED
    BY <1>5 DEF EveryNameOwned

LEMMA NamesTeardown ==
  ASSUME OwnershipInv, TypeOK', EveryNameOwned, NextDocument \/ FreeParser
  PROVE  EveryNameOwned'
  <1>1. /\ TypeOK /\ TablesSound /\ stack = <<>> /\ stack' = <<>> /\ StFree
        /\ UNCHANGED croaked
    BY DEF NextDocument, FreeParser, OwnershipInv, PhaseSound
  <1>2. ASSUME NEW a \in Names, ~croaked
        PROVE  strs'[a] = Owners(a)'
    <2> DEFINE freed == {n \in Filed : anchorOf[n] = a}
    <2>1. TokensOf(a) = {} /\ TokensOf(a)' = {}
      BY <1>1, SeqFacts DEF TokensOf
    <2>2. a # NONE /\ Filed \subseteq live
      BY <1>1, ConstantsAssumption DEF TablesSound, Filed, Entries
    <2>3. /\ CarriersOf(a)' = CarriersOf(a) \ freed
          /\ freed = CarriersOf(a) \cap freed
      BY <1>1, <2>2 DEF CarriersOf, StFree, TypeOK
    <2>4. /\ IsFiniteSet(CarriersOf(a)) /\ Cardinality(CarriersOf(a)) \in Nat
          /\ Key(anchors, a) \in Int /\ Key(badAnchors, a) \in Int
      BY <1>1, OwnersIs
    <2>5. Key(anchors, a)' = 0 /\ Key(badAnchors, a)' = 0
      BY <1>1 DEF StFree, Key
    <2>6. strs'[a] = strs[a] - Cardinality(freed) - Key(anchors, a) - Key(badAnchors, a)
      BY <1>1 DEF StFree
    <2> HIDE DEF freed
    <2>7. /\ Cardinality(CarriersOf(a) \ freed) = Cardinality(CarriersOf(a)) - Cardinality(freed)
          /\ IsFiniteSet(freed)
      BY <2>3, <2>4, FS_Difference, FS_Intersection
    <2>8. Cardinality(freed) \in Nat
      BY <2>7, FS_CardinalityType
    <2>9. Cardinality(CarriersOf(a))' = Cardinality(CarriersOf(a)) - Cardinality(freed)
      BY <2>3, <2>7
    <2>10. QED
      <3>1. Ledger(a) /\ Ledger(a)' /\ strs[a] = Owners(a)
        BY <1>1, <1>2, Balance
      <3>2. QED
        <4>1. Cardinality(TokensOf(a)) = 0 /\ Cardinality(TokensOf(a))' = 0
          BY <2>1, FS_EmptySet
        <4>2. QED
          BY <3>1, <4>1, <2>5, <2>6, <2>8, <2>9 DEF Ledger
  <1>3. QED
    BY <1>1, <1>2 DEF EveryNameOwned

LEMMA StepNames ==
  ASSUME OwnershipInv, TypeOK', EveryNameOwned, [Next]_vars
  PROVE  EveryNameOwned'
  <1>1. CASE UNCHANGED vars
    BY <1>1 DEF vars, EveryNameOwned, Owners, Key
  <1>2. CASE Croak
    BY <1>2 DEF Croak, EveryNameOwned
  <1>3. CASE Next
    BY <1>2, <1>3, NamesShiftAnchor, NamesShiftAlias, NamesPlain, NamesReduceAnchor,
       NamesRoot, NamesTeardown DEF Next
  <1>4. QED
    BY <1>1, <1>3

(* Every copy of a name has exactly one owner, so that freeing every owner *)
(* frees every copy once: the token on the stack, the node that carries    *)
(* the name, and the key of each table.                                    *)
THEOREM NamesHaveOneOwner == Spec => []EveryNameOwned
  <1>1. Init => EveryNameOwned
    <2> SUFFICES ASSUME Init PROVE EveryNameOwned
      OBVIOUS
    <2>1. TypeOK
      BY InitTypeOK
    <2>2. ASSUME NEW a \in Names
          PROVE  Owners(a) = 0
      <3>1. TokensOf(a) = {} /\ CarriersOf(a) = {}
        BY NoTokens DEF Init, CarriersOf
      <3>2. Cardinality(TokensOf(a)) = 0 /\ Cardinality(CarriersOf(a)) = 0
        BY <3>1, FS_EmptySet
      <3>3. Key(anchors, a) = 0 /\ Key(badAnchors, a) = 0
        BY DEF Init, Key
      <3>4. QED
        BY <2>1, <3>2, <3>3, OwnersIs
    <2>3. QED
      BY <2>2 DEF EveryNameOwned, Init
  <1>2. OwnershipInv /\ OwnershipInv' /\ EveryNameOwned /\ [Next]_vars => EveryNameOwned'
    BY StepNames DEF OwnershipInv
  <1>3. QED
    BY <1>1, <1>2, Ownership, PTL DEF Spec

(* What syck_free_parser leaves allocated: never a named node but stand-ins *)
(* of undefined aliases; after a parse without an error these alone, with  *)
(* no copy of a name but the one each carries.                             *)
THEOREM AllReclaimed == Spec => []ReclaimedAtEnd
  <1>1. OwnershipInv /\ Accounted /\ EveryNameOwned => ReclaimedAtEnd
    <2> SUFFICES ASSUME OwnershipInv, Accounted, EveryNameOwned, phase = "freed"
                 PROVE  /\ \A n \in live \ bad : anchorOf[n] = NONE
                        /\ ~croaked =>
                             /\ live \subseteq bad
                             /\ \A a \in Names :
                                  strs[a] = Cardinality({n \in bad : anchorOf[n] = a})
      BY DEF ReclaimedAtEnd
    <2>1. /\ TypeOK /\ stack = <<>> /\ bad \subseteq live
          /\ \A n \in live \ bad : anchorOf[n] = NONE
          /\ \A a \in Names : anchors[a] = NONE /\ badAnchors[a] = NONE
          /\ ~croaked => live = bad
      BY DEF OwnershipInv, PhaseSound, TablesSound, Accounted, FreedSound
    <2>2. ASSUME NEW a \in Names, ~croaked
          PROVE  strs[a] = Cardinality({n \in bad : anchorOf[n] = a})
      <3>1. CarriersOf(a) = {n \in bad : anchorOf[n] = a}
        BY <2>1, <2>2 DEF CarriersOf
      <3>2. Cardinality(TokensOf(a)) = 0
        BY <2>1, NoTokens, FS_EmptySet
      <3>3. Key(anchors, a) = 0 /\ Key(badAnchors, a) = 0
        BY <2>1 DEF Key
      <3>4. strs[a] = Cardinality(CarriersOf(a))
        BY <2>1, <2>2, <3>2, <3>3, OwnersIs DEF EveryNameOwned
      <3>5. QED
        BY <3>1, <3>4
    <2>3. QED
      BY <2>1, <2>2
  <1>2. QED
    BY <1>1, Ownership, NodesAccounted, NamesHaveOneOwner, PTL
=============================================================================
