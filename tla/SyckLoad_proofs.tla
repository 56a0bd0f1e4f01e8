-------------------------- MODULE SyckLoad_proofs --------------------------
(***************************************************************************)
(* SyckLoad implements SyckAnchors, so that what is proved of the node     *)
(* store holds while the handler builds Perl values from its nodes; and    *)
(* the handler's list of cells to patch is exact.                          *)
(***************************************************************************)
EXTENDS SyckLoad, SyckOwnership_proofs

(* Every step of SyckLoad is a step of SyckAnchors: the handler and the    *)
(* Perl side do not change what the parser does next.                      *)
LEMMA LoadStep == LoadNext => Next
  <1> SUFFICES ASSUME LoadNext PROVE Next
    OBVIOUS
  <1>1. CASE \E a \in Names : LoadAnchor(a) \/ LoadAlias(a)
    BY <1>1 DEF LoadAnchor, LoadAlias, Next
  <1>2. CASE LoadScalar
    BY <1>2 DEF LoadScalar, Next
  <1>3. CASE LoadMark
    BY <1>3, LoadAssumption DEF LoadMark, Next
  <1>4. CASE LoadRename
    BY <1>4 DEF LoadRename, Next
  <1>5. CASE LoadClose
    BY <1>5 DEF LoadClose, Next
  <1>6. CASE LoadReduceAnchor
    BY <1>6 DEF LoadReduceAnchor, Next
  <1>7. CASE LoadFirstItem \/ LoadItem
    BY <1>7 DEF LoadFirstItem, LoadItem, Next
  <1>8. CASE LoadMapping \/ LoadLoneKey \/ LoadPair
    BY <1>8 DEF LoadMapping, LoadLoneKey, LoadPair, Next
  <1>9. CASE LoadDash
    BY <1>9 DEF LoadDash, Next
  <1>10. CASE LoadEmptyFlow \/ LoadCloseBlock
    BY <1>10 DEF LoadEmptyFlow, LoadCloseBlock, Next
  <1>11. CASE LoadRoot
    BY <1>11 DEF LoadRoot, Next
  <1>12. CASE LoadNextDocument \/ LoadFree \/ LoadCroak
    BY <1>12 DEF LoadNextDocument, LoadFree, LoadCroak, Next
  <1>13. QED
    BY <1>1, <1>2, <1>3, <1>4, <1>5, <1>6, <1>7, <1>8, <1>9, <1>10, <1>11, <1>12
       DEF LoadNext

(* Load implements the node store.                                         *)
THEOREM LoadImplements == LoadSpec => Spec
  <1>1. LoadInit => Init
    BY DEF LoadInit
  <1>2. [LoadNext]_<<vars, loadVars>> => [Next]_vars
    BY LoadStep
  <1>3. QED
    BY <1>1, <1>2, PTL DEF LoadSpec, Spec

(* Load keeps every node it may still need: whatever the document, the     *)
(* handler never sees a freed node, and none is freed twice.               *)
THEOREM LoadOwnership == LoadSpec => [](OwnershipInv /\ NoDanglingNode /\ NoDoubleFree)
  BY LoadImplements, Ownership, NoUseAfterFree, NoSecondFree, PTL

-----------------------------------------------------------------------------
(* The list of cells to patch is exact.                                    *)

(* What the handler's state looks like, for k symbols.                     *)
Vals == {Str(u) : u \in Nat} \cup {Ref(b) : b \in Nat} \cup {Bad(a) : a \in Names \cup {NONE}}
Box == [of : Nat, vals : Seq(Vals)]
HeapType == [syms : Seq(Vals), boxes : Seq(Box), pending : [Names -> SUBSET (Nat \X Nat)]]
NodeType(k) ==
  [kind : {"none", "str", "seq", "map", "bad"}, id : 0..k, uid : Nat, items : Seq(1..k)]

Exact(h) == \A a \in Names : h.pending[a] = Cells(h, Bad(a))
HeapSound(h) == h \in HeapType /\ Exact(h)

(* Changing one place of a sequence.                                       *)
LEMMA ChangedPlace ==
  ASSUME NEW V, NEW s \in Seq(V), NEW v \in V, NEW id
  PROVE  [s EXCEPT ![id] = v] \in Seq(V) /\ Len([s EXCEPT ![id] = v]) = Len(s)
  <1> DEFINE t == [s EXCEPT ![id] = v]
  <1>1. DOMAIN t = DOMAIN s /\ DOMAIN s = 1..Len(s) /\ Len(s) \in Nat
    OBVIOUS
  <1>2. \A i \in 1..Len(s) : t[i] \in V
    OBVIOUS
  <1>3. t = [i \in 1..Len(s) |-> t[i]]
    OBVIOUS
  <1> HIDE DEF t
  <1>4. t \in [1..Len(s) -> V]
    BY <1>2, <1>3
  <1>5. t \in Seq(V) /\ Len(t) = Len(s)
    BY <1>1, <1>4
  <1>6. QED
    BY <1>5 DEF t

InCell(h, v, p) ==
  \E b \in 1..Len(h.boxes) : \E i \in 1..Len(h.boxes[b].vals) :
    p = <<b, i>> /\ h.boxes[b].vals[i] = v

LEMMA CellsMember ==
  ASSUME NEW h \in HeapType, NEW v, NEW p
  PROVE  p \in Cells(h, v) <=> InCell(h, v, p)
  <1>1. h.boxes \in Seq(Box) /\ DOMAIN h.boxes = 1..Len(h.boxes)
    BY DEF HeapType
  <1>2. ASSUME NEW b \in 1..Len(h.boxes)
        PROVE  DOMAIN h.boxes[b].vals = 1..Len(h.boxes[b].vals)
    <2>1. h.boxes[b] \in Box
      BY <1>1
    <2>2. h.boxes[b].vals \in Seq(Vals)
      BY <2>1 DEF Box
    <2>3. QED
      BY <2>2
  <1> DEFINE row(b) == {<<b, i>> : i \in {j \in DOMAIN h.boxes[b].vals : h.boxes[b].vals[j] = v}}
  <1>3. \A b : p \in row(b) <=>
                 \E i \in DOMAIN h.boxes[b].vals : h.boxes[b].vals[i] = v /\ p = <<b, i>>
    OBVIOUS
  <1>4. Cells(h, v) = UNION {row(b) : b \in DOMAIN h.boxes}
    BY DEF Cells
  <1> HIDE DEF row
  <1>5. p \in Cells(h, v) <=> \E b \in DOMAIN h.boxes : p \in row(b)
    BY <1>4
  <1>6. QED
    BY <1>1, <1>2, <1>3, <1>5 DEF InCell

(* A new symbol touches no cell.                                           *)
LEMMA AddSymSound ==
  ASSUME NEW h, HeapSound(h), NEW v \in Vals
  PROVE  /\ HeapSound(AddSym(h, v))
         /\ Len(AddSym(h, v).syms) = Len(h.syms) + 1
  <1>1. AddSym(h, v) = [syms |-> Append(h.syms, v), boxes |-> h.boxes, pending |-> h.pending]
    <2> h \in HeapType
      BY DEF HeapSound
    <2> DEFINE s == Append(h.syms, v)
    <2> AddSym(h, v) = [h EXCEPT !.syms = s]
      BY DEF AddSym
    <2> HIDE DEF s
    <2> [h EXCEPT !.syms = s] = [syms |-> s, boxes |-> h.boxes, pending |-> h.pending]
      BY DEF HeapType
    <2> QED BY DEF s
  <1>2. QED
    BY <1>1 DEF HeapSound, HeapType, Exact, Cells

(* A new box adds its own stand-ins to the list, and nothing else.         *)
LEMMA BuildSound ==
  ASSUME NEW h, HeapSound(h), NEW node \in NodeType(Len(h.syms))
  PROVE  /\ HeapSound(Build(h, node))
         /\ Build(h, node).syms = h.syms
         /\ Len(Build(h, node).boxes) = Len(h.boxes) + 1
  <1> DEFINE vals == [i \in DOMAIN node.items |-> h.syms[node.items[i]]]
             b == Len(h.boxes) + 1
             own(a) == {<<b, i>> : i \in {j \in DOMAIN vals : vals[j] = Bad(a)}}
             g == Build(h, node)
             box == [of |-> node.uid, vals |-> vals]
  <1>1. vals \in Seq(Vals) /\ box \in Box /\ DOMAIN vals = 1..Len(vals) /\ Len(vals) \in Nat
    <2>1. node.items \in Seq(1..Len(h.syms)) /\ h.syms \in Seq(Vals) /\ node.uid \in Nat
      BY DEF HeapSound, HeapType, NodeType
    <2>2. /\ DOMAIN node.items = 1..Len(node.items) /\ Len(node.items) \in Nat
          /\ \A i \in 1..Len(node.items) : h.syms[node.items[i]] \in Vals
      BY <2>1
    <2>3. vals \in [1..Len(node.items) -> Vals]
      BY <2>2
    <2> HIDE DEF vals
    <2>4. vals \in Seq(Vals) /\ DOMAIN vals = 1..Len(vals) /\ Len(vals) \in Nat
      BY <2>2, <2>3
    <2>5. QED
      BY <2>1, <2>4 DEF Box
  <1>2. g = [syms |-> h.syms, boxes |-> Append(h.boxes, box),
             pending |-> [a \in Names |-> h.pending[a] \cup own(a)]]
    BY DEF Build
  <1>3. /\ h.boxes \in Seq(Box) /\ h.syms \in Seq(Vals) /\ Len(h.boxes) \in Nat
        /\ h.pending \in [Names -> SUBSET (Nat \X Nat)] /\ h \in HeapType
    BY DEF HeapSound, HeapType
  <1>4. \A a \in Names : own(a) \in SUBSET (Nat \X Nat)
    BY <1>1, <1>3
  <1>5. g \in HeapType
    <2> HIDE DEF own, b, g, vals, box
    <2> QED BY <1>1, <1>2, <1>3, <1>4 DEF HeapType
  <1>6. ASSUME NEW a \in Names, NEW p
        PROVE  p \in g.pending[a] <=> p \in Cells(g, Bad(a))
    <2>1. p \in g.pending[a] <=> p \in Cells(h, Bad(a)) \/ p \in own(a)
      <3> HIDE DEF own, g
      <3> QED BY <1>2 DEF HeapSound, Exact
    <2>2. p \in own(a) <=> \E i \in 1..Len(vals) : p = <<b, i>> /\ vals[i] = Bad(a)
      BY <1>1
    <2>3. /\ Len(g.boxes) = b /\ g.boxes[b] = box /\ b \in 1..b
          /\ \A c \in 1..b : c # b => c \in 1..Len(h.boxes) /\ g.boxes[c] = h.boxes[c]
          /\ \A c \in 1..Len(h.boxes) : c # b /\ c \in 1..b
      <3> HIDE DEF own, g, vals, box
      <3> QED BY <1>1, <1>2, <1>3
    <2> HIDE DEF own, g, vals, box
    <2>4. p \in Cells(g, Bad(a)) <=>
            \E c \in 1..Len(g.boxes) : \E i \in 1..Len(g.boxes[c].vals) :
               p = <<c, i>> /\ g.boxes[c].vals[i] = Bad(a)
      <3>1. p \in Cells(g, Bad(a)) <=> InCell(g, Bad(a), p)
        BY ONLY <1>5, CellsMember
      <3>2. QED
        BY <3>1 DEF InCell
    <2>5. p \in Cells(h, Bad(a)) <=>
            \E c \in 1..Len(h.boxes) : \E i \in 1..Len(h.boxes[c].vals) :
               p = <<c, i>> /\ h.boxes[c].vals[i] = Bad(a)
      <3>1. h \in HeapType
        BY <1>3
      <3>2. p \in Cells(h, Bad(a)) <=> InCell(h, Bad(a), p)
        BY ONLY <3>1, CellsMember
      <3>3. QED
        BY <3>2 DEF InCell
    <2>6. box.vals = vals
      BY DEF box
    <2> HIDE DEF b
    <2>7. CASE p \in own(a)
      BY <2>1, <2>2, <2>3, <2>4, <2>6, <2>7
    <2>8. CASE p \in Cells(h, Bad(a))
      BY <2>1, <2>3, <2>4, <2>5, <2>8
    <2>9. CASE p \in Cells(g, Bad(a))
      <3>0. PICK c \in 1..Len(g.boxes) : \E i \in 1..Len(g.boxes[c].vals) :
               p = <<c, i>> /\ g.boxes[c].vals[i] = Bad(a)
        BY <2>4, <2>9
      <3>1. PICK i \in 1..Len(g.boxes[c].vals) : p = <<c, i>> /\ g.boxes[c].vals[i] = Bad(a)
        BY <3>0
      <3>2. CASE c = b
        <4>1. g.boxes[c].vals = vals
          BY <3>2, <2>3, <2>6
        <4>2. i \in 1..Len(vals) /\ vals[i] = Bad(a) /\ p = <<b, i>>
          BY <4>1, <3>1, <3>2, Zenon
        <4>3. p \in own(a)
          BY <4>2, <2>2, Zenon
        <4>4. QED
          BY <4>3, <2>1, <2>9
      <3>3. CASE c # b
        <4>1. c \in 1..Len(h.boxes) /\ g.boxes[c] = h.boxes[c]
          BY <3>3, <2>3
        <4>2. /\ i \in 1..Len(h.boxes[c].vals) /\ h.boxes[c].vals[i] = Bad(a)
              /\ p = <<c, i>>
          BY <4>1, <3>1, Zenon
        <4>3. p \in Cells(h, Bad(a))
          BY <4>1, <4>2, <2>5, Zenon
        <4>4. QED
          BY <4>3, <2>1, <2>9
      <3>4. QED
        BY <3>2, <3>3
    <2>10. QED
      BY <2>1, <2>7, <2>8, <2>9
  <1>7. Exact(g)
    <2> HIDE DEF own, g, vals, box, b
    <2>1. ASSUME NEW a \in Names PROVE g.pending[a] = Cells(g, Bad(a))
      BY ONLY a \in Names, <1>6
    <2>2. QED
      BY <2>1 DEF Exact
  <1>8. g.syms = h.syms /\ Len(g.boxes) = Len(h.boxes) + 1
    <2> HIDE DEF own, vals, box
    <2> QED BY <1>1, <1>2, <1>3
  <1> HIDE DEF own, vals, box
  <1>9. QED
    BY <1>5, <1>7, <1>8 DEF HeapSound

PatchedBox(h, a, b, c) ==
  LET box == Patched(h, a, b)[c] IN
  /\ box \in Box
  /\ Len(box.vals) = Len(h.boxes[c].vals)
  /\ \A i \in 1..Len(h.boxes[c].vals) :
       box.vals[i] = IF <<c, i>> \in h.pending[a] THEN Ref(b) ELSE h.boxes[c].vals[i]

LEMMA PatchedCells ==
  ASSUME NEW h \in HeapType, NEW a, NEW b \in Nat, NEW c \in 1..Len(h.boxes)
  PROVE  PatchedBox(h, a, b, c)
  <1> DEFINE old == h.boxes[c].vals
             new == [i \in DOMAIN old |-> IF <<c, i>> \in h.pending[a] THEN Ref(b) ELSE old[i]]
  <1>1. h.boxes \in Seq(Box) /\ DOMAIN h.boxes = 1..Len(h.boxes)
    BY DEF HeapType
  <1>2. h.boxes[c] \in Box
    BY <1>1
  <1>3. h.boxes[c].of \in Nat /\ old \in Seq(Vals)
    BY <1>2 DEF Box
  <1>4. DOMAIN old = 1..Len(old) /\ Len(old) \in Nat /\ \A i \in 1..Len(old) : old[i] \in Vals
    BY <1>3
  <1>5. Ref(b) \in Vals
    BY DEF Vals
  <1>6. new \in Seq(Vals) /\ Len(new) = Len(old)
    BY <1>4, <1>5
  <1>7. Patched(h, a, b)[c] = [of |-> h.boxes[c].of, vals |-> new]
    BY <1>1 DEF Patched
  <1>8. \A i \in 1..Len(old) :
          new[i] = IF <<c, i>> \in h.pending[a] THEN Ref(b) ELSE old[i]
    BY <1>4
  <1> HIDE DEF new, old
  <1>9. Patched(h, a, b)[c].vals = new /\ Patched(h, a, b)[c] \in Box
    BY <1>3, <1>6, <1>7 DEF Box
  <1>10. QED
    BY <1>6, <1>8, <1>9 DEF old, PatchedBox

(* Resolving a name clears its list and every stand-in on it, and leaves   *)
(* the stand-ins of other names alone.                                     *)
LEMMA ResolveSound ==
  ASSUME NEW h, HeapSound(h), NEW a \in Names, NEW id \in Nat, NEW b \in Nat
  PROVE  /\ HeapSound(Resolve(h, a, id, b))
         /\ Len(Resolve(h, a, id, b).syms) = Len(h.syms)
  <1> DEFINE g == Resolve(h, a, id, b)
             new == Patched(h, a, b)
             syms == [h.syms EXCEPT ![id] = Ref(b)]
             pending == [h.pending EXCEPT ![a] = {}]
  <1>1. /\ h \in HeapType /\ Exact(h)
        /\ h.boxes \in Seq(Box) /\ h.syms \in Seq(Vals) /\ Len(h.boxes) \in Nat
        /\ h.pending \in [Names -> SUBSET (Nat \X Nat)]
    BY DEF HeapSound, HeapType
  <1>2. g = [syms |-> syms, boxes |-> new, pending |-> pending]
    BY DEF Resolve
  <1>3. new \in Seq(Box) /\ Len(new) = Len(h.boxes)
    <2>1. \A c \in 1..Len(h.boxes) : new[c] \in Box
      BY <1>1, PatchedCells DEF PatchedBox
    <2>2. new = [c \in 1..Len(h.boxes) |-> new[c]]
      BY <1>1 DEF Patched
    <2> HIDE DEF new
    <2>3. new \in [1..Len(h.boxes) -> Box]
      BY <2>1, <2>2
    <2>4. QED
      BY <1>1, <2>3
  <1>12. ASSUME NEW c \in 1..Len(h.boxes)
         PROVE  /\ Len(new[c].vals) = Len(h.boxes[c].vals)
                /\ \A i \in 1..Len(h.boxes[c].vals) :
                     new[c].vals[i] = IF <<c, i>> \in h.pending[a] THEN Ref(b) ELSE h.boxes[c].vals[i]
    <2>1. h \in HeapType
      BY <1>1
    <2>2. PatchedBox(h, a, b, c)
      BY ONLY <2>1, b \in Nat, c \in 1..Len(h.boxes), PatchedCells
    <2>3. QED
      BY <2>2 DEF PatchedBox
  <1>4. syms \in Seq(Vals) /\ Len(syms) = Len(h.syms)
    <2>1. Ref(b) \in Vals
      BY DEF Vals
    <2> HIDE DEF Vals
    <2>2. QED
      BY <1>1, <2>1, ChangedPlace
  <1>5. pending \in [Names -> SUBSET (Nat \X Nat)]
    BY <1>1
  <1>6. \A x \in Names : pending[x] = IF x = a THEN {} ELSE Cells(h, Bad(x))
    BY <1>1 DEF Exact
  <1> HIDE DEF syms, pending, new, g
  <1>7. g \in HeapType /\ g.syms = syms /\ g.boxes = new /\ g.pending = pending
    BY <1>2, <1>3, <1>4, <1>5 DEF HeapType
  <1>8. ASSUME NEW x \in Names, NEW p \in Cells(g, Bad(x))
        PROVE  x # a /\ p \in Cells(h, Bad(x))
    <2>1. PICK c \in 1..Len(new) : \E i \in 1..Len(new[c].vals) :
             p = <<c, i>> /\ new[c].vals[i] = Bad(x)
      BY <1>7, <1>8, CellsMember DEF InCell
    <2>2. PICK i \in 1..Len(new[c].vals) : p = <<c, i>> /\ new[c].vals[i] = Bad(x)
      BY <2>1
    <2>3. /\ c \in 1..Len(h.boxes) /\ i \in 1..Len(h.boxes[c].vals)
          /\ new[c].vals[i] = IF <<c, i>> \in h.pending[a] THEN Ref(b) ELSE h.boxes[c].vals[i]
      <3>1. c \in 1..Len(h.boxes)
        BY <1>3
      <3>2. /\ Len(new[c].vals) = Len(h.boxes[c].vals)
            /\ \A j \in 1..Len(h.boxes[c].vals) :
                 new[c].vals[j] = IF <<c, j>> \in h.pending[a] THEN Ref(b) ELSE h.boxes[c].vals[j]
        BY <1>12, <3>1
      <3>3. QED
        BY <3>1, <3>2
    <2>4. <<c, i>> \notin h.pending[a] /\ h.boxes[c].vals[i] = Bad(x)
      <3>1. Ref(b) # Bad(x)
        BY DEF Ref, Bad
      <3>2. QED
        BY <3>1, <2>2, <2>3
    <2>5. p \in Cells(h, Bad(x))
      BY <1>1, <2>2, <2>3, <2>4, CellsMember DEF InCell
    <2>6. x # a
      BY <1>1, <2>2, <2>4, <2>5 DEF Exact
    <2>7. QED
      BY <2>5, <2>6
  <1>9. ASSUME NEW x \in Names, x # a, NEW p \in Cells(h, Bad(x))
        PROVE  p \in Cells(g, Bad(x))
    <2>1. PICK c \in 1..Len(h.boxes) : \E i \in 1..Len(h.boxes[c].vals) :
             p = <<c, i>> /\ h.boxes[c].vals[i] = Bad(x)
      BY <1>1, <1>9, CellsMember DEF InCell
    <2>2. PICK i \in 1..Len(h.boxes[c].vals) : p = <<c, i>> /\ h.boxes[c].vals[i] = Bad(x)
      BY <2>1
    <2>3. p \notin Cells(h, Bad(a))
      <3>1. SUFFICES ASSUME p \in Cells(h, Bad(a)) PROVE FALSE
        OBVIOUS
      <3>2. \E d \in 1..Len(h.boxes) : \E j \in 1..Len(h.boxes[d].vals) :
               p = <<d, j>> /\ h.boxes[d].vals[j] = Bad(a)
        BY <1>1, <3>1, CellsMember DEF InCell
      <3>3. h.boxes[c].vals[i] = Bad(a)
        BY <2>2, <3>2
      <3>4. QED
        BY <1>9, <2>2, <3>3 DEF Bad
    <2>4. <<c, i>> \notin h.pending[a]
      BY <1>1, <2>2, <2>3 DEF Exact
    <2>5. c \in 1..Len(new) /\ i \in 1..Len(new[c].vals) /\ new[c].vals[i] = Bad(x)
      <3>1. /\ Len(new[c].vals) = Len(h.boxes[c].vals)
            /\ \A j \in 1..Len(h.boxes[c].vals) :
                 new[c].vals[j] = IF <<c, j>> \in h.pending[a] THEN Ref(b) ELSE h.boxes[c].vals[j]
        BY <1>12
      <3>2. QED
        BY <1>3, <2>2, <2>4, <3>1
    <2>6. QED
      BY <1>7, <2>2, <2>5, CellsMember DEF InCell
  <1>10. Exact(g)
    <2>1. ASSUME NEW x \in Names PROVE g.pending[x] = Cells(g, Bad(x))
      BY <1>6, <1>7, <1>8, <1>9
    <2>2. QED
      BY <2>1 DEF Exact
  <1>11. QED
    BY <1>4, <1>7, <1>10 DEF HeapSound, g

(* Handling a node gives it one more symbol.                               *)
LEMMA HandleSound ==
  ASSUME NEW h, HeapSound(h), NEW n, NEW node \in NodeType(Len(h.syms)),
         NEW a \in Names \cup {NONE}, node.id # 0 => a \in Names
  PROVE  /\ HeapSound(Handle(h, n, node, a))
         /\ Len(Handle(h, n, node, a).syms) = Len(h.syms) + 1
  <1>1. Bad(a) \in Vals /\ (\A u \in Nat : Str(u) \in Vals /\ Ref(u) \in Vals)
    BY DEF Vals
  <1>2. node.uid \in Nat /\ node.id \in 0..Len(h.syms)
    BY DEF NodeType
  <1>3. Len(h.syms) \in Nat
    BY DEF HeapSound, HeapType
  <1>4. CASE n \in bad
    <2>1. Handle(h, n, node, a) = AddSym(h, Bad(a))
      BY <1>4 DEF Handle
    <2>2. QED
      BY <1>1, <2>1, AddSymSound
  <1>5. CASE n \notin bad /\ node.kind = "str"
    <2>1. Handle(h, n, node, a) = AddSym(h, Str(node.uid))
      BY <1>5 DEF Handle
    <2>2. QED
      BY <1>1, <1>2, <2>1, AddSymSound
  <1>6. CASE n \notin bad /\ node.kind # "str"
    <2> DEFINE built == Build(h, node)
               b == Len(built.boxes)
               done == IF node.id = 0 THEN built ELSE Resolve(built, a, node.id, b)
    <2>1. HeapSound(built) /\ built.syms = h.syms
      BY BuildSound
    <2>2. b \in Nat
      BY <2>1 DEF HeapSound, HeapType
    <2>3. Handle(h, n, node, a) = AddSym(done, Ref(b))
      BY <1>6 DEF Handle
    <2>4. HeapSound(done) /\ Len(done.syms) = Len(h.syms)
      <3> HIDE DEF built, b
      <3>1. CASE node.id = 0
        BY <2>1, <3>1
      <3>2. CASE node.id # 0
        <4>1. a \in Names /\ node.id \in Nat /\ done = Resolve(built, a, node.id, b)
          BY <1>2, <1>3, <3>2
        <4>2. HeapSound(Resolve(built, a, node.id, b))
              /\ Len(Resolve(built, a, node.id, b).syms) = Len(built.syms)
          BY <2>1, <2>2, <4>1, ResolveSound
        <4>3. QED
          BY <2>1, <4>1, <4>2
      <3>3. QED
        BY <3>1, <3>2
    <2> HIDE DEF built, b, done
    <2>5. QED
      BY <1>1, <2>2, <2>3, <2>4, AddSymSound
  <1>7. QED
    BY <1>4, <1>5, <1>6

(* The handler's state w of the nodes and the Perl side.                   *)
World(w) == HeapSound(w.heap) /\ w.content \in [Nodes -> NodeType(Len(w.heap.syms))]

LEMMA NodeTypeGrows ==
  ASSUME NEW k \in Nat, NEW m \in Nat, k <= m
  PROVE  NodeType(k) \subseteq NodeType(m)
  <1>1. Seq(1..k) \subseteq Seq(1..m) /\ 0..k \subseteq 0..m
    <2>1. ASSUME NEW s \in Seq(1..k) PROVE s \in Seq(1..m)
      <3>1. Len(s) \in Nat /\ s \in [1..Len(s) -> 1..k]
        OBVIOUS
      <3>2. s \in [1..Len(s) -> 1..m]
        BY <3>1
      <3>3. QED
        BY <3>1, <3>2
    <2>2. QED
      BY <2>1
  <1>2. QED
    BY <1>1 DEF NodeType

(* A node handled has a symbol.                                            *)
LEMMA AddNodeSound ==
  ASSUME NEW w, World(w), NEW n \in Nodes, anchorOf[n] \in Names \cup {NONE}
  PROVE  /\ World(AddNode(w, n))
         /\ Len(w.heap.syms) \in Nat /\ Len(AddNode(w, n).heap.syms) \in Nat
         /\ Len(w.heap.syms) <= Len(AddNode(w, n).heap.syms)
         /\ AddNode(w, n).content[n].id \in 1..Len(AddNode(w, n).heap.syms)
  <1> DEFINE node == w.content[n]
             k == Len(w.heap.syms)
             h == Handle(w.heap, n, node, anchorOf[n])
             g == AddNode(w, n)
  <1>1. node \in NodeType(k) /\ HeapSound(w.heap)
    BY DEF World
  <1>2. k \in Nat
    BY <1>1 DEF HeapSound, HeapType
  <1>3. node.id \in 0..k
    BY <1>1 DEF NodeType
  <1>4. CASE node.id # 0
    <2>1. g = w
      BY <1>4 DEF AddNode
    <2>2. QED
      BY <1>2, <1>3, <1>4, <2>1
  <1>5. CASE node.id = 0
    <2>1. HeapSound(h) /\ Len(h.syms) = k + 1
      <3> HIDE DEF node
      <3> QED BY <1>1, <1>5, HandleSound
    <2>2. g = [heap |-> h, content |-> [w.content EXCEPT ![n].id = Len(h.syms)]]
      BY <1>5 DEF AddNode
    <2>3. [node EXCEPT !.id = k + 1] \in NodeType(k + 1)
      <3>1. node \in NodeType(k + 1)
        BY <1>1, <1>2, NodeTypeGrows
      <3>2. k + 1 \in 0..(k + 1)
        BY <1>2
      <3> HIDE DEF node, k
      <3>3. QED
        BY <3>1, <3>2 DEF NodeType
    <2>4. w.content \in [Nodes -> NodeType(k + 1)]
      BY <1>2, NodeTypeGrows DEF World
    <2>5. g.content \in [Nodes -> NodeType(k + 1)] /\ g.content[n].id = k + 1
      <3>1. g.content = [w.content EXCEPT ![n] = [node EXCEPT !.id = k + 1]]
        BY <2>1, <2>2
      <3>2. DOMAIN node = {"kind", "id", "uid", "items"}
        BY <1>1 DEF NodeType
      <3> HIDE DEF node, k, g
      <3>3. QED
        BY <2>3, <2>4, <3>1, <3>2
    <2>6. QED
      BY <1>2, <2>1, <2>2, <2>5 DEF World
  <1>6. QED
    BY <1>4, <1>5

LEMMA ItemsFacts ==
  ASSUME NEW w, World(w), NEW n \in Nodes
  PROVE  /\ Len(w.heap.syms) \in Nat
         /\ w.content[n] \in NodeType(Len(w.heap.syms))
         /\ w.content[n].items \in Seq(1..Len(w.heap.syms))
         /\ w.content[n].uid \in Nat
  BY DEF World, HeapSound, HeapType, NodeType

LEMMA SeqGrows ==
  ASSUME NEW k \in Nat, NEW m \in Nat, k <= m, NEW s \in Seq(1..k)
  PROVE  s \in Seq(1..m)
  <1>1. Len(s) \in Nat /\ s \in [1..Len(s) -> 1..k]
    OBVIOUS
  <1>2. s \in [1..Len(s) -> 1..m]
    BY <1>1
  <1>3. QED
    BY <1>1, <1>2

LEMMA SetItemsSound ==
  ASSUME NEW w, World(w), NEW n \in Nodes, NEW items \in Seq(1..Len(w.heap.syms))
  PROVE  World(SetItems(w, n, items)) /\ SetItems(w, n, items).heap = w.heap
  <1> DEFINE node == w.content[n]
             k == Len(w.heap.syms)
             g == SetItems(w, n, items)
  <1>1. node \in NodeType(k)
    BY ItemsFacts
  <1>2. [node EXCEPT !.items = items] \in NodeType(k)
    <2> HIDE DEF node
    <2> QED BY <1>1 DEF NodeType
  <1>3. g.heap = w.heap /\ g.content = [w.content EXCEPT ![n] = [node EXCEPT !.items = items]]
    BY DEF SetItems
  <1> HIDE DEF node, g
  <1>4. g.content \in [Nodes -> NodeType(k)]
    BY <1>2, <1>3 DEF World
  <1>5. World(g)
    BY <1>3, <1>4 DEF World
  <1>6. QED
    BY <1>3, <1>5 DEF g

LEMMA AddItemSound ==
  ASSUME NEW w, World(w), NEW n \in Nodes, NEW id \in 1..Len(w.heap.syms)
  PROVE  World(AddItem(w, n, id))
  <1>1. Append(w.content[n].items, id) \in Seq(1..Len(w.heap.syms))
    BY ItemsFacts
  <1>2. QED
    BY <1>1, SetItemsSound DEF AddItem

LEMMA ApplySeqSound ==
  ASSUME TypeOK, NEW w, World(w), NEW m \in Nodes
  PROVE  /\ World(ApplySeq(w, m))
         /\ Len(w.heap.syms) \in Nat /\ Len(ApplySeq(w, m).heap.syms) \in Nat
         /\ Len(w.heap.syms) <= Len(ApplySeq(w, m).heap.syms)
  <1> DEFINE s == shortcut[m]
             added == AddNode(w, s)
             items == ReplaceLast(added.content[m].items, added.content[s].id)
  <1>1. CASE s = NONE
    <2>1. ApplySeq(w, m) = w
      BY <1>1 DEF ApplySeq
    <2>2. QED
      BY <2>1, ItemsFacts
  <1>2. CASE s # NONE
    <2>1. s \in Nodes /\ anchorOf[s] \in Names \cup {NONE}
      BY <1>2 DEF TypeOK
    <2>2. ApplySeq(w, m) = SetItems(added, m, items)
      BY <1>2 DEF ApplySeq
    <2> HIDE DEF s
    <2>3. /\ World(added) /\ added.content[s].id \in 1..Len(added.heap.syms)
          /\ Len(w.heap.syms) \in Nat /\ Len(added.heap.syms) \in Nat
          /\ Len(w.heap.syms) <= Len(added.heap.syms)
      BY <2>1, AddNodeSound
    <2> HIDE DEF added
    <2>4. added.content[m].items \in Seq(1..Len(added.heap.syms))
      BY <2>3, ItemsFacts
    <2>5. items \in Seq(1..Len(added.heap.syms))
      BY <2>3, <2>4, ChangedPlace DEF ReplaceLast
    <2> HIDE DEF items
    <2>6. QED
      BY <2>2, <2>3, <2>5, SetItemsSound
  <1>3. QED
    BY <1>1, <1>2

LEMMA NewNodeSound ==
  ASSUME NEW k \in Nat, NEW uid \in Nat
  PROVE  /\ NewNode("str", uid, <<>>) \in NodeType(k)
         /\ NewNode("seq", uid, <<>>) \in NodeType(k)
         /\ NewNode("bad", uid, <<>>) \in NodeType(k)
         /\ \A id \in 1..k : /\ NewNode("seq", uid, <<id>>) \in NodeType(k)
                             /\ NewNode("map", uid, <<id>>) \in NodeType(k)
  <1>1. <<>> \in Seq(1..k) /\ \A id \in 1..k : <<id>> \in Seq(1..k)
    OBVIOUS
  <1>2. QED
    BY <1>1 DEF NewNode, NodeType

LEMMA BlankSound ==
  ASSUME NEW k \in Nat
  PROVE  Blank \in NodeType(k)
  BY DEF Blank, NodeType

(* What a step leaves behind.                                              *)
LEMMA LeaveSound ==
  ASSUME NEW w, World(w), Leave(w)
  PROVE  World(Now)'
  <1>1. heap' = w.heap /\ content' = [n \in Nodes |-> IF n \in live' THEN w.content[n] ELSE Blank]
    BY DEF Leave
  <1>2. Len(w.heap.syms) \in Nat
    BY DEF World, HeapSound, HeapType
  <1>3. Blank \in NodeType(Len(w.heap.syms))
    BY <1>2, BlankSound
  <1>4. content' \in [Nodes -> NodeType(Len(w.heap.syms))]
    BY <1>1, <1>3 DEF World
  <1>5. QED
    BY <1>1, <1>4 DEF World, Now

LEMMA LeaveNewSound ==
  ASSUME NEW w, World(w), NEW node \in NodeType(Len(w.heap.syms)), LeaveNew(w, node)
  PROVE  World(Now)'
  <1> DEFINE g == [heap |-> w.heap, content |-> [w.content EXCEPT ![Fresh] = node]]
  <1>1. World(g)
    <2>1. [w.content EXCEPT ![Fresh] = node] \in [Nodes -> NodeType(Len(w.heap.syms))]
      BY DEF World
    <2>2. QED
      BY <2>1 DEF World
  <1>2. Leave(g)
    BY DEF LeaveNew
  <1> HIDE DEF g
  <1>3. QED
    BY <1>1, <1>2, LeaveSound

LEMMA NowFacts ==
  ASSUME World(Now)
  PROVE  /\ Now.heap = heap /\ Now.content = content
         /\ HeapSound(heap) /\ Len(heap.syms) \in Nat
         /\ content \in [Nodes -> NodeType(Len(heap.syms))]
  BY DEF Now, World, HeapSound, HeapType

(* The items of the nodes are numbered.                                    *)
IsSeq(s) == \E S : s \in Seq(S)

LEMMA IsSeqFacts ==
  ASSUME NEW s, IsSeq(s)
  PROVE  /\ Len(s) \in Nat
         /\ \A x : IsSeq(Append(s, x))
         /\ \A i, x : IsSeq([s EXCEPT ![i] = x])
         /\ \A x, y : IsSeq(s \o <<x, y>>)
  <1>1. PICK S : s \in Seq(S)
    BY DEF IsSeq
  <1>2. ASSUME NEW T, S \subseteq T
        PROVE  s \in Seq(T)
    <2>1. Len(s) \in Nat /\ s \in [1..Len(s) -> S]
      BY <1>1
    <2>2. s \in [1..Len(s) -> T]
      BY <2>1, <1>2
    <2>3. QED
      BY <2>1, <2>2
  <1>3. ASSUME NEW x PROVE IsSeq(Append(s, x))
    <2>1. s \in Seq(S \cup {x})
      BY <1>2
    <2>2. Append(s, x) \in Seq(S \cup {x})
      BY <2>1
    <2>3. QED
      BY <2>2 DEF IsSeq
  <1>4. ASSUME NEW i, NEW x PROVE IsSeq([s EXCEPT ![i] = x])
    <2>1. s \in Seq(S \cup {x})
      BY <1>2
    <2>2. [s EXCEPT ![i] = x] \in Seq(S \cup {x})
      BY <2>1, ChangedPlace
    <2>3. QED
      BY <2>2 DEF IsSeq
  <1>5. ASSUME NEW x, NEW y PROVE IsSeq(s \o <<x, y>>)
    <2>1. s \in Seq(S \cup {x, y})
      BY <1>2
    <2>2. s \o <<x, y>> \in Seq(S \cup {x, y})
      BY <2>1
    <2>3. QED
      BY <2>2 DEF IsSeq
  <1>6. Len(s) \in Nat
    BY <1>1
  <1>7. QED
    BY <1>3, <1>4, <1>5, <1>6, Zenon

-----------------------------------------------------------------------------
PendingInv == World(Now) /\ IsSeq(body)

(* A node on the value stack or in a table is one of Nodes, and its anchor *)
(* is a name.                                                              *)
LEMMA AnchorOfNode ==
  ASSUME TypeOK, NEW n \in Nodes
  PROVE  anchorOf[n] \in Names \cup {NONE}
  BY DEF TypeOK

LEMMA BodyUid ==
  ASSUME PendingInv
  PROVE  NextUid \in Nat /\ Len(body) \in Nat
  BY IsSeqFacts DEF PendingInv, NextUid

LEMMA PendingScalar ==
  ASSUME TypeOK, PendingInv, LoadScalar
  PROVE  PendingInv'
  <1>1. NewNode("str", NextUid, <<>>) \in NodeType(Len(Now.heap.syms))
    BY BodyUid, NowFacts, NewNodeSound DEF PendingInv
  <1>2. World(Now)'
    BY <1>1, LeaveNewSound DEF LoadScalar, PendingInv
  <1>3. IsSeq(body')
    BY IsSeqFacts DEF LoadScalar, PendingInv
  <1>4. QED
    BY <1>2, <1>3 DEF PendingInv, IsSeq

LEMMA PendingEmptyFlow ==
  ASSUME TypeOK, PendingInv, LoadEmptyFlow
  PROVE  PendingInv'
  <1>1. NewNode("seq", NextUid, <<>>) \in NodeType(Len(Now.heap.syms))
    BY BodyUid, NowFacts, NewNodeSound DEF PendingInv
  <1>2. World(Now)'
    BY <1>1, LeaveNewSound DEF LoadEmptyFlow, PendingInv
  <1>3. IsSeq(body')
    BY IsSeqFacts DEF LoadEmptyFlow, PendingInv
  <1>4. QED
    BY <1>2, <1>3 DEF PendingInv, IsSeq

LEMMA PendingAlias ==
  ASSUME TypeOK, PendingInv, NEW a \in Names, LoadAlias(a)
  PROVE  PendingInv'
  <1>1. UNCHANGED <<heap, body>>
    BY DEF LoadAlias
  <1>2. NewNode("bad", 0, <<>>) \in NodeType(Len(heap.syms))
    BY NowFacts, NewNodeSound DEF PendingInv
  <1>3. content' \in [Nodes -> NodeType(Len(heap.syms))]
    BY <1>2, NowFacts DEF LoadAlias, PendingInv
  <1>4. QED
    BY <1>1, <1>3, NowFacts DEF PendingInv, World, Now, IsSeq

LEMMA PendingSame ==
  ASSUME PendingInv, UNCHANGED <<content, heap, body>>
  PROVE  PendingInv'
  BY DEF PendingInv, World, Now, IsSeq

LEMMA PendingFirstItem ==
  ASSUME TypeOK, PendingInv, LoadFirstItem
  PROVE  PendingInv'
  <1> DEFINE n == Val(0)
             w == AddNode(Now, n)
             node == NewNode("seq", NextUid, <<w.content[n].id>>)
  <1>1. n \in Nodes /\ anchorOf[n] \in Names \cup {NONE}
    BY ReduceFirstItemShape, AnchorOfNode DEF LoadFirstItem
  <1>2. LeaveNew(w, node) /\ body' = Append(body, <<Top(0)>>)
    BY DEF LoadFirstItem
  <1> HIDE DEF n
  <1>3. World(w) /\ Len(w.heap.syms) \in Nat /\ w.content[n].id \in 1..Len(w.heap.syms)
    BY <1>1, AddNodeSound DEF PendingInv
  <1> HIDE DEF w
  <1>4. node \in NodeType(Len(w.heap.syms))
    BY <1>3, BodyUid, NewNodeSound
  <1> HIDE DEF node
  <1>5. World(Now)'
    BY <1>2, <1>3, <1>4, LeaveNewSound
  <1>6. IsSeq(body')
    BY <1>2, IsSeqFacts DEF PendingInv
  <1>7. QED
    BY <1>5, <1>6 DEF PendingInv, IsSeq

LEMMA PendingItem ==
  ASSUME TypeOK, PendingInv, LoadItem
  PROVE  PendingInv'
  <1> DEFINE n == Val(0)
             m == Val(1)
             w == AddNode(Now, n)
             g == AddItem(w, m, w.content[n].id)
  <1>1. n \in Nodes /\ m \in Nodes /\ anchorOf[n] \in Names \cup {NONE}
    BY ReduceItemShape, AnchorOfNode, TopNode DEF LoadItem, ReduceItem, NodeSyms, TypeOK
  <1>2. Leave(g) /\ body' = [body EXCEPT ![content[m].uid] = Append(body[content[m].uid], Top(0))]
    BY DEF LoadItem
  <1> HIDE DEF n, m
  <1>3. World(w) /\ w.content[n].id \in 1..Len(w.heap.syms)
    BY <1>1, AddNodeSound DEF PendingInv
  <1> HIDE DEF w
  <1>4. World(g)
    BY <1>1, <1>3, AddItemSound
  <1> HIDE DEF g
  <1>5. World(Now)'
    BY <1>2, <1>4, LeaveSound
  <1>6. IsSeq(body')
    BY <1>2, IsSeqFacts DEF PendingInv
  <1>7. QED
    BY <1>5, <1>6 DEF PendingInv, IsSeq

LEMMA PendingMapping ==
  ASSUME TypeOK, PendingInv, LoadMapping
  PROVE  PendingInv'
  <1> DEFINE n == Val(0)
             m == Val(1)
             w1 == AddNode(Now, n)
             w == AddNode(w1, m)
             node == NewNode("map", NextUid, <<w.content[n].id>>)
  <1>1. /\ n \in Nodes /\ anchorOf[n] \in Names \cup {NONE}
        /\ m \in Nodes /\ anchorOf[m] \in Names \cup {NONE}
    BY ReduceMappingShape, AnchorOfNode DEF LoadMapping
  <1>2. LeaveNew(w, node) /\ body' = Append(body, <<Top(0)>>)
    BY DEF LoadMapping
  <1> HIDE DEF n, m
  <1>3. World(w1) /\ Len(w1.heap.syms) \in Nat /\ w1.content[n].id \in 1..Len(w1.heap.syms)
    BY <1>1, AddNodeSound DEF PendingInv
  <1> HIDE DEF w1
  <1>4. /\ World(w) /\ Len(w.heap.syms) \in Nat
        /\ w.content[n].id \in 1..Len(w.heap.syms)
    <2>1. /\ World(w) /\ Len(w.heap.syms) \in Nat /\ Len(w1.heap.syms) <= Len(w.heap.syms)
          /\ w.content[m].id \in 1..Len(w.heap.syms)
      BY <1>1, <1>3, AddNodeSound
    <2>2. CASE w = w1
      BY <1>3, <2>2
    <2>3. CASE w # w1
      <3> DEFINE h == Handle(w1.heap, m, w1.content[m], anchorOf[m])
                 given == [w1.content[m] EXCEPT !.id = Len(h.syms)]
      <3>1. w.content = [w1.content EXCEPT ![m] = given]
        <4>1. w = [heap |-> h, content |-> [w1.content EXCEPT ![m].id = Len(h.syms)]]
          BY <2>3 DEF AddNode
        <4>2. [w1.content EXCEPT ![m].id = Len(h.syms)] = [w1.content EXCEPT ![m] = given]
          OBVIOUS
        <4> HIDE DEF h, given
        <4>3. QED
          BY <4>1, <4>2
      <3> HIDE DEF given, h
      <3>2. DOMAIN w1.content = Nodes
        BY <1>3 DEF World
      <3>3. n = m \/ w.content[n] = w1.content[n]
        BY <3>1, <3>2, <1>1
      <3>4. CASE n = m
        BY <2>1, <3>4, Zenon
      <3>5. CASE w.content[n] = w1.content[n]
        <4> DEFINE id == w.content[n].id
        <4>1. id \in 1..Len(w1.heap.syms)
          BY <1>3, <3>5, Zenon
        <4> HIDE DEF id
        <4>2. id \in 1..Len(w.heap.syms)
          BY <1>3, <2>1, <4>1
        <4>3. QED
          BY <2>1, <4>2 DEF id
      <3>6. QED
        BY <3>3, <3>4, <3>5
    <2>4. QED
      BY <2>1, <2>2, <2>3
  <1> HIDE DEF w
  <1>5. node \in NodeType(Len(w.heap.syms))
    BY <1>4, BodyUid, NewNodeSound
  <1> HIDE DEF node
  <1>6. World(Now)'
    BY <1>2, <1>4, <1>5, LeaveNewSound
  <1>7. IsSeq(body')
    BY <1>2, IsSeqFacts DEF PendingInv
  <1>8. QED
    BY <1>6, <1>7 DEF PendingInv, IsSeq

LEMMA PendingLoneKey ==
  ASSUME TypeOK, PendingInv, LoadLoneKey
  PROVE  PendingInv'
  <1> DEFINE n == Val(0)
             h == AddSym(heap, Str(NextUid + 1))
             null == [heap |-> h, content |-> content]
             w == AddNode(null, n)
             node == NewNode("map", NextUid, <<Len(null.heap.syms)>>)
  <1>1. n \in Nodes /\ anchorOf[n] \in Names \cup {NONE}
    BY ReduceLoneKeyShape, AnchorOfNode DEF LoadLoneKey
  <1>2. LeaveNew(w, node) /\ body' = body \o <<<<Node(NextUid + 1)>>, <<>>>>
    BY DEF LoadLoneKey
  <1>3. HeapSound(h) /\ Len(h.syms) = Len(heap.syms) + 1
    <2>1. Str(NextUid + 1) \in Vals
      BY BodyUid DEF Vals
    <2>2. QED
      BY <2>1, NowFacts, AddSymSound DEF PendingInv
  <1> HIDE DEF n, h
  <1>4. World(null) /\ null.heap = h
    <2>1. content \in [Nodes -> NodeType(Len(heap.syms) + 1)]
      BY NowFacts, NodeTypeGrows DEF PendingInv
    <2>2. QED
      BY <1>3, <2>1 DEF World
  <1> HIDE DEF null
  <1>5. /\ World(w) /\ Len(w.heap.syms) \in Nat /\ Len(null.heap.syms) \in Nat
        /\ Len(null.heap.syms) <= Len(w.heap.syms)
    BY <1>1, <1>4, AddNodeSound
  <1>6. Len(null.heap.syms) \in 1..Len(w.heap.syms)
    BY <1>3, <1>4, <1>5, NowFacts DEF PendingInv
  <1> HIDE DEF w
  <1>7. node \in NodeType(Len(w.heap.syms))
    BY <1>5, <1>6, BodyUid, NewNodeSound
  <1> HIDE DEF node
  <1>8. World(Now)'
    BY <1>2, <1>5, <1>7, LeaveNewSound
  <1>9. IsSeq(body')
    BY <1>2, IsSeqFacts DEF PendingInv
  <1>10. QED
    BY <1>8, <1>9 DEF PendingInv, IsSeq

LEMMA PendingPair ==
  ASSUME TypeOK, PendingInv, LoadPair
  PROVE  PendingInv'
  <1> DEFINE n == Val(0)
             m == Val(1)
             w == ApplySeq(Now, m)
             items == w.content[m].items \o content[n].items
             g == SetItems(w, m, items)
  <1>1. n \in Nodes /\ m \in Nodes
    BY ReducePairShape DEF LoadPair
  <1>2. Leave(g) /\ body' = [body EXCEPT ![content[m].uid] = SaysSeq(m) \o body[content[n].uid]]
    BY DEF LoadPair
  <1> HIDE DEF n, m
  <1>3. /\ World(w) /\ Len(heap.syms) \in Nat /\ Len(w.heap.syms) \in Nat
        /\ Len(heap.syms) <= Len(w.heap.syms)
    BY <1>1, ApplySeqSound, NowFacts DEF PendingInv
  <1> HIDE DEF w
  <1>4. w.content[m].items \in Seq(1..Len(w.heap.syms))
    BY <1>1, <1>3, ItemsFacts
  <1>5. content[n].items \in Seq(1..Len(heap.syms))
    BY <1>1, NowFacts, ItemsFacts DEF PendingInv
  <1>6. content[n].items \in Seq(1..Len(w.heap.syms))
    BY <1>3, <1>5, SeqGrows
  <1>7. items \in Seq(1..Len(w.heap.syms))
    BY <1>4, <1>6
  <1> HIDE DEF items
  <1>8. World(g)
    BY <1>1, <1>3, <1>7, SetItemsSound
  <1> HIDE DEF g
  <1>9. World(Now)'
    BY <1>2, <1>8, LeaveSound
  <1>10. IsSeq(body')
    BY <1>2, IsSeqFacts DEF PendingInv
  <1>11. QED
    BY <1>9, <1>10 DEF PendingInv, IsSeq

LEMMA PendingDash ==
  ASSUME TypeOK, PendingInv, LoadDash
  PROVE  PendingInv'
  <1> DEFINE n == Val(0)
             w == AddNode(Now, n)
             id == w.content[n].id
             s == shortcut[Val(2)]
  <1>1. n \in Nodes /\ anchorOf[n] \in Names \cup {NONE} /\ s \in Nodes \cup {NONE}
    BY ReduceDashShape, AnchorOfNode DEF LoadDash, TypeOK
  <1>2. \/ LeaveNew(w, NewNode("seq", NextUid, <<id>>)) /\ body' = Append(body, <<Top(0)>>)
        \/ /\ s # NONE /\ Leave(AddItem(w, s, id))
           /\ body' = [body EXCEPT ![content[s].uid] = Append(body[content[s].uid], Top(0))]
    BY DEF LoadDash
  <1> HIDE DEF n, s
  <1>3. World(w) /\ Len(w.heap.syms) \in Nat /\ id \in 1..Len(w.heap.syms)
    BY <1>1, AddNodeSound DEF PendingInv
  <1> HIDE DEF w, id
  <1>4. World(Now)'
    <2>1. CASE LeaveNew(w, NewNode("seq", NextUid, <<id>>))
      <3>1. NewNode("seq", NextUid, <<id>>) \in NodeType(Len(w.heap.syms))
        BY <1>3, BodyUid, NewNodeSound
      <3>2. QED
        BY <1>3, <2>1, <3>1, LeaveNewSound
    <2>2. CASE s # NONE /\ Leave(AddItem(w, s, id))
      <3>1. World(AddItem(w, s, id))
        BY <1>1, <1>3, <2>2, AddItemSound
      <3>2. QED
        BY <2>2, <3>1, LeaveSound
    <2>3. QED
      BY <1>2, <2>1, <2>2
  <1>5. IsSeq(body')
    <2>1. IsSeq(body)
      BY DEF PendingInv
    <2>2. IsSeq(Append(body, <<Top(0)>>))
      BY <2>1, IsSeqFacts
    <2>3. IsSeq([body EXCEPT ![content[s].uid] = Append(body[content[s].uid], Top(0))])
      BY <2>1, IsSeqFacts
    <2>4. QED
      BY <1>2, <2>2, <2>3, Zenon
  <1>6. QED
    BY <1>4, <1>5 DEF PendingInv, IsSeq

LEMMA PendingCloseBlock ==
  ASSUME TypeOK, PendingInv, LoadCloseBlock
  PROVE  PendingInv'
  <1> DEFINE m == Val(0)
             w == ApplySeq(Now, m)
  <1>1. m \in Nodes
    BY CloseBlockShape DEF LoadCloseBlock
  <1>2. Leave(w) /\ body' = [body EXCEPT ![content[m].uid] = SaysSeq(m)]
    BY DEF LoadCloseBlock
  <1> HIDE DEF m
  <1>3. World(w)
    BY <1>1, ApplySeqSound DEF PendingInv
  <1> HIDE DEF w
  <1>4. World(Now)'
    BY <1>2, <1>3, LeaveSound
  <1>5. IsSeq(body')
    BY <1>2, IsSeqFacts DEF PendingInv
  <1>6. QED
    BY <1>4, <1>5 DEF PendingInv, IsSeq

(* A circular node n takes the symbol of the node that stood in for it.    *)
LEMMA CircularWorld ==
  ASSUME PendingInv, NEW a \in Names, NEW n \in Nodes, NEW other \in Nodes,
         NEW node, node = [content[n] EXCEPT !.id = content[other].id],
         NEW w, w = [heap |-> Handle(heap, n, node, a), content |-> [content EXCEPT ![n] = node]]
  PROVE  node \in NodeType(Len(heap.syms)) /\ World(w)
  <1> DEFINE h == Handle(heap, n, node, a)
  <1>1. node \in NodeType(Len(heap.syms))
    <2>1. content[n] \in NodeType(Len(heap.syms)) /\ content[other] \in NodeType(Len(heap.syms))
      BY NowFacts DEF PendingInv
    <2>2. content[other].id \in 0..Len(heap.syms)
      BY <2>1 DEF NodeType
    <2>3. QED
      BY <2>1, <2>2 DEF NodeType
  <1>2. HeapSound(h) /\ Len(h.syms) = Len(heap.syms) + 1 /\ Len(heap.syms) \in Nat
    BY <1>1, HandleSound, NowFacts DEF PendingInv
  <1>3. w.heap = h /\ w.content = [content EXCEPT ![n] = node]
    OBVIOUS
  <1> HIDE DEF h
  <1>4. [content EXCEPT ![n] = node] \in [Nodes -> NodeType(Len(heap.syms) + 1)]
    <2>1. NodeType(Len(heap.syms)) \subseteq NodeType(Len(heap.syms) + 1)
      BY <1>2, NodeTypeGrows
    <2>2. content \in [Nodes -> NodeType(Len(heap.syms) + 1)]
      BY <2>1, NowFacts DEF PendingInv
    <2>3. QED
      BY <1>1, <2>1, <2>2
  <1>5. QED
    BY <1>1, <1>2, <1>3, <1>4 DEF World

LEMMA PendingReduceAnchor ==
  ASSUME TypeOK, PendingInv, LoadReduceAnchor
  PROVE  PendingInv'
  <1> DEFINE a == Val(1)
             n == Val(0)
             other == badAnchors[a]
             node == [content[n] EXCEPT !.id = content[other].id]
             h == Handle(heap, n, node, a)
             w == [heap |-> h, content |-> [content EXCEPT ![n] = node]]
  <1>1. n \in Nodes /\ a \in Names
    BY ReduceAnchorShape DEF LoadReduceAnchor
  <1>2. UNCHANGED body
    BY DEF LoadReduceAnchor
  <1>3. \/ other # NONE /\ Leave(w)
        \/ UNCHANGED <<content, heap>>
    BY DEF LoadReduceAnchor
  <1> HIDE DEF a, n
  <1>4. CASE other # NONE /\ Leave(w)
    <2>1. other \in Nodes
      BY <1>1, <1>4 DEF TypeOK
    <2> HIDE DEF other
    <2>2. World(w)
      BY <1>1, <2>1, CircularWorld
    <2> HIDE DEF w
    <2>6. World(Now)'
      BY <1>4, <2>2, LeaveSound
    <2>7. QED
      BY <1>2, <2>6 DEF PendingInv, IsSeq
  <1>5. CASE UNCHANGED <<content, heap>>
    BY <1>2, <1>5, PendingSame
  <1>6. QED
    BY <1>3, <1>4, <1>5

LEMMA PendingRoot ==
  ASSUME TypeOK, PendingInv, LoadRoot
  PROVE  PendingInv'
  <1> DEFINE n == Val(0)
             w == AddNode(Now, n)
  <1>1. UNCHANGED body
    BY DEF LoadRoot
  <1>2. \/ Depth = 1 /\ Leave(w)
        \/ UNCHANGED <<content, heap>>
    BY DEF LoadRoot
  <1>3. CASE Depth = 1 /\ Leave(w)
    <2>1. n \in Nodes /\ anchorOf[n] \in Names \cup {NONE}
      <3>1. stack # <<>>
        BY <1>3 DEF Depth
      <3>2. QED
        BY <3>1, ReduceRootShape, AnchorOfNode DEF LoadRoot
    <2> HIDE DEF n
    <2>2. World(w)
      BY <2>1, AddNodeSound DEF PendingInv
    <2> HIDE DEF w
    <2>3. World(Now)'
      BY <1>3, <2>2, LeaveSound
    <2>4. QED
      BY <1>1, <2>3 DEF PendingInv, IsSeq
  <1>4. CASE UNCHANGED <<content, heap>>
    BY <1>1, <1>4, PendingSame
  <1>5. QED
    BY <1>2, <1>3, <1>4

LEMMA PendingForget ==
  ASSUME PendingInv, Forget, UNCHANGED heap
  PROVE  PendingInv'
  <1>1. Blank \in NodeType(Len(heap.syms))
    BY NowFacts, BlankSound DEF PendingInv
  <1>2. content' \in [Nodes -> NodeType(Len(heap.syms))] /\ UNCHANGED body
    BY <1>1 DEF Forget
  <1>3. QED
    BY <1>2, NowFacts DEF PendingInv, World, Now, IsSeq

LEMMA PendingStep ==
  ASSUME TypeOK, PendingInv, [LoadNext]_<<vars, loadVars>>
  PROVE  PendingInv'
  <1>1. ASSUME NEW a \in Names, LoadAnchor(a) PROVE PendingInv'
    BY <1>1, PendingSame DEF LoadAnchor
  <1>2. CASE LoadMark \/ LoadClose
    BY <1>2, PendingSame DEF LoadMark, LoadClose
  <1>3. CASE LoadRename
    BY <1>3, PendingSame DEF LoadRename, loadVars
  <1>4. CASE LoadNextDocument \/ LoadFree \/ LoadCroak
    BY <1>4, PendingForget DEF LoadNextDocument, LoadFree, LoadCroak
  <1>5. CASE UNCHANGED <<vars, loadVars>>
    BY <1>5, PendingSame DEF loadVars
  <1>6. QED
    BY <1>1, <1>2, <1>3, <1>4, <1>5, PendingAlias, PendingScalar, PendingReduceAnchor,
       PendingFirstItem, PendingItem, PendingMapping, PendingLoneKey, PendingPair,
       PendingDash, PendingEmptyFlow, PendingCloseBlock, PendingRoot
       DEF LoadNext

LEMMA PendingStart == LoadInit => PendingInv
  <1> SUFFICES ASSUME LoadInit PROVE PendingInv
    OBVIOUS
  <1>1. /\ heap = [syms |-> <<>>, boxes |-> <<>>, pending |-> [a \in Names |-> {}]]
        /\ content = [n \in Nodes |-> Blank] /\ body = <<>>
    BY DEF LoadInit
  <1>2. heap \in HeapType /\ Len(heap.syms) = 0
    BY <1>1 DEF HeapType
  <1>3. Exact(heap)
    BY <1>1 DEF Exact, Cells
  <1>4. content \in [Nodes -> NodeType(Len(heap.syms))]
    BY <1>1, <1>2, BlankSound
  <1>5. IsSeq(body)
    BY <1>1 DEF IsSeq
  <1>6. QED
    BY <1>2, <1>3, <1>4, <1>5 DEF PendingInv, World, Now, HeapSound

(* The list of cells to patch always has exactly the cells that hold a     *)
(* stand-in for the name: resolve_bad_alias never misses a copy of a       *)
(* circular reference, and never overwrites a value that is something      *)
(* else.                                                                   *)
THEOREM PendingCells == LoadSpec => []PendingExact
  <1>1. LoadSpec => []TypeOK
    BY LoadImplements, TypeCorrect, PTL
  <1>2. TypeOK /\ PendingInv /\ [LoadNext]_<<vars, loadVars>> => PendingInv'
    BY PendingStep
  <1>3. PendingInv => PendingExact
    BY NowFacts DEF PendingInv, HeapSound, Exact, PendingExact
  <1>4. QED
    BY <1>1, <1>2, <1>3, PendingStart, PTL DEF LoadSpec
=============================================================================
