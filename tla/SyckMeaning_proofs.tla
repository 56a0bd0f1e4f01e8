------------------------- MODULE SyckMeaning_proofs -------------------------
(***************************************************************************)
(* What Load returns is what the document says.                            *)
(*                                                                         *)
(* First the types of what the handler keeps and of what is said: a symbol *)
(* or a cell holds a value there is, and a meaning is that of a node, of a *)
(* name defined so far or of none.  Then the invariant MeaningSound: each  *)
(* symbol and cell is, or stands in for, what was said of its item; each   *)
(* entry of the value stack is the node its meaning points to; and a cell  *)
(* that stands in for a name does so while the name is being built.  When  *)
(* a document is returned no name is, so every cell holds what was meant.  *)
(***************************************************************************)
EXTENDS SyckValues_proofs

-----------------------------------------------------------------------------
(* Types.                                                                  *)

(* The values there are with u nodes and b boxes, and the meanings with u  *)
(* nodes and d anchors.                                                    *)
ValueIn(u, b) == {Str(x) : x \in 1..u} \cup {Ref(c) : c \in 1..b} \cup {Bad(a) : a \in Names}
MeaningIn(u, d) ==
  {Node(x) : x \in 1..u} \cup {Def(x) : x \in 1..d} \cup {Nothing(a) : a \in Names \cup {NONE}}

(* The contents w, of which u nodes are told apart, and in which there is  *)
(* no less than now.                                                       *)
Typed(w, u) ==
  /\ Len(heap.syms) <= Len(w.heap.syms) /\ Len(heap.boxes) <= Len(w.heap.boxes)
  /\ \A s \in 1..Len(w.heap.syms) : w.heap.syms[s] \in ValueIn(u, Len(w.heap.boxes))
  /\ \A c \in 1..Len(w.heap.boxes) :
       /\ w.heap.boxes[c].of \in 1..u
       /\ \A i \in 1..Len(w.heap.boxes[c].vals) :
            w.heap.boxes[c].vals[i] \in ValueIn(u, Len(w.heap.boxes))
  /\ \A n \in Nodes : w.content[n].uid \in 0..u
  /\ ~croaked => \A n \in live :
       n \notin bad => w.content[n].kind \in {"str", "seq", "map"} /\ w.content[n].uid \in 1..u

LEMMA ValuesGrow ==
  ASSUME NEW u \in Nat, NEW v \in Nat, NEW b \in Nat, NEW c \in Nat, u <= v, b <= c
  PROVE  ValueIn(u, b) \subseteq ValueIn(v, c) /\ 1..u \subseteq 1..v /\ 0..u \subseteq 0..v
  <1>1. 1..u \subseteq 1..v /\ 1..b \subseteq 1..c /\ 0..u \subseteq 0..v
    OBVIOUS
  <1>2. QED
    BY <1>1 DEF ValueIn

LEMMA MeaningsGrow ==
  ASSUME NEW u \in Nat, NEW v \in Nat, NEW d \in Nat, NEW e \in Nat, u <= v, d <= e
  PROVE  MeaningIn(u, d) \subseteq MeaningIn(v, e)
  <1>1. 1..u \subseteq 1..v /\ 1..d \subseteq 1..e
    OBVIOUS
  <1>2. QED
    BY <1>1 DEF MeaningIn

(* Sequences grow with the sets of their elements.                         *)
LEMMA SeqMono ==
  ASSUME NEW S, NEW T, S \subseteq T
  PROVE  Seq(S) \subseteq Seq(T)
  <1>1. ASSUME NEW s \in Seq(S) PROVE s \in Seq(T)
    <2>1. Len(s) \in Nat /\ s \in [1..Len(s) -> S]
      OBVIOUS
    <2>2. s \in [1..Len(s) -> T]
      BY <2>1
    <2>3. QED
      BY <2>1, <2>2
  <1>2. QED
    BY <1>1

LEMMA BoxVals ==
  ASSUME NEW h \in HeapType, NEW c \in 1..Len(h.boxes)
  PROVE  /\ h.boxes[c] \in Box /\ h.boxes[c].vals \in Seq(Vals)
         /\ Len(h.boxes[c].vals) \in Nat /\ DOMAIN h.boxes[c].vals = 1..Len(h.boxes[c].vals)
  <1>1. h.boxes \in Seq(Box) /\ DOMAIN h.boxes = 1..Len(h.boxes)
    BY DEF HeapType
  <1>2. h.boxes[c] \in Box
    BY <1>1
  <1>3. h.boxes[c].vals \in Seq(Vals)
    BY <1>2 DEF Box
  <1>4. QED
    BY <1>2, <1>3

(* A new box has a value for each item.                                    *)
LEMMA BoxOfIs ==
  ASSUME NEW h \in HeapType, NEW node \in NodeType(Len(h.syms)), NEW box, box = BoxOf(h, node)
  PROVE  /\ box.of = node.uid /\ DOMAIN box.vals = 1..Len(node.items)
         /\ Len(node.items) \in Nat /\ Len(box.vals) = Len(node.items)
         /\ DOMAIN node.items = 1..Len(node.items)
         /\ \A i \in 1..Len(node.items) : /\ node.items[i] \in 1..Len(h.syms)
                                          /\ box.vals[i] = h.syms[node.items[i]]
  <1> DEFINE vals == [i \in DOMAIN node.items |-> h.syms[node.items[i]]]
  <1>1. node.items \in Seq(1..Len(h.syms))
    BY DEF NodeType
  <1>2. /\ DOMAIN node.items = 1..Len(node.items) /\ Len(node.items) \in Nat
        /\ \A i \in 1..Len(node.items) : node.items[i] \in 1..Len(h.syms)
    BY <1>1
  <1>3. box.of = node.uid /\ box.vals = vals
    BY DEF BoxOf
  <1>4. h.syms \in Seq(Vals)
    BY DEF HeapType
  <1>5. \A i \in 1..Len(node.items) : h.syms[node.items[i]] \in Vals
    BY <1>2, <1>4
  <1>6. vals \in [1..Len(node.items) -> Vals] /\ \A i \in 1..Len(node.items) : vals[i] = h.syms[node.items[i]]
    BY <1>2, <1>5
  <1> HIDE DEF vals
  <1>7. vals \in Seq(Vals) /\ Len(vals) = Len(node.items) /\ DOMAIN vals = 1..Len(node.items)
    BY <1>2, <1>6
  <1>8. QED
    BY <1>2, <1>3, <1>6, <1>7

(* One more symbol, and perhaps one more box.                              *)
LEMMA TypedNewSym ==
  ASSUME NEW u \in Nat, NEW w, World(w), Typed(w, u), NEW v, NEW g, World(g),
         \A n \in Nodes : g.content[n].kind = w.content[n].kind /\ g.content[n].uid = w.content[n].uid,
         Len(g.heap.syms) = Len(w.heap.syms) + 1,
         \A s \in 1..Len(w.heap.syms) : g.heap.syms[s] = w.heap.syms[s],
         g.heap.syms[Len(w.heap.syms) + 1] \in ValueIn(u, Len(g.heap.boxes)),
         \A c \in 1..Len(w.heap.boxes) : g.heap.boxes[c] = w.heap.boxes[c],
         \/ Len(g.heap.boxes) = Len(w.heap.boxes)
         \/ /\ Len(g.heap.boxes) = Len(w.heap.boxes) + 1
            /\ g.heap.boxes[Len(g.heap.boxes)].of \in 1..u
            /\ \A i \in 1..Len(g.heap.boxes[Len(g.heap.boxes)].vals) :
                 g.heap.boxes[Len(g.heap.boxes)].vals[i] \in ValueIn(u, Len(w.heap.boxes)),
         live \subseteq Nodes,
         Len(heap.syms) \in Nat, Len(heap.boxes) \in Nat
  PROVE  Typed(g, u)
  <1> DEFINE k == Len(w.heap.syms)
             b == Len(w.heap.boxes)
             d == Len(g.heap.boxes)
  <1>1. k \in Nat /\ b \in Nat /\ d \in Nat /\ b <= d
    BY HeapIs DEF World, HeapSound
  <1>2. ValueIn(u, b) \subseteq ValueIn(u, d)
    BY <1>1, ValuesGrow
  <1>3. \A s \in 1..Len(g.heap.syms) : s \in 1..k \/ s = k + 1
    BY <1>1
  <1>4. \A c \in 1..d : c \in 1..b \/ (c = b + 1 /\ c = d)
    BY <1>1
  <1>5. \A s \in 1..Len(g.heap.syms) : g.heap.syms[s] \in ValueIn(u, d)
    BY <1>2, <1>3 DEF Typed
  <1>6. ASSUME NEW c \in 1..d
        PROVE  /\ g.heap.boxes[c].of \in 1..u
               /\ \A i \in 1..Len(g.heap.boxes[c].vals) : g.heap.boxes[c].vals[i] \in ValueIn(u, d)
    <2>1. CASE c \in 1..b
      <3>1. /\ w.heap.boxes[c].of \in 1..u
            /\ \A i \in 1..Len(w.heap.boxes[c].vals) : w.heap.boxes[c].vals[i] \in ValueIn(u, b)
        BY <2>1 DEF Typed
      <3>2. g.heap.boxes[c] = w.heap.boxes[c]
        BY <2>1
      <3>3. QED
        BY <1>2, <3>1, <3>2
    <2>2. CASE c = b + 1 /\ c = d
      <3>1. d # b
        BY <1>1, <2>2
      <3>2. g.heap.boxes[d].of \in 1..u
        BY <3>1
      <3>3. \A i \in 1..Len(g.heap.boxes[d].vals) : g.heap.boxes[d].vals[i] \in ValueIn(u, b)
        BY <3>1
      <3> HIDE DEF b, d
      <3>4. QED
        BY <1>2, <2>2, <3>2, <3>3
    <2>3. QED
      BY <1>4, <2>1, <2>2
  <1> HIDE DEF k, b, d
  <1>7. Len(heap.syms) <= Len(g.heap.syms) /\ Len(heap.boxes) <= d
    <2>1. Len(heap.syms) <= k /\ Len(heap.boxes) <= b
      BY DEF Typed, k, b
    <2>2. Len(g.heap.syms) = k + 1
      BY DEF k
    <2>3. QED
      BY <1>1, <2>1, <2>2
  <1>8. QED
    BY <1>5, <1>6, <1>7 DEF Typed, d

LEMMA NowLens ==
  ASSUME PendingInv
  PROVE  Len(heap.syms) \in Nat /\ Len(heap.boxes) \in Nat /\ heap \in HeapType
  BY NowFacts, HeapIs DEF PendingInv, HeapSound

(* A node handled for the first time.                                      *)
LEMMA TypedFirst ==
  ASSUME OwnershipInv, PendingInv, NEW u \in Nat, NEW w, World(w), Typed(w, u),
         NEW n, NEW node \in NodeType(Len(w.heap.syms)), NEW a,
         n \in bad => a \in Names,
         n \notin bad => node.kind \in {"str", "seq", "map"} /\ node.uid \in 1..u,
         NEW g, World(g), FirstTime(w.heap, n, node, a, g.heap),
         \A m \in Nodes : g.content[m].kind = w.content[m].kind /\ g.content[m].uid = w.content[m].uid
  PROVE  Typed(g, u) /\ Len(g.heap.syms) = Len(w.heap.syms) + 1
  <1> DEFINE h == w.heap
             k == Len(h.syms)
             b == Len(h.boxes)
  <1>1. h \in HeapType /\ g.heap \in HeapType /\ live \subseteq Nodes
    BY DEF World, HeapSound, OwnershipInv, TypeOK
  <1>2. k \in Nat /\ b \in Nat /\ Len(g.heap.syms) \in Nat /\ Len(g.heap.boxes) \in Nat
    BY <1>1, HeapIs
  <1>3. /\ Len(g.heap.syms) = k + 1
        /\ \A s \in 1..k : g.heap.syms[s] = h.syms[s]
        /\ \A c \in 1..b : g.heap.boxes[c] = h.boxes[c]
    <2> DEFINE f == g.heap
    <2>1. FirstTime(h, n, node, a, f)
      OBVIOUS
    <2> HIDE DEF h, f
    <2>2. /\ Len(f.syms) = Len(h.syms) + 1
          /\ \A s \in 1..Len(h.syms) : f.syms[s] = h.syms[s]
          /\ \A c \in 1..Len(h.boxes) : f.boxes[c] = h.boxes[c]
      BY ONLY <1>1, <2>1, FirstTimeIs
    <2>3. QED
      BY <2>2 DEF f, k, b
  <1>4. \A s \in 1..k : h.syms[s] \in ValueIn(u, b)
    BY DEF Typed
  <1>5. IsSeq(h.syms) /\ IsSeq(h.boxes)
    BY <1>1, HeapIs
  <1>6. /\ g.heap.syms[k + 1] \in ValueIn(u, Len(g.heap.boxes))
        /\ \/ Len(g.heap.boxes) = b
           \/ /\ Len(g.heap.boxes) = b + 1
              /\ g.heap.boxes[b + 1].of \in 1..u
              /\ \A i \in 1..Len(g.heap.boxes[b + 1].vals) :
                   g.heap.boxes[b + 1].vals[i] \in ValueIn(u, b)
    <2>1. CASE /\ n \in bad
               /\ g.heap.syms = Append(h.syms, Bad(a)) /\ g.heap.boxes = h.boxes
      <3>1. g.heap.syms[k + 1] = Bad(a)
        BY <1>5, <2>1, Appended
      <3>2. QED
        BY <2>1, <3>1 DEF ValueIn
    <2>2. CASE /\ n \notin bad /\ node.kind = "str"
               /\ g.heap.syms = Append(h.syms, Str(node.uid)) /\ g.heap.boxes = h.boxes
      <3>1. g.heap.syms[k + 1] = Str(node.uid)
        BY <1>5, <2>2, Appended
      <3>2. QED
        BY <2>2, <3>1 DEF ValueIn
    <2>3. CASE /\ n \notin bad /\ node.kind # "str"
               /\ g.heap.syms = Append(h.syms, Ref(Len(h.boxes) + 1))
               /\ g.heap.boxes = Append(h.boxes, BoxOf(h, node))
      <3> DEFINE box == BoxOf(h, node)
      <3>1. g.heap.syms[k + 1] = Ref(b + 1)
        BY <1>5, <2>3, Appended
      <3>2. Len(g.heap.boxes) = b + 1 /\ g.heap.boxes[b + 1] = box
        BY <1>5, <2>3, Appended
      <3>3. /\ box.of = node.uid /\ Len(box.vals) = Len(node.items)
            /\ \A i \in 1..Len(node.items) : /\ node.items[i] \in 1..k
                                             /\ box.vals[i] = h.syms[node.items[i]]
        <4> HIDE DEF h
        <4>1. h \in HeapType /\ node \in NodeType(Len(h.syms)) /\ box = BoxOf(h, node)
          BY <1>1 DEF h
        <4>2. QED
          BY ONLY <4>1, BoxOfIs
      <3> HIDE DEF box, b, k, h
      <3>4. \A i \in 1..Len(box.vals) : box.vals[i] \in ValueIn(u, b)
        BY <1>4, <3>3
      <3>5. g.heap.syms[k + 1] \in ValueIn(u, Len(g.heap.boxes))
        <4>1. b + 1 \in 1..Len(g.heap.boxes)
          BY <1>2, <3>2
        <4>2. QED
          BY <3>1, <4>1 DEF ValueIn
      <3>6. node.uid \in 1..u
        BY <2>3
      <3>7. QED
        BY <3>2, <3>3, <3>4, <3>5, <3>6
    <2>4. QED
      BY <2>1, <2>2, <2>3 DEF FirstTime
  <1>7. Len(heap.syms) \in Nat /\ Len(heap.boxes) \in Nat
    BY NowLens
  <1>8. Typed(g, u)
    <2>1. \/ Len(g.heap.boxes) = Len(w.heap.boxes)
          \/ /\ Len(g.heap.boxes) = Len(w.heap.boxes) + 1
             /\ g.heap.boxes[Len(g.heap.boxes)].of \in 1..u
             /\ \A i \in 1..Len(g.heap.boxes[Len(g.heap.boxes)].vals) :
                  g.heap.boxes[Len(g.heap.boxes)].vals[i] \in ValueIn(u, Len(w.heap.boxes))
      BY <1>6
    <2>2. /\ Len(g.heap.syms) = Len(w.heap.syms) + 1
          /\ \A s \in 1..Len(w.heap.syms) : g.heap.syms[s] = w.heap.syms[s]
          /\ g.heap.syms[Len(w.heap.syms) + 1] \in ValueIn(u, Len(g.heap.boxes))
          /\ \A c \in 1..Len(w.heap.boxes) : g.heap.boxes[c] = w.heap.boxes[c]
      BY <1>3, <1>6
    <2>3. \A m \in Nodes : g.content[m].kind = w.content[m].kind /\ g.content[m].uid = w.content[m].uid
      OBVIOUS
    <2> HIDE DEF h, k, b
    <2>4. QED
      BY ONLY u \in Nat, World(w), Typed(w, u), World(g), <1>1, <1>7, <2>1, <2>2, <2>3, TypedNewSym
  <1>9. QED
    BY <1>3, <1>8

LEMMA TypedAdd ==
  ASSUME OwnershipInv, PendingInv, ~croaked, NEW u \in Nat, NEW w, World(w), Typed(w, u),
         NEW n \in live, NEW g, g = AddNode(w, n)
  PROVE  /\ Typed(g, u) /\ World(g)
         /\ g.content[n].id \in 1..Len(g.heap.syms)
         /\ Len(w.heap.syms) \in Nat /\ Len(g.heap.syms) \in Nat
         /\ Len(w.heap.syms) <= Len(g.heap.syms)
         /\ \A m \in Nodes : g.content[m].items = w.content[m].items
  <1> DEFINE node == w.content[n]
             a == anchorOf[n]
  <1>1. /\ n \in Nodes /\ live \subseteq Nodes /\ a \in Names \cup {NONE} /\ (n \in bad => a \in Names)
    BY DEF OwnershipInv, TypeOK, TablesSound
  <1>2. /\ World(g) /\ g.content[n].id \in 1..Len(g.heap.syms)
        /\ \A m \in Nodes : m # n => g.content[m] = w.content[m]
        /\ g.content[n].kind = node.kind /\ g.content[n].uid = node.uid
        /\ g.content[n].items = node.items
        /\ node.id # 0 => g = w
        /\ node.id = 0 => FirstTime(w.heap, n, node, a, g.heap)
    BY <1>1, AddNodeIs
  <1>3. node \in NodeType(Len(w.heap.syms))
    BY <1>1 DEF World
  <1>4. Len(w.heap.syms) \in Nat /\ Len(g.heap.syms) \in Nat
    BY <1>2, HeapIs DEF World, HeapSound
  <1>5. n \notin bad => node.kind \in {"str", "seq", "map"} /\ node.uid \in 1..u
    BY DEF Typed
  <1>6. \A m \in Nodes : /\ g.content[m].kind = w.content[m].kind /\ g.content[m].uid = w.content[m].uid
                         /\ g.content[m].items = w.content[m].items
    BY <1>2
  <1>7. CASE node.id # 0
    BY <1>2, <1>4, <1>6, <1>7
  <1>8. CASE node.id = 0
    <2>1. FirstTime(w.heap, n, node, a, g.heap)
      BY <1>2, <1>8
    <2> HIDE DEF node, a
    <2>2. Typed(g, u) /\ Len(g.heap.syms) = Len(w.heap.syms) + 1
      <3>1. n \in bad => a \in Names
        BY <1>1
      <3>2. World(g)
        BY <1>2
      <3>3. \A m \in Nodes : g.content[m].kind = w.content[m].kind /\ g.content[m].uid = w.content[m].uid
        BY <1>6
      <3>4. QED
        BY ONLY OwnershipInv, PendingInv, u \in Nat, World(w), Typed(w, u), <1>3, <1>5, <2>1, <3>1, <3>2, <3>3, TypedFirst
    <2>3. Len(w.heap.syms) <= Len(g.heap.syms)
      BY <1>4, <2>2
    <2>4. QED
      BY <1>2, <1>4, <1>6, <2>2, <2>3
  <1>9. QED
    BY <1>7, <1>8

LEMMA TypedMono ==
  ASSUME PendingInv, NEW u \in Nat, NEW v \in Nat, u <= v, NEW w, World(w), Typed(w, u)
  PROVE  Typed(w, v)
  <1>1. Len(w.heap.boxes) \in Nat
    BY HeapIs DEF World, HeapSound
  <1>2. ValueIn(u, Len(w.heap.boxes)) \subseteq ValueIn(v, Len(w.heap.boxes)) /\ 1..u \subseteq 1..v /\ 0..u \subseteq 0..v
    BY <1>1, ValuesGrow
  <1>3. QED
    BY <1>2 DEF Typed

LEMMA TypedSet ==
  ASSUME NEW u, NEW w, World(w), Typed(w, u), NEW n \in Nodes, live \subseteq Nodes, NEW items,
         NEW g, g = SetItems(w, n, items)
  PROVE  Typed(g, u)
  <1>1. g.heap = w.heap /\ \A m \in Nodes : g.content[m].kind = w.content[m].kind /\ g.content[m].uid = w.content[m].uid
    BY SetItemsIs
  <1>2. QED
    BY <1>1 DEF Typed

LEMMA TypedApply ==
  ASSUME OwnershipInv, PendingInv, ~croaked, NEW u \in Nat, NEW w, World(w), Typed(w, u),
         NEW m \in Nodes, NEW g, g = ApplySeq(w, m)
  PROVE  Typed(g, u) /\ World(g)
  <1> DEFINE s == shortcut[m]
             added == AddNode(w, s)
             items == ReplaceLast(added.content[m].items, added.content[s].id)
  <1>1. CASE s = NONE
    <2>1. g = w
      BY <1>1 DEF ApplySeq
    <2>2. QED
      BY <2>1
  <1>2. CASE s # NONE
    <2>1. g = SetItems(added, m, items)
      BY <1>2 DEF ApplySeq
    <2>2. s \in live /\ live \subseteq Nodes
      BY <1>2 DEF OwnershipInv, ShortcutsSound, TypeOK
    <2>3. World(g)
      BY ApplySeqSound DEF OwnershipInv
    <2> HIDE DEF items, s
    <2>4. Typed(added, u) /\ World(added)
      BY <2>2, TypedAdd
    <2> HIDE DEF added
    <2>5. QED
      BY <2>1, <2>2, <2>3, <2>4, TypedSet
  <1>3. QED
    BY <1>1, <1>2

(* What a step leaves of the contents w.                                   *)
LEMMA TypedStep ==
  ASSUME NEW w, NEW u, Typed(w, u), NEW v, v = Len(body'), u \in Nat, v \in Nat, u <= v,
         World(w), PendingInv, heap' = w.heap, croaked' = croaked, live \subseteq Nodes,
         \A n \in live \cap live' : /\ content'[n].kind = w.content[n].kind
                                    /\ content'[n].uid = w.content[n].uid
                                    /\ n \in bad' <=> n \in bad,
         \A n \in live' \ live :
           n \notin bad' => content'[n].kind \in {"str", "seq", "map"} /\ content'[n].uid \in 1..v,
         \A n \in Nodes : content'[n].uid \in 0..v
  PROVE  /\ Typed(Now, Len(body))'
         /\ Len(heap.syms) <= Len(heap'.syms) /\ Len(heap.boxes) <= Len(heap'.boxes)
  <1>1. Typed(w, v)
    BY TypedMono
  <1>2. Now'.heap = w.heap /\ Now'.content = content' /\ heap' = w.heap
    BY DEF Now
  <1>3. Len(heap'.syms) \in Nat /\ Len(heap'.boxes) \in Nat
    BY HeapIs DEF World, HeapSound
  <1>4. \A n \in live' : ~croaked' /\ n \notin bad' =>
          content'[n].kind \in {"str", "seq", "map"} /\ content'[n].uid \in 1..v
    <2>1. ASSUME NEW n \in live', ~croaked', n \in live
          PROVE  n \notin bad' => content'[n].kind \in {"str", "seq", "map"} /\ content'[n].uid \in 1..v
      <3>1. n \notin bad => w.content[n].kind \in {"str", "seq", "map"} /\ w.content[n].uid \in 1..v
        BY <1>1, <2>1 DEF Typed
      <3>2. QED
        BY <2>1, <3>1
    <2>2. QED
      BY <2>1
  <1>5. QED
    BY <1>1, <1>2, <1>3, <1>4 DEF Typed

LEMMA TypedLeave ==
  ASSUME OwnershipInv, PendingInv, NEW w, World(w), NEW u, u = Len(body), Typed(w, u), Leave(w),
         live' \subseteq live, UNCHANGED <<bad, croaked>>, Len(body') = Len(body)
  PROVE  /\ Typed(Now, Len(body))'
         /\ Len(heap.syms) <= Len(heap'.syms) /\ Len(heap.boxes) <= Len(heap'.boxes)
  <1>1. heap' = w.heap /\ content' = [n \in Nodes |-> IF n \in live' THEN w.content[n] ELSE Blank]
    BY DEF Leave
  <1>2. Len(body) \in Nat /\ live \subseteq Nodes
    BY BodyUid DEF OwnershipInv, TypeOK
  <1>3. \A n \in Nodes : content'[n].uid \in 0..Len(body)
    BY <1>1, <1>2 DEF Typed, Blank
  <1>4. \A n \in live \cap live' : content'[n] = w.content[n]
    BY <1>1, <1>2
  <1>5. QED
    BY <1>1, <1>2, <1>3, <1>4, TypedStep

LEMMA TypedNew ==
  ASSUME OwnershipInv, PendingInv, NEW w, World(w), NEW u \in Nat, Typed(w, u), NEW node, LeaveNew(w, node),
         Fresh \in Nodes \ live, live' \subseteq live \cup {Fresh}, UNCHANGED <<bad, croaked>>,
         node.kind \in {"str", "seq", "map"}, node.uid \in 1..Len(body'),
         Len(body') \in Nat, u <= Len(body')
  PROVE  /\ Typed(Now, Len(body))'
         /\ Len(heap.syms) <= Len(heap'.syms) /\ Len(heap.boxes) <= Len(heap'.boxes)
  <1> DEFINE g == [heap |-> w.heap, content |-> [w.content EXCEPT ![Fresh] = node]]
             f == Fresh
  <1>1. DOMAIN w.content = Nodes
    BY DEF World
  <1>2. heap' = g.heap /\ content' = [n \in Nodes |-> IF n \in live' THEN g.content[n] ELSE Blank]
    BY DEF LeaveNew, Leave
  <1>3. g.heap = w.heap /\ g.content = [w.content EXCEPT ![f] = node] /\ f \in Nodes \ live
    OBVIOUS
  <1>4. live' \subseteq live \cup {f}
    OBVIOUS
  <1> HIDE DEF g, f
  <1>5. g.content[f] = node /\ \A n \in Nodes : n # f => g.content[n] = w.content[n]
    BY <1>1, <1>3
  <1>6. live \subseteq Nodes /\ bad \subseteq live
    BY DEF OwnershipInv, TypeOK, TablesSound
  <1>7. \A n \in Nodes : w.content[n].uid \in 0..Len(body')
    BY DEF Typed
  <1>8. \A n \in Nodes : content'[n].uid \in 0..Len(body')
    BY <1>2, <1>5, <1>7 DEF Blank
  <1>9. \A n \in live \cap live' : content'[n] = w.content[n]
    BY <1>2, <1>3, <1>5, <1>6
  <1>10. \A n \in live' \ live : content'[n] = node /\ n \notin bad'
    BY <1>2, <1>3, <1>4, <1>5, <1>6
  <1>11. heap' = w.heap
    BY <1>2, <1>3
  <1>12. QED
    BY <1>6, <1>8, <1>9, <1>10, <1>11, TypedStep

-----------------------------------------------------------------------------
(* What the document says.                                                 *)

LoadTypes ==
  /\ Typed(Now, Len(body))
  /\ means \in Seq(Meaning) /\ Len(means) = Depth
  /\ defs \in Seq(Meaning) /\ body \in Seq(Seq(Meaning))
  /\ roots \in Seq([sym : 1..Len(heap.syms), aim : Meaning])
  /\ current \in [Names -> 0..Len(defs)]
  /\ tokens \in 0..MaxTokens
  /\ returned \in 0..Len(heap.boxes)
  /\ quirks \subseteq {"nested", "redefined", "undefined", "doubled", "aliased",
                     "shortcut", "overwritten"}

LEMMA MeaningIs == Meaning = MeaningIn(Len(body), Len(defs))
  BY DEF Meaning, MeaningIn

LEMMA WordLens ==
  ASSUME LoadTypes
  PROVE  /\ Len(body) \in Nat /\ Len(defs) \in Nat /\ Len(means) \in Nat /\ Len(roots) \in Nat
         /\ DOMAIN body = 1..Len(body) /\ DOMAIN defs = 1..Len(defs)
         /\ DOMAIN means = 1..Len(means) /\ DOMAIN roots = 1..Len(roots)
         /\ \A u \in 1..Len(body) : body[u] \in Seq(Meaning)
  <1>1. body \in Seq(Seq(Meaning))
    BY DEF LoadTypes
  <1>2. Len(body) \in Nat /\ DOMAIN body = 1..Len(body) /\ \A u \in 1..Len(body) : body[u] \in Seq(Meaning)
    <2> DEFINE S == Seq(Meaning)
    <2> HIDE DEF S
    <2>1. body \in Seq(S)
      BY <1>1 DEF S
    <2>2. Len(body) \in Nat /\ DOMAIN body = 1..Len(body) /\ \A u \in 1..Len(body) : body[u] \in S
      BY <2>1
    <2>3. QED
      BY <2>2 DEF S
  <1>3. QED
    BY <1>2, SeqFacts DEF LoadTypes

LEMMA WordsGrow ==
  ASSUME LoadTypes, Len(body') \in Nat, Len(defs') \in Nat,
         Len(body) <= Len(body'), Len(defs) <= Len(defs')
  PROVE  /\ Meaning \subseteq Meaning'
         /\ Seq(Meaning) \subseteq Seq(Meaning')
         /\ means \in Seq(Meaning') /\ defs \in Seq(Meaning') /\ body \in Seq(Seq(Meaning'))
  <1>1. Meaning' = MeaningIn(Len(body'), Len(defs')) /\ Meaning = MeaningIn(Len(body), Len(defs))
    BY DEF Meaning, MeaningIn
  <1>2. Meaning \subseteq Meaning'
    BY <1>1, WordLens, MeaningsGrow
  <1>3. Seq(Meaning) \subseteq Seq(Meaning')
    BY <1>2, SeqMono
  <1>4. Seq(Seq(Meaning)) \subseteq Seq(Seq(Meaning'))
    BY <1>3, SeqMono
  <1>5. QED
    BY <1>2, <1>3, <1>4 DEF LoadTypes

(* The meaning pushed with an entry.                                       *)
LEMMA MeansPushed ==
  ASSUME OwnershipInv, Len(means) = Depth, NEW k, NEW e, Pops(k, e), NEW m, MeansTop(k, m),
         NEW S, means \in Seq(S), m \in S
  PROVE  /\ means' \in Seq(S) /\ Len(means') = Depth' /\ means'[Depth'] = m
         /\ Depth' \in Nat /\ DOMAIN means' = 1..Depth' /\ DOMAIN means = 1..Depth
         /\ \A i \in 1..Depth' : i # Depth' => i \in 1..Depth /\ means'[i] = means[i]
  <1>1. Depth \in Nat /\ Depth' \in Nat /\ k \in 0..Depth /\ Depth' = Depth - k + 1
    BY PopsFacts DEF OwnershipInv, TypeOK
  <1>2. means' = Append(SubSeq(means, 1, Len(means) - k), m) /\ k \in 0..Len(means)
    BY <1>1 DEF MeansTop
  <1>3. /\ means' \in Seq(S) /\ Len(means') = Len(means) - k + 1
        /\ means'[Len(means) - k + 1] = m
        /\ \A i \in 1..(Len(means) - k) : means'[i] = means[i]
    BY <1>2, ReplaceFacts
  <1>4. /\ Len(means') = Depth' /\ means'[Depth'] = m
        /\ \A i \in 1..Depth' : i # Depth' => i \in 1..Depth /\ means'[i] = means[i]
    BY <1>1, <1>3
  <1>5. QED
    BY <1>1, <1>3, <1>4, SeqFacts

LEMMA TopMeans ==
  ASSUME OwnershipInv, LoadTypes, NEW k \in Nat, Sym(k) # "BOTTOM"
  PROVE  Top(k) \in Meaning /\ Depth - k \in 1..Depth
  <1>1. Depth - k \in 1..Depth
    BY TopFacts DEF OwnershipInv, TypeOK
  <1>2. means \in Seq(Meaning) /\ Len(means) = Depth
    BY DEF LoadTypes
  <1>3. QED
    BY <1>1, <1>2 DEF Top

(* A step of the grammar that pops k entries and pushes e.                 *)
LEMMA WordsTurn ==
  ASSUME OwnershipInv, LoadTypes, Typed(Now, Len(body))',
         Len(heap.syms) <= Len(heap'.syms), Len(heap.boxes) <= Len(heap'.boxes),
         World(Now)', PendingInv,
         NEW k, NEW e, Pops(k, e), NEW m \in Meaning', MeansTop(k, m),
         Len(body) <= Len(body'), body' \in Seq(Seq(Meaning')),
         Len(defs) <= Len(defs'), defs' \in Seq(Meaning'), current' \in [Names -> 0..Len(defs')],
         UNCHANGED <<roots, returned>>, tokens' \in 0..MaxTokens,
         quirks' \subseteq quirks \cup {"nested", "redefined", "undefined", "doubled", "aliased",
                     "shortcut", "overwritten"}
  PROVE  LoadTypes'
  <1>1. Len(body') \in Nat /\ Len(defs') \in Nat
    BY SeqFacts
  <1>2. Meaning \subseteq Meaning' /\ means \in Seq(Meaning')
    BY <1>1, WordsGrow
  <1>3. means' \in Seq(Meaning') /\ Len(means') = Depth'
    BY <1>2, MeansPushed DEF LoadTypes
  <1>4. Len(heap.syms) \in Nat /\ Len(heap.boxes) \in Nat /\ Len(heap'.syms) \in Nat /\ Len(heap'.boxes) \in Nat
    <2>1. Len(heap.syms) \in Nat /\ Len(heap.boxes) \in Nat
      BY NowLens
    <2>2. HeapSound(heap')
      BY DEF World, Now
    <2>3. QED
      BY <2>1, <2>2, HeapIs DEF HeapSound
  <1>5. roots' \in Seq([sym : 1..Len(heap'.syms), aim : Meaning'])
    <2>1. 1..Len(heap.syms) \subseteq 1..Len(heap'.syms)
      BY <1>4
    <2>2. [sym : 1..Len(heap.syms), aim : Meaning] \subseteq [sym : 1..Len(heap'.syms), aim : Meaning']
      BY <1>2, <2>1
    <2>3. Seq([sym : 1..Len(heap.syms), aim : Meaning]) \subseteq Seq([sym : 1..Len(heap'.syms), aim : Meaning'])
      BY <2>2, SeqMono
    <2>4. QED
      BY <2>3 DEF LoadTypes
  <1>6. returned' \in 0..Len(heap'.boxes)
    BY <1>4 DEF LoadTypes
  <1>7. quirks' \subseteq {"nested", "redefined", "undefined", "doubled", "aliased", "shortcut", "overwritten"}
    BY DEF LoadTypes
  <1>8. QED
    BY <1>3, <1>5, <1>6, <1>7 DEF LoadTypes

LEMMA TypesTurn ==
  ASSUME OwnershipInv, LoadTypes, Typed(Now, Len(body))',
         Len(heap.syms) <= Len(heap'.syms), Len(heap.boxes) <= Len(heap'.boxes),
         World(Now)', PendingInv,
         NEW k, NEW e, Pops(k, e), NEW m \in Meaning', MeansTop(k, m),
         Len(body) <= Len(body'), body' \in Seq(Seq(Meaning')),
         UNCHANGED <<defs, current, roots, returned>>, tokens' \in 0..MaxTokens,
         quirks' \subseteq quirks \cup {"nested", "redefined", "undefined", "doubled", "aliased",
                     "shortcut", "overwritten"}
  PROVE  LoadTypes'
  <1>1. Len(body') \in Nat /\ Len(defs') \in Nat /\ Len(defs) <= Len(defs')
    BY WordLens, SeqFacts
  <1>2. defs' \in Seq(Meaning') /\ current' \in [Names -> 0..Len(defs')]
    BY <1>1, WordsGrow DEF LoadTypes
  <1>3. QED
    BY <1>1, <1>2, WordsTurn

(* The parse runs, and its next state is one as well.                      *)
Parse ==
  /\ OwnershipInv /\ OwnershipInv' /\ PendingInv /\ PendingInv' /\ LoadTypes
  /\ ~croaked /\ UNCHANGED croaked

LEMMA BodyEdited ==
  ASSUME NEW S, body \in Seq(S), NEW u, NEW x, u \in 1..Len(body) => x \in S,
         body' = [body EXCEPT ![u] = x]
  PROVE  /\ body' \in Seq(S) /\ Len(body') = Len(body)
         /\ \A i \in 1..Len(body) : body'[i] = IF i = u THEN x ELSE body[i]
  <1>1. DOMAIN body = 1..Len(body) /\ Len(body) \in Nat /\ \A i \in 1..Len(body) : body[i] \in S
    OBVIOUS
  <1>2. \A i \in 1..Len(body) : body'[i] = IF i = u THEN x ELSE body[i]
    BY <1>1
  <1>3. body' = [i \in 1..Len(body) |-> body'[i]]
    BY <1>1
  <1>4. \A i \in 1..Len(body) : body'[i] \in S
    BY <1>1, <1>2
  <1>5. body' \in [1..Len(body) -> S]
    BY <1>3, <1>4
  <1>6. QED
    BY <1>1, <1>2, <1>5

LEMMA TypesSame ==
  ASSUME Parse, UNCHANGED <<heap, content, body, live, bad>>
  PROVE  /\ Typed(Now, Len(body))'
         /\ Len(heap.syms) <= Len(heap'.syms) /\ Len(heap.boxes) <= Len(heap'.boxes)
  <1>1. Typed(Now, Len(body)) /\ World(Now) /\ Now.heap = heap /\ Now.content = content
    BY DEF Parse, LoadTypes, PendingInv, Now
  <1>2. Len(body) \in Nat /\ live \subseteq Nodes
    BY BodyUid DEF Parse, OwnershipInv, TypeOK
  <1>3. \A n \in Nodes : content'[n].uid \in 0..Len(body)
    BY <1>1 DEF Typed
  <1>4. QED
    BY <1>1, <1>2, <1>3, TypedStep DEF Parse

(* What is said of a node that is still being built.                       *)
LEMMA UidTop ==
  ASSUME Parse, NEW k \in Nat, Sym(k) \in NodeSyms
  PROVE  /\ Val(k) \in live /\ Val(k) \in Nodes
         /\ Sym(k) \in {"SEQ", "MAP", "PAIR", "BMAP"} =>
              Val(k) \notin bad /\ content[Val(k)].uid \in 1..Len(body)
  <1>1. Val(k) \in live /\ Val(k) \in Nodes
    BY LiveTop DEF Parse
  <1>2. Sym(k) \in {"SEQ", "MAP", "PAIR", "BMAP"} => anchorOf[Val(k)] = NONE
    BY TopPlace DEF Parse, OwnershipInv
  <1>3. Sym(k) \in {"SEQ", "MAP", "PAIR", "BMAP"} => Val(k) \notin bad
    BY <1>2 DEF Parse, OwnershipInv, TablesSound
  <1>4. Typed(Now, Len(body)) /\ Now.content = content
    BY DEF Parse, LoadTypes, Now
  <1>5. QED
    BY <1>1, <1>3, <1>4 DEF Typed, Parse

LEMMA UidWaiting ==
  ASSUME Parse, NEW m \in Nodes, shortcut[m] # NONE
  PROVE  /\ shortcut[m] \in live /\ shortcut[m] \in Nodes /\ shortcut[m] \notin bad
         /\ content[shortcut[m]].uid \in 1..Len(body)
  <1>1. shortcut[m] \in live /\ shortcut[m] \in Nodes /\ anchorOf[shortcut[m]] = NONE
    BY DEF Parse, OwnershipInv, ShortcutsSound, TypeOK
  <1>2. shortcut[m] \notin bad
    BY <1>1 DEF Parse, OwnershipInv, TablesSound
  <1>3. Typed(Now, Len(body)) /\ Now.content = content
    BY DEF Parse, LoadTypes, Now
  <1>4. QED
    BY <1>1, <1>2, <1>3 DEF Typed, Parse

LEMMA SaysSeqType ==
  ASSUME Parse, NEW m \in Nodes, content[m].uid \in 1..Len(body)
  PROVE  SaysSeq(m) \in Seq(Meaning)
  <1> DEFINE said == body[content[m].uid]
  <1>1. said \in Seq(Meaning)
    BY WordLens DEF Parse
  <1>2. CASE shortcut[m] = NONE
    BY <1>1, <1>2 DEF SaysSeq
  <1>3. CASE shortcut[m] # NONE
    <2> DEFINE x == Node(content[shortcut[m]].uid)
    <2>1. x \in Meaning
      BY <1>3, UidWaiting DEF Meaning
    <2>2. SaysSeq(m) = [said EXCEPT ![Len(said)] = x]
      BY <1>3 DEF SaysSeq, ReplaceLast
    <2> HIDE DEF said, x
    <2>3. QED
      BY <1>1, <2>1, <2>2, ChangedPlace
  <1>4. QED
    BY <1>2, <1>3

LEMMA TypesScalar ==
  ASSUME Parse, LoadScalar
  PROVE  LoadTypes'
  <1> DEFINE e == [sym |-> "ATOM", val |-> Fresh]
             node == NewNode("str", NextUid, <<>>)
  <1>1. /\ Fresh \in Nodes \ live /\ Pops(0, e)
        /\ live' \subseteq live \cup {Fresh} /\ UNCHANGED <<bad, croaked>>
        /\ LeaveNew(Now, node) /\ body' = Append(body, <<>>) /\ MeansTop(0, Node(NextUid))
        /\ UNCHANGED <<roots, defs, current, returned, quirks>> /\ tokens' \in 0..MaxTokens
    BY ShiftScalarShape, LoadAssumption DEF LoadScalar, ShiftScalar, OwnershipInv, Parse, Read, LoadTypes
  <1>2. Len(body) \in Nat /\ Len(body') = Len(body) + 1 /\ NextUid = Len(body) + 1
    BY <1>1, WordLens, Longer DEF NextUid, Parse, PendingInv
  <1>3. node.kind = "str" /\ node.uid \in 1..Len(body')
    BY <1>2 DEF NewNode
  <1> HIDE DEF node, e
  <1>4. /\ Typed(Now, Len(body))'
        /\ Len(heap.syms) <= Len(heap'.syms) /\ Len(heap.boxes) <= Len(heap'.boxes)
    <2>1. Typed(Now, Len(body)) /\ World(Now)
      BY DEF Parse, LoadTypes, PendingInv
    <2>2. QED
      BY <1>1, <1>2, <1>3, <2>1, TypedNew DEF Parse
  <1>5. Node(NextUid) \in Meaning' /\ body' \in Seq(Seq(Meaning'))
    <2>1. Node(NextUid) \in Meaning'
      BY <1>2 DEF Meaning
    <2>2. body \in Seq(Seq(Meaning')) /\ <<>> \in Seq(Meaning')
      BY <1>1, <1>2, WordLens, WordsGrow, SeqFacts DEF Parse
    <2>3. QED
      BY <1>1, <2>1, <2>2, AppendFacts
  <1>6. World(Now)'
    BY DEF Parse, PendingInv
  <1>7. QED
    BY <1>1, <1>2, <1>4, <1>5, <1>6, TypesTurn DEF Parse

LEMMA TypesEmptyFlow ==
  ASSUME Parse, LoadEmptyFlow
  PROVE  LoadTypes'
  <1> DEFINE e == [sym |-> "ATOM", val |-> Fresh]
             node == NewNode("seq", NextUid, <<>>)
  <1>1. /\ Fresh \in Nodes \ live /\ Pops(1, e)
        /\ live' \subseteq live \cup {Fresh} /\ UNCHANGED <<bad, croaked>>
        /\ LeaveNew(Now, node) /\ body' = Append(body, <<>>) /\ MeansTop(1, Node(NextUid))
        /\ UNCHANGED <<roots, defs, current, returned, quirks>> /\ tokens' \in 0..MaxTokens
    BY CloseEmptyFlowShape DEF LoadEmptyFlow, CloseEmptyFlow, OwnershipInv, Parse, LoadTypes
  <1>2. Len(body) \in Nat /\ Len(body') = Len(body) + 1 /\ NextUid = Len(body) + 1
    BY <1>1, WordLens, Longer DEF NextUid, Parse, PendingInv
  <1>3. node.kind = "seq" /\ node.uid \in 1..Len(body')
    BY <1>2 DEF NewNode
  <1> HIDE DEF node, e
  <1>4. /\ Typed(Now, Len(body))'
        /\ Len(heap.syms) <= Len(heap'.syms) /\ Len(heap.boxes) <= Len(heap'.boxes)
    <2>1. Typed(Now, Len(body)) /\ World(Now)
      BY DEF Parse, LoadTypes, PendingInv
    <2>2. QED
      BY <1>1, <1>2, <1>3, <2>1, TypedNew DEF Parse
  <1>5. Node(NextUid) \in Meaning' /\ body' \in Seq(Seq(Meaning'))
    <2>1. Node(NextUid) \in Meaning'
      BY <1>2 DEF Meaning
    <2>2. body \in Seq(Seq(Meaning')) /\ <<>> \in Seq(Meaning')
      BY <1>1, <1>2, WordLens, WordsGrow, SeqFacts DEF Parse
    <2>3. QED
      BY <1>1, <2>1, <2>2, AppendFacts
  <1>6. World(Now)'
    BY DEF Parse, PendingInv
  <1>7. QED
    BY <1>1, <1>2, <1>4, <1>5, <1>6, TypesTurn DEF Parse

(* A step that changes only the stack.                                     *)
LEMMA TypesPlain ==
  ASSUME Parse, NEW k, NEW e, Pops(k, e), NEW m \in Meaning, MeansTop(k, m),
         UNCHANGED <<live, bad, heap, content, roots, defs, current, body, returned, quirks>>,
         tokens' \in 0..MaxTokens
  PROVE  LoadTypes'
  <1>1. /\ Typed(Now, Len(body))'
        /\ Len(heap.syms) <= Len(heap'.syms) /\ Len(heap.boxes) <= Len(heap'.boxes)
    BY TypesSame
  <1>2. Meaning' = Meaning /\ Seq(Seq(Meaning')) = Seq(Seq(Meaning)) /\ Len(body) \in Nat
    BY WordLens DEF Meaning, Parse
  <1>3. World(Now)' /\ m \in Meaning' /\ body' \in Seq(Seq(Meaning')) /\ Len(body) <= Len(body')
    BY <1>2 DEF Parse, PendingInv, LoadTypes
  <1>4. QED
    BY <1>1, <1>3, TypesTurn DEF Parse

LEMMA TypesMark ==
  ASSUME Parse, LoadMark
  PROVE  LoadTypes'
  <1>1. /\ \/ \E s \in {"LBRACKET", "LBRACE", "IOPEN"} : ShiftOpen(s)
           \/ ShiftSep
           \/ ShiftDash
        /\ UNCHANGED <<live, bad, heap, content, roots, defs, current, body, returned, quirks>>
        /\ MeansTop(0, Nothing(NONE))
    BY LoadAssumption DEF LoadMark, ShiftOpen, ShiftSep, ShiftDash
  <1>2. PICK s \in MarkSyms : Pops(0, [sym |-> s, val |-> NONE])
    BY <1>1, ShiftMarkShape DEF OwnershipInv, Parse
  <1>3. Nothing(NONE) \in Meaning
    BY DEF Meaning
  <1>4. tokens' \in 0..MaxTokens
    BY LoadAssumption DEF LoadMark, Read, Parse, LoadTypes
  <1>5. QED
    BY <1>1, <1>2, <1>3, <1>4, TypesPlain

LEMMA TypesClose ==
  ASSUME Parse, LoadClose
  PROVE  LoadTypes'
  <1>1. /\ UNCHANGED <<live, bad, heap, content, roots, defs, current, body, returned, quirks>>
        /\ tokens' = tokens /\ MeansTop(2, Top(0))
    BY DEF LoadClose, CloseFlow, ReduceTopMap
  <1>2. PICK s \in {"ATOM", "TMAP"} :
          Pops(2, [sym |-> s, val |-> Val(0)]) /\ Sym(0) \in {"SEQ", "MAP", "BMAP"}
    BY CloseFlowShape, ReduceTopMapShape DEF LoadClose, OwnershipInv, Parse
  <1>3. Top(0) \in Meaning
    BY <1>2, TopMeans DEF Parse
  <1>4. QED
    BY <1>1, <1>2, <1>3, TypesPlain DEF Parse, LoadTypes

LEMMA TypesRename ==
  ASSUME Parse, LoadRename
  PROVE  LoadTypes'
  <1>1. /\ UNCHANGED <<live, bad, heap, content, roots, defs, current, body, returned, quirks>>
        /\ UNCHANGED <<tokens, means>>
    BY DEF LoadRename, ShiftColon, ReduceFirstPair, loadVars
  <1>2. \E e : Pops(1, e)
    BY ShiftColonShape, ReduceFirstPairShape DEF LoadRename, OwnershipInv, Parse
  <1>3. Depth' = Depth
    BY <1>2, PopsFacts DEF Parse, OwnershipInv, TypeOK
  <1>4. Typed(Now, Len(body))'
    BY <1>1, TypesSame
  <1>5. Meaning' = Meaning
    BY <1>1 DEF Meaning
  <1>6. QED
    BY <1>1, <1>3, <1>4, <1>5 DEF Parse, LoadTypes

(* A step that builds a collection with items of its own.                  *)
LEMMA TypesBuilt ==
  ASSUME Parse, NEW k, NEW e, Pops(k, e), NEW w, World(w),
         NEW u \in Nat, u <= Len(body'), Typed(w, u),
         NEW node, LeaveNew(w, node),
         Fresh \in Nodes \ live, live' \subseteq live \cup {Fresh}, UNCHANGED bad,
         node.kind \in {"str", "seq", "map"}, node.uid = NextUid,
         NEW m \in Meaning', MeansTop(k, m), Len(body) + 1 <= Len(body'),
         body' \in Seq(Seq(Meaning')),
         UNCHANGED <<roots, defs, current, returned, tokens>>,
         quirks' \subseteq quirks \cup {"overwritten"}
  PROVE  LoadTypes'
  <1>1. Len(body) \in Nat /\ Len(body') \in Nat /\ NextUid = Len(body) + 1
    BY WordLens, SeqFacts DEF NextUid, Parse
  <1>2. node.uid \in 1..Len(body')
    BY <1>1
  <1>3. /\ Typed(Now, Len(body))'
        /\ Len(heap.syms) <= Len(heap'.syms) /\ Len(heap.boxes) <= Len(heap'.boxes)
    BY <1>1, <1>2, TypedNew DEF Parse
  <1>4. World(Now)' /\ tokens' \in 0..MaxTokens
    BY DEF Parse, PendingInv, LoadTypes
  <1>5. Len(body) <= Len(body')
    BY <1>1
  <1>6. QED
    BY <1>1, <1>3, <1>4, <1>5, TypesTurn DEF Parse

LEMMA NewBody ==
  ASSUME Parse, NEW items, items \in Seq(Meaning), body' = Append(body, items), UNCHANGED defs
  PROVE  /\ Len(body) \in Nat /\ Len(body') = Len(body) + 1 /\ Node(NextUid) \in Meaning'
         /\ body' \in Seq(Seq(Meaning'))
         /\ Meaning \subseteq Meaning'
  <1>1. Len(body) \in Nat /\ Len(body') = Len(body) + 1 /\ NextUid = Len(body) + 1
    BY WordLens, Longer DEF NextUid, Parse, PendingInv
  <1>2. Node(NextUid) \in Meaning'
    BY <1>1 DEF Meaning
  <1>3. body \in Seq(Seq(Meaning')) /\ Seq(Meaning) \subseteq Seq(Meaning') /\ Meaning \subseteq Meaning'
    BY <1>1, WordLens, WordsGrow DEF Parse
  <1>4. items \in Seq(Meaning')
    BY <1>3
  <1>5. QED
    BY <1>1, <1>2, <1>3, <1>4, AppendFacts

LEMMA TypesFirstItem ==
  ASSUME Parse, LoadFirstItem
  PROVE  LoadTypes'
  <1> DEFINE e == [sym |-> "SEQ", val |-> Fresh]
             n == Val(0)
             w == AddNode(Now, n)
             node == NewNode("seq", NextUid, <<w.content[n].id>>)
  <1>1. /\ Fresh \in Nodes \ live /\ Pops(1, e) /\ Sym(0) \in {"ATOM", "PAIR"}
        /\ live' \subseteq live \cup {Fresh} /\ UNCHANGED bad
        /\ LeaveNew(w, node) /\ body' = Append(body, <<Top(0)>>) /\ MeansTop(1, Node(NextUid))
        /\ UNCHANGED <<roots, defs, current, returned, quirks, tokens>>
    BY ReduceFirstItemShape DEF LoadFirstItem, ReduceFirstItem, AddNodes, OwnershipInv, Parse
  <1>2. n \in live /\ Top(0) \in Meaning
    BY <1>1, LiveTop, TopMeans DEF Parse, NodeSyms
  <1>3. <<Top(0)>> \in Seq(Meaning)
    BY <1>2
  <1>4. /\ Len(body) \in Nat /\ Len(body') = Len(body) + 1 /\ Node(NextUid) \in Meaning'
        /\ body' \in Seq(Seq(Meaning'))
    BY <1>1, <1>3, NewBody
  <1>5. node.kind = "seq" /\ node.uid = NextUid
    BY DEF NewNode
  <1> HIDE DEF e, n, node
  <1>6. Typed(w, Len(body)) /\ World(w)
    BY <1>2, <1>4, TypedAdd DEF Parse, LoadTypes, PendingInv
  <1> HIDE DEF w
  <1>7. QED
    BY <1>1, <1>4, <1>5, <1>6, TypesBuilt

LEMMA TypesMapping ==
  ASSUME Parse, LoadMapping
  PROVE  LoadTypes'
  <1> DEFINE e == [sym |-> "PAIR", val |-> Fresh]
             n == Val(0)
             l == Val(1)
             x == AddNode(Now, n)
             w == AddNode(x, l)
             node == NewNode("map", NextUid, <<w.content[n].id>>)
  <1>1. /\ Fresh \in Nodes \ live /\ Pops(2, e) /\ Sym(0) = "ATOM" /\ Sym(1) = "KEY"
        /\ live' \subseteq live \cup {Fresh} /\ UNCHANGED bad
        /\ LeaveNew(w, node) /\ body' = Append(body, <<Top(0)>>) /\ MeansTop(2, Node(NextUid))
        /\ UNCHANGED <<roots, defs, current, returned, quirks, tokens>>
    BY ReduceMappingShape DEF LoadMapping, ReduceMapping, AddNodes, OwnershipInv, Parse
  <1>2. n \in live /\ l \in live /\ Top(0) \in Meaning
    BY <1>1, LiveTop, TopMeans DEF Parse, NodeSyms
  <1>3. <<Top(0)>> \in Seq(Meaning)
    BY <1>2
  <1>4. /\ Len(body) \in Nat /\ Len(body') = Len(body) + 1 /\ Node(NextUid) \in Meaning'
        /\ body' \in Seq(Seq(Meaning'))
    BY <1>1, <1>3, NewBody
  <1>5. node.kind = "map" /\ node.uid = NextUid
    BY DEF NewNode
  <1> HIDE DEF e, n, l, node
  <1>6. Typed(x, Len(body)) /\ World(x)
    BY <1>2, <1>4, TypedAdd DEF Parse, LoadTypes, PendingInv
  <1> HIDE DEF x
  <1>7. Typed(w, Len(body)) /\ World(w)
    BY <1>2, <1>4, <1>6, TypedAdd DEF Parse
  <1> HIDE DEF w
  <1>8. QED
    BY <1>1, <1>4, <1>5, <1>7, TypesBuilt

LEMMA TypesLoneKey ==
  ASSUME Parse, LoadLoneKey
  PROVE  LoadTypes'
  <1> DEFINE e == [sym |-> "PAIR", val |-> Fresh]
             n == Val(0)
             h == AddSym(heap, Str(NextUid + 1))
             null == [heap |-> h, content |-> content]
             w == AddNode(null, n)
             node == NewNode("map", NextUid, <<Len(null.heap.syms)>>)
             u == Len(body) + 2
  <1>1. /\ Fresh \in Nodes \ live /\ Pops(1, e) /\ Sym(0) = "ATOM"
        /\ live' \subseteq live \cup {Fresh} /\ UNCHANGED bad
        /\ LeaveNew(w, node) /\ body' = body \o <<<<Node(NextUid + 1)>>, <<>>>>
        /\ MeansTop(1, Node(NextUid))
        /\ UNCHANGED <<roots, defs, current, returned, quirks, tokens>>
    BY ReduceLoneKeyShape DEF LoadLoneKey, ReduceLoneKey, AddNodes, OwnershipInv, Parse
  <1>2. n \in live /\ n \in Nodes
    BY <1>1, LiveTop DEF NodeSyms, Parse
  <1>3. /\ Len(body) \in Nat /\ Len(body') = u /\ u \in Nat /\ NextUid = Len(body) + 1
        /\ Len(body) <= u
    BY <1>1, WordLens, Longer DEF NextUid, Parse, PendingInv
  <1>4. Node(NextUid) \in Meaning' /\ Node(NextUid + 1) \in Meaning'
    BY <1>3 DEF Meaning
  <1>5. body' \in Seq(Seq(Meaning'))
    <2>1. body \in Seq(Seq(Meaning'))
      BY <1>1, <1>3, WordLens, WordsGrow DEF Parse
    <2>2. <<Node(NextUid + 1)>> \in Seq(Meaning') /\ <<>> \in Seq(Meaning')
      BY <1>4, SeqFacts
    <2>3. <<<<Node(NextUid + 1)>>, <<>>>> \in Seq(Seq(Meaning'))
      BY <2>2
    <2>4. QED
      BY <1>1, <2>1, <2>3
  <1>6. node.kind = "map" /\ node.uid = NextUid
    BY DEF NewNode
  <1>7. heap \in HeapType /\ HeapSound(heap) /\ Len(heap.syms) \in Nat /\ Len(heap.boxes) \in Nat
    BY NowLens, NowFacts DEF PendingInv, Parse
  <1>8. /\ h.syms = Append(heap.syms, Str(NextUid + 1)) /\ h.boxes = heap.boxes
        /\ HeapSound(h) /\ Len(h.syms) = Len(heap.syms) + 1
    <2>1. Str(NextUid + 1) \in Vals
      BY <1>3 DEF Vals
    <2>2. QED
      BY <1>7, <2>1, AddSymIs, AddSymSound
  <1>9. null.heap = h /\ null.content = content
    OBVIOUS
  <1> HIDE DEF node, h, null, n, e
  <1>10. World(null)
    <2>1. content \in [Nodes -> NodeType(Len(heap.syms) + 1)]
      BY NowFacts, NodeTypeGrows DEF PendingInv, Parse
    <2>2. QED
      BY <1>8, <1>9, <2>1 DEF World
  <1>11. Typed(Now, u) /\ World(Now)
    BY <1>3, TypedMono DEF Parse, LoadTypes, PendingInv
  <1>12. Typed(null, u)
    <2>1. /\ Now.heap = heap /\ Now.content = content
          /\ \A m \in Nodes : null.content[m].kind = Now.content[m].kind /\ null.content[m].uid = Now.content[m].uid
      BY <1>9 DEF Now
    <2>2. /\ Len(null.heap.syms) = Len(Now.heap.syms) + 1
          /\ \A s \in 1..Len(Now.heap.syms) : null.heap.syms[s] = Now.heap.syms[s]
          /\ null.heap.syms[Len(Now.heap.syms) + 1] = Str(NextUid + 1)
      BY <1>7, <1>8, <1>9, <2>1, HeapIs, Appended
    <2>3. Str(NextUid + 1) \in ValueIn(u, Len(null.heap.boxes))
      BY <1>3 DEF ValueIn
    <2>4. Len(null.heap.boxes) = Len(Now.heap.boxes) /\ \A c \in 1..Len(Now.heap.boxes) : null.heap.boxes[c] = Now.heap.boxes[c]
      BY <1>8, <1>9, <2>1
    <2>5. live \subseteq Nodes
      BY DEF Parse, OwnershipInv, TypeOK
    <2> HIDE DEF u
    <2>6. QED
      BY <1>3, <1>7, <1>10, <1>11, <2>1, <2>2, <2>3, <2>4, <2>5, TypedNewSym
  <1> HIDE DEF u
  <1>13. Typed(w, u) /\ World(w)
    BY <1>2, <1>3, <1>10, <1>12, TypedAdd DEF Parse
  <1> HIDE DEF w
  <1>14. Len(body) + 1 <= Len(body') /\ u <= Len(body')
    BY <1>3 DEF u
  <1>15. QED
    BY <1>1, <1>3, <1>4, <1>5, <1>6, <1>13, <1>14, TypesBuilt

(* A step that writes down what an old node has.                           *)
LEMMA TypesWritten ==
  ASSUME Parse, NEW k, NEW e, Pops(k, e), NEW w, World(w), Typed(w, Len(body)), Leave(w),
         live' \subseteq live, UNCHANGED bad,
         NEW u, NEW x, u \in 1..Len(body) => x \in Seq(Meaning), body' = [body EXCEPT ![u] = x],
         NEW j \in Nat, Sym(j) # "BOTTOM", MeansTop(k, Top(j)),
         UNCHANGED <<roots, defs, current, returned, tokens>>,
         quirks' \subseteq quirks \cup {"overwritten"}
  PROVE  LoadTypes'
  <1> DEFINE S == Seq(Meaning)
             m == Top(j)
  <1>1. m \in Meaning
    BY TopMeans DEF Parse
  <1>2. body \in Seq(S)
    BY DEF Parse, LoadTypes
  <1> HIDE DEF S
  <1>3. body' \in Seq(S) /\ Len(body') = Len(body)
    <2>1. u \in 1..Len(body) => x \in S
      BY DEF S
    <2>2. body' = [body EXCEPT ![u] = x]
      OBVIOUS
    <2>3. QED
      BY ONLY <1>2, <2>1, <2>2, BodyEdited, Zenon
  <1>4. Meaning' = Meaning /\ Seq(Meaning') = S
    BY <1>3 DEF Meaning, S
  <1>5. /\ Typed(Now, Len(body))'
        /\ Len(heap.syms) <= Len(heap'.syms) /\ Len(heap.boxes) <= Len(heap'.boxes)
    BY <1>3, TypedLeave DEF Parse
  <1>6. World(Now)' /\ tokens' \in 0..MaxTokens /\ body' \in Seq(Seq(Meaning')) /\ m \in Meaning'
    BY <1>1, <1>3, <1>4 DEF Parse, PendingInv, LoadTypes
  <1>7. Len(body) <= Len(body')
    BY <1>3, WordLens DEF Parse
  <1> HIDE DEF m
  <1>8. MeansTop(k, m)
    BY DEF m
  <1>9. QED
    BY <1>5, <1>6, <1>7, <1>8, TypesTurn DEF Parse

LEMMA MoreSaid ==
  ASSUME Parse, NEW u, NEW m \in Meaning, u \in 1..Len(body)
  PROVE  Append(body[u], m) \in Seq(Meaning)
  BY WordLens, AppendFacts DEF Parse

LEMMA TypesItem ==
  ASSUME Parse, LoadItem
  PROVE  LoadTypes'
  <1> DEFINE e == stack[Depth - 1]
             n == Val(0)
             m == Val(1)
             u == content[m].uid
             x == Append(body[u], Top(0))
             w == AddNode(Now, n)
             items == Append(w.content[m].items, w.content[n].id)
             g == AddItem(w, m, w.content[n].id)
  <1>1. /\ Pops(2, e) /\ Sym(0) \in {"ATOM", "PAIR"} /\ Sym(1) = "SEQ"
        /\ live' \subseteq live /\ UNCHANGED bad
        /\ Leave(g) /\ MeansTop(2, Top(1)) /\ body' = [body EXCEPT ![u] = x]
        /\ UNCHANGED <<roots, defs, current, returned, tokens, quirks>>
    BY ReduceItemShape DEF LoadItem, ReduceItem, AddNodes, OwnershipInv, Parse
  <1>2. n \in live /\ n \in Nodes /\ m \in live /\ m \in Nodes /\ Top(0) \in Meaning
    BY <1>1, LiveTop, TopMeans DEF NodeSyms, Parse
  <1>3. u \in 1..Len(body) => x \in Seq(Meaning)
    BY <1>2, MoreSaid
  <1>4. Len(body) \in Nat
    BY WordLens DEF Parse
  <1> HIDE DEF n, m, e
  <1>5. Typed(w, Len(body)) /\ World(w) /\ w.content[n].id \in 1..Len(w.heap.syms)
    BY <1>2, <1>4, TypedAdd DEF Parse, LoadTypes, PendingInv
  <1>6. World(g) /\ g = SetItems(w, m, items)
    BY <1>2, <1>5, AddItemSound DEF AddItem
  <1> HIDE DEF w, u, x, items
  <1>7. Typed(g, Len(body))
    <2>1. live \subseteq Nodes
      BY DEF Parse, OwnershipInv, TypeOK
    <2> HIDE DEF g
    <2>2. QED
      BY <1>2, <1>5, <1>6, <2>1, TypedSet
  <1> HIDE DEF g
  <1>8. Sym(1) # "BOTTOM"
    BY <1>1
  <1>9. QED
    BY <1>1, <1>3, <1>6, <1>7, <1>8, TypesWritten

LEMMA TypesPair ==
  ASSUME Parse, LoadPair
  PROVE  LoadTypes'
  <1> DEFINE e == stack[Depth - 1]
             n == Val(0)
             m == Val(1)
             u == content[m].uid
             v == content[n].uid
             x == SaysSeq(m) \o body[v]
             w == ApplySeq(Now, m)
             items == w.content[m].items \o content[n].items
             g == SetItems(w, m, items)
  <1>1. /\ Pops(2, e) /\ Sym(0) = "PAIR" /\ Sym(1) \in {"MAP", "BMAP"}
        /\ live' \subseteq live /\ UNCHANGED bad
        /\ Leave(g) /\ MeansTop(2, Top(1)) /\ body' = [body EXCEPT ![u] = x]
        /\ UNCHANGED <<roots, defs, current, returned, tokens, quirks>>
    BY ReducePairShape DEF LoadPair, ReducePair, OwnershipInv, Parse
  <1>2. n \in live /\ n \in Nodes /\ m \in live /\ m \in Nodes
    BY <1>1, LiveTop DEF NodeSyms, Parse
  <1>3. x \in Seq(Meaning)
    <2>1. u \in 1..Len(body) /\ v \in 1..Len(body)
      BY <1>1, UidTop DEF NodeSyms
    <2>2. SaysSeq(m) \in Seq(Meaning) /\ body[v] \in Seq(Meaning)
      BY <1>2, <2>1, SaysSeqType, WordLens DEF Parse
    <2>3. QED
      BY <2>2
  <1>4. Len(body) \in Nat /\ content = Now.content
    BY WordLens DEF Parse, Now
  <1>5. Typed(Now, Len(body)) /\ World(Now)
    BY DEF Parse, LoadTypes, PendingInv
  <1> HIDE DEF n, m, e
  <1>6. Typed(w, Len(body)) /\ World(w)
    BY <1>2, <1>4, <1>5, TypedApply DEF Parse
  <1>7. Len(heap.syms) \in Nat /\ Len(w.heap.syms) \in Nat /\ Len(heap.syms) <= Len(w.heap.syms)
    BY <1>2, <1>5, ApplySeqSound, NowFacts DEF Parse, OwnershipInv
  <1>8. items \in Seq(1..Len(w.heap.syms))
    <2>1. content[n].items \in Seq(1..Len(heap.syms))
      BY <1>2, <1>5, NowFacts, ItemsFacts
    <2> HIDE DEF w
    <2>2. content[n].items \in Seq(1..Len(w.heap.syms))
      BY <1>7, <2>1, SeqGrows
    <2>3. w.content[m].items \in Seq(1..Len(w.heap.syms))
      BY <1>2, <1>6, ItemsFacts
    <2>4. QED
      BY <2>2, <2>3
  <1> HIDE DEF w, items, u, x
  <1>9. World(g)
    BY <1>2, <1>6, <1>8, SetItemsSound
  <1>10. live \subseteq Nodes
    BY DEF Parse, OwnershipInv, TypeOK
  <1>11. g = SetItems(w, m, items)
    OBVIOUS
  <1> HIDE DEF g
  <1>12. Typed(g, Len(body))
    BY <1>2, <1>6, <1>10, <1>11, TypedSet
  <1>13. Sym(1) # "BOTTOM"
    BY <1>1
  <1>14. QED
    BY <1>1, <1>3, <1>9, <1>12, <1>13, TypesWritten

LEMMA TypesCloseBlock ==
  ASSUME Parse, LoadCloseBlock
  PROVE  LoadTypes'
  <1> DEFINE e == [sym |-> "ATOM", val |-> Val(0)]
             m == Val(0)
             u == content[m].uid
             x == SaysSeq(m)
             w == ApplySeq(Now, m)
  <1>1. /\ Pops(2, e) /\ Sym(0) \in {"BMAP", "TMAP"}
        /\ live' \subseteq live /\ UNCHANGED bad
        /\ Leave(w) /\ MeansTop(2, Top(0)) /\ body' = [body EXCEPT ![u] = x]
        /\ UNCHANGED <<roots, defs, current, returned, tokens, quirks>>
    BY CloseBlockShape DEF LoadCloseBlock, CloseBlock, OwnershipInv, Parse
  <1>2. m \in live /\ m \in Nodes
    BY <1>1, LiveTop DEF NodeSyms, Parse
  <1>3. u \in 1..Len(body) => x \in Seq(Meaning)
    BY <1>2, SaysSeqType
  <1>4. Len(body) \in Nat /\ Typed(Now, Len(body)) /\ World(Now)
    BY WordLens DEF Parse, LoadTypes, PendingInv
  <1> HIDE DEF m, e
  <1>5. Typed(w, Len(body)) /\ World(w)
    BY <1>2, <1>4, TypedApply DEF Parse
  <1> HIDE DEF w, u, x
  <1>6. Sym(0) # "BOTTOM" /\ 0 \in Nat
    BY <1>1
  <1>7. QED
    BY <1>1, <1>3, <1>5, <1>6, TypesWritten

LEMMA TypesDash ==
  ASSUME Parse, LoadDash
  PROVE  LoadTypes'
  <1> DEFINE e == stack[Depth - 2]
             n == Val(0)
             s == shortcut[Val(2)]
             u == content[s].uid
             x == Append(body[u], Top(0))
             w == AddNode(Now, n)
             id == w.content[n].id
             node == NewNode("seq", NextUid, <<id>>)
             items == Append(w.content[s].items, id)
             g == AddItem(w, s, id)
  <1>1. /\ Pops(3, e) /\ Sym(0) = "ATOM" /\ Sym(2) = "BMAP"
        /\ UNCHANGED bad /\ MeansTop(3, Top(2))
        /\ UNCHANGED <<roots, defs, current, returned, tokens>>
        /\ quirks' \subseteq quirks \cup {"overwritten"}
    BY ReduceDashShape DEF LoadDash, ReduceDash, OwnershipInv, Parse
  <1>2. \/ /\ s = NONE /\ LeaveNew(w, node) /\ body' = Append(body, <<Top(0)>>)
           /\ CanAlloc /\ live' \subseteq live \cup {Fresh}
        \/ /\ s # NONE /\ Leave(g) /\ body' = [body EXCEPT ![u] = x]
           /\ live' \subseteq live
    BY DEF LoadDash, ReduceDash, AddNodes
  <1>3. /\ n \in live /\ n \in Nodes /\ Val(2) \in Nodes /\ Top(0) \in Meaning /\ Top(2) \in Meaning
        /\ Sym(2) # "BOTTOM" /\ live \subseteq Nodes
    BY <1>1, LiveTop, TopMeans DEF NodeSyms, Parse, OwnershipInv, TypeOK
  <1>4. Len(body) \in Nat /\ Typed(Now, Len(body)) /\ World(Now)
    BY WordLens DEF Parse, LoadTypes, PendingInv
  <1>5. s # NONE => s \in Nodes /\ u \in 1..Len(body)
    BY <1>3, UidWaiting
  <1>6. node.kind = "seq" /\ node.uid = NextUid
    BY DEF NewNode
  <1> HIDE DEF n, e, s
  <1>7. Typed(w, Len(body)) /\ World(w) /\ id \in 1..Len(w.heap.syms)
    BY <1>3, <1>4, TypedAdd DEF Parse
  <1> HIDE DEF node
  <1>8. CASE s = NONE /\ LeaveNew(w, node)
    <2> DEFINE m == Top(2)
    <2>1. /\ body' = Append(body, <<Top(0)>>) /\ CanAlloc /\ live' \subseteq live \cup {Fresh}
      BY <1>2, <1>8
    <2>2. Fresh \in Nodes \ live
      BY <1>3, <2>1, FreshIsDead
    <2>3. <<Top(0)>> \in Seq(Meaning)
      BY <1>3
    <2>4. /\ Len(body') = Len(body) + 1 /\ body' \in Seq(Seq(Meaning')) /\ Meaning \subseteq Meaning'
      BY <1>1, <2>1, <2>3, NewBody
    <2>5. m \in Meaning' /\ Len(body) + 1 <= Len(body') /\ Len(body) <= Len(body')
      BY <1>3, <1>4, <2>4
    <2>6. MeansTop(3, m)
      BY <1>1
    <2> HIDE DEF w, m
    <2>7. QED
      BY <1>1, <1>4, <1>6, <1>7, <1>8, <2>1, <2>2, <2>4, <2>5, <2>6, TypesBuilt
  <1>9. CASE s # NONE /\ Leave(g)
    <2>1. live' \subseteq live /\ body' = [body EXCEPT ![u] = x]
      BY <1>2, <1>9
    <2>2. x \in Seq(Meaning)
      BY <1>3, <1>5, <1>9, MoreSaid
    <2>3. World(g) /\ g = SetItems(w, s, items)
      BY <1>5, <1>7, <1>9, AddItemSound DEF AddItem
    <2> HIDE DEF w, id, items, g, u, x
    <2>4. Typed(g, Len(body))
      BY <1>3, <1>5, <1>7, <1>9, <2>3, TypedSet
    <2>5. QED
      BY <1>1, <1>3, <1>9, <2>1, <2>2, <2>3, <2>4, TypesWritten
  <1>10. QED
    BY <1>2, <1>8, <1>9

(* The document's end.                                                     *)
LEMMA TypesRoot ==
  ASSUME Parse, LoadRoot
  PROVE  LoadTypes'
  <1> DEFINE n == Val(0)
             w == AddNode(Now, n)
             root == [sym |-> w.content[n].id, aim |-> Top(0)]
  <1>1. /\ live' \subseteq live /\ UNCHANGED bad /\ stack' = <<>> /\ means' = <<>>
        /\ UNCHANGED <<tokens, defs, current, body, returned, quirks>>
        /\ \/ /\ Sym(0) = "ATOM" /\ Leave(w) /\ roots' = Append(roots, root)
           \/ UNCHANGED <<content, heap, roots, live>>
    <2>1. ReduceRoot /\ UNCHANGED <<tokens, defs, current, body, returned, quirks>> /\ means' = <<>>
      BY DEF LoadRoot
    <2>2. Depth = 1 \/ Depth = 0
      BY DEF LoadRoot
    <2>3. ReduceRoot => stack' = <<>> /\ UNCHANGED bad
      BY DEF ReduceRoot
    <2>4. CASE Depth = 1
      <3>1. Sym(0) = "ATOM" /\ live' \subseteq live
        BY <2>1, <2>4 DEF ReduceRoot, AddNodes
      <3>2. Leave(w) /\ roots' = Append(roots, root)
        BY <2>4 DEF LoadRoot
      <3>3. QED
        BY <2>1, <2>3, <3>1, <3>2
    <2>5. CASE Depth = 0
      <3>1. UNCHANGED live
        BY <2>1, <2>5 DEF ReduceRoot
      <3>2. UNCHANGED <<content, heap, roots>>
        BY <2>5 DEF LoadRoot
      <3>3. QED
        BY <2>1, <2>3, <3>1, <3>2
    <2>6. QED
      BY <2>2, <2>4, <2>5
  <1>2. Len(body) \in Nat /\ Typed(Now, Len(body)) /\ World(Now) /\ Meaning' = Meaning
    BY <1>1, WordLens DEF Parse, LoadTypes, PendingInv, Meaning
  <1>3. /\ Typed(Now, Len(body))'
        /\ Len(heap.syms) <= Len(heap'.syms) /\ Len(heap.boxes) <= Len(heap'.boxes)
        /\ roots' \in Seq([sym : 1..Len(heap'.syms), aim : Meaning])
    <2>1. CASE UNCHANGED <<content, heap, roots, live>>
      <3>1. /\ Typed(Now, Len(body))'
            /\ Len(heap.syms) <= Len(heap'.syms) /\ Len(heap.boxes) <= Len(heap'.boxes)
        BY <1>1, <2>1, TypesSame
      <3>2. QED
        BY <2>1, <3>1 DEF Parse, LoadTypes
    <2>2. CASE Sym(0) = "ATOM" /\ Leave(w) /\ roots' = Append(roots, root)
      <3>1. n \in live /\ Top(0) \in Meaning
        BY <2>2, LiveTop, TopMeans DEF NodeSyms, Parse
      <3> HIDE DEF n
      <3>2. Typed(w, Len(body)) /\ World(w) /\ w.content[n].id \in 1..Len(w.heap.syms)
        BY <1>2, <3>1, TypedAdd DEF Parse
      <3>3. heap' = w.heap
        BY <2>2 DEF Leave
      <3> HIDE DEF w
      <3>4. /\ Typed(Now, Len(body))'
            /\ Len(heap.syms) <= Len(heap'.syms) /\ Len(heap.boxes) <= Len(heap'.boxes)
        BY <1>1, <2>2, <3>2, TypedLeave DEF Parse
      <3> DEFINE S == [sym : 1..Len(heap'.syms), aim : Meaning]
      <3>5. root \in S
        BY <3>1, <3>2, <3>3
      <3>6. roots \in Seq(S)
        <4>1. Len(heap.syms) \in Nat /\ Len(heap'.syms) \in Nat
          BY <1>2, <3>2, <3>3, HeapIs DEF World, HeapSound, Now
        <4>2. 1..Len(heap.syms) \subseteq 1..Len(heap'.syms)
          BY <3>4, <4>1
        <4>3. [sym : 1..Len(heap.syms), aim : Meaning] \subseteq S
          BY <4>2
        <4> HIDE DEF S
        <4>4. QED
          BY <4>3, SeqMono DEF Parse, LoadTypes
      <3> HIDE DEF S, root
      <3>7. roots' \in Seq(S)
        BY <2>2, <3>5, <3>6, AppendFacts
      <3>8. QED
        BY <3>4, <3>7 DEF S
    <2>3. QED
      BY <1>1, <2>1, <2>2
  <1>4. Len(heap.boxes) \in Nat /\ Len(heap'.boxes) \in Nat
    <2>1. World(Now) /\ World(Now)' /\ Now.heap = heap
      BY DEF Parse, PendingInv, Now
    <2>2. HeapSound(heap) /\ HeapSound(heap')
      BY DEF World, Now, Parse, PendingInv
    <2>3. QED
      BY <2>2, HeapIs DEF HeapSound
  <1>5. returned' \in 0..Len(heap'.boxes)
    BY <1>1, <1>3, <1>4 DEF Parse, LoadTypes
  <1>6. means' \in Seq(Meaning') /\ Len(means') = Depth'
    <2>1. <<>> \in Seq(Meaning')
      OBVIOUS
    <2>2. Len(<<>>) = 0
      OBVIOUS
    <2>3. stack' = <<>> /\ means' = <<>>
      BY <1>1
    <2>4. QED
      BY ONLY <2>1, <2>2, <2>3 DEF Depth
  <1>7. QED
    BY <1>1, <1>2, <1>3, <1>5, <1>6 DEF Parse, LoadTypes

-----------------------------------------------------------------------------
(* The steps that say which node a name stands for.                        *)

LEMMA TypesAnchor ==
  ASSUME Parse, NEW a \in Names, LoadAnchor(a)
  PROVE  LoadTypes'
  <1> DEFINE e == [sym |-> "ANCHOR", val |-> a]
             d == Len(defs')
             m == Def(d)
  <1>1. /\ Pops(0, e) /\ UNCHANGED <<live, bad, content, heap, roots, body, returned>>
        /\ defs' = Append(defs, Nothing(a)) /\ current' = [current EXCEPT ![a] = d]
        /\ MeansTop(0, m) /\ tokens' \in 0..MaxTokens
        /\ quirks' \subseteq quirks \cup {"nested", "redefined"}
    BY ShiftAnchorShape, LoadAssumption
    DEF LoadAnchor, ShiftAnchor, OwnershipInv, Parse, Read, LoadTypes
  <1>2. Len(body) \in Nat /\ Len(defs) \in Nat /\ Len(defs') = Len(defs) + 1 /\ Len(body') = Len(body)
    BY <1>1, WordLens, AppendFacts DEF Parse, LoadTypes
  <1>3. Nothing(a) \in Meaning' /\ m \in Meaning'
    BY <1>2 DEF Meaning
  <1>4. defs \in Seq(Meaning') /\ body' \in Seq(Seq(Meaning'))
    BY <1>1, <1>2, WordsGrow DEF Parse
  <1>5. defs' \in Seq(Meaning')
    BY <1>1, <1>3, <1>4, AppendFacts
  <1>6. current' \in [Names -> 0..Len(defs')]
    <2>1. 0..Len(defs) \subseteq 0..Len(defs') /\ Len(defs') \in 0..Len(defs')
      BY <1>2
    <2>2. QED
      BY <1>1, <2>1 DEF Parse, LoadTypes
  <1>7. /\ Typed(Now, Len(body))'
        /\ Len(heap.syms) <= Len(heap'.syms) /\ Len(heap.boxes) <= Len(heap'.boxes)
    BY <1>1, TypesSame
  <1>8. Len(defs) <= Len(defs') /\ Len(body) <= Len(body') /\ World(Now)'
    BY <1>2 DEF Parse, PendingInv
  <1> HIDE DEF e, m, d
  <1>9. QED
    BY <1>1, <1>3, <1>4, <1>5, <1>6, <1>7, <1>8, WordsTurn DEF Parse

LEMMA TypesAlias ==
  ASSUME Parse, NEW a \in Names, LoadAlias(a)
  PROVE  LoadTypes'
  <1>1. PICK n \in Nodes : GetAnchor(a, n) /\ Pops(0, [sym |-> "ATOM", val |-> n])
    BY ShiftAliasShape DEF LoadAlias, OwnershipInv, Parse
  <1> DEFINE e == [sym |-> "ATOM", val |-> n]
             node == NewNode("bad", 0, <<>>)
             m == IF current[a] = 0 THEN Nothing(a) ELSE Def(current[a])
  <1>2. /\ Pops(0, e) /\ UNCHANGED <<heap, roots, defs, current, body, returned>>
        /\ content' = [i \in Nodes |-> IF i \in live' \ live THEN node ELSE content[i]]
        /\ MeansTop(0, m) /\ tokens' \in 0..MaxTokens
        /\ quirks' \subseteq quirks \cup {"undefined"}
    BY <1>1, LoadAssumption DEF LoadAlias, Parse, Read, LoadTypes
  <1>3. m \in Meaning
    BY DEF Meaning, Parse, LoadTypes
  <1>4. /\ Len(body) \in Nat /\ live \subseteq Nodes /\ bad \subseteq live
        /\ Typed(Now, Len(body)) /\ World(Now) /\ Now.content = content /\ Now.heap = heap
    BY WordLens DEF Parse, OwnershipInv, TypeOK, LoadTypes, PendingInv, Now, TablesSound
  <1>5. /\ \A i \in live' \ live : i \in bad'
        /\ \A i \in live \cap live' : i \in bad' <=> i \in bad
    <2>1. CanAlloc => Fresh \in Nodes \ live
      BY <1>4, FreshIsDead
    <2>2. \/ UNCHANGED <<live, bad>>
          \/ CanAlloc /\ n = Fresh /\ live' = live \cup {n} /\ bad' = bad \cup {n}
      BY <1>1 DEF GetAnchor
    <2>3. QED
      BY <2>1, <2>2
  <1>6. node.uid = 0
    BY DEF NewNode
  <1> HIDE DEF node, e
  <1>7. \A i \in Nodes : content'[i].uid \in 0..Len(body)
    <2>1. \A i \in Nodes : content[i].uid \in 0..Len(body)
      BY <1>4 DEF Typed
    <2>2. QED
      BY <1>2, <1>4, <1>6, <2>1
  <1>8. \A i \in live \cap live' : content'[i] = content[i]
    BY <1>2, <1>4
  <1>9. /\ Typed(Now, Len(body))'
        /\ Len(heap.syms) <= Len(heap'.syms) /\ Len(heap.boxes) <= Len(heap'.boxes)
    BY <1>2, <1>4, <1>5, <1>7, <1>8, TypedStep DEF Parse
  <1>10. Meaning' = Meaning
    BY <1>2 DEF Meaning
  <1>11. /\ m \in Meaning' /\ Len(body) <= Len(body') /\ body' \in Seq(Seq(Meaning')) /\ World(Now)'
    BY <1>2, <1>3, <1>4, <1>10 DEF Parse, LoadTypes, PendingInv
  <1> HIDE DEF m
  <1>12. QED
    BY <1>2, <1>9, <1>11, TypesTurn DEF Parse

(* A box of which the stand-ins for a refer to box b.                      *)
Redirected(a, b, box, new) ==
  /\ new.of = box.of /\ Len(new.vals) = Len(box.vals)
  /\ \A i \in 1..Len(box.vals) :
       new.vals[i] = IF box.vals[i] = Bad(a) THEN Ref(b) ELSE box.vals[i]

(* A circular node: the symbol of its stand-in, the cells noted under its  *)
(* name, and its own, refer to its box, the last one.                      *)
LEMMA CircularCells ==
  ASSUME NEW h, HeapSound(h), NEW n, n \notin bad,
         NEW node \in NodeType(Len(h.syms)), node.id # 0, node.kind # "str",
         NEW a \in Names, NEW g, g = Handle(h, n, node, a), NEW b, b = Len(h.boxes) + 1
  PROVE  /\ Len(h.syms) \in Nat /\ Len(h.boxes) \in Nat /\ node.id \in 1..Len(h.syms)
         /\ Len(g.syms) = Len(h.syms) + 1 /\ Len(g.boxes) = b
         /\ g.syms[node.id] = Ref(b) /\ g.syms[Len(h.syms) + 1] = Ref(b)
         /\ \A s \in 1..Len(h.syms) : s # node.id => g.syms[s] = h.syms[s]
         /\ \A c \in 1..Len(h.boxes) : Redirected(a, b, h.boxes[c], g.boxes[c])
         /\ g.boxes[b].of = node.uid /\ Len(g.boxes[b].vals) = Len(node.items)
         /\ \A i \in 1..Len(node.items) :
              /\ node.items[i] \in 1..Len(h.syms)
              /\ g.boxes[b].vals[i] =
                   IF h.syms[node.items[i]] = Bad(a) THEN Ref(b) ELSE h.syms[node.items[i]]
  <1> DEFINE built == Build(h, node)
             id == node.id
             box == BoxOf(h, node)
             done == Resolve(built, a, id, b)
  <1>1. /\ IsSeq(h.syms) /\ IsSeq(h.boxes) /\ Len(h.syms) \in Nat /\ Len(h.boxes) \in Nat
        /\ id \in 1..Len(h.syms) /\ h \in HeapType /\ Exact(h)
    BY HeapIs DEF HeapSound, NodeType
  <1>2. /\ built.syms = h.syms /\ built.boxes = Append(h.boxes, box)
        /\ HeapSound(built) /\ built \in HeapType /\ Exact(built)
    BY BuildIs, BuildSound DEF HeapSound
  <1>3. /\ Len(built.boxes) = b /\ b \in Nat /\ built.boxes[b] = box /\ b \in 1..b
        /\ \A c \in 1..Len(h.boxes) : built.boxes[c] = h.boxes[c] /\ c \in 1..b
    BY <1>1, <1>2, Appended
  <1>4. g = AddSym(done, Ref(b))
    BY <1>3 DEF Handle
  <1>5. /\ box.of = node.uid /\ Len(box.vals) = Len(node.items) /\ Len(node.items) \in Nat
        /\ \A i \in 1..Len(node.items) : /\ node.items[i] \in 1..Len(h.syms)
                                         /\ box.vals[i] = h.syms[node.items[i]]
    <2> HIDE DEF box
    <2>1. box = BoxOf(h, node) /\ node \in NodeType(Len(h.syms))
      BY DEF box
    <2>2. QED
      BY ONLY <1>1, <2>1, BoxOfIs
  <1> HIDE DEF built, box
  <1>6. id \in 1..Len(built.syms) /\ id \in Nat
    BY <1>1, <1>2
  <1>7. /\ done \in HeapType /\ Len(done.syms) = Len(h.syms) /\ Len(done.boxes) = b
        /\ done.syms[id] = Ref(b)
        /\ \A s \in 1..Len(h.syms) : s # id => done.syms[s] = h.syms[s]
    <2>1. done = Resolve(built, a, id, b)
      OBVIOUS
    <2>2. HeapSound(done)
      BY ONLY <1>2, <1>3, <1>6, a \in Names, <2>1, ResolveSound
    <2> HIDE DEF done, id
    <2>3. Len(done.syms) = Len(built.syms) /\ Len(done.boxes) = Len(built.boxes)
      BY ONLY <1>2, <1>3, <1>6, a \in Names, <2>1, ResolveIs
    <2>4. done.syms[id] = Ref(b)
      BY ONLY <1>2, <1>3, <1>6, a \in Names, <2>1, ResolveIs
    <2>5. \A s \in 1..Len(built.syms) : s # id => done.syms[s] = built.syms[s]
      BY ONLY <1>2, <1>3, <1>6, a \in Names, <2>1, ResolveIs
    <2>6. QED
      BY <1>2, <1>3, <2>2, <2>3, <2>4, <2>5 DEF HeapSound
  <1>8. ASSUME NEW c \in 1..b
        PROVE  Redirected(a, b, built.boxes[c], done.boxes[c])
    <2>1. done.boxes = Patched(built, a, b)
      BY DEF Resolve
    <2>2. PatchedBox(built, a, b, c)
      BY <1>2, <1>3, PatchedCells
    <2>3. Patched(built, a, b)[c].of = built.boxes[c].of
      <3>1. DOMAIN built.boxes = 1..b
        BY <1>2, <1>3 DEF HeapType
      <3>2. QED
        BY <3>1 DEF Patched
    <2>4. ASSUME NEW i \in 1..Len(built.boxes[c].vals)
          PROVE  <<c, i>> \in built.pending[a] <=> built.boxes[c].vals[i] = Bad(a)
      <3>1. built.pending[a] = Cells(built, Bad(a))
        BY <1>2 DEF Exact
      <3>2. <<c, i>> \in Cells(built, Bad(a)) <=> InCell(built, Bad(a), <<c, i>>)
        BY <1>2, CellsMember
      <3>3. InCell(built, Bad(a), <<c, i>>) <=> built.boxes[c].vals[i] = Bad(a)
        BY <1>3 DEF InCell
      <3>4. QED
        BY <3>1, <3>2, <3>3
    <2> HIDE DEF done
    <2>5. QED
      BY <2>1, <2>2, <2>3, <2>4 DEF PatchedBox, Redirected
  <1> HIDE DEF done
  <1>9. g.syms = Append(done.syms, Ref(b)) /\ g.boxes = done.boxes
    BY <1>4, <1>7, AddSymIs
  <1>10. /\ Len(g.syms) = Len(h.syms) + 1 /\ g.syms[Len(h.syms) + 1] = Ref(b)
         /\ \A s \in 1..Len(h.syms) : g.syms[s] = done.syms[s]
    BY <1>7, <1>9, HeapIs, Appended
  <1>11. ASSUME NEW c \in 1..Len(h.boxes)
         PROVE  Redirected(a, b, h.boxes[c], g.boxes[c])
    <2>1. c \in 1..b /\ built.boxes[c] = h.boxes[c] /\ g.boxes[c] = done.boxes[c]
      BY <1>3, <1>9
    <2>2. Redirected(a, b, built.boxes[c], done.boxes[c])
      BY <1>8, <2>1
    <2>3. QED
      BY ONLY <2>1, <2>2
  <1>12. /\ g.boxes[b].of = node.uid /\ Len(g.boxes[b].vals) = Len(node.items)
         /\ \A i \in 1..Len(node.items) :
              /\ node.items[i] \in 1..Len(h.syms)
              /\ g.boxes[b].vals[i] =
                   IF h.syms[node.items[i]] = Bad(a) THEN Ref(b) ELSE h.syms[node.items[i]]
    <2>1. b \in 1..b /\ built.boxes[b] = box /\ g.boxes[b] = done.boxes[b]
      BY <1>3, <1>9
    <2>2. Redirected(a, b, built.boxes[b], done.boxes[b])
      BY <1>8, <2>1
    <2>3. QED
      BY ONLY <1>5, <2>1, <2>2 DEF Redirected
  <1>13. g.syms[id] = Ref(b) /\ \A s \in 1..Len(h.syms) : s # id => g.syms[s] = h.syms[s]
    BY <1>1, <1>7, <1>10
  <1>14. Len(g.boxes) = b
    BY <1>7, <1>9
  <1>15. QED
    BY <1>1, <1>10, <1>11, <1>12, <1>13, <1>14

LEMMA TypedCircular ==
  ASSUME Parse, NEW a \in Names, NEW n \in live, NEW other \in Nodes, content[n].kind # "str",
         NEW node, node = [content[n] EXCEPT !.id = content[other].id],
         NEW w, w = [heap |-> Handle(heap, n, node, a), content |-> [content EXCEPT ![n] = node]]
  PROVE  Typed(w, Len(body)) /\ World(w)
  <1> DEFINE u == Len(body)
  <1>1. /\ n \in Nodes /\ PendingInv /\ OwnershipInv /\ Typed(Now, u) /\ u \in Nat /\ World(Now)
        /\ Now.heap = heap /\ Now.content = content /\ live \subseteq Nodes /\ ~croaked
    BY WordLens DEF Parse, OwnershipInv, TypeOK, PendingInv, LoadTypes, Now
  <1>2. node \in NodeType(Len(heap.syms)) /\ World(w)
    BY <1>1, CircularWorld
  <1>3. HeapSound(heap) /\ heap \in HeapType /\ Len(heap.syms) \in Nat /\ Len(heap.boxes) \in Nat
    BY <1>1, NowFacts, NowLens
  <1>4. content \in [Nodes -> NodeType(Len(heap.syms))]
    BY <1>1, NowFacts
  <1>5. w.heap = Handle(heap, n, node, a) /\ w.content = [content EXCEPT ![n] = node]
    OBVIOUS
  <1>6. node.kind = content[n].kind /\ node.uid = content[n].uid /\ node.items = content[n].items
    <2>1. content[n] \in NodeType(Len(heap.syms))
      BY <1>1, <1>4
    <2>2. QED
      BY <2>1 DEF NodeType
  <1>7. \A m \in Nodes : w.content[m].kind = content[m].kind /\ w.content[m].uid = content[m].uid
    BY <1>4, <1>5, <1>6
  <1>8. n \notin bad => node.kind \in {"seq", "map"} /\ node.uid \in 1..u
    BY <1>1, <1>6 DEF Typed
  <1> HIDE DEF u
  <1>9. CASE n \in bad \/ node.id = 0
    <2>1. FirstTime(heap, n, node, a, w.heap)
      <3>1. CASE node.id = 0
        BY <1>2, <1>3, <1>5, <3>1, HandleIs
      <3>2. CASE n \in bad
        <4>1. w.heap = AddSym(heap, Bad(a))
          BY <1>5, <3>2 DEF Handle
        <4>2. QED
          BY <1>3, <3>2, <4>1, AddSymIs DEF FirstTime
      <3>3. QED
        BY <1>9, <3>1, <3>2
    <2>2. /\ node \in NodeType(Len(Now.heap.syms)) /\ FirstTime(Now.heap, n, node, a, w.heap)
          /\ \A m \in Nodes : w.content[m].kind = Now.content[m].kind /\ w.content[m].uid = Now.content[m].uid
      BY <1>1, <1>2, <1>7, <2>1
    <2>3. n \notin bad => node.kind \in {"str", "seq", "map"} /\ node.uid \in 1..u
      BY <1>8
    <2>4. n \in bad => a \in Names
      OBVIOUS
    <2>5. Typed(w, u)
      BY ONLY <1>1, <1>2, <2>2, <2>3, <2>4, TypedFirst
    <2>6. QED
      BY <1>2, <2>5 DEF u
  <1>10. CASE n \notin bad /\ node.id # 0
    <2> DEFINE b == Len(heap.boxes) + 1
               g == w.heap
               i == node.id
    <2>1. HeapSound(heap) /\ n \notin bad /\ node \in NodeType(Len(heap.syms)) /\ node.id # 0
      BY <1>2, <1>3, <1>10
    <2>2. node.kind # "str" /\ g = Handle(heap, n, node, a)
      BY <1>5, <1>6
    <2>3. b = Len(heap.boxes) + 1
      OBVIOUS
    <2> HIDE DEF g, b
    <2>4. /\ node.id \in 1..Len(heap.syms)
          /\ Len(g.syms) = Len(heap.syms) + 1 /\ Len(g.boxes) = b
          /\ g.syms[node.id] = Ref(b) /\ g.syms[Len(heap.syms) + 1] = Ref(b)
          /\ \A s \in 1..Len(heap.syms) : s # node.id => g.syms[s] = heap.syms[s]
      BY ONLY <2>1, <2>2, <2>3, a \in Names, CircularCells
    <2>5. \A c \in 1..Len(heap.boxes) : Redirected(a, b, heap.boxes[c], g.boxes[c])
      BY ONLY <2>1, <2>2, <2>3, a \in Names, CircularCells
    <2>6. /\ g.boxes[b].of = node.uid /\ Len(g.boxes[b].vals) = Len(node.items)
          /\ \A j \in 1..Len(node.items) :
              /\ node.items[j] \in 1..Len(heap.syms)
              /\ g.boxes[b].vals[j] =
                   IF heap.syms[node.items[j]] = Bad(a) THEN Ref(b) ELSE heap.syms[node.items[j]]
      BY ONLY <2>1, <2>2, <2>3, a \in Names, CircularCells
    <2>7. b \in Nat /\ b \in 1..b /\ Len(heap.boxes) <= b /\ Len(heap.syms) <= Len(g.syms)
      BY <1>3, <2>3, <2>4
    <2>8. Ref(b) \in ValueIn(u, b) /\ ValueIn(u, Len(heap.boxes)) \subseteq ValueIn(u, b)
      BY <1>1, <1>3, <2>7, ValuesGrow DEF ValueIn
    <2>9. /\ \A s \in 1..Len(heap.syms) : heap.syms[s] \in ValueIn(u, b)
          /\ \A c \in 1..Len(heap.boxes) :
               /\ heap.boxes[c].of \in 1..u
               /\ \A j \in 1..Len(heap.boxes[c].vals) : heap.boxes[c].vals[j] \in ValueIn(u, b)
          /\ \A m \in Nodes : content[m].uid \in 0..u
          /\ \A m \in live : m \notin bad => content[m].kind \in {"str", "seq", "map"} /\ content[m].uid \in 1..u
      BY <1>1, <2>8 DEF Typed
    <2>10. \A s \in 1..Len(g.syms) : g.syms[s] \in ValueIn(u, b)
      <3>1. \A s \in 1..Len(g.syms) : s \in 1..Len(heap.syms) \/ s = Len(heap.syms) + 1
        BY <1>3, <2>4
      <3>2. QED
        BY <2>4, <2>8, <2>9, <3>1
    <2>11. ASSUME NEW c \in 1..Len(g.boxes)
           PROVE  /\ g.boxes[c].of \in 1..u
                  /\ \A j \in 1..Len(g.boxes[c].vals) : g.boxes[c].vals[j] \in ValueIn(u, b)
      <3>1. c \in 1..Len(heap.boxes) \/ c = b
        BY <1>3, <2>3, <2>4
      <3>2. CASE c \in 1..Len(heap.boxes)
        BY <2>5, <2>8, <2>9, <3>2 DEF Redirected
      <3>3. CASE c = b
        <4>1. node.uid \in 1..u
          BY <1>8, <1>10
        <4>2. QED
          BY <2>6, <2>8, <2>9, <3>3, <4>1
      <3>4. QED
        BY <3>1, <3>2, <3>3
    <2>12. Typed(w, u)
      <3>1. g = w.heap /\ \A m \in Nodes : w.content[m].uid \in 0..u
        BY <1>7, <2>9 DEF g
      <3>2. \A m \in live : m \notin bad => w.content[m].kind \in {"str", "seq", "map"} /\ w.content[m].uid \in 1..u
        BY <1>1, <1>7, <2>9
      <3>3. Len(heap.syms) <= Len(w.heap.syms) /\ Len(heap.boxes) <= Len(w.heap.boxes) /\ Len(w.heap.boxes) = b
        BY <2>4, <2>7, <3>1
      <3>4. /\ \A s \in 1..Len(w.heap.syms) : w.heap.syms[s] \in ValueIn(u, Len(w.heap.boxes))
            /\ \A c \in 1..Len(w.heap.boxes) :
                 /\ w.heap.boxes[c].of \in 1..u
                 /\ \A j \in 1..Len(w.heap.boxes[c].vals) :
                      w.heap.boxes[c].vals[j] \in ValueIn(u, Len(w.heap.boxes))
        <4>1. w.heap = g
          BY <3>1
        <4>2. /\ \A s \in 1..Len(g.syms) : g.syms[s] \in ValueIn(u, Len(g.boxes))
              /\ \A c \in 1..Len(g.boxes) :
                   /\ g.boxes[c].of \in 1..u
                   /\ \A j \in 1..Len(g.boxes[c].vals) : g.boxes[c].vals[j] \in ValueIn(u, Len(g.boxes))
          <5>1. Len(g.boxes) = b
            BY <2>4
          <5>2. QED
            BY <2>10, <2>11, <5>1
        <4>3. QED
          BY ONLY <4>1, <4>2
      <3>5. QED
        BY ONLY <3>1, <3>2, <3>3, <3>4 DEF Typed
    <2>13. QED
      BY <1>2, <2>12 DEF u
  <1>11. QED
    BY <1>9, <1>10

LEMMA DefsEdited ==
  ASSUME NEW S, defs \in Seq(S), NEW d, NEW m \in S, defs' = [defs EXCEPT ![d] = m]
  PROVE  /\ defs' \in Seq(S) /\ Len(defs') = Len(defs) /\ Len(defs) \in Nat
         /\ \A i \in 1..Len(defs) : defs'[i] = IF i = d THEN m ELSE defs[i]
  <1>1. DOMAIN defs = 1..Len(defs) /\ Len(defs) \in Nat /\ \A i \in 1..Len(defs) : defs[i] \in S
    OBVIOUS
  <1>2. \A i \in 1..Len(defs) : defs'[i] = IF i = d THEN m ELSE defs[i]
    BY <1>1
  <1>3. defs' = [i \in 1..Len(defs) |-> defs'[i]]
    BY <1>1
  <1>4. \A i \in 1..Len(defs) : defs'[i] \in S
    BY <1>1, <1>2
  <1>5. defs' \in [1..Len(defs) -> S]
    BY <1>3, <1>4
  <1>6. QED
    BY <1>1, <1>2, <1>5

LEMMA TypesReduceAnchor ==
  ASSUME Parse, LoadReduceAnchor
  PROVE  LoadTypes'
  <1> DEFINE n == Val(0)
             a == Val(1)
             d == Top(1)[2]
             m == Top(0)
             o == badAnchors[a]
             e == [sym |-> Sym(0), val |-> Val(0)]
             node == [content[n] EXCEPT !.id = content[o].id]
             w == [heap |-> Handle(heap, n, node, a), content |-> [content EXCEPT ![n] = node]]
  <1>1. /\ n \in Nodes /\ a \in Names /\ Sym(0) \in {"ATOM", "TMAP"} /\ Pops(2, e)
        /\ UNCHANGED <<live, bad>> /\ UNCHANGED <<roots, current, body, returned, tokens>>
        /\ defs' = [defs EXCEPT ![d] = m] /\ MeansTop(2, m)
    BY ReduceAnchorShape DEF LoadReduceAnchor, ReduceAnchor, OwnershipInv, Parse
  <1>2. \/ o # NONE /\ content[n].kind # "str" /\ Leave(w)
        \/ UNCHANGED <<content, heap>>
    BY DEF LoadReduceAnchor
  <1>3. quirks' \subseteq quirks \cup {"doubled", "aliased", "shortcut"}
    BY DEF LoadReduceAnchor
  <1>4. n \in live /\ m \in Meaning /\ Len(body) \in Nat
    BY <1>1, LiveTop, TopMeans, WordLens DEF NodeSyms, Parse
  <1>5. o # NONE => o \in Nodes
    BY <1>1 DEF Parse, OwnershipInv, TypeOK
  <1> HIDE DEF n, a, o, d, m, e
  <1>6. defs' \in Seq(Meaning) /\ Len(defs') = Len(defs) /\ Len(defs) \in Nat
    <2> DEFINE S == Meaning
    <2>1. defs \in Seq(S) /\ m \in S
      BY <1>4 DEF Parse, LoadTypes
    <2> HIDE DEF S
    <2>2. defs' = [defs EXCEPT ![d] = m]
      BY <1>1
    <2>3. defs' \in Seq(S) /\ Len(defs') = Len(defs) /\ Len(defs) \in Nat
      BY ONLY <2>1, <2>2, DefsEdited, Zenon
    <2>4. QED
      BY <2>3 DEF S
  <1>7. /\ Typed(Now, Len(body))'
        /\ Len(heap.syms) <= Len(heap'.syms) /\ Len(heap.boxes) <= Len(heap'.boxes)
    <2>1. CASE o # NONE /\ content[n].kind # "str" /\ Leave(w)
      <3>1. o \in Nodes
        BY <1>5, <2>1
      <3>2. Typed(w, Len(body)) /\ World(w)
        BY <1>1, <1>4, <2>1, <3>1, TypedCircular
      <3> HIDE DEF w
      <3>3. QED
        BY <1>1, <2>1, <3>2, TypedLeave DEF Parse
    <2>2. CASE UNCHANGED <<content, heap>>
      BY <1>1, <2>2, TypesSame
    <2>3. QED
      BY <1>2, <2>1, <2>2
  <1>8. Meaning' = Meaning
    BY <1>1, <1>6 DEF Meaning
  <1>9. /\ m \in Meaning' /\ Len(body) <= Len(body') /\ body' \in Seq(Seq(Meaning'))
        /\ Len(defs) <= Len(defs') /\ defs' \in Seq(Meaning') /\ current' \in [Names -> 0..Len(defs')]
        /\ World(Now)' /\ tokens' \in 0..MaxTokens
    BY <1>1, <1>4, <1>6, <1>8 DEF Parse, LoadTypes, PendingInv
  <1>10. QED
    BY <1>1, <1>3, <1>7, <1>9, WordsTurn DEF Parse

-----------------------------------------------------------------------------
(* Every step.                                                             *)

(* Between documents, and when a parse is given up.                        *)
LEMMA TypesForget ==
  ASSUME OwnershipInv, OwnershipInv', PendingInv, PendingInv', Accounted, LoadTypes,
         LoadNextDocument \/ LoadFree \/ LoadCroak
  PROVE  LoadTypes'
  <1>1. /\ Forget /\ UNCHANGED heap
        /\ content' = [n \in Nodes |-> Blank] /\ UNCHANGED <<roots, defs, body, tokens, quirks>>
        /\ returned' = Len(heap.boxes) \/ returned' = returned
        /\ current' = [a \in Names |-> 0] \/ current' = current
        /\ \/ stack' = stack /\ means' = means
           \/ stack' = <<>> /\ means' = <<>>
    BY DEF LoadNextDocument, LoadFree, LoadCroak, Forget, NextDocument, FreeParser, Croak
  <1>2. Len(body) \in Nat /\ Len(defs) \in Nat /\ Len(heap.boxes) \in Nat /\ Len(heap.syms) \in Nat
    BY WordLens, NowLens
  <1>3. \A n \in Nodes : content'[n].uid = 0
    BY <1>1 DEF Blank
  <1>4. ~croaked' => live' \subseteq bad'
    <2>1. CASE LoadCroak
      BY <2>1 DEF LoadCroak, Croak
    <2>2. CASE LoadNextDocument \/ LoadFree
      <3>1. StFree /\ stack = <<>> /\ UNCHANGED croaked
        BY <2>2 DEF LoadNextDocument, LoadFree, NextDocument, FreeParser, OwnershipInv, PhaseSound
      <3>2. Places = {}
        <4>1. DOMAIN stack = {}
          BY <3>1, SeqFacts
        <4>2. QED
          BY <4>1 DEF Places
      <3>3. ~croaked => live \subseteq Filed \cup bad
        BY <3>2, NothingLoose DEF Accounted, FilingSound
      <3>4. QED
        BY <3>1, <3>3 DEF StFree
    <2>3. QED
      BY <2>1, <2>2
  <1>5. Typed(Now, Len(body))'
    <2>1. Now'.heap = heap /\ Now'.content = content' /\ Now.heap = heap /\ heap' = heap /\ body' = body
      BY <1>1 DEF Now
    <2>2. Typed(Now, Len(body))
      BY DEF LoadTypes
    <2>3. \A n \in Nodes : content'[n].uid \in 0..Len(body)
      BY <1>2, <1>3
    <2>4. QED
      BY <1>2, <1>4, <2>1, <2>2, <2>3 DEF Typed
  <1>6. Meaning' = Meaning
    BY <1>1 DEF Meaning
  <1>7. means' \in Seq(Meaning) /\ Len(means') = Depth'
    <2>1. CASE stack' = stack /\ means' = means
      BY <2>1 DEF LoadTypes, Depth
    <2>2. CASE stack' = <<>> /\ means' = <<>>
      <3>1. <<>> \in Seq(Meaning) /\ Len(<<>>) = 0
        OBVIOUS
      <3>2. QED
        BY <2>2, <3>1 DEF Depth
    <2>3. QED
      BY <1>1, <2>1, <2>2
  <1>8. current' \in [Names -> 0..Len(defs)] /\ returned' \in 0..Len(heap.boxes)
    <2>1. 0 \in 0..Len(defs) /\ Len(heap.boxes) \in 0..Len(heap.boxes)
      BY <1>2
    <2>2. QED
      BY <1>1, <2>1 DEF LoadTypes
  <1>9. QED
    BY <1>1, <1>5, <1>6, <1>7, <1>8 DEF LoadTypes

LEMMA TypesStep ==
  ASSUME OwnershipInv, OwnershipInv', PendingInv, PendingInv', Accounted, LoadTypes,
         [LoadNext]_<<vars, loadVars>>
  PROVE  LoadTypes'
  <1>1. CASE UNCHANGED <<vars, loadVars>>
    <2>1. UNCHANGED <<stack, live, bad, croaked, content, heap, roots, defs, current, means, body, returned,
                      tokens, quirks>>
      BY <1>1 DEF vars, loadVars
    <2>2. Meaning' = Meaning /\ Depth' = Depth /\ Now' = Now
      BY <2>1 DEF Meaning, Depth, Now
    <2>3. Typed(Now, Len(body))'
      BY <2>1, <2>2 DEF LoadTypes, Typed, ValueIn
    <2>4. QED
      BY <2>1, <2>2, <2>3 DEF LoadTypes
  <1>2. CASE Handles
    <2>1. phase = "parse" /\ UNCHANGED croaked
      BY <1>2, HandlesFacts
    <2>2. Parse
      BY <2>1 DEF Parse, OwnershipInv, PhaseSound
    <2>3. QED
      BY <1>2, <2>2, TypesAnchor, TypesAlias, TypesScalar, TypesMark, TypesRename, TypesClose,
         TypesReduceAnchor, TypesFirstItem, TypesItem, TypesMapping, TypesLoneKey, TypesPair, TypesDash,
         TypesEmptyFlow, TypesCloseBlock, TypesRoot DEF Handles
  <1>3. CASE LoadNextDocument \/ LoadFree \/ LoadCroak
    BY <1>3, TypesForget
  <1>4. QED
    BY <1>1, <1>2, <1>3, NextIs

LEMMA TypesStart == LoadInit => LoadTypes
  <1> SUFFICES ASSUME LoadInit PROVE LoadTypes
    OBVIOUS
  <1>1. /\ content = [n \in Nodes |-> Blank] /\ live = {} /\ stack = <<>>
        /\ heap = [syms |-> <<>>, boxes |-> <<>>, pending |-> [a \in Names |-> {}]]
        /\ roots = <<>> /\ defs = <<>> /\ current = [a \in Names |-> 0]
        /\ means = <<>> /\ body = <<>> /\ returned = 0 /\ tokens = 0 /\ quirks = {}
    BY DEF LoadInit, Init
  <1>2. /\ Len(heap.syms) = 0 /\ Len(heap.boxes) = 0 /\ Len(body) = 0 /\ Len(defs) = 0
        /\ Len(means) = Depth /\ 1..0 = {} /\ 0 \in 0..0
    BY <1>1 DEF Depth
  <1>3. \A n \in Nodes : content[n].uid \in 0..0
    BY <1>1 DEF Blank
  <1>4. Typed(Now, Len(body))
    BY <1>1, <1>2, <1>3 DEF Typed, Now
  <1>5. /\ means \in Seq(Meaning) /\ defs \in Seq(Meaning) /\ body \in Seq(Seq(Meaning))
        /\ roots \in Seq([sym : 1..Len(heap.syms), aim : Meaning])
    BY <1>1, SeqFacts
  <1>6. current \in [Names -> 0..Len(defs)] /\ tokens \in 0..MaxTokens /\ returned \in 0..Len(heap.boxes)
    BY <1>1, <1>2, LoadAssumption
  <1>7. quirks \subseteq {"nested", "redefined", "undefined", "doubled", "aliased", "shortcut", "overwritten"}
    BY <1>1
  <1>8. QED
    BY <1>2, <1>4, <1>5, <1>6, <1>7 DEF LoadTypes

LEMMA LoadTypesHold == LoadSpec => []LoadTypes
  <1>1. LoadInit => LoadTypes
    BY TypesStart
  <1>2. LoadInv /\ LoadInv' /\ LoadTypes /\ [LoadNext]_<<vars, loadVars>> => LoadTypes'
    BY TypesStep DEF LoadInv
  <1>3. QED
    BY <1>1, <1>2, LoadInvariant, PTL DEF LoadSpec

(* What the handler keeps, and what the module keeps of the document, has  *)
(* its type: a symbol is never out of the parser's table (perl_syck.h),    *)
(* a box is always of a node that was read, and a reference is always to a *)
(* box that was made.                                                      *)
LEMMA TypesMeet ==
  ASSUME PendingInv, LoadTypes
  PROVE  LoadTypeOK
  <1> DEFINE u == Len(body)
             b == Len(heap.boxes)
             k == Len(heap.syms)
  <1>1. /\ HeapSound(heap) /\ heap \in HeapType /\ k \in Nat /\ b \in Nat /\ u \in Nat
        /\ content \in [Nodes -> NodeType(k)] /\ Now.heap = heap /\ Now.content = content
    BY NowFacts, NowLens, WordLens DEF PendingInv
  <1>2. Value = ValueIn(u, b)
    BY DEF Value, ValueIn
  <1>3. Typed(Now, u)
    BY DEF LoadTypes
  <1>4. \A n \in Nodes :
       /\ content[n].kind \in {"none", "str", "seq", "map", "bad"}
       /\ content[n].id \in 0..k
       /\ content[n].uid \in 0..u
       /\ content[n].items \in Seq(1..k)
    BY <1>1, <1>3 DEF NodeType, Typed
  <1>5. heap.syms \in Seq(Value)
    <2>1. \A s \in 1..k : heap.syms[s] \in Value
      BY <1>1, <1>2, <1>3 DEF Typed
    <2>2. heap.syms \in Seq(Vals)
      BY <1>1 DEF HeapType
    <2>3. heap.syms \in [1..k -> Value]
      BY <2>1, <2>2
    <2>4. QED
      BY <1>1, <2>3
  <1>6. heap.boxes \in Seq([of : 1..u, vals : Seq(Value)])
    <2> DEFINE S == [of : 1..u, vals : Seq(Value)]
    <2>1. heap.boxes \in Seq(Box)
      BY <1>1 DEF HeapType
    <2>2. ASSUME NEW c \in 1..b
          PROVE  heap.boxes[c] \in S
      <3> DEFINE box == heap.boxes[c]
      <3>1. box \in Box /\ box.vals \in Seq(Vals) /\ Len(box.vals) \in Nat
        BY <1>1, <2>2, BoxVals
      <3>2. box.of \in 1..u /\ \A i \in 1..Len(box.vals) : box.vals[i] \in Value
        BY <1>1, <1>2, <1>3, <2>2 DEF Typed
      <3> HIDE DEF box
      <3>3. box.vals \in [1..Len(box.vals) -> Value]
        BY <3>1, <3>2
      <3>4. box.vals \in Seq(Value)
        BY <3>1, <3>3
      <3>5. box = [of |-> box.of, vals |-> box.vals]
        BY <3>1 DEF Box
      <3>6. box \in S
        BY <3>2, <3>4, <3>5
      <3>7. QED
        BY <3>6 DEF box
    <2> HIDE DEF S
    <2>3. heap.boxes \in [1..b -> S]
      BY <2>1, <2>2
    <2>4. heap.boxes \in Seq(S)
      BY <1>1, <2>3
    <2>5. QED
      BY <2>4 DEF S
  <1>7. heap.pending \in [Names -> SUBSET (Nat \X Nat)]
    BY <1>1 DEF HeapType
  <1>8. QED
    BY <1>4, <1>5, <1>6, <1>7 DEF LoadTypeOK, LoadTypes

(* LoadTypeOK holds of every parse (perl_syck.h: the handler and the root  *)
(* look symbols up that syck_add_sym returned, and nothing else).          *)
THEOREM LoadTypeCorrect == LoadSpec => []LoadTypeOK
  <1>1. LoadInv /\ LoadTypes => LoadTypeOK
    BY TypesMeet DEF LoadInv
  <1>2. QED
    BY <1>1, LoadInvariant, LoadTypesHold, PTL

-----------------------------------------------------------------------------
(* What a value stands for.                                                *)

(* What is known of the names: which node each anchor is on, and which of  *)
(* them are still open.                                                    *)
Words == [defs |-> defs, current |-> current, anchors |-> anchors]

(* With the words g and the boxes bx: v is the value of node u, m is the   *)
(* node u, m is the node of the open anchor x, and v is what m says.       *)
IsNodeIn(bx, v, u) == v = Str(u) \/ \E b \in 1..Len(bx) : v = Ref(b) /\ bx[b].of = u
Points(g, m, u) == m = Node(u) \/ \E d \in 1..Len(g.defs) : m = Def(d) /\ g.defs[d] = Node(u)
Open(g, m, x) == g.anchors[x] = DEFINING /\ g.current[x] # 0 /\ m = Def(g.current[x])
For(g, bx, v, m) ==
  \/ \E u \in Nat : Points(g, m, u) /\ IsNodeIn(bx, v, u)
  \/ \E x \in Names : Open(g, m, x) /\ v = Bad(x)

(* Symbols, or the values of a box, one for each meaning said.             *)
Lists(g, h, items, said) ==
  Len(items) = Len(said) /\ \A i \in 1..Len(items) : For(g, h.boxes, h.syms[items[i]], said[i])
BoxTold(g, bx, box, said) ==
  Len(box.vals) = Len(said) /\ \A i \in 1..Len(box.vals) : For(g, bx, box.vals[i], said[i])

(* The heap k is h with more in it, and the words k are g with more said.  *)
Extends(h, k) ==
  /\ Len(h.syms) \in Nat /\ Len(k.syms) \in Nat /\ Len(h.syms) <= Len(k.syms)
  /\ Len(h.boxes) \in Nat /\ Len(k.boxes) \in Nat /\ Len(h.boxes) <= Len(k.boxes)
  /\ \A s \in 1..Len(h.syms) : k.syms[s] = h.syms[s]
  /\ \A c \in 1..Len(h.boxes) : k.boxes[c] = h.boxes[c]
Learns(g, k) ==
  /\ \A m : \A u \in Nat : Points(g, m, u) => Points(k, m, u)
  /\ \A m : \A x \in Names : Open(g, m, x) => Open(k, m, x)

LEMMA IsNodeGrows ==
  ASSUME NEW h, NEW k, Extends(h, k), NEW v, NEW u, IsNodeIn(h.boxes, v, u)
  PROVE  IsNodeIn(k.boxes, v, u)
  BY DEF IsNodeIn, Extends

LEMMA ForGrows ==
  ASSUME NEW g, NEW l, Learns(g, l), NEW h, NEW k, Extends(h, k), NEW v, NEW m, For(g, h.boxes, v, m)
  PROVE  For(l, k.boxes, v, m)
  <1>1. CASE \E u \in Nat : Points(g, m, u) /\ IsNodeIn(h.boxes, v, u)
    <2>1. PICK u \in Nat : Points(g, m, u) /\ IsNodeIn(h.boxes, v, u)
      BY <1>1
    <2>2. Points(l, m, u) /\ IsNodeIn(k.boxes, v, u)
      BY <2>1, IsNodeGrows DEF Learns
    <2>3. QED
      BY <2>2 DEF For
  <1>2. CASE \E x \in Names : Open(g, m, x) /\ v = Bad(x)
    <2>1. PICK x \in Names : Open(g, m, x) /\ v = Bad(x)
      BY <1>2
    <2>2. Open(l, m, x)
      BY <2>1 DEF Learns
    <2>3. QED
      BY <2>1, <2>2 DEF For
  <1>3. QED
    BY <1>1, <1>2 DEF For

LEMMA LearnsSame == \A g : Learns(g, g)
  BY DEF Learns

LEMMA ListsGrows ==
  ASSUME NEW g, NEW l, Learns(g, l), NEW h, NEW k, Extends(h, k), NEW items, NEW said,
         items \in Seq(1..Len(h.syms)), Lists(g, h, items, said)
  PROVE  Lists(l, k, items, said)
  <1>1. ASSUME NEW i \in 1..Len(items)
        PROVE  For(l, k.boxes, k.syms[items[i]], said[i])
    <2>1. items[i] \in 1..Len(h.syms)
      OBVIOUS
    <2>2. k.syms[items[i]] = h.syms[items[i]]
      BY <2>1 DEF Extends
    <2>3. For(g, h.boxes, h.syms[items[i]], said[i])
      BY DEF Lists
    <2>4. QED
      BY <2>2, <2>3, ForGrows
  <1>2. QED
    BY <1>1 DEF Lists

LEMMA BoxToldGrows ==
  ASSUME NEW g, NEW l, Learns(g, l), NEW h, NEW k, Extends(h, k), NEW box, NEW said,
         BoxTold(g, h.boxes, box, said)
  PROVE  BoxTold(l, k.boxes, box, said)
  <1>1. \A i \in 1..Len(box.vals) : For(l, k.boxes, box.vals[i], said[i])
    BY ForGrows DEF BoxTold
  <1>2. QED
    BY <1>1 DEF BoxTold

(* What the parser's nodes and the handler's boxes and symbols hold is     *)
(* what the document b says.                                               *)
ItemsTold(g, w, b) ==
  \A n \in live : n \notin bad /\ w.content[n].kind # "str" =>
    Lists(g, w.heap, w.content[n].items, b[w.content[n].uid])
BoxesTold(g, w, b) ==
  \A c \in 1..Len(w.heap.boxes) :
    BoxTold(g, w.heap.boxes, w.heap.boxes[c], b[w.heap.boxes[c].of])
SymTold(g, h, n, node) ==
  /\ n \in bad => (g.anchors[anchorOf[n]] = DEFINING => h.syms[node.id] = Bad(anchorOf[n]))
  /\ n \notin bad => IsNodeIn(h.boxes, h.syms[node.id], node.uid)
SymsTold(g, w) == \A n \in live : w.content[n].id # 0 => SymTold(g, w.heap, n, w.content[n])
Told(g, w, b) == ItemsTold(g, w, b) /\ BoxesTold(g, w, b) /\ SymsTold(g, w)

LEMMA SymToldGrows ==
  ASSUME NEW g, NEW h, NEW k, Extends(h, k), NEW n, NEW node, node.id \in 1..Len(h.syms),
         SymTold(g, h, n, node)
  PROVE  SymTold(g, k, n, node)
  <1>1. k.syms[node.id] = h.syms[node.id]
    BY DEF Extends
  <1>2. QED
    BY <1>1, IsNodeGrows DEF SymTold

(* A node handled for the first time.                                      *)
LEMMA FirstExtends ==
  ASSUME NEW h \in HeapType, NEW n, NEW node, NEW a, NEW k, FirstTime(h, n, node, a, k)
  PROVE  Extends(h, k)
  BY FirstTimeIs DEF Extends

(* The symbol of a node just handled, and its box.                         *)
LEMMA FirstTold ==
  ASSUME NEW g, NEW h, HeapSound(h), NEW n, NEW node \in NodeType(Len(h.syms)),
         NEW k, FirstTime(h, n, node, anchorOf[n], k), NEW said,
         n \notin bad /\ node.kind # "str" => Lists(g, h, node.items, said)
  PROVE  /\ \A new : new.id = Len(h.syms) + 1 /\ new.uid = node.uid => SymTold(g, k, n, new)
         /\ \A c \in 1..Len(k.boxes) : c \in 1..Len(h.boxes) \/ (k.boxes[c].of = node.uid /\ BoxTold(g, k.boxes, k.boxes[c], said))
  <1>1. /\ IsSeq(h.syms) /\ IsSeq(h.boxes) /\ Len(h.syms) \in Nat /\ Len(h.boxes) \in Nat /\ h \in HeapType
    BY HeapIs DEF HeapSound
  <1>2. Extends(h, k)
    BY <1>1, FirstExtends
  <1>3. CASE /\ n \in bad
             /\ k.syms = Append(h.syms, Bad(anchorOf[n])) /\ k.boxes = h.boxes
    <2>1. k.syms[Len(h.syms) + 1] = Bad(anchorOf[n])
      BY <1>1, <1>3, Appended
    <2>2. QED
      BY <1>3, <2>1 DEF SymTold
  <1>4. CASE /\ n \notin bad
             /\ k.syms = Append(h.syms, Str(node.uid)) /\ k.boxes = h.boxes
    <2>1. k.syms[Len(h.syms) + 1] = Str(node.uid)
      BY <1>1, <1>4, Appended
    <2>2. QED
      BY <1>4, <2>1 DEF SymTold, IsNodeIn
  <1>5. CASE /\ n \notin bad /\ node.kind # "str"
             /\ k.syms = Append(h.syms, Ref(Len(h.boxes) + 1))
             /\ k.boxes = Append(h.boxes, BoxOf(h, node))
    <2> DEFINE b == Len(h.boxes) + 1
               box == BoxOf(h, node)
    <2>1. k.syms[Len(h.syms) + 1] = Ref(b)
      BY <1>1, <1>5, Appended
    <2>2. Len(k.boxes) = b /\ k.boxes[b] = box /\ b \in 1..b
      BY <1>1, <1>5, Appended
    <2>3. /\ box.of = node.uid /\ Len(box.vals) = Len(node.items) /\ Len(node.items) \in Nat
          /\ \A i \in 1..Len(node.items) : /\ node.items[i] \in 1..Len(h.syms)
                                           /\ box.vals[i] = h.syms[node.items[i]]
      BY ONLY <1>1, node \in NodeType(Len(h.syms)), BoxOfIs
    <2>4. Lists(g, h, node.items, said)
      BY <1>5
    <2> HIDE DEF box
    <2>5. BoxTold(g, h.boxes, box, said)
      BY <2>3, <2>4 DEF Lists, BoxTold
    <2>6. BoxTold(g, k.boxes, box, said)
      BY <1>2, <2>5, BoxToldGrows, LearnsSame
    <2>7. IsNodeIn(k.boxes, Ref(b), node.uid)
      BY <2>2, <2>3 DEF IsNodeIn
    <2>8. \A c \in 1..Len(k.boxes) : c \in 1..Len(h.boxes) \/ c = b
      BY <1>1, <2>2
    <2> HIDE DEF b
    <2>9. \A new : new.id = Len(h.syms) + 1 /\ new.uid = node.uid => SymTold(g, k, n, new)
      BY <1>5, <2>1, <2>7 DEF SymTold
    <2>10. QED
      BY <2>2, <2>3, <2>6, <2>8, <2>9
  <1>6. QED
    BY <1>3, <1>4, <1>5 DEF FirstTime

LEMMA ToldAdd ==
  ASSUME OwnershipInv, NEW g, NEW b, NEW w, World(w), Told(g, w, b), NEW n \in live,
         NEW v, v = AddNode(w, n)
  PROVE  Told(g, v, b) /\ Extends(w.heap, v.heap) /\ World(v)
  <1> DEFINE node == w.content[n]
             h == w.heap
             k == v.heap
             a == anchorOf[n]
  <1>1. n \in Nodes /\ live \subseteq Nodes /\ anchorOf[n] \in Names \cup {NONE}
    BY DEF OwnershipInv, TypeOK
  <1>2. /\ World(v)
        /\ \A m \in Nodes : m # n => v.content[m] = w.content[m]
        /\ v.content[n].kind = node.kind /\ v.content[n].uid = node.uid /\ v.content[n].items = node.items
        /\ node.id # 0 => v = w
        /\ node.id = 0 => FirstTime(h, n, node, a, k) /\ v.content[n].id = Len(h.syms) + 1
    BY <1>1, AddNodeIs
  <1>3. HeapSound(h) /\ h \in HeapType /\ \A m \in live : w.content[m] \in NodeType(Len(h.syms))
    BY <1>1 DEF World, HeapSound
  <1>4. \A m \in live : w.content[m].items \in Seq(1..Len(h.syms)) /\ w.content[m].id \in 0..Len(h.syms)
    BY <1>3 DEF NodeType
  <1>5. Len(h.syms) \in Nat /\ Len(h.boxes) \in Nat
    BY <1>3, HeapIs
  <1>6. CASE node.id # 0
    <2>1. Extends(h, h)
      BY <1>5 DEF Extends
    <2>2. QED
      BY <1>2, <1>6, <2>1
  <1>7. CASE node.id = 0
    <2> DEFINE said == b[node.uid]
    <2>1. FirstTime(h, n, node, a, k) /\ v.content[n].id = Len(h.syms) + 1
      BY <1>2, <1>7
    <2>2. node \in NodeType(Len(h.syms))
      BY <1>3
    <2>3. n \notin bad /\ node.kind # "str" => Lists(g, h, node.items, said)
      BY DEF Told, ItemsTold
    <2> HIDE DEF node, h, said, a, k
    <2>4. Extends(h, k)
      BY <1>3, <2>1, FirstExtends
    <2>5. /\ \A new : new.id = Len(h.syms) + 1 /\ new.uid = node.uid => SymTold(g, k, n, new)
          /\ \A c \in 1..Len(k.boxes) : c \in 1..Len(h.boxes) \/ (k.boxes[c].of = node.uid /\ BoxTold(g, k.boxes, k.boxes[c], said))
      <3>1. FirstTime(h, n, node, anchorOf[n], k)
        BY <2>1 DEF a
      <3>2. QED
        BY ONLY <1>3, <2>2, <2>3, <3>1, FirstTold
    <2>6. ItemsTold(g, v, b)
      <3>1. ASSUME NEW m \in live, m \notin bad, v.content[m].kind # "str"
            PROVE  Lists(g, k, v.content[m].items, b[v.content[m].uid])
        <4>1. /\ v.content[m].items = w.content[m].items /\ v.content[m].uid = w.content[m].uid
              /\ v.content[m].kind = w.content[m].kind
          BY <1>1, <1>2 DEF node
        <4>2. Lists(g, h, w.content[m].items, b[w.content[m].uid])
          BY <3>1, <4>1 DEF Told, ItemsTold, h
        <4>3. w.content[m].items \in Seq(1..Len(h.syms)) /\ Learns(g, g)
          BY <1>4, LearnsSame DEF h
        <4>4. Lists(g, k, w.content[m].items, b[w.content[m].uid])
          BY ONLY <2>4, <4>2, <4>3, ListsGrows
        <4>5. QED
          BY <4>1, <4>4
      <3>2. QED
        BY <3>1 DEF ItemsTold, k
    <2>7. BoxesTold(g, v, b)
      <3>1. ASSUME NEW c \in 1..Len(k.boxes)
            PROVE  BoxTold(g, k.boxes, k.boxes[c], b[k.boxes[c].of])
        <4>1. CASE c \in 1..Len(h.boxes)
          <5>1. k.boxes[c] = h.boxes[c]
            BY <2>4, <4>1 DEF Extends
          <5>2. BoxTold(g, h.boxes, h.boxes[c], b[h.boxes[c].of])
            BY <4>1 DEF Told, BoxesTold, h
          <5>3. Learns(g, g)
            BY LearnsSame
          <5>4. BoxTold(g, k.boxes, h.boxes[c], b[h.boxes[c].of])
            BY ONLY <2>4, <5>2, <5>3, BoxToldGrows
          <5>5. QED
            BY <5>1, <5>4
        <4>2. QED
          BY <2>5, <4>1 DEF said
      <3>2. QED
        BY <3>1 DEF BoxesTold, k
    <2>8. SymsTold(g, v)
      <3>1. ASSUME NEW m \in live, v.content[m].id # 0
            PROVE  SymTold(g, k, m, v.content[m])
        <4>1. CASE m = n
          BY <1>2, <2>1, <2>5, <4>1 DEF node
        <4>2. CASE m # n
          <5>1. v.content[m] = w.content[m]
            BY <1>1, <1>2, <4>2
          <5>2. SymTold(g, h, m, w.content[m]) /\ w.content[m].id \in 1..Len(h.syms)
            <6>1. w.content[m].id \in 0..Len(h.syms) /\ w.content[m].id # 0
              BY <1>4, <3>1, <5>1
            <6>2. QED
              BY <1>5, <6>1 DEF Told, SymsTold, h
          <5>3. QED
            BY <2>4, <5>1, <5>2, SymToldGrows
        <4>3. QED
          BY <4>1, <4>2
      <3>2. QED
        BY <3>1 DEF SymsTold, k
    <2>9. QED
      BY <1>2, <2>4, <2>6, <2>7, <2>8 DEF Told, h, k
  <1>8. QED
    BY <1>6, <1>7

(* A node not handled yet gets other items, and the document says so.      *)
LEMMA ToldSet ==
  ASSUME OwnershipInv, NEW g, NEW b, NEW w, World(w), Apart(w), Told(g, w, b),
         NEW n \in live, n \notin bad, w.content[n].id = 0,
         NEW items, NEW u, u = w.content[n].uid, NEW c,
         w.content[n].kind # "str" => Lists(g, w.heap, items, c[u]), \A x \in 1..Len(body) : x # u => c[x] = b[x],
         NEW v, v = SetItems(w, n, items)
  PROVE  Told(g, v, c)
  <1>1. n \in Nodes /\ live \subseteq Nodes
    BY DEF OwnershipInv, TypeOK
  <1>2. /\ v.heap = w.heap /\ v.content[n].items = items
        /\ \A m \in Nodes : m # n => v.content[m] = w.content[m]
        /\ \A m \in Nodes : /\ v.content[m].kind = w.content[m].kind
                            /\ v.content[m].uid = w.content[m].uid
                            /\ v.content[m].id = w.content[m].id
    BY <1>1, SetItemsIs
  <1>3. /\ \A m \in live : m \notin bad => w.content[m].uid \in 1..Len(body) /\ (w.content[m].uid = u => m = n)
        /\ \A d \in 1..Len(w.heap.boxes) : w.heap.boxes[d].of \in 1..Len(body) /\ w.heap.boxes[d].of # u
    BY DEF Apart
  <1>4. ItemsTold(g, v, c)
    <2>1. ASSUME NEW m \in live, m \notin bad, v.content[m].kind # "str"
          PROVE  Lists(g, w.heap, v.content[m].items, c[v.content[m].uid])
      <3>1. CASE m = n
        BY <1>1, <1>2, <2>1, <3>1
      <3>2. CASE m # n
        <4>1. v.content[m] = w.content[m] /\ c[w.content[m].uid] = b[w.content[m].uid]
          BY <1>1, <1>2, <1>3, <2>1, <3>2
        <4>2. QED
          BY <2>1, <4>1 DEF Told, ItemsTold
      <3>3. QED
        BY <3>1, <3>2
    <2>2. QED
      BY <1>2, <2>1 DEF ItemsTold
  <1>5. BoxesTold(g, v, c)
    <2>1. ASSUME NEW d \in 1..Len(w.heap.boxes)
          PROVE  BoxTold(g, w.heap.boxes, w.heap.boxes[d], c[w.heap.boxes[d].of])
      <3>1. c[w.heap.boxes[d].of] = b[w.heap.boxes[d].of]
        BY <1>3
      <3>2. QED
        BY <3>1 DEF Told, BoxesTold
    <2>2. QED
      BY <1>2, <2>1 DEF BoxesTold
  <1>6. SymsTold(g, v)
    <2>1. ASSUME NEW m \in live, v.content[m].id # 0
          PROVE  SymTold(g, w.heap, m, v.content[m])
      <3>1. m # n /\ v.content[m] = w.content[m]
        BY <1>1, <1>2, <2>1
      <3>2. QED
        BY <2>1, <3>1 DEF Told, SymsTold
    <2>2. QED
      BY <1>2, <2>1 DEF SymsTold
  <1>7. QED
    BY <1>4, <1>5, <1>6 DEF Told

(* Symbols in a row, and what they stand for.                              *)
LEMMA ListsOne ==
  ASSUME NEW g, NEW h, NEW id, NEW m, For(g, h.boxes, h.syms[id], m)
  PROVE  Lists(g, h, <<id>>, <<m>>)
  BY DEF Lists

LEMMA ListsAppend ==
  ASSUME NEW g, NEW h, NEW items, NEW said, IsSeq(items), IsSeq(said), Lists(g, h, items, said),
         NEW id, NEW m, For(g, h.boxes, h.syms[id], m)
  PROVE  Lists(g, h, Append(items, id), Append(said, m))
  <1>1. /\ Len(items) \in Nat /\ Len(said) = Len(items)
        /\ Len(Append(items, id)) = Len(items) + 1 /\ Len(Append(said, m)) = Len(items) + 1
        /\ Append(items, id)[Len(items) + 1] = id /\ Append(said, m)[Len(items) + 1] = m
        /\ \A i \in 1..Len(items) : Append(items, id)[i] = items[i] /\ Append(said, m)[i] = said[i]
    BY Appended DEF Lists
  <1>2. \A i \in 1..(Len(items) + 1) : i \in 1..Len(items) \/ i = Len(items) + 1
    BY <1>1
  <1>3. \A i \in 1..Len(items) : For(g, h.boxes, h.syms[items[i]], said[i])
    BY DEF Lists
  <1> DEFINE new == Append(items, id)
             more == Append(said, m)
  <1> HIDE DEF new, more
  <1>4. ASSUME NEW i \in 1..Len(new)
        PROVE  For(g, h.boxes, h.syms[new[i]], more[i])
    <2>1. CASE i \in 1..Len(items)
      <3>1. new[i] = items[i] /\ more[i] = said[i]
        BY <1>1, <2>1 DEF new, more
      <3>2. QED
        BY <1>3, <2>1, <3>1
    <2>2. CASE i = Len(items) + 1
      <3>1. new[i] = id /\ more[i] = m
        BY <1>1, <2>2 DEF new, more
      <3>2. QED
        BY <3>1
    <2>3. QED
      BY <1>1, <1>2, <1>4, <2>1, <2>2 DEF new
  <1>5. Len(new) = Len(more)
    BY <1>1 DEF new, more
  <1>6. Lists(g, h, new, more)
    BY <1>4, <1>5 DEF Lists
  <1>7. QED
    BY <1>6 DEF new, more

LEMMA Replaced ==
  ASSUME NEW s, IsSeq(s), NEW x
  PROVE  /\ Len(ReplaceLast(s, x)) = Len(s) /\ Len(s) \in Nat
         /\ \A i \in 1..Len(s) : ReplaceLast(s, x)[i] = IF i = Len(s) THEN x ELSE s[i]
  BY DEF IsSeq, ReplaceLast

LEMMA ListsReplace ==
  ASSUME NEW g, NEW h, NEW items, NEW said, IsSeq(items), IsSeq(said), Lists(g, h, items, said),
         NEW id, NEW m, For(g, h.boxes, h.syms[id], m)
  PROVE  Lists(g, h, ReplaceLast(items, id), ReplaceLast(said, m))
  <1> DEFINE new == ReplaceLast(items, id)
             more == ReplaceLast(said, m)
  <1>1. /\ Len(items) \in Nat /\ Len(said) = Len(items)
        /\ Len(new) = Len(items) /\ Len(more) = Len(items)
        /\ \A i \in 1..Len(items) : new[i] = IF i = Len(items) THEN id ELSE items[i]
        /\ \A i \in 1..Len(items) : more[i] = IF i = Len(items) THEN m ELSE said[i]
    BY Replaced DEF Lists
  <1>2. \A i \in 1..Len(items) : For(g, h.boxes, h.syms[items[i]], said[i])
    BY DEF Lists
  <1> HIDE DEF new, more
  <1>3. ASSUME NEW i \in 1..Len(items)
        PROVE  For(g, h.boxes, h.syms[new[i]], more[i])
    BY <1>1, <1>2
  <1>4. Lists(g, h, new, more)
    BY <1>1, <1>3 DEF Lists
  <1>5. QED
    BY <1>4 DEF new, more

LEMMA Concatenated ==
  ASSUME NEW s, IsSeq(s), NEW t, IsSeq(t)
  PROVE  /\ Len(s) \in Nat /\ Len(t) \in Nat /\ Len(s \o t) = Len(s) + Len(t)
         /\ \A i \in 1..Len(s) : (s \o t)[i] = s[i]
         /\ \A i \in (Len(s) + 1)..(Len(s) + Len(t)) : (s \o t)[i] = t[i - Len(s)]
         /\ \A i \in (Len(s) + 1)..(Len(s) + Len(t)) : i - Len(s) \in 1..Len(t)
         /\ \A i \in 1..Len(s \o t) : i \in 1..Len(s) \/ i \in (Len(s) + 1)..(Len(s) + Len(t))
  <1>1. PICK S : s \in Seq(S)
    BY DEF IsSeq
  <1>2. PICK T : t \in Seq(T)
    BY DEF IsSeq
  <1>3. s \in Seq(S \cup T) /\ t \in Seq(S \cup T)
    BY <1>1, <1>2, SeqMono
  <1>4. QED
    BY <1>3

LEMMA ListsConcat ==
  ASSUME NEW g, NEW h, NEW items, NEW said, IsSeq(items), IsSeq(said), Lists(g, h, items, said),
         NEW others, NEW also, IsSeq(others), IsSeq(also), Lists(g, h, others, also)
  PROVE  Lists(g, h, items \o others, said \o also)
  <1> DEFINE new == items \o others
             more == said \o also
             k == Len(items)
             l == Len(others)
  <1>1. Len(said) = k /\ Len(also) = l
    BY DEF Lists
  <1>2. /\ k \in Nat /\ l \in Nat /\ Len(new) = k + l
        /\ \A i \in 1..k : new[i] = items[i]
        /\ \A i \in (k + 1)..(k + l) : new[i] = others[i - k] /\ i - k \in 1..l
        /\ \A i \in 1..Len(new) : i \in 1..k \/ i \in (k + 1)..(k + l)
    BY Concatenated
  <1>3. /\ Len(more) = k + l
        /\ \A i \in 1..k : more[i] = said[i]
        /\ \A i \in (k + 1)..(k + l) : more[i] = also[i - k]
    <2>1. /\ Len(more) = Len(said) + Len(also)
          /\ \A i \in 1..Len(said) : more[i] = said[i]
          /\ \A i \in (Len(said) + 1)..(Len(said) + Len(also)) : more[i] = also[i - Len(said)]
      BY Concatenated
    <2> HIDE DEF more, k, l
    <2>2. QED
      BY <1>1, <2>1
  <1>4. /\ \A i \in 1..k : For(g, h.boxes, h.syms[items[i]], said[i])
        /\ \A i \in 1..l : For(g, h.boxes, h.syms[others[i]], also[i])
    BY DEF Lists
  <1> HIDE DEF new, more, k, l
  <1>5. ASSUME NEW i \in 1..Len(new)
        PROVE  For(g, h.boxes, h.syms[new[i]], more[i])
    <2>1. CASE i \in 1..k
      BY <1>2, <1>3, <1>4, <2>1
    <2>2. CASE i \in (k + 1)..(k + l)
      <3>1. i - k \in 1..l /\ new[i] = others[i - k] /\ more[i] = also[i - k]
        BY <1>2, <1>3, <2>2
      <3>2. QED
        BY <1>4, <3>1
    <2>3. QED
      BY <1>2, <2>1, <2>2
  <1>6. Lists(g, h, new, more)
    BY <1>2, <1>3, <1>5 DEF Lists
  <1>7. QED
    BY <1>6 DEF new, more

(* What is said of nodes that were read already stays said.                *)
LEMMA ToldMore ==
  ASSUME NEW g, NEW w, NEW b, Told(g, w, b), Apart(w), NEW c,
         \A u \in 1..Len(body) : c[u] = b[u]
  PROVE  Told(g, w, c)
  <1>1. /\ \A n \in live \ bad : w.content[n].uid \in 1..Len(body)
        /\ \A d \in 1..Len(w.heap.boxes) : w.heap.boxes[d].of \in 1..Len(body)
    BY DEF Apart
  <1>2. \A n \in live : n \notin bad => c[w.content[n].uid] = b[w.content[n].uid]
    BY <1>1
  <1>3. \A d \in 1..Len(w.heap.boxes) : c[w.heap.boxes[d].of] = b[w.heap.boxes[d].of]
    BY <1>1
  <1>4. ItemsTold(g, w, c)
    BY <1>2 DEF Told, ItemsTold
  <1>5. BoxesTold(g, w, c)
    BY <1>3 DEF Told, BoxesTold
  <1>6. QED
    BY <1>4, <1>5 DEF Told

(* The meaning m of an entry of the value stack is the entry's node n: a   *)
(* node not yet anchored by name is meant by itself.                       *)
AimsAt(n, m) ==
  /\ n \in bad => Open(Words, m, anchorOf[n])
  /\ n \notin bad => /\ Points(Words, m, content[n].uid)
                     /\ anchorOf[n] = NONE => m = Node(content[n].uid)

LEMMA SymbolFor ==
  ASSUME OwnershipInv, NEW w, World(w), NEW b, Told(Words, w, b), NEW n \in live,
         w.content[n].id # 0, w.content[n].uid = content[n].uid, NEW m, AimsAt(n, m)
  PROVE  For(Words, w.heap.boxes, w.heap.syms[w.content[n].id], m)
  <1>1. SymTold(Words, w.heap, n, w.content[n])
    BY DEF Told, SymsTold
  <1>2. n \in Nodes /\ (n \in bad => anchorOf[n] \in Names)
    BY DEF OwnershipInv, TypeOK, TablesSound
  <1>3. w.content[n].uid \in Nat
    BY <1>2, ItemsFacts
  <1>4. CASE n \in bad
    <2>1. Open(Words, m, anchorOf[n])
      BY <1>4 DEF AimsAt
    <2>2. Words.anchors[anchorOf[n]] = DEFINING
      BY <2>1 DEF Open
    <2>3. w.heap.syms[w.content[n].id] = Bad(anchorOf[n])
      BY <1>1, <1>4, <2>2 DEF SymTold
    <2>4. QED
      BY <1>2, <1>4, <2>1, <2>3 DEF For
  <1>5. CASE n \notin bad
    <2>1. Points(Words, m, w.content[n].uid)
      BY <1>5 DEF AimsAt
    <2>2. IsNodeIn(w.heap.boxes, w.heap.syms[w.content[n].id], w.content[n].uid)
      BY <1>1, <1>5 DEF SymTold
    <2>3. QED
      BY <1>3, <2>1, <2>2 DEF For
  <1>6. QED
    BY <1>4, <1>5

(* The waiting sequence is the last value of its mapping from now on.      *)
LEMMA ToldApply ==
  ASSUME OwnershipInv, PendingInv, ValuesSound, LoadTypes, Told(Words, Now, body),
         NEW m \in live, m \notin bad, content[m].kind \in {"seq", "map"},
         shortcut[m] # NONE =>
           /\ content[m].id = 0 /\ shortcut[m] # m
           /\ shortcut[m] \in live /\ shortcut[m] \notin bad,
         NEW w, w = ApplySeq(Now, m),
         NEW c, c[content[m].uid] = SaysSeq(m),
         \A u \in 1..Len(body) : u # content[m].uid => c[u] = body[u]
  PROVE  Told(Words, w, c) /\ Extends(heap, w.heap) /\ World(w)
  <1> DEFINE s == shortcut[m]
             added == AddNode(Now, s)
             id == added.content[s].id
             k == added.heap
             u == content[m].uid
  <1>1. /\ World(Now) /\ Apart(Now) /\ Now.content = content /\ Now.heap = heap
        /\ live \subseteq Nodes /\ m \in Nodes
    BY DEF PendingInv, ValuesSound, Now, OwnershipInv, TypeOK
  <1>2. /\ Len(heap.syms) \in Nat /\ Len(heap.boxes) \in Nat /\ u \in 1..Len(body)
        /\ IsSeq(body[u])
    <2>1. u \in 1..Len(body)
      BY <1>1 DEF Apart
    <2>2. QED
      BY <2>1, NowLens, WordLens DEF IsSeq
  <1>3. CASE s = NONE
    <2>1. w = Now /\ c[u] = body[u]
      BY <1>3 DEF ApplySeq, SaysSeq
    <2>2. \A x \in 1..Len(body) : c[x] = body[x]
      BY <2>1
    <2>3. Told(Words, Now, c)
      BY <1>1, <2>2, ToldMore
    <2>4. Extends(heap, heap)
      BY <1>2 DEF Extends
    <2>5. QED
      BY <1>1, <2>1, <2>3, <2>4
  <1>4. CASE s # NONE
    <2> DEFINE items == ReplaceLast(added.content[m].items, id)
    <2>1. w = SetItems(added, m, items) /\ c[u] = ReplaceLast(body[u], Node(content[s].uid))
      BY <1>4 DEF ApplySeq, SaysSeq
    <2>2. s \in live /\ s \notin bad /\ s # m /\ s \in Nodes /\ content[m].id = 0
      BY <1>1, <1>4
    <2> HIDE DEF added, s
    <2>3. Told(Words, added, body) /\ Extends(heap, k) /\ World(added)
      BY <1>1, <2>2, ToldAdd DEF added
    <2>4. /\ added.content[m] = content[m] /\ added.content[s].uid = content[s].uid /\ id # 0
      <3>1. anchorOf[s] \in Names \cup {NONE}
        BY <2>2 DEF OwnershipInv, TypeOK
      <3>2. QED
        BY <1>1, <2>2, <3>1, AddNodeIs DEF added
    <2>5. Apart(added)
      BY <1>1, <2>2, AddNodeTidy DEF added
    <2>6. AimsAt(s, Node(content[s].uid))
      BY <2>2 DEF AimsAt, Points
    <2>7. For(Words, k.boxes, k.syms[id], Node(content[s].uid))
      BY <2>2, <2>3, <2>4, <2>6, SymbolFor
    <2>8. Lists(Words, k, content[m].items, body[u])
      BY <2>3, <2>4 DEF Told, ItemsTold
    <2>9. IsSeq(content[m].items)
      BY <1>1, ItemsFacts DEF IsSeq
    <2> HIDE DEF k, id
    <2>10. Lists(Words, k, items, c[u])
      BY <1>2, <2>1, <2>4, <2>7, <2>8, <2>9, ListsReplace
    <2> HIDE DEF items
    <2>11. added.content[m].id = 0 /\ added.content[m].uid = u
      BY <2>2, <2>4
    <2>12. Told(Words, w, c)
      <3> HIDE DEF u
      <3>1. \A x \in 1..Len(body) : x # u => c[x] = body[x]
        BY DEF u
      <3>2. Lists(Words, added.heap, items, c[u])
        BY <2>10 DEF k
      <3>3. u = added.content[m].uid
        BY <2>11
      <3>4. QED
        BY ONLY OwnershipInv, m \in live, m \notin bad, <2>1, <2>3, <2>5, <2>11, <3>1, <3>2, <3>3, ToldSet
    <2>13. w.heap = k
      BY <1>1, <2>1, <2>3, SetItemsIs DEF k
    <2>14. World(w)
      BY <1>1, ApplySeqSound DEF OwnershipInv
    <2>15. QED
      BY <2>3, <2>12, <2>13, <2>14
  <1>5. QED
    BY <1>3, <1>4

(* The step keeps the nodes, the boxes and the symbols as w says, and w    *)
(* says what the document does.                                            *)
Upkeep(w) ==
  /\ heap' = w.heap
  /\ \A n \in live \cap live' :
       /\ content'[n] = w.content[n]
       /\ n \in bad' <=> n \in bad
       /\ n \in bad => /\ anchorOf'[n] = anchorOf[n]
                       /\ anchors'[anchorOf[n]] = DEFINING => anchors[anchorOf[n]] = DEFINING
  /\ \A n \in live' \ live : content'[n].id = 0
NewTold(w) ==
  \A n \in live' \ live :
    n \notin bad' /\ content'[n].kind # "str" =>
      Lists(Words, w.heap, content'[n].items, body'[content'[n].uid])
      /\ content'[n].items \in Seq(1..Len(w.heap.syms))

LEMMA ToldStep ==
  ASSUME OwnershipInv, PendingInv, NEW w, World(w), Told(Words, w, body'), Learns(Words, Words'),
         Upkeep(w), NewTold(w)
  PROVE  Told(Words, Now, body)'
  <1> DEFINE h == w.heap
             b == body'
             l == Words'
  <1>1. /\ live \subseteq Nodes /\ h \in HeapType /\ Now'.heap = h /\ Now'.content = content' /\ heap' = h
        /\ \A n \in live : w.content[n] \in NodeType(Len(h.syms))
    BY DEF OwnershipInv, TypeOK, World, HeapSound, Now, Upkeep
  <1>2. Len(h.syms) \in Nat /\ Len(h.boxes) \in Nat
    BY <1>1, HeapIs
  <1>3. Extends(h, h)
    BY <1>2 DEF Extends
  <1>4. Learns(Words, l)
    OBVIOUS
  <1> HIDE DEF h, b, l
  <1>5. ASSUME NEW n \in live', n \notin bad', content'[n].kind # "str"
        PROVE  Lists(l, h, content'[n].items, b[content'[n].uid])
    <2> DEFINE items == content'[n].items
               said == b[content'[n].uid]
    <2>1. Lists(Words, h, items, said) /\ items \in Seq(1..Len(h.syms))
      <3>1. CASE n \in live
        <4>1. content'[n] = w.content[n] /\ n \notin bad
          BY <1>5, <3>1 DEF Upkeep
        <4>2. w.content[n].items \in Seq(1..Len(h.syms))
          BY <1>1, <3>1 DEF NodeType
        <4>3. QED
          BY <1>5, <3>1, <4>1, <4>2 DEF Told, ItemsTold, h, b
      <3>2. CASE n \notin live
        BY <1>5, <3>2 DEF NewTold, h, b
      <3>3. QED
        BY <3>1, <3>2
    <2> HIDE DEF items, said
    <2>2. Lists(l, h, items, said)
      BY ONLY <1>3, <1>4, <2>1, ListsGrows
    <2>3. QED
      BY <2>2 DEF items, said
  <1>6. ASSUME NEW c \in 1..Len(h.boxes)
        PROVE  BoxTold(l, h.boxes, h.boxes[c], b[h.boxes[c].of])
    <2>1. BoxTold(Words, h.boxes, h.boxes[c], b[h.boxes[c].of])
      BY DEF Told, BoxesTold, h, b
    <2>2. QED
      BY ONLY <1>3, <1>4, <2>1, BoxToldGrows
  <1>7. ASSUME NEW n \in live', content'[n].id # 0
        PROVE  /\ n \in bad' => (anchors'[anchorOf'[n]] = DEFINING => h.syms[content'[n].id] = Bad(anchorOf'[n]))
               /\ n \notin bad' => IsNodeIn(h.boxes, h.syms[content'[n].id], content'[n].uid)
    <2>1. /\ n \in live /\ content'[n] = w.content[n] /\ (n \in bad' <=> n \in bad)
          /\ n \in bad => /\ anchorOf'[n] = anchorOf[n]
                          /\ anchors'[anchorOf[n]] = DEFINING => anchors[anchorOf[n]] = DEFINING
      BY <1>7 DEF Upkeep
    <2>2. SymTold(Words, h, n, w.content[n])
      BY <1>7, <2>1 DEF Told, SymsTold, h
    <2>3. Words.anchors = anchors
      BY DEF Words
    <2>4. QED
      BY <2>1, <2>2, <2>3 DEF SymTold
  <1>8. ItemsTold(Words, Now, body)'
    BY <1>1, <1>5 DEF ItemsTold, l, b
  <1>9. BoxesTold(Words, Now, body)'
    BY <1>1, <1>6 DEF BoxesTold, l, b
  <1>10. SymsTold(Words, Now)'
    <2>1. Words'.anchors = anchors'
      BY DEF Words
    <2>2. QED
      BY <1>1, <1>7, <2>1 DEF SymsTold, SymTold
  <1>11. QED
    BY <1>8, <1>9, <1>10 DEF Told

-----------------------------------------------------------------------------
(* What the entries of the value stack stand for.                          *)

(* The anchor tokens of this document, one per name: a name being built    *)
(* has no node yet; another's latest token is put on the node it names.    *)
Glossary ==
  /\ \A x \in Names : anchors[x] = DEFINING =>
       current[x] \in 1..Len(defs) /\ defs[current[x]] = Nothing(x)
  /\ \A x \in Names : anchors[x] \in Nodes =>
       current[x] \in 1..Len(defs) /\ defs[current[x]] = Node(content[anchors[x]].uid)
  /\ \A x, y \in Names : current[x] # 0 /\ current[x] = current[y] => x = y
Aimed == \A i \in Places : AimsAt(stack[i].val, means[i])
TokensSound ==
  \A i \in DOMAIN stack : \A x \in Names : stack[i] = Token(x) =>
    /\ anchors[x] = DEFINING /\ means[i] = Def(current[x])
    /\ \A j \in DOMAIN stack : stack[j] = Token(x) => i = j
BadAbove ==
  \A i \in Places : stack[i].val \in bad =>
    \E j \in DOMAIN stack : j < i /\ stack[j] = Token(anchorOf[stack[i].val])
StackMeant == Aimed /\ TokensSound /\ BadAbove

(* A mapping with a sequence waiting has no symbol yet, nor a box.         *)
ShortUnhandled == \A n \in Nodes : shortcut[n] # NONE => content[n].id = 0 /\ n \notin bad
RootsMeant ==
  \A i \in 1..Len(roots) : For(Words, heap.boxes, heap.syms[roots[i].sym], roots[i].aim)

MeaningSound ==
  /\ Told(Words, Now, body)
  /\ Glossary /\ StackMeant
  /\ ShortUnhandled /\ RootsMeant

(* The new top entry is a new node, or one that was popped, and means it.  *)
Pushes(k, e, m) ==
  \/ e.val \notin live /\ m = Node(content'[e.val].uid)
  \/ \E j \in 0..(k - 1) : Sym(j) \in NodeSyms /\ e.val = Val(j) /\ m = Top(j)

LEMMA Spots ==
  ASSUME OwnershipInv, LoadTypes, NEW k, NEW e, Pops(k, e), NEW m, MeansTop(k, m)
  PROVE  /\ Depth \in Nat /\ Depth' \in Nat /\ k \in 0..Depth /\ Depth' = Depth - k + 1
         /\ DOMAIN stack = 1..Depth /\ DOMAIN stack' = 1..Depth' /\ Depth' \in 1..Depth'
         /\ stack'[Depth'] = e /\ means'[Depth'] = m
         /\ \A i \in 1..Depth' : i # Depth' => i \in 1..Depth /\ stack'[i] = stack[i] /\ means'[i] = means[i]
         /\ \A i \in 1..Depth : i < Depth' => i \in 1..Depth' /\ i # Depth'
         /\ \A i \in 1..Depth : i >= Depth' => Depth - i \in 0..(k - 1) /\ Depth - (Depth - i) = i
         /\ \A i \in 1..Depth' : i \in Places' <=> stack'[i].sym \in NodeSyms
         /\ \A i \in 1..Depth : i \in Places <=> stack[i].sym \in NodeSyms
  <1>1. /\ Depth \in Nat /\ Depth' \in Nat /\ k \in 0..Depth /\ Depth' = Depth - k + 1
        /\ DOMAIN stack = 1..Depth /\ DOMAIN stack' = 1..Depth'
        /\ stack'[Depth'] = e
        /\ \A i \in 1..Depth' : i # Depth' => i \in 1..Depth /\ stack'[i] = stack[i]
    BY PopsFacts DEF OwnershipInv, TypeOK
  <1> DEFINE S == Meaning \cup {m}
  <1>2. Len(means) = Depth /\ means \in Seq(S) /\ m \in S
    <2>1. Meaning \subseteq S
      OBVIOUS
    <2>2. Seq(Meaning) \subseteq Seq(S)
      BY <2>1, SeqMono
    <2>3. QED
      BY <2>2 DEF LoadTypes
  <1> HIDE DEF S
  <1>3. /\ means'[Depth'] = m
        /\ \A i \in 1..Depth' : i # Depth' => means'[i] = means[i]
    BY <1>2, MeansPushed
  <1>4. Depth' \in 1..Depth'
    BY <1>1
  <1>5. \A i \in 1..Depth : /\ i < Depth' => i \in 1..Depth' /\ i # Depth'
                            /\ i >= Depth' => Depth - i \in 0..(k - 1) /\ Depth - (Depth - i) = i
    BY <1>1
  <1>6. /\ \A i \in 1..Depth' : i \in Places' <=> stack'[i].sym \in NodeSyms
        /\ \A i \in 1..Depth : i \in Places <=> stack[i].sym \in NodeSyms
    BY <1>1 DEF Places
  <1>7. QED
    BY <1>1, <1>3, <1>4, <1>5, <1>6

LEMMA StackTurn ==
  ASSUME OwnershipInv, OwnershipInv', LoadTypes, StackMeant,
         NEW k, NEW e, Pops(k, e), e.sym # "ANCHOR", \A j \in 0..(k - 1) : Sym(j) # "ANCHOR",
         NEW m, MeansTop(k, m), UNCHANGED <<anchors, current, defs, bad, anchorOf>>,
         \A n \in live \cap live' : content'[n].uid = content[n].uid,
         e.sym \in NodeSyms => Pushes(k, e, m)
  PROVE  StackMeant'
  <1>1. /\ Depth \in Nat /\ Depth' \in Nat /\ k \in 0..Depth /\ Depth' = Depth - k + 1
        /\ DOMAIN stack = 1..Depth /\ DOMAIN stack' = 1..Depth' /\ Depth' \in 1..Depth'
        /\ stack'[Depth'] = e /\ means'[Depth'] = m
        /\ \A i \in 1..Depth' : i # Depth' => i \in 1..Depth /\ stack'[i] = stack[i] /\ means'[i] = means[i]
        /\ \A i \in 1..Depth : i < Depth' => i \in 1..Depth' /\ i # Depth'
        /\ \A i \in 1..Depth : i >= Depth' => Depth - i \in 0..(k - 1) /\ Depth - (Depth - i) = i
        /\ \A i \in 1..Depth' : i \in Places' <=> stack'[i].sym \in NodeSyms
        /\ \A i \in 1..Depth : i \in Places <=> stack[i].sym \in NodeSyms
    BY Spots
  <1>2. /\ \A i \in Places : stack[i].val \in live
        /\ \A i \in Places' : stack'[i].val \in live'
        /\ bad \subseteq live
        /\ \A n \in Nodes \ live : anchorOf[n] = NONE
        /\ live' \subseteq Nodes
    BY DEF OwnershipInv, StackSound, TablesSound, TypeOK
  <1>3. Words' = Words
    BY DEF Words
  <1>4. ASSUME NEW n \in live \cap live', NEW x, AimsAt(n, x)
        PROVE  AimsAt(n, x)'
    BY <1>3, <1>4 DEF AimsAt
  <1>5. \A i \in 1..Depth' : e.sym \in NodeSyms /\ i = Depth' => i \in Places'
    BY <1>1
  <1>6. ASSUME e.sym \in NodeSyms, NEW j \in 0..(k - 1), Sym(j) \in NodeSyms, e.val = Val(j), m = Top(j)
        PROVE  /\ Depth - j \in Places /\ stack[Depth - j].val = e.val /\ means[Depth - j] = m
    <2>1. j \in Nat
      BY <1>1
    <2>2. QED
      BY <1>6, <2>1, TopPlace DEF Top, Val, OwnershipInv
  <1>7. Aimed'
    <2>1. ASSUME NEW i \in Places'
          PROVE  \A n, x : n = stack'[i].val /\ x = means'[i] => AimsAt(n, x)'
      <3>1. i \in 1..Depth'
        BY <1>1 DEF Places
      <3>2. CASE i # Depth'
        <4>1. i \in Places /\ stack'[i].val = stack[i].val /\ means'[i] = means[i]
          BY <1>1, <2>1, <3>1, <3>2
        <4>2. stack[i].val \in live \cap live' /\ AimsAt(stack[i].val, means[i])
          BY <1>2, <2>1, <4>1 DEF StackMeant, Aimed
        <4>3. QED
          BY <1>4, <4>1, <4>2
      <3>3. CASE i = Depth'
        <4>1. e.sym \in NodeSyms /\ e.val \in live' /\ stack'[i] = e /\ means'[i] = m
          BY <1>1, <1>2, <2>1, <3>1, <3>3
        <4>2. CASE e.val \notin live /\ m = Node(content'[e.val].uid)
          <5>1. e.val \notin bad' /\ anchorOf'[e.val] = NONE
            BY <1>2, <4>1, <4>2
          <5>2. \A n, x : n = e.val /\ x = m => AimsAt(n, x)'
            BY <4>2, <5>1 DEF AimsAt, Points
          <5>3. QED
            BY <4>1, <5>2
        <4>3. CASE \E j \in 0..(k - 1) : Sym(j) \in NodeSyms /\ e.val = Val(j) /\ m = Top(j)
          <5>1. PICK j \in 0..(k - 1) : Sym(j) \in NodeSyms /\ e.val = Val(j) /\ m = Top(j)
            BY <4>3
          <5>2. AimsAt(e.val, m) /\ e.val \in live
            BY <1>2, <1>6, <4>1, <5>1 DEF StackMeant, Aimed
          <5>3. QED
            BY <1>4, <4>1, <5>2
        <4>4. QED
          BY <4>1, <4>2, <4>3 DEF Pushes
      <3>4. QED
        BY <3>2, <3>3
    <2>2. QED
      BY <2>1 DEF Aimed
  <1>8. \A x \in Names : \A i \in 1..Depth : stack[i] = Token(x) => i < Depth'
    <2>1. ASSUME NEW x \in Names, NEW i \in 1..Depth, stack[i] = Token(x), ~(i < Depth')
          PROVE  FALSE
      <3>1. Depth - i \in 0..(k - 1) /\ Depth - (Depth - i) = i
        BY <1>1, <2>1
      <3>2. Sym(Depth - i) = stack[i].sym
        BY <1>1, <3>1 DEF Sym
      <3>3. QED
        BY <2>1, <3>1, <3>2 DEF Token
    <2>2. QED
      BY <2>1
  <1>9. \A x \in Names : e # Token(x)
    BY DEF Token
  <1>10. TokensSound'
    <2>1. ASSUME NEW i \in 1..Depth', NEW x \in Names, stack'[i] = Token(x)
          PROVE  /\ anchors'[x] = DEFINING /\ means'[i] = Def(current'[x])
                 /\ \A j \in 1..Depth' : stack'[j] = Token(x) => i = j
      <3>1. \A j \in 1..Depth' : stack'[j] = Token(x) =>
              j # Depth' /\ j \in 1..Depth /\ stack[j] = Token(x) /\ means'[j] = means[j]
        BY <1>1, <1>9
      <3>2. i \in 1..Depth /\ stack[i] = Token(x) /\ means'[i] = means[i]
        BY <2>1, <3>1
      <3>3. /\ anchors[x] = DEFINING /\ means[i] = Def(current[x])
            /\ \A j \in 1..Depth : stack[j] = Token(x) => i = j
        BY <1>1, <3>2 DEF StackMeant, TokensSound
      <3>4. means'[i] = Def(current'[x])
        BY <3>2, <3>3
      <3>5. QED
        BY <3>1, <3>3, <3>4
    <2>2. QED
      BY <1>1, <2>1 DEF TokensSound, Token
  <1>11. BadAbove'
    <2>1. ASSUME NEW i \in 1..Depth, i \in Places, stack[i].val \in bad, NEW l \in 1..Depth', l # Depth' => l >= i
          PROVE  \E j \in 1..Depth' : j < l /\ stack'[j] = Token(anchorOf[stack[i].val])
      <3>1. PICK j \in 1..Depth : j < i /\ stack[j] = Token(anchorOf[stack[i].val])
        BY <1>1, <2>1 DEF StackMeant, BadAbove
      <3>2. anchorOf[stack[i].val] \in Names
        BY <2>1 DEF OwnershipInv, TablesSound, TypeOK
      <3>3. j < Depth'
        BY <1>8, <3>1, <3>2
      <3>4. j \in 1..Depth' /\ j # Depth' /\ stack'[j] = stack[j]
        BY <1>1, <3>3
      <3>5. j < l
        BY <1>1, <2>1, <3>1, <3>3
      <3>6. QED
        BY <3>1, <3>4, <3>5
    <2>2. ASSUME NEW i \in Places', stack'[i].val \in bad
          PROVE  \E j \in 1..Depth' : j < i /\ stack'[j] = Token(anchorOf[stack'[i].val])
      <3>1. i \in 1..Depth'
        BY <1>1 DEF Places
      <3>2. CASE i # Depth'
        <4>1. i \in Places /\ i \in 1..Depth /\ stack'[i] = stack[i]
          BY <1>1, <2>2, <3>1, <3>2
        <4>2. QED
          BY <2>1, <2>2, <3>1, <4>1
      <3>3. CASE i = Depth'
        <4>1. e.sym \in NodeSyms /\ stack'[i] = e /\ e.val \in live
          BY <1>1, <1>2, <2>2, <3>1, <3>3
        <4>2. PICK j \in 0..(k - 1) : Sym(j) \in NodeSyms /\ e.val = Val(j) /\ m = Top(j)
          BY <4>1 DEF Pushes
        <4>3. Depth - j \in Places /\ stack[Depth - j].val = e.val /\ Depth - j \in 1..Depth
          BY <1>1, <1>6, <4>1, <4>2 DEF Places
        <4>4. QED
          BY <2>1, <2>2, <3>1, <3>3, <4>1, <4>3
      <3>4. QED
        BY <3>2, <3>3
    <2>3. QED
      BY <1>1, <2>2 DEF BadAbove, Token
  <1>12. QED
    BY <1>7, <1>10, <1>11 DEF StackMeant

(* A mapping with a sequence waiting is a block mapping on the stack.      *)
LEMMA NoShortcut ==
  ASSUME OwnershipInv, ~croaked
  PROVE  /\ \A n \in Nodes : shortcut[n] # NONE =>
              /\ n \in live /\ shortcut[n] # n
              /\ shortcut[n] \in live /\ shortcut[n] \in Nodes /\ shortcut[n] \notin bad
              /\ shortcut[shortcut[n]] = NONE
         /\ \A k \in Nat : Sym(k) \in {"ATOM", "KEY", "PAIR", "SEQ", "MAP"} => shortcut[Val(k)] = NONE
  <1>1. ASSUME NEW n \in Nodes, shortcut[n] # NONE
        PROVE  /\ shortcut[n] \in live /\ anchorOf[shortcut[n]] = NONE
               /\ \E i \in Places : stack[i].sym \in {"BMAP", "TMAP"} /\ stack[i].val = n
               /\ \A i \in Places : stack[i].val # shortcut[n]
    BY <1>1 DEF OwnershipInv, ShortcutsSound
  <1>2. /\ live \subseteq Nodes /\ \A n \in bad : anchorOf[n] # NONE
        /\ \A i \in Places : stack[i].val \in live
        /\ TypeOK /\ StackSound
    BY DEF OwnershipInv, StackSound, TablesSound, TypeOK
  <1>3. ASSUME NEW k \in Nat, Sym(k) \in {"ATOM", "KEY", "PAIR", "SEQ", "MAP"}, shortcut[Val(k)] # NONE
        PROVE  FALSE
    <2>1. /\ Depth - k \in Places /\ Val(k) \in live
          /\ \A i \in Places : i # Depth - k /\ stack[i].val = Val(k) => stack[i].sym \in {"ATOM", "KEY"}
      BY <1>2, <1>3, TopPlace DEF NodeSyms
    <2>2. stack[Depth - k].sym = Sym(k)
      BY <1>2, <1>3, Repushed DEF NodeSyms
    <2>3. PICK i \in Places : stack[i].sym \in {"BMAP", "TMAP"} /\ stack[i].val = Val(k)
      BY <1>1, <1>2, <1>3, <2>1
    <2>4. QED
      BY <1>3, <2>1, <2>2, <2>3
  <1>4. QED
    BY <1>1, <1>2, <1>3

LEMMA RootSyms ==
  ASSUME LoadTypes
  PROVE  /\ Len(roots) \in Nat
         /\ \A i \in 1..Len(roots) : roots[i].sym \in 1..Len(heap.syms) /\ roots[i].aim \in Meaning
  <1> DEFINE S == [sym : 1..Len(heap.syms), aim : Meaning]
  <1>1. roots \in Seq(S)
    BY DEF LoadTypes
  <1>2. \A r \in S : r.sym \in 1..Len(heap.syms) /\ r.aim \in Meaning
    OBVIOUS
  <1> HIDE DEF S
  <1>3. QED
    BY <1>1, <1>2

MapsLive == \A n \in Nodes : shortcut[n] # NONE => n \in live
LEMMA ShortcutsLive == OwnershipInv' /\ ~croaked' => MapsLive'
  <1>1. OwnershipInv /\ ~croaked => MapsLive
    BY NoShortcut DEF MapsLive
  <1>2. QED
    BY <1>1, PTL

LEMMA MeaningTurn ==
  ASSUME Parse, ValuesSound, MeaningSound,
         NEW k, NEW e, Pops(k, e), e.sym # "ANCHOR", \A j \in 0..(k - 1) : Sym(j) # "ANCHOR",
         NEW m, MeansTop(k, m), e.sym \in NodeSyms => Pushes(k, e, m),
         UNCHANGED <<anchors, current, defs, bad, anchorOf, roots>>,
         NEW w, NEW S, Tidy(w, S), Settled(w), Extends(heap, w.heap), Told(Words, w, body'), NewTold(w),
         \A n \in S : shortcut'[n] = NONE,
         \A n \in live : shortcut'[n] # NONE => shortcut[n] # NONE \/ (content[n].id = 0 /\ n \notin bad)
  PROVE  MeaningSound'
  <1>1. Words' = Words
    BY DEF Words
  <1>2. Learns(Words, Words')
    BY <1>1, LearnsSame
  <1>3. /\ OwnershipInv /\ PendingInv /\ OwnershipInv' /\ LoadTypes /\ ~croaked /\ ~croaked'
        /\ World(w) /\ Keeps(w)
    BY DEF Parse, Tidy
  <1>4. Upkeep(w)
    BY DEF Upkeep, Settled
  <1>5. Told(Words, Now, body)'
    BY <1>2, <1>3, <1>4, ToldStep
  <1>6. /\ live \subseteq Nodes /\ live' \subseteq Nodes
        /\ \A x \in Names : anchors[x] \in Nodes => anchors[x] \in live /\ anchors[x] \in live'
    BY <1>3 DEF OwnershipInv, TypeOK, TablesSound
  <1>7. \A n \in live \cap live' : content'[n].uid = content[n].uid
    BY <1>3, <1>6 DEF Settled, Keeps
  <1>8. Glossary'
    BY <1>6, <1>7 DEF MeaningSound, Glossary
  <1>9. StackMeant'
    BY <1>3, <1>7, StackTurn DEF MeaningSound
  <1>10. ShortUnhandled'
    <2>1. ASSUME NEW n \in Nodes, shortcut'[n] # NONE
          PROVE  content'[n].id = 0 /\ n \notin bad'
      <3>1. n \in live' /\ bad \subseteq live
        BY <1>3, <2>1, ShortcutsLive DEF MapsLive, OwnershipInv, TablesSound
      <3>2. CASE n \notin live
        BY <3>1, <3>2 DEF Settled
      <3>3. CASE n \in live
        <4>1. content'[n] = w.content[n]
          BY <3>1, <3>3 DEF Settled
        <4>2. n \notin S
          BY <2>1
        <4>3. w.content[n].id = content[n].id
          BY <4>2 DEF Tidy
        <4>4. content[n].id = 0 /\ n \notin bad
          BY <2>1, <3>3 DEF MeaningSound, ShortUnhandled
        <4>5. QED
          BY <4>1, <4>3, <4>4
      <3>4. QED
        BY <3>2, <3>3
    <2>2. QED
      BY <2>1 DEF ShortUnhandled
  <1>11. RootsMeant'
    <2>1. heap' = w.heap /\ Learns(Words, Words)
      BY LearnsSame DEF Settled
    <2>2. ASSUME NEW i \in 1..Len(roots)
          PROVE  For(Words, w.heap.boxes, w.heap.syms[roots[i].sym], roots[i].aim)
      <3>1. roots[i].sym \in 1..Len(heap.syms)
        BY <1>3, RootSyms
      <3>2. w.heap.syms[roots[i].sym] = heap.syms[roots[i].sym]
        BY <3>1 DEF Extends
      <3>3. For(Words, heap.boxes, heap.syms[roots[i].sym], roots[i].aim)
        BY DEF MeaningSound, RootsMeant
      <3>4. QED
        BY <2>1, <3>2, <3>3, ForGrows
    <2>3. QED
      BY <1>1, <2>1, <2>2 DEF RootsMeant
  <1>12. QED
    BY <1>5, <1>8, <1>9, <1>10, <1>11 DEF MeaningSound

Scene == Parse /\ ValuesSound /\ MeaningSound

(* A step that builds a node and puts it on the stack.                     *)
LEMMA MeaningMade ==
  ASSUME Scene, NEW k, NEW e, Pops(k, e), e.sym \in NodeSyms, e.val = Fresh,
         \A j \in 0..(k - 1) : Sym(j) # "ANCHOR", MeansTop(k, Node(NextUid)),
         UNCHANGED <<anchors, current, defs, bad, anchorOf, roots, shortcut, returned>>,
         NEW w, NEW S, Tidy(w, S), Extends(heap, w.heap), Told(Words, w, body),
         \A n \in S : shortcut[n] = NONE,
         Len(body') \in Nat, Len(body) + 1 <= Len(body'), \A u \in 1..Len(body) : body'[u] = body[u],
         NEW node, LeaveNew(w, node), node.id = 0, node.uid = NextUid,
         Fresh \in Nodes \ live, live' \subseteq live \cup {Fresh}, Fresh \in live',
         \/ node.kind = "str"
         \/ node.items \in Seq(1..Len(w.heap.syms)) /\ Lists(Words, w.heap, node.items, body'[NextUid])
  PROVE  MeaningSound'
  <1>1. /\ Parse /\ ValuesSound /\ MeaningSound /\ OwnershipInv /\ PendingInv /\ World(w) /\ Apart(w)
    BY DEF Scene, Parse, Tidy
  <1>2. Settled(w) /\ content'[Fresh] = node
    BY <1>1, SettledNew
  <1>3. Told(Words, w, body')
    BY <1>1, ToldMore
  <1>4. NewTold(w)
    BY <1>2 DEF NewTold
  <1>5. Pushes(k, e, Node(NextUid)) /\ e.sym # "ANCHOR"
    BY <1>2 DEF Pushes, NodeSyms
  <1>6. \A n \in live : shortcut'[n] # NONE => shortcut[n] # NONE \/ (content[n].id = 0 /\ n \notin bad)
    OBVIOUS
  <1>7. \A n \in S : shortcut'[n] = NONE
    OBVIOUS
  <1> DEFINE m == Node(NextUid)
  <1>8. MeansTop(k, m) /\ Pushes(k, e, m)
    BY <1>5
  <1> HIDE DEF m
  <1>9. UNCHANGED <<anchors, current, defs, bad, anchorOf, roots>>
    OBVIOUS
  <1>10. /\ Pops(k, e) /\ \A j \in 0..(k - 1) : Sym(j) # "ANCHOR"
         /\ Tidy(w, S) /\ Extends(heap, w.heap)
    OBVIOUS
  <1>11. QED
    BY ONLY <1>1, <1>2, <1>3, <1>4, <1>5, <1>6, <1>7, <1>8, <1>9, <1>10, MeaningTurn

(* Nothing is handled.                                                     *)
LEMMA NowScene ==
  ASSUME Scene
  PROVE  /\ Tidy(Now, {}) /\ Extends(heap, heap) /\ Told(Words, Now, body) /\ Now.heap = heap
         /\ Now.content = content /\ Len(body) \in Nat /\ OwnershipInv /\ OwnershipInv' /\ PendingInv
         /\ IsSeq(body) /\ Len(heap.syms) \in Nat /\ TypeOK
         /\ \A x : Len(Append(body, x)) = Len(body) + 1 /\ Append(body, x)[Len(body) + 1] = x
         /\ \A x : \A u \in 1..Len(body) : Append(body, x)[u] = body[u]
         /\ \A k \in Nat : Sym(k) \in {"ATOM", "KEY", "PAIR", "SEQ", "MAP"} => shortcut[Val(k)] = NONE
  <1>1. /\ OwnershipInv /\ OwnershipInv' /\ PendingInv /\ ValuesSound /\ MeaningSound /\ ~croaked
    BY DEF Scene, Parse
  <1>2. Tidy(Now, {}) /\ Len(heap.syms) \in Nat /\ Len(heap.boxes) \in Nat
    BY <1>1, TidyNow, NowLens
  <1>3. Extends(heap, heap)
    BY <1>2 DEF Extends
  <1>4. IsSeq(body)
    BY <1>1 DEF PendingInv
  <1>5. /\ Len(body) \in Nat
        /\ \A x : Len(Append(body, x)) = Len(body) + 1 /\ Append(body, x)[Len(body) + 1] = x
        /\ \A x : \A u \in 1..Len(body) : Append(body, x)[u] = body[u]
    BY <1>4, Appended, IsSeqFacts
  <1>6. \A k \in Nat : Sym(k) \in {"ATOM", "KEY", "PAIR", "SEQ", "MAP"} => shortcut[Val(k)] = NONE
    BY <1>1, NoShortcut
  <1>7. QED
    BY <1>1, <1>2, <1>3, <1>4, <1>5, <1>6 DEF MeaningSound, Now, OwnershipInv

LEMMA MeaningScalar ==
  ASSUME Scene, LoadScalar
  PROVE  MeaningSound'
  <1> DEFINE e == [sym |-> "ATOM", val |-> Fresh]
             node == NewNode("str", NextUid, <<>>)
  <1>1. /\ Tidy(Now, {}) /\ Extends(heap, Now.heap) /\ Told(Words, Now, body)
        /\ Len(body) \in Nat /\ TypeOK
    BY NowScene
  <1>2. /\ Fresh \in Nodes \ live /\ Pops(0, e)
        /\ live' = live \cup {Fresh} /\ UNCHANGED <<bad, anchorOf, anchors, shortcut>>
        /\ LeaveNew(Now, node) /\ body' = Append(body, <<>>) /\ MeansTop(0, Node(NextUid))
        /\ UNCHANGED <<roots, defs, current, returned>>
    BY <1>1, ShiftScalarShape DEF LoadScalar, ShiftScalar
  <1>3. Len(body') = Len(body) + 1 /\ \A u \in 1..Len(body) : body'[u] = body[u]
    BY <1>2, NowScene
  <1>4. node.id = 0 /\ node.uid = NextUid /\ node.kind = "str"
    BY DEF NewNode
  <1>5. e.sym \in NodeSyms /\ e.val = Fresh
    BY DEF NodeSyms
  <1>6. /\ Len(body') \in Nat /\ Len(body) + 1 <= Len(body')
        /\ live' \subseteq live \cup {Fresh} /\ Fresh \in live'
        /\ UNCHANGED <<anchors, current, defs, bad, anchorOf, roots, shortcut, returned>>
    BY <1>1, <1>2, <1>3
  <1>7. \A j \in 0..(0 - 1) : Sym(j) # "ANCHOR"
    OBVIOUS
  <1>8. \A n \in {} : shortcut[n] = NONE
    OBVIOUS
  <1> HIDE DEF e, node
  <1>9. QED
    BY ONLY Scene, <1>1, <1>2, <1>3, <1>4, <1>5, <1>6, <1>7, <1>8, MeaningMade

LEMMA MeaningEmptyFlow ==
  ASSUME Scene, LoadEmptyFlow
  PROVE  MeaningSound'
  <1> DEFINE e == [sym |-> "ATOM", val |-> Fresh]
             node == NewNode("seq", NextUid, <<>>)
  <1>1. /\ Tidy(Now, {}) /\ Extends(heap, Now.heap) /\ Told(Words, Now, body)
        /\ Len(body) \in Nat /\ TypeOK
    BY NowScene
  <1>2. /\ Fresh \in Nodes \ live /\ Pops(1, e) /\ Sym(0) \in {"LBRACKET", "LBRACE"}
        /\ live' = live \cup {Fresh} /\ UNCHANGED <<bad, anchorOf, anchors, shortcut>>
        /\ LeaveNew(Now, node) /\ body' = Append(body, <<>>) /\ MeansTop(1, Node(NextUid))
        /\ UNCHANGED <<roots, defs, current, returned>>
    BY <1>1, CloseEmptyFlowShape DEF LoadEmptyFlow, CloseEmptyFlow
  <1>3. /\ Len(body') = Len(body) + 1 /\ \A u \in 1..Len(body) : body'[u] = body[u]
        /\ body'[NextUid] = <<>>
    BY <1>2, NowScene DEF NextUid
  <1>4. node.id = 0 /\ node.uid = NextUid /\ node.items = <<>>
    BY DEF NewNode
  <1>5. e.sym \in NodeSyms /\ e.val = Fresh
    BY DEF NodeSyms
  <1>6. /\ Len(body') \in Nat /\ Len(body) + 1 <= Len(body')
        /\ live' \subseteq live \cup {Fresh} /\ Fresh \in live'
        /\ UNCHANGED <<anchors, current, defs, bad, anchorOf, roots, shortcut, returned>>
    BY <1>1, <1>2, <1>3
  <1>7. \A j \in 0..(1 - 1) : Sym(j) # "ANCHOR"
    BY <1>2
  <1>8. \A n \in {} : shortcut[n] = NONE
    OBVIOUS
  <1> HIDE DEF node
  <1>9. Len(node.items) = 0 /\ Len(body'[NextUid]) = 0 /\ node.items \in Seq(1..Len(Now.heap.syms))
    BY <1>3, <1>4, SeqFacts
  <1>10. Lists(Words, Now.heap, node.items, body'[NextUid])
    BY <1>9 DEF Lists
  <1>11. \/ node.kind = "str"
         \/ node.items \in Seq(1..Len(Now.heap.syms)) /\ Lists(Words, Now.heap, node.items, body'[NextUid])
    BY <1>9, <1>10
  <1> DEFINE w == Now
             S == {}
  <1>12. /\ Tidy(w, S) /\ Extends(heap, w.heap) /\ Told(Words, w, body) /\ LeaveNew(w, node)
         /\ \A n \in S : shortcut[n] = NONE
         /\ \/ node.kind = "str"
            \/ node.items \in Seq(1..Len(w.heap.syms)) /\ Lists(Words, w.heap, node.items, body'[NextUid])
    BY <1>1, <1>2, <1>8, <1>11
  <1> HIDE DEF e, w, S
  <1>13. QED
    BY ONLY Scene, <1>2, <1>3, <1>4, <1>5, <1>6, <1>7, <1>12, MeaningMade

(* A step that only moves the stack.                                       *)
LEMMA MeaningPlain ==
  ASSUME Scene, NEW k, NEW e, Pops(k, e), e.sym # "ANCHOR", \A j \in 0..(k - 1) : Sym(j) # "ANCHOR",
         NEW m, MeansTop(k, m), e.sym \in NodeSyms => Pushes(k, e, m),
         UNCHANGED <<anchors, current, defs, bad, anchorOf, roots, shortcut, returned>>,
         UNCHANGED <<content, heap, live, body>>
  PROVE  MeaningSound'
  <1>1. /\ Parse /\ ValuesSound /\ MeaningSound /\ PendingInv
    BY DEF Scene, Parse
  <1>2. /\ Tidy(Now, {}) /\ Extends(heap, Now.heap) /\ Told(Words, Now, body')
    BY NowScene
  <1>3. Settled(Now)
    BY <1>1, SettledSame
  <1>4. NewTold(Now)
    BY DEF NewTold
  <1>5. \A n \in live : shortcut'[n] # NONE => shortcut[n] # NONE \/ (content[n].id = 0 /\ n \notin bad)
    OBVIOUS
  <1>6. \A n \in {} : shortcut'[n] = NONE
    OBVIOUS
  <1>7. UNCHANGED <<anchors, current, defs, bad, anchorOf, roots>>
    OBVIOUS
  <1>8. /\ Pops(k, e) /\ e.sym # "ANCHOR" /\ \A j \in 0..(k - 1) : Sym(j) # "ANCHOR"
        /\ MeansTop(k, m) /\ (e.sym \in NodeSyms => Pushes(k, e, m))
    OBVIOUS
  <1>9. QED
    BY ONLY <1>1, <1>2, <1>3, <1>4, <1>5, <1>6, <1>7, <1>8, MeaningTurn

LEMMA MeaningMark ==
  ASSUME Scene, LoadMark
  PROVE  MeaningSound'
  <1>1. /\ \/ \E s \in {"LBRACKET", "LBRACE", "IOPEN"} : ShiftOpen(s)
           \/ ShiftSep
           \/ ShiftDash
        /\ UNCHANGED <<bad, anchorOf, anchors, shortcut, live>>
        /\ UNCHANGED <<content, heap, body, returned, current, defs, roots>>
        /\ MeansTop(0, Nothing(NONE))
    BY LoadAssumption DEF LoadMark, ShiftOpen, ShiftSep, ShiftDash
  <1>2. PICK s \in MarkSyms : Pops(0, [sym |-> s, val |-> NONE])
    BY <1>1, NowScene, ShiftMarkShape
  <1> DEFINE e == [sym |-> s, val |-> NONE]
  <1>3. e.sym # "ANCHOR" /\ e.sym \notin NodeSyms /\ Pops(0, e)
    BY <1>2 DEF MarkSyms, NodeSyms
  <1> HIDE DEF e
  <1>4. QED
    BY <1>1, <1>3, MeaningPlain

LEMMA MeaningClose ==
  ASSUME Scene, LoadClose
  PROVE  MeaningSound'
  <1>1. /\ UNCHANGED <<bad, anchorOf, anchors, shortcut, live>>
        /\ UNCHANGED <<content, heap, body, returned, current, defs, roots>>
        /\ MeansTop(2, Top(0)) /\ Sym(1) \in {"LBRACKET", "LBRACE", "SEP"}
    BY DEF LoadClose, CloseFlow, ReduceTopMap
  <1>2. PICK s \in {"ATOM", "TMAP"} :
          Pops(2, [sym |-> s, val |-> Val(0)]) /\ Sym(0) \in {"SEQ", "MAP", "BMAP"}
    BY CloseFlowShape, ReduceTopMapShape, NowScene DEF LoadClose
  <1> DEFINE e == [sym |-> s, val |-> Val(0)]
  <1>3. e.sym # "ANCHOR" /\ e.val = Val(0) /\ Pops(2, e)
    BY <1>2
  <1>4. \A j \in 0..(2 - 1) : Sym(j) # "ANCHOR"
    BY <1>1, <1>2
  <1> HIDE DEF e
  <1>5. Pushes(2, e, Top(0))
    <2>1. 0 \in 0..(2 - 1) /\ Sym(0) \in NodeSyms
      BY <1>2 DEF NodeSyms
    <2>2. QED
      BY <1>3, <2>1 DEF Pushes
  <1>6. QED
    BY <1>1, <1>3, <1>4, <1>5, MeaningPlain

LEMMA Unmoved ==
  ASSUME LoadTypes, Depth \in Nat, Depth # 0, UNCHANGED means
  PROVE  MeansTop(1, Top(0))
  <1>1. means \in Seq(Meaning) /\ Len(means) = Depth /\ Depth - 0 = Depth
    BY DEF LoadTypes
  <1> DEFINE t == Append(SubSeq(means, 1, Depth - 1), means[Depth])
  <1>2. /\ t \in Seq(Meaning) /\ Len(t) = Depth
        /\ \A i \in 1..Depth : t[i] = means[i]
    BY <1>1
  <1> HIDE DEF t
  <1>3. t = means
    BY <1>1, <1>2
  <1>4. QED
    BY <1>1, <1>3 DEF t, MeansTop, Top

LEMMA MeaningRename ==
  ASSUME Scene, LoadRename
  PROVE  MeaningSound'
  <1>1. /\ UNCHANGED <<bad, anchorOf, anchors, shortcut, live>>
        /\ UNCHANGED <<content, heap, body, returned, current, defs, roots, means>>
    BY DEF LoadRename, ShiftColon, ReduceFirstPair, loadVars
  <1>2. PICK s \in {"KEY", "MAP", "BMAP"} :
          Pops(1, [sym |-> s, val |-> Val(0)]) /\ Sym(0) \in {"ATOM", "PAIR"}
    BY ShiftColonShape, ReduceFirstPairShape, NowScene DEF LoadRename
  <1> DEFINE e == [sym |-> s, val |-> Val(0)]
  <1>3. e.sym # "ANCHOR" /\ e.val = Val(0) /\ Pops(1, e)
    BY <1>2
  <1>4. \A j \in 0..(1 - 1) : Sym(j) # "ANCHOR"
    BY <1>2
  <1> HIDE DEF e
  <1>5. Pushes(1, e, Top(0))
    <2>1. 0 \in 0..(1 - 1) /\ Sym(0) \in NodeSyms
      BY <1>2 DEF NodeSyms
    <2>2. QED
      BY <1>3, <2>1 DEF Pushes
  <1>6. MeansTop(1, Top(0))
    <2>1. Depth \in Nat /\ Depth # 0
      BY <1>2, NowScene, StackFacts DEF Sym
    <2>2. QED
      BY <1>1, <2>1, Unmoved DEF Scene, Parse
  <1>7. QED
    BY <1>1, <1>3, <1>4, <1>5, <1>6, MeaningPlain

(* Handling one node more.                                                 *)
LEMMA ExtendsMore ==
  ASSUME NEW h, NEW g, NEW k, Extends(h, g), Extends(g, k)
  PROVE  Extends(h, k)
  <1>1. /\ Len(h.syms) \in Nat /\ Len(g.syms) \in Nat /\ Len(k.syms) \in Nat
        /\ Len(h.syms) <= Len(g.syms) /\ Len(g.syms) <= Len(k.syms)
        /\ Len(h.boxes) \in Nat /\ Len(g.boxes) \in Nat /\ Len(k.boxes) \in Nat
        /\ Len(h.boxes) <= Len(g.boxes) /\ Len(g.boxes) <= Len(k.boxes)
    BY DEF Extends
  <1>2. ASSUME NEW s \in 1..Len(h.syms)
        PROVE  k.syms[s] = h.syms[s]
    <2>1. s \in 1..Len(g.syms)
      BY <1>1
    <2>2. QED
      BY <2>1 DEF Extends
  <1>3. ASSUME NEW c \in 1..Len(h.boxes)
        PROVE  k.boxes[c] = h.boxes[c]
    <2>1. c \in 1..Len(g.boxes)
      BY <1>1
    <2>2. QED
      BY <2>1 DEF Extends
  <1>4. Len(h.syms) <= Len(k.syms) /\ Len(h.boxes) <= Len(k.boxes)
    BY <1>1
  <1>5. QED
    BY <1>1, <1>2, <1>3, <1>4 DEF Extends

(* The contents w of the handler, made of those now by handling the nodes  *)
(* S, say what the document b does.                                        *)
Handled(w, S, b) == Tidy(w, S) /\ Extends(heap, w.heap) /\ Told(Words, w, b)

LEMMA HandledNone ==
  ASSUME Scene
  PROVE  Handled(Now, {}, body)
  BY NowScene DEF Handled

LEMMA HandledAdd ==
  ASSUME OwnershipInv, NEW w, NEW S, NEW b, Handled(w, S, b), NEW n \in live, NEW v, v = AddNode(w, n)
  PROVE  /\ Handled(v, S \cup {n}, b)
         /\ v.content[n].id # 0 /\ v.content[n].id \in 1..Len(v.heap.syms)
         /\ \A m \in Nodes : w.content[m].id # 0 => v.content[m].id # 0
         /\ \A m \in Nodes : m # n => v.content[m] = w.content[m]
  <1>1. Tidy(w, S) /\ Extends(heap, w.heap) /\ Told(Words, w, b) /\ World(w)
    BY DEF Handled, Tidy
  <1>2. Told(Words, v, b) /\ Extends(w.heap, v.heap)
    BY <1>1, ToldAdd
  <1>3. Extends(heap, v.heap)
    BY <1>1, <1>2, ExtendsMore
  <1>4. /\ Tidy(v, S \cup {n})
        /\ v.content[n].id # 0 /\ v.content[n].id \in 1..Len(v.heap.syms)
        /\ \A m \in Nodes : w.content[m].id # 0 => v.content[m].id # 0
        /\ \A m \in Nodes : m # n => v.content[m] = w.content[m]
    BY <1>1, TidyAdd
  <1>5. QED
    BY <1>2, <1>3, <1>4 DEF Handled

(* The symbol of a node on the stack is what the entry stands for.         *)
LEMMA TopFor ==
  ASSUME Scene, NEW w, NEW S, NEW b, Handled(w, S, b), NEW k \in Nat, Sym(k) \in NodeSyms,
         w.content[Val(k)].id # 0
  PROVE  For(Words, w.heap.boxes, w.heap.syms[w.content[Val(k)].id], Top(k))
  <1> DEFINE n == Val(k)
  <1>1. OwnershipInv /\ StackMeant /\ World(w) /\ Keeps(w) /\ Told(Words, w, b)
    BY DEF Scene, Parse, MeaningSound, Handled, Tidy
  <1>2. /\ Depth - k \in Places /\ stack[Depth - k].val = n /\ n \in live /\ n \in Nodes
    BY <1>1, UnderTop, LiveTop
  <1>3. AimsAt(n, Top(k))
    BY <1>1, <1>2 DEF StackMeant, Aimed, Top
  <1>4. w.content[n].uid = content[n].uid
    BY <1>1, <1>2 DEF Keeps
  <1> DEFINE m == Top(k)
  <1> HIDE DEF n, m
  <1>5. AimsAt(n, m) /\ w.content[n].id # 0 /\ n \in live
    BY <1>2, <1>3 DEF n, m
  <1>6. For(Words, w.heap.boxes, w.heap.syms[w.content[n].id], m)
    BY ONLY <1>1, <1>4, <1>5, SymbolFor
  <1>7. QED
    BY <1>6 DEF n, m

LEMMA OneSymbol == \A k \in Nat : \A id \in 1..k : <<id>> \in Seq(1..k)
  OBVIOUS

LEMMA MeaningFirstItem ==
  ASSUME Scene, LoadFirstItem
  PROVE  MeaningSound'
  <1> DEFINE e == [sym |-> "SEQ", val |-> Fresh]
             n == Val(0)
             w == AddNode(Now, n)
             node == NewNode("seq", NextUid, <<w.content[n].id>>)
             S == {} \cup {n}
  <1>1. /\ OwnershipInv /\ OwnershipInv' /\ TypeOK /\ Len(body) \in Nat
    BY NowScene
  <1>2. /\ Fresh \in Nodes \ live /\ Pops(1, e) /\ Sym(0) \in {"ATOM", "PAIR"}
        /\ live' = (live \ Unanchored({n})) \cup {Fresh}
        /\ UNCHANGED <<bad, anchorOf, anchors, shortcut>>
        /\ LeaveNew(w, node) /\ body' = Append(body, <<Top(0)>>) /\ MeansTop(1, Node(NextUid))
        /\ UNCHANGED <<roots, defs, current, returned>>
    BY <1>1, ReduceFirstItemShape DEF LoadFirstItem, ReduceFirstItem, AddNodes
  <1>3. n \in live /\ n \in Nodes /\ Sym(0) \in NodeSyms /\ 0 \in Nat
    BY <1>1, <1>2, LiveTop DEF NodeSyms
  <1>4. Handled(w, S, body) /\ w.content[n].id # 0 /\ w.content[n].id \in 1..Len(w.heap.syms)
    <2>1. Handled(Now, {}, body) /\ w = AddNode(Now, n) /\ OwnershipInv /\ n \in live
      BY <1>1, <1>3, HandledNone
    <2> HIDE DEF w, n
    <2>2. QED
      BY ONLY <2>1, HandledAdd
  <1>5. /\ Len(body') = Len(body) + 1 /\ \A u \in 1..Len(body) : body'[u] = body[u]
        /\ body'[NextUid] = <<Top(0)>>
    BY <1>2, NowScene DEF NextUid
  <1>6. node.id = 0 /\ node.uid = NextUid /\ node.items = <<w.content[n].id>>
    BY DEF NewNode
  <1>7. \A m \in S : shortcut[m] = NONE
    BY <1>2, <1>3, NowScene
  <1>8. e.sym \in NodeSyms /\ e.val = Fresh
    BY DEF NodeSyms
  <1>9. \A j \in 0..(1 - 1) : Sym(j) # "ANCHOR"
    BY <1>2
  <1> HIDE DEF w
  <1>10. For(Words, w.heap.boxes, w.heap.syms[w.content[n].id], Top(0))
    BY <1>3, <1>4, TopFor
  <1> HIDE DEF e, n, S, node
  <1>11. /\ Len(body') \in Nat /\ Len(body) + 1 <= Len(body')
         /\ live' \subseteq live \cup {Fresh} /\ Fresh \in live'
         /\ UNCHANGED <<anchors, current, defs, bad, anchorOf, roots, shortcut, returned>>
    BY <1>1, <1>2, <1>5
  <1>12. \/ node.kind = "str"
         \/ node.items \in Seq(1..Len(w.heap.syms)) /\ Lists(Words, w.heap, node.items, body'[NextUid])
    <2>1. Len(w.heap.syms) \in Nat
      BY <1>4 DEF Handled, Extends
    <2>2. node.items \in Seq(1..Len(w.heap.syms))
      BY <1>4, <1>6, <2>1, OneSymbol
    <2>3. Lists(Words, w.heap, node.items, body'[NextUid])
      BY <1>5, <1>6, <1>10, ListsOne
    <2>4. QED
      BY <2>2, <2>3
  <1>13. Tidy(w, S) /\ Extends(heap, w.heap) /\ Told(Words, w, body)
    BY <1>4 DEF Handled
  <1>14. QED
    BY ONLY Scene, <1>2, <1>5, <1>6, <1>7, <1>8, <1>9, <1>11, <1>12, <1>13, MeaningMade

LEMMA MeaningMapping ==
  ASSUME Scene, LoadMapping
  PROVE  MeaningSound'
  <1> DEFINE e == [sym |-> "PAIR", val |-> Fresh]
             n == Val(0)
             m == Val(1)
             w1 == AddNode(Now, n)
             w == AddNode(w1, m)
             node == NewNode("map", NextUid, <<w.content[n].id>>)
             S1 == {} \cup {n}
             S == S1 \cup {m}
  <1>1. /\ OwnershipInv /\ OwnershipInv' /\ TypeOK /\ Len(body) \in Nat
    BY NowScene
  <1>2. /\ Fresh \in Nodes \ live /\ Pops(2, e) /\ Sym(0) = "ATOM" /\ Sym(1) = "KEY"
        /\ live' = (live \ Unanchored({n, m})) \cup {Fresh}
        /\ UNCHANGED <<bad, anchorOf, anchors, shortcut>>
        /\ LeaveNew(w, node) /\ body' = Append(body, <<Top(0)>>) /\ MeansTop(2, Node(NextUid))
        /\ UNCHANGED <<roots, defs, current, returned>>
    BY <1>1, ReduceMappingShape DEF LoadMapping, ReduceMapping, AddNodes
  <1>3. /\ n \in live /\ n \in Nodes /\ Sym(0) \in NodeSyms /\ 0 \in Nat /\ 1 \in Nat
        /\ m \in live /\ m \in Nodes
    BY <1>1, <1>2, LiveTop DEF NodeSyms
  <1>4. Handled(w1, S1, body) /\ w1.content[n].id # 0
    BY <1>1, <1>3, HandledNone, HandledAdd
  <1>5. /\ Len(body') = Len(body) + 1 /\ \A u \in 1..Len(body) : body'[u] = body[u]
        /\ body'[NextUid] = <<Top(0)>>
    BY <1>2, NowScene DEF NextUid
  <1>6. node.id = 0 /\ node.uid = NextUid /\ node.items = <<w.content[n].id>>
    BY DEF NewNode
  <1>7. \A x \in S : shortcut[x] = NONE
    BY <1>2, <1>3, NowScene
  <1>8. e.sym \in NodeSyms /\ e.val = Fresh
    BY DEF NodeSyms
  <1>9. \A j \in 0..(2 - 1) : Sym(j) # "ANCHOR"
    <2>1. \A j \in 0..(2 - 1) : j = 0 \/ j = 1
      OBVIOUS
    <2>2. QED
      BY <1>2, <2>1
  <1> HIDE DEF w1, S1
  <1>10. Handled(w, S, body) /\ w.content[n].id # 0
    <2>1. Handled(w1, S1, body) /\ w = AddNode(w1, m) /\ OwnershipInv /\ m \in live
      BY <1>1, <1>3, <1>4
    <2> HIDE DEF w, n, m
    <2>2. Handled(w, S1 \cup {m}, body) /\ \A x \in Nodes : w1.content[x].id # 0 => w.content[x].id # 0
      BY ONLY <2>1, HandledAdd
    <2>3. QED
      BY <1>3, <1>4, <2>2
  <1> HIDE DEF w
  <1>11. For(Words, w.heap.boxes, w.heap.syms[w.content[n].id], Top(0))
    BY <1>3, <1>10, TopFor
  <1> HIDE DEF e, n, m, S, node
  <1>12. /\ Len(body') \in Nat /\ Len(body) + 1 <= Len(body')
         /\ live' \subseteq live \cup {Fresh} /\ Fresh \in live'
         /\ UNCHANGED <<anchors, current, defs, bad, anchorOf, roots, shortcut, returned>>
    BY <1>1, <1>2, <1>5
  <1>13. \/ node.kind = "str"
         \/ node.items \in Seq(1..Len(w.heap.syms)) /\ Lists(Words, w.heap, node.items, body'[NextUid])
    <2>1. Len(w.heap.syms) \in Nat /\ World(w)
      BY <1>10 DEF Handled, Extends, Tidy
    <2>2. w.content[n].id \in 1..Len(w.heap.syms)
      <3>1. w.content[n].id \in 0..Len(w.heap.syms)
        BY <1>3, <2>1 DEF World, NodeType
      <3>2. QED
        BY <1>10, <2>1, <3>1
    <2>3. node.items \in Seq(1..Len(w.heap.syms))
      BY <1>6, <2>1, <2>2, OneSymbol
    <2>4. Lists(Words, w.heap, node.items, body'[NextUid])
      BY <1>5, <1>6, <1>11, ListsOne
    <2>5. QED
      BY <2>3, <2>4
  <1>14. Tidy(w, S) /\ Extends(heap, w.heap) /\ Told(Words, w, body)
    BY <1>10 DEF Handled
  <1>15. QED
    BY ONLY Scene, <1>2, <1>5, <1>6, <1>7, <1>8, <1>9, <1>12, <1>13, <1>14, MeaningMade

(* The null of a lone key.                                                 *)
LEMMA ToldGrows ==
  ASSUME OwnershipInv, NEW g, NEW w, World(w), NEW b, Told(g, w, b),
         NEW v, v.content = w.content, v.heap.boxes = w.heap.boxes, Extends(w.heap, v.heap)
  PROVE  Told(g, v, b)
  <1> DEFINE h == w.heap
             k == v.heap
  <1>1. Learns(g, g) /\ Extends(h, k) /\ k.boxes = h.boxes
    BY LearnsSame
  <1>2. \A n \in live : w.content[n].items \in Seq(1..Len(h.syms)) /\ w.content[n].id \in 0..Len(h.syms)
    BY DEF World, NodeType, OwnershipInv, TypeOK
  <1>3. Len(h.syms) \in Nat
    BY <1>1 DEF Extends
  <1> HIDE DEF h, k
  <1>4. ItemsTold(g, v, b)
    <2>1. ASSUME NEW n \in live, n \notin bad, w.content[n].kind # "str"
          PROVE  Lists(g, k, w.content[n].items, b[w.content[n].uid])
      <3>1. Lists(g, h, w.content[n].items, b[w.content[n].uid])
        BY <2>1 DEF Told, ItemsTold, h
      <3>2. w.content[n].items \in Seq(1..Len(h.syms))
        BY <1>2
      <3>3. QED
        BY ONLY <1>1, <3>1, <3>2, ListsGrows
    <2>2. QED
      BY <2>1 DEF ItemsTold, k
  <1>5. BoxesTold(g, v, b)
    BY <1>1 DEF Told, BoxesTold, h, k
  <1>6. SymsTold(g, v)
    <2>1. ASSUME NEW n \in live, w.content[n].id # 0
          PROVE  SymTold(g, k, n, w.content[n])
      <3>1. SymTold(g, h, n, w.content[n])
        BY <2>1 DEF Told, SymsTold, h
      <3>2. w.content[n].id \in 1..Len(h.syms)
        BY <1>2, <1>3, <2>1
      <3>3. QED
        BY <1>1, <3>1, <3>2, SymToldGrows
    <2>2. QED
      BY <2>1 DEF SymsTold, k
  <1>7. QED
    BY <1>4, <1>5, <1>6 DEF Told

LEMMA HandledNull ==
  ASSUME Scene, NEW h, h = AddSym(heap, Str(NextUid + 1)), NEW null, null = [heap |-> h, content |-> content]
  PROVE  /\ Handled(null, {}, body)
         /\ Len(h.syms) = Len(heap.syms) + 1 /\ h.syms[Len(h.syms)] = Str(NextUid + 1)
  <1>1. /\ OwnershipInv /\ PendingInv /\ ValuesSound /\ Told(Words, Now, body) /\ World(Now)
        /\ Now.heap = heap /\ Now.content = content
    BY NowScene DEF Scene, Parse, PendingInv
  <1>2. HeapSound(heap) /\ heap \in HeapType
    BY <1>1, NowFacts DEF PendingInv, HeapSound
  <1>3. h.syms = Append(heap.syms, Str(NextUid + 1)) /\ h.boxes = heap.boxes
    BY <1>2, AddSymIs
  <1>4. Len(heap.syms) \in Nat /\ Len(heap.boxes) \in Nat /\ IsSeq(heap.syms)
    BY <1>2, HeapIs
  <1>5. /\ Len(h.syms) = Len(heap.syms) + 1 /\ h.syms[Len(h.syms)] = Str(NextUid + 1)
        /\ \A s \in 1..Len(heap.syms) : h.syms[s] = heap.syms[s]
    BY <1>3, <1>4, Appended
  <1>6. null.heap = h /\ null.content = content
    OBVIOUS
  <1>7. Extends(heap, null.heap)
    BY <1>3, <1>4, <1>5, <1>6 DEF Extends
  <1>8. Tidy(null, {})
    BY <1>1, NullTidy
  <1>9. null.content = Now.content /\ null.heap.boxes = Now.heap.boxes /\ Extends(Now.heap, null.heap)
    BY <1>1, <1>3, <1>6, <1>7
  <1> DEFINE w == Now
  <1> HIDE DEF w
  <1>10. Told(Words, null, body)
    BY <1>1, <1>9, ToldGrows
  <1>11. QED
    BY <1>5, <1>7, <1>8, <1>10 DEF Handled

LEMMA Paired ==
  ASSUME NEW s, IsSeq(s), NEW x, NEW y
  PROVE  /\ Len(s) \in Nat /\ Len(s \o <<x, y>>) = Len(s) + 2
         /\ (s \o <<x, y>>)[Len(s) + 1] = x
         /\ \A i \in 1..Len(s) : (s \o <<x, y>>)[i] = s[i]
  <1> DEFINE t == <<x, y>>
  <1>1. t \in Seq({x, y}) /\ Len(t) = 2 /\ t[1] = x
    OBVIOUS
  <1> HIDE DEF t
  <1>2. IsSeq(t)
    BY <1>1 DEF IsSeq
  <1>3. /\ Len(s) \in Nat /\ Len(s \o t) = Len(s) + Len(t)
        /\ \A i \in 1..Len(s) : (s \o t)[i] = s[i]
        /\ \A i \in (Len(s) + 1)..(Len(s) + Len(t)) : (s \o t)[i] = t[i - Len(s)]
    BY <1>2, Concatenated
  <1>4. Len(s) + 1 \in (Len(s) + 1)..(Len(s) + Len(t)) /\ Len(s) + 1 - Len(s) = 1
    BY <1>1, <1>3
  <1>5. (s \o t)[Len(s) + 1] = x
    BY <1>1, <1>3, <1>4
  <1>6. QED
    BY <1>1, <1>3, <1>5 DEF t

LEMMA MeaningLoneKey ==
  ASSUME Scene, LoadLoneKey
  PROVE  MeaningSound'
  <1> DEFINE e == [sym |-> "PAIR", val |-> Fresh]
             n == Val(0)
             h == AddSym(heap, Str(NextUid + 1))
             null == [heap |-> h, content |-> content]
             w == AddNode(null, n)
             id == Len(null.heap.syms)
             node == NewNode("map", NextUid, <<id>>)
             S == {} \cup {n}
             v == Str(NextUid + 1)
             m == Node(NextUid + 1)
  <1>1. /\ OwnershipInv /\ OwnershipInv' /\ TypeOK /\ Len(body) \in Nat /\ IsSeq(body)
        /\ Len(heap.syms) \in Nat
    BY NowScene
  <1>2. /\ Fresh \in Nodes \ live /\ Pops(1, e) /\ Sym(0) = "ATOM"
        /\ live' = (live \ Unanchored({n})) \cup {Fresh}
        /\ UNCHANGED <<bad, anchorOf, anchors, shortcut>>
        /\ LeaveNew(w, node) /\ body' = body \o <<<<m>>, <<>>>> /\ MeansTop(1, Node(NextUid))
        /\ UNCHANGED <<roots, defs, current, returned>>
    BY <1>1, ReduceLoneKeyShape DEF LoadLoneKey, ReduceLoneKey, AddNodes
  <1>3. n \in live /\ n \in Nodes
    BY <1>1, <1>2, LiveTop DEF NodeSyms
  <1>4. Handled(null, {}, body) /\ null.heap = h /\ id = Len(heap.syms) + 1 /\ h.syms[id] = v /\ id = Len(h.syms)
    BY HandledNull
  <1>5. Handled(w, S, body) /\ Extends(h, w.heap)
    <2>1. Handled(null, {}, body) /\ w = AddNode(null, n) /\ OwnershipInv /\ n \in live
      BY <1>1, <1>3, <1>4
    <2> HIDE DEF w, n, null
    <2>2. Handled(w, S, body)
      BY ONLY <2>1, HandledAdd DEF S
    <2>3. World(null) /\ Told(Words, null, body)
      BY <2>1 DEF Handled, Tidy
    <2>4. Extends(null.heap, w.heap)
      BY ONLY <2>1, <2>3, ToldAdd
    <2>5. QED
      BY <1>4, <2>2, <2>4
  <1>6. /\ Len(body') = Len(body) + 2 /\ \A u \in 1..Len(body) : body'[u] = body[u]
        /\ body'[NextUid] = <<m>>
    BY <1>1, <1>2, Paired DEF NextUid
  <1>7. node.id = 0 /\ node.uid = NextUid /\ node.items = <<id>>
    BY DEF NewNode
  <1>8. \A x \in S : shortcut[x] = NONE
    BY <1>2, NowScene
  <1>9. e.sym \in NodeSyms /\ e.val = Fresh
    BY DEF NodeSyms
  <1>10. \A j \in 0..(1 - 1) : Sym(j) # "ANCHOR"
    BY <1>2
  <1> HIDE DEF e, n, h, null, w, S, id, node
  <1>11. /\ Len(body') \in Nat /\ Len(body) + 1 <= Len(body')
         /\ live' \subseteq live \cup {Fresh} /\ Fresh \in live'
         /\ UNCHANGED <<anchors, current, defs, bad, anchorOf, roots, shortcut, returned>>
    BY <1>1, <1>2, <1>6
  <1>12. id \in 1..Len(h.syms) /\ id \in 1..Len(w.heap.syms) /\ Len(w.heap.syms) \in Nat
    BY <1>1, <1>4, <1>5 DEF Extends
  <1>13. w.heap.syms[id] = v
    BY <1>4, <1>5, <1>12 DEF Extends
  <1>14. For(Words, w.heap.boxes, v, m)
    <2>1. NextUid + 1 \in Nat
      BY <1>1 DEF NextUid
    <2> DEFINE u == NextUid + 1
    <2>2. Points(Words, m, u) /\ IsNodeIn(w.heap.boxes, v, u)
      BY DEF Points, IsNodeIn
    <2> HIDE DEF u, v, m
    <2>3. QED
      BY <2>1, <2>2 DEF For, u
  <1>15. \/ node.kind = "str"
         \/ node.items \in Seq(1..Len(w.heap.syms)) /\ Lists(Words, w.heap, node.items, body'[NextUid])
    <2> HIDE DEF v, m
    <2>1. node.items \in Seq(1..Len(w.heap.syms))
      BY <1>7, <1>12, OneSymbol
    <2>2. Lists(Words, w.heap, node.items, body'[NextUid])
      BY <1>6, <1>7, <1>13, <1>14, ListsOne
    <2>3. QED
      BY <2>1, <2>2
  <1>16. Tidy(w, S) /\ Extends(heap, w.heap) /\ Told(Words, w, body)
    BY <1>5 DEF Handled
  <1>17. QED
    BY ONLY Scene, <1>2, <1>6, <1>7, <1>8, <1>9, <1>10, <1>11, <1>15, <1>16, MeaningMade

(* A node of the stack that is still being built.                          *)
LEMMA Building ==
  ASSUME Scene, NEW k \in Nat, Sym(k) \in {"SEQ", "MAP", "PAIR", "BMAP"}, NEW m, m = Val(k)
  PROVE  /\ m \in live /\ m \in Nodes /\ m \notin bad /\ content[m].id = 0
         /\ content[m].kind \in {"seq", "map"} /\ content[m].uid \in 1..Len(body)
         /\ body[content[m].uid] \in Seq(Meaning)
         /\ \A j \in Nat : j # k /\ Sym(j) \in NodeSyms => Val(j) # m
  <1>1. Parse /\ ValuesSound /\ OwnershipInv
    BY DEF Scene, Parse
  <1>2. Sym(k) \in NodeSyms /\ Sym(k) \in Collections
    BY DEF NodeSyms, Collections
  <1>3. /\ m \in live /\ m \in Nodes /\ m \notin bad /\ content[m].kind \in {"seq", "map"}
        /\ content[m].uid \in 1..Len(body)
    BY <1>1, <1>2, KindTop, UidTop
  <1>4. /\ anchorOf[m] = NONE
        /\ \A i \in Places : i # Depth - k /\ stack[i].val = m => anchorOf[m] # NONE
    BY <1>1, <1>2, TopPlace DEF OwnershipInv
  <1>5. content[m].id = 0
    BY <1>1, <1>3, <1>4 DEF ValuesSound, LooseUnhandled
  <1>6. body[content[m].uid] \in Seq(Meaning)
    BY <1>1, <1>3, WordLens DEF Parse
  <1>7. ASSUME NEW j \in Nat, j # k, Sym(j) \in NodeSyms
        PROVE  Val(j) # m
    <2>1. Depth - j \in Places /\ stack[Depth - j].val = Val(j) /\ Depth - j # Depth - k
      <3>1. Depth \in Nat
        BY <1>1, StackFacts DEF OwnershipInv, TypeOK
      <3>2. QED
        BY <1>1, <1>7, <3>1, UnderTop
    <2>2. QED
      BY <1>4, <2>1
  <1>8. QED
    BY <1>3, <1>5, <1>6, <1>7

(* More is said of one node.                                               *)
LEMMA WrittenBody ==
  ASSUME Scene, NEW u, NEW x, u \in 1..Len(body) => x \in Seq(Meaning), NEW b, b = [body EXCEPT ![u] = x]
  PROVE  /\ Len(b) = Len(body) /\ (u \in 1..Len(body) => b[u] = x)
         /\ \A i \in 1..Len(body) : b[i] = IF i = u THEN x ELSE body[i]
         /\ \A i \in 1..Len(body) : i # u => b[i] = body[i]
  <1> DEFINE S == Seq(Meaning)
  <1>1. body \in Seq(S) /\ (u \in 1..Len(body) => x \in S)
    BY DEF Scene, Parse, LoadTypes
  <1> HIDE DEF S
  <1>2. Len(b) = Len(body) /\ \A i \in 1..Len(body) : b[i] = IF i = u THEN x ELSE body[i]
    BY ONLY <1>1, b = [body EXCEPT ![u] = x]
  <1>3. QED
    BY <1>2

(* A node that is being built gets one item more.                          *)
Adds(t, s, x) == t = Append(s, x)
LEMMA ItemTold ==
  ASSUME Scene, NEW w, NEW S, Handled(w, S, body), NEW m \in live, m \notin bad,
         w.content[m] = content[m], content[m].id = 0,
         NEW u, u = content[m].uid, u \in 1..Len(body),
         NEW id \in 1..Len(w.heap.syms), NEW x \in Meaning, For(Words, w.heap.boxes, w.heap.syms[id], x),
         NEW b, Adds(b[u], body[u], x), \A i \in 1..Len(body) : i # u => b[i] = body[i],
         NEW v, v = AddItem(w, m, id)
  PROVE  Handled(v, S, b)
  <1> DEFINE items == Append(content[m].items, id)
             more == Append(body[u], x)
  <1>1. /\ OwnershipInv /\ Parse /\ World(w) /\ Apart(w) /\ Told(Words, w, body) /\ Tidy(w, S) /\ m \in Nodes
    BY DEF Scene, Parse, Handled, Tidy, OwnershipInv, TypeOK
  <1>2. body[u] \in Seq(Meaning) /\ more \in Seq(Meaning)
    BY <1>1, WordLens, MoreSaid DEF Parse
  <1>3. b[u] = more /\ \A i \in 1..Len(body) : i # u => b[i] = body[i]
    BY DEF Adds
  <1>4. v = SetItems(w, m, items) /\ World(v)
    BY <1>1, AddItemSound DEF AddItem
  <1>5. content[m].kind # "str" => Lists(Words, w.heap, items, more)
    <2>1. ASSUME content[m].kind # "str"
          PROVE  Lists(Words, w.heap, items, more)
      <3>1. Lists(Words, w.heap, content[m].items, body[u])
        BY <1>1, <2>1 DEF Told, ItemsTold
      <3>2. IsSeq(content[m].items) /\ IsSeq(body[u])
        BY <1>1, <1>2, ItemsFacts DEF IsSeq
      <3>3. QED
        BY <3>1, <3>2, ListsAppend
    <2>2. QED
      BY <2>1
  <1> HIDE DEF items, more
  <1>6. w.content[m].kind # "str" => Lists(Words, w.heap, items, b[u])
    BY <1>3, <1>5
  <1>7. w.content[m].id = 0 /\ u = w.content[m].uid
    OBVIOUS
  <1>8. Told(Words, v, b)
    BY ONLY <1>1, <1>3, <1>4, <1>6, <1>7, m \in live, m \notin bad, ToldSet
  <1>9. Tidy(v, S)
    BY ONLY <1>1, <1>4, TidySet
  <1>10. v.heap = w.heap
    BY <1>1, <1>4, SetItemsIs
  <1>11. QED
    BY <1>3, <1>8, <1>9, <1>10 DEF Handled

(* A step that adds to a node that is being built.                         *)
LEMMA MeaningWritten ==
  ASSUME Scene, NEW k, NEW e, Pops(k, e), e.sym \in NodeSyms, \A j \in 0..(k - 1) : Sym(j) # "ANCHOR",
         NEW m, MeansTop(k, m), Pushes(k, e, m),
         UNCHANGED <<anchors, current, defs, bad, anchorOf, roots, returned>>,
         NEW w, NEW S, Handled(w, S, body'), Leave(w), live' \subseteq live, Len(body') = Len(body),
         \A n \in S : n \in Nodes => shortcut'[n] = NONE,
         \A n \in live : shortcut'[n] # NONE => shortcut[n] # NONE \/ (content[n].id = 0 /\ n \notin bad)
  PROVE  MeaningSound'
  <1> DEFINE T == S \cap Nodes
  <1>1. /\ Parse /\ ValuesSound /\ MeaningSound /\ OwnershipInv /\ PendingInv
        /\ Tidy(w, S) /\ Extends(heap, w.heap) /\ Told(Words, w, body')
    BY DEF Scene, Parse, Handled
  <1>2. Tidy(w, T)
    BY <1>1 DEF Tidy
  <1>3. \A n \in T : shortcut'[n] = NONE
    OBVIOUS
  <1> HIDE DEF T
  <1>4. Settled(w)
    BY <1>1, SettledLeave
  <1>5. NewTold(w)
    BY DEF NewTold
  <1>6. e.sym # "ANCHOR" /\ (e.sym \in NodeSyms => Pushes(k, e, m))
    BY DEF NodeSyms
  <1>7. UNCHANGED <<anchors, current, defs, bad, anchorOf, roots>>
    OBVIOUS
  <1>8. /\ Pops(k, e) /\ \A j \in 0..(k - 1) : Sym(j) # "ANCHOR"
        /\ MeansTop(k, m)
        /\ \A n \in live : shortcut'[n] # NONE => shortcut[n] # NONE \/ (content[n].id = 0 /\ n \notin bad)
    OBVIOUS
  <1>9. QED
    BY ONLY <1>1, <1>2, <1>3, <1>4, <1>5, <1>6, <1>7, <1>8, MeaningTurn

LEMMA MeaningItem ==
  ASSUME Scene, LoadItem
  PROVE  MeaningSound'
  <1> DEFINE e == stack[Depth - 1]
             n == Val(0)
             m == Val(1)
             x == Top(0)
             u == content[m].uid
             w == AddNode(Now, n)
             id == w.content[n].id
             v == AddItem(w, m, id)
             S == {} \cup {n}
             y == Top(1)
             more == Append(body[u], x)
  <1>16. PICK b : b = body'
    OBVIOUS
  <1>1. OwnershipInv /\ OwnershipInv' /\ TypeOK /\ LoadTypes
    BY NowScene DEF Scene, Parse
  <1>2. /\ Pops(2, e) /\ Sym(0) \in {"ATOM", "PAIR"} /\ Sym(1) = "SEQ"
        /\ live' = live \ Unanchored({n})
        /\ UNCHANGED <<bad, anchorOf, anchors, shortcut, roots, defs, current, returned>>
        /\ Leave(v) /\ MeansTop(2, y) /\ b = [body EXCEPT ![u] = more]
    BY <1>1, <1>16, ReduceItemShape DEF LoadItem, ReduceItem, AddNodes
  <1>3. /\ n \in live /\ n \in Nodes /\ Sym(0) \in NodeSyms /\ Sym(1) \in NodeSyms /\ 0 \in Nat /\ 1 \in Nat
        /\ x \in Meaning
    BY <1>1, <1>2, LiveTop, TopMeans DEF NodeSyms
  <1>4. /\ m \in live /\ m \in Nodes /\ m \notin bad /\ content[m].id = 0 /\ u \in 1..Len(body)
        /\ n # m
    BY <1>2, <1>3, Building
  <1>5. e.sym = "SEQ" /\ e.val = m
    BY <1>1, <1>2, <1>3, Repushed
  <1>6. e.sym \in NodeSyms /\ \A j \in 0..(2 - 1) : Sym(j) # "ANCHOR"
    <2>1. \A j \in 0..(2 - 1) : j = 0 \/ j = 1
      OBVIOUS
    <2>2. QED
      BY <1>2, <1>3, <1>5, <2>1 DEF NodeSyms
  <1>7. Pushes(2, e, y)
    <2>1. 1 \in 0..(2 - 1)
      OBVIOUS
    <2>2. QED
      BY <1>3, <1>5, <2>1 DEF Pushes
  <1>8. Now.content = content
    BY NowScene
  <1>9. /\ Handled(w, S, body) /\ w.content[n].id # 0 /\ id \in 1..Len(w.heap.syms)
        /\ w.content[m] = content[m]
    <2>1. Handled(Now, {}, body) /\ w = AddNode(Now, n) /\ OwnershipInv /\ n \in live
      BY <1>1, <1>3, HandledNone
    <2> HIDE DEF w, n
    <2>2. /\ Handled(w, S, body) /\ w.content[n].id # 0 /\ w.content[n].id \in 1..Len(w.heap.syms)
          /\ \A z \in Nodes : z # n => w.content[z] = Now.content[z]
      BY ONLY <2>1, HandledAdd DEF S
    <2>3. QED
      BY <1>4, <1>8, <2>2
  <1> HIDE DEF w
  <1>10. For(Words, w.heap.boxes, w.heap.syms[id], x)
    BY <1>3, <1>9, TopFor
  <1>11. \A z \in S : z \in Nodes => shortcut'[z] = NONE
    BY <1>2, <1>3, NowScene
  <1> HIDE DEF e, n, m, x, u, id, S, y
  <1>12. v = AddItem(w, m, id) /\ u = content[m].uid /\ more = Append(body[u], x)
    BY DEF u
  <1> HIDE DEF v, more
  <1>13. Handled(v, S, b) /\ Len(b) = Len(body)
    <2>1. b = [body EXCEPT ![u] = more] /\ more = Append(body[u], x)
      BY <1>2, <1>12
    <2>2. u = content[m].uid /\ v = AddItem(w, m, id) /\ w.content[m] = content[m] /\ content[m].id = 0
      BY <1>4, <1>9, <1>12
    <2>3. m \in live /\ m \notin bad /\ u \in 1..Len(body) /\ id \in 1..Len(w.heap.syms) /\ x \in Meaning
      BY <1>3, <1>4, <1>9
    <2>4. more \in Seq(Meaning)
      BY <2>1, <2>3, MoreSaid DEF Scene
    <2>5. Len(b) = Len(body) /\ (u \in 1..Len(body) => b[u] = more) /\ \A i \in 1..Len(body) : i # u => b[i] = body[i]
      BY ONLY Scene, <2>1, <2>3, <2>4, WrittenBody
    <2>6. Adds(b[u], body[u], x)
      BY <2>1, <2>3, <2>5 DEF Adds
    <2>7. Handled(v, S, b)
      BY ONLY Scene, <1>9, <1>10, <2>2, <2>3, <2>5, <2>6, ItemTold
    <2>8. QED
      BY <2>5, <2>7
  <1>14. /\ Handled(v, S, body') /\ Len(body') = Len(body) /\ live' \subseteq live
         /\ UNCHANGED <<anchors, current, defs, bad, anchorOf, roots, returned>>
         /\ \A z \in live : shortcut'[z] # NONE => shortcut[z] # NONE \/ (content[z].id = 0 /\ z \notin bad)
    BY <1>2, <1>13, <1>16
  <1>15. QED
    BY ONLY Scene, <1>2, <1>6, <1>7, <1>11, <1>14, MeaningWritten

(* The waiting sequence of a mapping is handled, and waits no longer.      *)
LEMMA Cleared ==
  ASSUME Scene, NEW m \in Nodes,
         \A n \in Nodes : shortcut'[n] = IF n = m THEN NONE ELSE shortcut[n]
  PROVE  /\ \A n \in {shortcut[m]} : n \in Nodes => shortcut'[n] = NONE
         /\ \A n \in live : shortcut'[n] # NONE => shortcut[n] # NONE \/ (content[n].id = 0 /\ n \notin bad)
  <1>1. /\ \A n \in Nodes : shortcut[n] # NONE => shortcut[shortcut[n]] = NONE
        /\ NONE \notin Nodes /\ live \subseteq Nodes
    BY NoShortcut, ConstantsAssumption DEF Scene, Parse, OwnershipInv, TypeOK
  <1>2. QED
    BY <1>1

LEMMA ApplyHandled ==
  ASSUME Scene, phase = "parse", NEW m \in live, m \notin bad, content[m].kind \in {"seq", "map"},
         shortcut[m] # NONE => content[m].id = 0,
         NEW w, w = ApplySeq(Now, m), NEW c, c[content[m].uid] = SaysSeq(m),
         \A i \in 1..Len(body) : i # content[m].uid => c[i] = body[i]
  PROVE  /\ Handled(w, {shortcut[m]}, c)
         /\ w.content[m].id = content[m].id /\ w.content[m].uid = content[m].uid
         /\ w.content[m].kind = content[m].kind
  <1>1. /\ OwnershipInv /\ PendingInv /\ ValuesSound /\ LoadTypes /\ ~croaked
        /\ Told(Words, Now, body) /\ Tidy(Now, {}) /\ m \in Nodes
    BY NowScene DEF Scene, Parse, OwnershipInv, TypeOK
  <1>2. shortcut[m] # NONE => /\ shortcut[m] # m /\ shortcut[m] \in live /\ shortcut[m] \notin bad
    BY <1>1, NoShortcut
  <1>3. NONE \notin Nodes
    BY ConstantsAssumption
  <1>4. Tidy(w, {shortcut[m]})
    BY <1>1, TidyApply
  <1>5. shortcut[m] # NONE =>
           /\ content[m].id = 0 /\ shortcut[m] # m
           /\ shortcut[m] \in live /\ shortcut[m] \notin bad
    BY <1>2
  <1>6. /\ w = ApplySeq(Now, m) /\ c[content[m].uid] = SaysSeq(m)
        /\ \A u \in 1..Len(body) : u # content[m].uid => c[u] = body[u]
        /\ m \in live /\ m \notin bad /\ content[m].kind \in {"seq", "map"}
    OBVIOUS
  <1>7. Told(Words, w, c) /\ Extends(heap, w.heap)
    BY ONLY <1>1, <1>5, <1>6, ToldApply
  <1>8. m \in Nodes \ {shortcut[m]}
    BY <1>1, <1>2, <1>3
  <1>9. QED
    BY <1>4, <1>7, <1>8 DEF Handled, Tidy, Keeps

LEMMA MeaningCloseBlock ==
  ASSUME Scene, LoadCloseBlock
  PROVE  MeaningSound'
  <1> DEFINE m == Val(0)
             e == [sym |-> "ATOM", val |-> m]
             w == ApplySeq(Now, m)
             u == content[m].uid
             x == SaysSeq(m)
             y == Top(0)
             S == {shortcut[m]}
  <1>1. PICK b : b = body'
    OBVIOUS
  <1>2. /\ OwnershipInv /\ OwnershipInv' /\ TypeOK /\ LoadTypes /\ Parse /\ ValuesSound /\ MeaningSound
        /\ Tidy(Now, {}) /\ Told(Words, Now, body) /\ Extends(heap, heap) /\ Now.heap = heap
    BY NowScene DEF Scene, Parse
  <1>3. /\ Pops(2, e) /\ Sym(0) \in {"BMAP", "TMAP"} /\ Sym(1) = "IOPEN" /\ phase = "parse"
        /\ live' = live \ {shortcut[m]} /\ shortcut' = [shortcut EXCEPT ![m] = NONE]
        /\ UNCHANGED <<bad, anchorOf, anchors, roots, defs, current, returned>>
        /\ Leave(w) /\ MeansTop(2, y) /\ b = [body EXCEPT ![u] = x]
    BY <1>1, <1>2, CloseBlockShape DEF LoadCloseBlock, CloseBlock
  <1>4. /\ m \in live /\ m \in Nodes /\ content[m].kind \in {"seq", "map"}
        /\ Sym(0) \in NodeSyms /\ e.sym \in NodeSyms /\ e.val = m
    BY <1>2, <1>3, KindTop DEF Collections, NodeSyms
  <1>5. \A j \in 0..(2 - 1) : Sym(j) # "ANCHOR"
    <2>1. \A j \in 0..(2 - 1) : j = 0 \/ j = 1
      OBVIOUS
    <2>2. QED
      BY <1>3, <2>1
  <1>6. Pushes(2, e, y)
    <2>1. 0 \in 0..(2 - 1)
      OBVIOUS
    <2>2. QED
      BY <1>4, <2>1 DEF Pushes
  <1>7. \A n \in Nodes : shortcut'[n] = IF n = m THEN NONE ELSE shortcut[n]
    BY <1>2, <1>3 DEF TypeOK
  <1>8. u \in 1..Len(body) => x \in Seq(Meaning)
    BY <1>2, <1>4, SaysSeqType
  <1> HIDE DEF e, m, w, u, x, y
  <1>9. /\ \A n \in S : n \in Nodes => shortcut'[n] = NONE
        /\ \A n \in live : shortcut'[n] # NONE => shortcut[n] # NONE \/ (content[n].id = 0 /\ n \notin bad)
    BY <1>4, <1>7, Cleared
  <1>10. /\ Len(b) = Len(body) /\ (u \in 1..Len(body) => b[u] = x)
         /\ \A i \in 1..Len(body) : b[i] = IF i = u THEN x ELSE body[i]
         /\ \A i \in 1..Len(body) : i # u => b[i] = body[i]
    BY ONLY Scene, <1>3, <1>8, WrittenBody
  <1>11. Handled(w, S, b)
    <2>1. CASE shortcut[m] = NONE
      <3>1. w = Now /\ x = body[u]
        BY <2>1 DEF w, x, u, ApplySeq, SaysSeq
      <3>2. \A i \in 1..Len(body) : b[i] = body[i]
        BY <1>10, <3>1
      <3>3. Told(Words, Now, b)
        BY <1>2, <3>2, ToldMore DEF ValuesSound
      <3>4. Tidy(Now, S)
        BY <1>2 DEF Tidy
      <3>5. QED
        BY <1>2, <3>1, <3>3, <3>4 DEF Handled
    <2>2. CASE shortcut[m] # NONE
      <3>1. content[m].id = 0 /\ m \notin bad
        BY <1>2, <1>4, <2>2 DEF MeaningSound, ShortUnhandled
      <3>2. u \in 1..Len(body)
        BY <1>2, <1>4, <3>1 DEF ValuesSound, Apart, Now, u
      <3>3. b[content[m].uid] = SaysSeq(m) /\ \A i \in 1..Len(body) : i # content[m].uid => b[i] = body[i]
        BY <1>10, <3>2 DEF u, x
      <3>4. w = ApplySeq(Now, m)
        BY DEF w
      <3> HIDE DEF S
      <3>5. Handled(w, {shortcut[m]}, b)
        BY ONLY Scene, <1>3, <1>4, <3>1, <3>3, <3>4, ApplyHandled
      <3>6. QED
        BY <3>5 DEF S
    <2>3. QED
      BY <2>1, <2>2
  <1>12. /\ Handled(w, S, body') /\ Len(body') = Len(body) /\ live' \subseteq live
         /\ UNCHANGED <<anchors, current, defs, bad, anchorOf, roots, returned>>
    BY <1>1, <1>3, <1>10, <1>11
  <1> HIDE DEF S
  <1>13. QED
    BY ONLY Scene, <1>3, <1>4, <1>5, <1>6, <1>9, <1>12, MeaningWritten

LEMMA MeaningPair ==
  ASSUME Scene, LoadPair
  PROVE  MeaningSound'
  <1> DEFINE e == stack[Depth - 1]
             n == Val(0)
             m == Val(1)
             u == content[m].uid
             z == content[n].uid
             x == SaysSeq(m) \o body[z]
             w == ApplySeq(Now, m)
             items == w.content[m].items \o content[n].items
             v == SetItems(w, m, items)
             y == Top(1)
             S == {shortcut[m]}
  <1>1. PICK b : b = body'
    OBVIOUS
  <1>2. /\ OwnershipInv /\ OwnershipInv' /\ TypeOK /\ LoadTypes /\ Parse /\ PendingInv /\ World(Now)
        /\ Told(Words, Now, body) /\ Now.heap = heap /\ Now.content = content
    BY NowScene DEF Scene, Parse, PendingInv
  <1>3. /\ Pops(2, e) /\ Sym(0) = "PAIR" /\ Sym(1) \in {"MAP", "BMAP"} /\ phase = "parse"
        /\ live' = live \ ({n} \cup {shortcut[m]}) /\ shortcut' = [shortcut EXCEPT ![m] = NONE]
        /\ UNCHANGED <<bad, anchorOf, anchors, roots, defs, current, returned>>
        /\ Leave(v) /\ MeansTop(2, y) /\ b = [body EXCEPT ![u] = x]
    BY <1>1, <1>2, ReducePairShape DEF LoadPair, ReducePair, Parsing
  <1>4. /\ m \in live /\ m \in Nodes /\ m \notin bad /\ content[m].id = 0 /\ u \in 1..Len(body)
        /\ content[m].kind \in {"seq", "map"} /\ body[u] \in Seq(Meaning)
    BY <1>3, Building
  <1>5. /\ n \in live /\ n \in Nodes /\ n \notin bad /\ z \in 1..Len(body)
        /\ content[n].kind \in {"seq", "map"} /\ body[z] \in Seq(Meaning)
    BY <1>3, Building
  <1>6. Sym(1) \in NodeSyms /\ e.sym = Sym(1) /\ e.val = m /\ e.sym \in NodeSyms
    BY <1>2, <1>3, Repushed DEF NodeSyms
  <1>7. \A j \in 0..(2 - 1) : Sym(j) # "ANCHOR"
    <2>1. \A j \in 0..(2 - 1) : j = 0 \/ j = 1
      OBVIOUS
    <2>2. QED
      BY <1>3, <2>1
  <1>8. Pushes(2, e, y)
    <2>1. 1 \in 0..(2 - 1)
      OBVIOUS
    <2>2. QED
      BY <1>6, <2>1 DEF Pushes
  <1>9. \A i \in Nodes : shortcut'[i] = IF i = m THEN NONE ELSE shortcut[i]
    BY <1>2, <1>3 DEF TypeOK
  <1>10. SaysSeq(m) \in Seq(Meaning)
    BY <1>2, <1>4, SaysSeqType
  <1>11. u \in 1..Len(body) => x \in Seq(Meaning)
    BY <1>5, <1>10
  <1>12. PICK c : c[u] = SaysSeq(m) /\ \A i \in 1..Len(body) : i # u => c[i] = body[i]
    <2> DEFINE c == [i \in 1..Len(body) |-> IF i = u THEN SaysSeq(m) ELSE body[i]]
    <2>1. c[u] = SaysSeq(m) /\ \A i \in 1..Len(body) : i # u => c[i] = body[i]
      BY <1>4
    <2> HIDE DEF c
    <2>2. QED
      BY <2>1
  <1>13. u = content[m].uid /\ z = content[n].uid /\ w = ApplySeq(Now, m)
    OBVIOUS
  <1> HIDE DEF e, n, m, u, z, w, y
  <1>14. /\ \A i \in {shortcut[m]} : i \in Nodes => shortcut'[i] = NONE
         /\ \A i \in live : shortcut'[i] # NONE => shortcut[i] # NONE \/ (content[i].id = 0 /\ i \notin bad)
    BY ONLY Scene, <1>4, <1>9, Cleared
  <1>15. Len(b) = Len(body) /\ b[u] = x /\ \A i \in 1..Len(body) : i # u => b[i] = body[i]
    <2> HIDE DEF x
    <2>1. /\ Len(b) = Len(body) /\ (u \in 1..Len(body) => b[u] = x)
          /\ \A i \in 1..Len(body) : i # u => b[i] = body[i]
      BY ONLY Scene, <1>3, <1>11, WrittenBody
    <2>2. QED
      BY <1>4, <2>1
  <1>16. /\ Handled(w, S, c) /\ w.content[m].id = 0 /\ w.content[m].uid = u
         /\ w.content[m].kind = content[m].kind
    <2>1. c[content[m].uid] = SaysSeq(m) /\ \A i \in 1..Len(body) : i # content[m].uid => c[i] = body[i]
      BY <1>12, <1>13
    <2> HIDE DEF S
    <2>2. /\ Handled(w, {shortcut[m]}, c)
          /\ w.content[m].id = content[m].id /\ w.content[m].uid = content[m].uid
          /\ w.content[m].kind = content[m].kind
      <3>1. /\ c[content[m].uid] = SaysSeq(m)
            /\ \A i \in 1..Len(body) : i # content[m].uid => c[i] = body[i]
            /\ w = ApplySeq(Now, m) /\ phase = "parse" /\ m \in live /\ m \notin bad
            /\ content[m].kind \in {"seq", "map"}
        BY <1>3, <1>4, <1>13, <2>1
      <3>2. shortcut[m] # NONE => content[m].id = 0
        BY <1>4
      <3>3. QED
        BY ONLY Scene, <3>1, <3>2, ApplyHandled
    <2>3. QED
      BY <1>4, <1>13, <2>2 DEF S
  <1>17. Tidy(w, S) /\ World(w) /\ Apart(w) /\ Extends(heap, w.heap) /\ Told(Words, w, c)
    BY <1>16 DEF Handled, Tidy
  <1>18. /\ w.content[m].items \in Seq(1..Len(w.heap.syms)) /\ content[n].items \in Seq(1..Len(heap.syms))
         /\ Len(w.heap.syms) \in Nat /\ Len(heap.syms) \in Nat /\ Len(heap.syms) <= Len(w.heap.syms)
    BY <1>2, <1>4, <1>5, <1>17, ItemsFacts DEF Extends
  <1>19. content[n].items \in Seq(1..Len(w.heap.syms))
    BY <1>18, SeqGrows
  <1>20. items \in Seq(1..Len(w.heap.syms))
    BY <1>18, <1>19
  <1>21. Lists(Words, w.heap, items, x)
    <2>1. Lists(Words, w.heap, w.content[m].items, SaysSeq(m))
      BY <1>4, <1>12, <1>16, <1>17 DEF Told, ItemsTold
    <2>2. Lists(Words, heap, content[n].items, body[z])
      BY <1>2, <1>5, <1>13 DEF Told, ItemsTold
    <2>3. Lists(Words, w.heap, content[n].items, body[z])
      <3>1. Learns(Words, Words)
        BY LearnsSame
      <3>2. QED
        BY ONLY <1>17, <1>18, <2>2, <3>1, ListsGrows
    <2>4. IsSeq(w.content[m].items) /\ IsSeq(SaysSeq(m)) /\ IsSeq(content[n].items) /\ IsSeq(body[z])
      BY <1>5, <1>10, <1>18 DEF IsSeq
    <2>5. QED
      BY <2>1, <2>3, <2>4, ListsConcat
  <1> HIDE DEF items, x, S
  <1>22. v = SetItems(w, m, items)
    OBVIOUS
  <1> HIDE DEF v
  <1>23. World(v)
    BY <1>4, <1>17, <1>20, <1>22, SetItemsSound
  <1>24. Tidy(v, S)
    BY ONLY <1>2, <1>4, <1>17, <1>22, <1>23, TidySet
  <1>25. v.heap = w.heap
    BY <1>4, <1>17, <1>22, SetItemsIs
  <1>26. Told(Words, v, b)
    <2>1. w.content[m].kind # "str" => Lists(Words, w.heap, items, b[u])
      BY <1>15, <1>21
    <2>2. u = w.content[m].uid
      BY <1>16
    <2>3. \A i \in 1..Len(body) : i # u => b[i] = c[i]
      BY <1>12, <1>15
    <2>4. QED
      BY ONLY <1>2, <1>4, <1>16, <1>17, <1>22, <2>1, <2>2, <2>3, ToldSet
  <1>27. /\ Handled(v, S, body') /\ Len(body') = Len(body) /\ live' \subseteq live
         /\ UNCHANGED <<anchors, current, defs, bad, anchorOf, roots, returned>>
         /\ \A i \in S : i \in Nodes => shortcut'[i] = NONE
    BY <1>1, <1>3, <1>14, <1>15, <1>17, <1>24, <1>25, <1>26 DEF Handled, S
  <1>28. QED
    BY ONLY Scene, <1>3, <1>6, <1>7, <1>8, <1>14, <1>27, MeaningWritten

LEMMA MeaningDash ==
  ASSUME Scene, LoadDash
  PROVE  MeaningSound'
  <1> DEFINE e == stack[Depth - 2]
             n == Val(0)
             m == Val(2)
             s == shortcut[m]
             x == Top(0)
             y == Top(2)
             u == content[s].uid
             w == AddNode(Now, n)
             id == w.content[n].id
             v == AddItem(w, s, id)
             node == NewNode("seq", NextUid, <<id>>)
             S == {} \cup {n}
             more == Append(body[u], x)
  <1>1. PICK b : b = body'
    OBVIOUS
  <1>2. /\ OwnershipInv /\ OwnershipInv' /\ TypeOK /\ LoadTypes /\ Parse /\ PendingInv
        /\ ValuesSound /\ MeaningSound /\ ~croaked
        /\ Now.heap = heap /\ Now.content = content /\ Len(body) \in Nat
    BY NowScene DEF Scene, Parse
  <1>3. /\ Pops(3, e) /\ Sym(0) = "ATOM" /\ Sym(1) = "DASH" /\ Sym(2) = "BMAP"
        /\ UNCHANGED <<bad, anchorOf, anchors, roots, defs, current, returned>>
        /\ MeansTop(3, y)
    BY <1>2, ReduceDashShape DEF LoadDash, ReduceDash
  <1>4. \/ /\ s = NONE /\ LeaveNew(w, node) /\ b = Append(body, <<x>>)
           /\ CanAlloc /\ live' = (live \ Unanchored({n})) \cup {Fresh}
           /\ shortcut' = [shortcut EXCEPT ![m] = Fresh]
        \/ /\ s # NONE /\ Leave(v) /\ b = [body EXCEPT ![u] = more]
           /\ live' = (live \ Unanchored({n})) \cup {} /\ UNCHANGED shortcut
    BY <1>1 DEF LoadDash, ReduceDash, AddNodes
  <1>5. /\ n \in live /\ n \in Nodes /\ Sym(0) \in NodeSyms /\ Sym(2) \in NodeSyms /\ 0 \in Nat /\ 2 \in Nat
        /\ x \in Meaning
    BY <1>2, <1>3, LiveTop, TopMeans DEF NodeSyms
  <1>6. m \in live /\ m \in Nodes /\ m \notin bad /\ content[m].id = 0 /\ n # m
    BY <1>3, <1>5, Building
  <1>7. e.sym = "BMAP" /\ e.val = m /\ e.sym \in NodeSyms
    BY <1>2, <1>3, <1>5, Repushed DEF NodeSyms
  <1>8. \A j \in 0..(3 - 1) : Sym(j) # "ANCHOR"
    <2>1. \A j \in 0..(3 - 1) : j = 0 \/ j = 1 \/ j = 2
      OBVIOUS
    <2>2. QED
      BY <1>3, <2>1
  <1>9. Pushes(3, e, y)
    <2>1. 2 \in 0..(3 - 1)
      OBVIOUS
    <2>2. QED
      BY <1>5, <1>7, <2>1 DEF Pushes
  <1>10. shortcut[n] = NONE
    BY <1>3, NowScene
  <1>11. /\ Handled(w, S, body) /\ w.content[n].id # 0 /\ id \in 1..Len(w.heap.syms)
         /\ \A z \in Nodes : z # n => w.content[z] = content[z]
    <2>1. Handled(Now, {}, body) /\ w = AddNode(Now, n) /\ OwnershipInv /\ n \in live
      BY <1>2, <1>5, HandledNone
    <2> HIDE DEF w, n
    <2>2. /\ Handled(w, S, body) /\ w.content[n].id # 0 /\ w.content[n].id \in 1..Len(w.heap.syms)
          /\ \A z \in Nodes : z # n => w.content[z] = Now.content[z]
      BY ONLY <2>1, HandledAdd DEF S
    <2>3. QED
      BY <1>2, <2>2
  <1> HIDE DEF w
  <1>12. For(Words, w.heap.boxes, w.heap.syms[id], x)
    BY <1>5, <1>11, TopFor
  <1>13. \A z \in S : z = n
    OBVIOUS
  <1>14. node.id = 0 /\ node.uid = NextUid /\ node.items = <<id>>
    BY DEF NewNode
  <1>15. s # NONE => /\ s \in live /\ s \in Nodes /\ s \notin bad /\ u \in 1..Len(body)
                     /\ content[s].id = 0 /\ s # n
    <2>1. ASSUME s # NONE
          PROVE  /\ s \in live /\ s \in Nodes /\ s \notin bad /\ u \in 1..Len(body)
                 /\ content[s].id = 0 /\ s # n
      <3>1. s \in live /\ s \in Nodes /\ s \notin bad /\ u \in 1..Len(body)
        BY <1>2, <1>6, <2>1, UidWaiting
      <3>2. anchorOf[s] = NONE /\ \A i \in Places : stack[i].val # s
        BY <1>2, <1>6, <2>1 DEF OwnershipInv, ShortcutsSound
      <3>3. content[s].id = 0
        BY <1>2, <3>1, <3>2 DEF ValuesSound, LooseUnhandled
      <3>4. s # n
        BY <1>2, <1>5, <3>2, UnderTop
      <3>5. QED
        BY <3>1, <3>3, <3>4
    <2>2. QED
      BY <2>1
  <1> HIDE DEF e, n, m, x, y, S, node
  <1>16. CASE s = NONE /\ LeaveNew(w, node)
    <2>1. /\ b = Append(body, <<x>>) /\ live' = (live \ Unanchored({n})) \cup {Fresh}
          /\ shortcut' = [shortcut EXCEPT ![m] = Fresh] /\ CanAlloc
      BY <1>4, <1>16
    <2>2. Fresh \in Nodes \ live
      BY <1>2, <2>1, FreshIsDead DEF OwnershipInv, TypeOK
    <2>3. /\ Len(b) = Len(body) + 1 /\ \A i \in 1..Len(body) : b[i] = body[i]
          /\ b[NextUid] = <<x>>
      BY <2>1, NowScene DEF NextUid
    <2>4. Tidy(w, S) /\ World(w) /\ Apart(w) /\ Extends(heap, w.heap) /\ Told(Words, w, body)
      BY <1>11 DEF Handled, Tidy
    <2>5. Settled(w) /\ content'[Fresh] = node
      <3>1. /\ Len(body') \in Nat /\ Len(body) + 1 <= Len(body')
            /\ live' \subseteq live \cup {Fresh} /\ Fresh \in live'
        BY <1>1, <1>2, <2>1, <2>3
      <3>2. QED
        BY <1>2, <1>3, <1>14, <1>16, <2>2, <2>4, <3>1, SettledNew
    <2>6. Told(Words, w, body')
      <3>1. Told(Words, w, b)
        BY <2>3, <2>4, ToldMore
      <3>2. QED
        BY <1>1, <3>1
    <2>7. NewTold(w)
      <3>1. node.items \in Seq(1..Len(w.heap.syms))
        <4>1. Len(w.heap.syms) \in Nat
          BY <2>4 DEF Extends
        <4>2. QED
          BY <1>11, <1>14, <4>1, OneSymbol
      <3>2. Lists(Words, w.heap, node.items, body'[NextUid])
        BY <1>1, <1>12, <1>14, <2>3, ListsOne
      <3>3. \A i \in live' \ live : i = Fresh
        BY <2>1
      <3>4. QED
        BY <1>14, <2>5, <3>1, <3>2, <3>3 DEF NewTold
    <2>8. \A z \in S : shortcut'[z] = NONE
      <3>1. \A z \in Nodes : z # m => shortcut'[z] = shortcut[z]
        BY <1>2, <2>1 DEF TypeOK
      <3>2. QED
        BY <1>5, <1>6, <1>10, <1>13, <3>1
    <2>9. \A z \in live : shortcut'[z] # NONE => shortcut[z] # NONE \/ (content[z].id = 0 /\ z \notin bad)
      <3>1. \A z \in live : z # m => shortcut'[z] = shortcut[z]
        BY <1>2, <2>1 DEF TypeOK
      <3>2. QED
        BY <1>6, <3>1
    <2>10. e.sym # "ANCHOR" /\ (e.sym \in NodeSyms => Pushes(3, e, y))
      BY <1>7, <1>9
    <2>11. UNCHANGED <<anchors, current, defs, bad, anchorOf, roots>>
      BY <1>3
    <2>12. QED
      BY ONLY <1>2, <1>3, <1>8, <2>4, <2>5, <2>6, <2>7, <2>8, <2>9, <2>10, <2>11, MeaningTurn
  <1>17. CASE s # NONE /\ Leave(v)
    <2>1. b = [body EXCEPT ![u] = more] /\ live' \subseteq live /\ UNCHANGED shortcut
      BY <1>4, <1>17
    <2>2. /\ s \in live /\ s \in Nodes /\ s \notin bad /\ u \in 1..Len(body)
          /\ content[s].id = 0 /\ s # n
      BY <1>15, <1>17
    <2>3. u = content[s].uid /\ v = AddItem(w, s, id) /\ w.content[s] = content[s] /\ more = Append(body[u], x)
      BY <1>11, <2>2
    <2> HIDE DEF s, u, v, id, more
    <2>4. more \in Seq(Meaning)
      BY <1>2, <1>5, <2>2, <2>3, MoreSaid
    <2>5. Len(b) = Len(body) /\ (u \in 1..Len(body) => b[u] = more) /\ \A i \in 1..Len(body) : i # u => b[i] = body[i]
      BY ONLY Scene, <2>1, <2>4, WrittenBody
    <2>6. Adds(b[u], body[u], x)
      BY <2>2, <2>3, <2>5 DEF Adds
    <2>7. Handled(v, S, b)
      BY ONLY Scene, <1>5, <1>11, <1>12, <2>2, <2>3, <2>5, <2>6, ItemTold
    <2>8. /\ Handled(v, S, body') /\ Len(body') = Len(body) /\ live' \subseteq live
          /\ UNCHANGED <<anchors, current, defs, bad, anchorOf, roots, returned>>
          /\ \A z \in S : z \in Nodes => shortcut'[z] = NONE
          /\ \A z \in live : shortcut'[z] # NONE => shortcut[z] # NONE \/ (content[z].id = 0 /\ z \notin bad)
      BY <1>1, <1>3, <1>10, <1>13, <2>1, <2>5, <2>7
    <2>9. QED
      BY ONLY Scene, <1>3, <1>7, <1>8, <1>9, <1>17, <2>8, MeaningWritten
  <1>18. QED
    BY <1>4, <1>16, <1>17

-----------------------------------------------------------------------------
(* Steps that write to the tables.                                         *)

(* The entries left on the stack mean what they did, and so does e.        *)
RestAims ==
  \A i \in Places : i < Depth' =>
    \A n, x : n = stack[i].val /\ x = means[i] =>
      /\ AimsAt(n, x)'
      /\ n \in bad' => n \in bad /\ anchorOf'[n] = anchorOf[n]
NewAims(e, m) ==
  e.sym \in NodeSyms => \A n, x : n = e.val /\ x = m =>
    /\ AimsAt(n, x)'
    /\ n \in bad' => \E j \in 1..Depth : j < Depth' /\ stack[j] = Token(anchorOf'[n])
RestTokens ==
  \A x \in Names : \A i \in 1..Depth : i < Depth' /\ stack[i] = Token(x) =>
    anchors'[x] = DEFINING /\ current'[x] = current[x]
NewToken(e, m) ==
  \A x \in Names : e = Token(x) =>
    /\ anchors'[x] = DEFINING /\ m = Def(current'[x])
    /\ \A i \in 1..Depth : i < Depth' => stack[i] # Token(x)

LEMMA RestMeant ==
  ASSUME OwnershipInv, LoadTypes, StackMeant, NEW k, NEW e, Pops(k, e), NEW m, MeansTop(k, m),
         RestAims, NewAims(e, m), RestTokens, NewToken(e, m)
  PROVE  StackMeant'
  <1>1. /\ Depth \in Nat /\ Depth' \in Nat /\ k \in 0..Depth /\ Depth' = Depth - k + 1
        /\ DOMAIN stack = 1..Depth /\ DOMAIN stack' = 1..Depth' /\ Depth' \in 1..Depth'
        /\ stack'[Depth'] = e /\ means'[Depth'] = m
        /\ \A i \in 1..Depth' : i # Depth' => i \in 1..Depth /\ stack'[i] = stack[i] /\ means'[i] = means[i]
        /\ \A i \in 1..Depth : i < Depth' => i \in 1..Depth' /\ i # Depth'
        /\ \A i \in 1..Depth' : i \in Places' <=> stack'[i].sym \in NodeSyms
        /\ \A i \in 1..Depth : i \in Places <=> stack[i].sym \in NodeSyms
    BY Spots
  <1>2. ASSUME NEW i \in Places'
        PROVE  \/ /\ i \in Places /\ i \in 1..Depth /\ i < Depth'
                  /\ stack'[i] = stack[i] /\ means'[i] = means[i]
               \/ i = Depth' /\ e.sym \in NodeSyms /\ stack'[i] = e /\ means'[i] = m
    <2>1. i \in 1..Depth'
      BY <1>1 DEF Places
    <2>2. CASE i # Depth'
      <3>1. i < Depth'
        BY <1>1, <2>1, <2>2
      <3>2. QED
        BY <1>1, <2>1, <2>2, <3>1
    <2>3. CASE i = Depth'
      BY <1>1, <2>1, <2>3
    <2>4. QED
      BY <2>2, <2>3
  <1>3. Aimed'
    <2>1. ASSUME NEW i \in Places'
          PROVE  \A n, x : n = stack'[i].val /\ x = means'[i] => AimsAt(n, x)'
      <3>1. CASE i \in Places /\ i < Depth' /\ stack'[i] = stack[i] /\ means'[i] = means[i]
        BY <3>1 DEF RestAims
      <3>2. CASE e.sym \in NodeSyms /\ stack'[i] = e /\ means'[i] = m
        BY <3>2 DEF NewAims
      <3>3. QED
        BY <1>2, <3>1, <3>2
    <2>2. QED
      BY <2>1 DEF Aimed
  <1>4. TokensSound'
    <2>1. ASSUME NEW i \in 1..Depth', NEW x \in Names, stack'[i] = Token(x)
          PROVE  /\ anchors'[x] = DEFINING /\ means'[i] = Def(current'[x])
                 /\ \A j \in 1..Depth' : stack'[j] = Token(x) => i = j
      <3>1. \A j \in 1..Depth' : j # Depth' => j \in 1..Depth /\ j < Depth' /\ stack'[j] = stack[j] /\ means'[j] = means[j]
        BY <1>1
      <3>2. CASE i # Depth'
        <4>1. i \in 1..Depth /\ i < Depth' /\ stack[i] = Token(x) /\ means'[i] = means[i]
          BY <2>1, <3>1, <3>2
        <4>2. anchors'[x] = DEFINING /\ current'[x] = current[x]
          BY <4>1 DEF RestTokens
        <4>3. means[i] = Def(current[x]) /\ \A j \in 1..Depth : stack[j] = Token(x) => i = j
          BY <1>1, <4>1 DEF StackMeant, TokensSound
        <4>4. ASSUME NEW j \in 1..Depth', stack'[j] = Token(x)
              PROVE  i = j
          <5>1. j # Depth'
            BY <1>1, <4>1, <4>4 DEF NewToken
          <5>2. QED
            BY <3>1, <4>3, <4>4, <5>1
        <4>5. means'[i] = Def(current'[x])
          BY <4>1, <4>2, <4>3
        <4>6. QED
          BY <4>2, <4>4, <4>5
      <3>3. CASE i = Depth'
        <4>1. /\ anchors'[x] = DEFINING /\ m = Def(current'[x])
              /\ \A j \in 1..Depth : j < Depth' => stack[j] # Token(x)
          BY <1>1, <2>1, <3>3 DEF NewToken
        <4>2. means'[i] = Def(current'[x])
          BY <1>1, <3>3, <4>1
        <4>3. \A j \in 1..Depth' : stack'[j] = Token(x) => i = j
          BY <3>1, <3>3, <4>1
        <4>4. QED
          BY <4>1, <4>2, <4>3
      <3>4. QED
        BY <3>2, <3>3
    <2>2. QED
      BY <1>1, <2>1 DEF TokensSound, Token
  <1>5. BadAbove'
    <2>1. ASSUME NEW i \in Places', stack'[i].val \in bad'
          PROVE  \E j \in 1..Depth' : j < i /\ stack'[j] = Token(anchorOf'[stack'[i].val])
      <3>1. CASE /\ i \in Places /\ i \in 1..Depth /\ i < Depth'
                 /\ stack'[i] = stack[i] /\ means'[i] = means[i]
        <4>1. stack[i].val \in bad /\ anchorOf'[stack[i].val] = anchorOf[stack[i].val]
          BY <2>1, <3>1 DEF RestAims
        <4>2. PICK j \in 1..Depth : j < i /\ stack[j] = Token(anchorOf[stack[i].val])
          BY <1>1, <3>1, <4>1 DEF StackMeant, BadAbove
        <4>3. j < Depth'
          BY <1>1, <3>1, <4>2
        <4>4. j \in 1..Depth' /\ stack'[j] = stack[j]
          BY <1>1, <4>3
        <4>5. QED
          BY <3>1, <4>1, <4>2, <4>4
      <3>2. CASE i = Depth' /\ e.sym \in NodeSyms /\ stack'[i] = e
        <4>1. PICK j \in 1..Depth : j < Depth' /\ stack[j] = Token(anchorOf'[e.val])
          BY <2>1, <3>2 DEF NewAims
        <4>2. j \in 1..Depth' /\ stack'[j] = stack[j]
          BY <1>1, <4>1
        <4>3. QED
          BY <3>2, <4>1, <4>2
      <3>3. QED
        BY <1>2, <3>1, <3>2
    <2>2. QED
      BY <1>1, <2>1 DEF BadAbove, Token
  <1>6. QED
    BY <1>3, <1>4, <1>5 DEF StackMeant

LEMMA RootsKept ==
  ASSUME LoadTypes, RootsMeant, Learns(Words, Words'), UNCHANGED <<heap, roots>>
  PROVE  RootsMeant'
  <1>1. Len(heap.syms) \in Nat /\ Len(heap.boxes) \in Nat
    BY NowLens
  <1>2. Extends(heap, heap)
    BY <1>1 DEF Extends
  <1>3. \A i \in 1..Len(roots) : For(Words', heap.boxes, heap.syms[roots[i].sym], roots[i].aim)
    <2> DEFINE l == Words'
    <2>1. Learns(Words, l)
      OBVIOUS
    <2> HIDE DEF l
    <2>2. \A i \in 1..Len(roots) : For(l, heap.boxes, heap.syms[roots[i].sym], roots[i].aim)
      BY <1>2, <2>1, ForGrows DEF RootsMeant
    <2>3. QED
      BY <2>2 DEF l
  <1>4. QED
    BY <1>3 DEF RootsMeant

(* A name is used anew: its token is on no node yet.                       *)
LEMMA MeaningAnchor ==
  ASSUME Scene, quirks' = {}, NEW a \in Names, LoadAnchor(a)
  PROVE  MeaningSound'
  <1> DEFINE e == Token(a)
             d == Len(defs) + 1
             m == Def(d)
  <1>1. /\ OwnershipInv /\ PendingInv /\ LoadTypes /\ ValuesSound /\ MeaningSound /\ TypeOK
    BY NowScene DEF Scene, Parse
  <1>2. Len(defs) \in Nat /\ IsSeq(defs)
    BY <1>1, WordLens DEF LoadTypes, IsSeq
  <1>3. /\ defs' = Append(defs, Nothing(a)) /\ Len(defs') = d
        /\ \A i \in 1..Len(defs) : defs'[i] = defs[i] /\ i \in 1..Len(defs')
        /\ defs'[d] = Nothing(a) /\ d \in 1..Len(defs')
    BY <1>2, Appended DEF LoadAnchor
  <1>4. /\ Pops(0, e) /\ UNCHANGED <<live, bad, anchorOf, badAnchors, shortcut>>
        /\ anchors' = [anchors EXCEPT ![a] = DEFINING]
        /\ UNCHANGED <<content, heap, body, returned, roots>>
        /\ current' = [current EXCEPT ![a] = d] /\ MeansTop(0, m)
        /\ anchors[a] # DEFINING /\ badAnchors[a] = NONE
    BY <1>1, <1>3, ShiftAnchorShape DEF LoadAnchor, ShiftAnchor, RemoveAnchor, Token
  <1>5. /\ \A x \in Names : x # a => anchors'[x] = anchors[x] /\ current'[x] = current[x]
        /\ anchors'[a] = DEFINING /\ current'[a] = d
        /\ \A x \in Names : current[x] \in 0..Len(defs)
    BY <1>1, <1>4 DEF TypeOK, LoadTypes
  <1>6. /\ \A n \in bad : anchorOf[n] \in Names /\ anchorOf[n] # a
        /\ bad \subseteq live /\ live \subseteq Nodes /\ DEFINING \notin Nodes
    BY <1>1, <1>4, ConstantsAssumption DEF OwnershipInv, TablesSound, TypeOK, ValuesSound, Tracked
  <1>7. /\ Words.defs = defs /\ Words.current = current /\ Words.anchors = anchors
        /\ Words'.defs = defs' /\ Words'.current = current' /\ Words'.anchors = anchors'
    BY DEF Words
  <1> HIDE DEF e, d, m
  <1>8. Learns(Words, Words')
    <2>1. ASSUME NEW v, NEW u \in Nat, Points(Words, v, u)
          PROVE  Points(Words', v, u)
      BY <1>3, <1>7, <2>1 DEF Points
    <2>2. ASSUME NEW v, NEW x \in Names, Open(Words, v, x)
          PROVE  Open(Words', v, x)
      BY <1>4, <1>5, <1>7, <2>2 DEF Open
    <2>3. QED
      BY <2>1, <2>2 DEF Learns
  <1>9. Told(Words, Now, body)'
    <2>1. World(Now) /\ Told(Words, Now, body')
      BY <1>1, <1>4, NowScene DEF PendingInv
    <2>2. Upkeep(Now)
      BY <1>4, <1>5, <1>6 DEF Upkeep, Now
    <2>3. NewTold(Now)
      BY <1>4 DEF NewTold
    <2>4. QED
      BY <1>1, <1>8, <2>1, <2>2, <2>3, ToldStep
  <1>10. Glossary'
    <2>1. ASSUME NEW x \in Names, anchors'[x] = DEFINING
          PROVE  current'[x] \in 1..Len(defs') /\ defs'[current'[x]] = Nothing(x)
      BY <1>1, <1>3, <1>5, <2>1 DEF MeaningSound, Glossary
    <2>2. ASSUME NEW x \in Names, anchors'[x] \in Nodes
          PROVE  /\ current'[x] \in 1..Len(defs')
                 /\ defs'[current'[x]] = Node(content'[anchors'[x]].uid)
      BY <1>1, <1>3, <1>4, <1>5, <1>6, <2>2 DEF MeaningSound, Glossary
    <2>3. ASSUME NEW x \in Names, NEW y \in Names, current'[x] # 0, current'[x] = current'[y]
          PROVE  x = y
      <3>1. \A z \in Names : z # a => current'[z] # d
        BY <1>2, <1>5 DEF d
      <3>2. QED
        BY <1>1, <1>5, <2>3, <3>1 DEF MeaningSound, Glossary
    <2>4. QED
      BY <2>1, <2>2, <2>3 DEF Glossary
  <1>11. StackMeant'
    <2>1. StackMeant /\ \A i \in Places : stack[i].val \in live
      BY <1>1 DEF MeaningSound, OwnershipInv, StackSound
    <2>2. RestAims
      <3>1. ASSUME NEW n \in live, NEW x, AimsAt(n, x)
            PROVE  AimsAt(n, x)'
        <4>1. n \in bad' => Open(Words', x, anchorOf'[n])
          BY <1>4, <1>6, <1>8, <3>1 DEF AimsAt, Learns
        <4>2. n \notin bad => content[n].uid \in Nat
          BY <1>1, <1>6, ItemsFacts DEF PendingInv, Now
        <4>3. n \notin bad' => Points(Words', x, content'[n].uid) /\ (anchorOf'[n] = NONE => x = Node(content'[n].uid))
          BY <1>4, <1>8, <3>1, <4>2 DEF AimsAt, Learns
        <4>4. QED
          BY <4>1, <4>3 DEF AimsAt
      <3>2. QED
        BY <1>4, <2>1, <3>1 DEF RestAims, StackMeant, Aimed
    <2>3. \A i \in DOMAIN stack : stack[i] # Token(a)
      BY <1>4, <2>1 DEF StackMeant, TokensSound
    <2>4. DOMAIN stack = 1..Depth
      BY <1>1, StackFacts
    <2>5. RestTokens
      <3>1. ASSUME NEW x \in Names, NEW i \in 1..Depth, stack[i] = Token(x)
            PROVE  anchors'[x] = DEFINING /\ current'[x] = current[x]
        <4>1. x # a
          BY <2>3, <2>4, <3>1
        <4>2. anchors[x] = DEFINING
          BY <2>1, <2>4, <3>1 DEF StackMeant, TokensSound
        <4>3. QED
          BY <1>5, <4>1, <4>2
      <3>2. QED
        BY <3>1 DEF RestTokens
    <2>6. NewAims(e, m)
      BY DEF NewAims, e, Token, NodeSyms
    <2>7. NewToken(e, m)
      <3>1. ASSUME NEW x \in Names, e = Token(x)
            PROVE  x = a
        BY <3>1 DEF e, Token
      <3>2. m = Def(current'[a])
        BY <1>5 DEF m
      <3>3. QED
        BY <1>5, <2>3, <2>4, <3>1, <3>2 DEF NewToken
    <2>8. QED
      BY ONLY <1>1, <1>4, <2>1, <2>2, <2>5, <2>6, <2>7, RestMeant
  <1>12. ShortUnhandled' /\ RootsMeant'
    BY <1>1, <1>4, <1>8, RootsKept DEF MeaningSound, ShortUnhandled
  <1>13. QED
    BY <1>9, <1>10, <1>11, <1>12 DEF MeaningSound
(* An alias is the node its name was last put on, or stands in for it.     *)
LEMMA MeaningAlias ==
  ASSUME Scene, quirks' = {}, NEW a \in Names, LoadAlias(a)
  PROVE  MeaningSound'
  <1>1. /\ OwnershipInv /\ PendingInv /\ LoadTypes /\ ValuesSound /\ MeaningSound /\ TypeOK /\ ~croaked
    BY NowScene DEF Scene, Parse
  <1>2. PICK n \in Nodes : GetAnchor(a, n) /\ Pops(0, [sym |-> "ATOM", val |-> n])
    BY <1>1, ShiftAliasShape DEF LoadAlias
  <1> DEFINE e == [sym |-> "ATOM", val |-> n]
             node == NewNode("bad", 0, <<>>)
             m == Def(current[a])
  <1>3. /\ UNCHANGED <<anchors, heap, body, returned, current, defs, roots, shortcut>> /\ phase = "parse"
        /\ content' = [i \in Nodes |-> IF i \in live' \ live THEN node ELSE content[i]]
        /\ current[a] # 0 /\ MeansTop(0, m) /\ Pops(0, e)
    BY <1>2 DEF LoadAlias, ShiftAlias, Expecting
  <1>4. anchors[a] # NONE /\ (anchors[a] = DEFINING => \E j \in DOMAIN stack : stack[j] = Token(a))
    BY <1>1, <1>3 DEF ValuesSound, NamesKnown, BeingBuilt
  <1>5. /\ e.sym = "ATOM" /\ e.val = n /\ e.sym \in NodeSyms /\ \A x \in Names : e # Token(x)
        /\ node.id = 0
    BY DEF NodeSyms, Token, NewNode
  <1>6. /\ live \subseteq Nodes /\ bad \subseteq live /\ DEFINING \notin Nodes /\ a # NONE
        /\ anchorOf \in [Nodes -> Names \cup {NONE}]
        /\ \A x \in Names : /\ anchors[x] \in Nodes =>
                                 anchors[x] \in live \ bad /\ anchorOf[anchors[x]] = x
                            /\ badAnchors[x] \in Nodes => badAnchors[x] \in bad /\ anchorOf[badAnchors[x]] = x
                            /\ badAnchors[x] \in Nodes \cup {NONE}
                            /\ anchors[x] \in Nodes \cup {NONE, DEFINING}
    BY <1>1, ConstantsAssumption DEF OwnershipInv, TablesSound, TypeOK
  <1>7. Words' = Words /\ Words.defs = defs /\ Words.current = current /\ Words.anchors = anchors
    BY <1>3 DEF Words
  <1> HIDE DEF e, node, m
  <1>8. \/ /\ UNCHANGED <<live, bad, anchorOf>> /\ anchors[a] \in Nodes /\ n = anchors[a]
        \/ /\ UNCHANGED <<live, bad, anchorOf>> /\ anchors[a] = DEFINING
           /\ n \in bad /\ anchorOf[n] = a
        \/ /\ anchors[a] = DEFINING /\ n \notin live /\ live' = live \cup {n} /\ bad' = bad \cup {n}
           /\ anchorOf' = [anchorOf EXCEPT ![n] = a]
    <2>1. CanAlloc => Fresh \in Nodes \ live
      BY <1>6, FreshIsDead
    <2>2. QED
      BY <1>2, <1>4, <1>6, <2>1 DEF GetAnchor
  <1>9. /\ \A i \in live : content'[i] = content[i] /\ i \in live'
        /\ \A i \in live' \ live : i = n /\ content'[i] = node /\ i \in bad'
        /\ \A i \in live : (i \in bad' <=> i \in bad) /\ anchorOf'[i] = anchorOf[i]
        /\ \A i \in bad' : i \in bad \/ i = n
    BY <1>3, <1>6, <1>8
  <1>10. Told(Words, Now, body)'
    <2>1. World(Now) /\ Told(Words, Now, body') /\ Learns(Words, Words')
      BY <1>1, <1>3, <1>7, NowScene, LearnsSame DEF PendingInv
    <2>2. Upkeep(Now)
      BY <1>3, <1>5, <1>9 DEF Upkeep, Now
    <2>3. NewTold(Now)
      BY <1>9 DEF NewTold
    <2>4. QED
      BY <1>1, <2>1, <2>2, <2>3, ToldStep
  <1>11. Glossary'
    BY <1>1, <1>3, <1>6, <1>9 DEF MeaningSound, Glossary
  <1>12. StackMeant'
    <2>1. StackMeant /\ \A i \in Places : stack[i].val \in live
      BY <1>1 DEF MeaningSound, OwnershipInv, StackSound
    <2>2. RestAims
      <3>1. ASSUME NEW i \in live, NEW x, AimsAt(i, x)
            PROVE  AimsAt(i, x)'
        BY <1>7, <1>9, <3>1 DEF AimsAt
      <3>2. QED
        BY <1>9, <2>1, <3>1 DEF RestAims, StackMeant, Aimed
    <2>3. DOMAIN stack = 1..Depth
      BY <1>1, StackFacts
    <2>4. RestTokens
      BY <1>3, <2>1, <2>3 DEF RestTokens, StackMeant, TokensSound
    <2>5. NewToken(e, m)
      BY <1>5 DEF NewToken
    <2>6. n \in bad' => Open(Words', m, anchorOf'[n]) /\ anchorOf'[n] = a /\ anchors[a] = DEFINING
      <3>1. n \in bad' => anchors[a] = DEFINING /\ anchorOf'[n] = a
        BY <1>6, <1>8
      <3>2. anchors[a] = DEFINING => Open(Words, m, a)
        BY <1>3, <1>7 DEF Open, m
      <3>3. QED
        BY <1>7, <3>1, <3>2
    <2>7. n \notin bad' => Points(Words', m, content'[n].uid) /\ anchorOf'[n] # NONE
      <3>1. ASSUME n \notin bad'
            PROVE  anchors[a] \in Nodes /\ n = anchors[a] /\ UNCHANGED anchorOf
        BY <1>8, <3>1
      <3>2. ASSUME anchors[a] \in Nodes
            PROVE  current[a] \in 1..Len(defs) /\ defs[current[a]] = Node(content[anchors[a]].uid)
        BY <1>1, <3>2 DEF MeaningSound, Glossary
      <3>3. ASSUME n \notin bad'
            PROVE  Points(Words, m, content[n].uid)
        BY <1>7, <3>1, <3>2, <3>3 DEF Points, m
      <3>4. QED
        BY <1>6, <1>7, <1>9, <3>1, <3>3
    <2>8. Depth' = Depth + 1 /\ Depth \in Nat
      <3>1. Depth' = Depth - 0 + 1 /\ Depth \in Nat
        BY <1>1, <1>3, PopsFacts DEF TypeOK
      <3>2. QED
        BY <3>1
    <2>9. n \in bad' => \E j \in 1..Depth : j < Depth' /\ stack[j] = Token(anchorOf'[n])
      BY <1>4, <2>3, <2>6, <2>8
    <2>10. NewAims(e, m)
      <3>1. \A i, x : i = n /\ x = m => AimsAt(i, x)'
        BY <2>6, <2>7 DEF AimsAt
      <3>2. QED
        BY <1>5, <2>9, <3>1 DEF NewAims
    <2>11. QED
      BY ONLY <1>1, <1>3, <2>1, <2>2, <2>4, <2>5, <2>10, RestMeant
  <1>13. ShortUnhandled'
    <2>1. \A i \in Nodes : shortcut[i] # NONE => i \in live
      BY <1>1, NoShortcut
    <2>2. QED
      BY <1>1, <1>3, <1>9, <2>1 DEF MeaningSound, ShortUnhandled
  <1>14. RootsMeant'
    BY <1>1, <1>3, <1>7, RootsKept, LearnsSame DEF MeaningSound
  <1>15. QED
    BY <1>10, <1>11, <1>12, <1>13, <1>14 DEF MeaningSound
-----------------------------------------------------------------------------
(* The node of an anchor is complete.                                      *)

(* A value in which the stand-in for a refers to box b.                    *)
Redirect(a, b, v) == IF v = Bad(a) THEN Ref(b) ELSE v

(* The heap k is h with every stand-in for a turned into box b, that of    *)
(* node u; b is of no account if there is none.                            *)
Clear(h, a) ==
  /\ \A s \in 1..Len(h.syms) : h.syms[s] # Bad(a)
  /\ \A c \in 1..Len(h.boxes) : \A i \in 1..Len(h.boxes[c].vals) : h.boxes[c].vals[i] # Bad(a)
Mends(h, k, a, b, u) ==
  /\ Clear(h, a) \/ (b \in 1..Len(k.boxes) /\ k.boxes[b].of = u)
  /\ \A s \in 1..Len(h.syms) : k.syms[s] = Redirect(a, b, h.syms[s])
  /\ \A c \in 1..Len(h.boxes) : c \in 1..Len(k.boxes) /\ Redirected(a, b, h.boxes[c], k.boxes[c])

(* The words l are g, but a is now known to be on node u.                  *)
Settles(g, l, a, u) ==
  /\ \A m : \A v \in Nat : Points(g, m, v) => Points(l, m, v)
  /\ \A m : \A x \in Names : Open(g, m, x) => IF x = a THEN Points(l, m, u) ELSE Open(l, m, x)

LEMMA IsNodeMended ==
  ASSUME NEW h, NEW k, NEW a, NEW b, NEW u, Mends(h, k, a, b, u), NEW v, NEW x, IsNodeIn(h.boxes, v, x)
  PROVE  IsNodeIn(k.boxes, v, x) /\ Redirect(a, b, v) = v
  <1>1. v # Bad(a)
    BY ValuesDiffer DEF IsNodeIn
  <1>2. IsNodeIn(k.boxes, v, x)
    BY DEF IsNodeIn, Mends, Redirected
  <1>3. QED
    BY <1>1, <1>2 DEF Redirect

LEMMA ForMended ==
  ASSUME NEW a, NEW u \in Nat, NEW g, NEW l, Settles(g, l, a, u),
         NEW h, NEW k, NEW b, Mends(h, k, a, b, u),
         NEW v, NEW m, For(g, h.boxes, v, m), v = Bad(a) => ~Clear(h, a)
  PROVE  For(l, k.boxes, Redirect(a, b, v), m)
  <1>1. CASE \E x \in Nat : Points(g, m, x) /\ IsNodeIn(h.boxes, v, x)
    <2>1. PICK x \in Nat : Points(g, m, x) /\ IsNodeIn(h.boxes, v, x)
      BY <1>1
    <2>2. Points(l, m, x) /\ IsNodeIn(k.boxes, v, x) /\ Redirect(a, b, v) = v
      BY <2>1, IsNodeMended DEF Settles
    <2>3. QED
      BY <2>2 DEF For
  <1>2. CASE \E x \in Names : Open(g, m, x) /\ v = Bad(x)
    <2>1. PICK x \in Names : Open(g, m, x) /\ v = Bad(x)
      BY <1>2
    <2>2. CASE x = a
      <3>1. Points(l, m, u) /\ Redirect(a, b, v) = Ref(b)
        BY <2>1, <2>2 DEF Settles, Redirect
      <3>2. b \in 1..Len(k.boxes) /\ k.boxes[b].of = u
        BY <2>1, <2>2 DEF Mends
      <3>3. IsNodeIn(k.boxes, Ref(b), u)
        BY <3>2 DEF IsNodeIn
      <3>4. QED
        BY <3>1, <3>3 DEF For
    <2>3. CASE x # a
      <3>1. Open(l, m, x)
        BY <2>1, <2>3 DEF Settles
      <3>2. Redirect(a, b, v) = Bad(x)
        BY <2>1, <2>3, ValuesDiffer DEF Redirect
      <3>3. QED
        BY <3>1, <3>2 DEF For
    <2>4. QED
      BY <2>2, <2>3
  <1>3. QED
    BY <1>1, <1>2 DEF For

LEMMA ListsMended ==
  ASSUME NEW a, NEW u \in Nat, NEW g, NEW l, Settles(g, l, a, u),
         NEW h, NEW k, NEW b, Mends(h, k, a, b, u),
         NEW items, items \in Seq(1..Len(h.syms)), NEW said, Lists(g, h, items, said)
  PROVE  /\ Lists(l, k, items, said)
         /\ \A i \in 1..Len(items) : For(l, k.boxes, Redirect(a, b, h.syms[items[i]]), said[i])
  <1>1. ASSUME NEW i \in 1..Len(items)
        PROVE  /\ For(l, k.boxes, Redirect(a, b, h.syms[items[i]]), said[i])
               /\ k.syms[items[i]] = Redirect(a, b, h.syms[items[i]])
    <2>1. items[i] \in 1..Len(h.syms)
      OBVIOUS
    <2>2. h.syms[items[i]] = Bad(a) => ~Clear(h, a)
      BY <2>1 DEF Clear
    <2>3. For(g, h.boxes, h.syms[items[i]], said[i])
      BY DEF Lists
    <2>4. k.syms[items[i]] = Redirect(a, b, h.syms[items[i]])
      BY <2>1 DEF Mends
    <2> DEFINE v == h.syms[items[i]]
               m == said[i]
    <2> HIDE DEF v, m
    <2>5. For(g, h.boxes, v, m) /\ (v = Bad(a) => ~Clear(h, a))
      BY <2>2, <2>3 DEF v, m
    <2>6. For(l, k.boxes, Redirect(a, b, v), m)
      BY <2>5, ForMended
    <2>7. QED
      BY <2>4, <2>6 DEF v, m
  <1>2. QED
    BY <1>1 DEF Lists

LEMMA BoxMended ==
  ASSUME NEW a, NEW u \in Nat, NEW g, NEW l, Settles(g, l, a, u),
         NEW h, NEW k, NEW b, Mends(h, k, a, b, u),
         NEW c \in 1..Len(h.boxes), NEW said, BoxTold(g, h.boxes, h.boxes[c], said)
  PROVE  BoxTold(l, k.boxes, k.boxes[c], said)
  <1>1. Redirected(a, b, h.boxes[c], k.boxes[c])
    BY DEF Mends
  <1>2. ASSUME NEW i \in 1..Len(h.boxes[c].vals)
        PROVE  For(l, k.boxes, k.boxes[c].vals[i], said[i])
    <2> DEFINE v == h.boxes[c].vals[i]
               m == said[i]
    <2>1. For(g, h.boxes, v, m) /\ (v = Bad(a) => ~Clear(h, a))
      BY DEF BoxTold, Clear
    <2>2. k.boxes[c].vals[i] = Redirect(a, b, v)
      BY <1>1 DEF Redirected, Redirect
    <2> HIDE DEF v, m
    <2>3. For(l, k.boxes, Redirect(a, b, v), m)
      BY <2>1, ForMended
    <2>4. QED
      BY <2>2, <2>3 DEF m
  <1>3. QED
    BY <1>1, <1>2 DEF BoxTold, Redirected

(* The anchor a is filed on node n, and the heap is mended.                *)
BoxFor(h, k, a, b, node, box) ==
  /\ box.of = node.uid /\ node.kind # "str" /\ Len(box.vals) = Len(node.items)
  /\ \A i \in 1..Len(node.items) : box.vals[i] = Redirect(a, b, h.syms[node.items[i]])
Retold(n, a, b) ==
  /\ n \in live /\ n \in Nodes /\ n \notin bad /\ a \in Names
  /\ UNCHANGED <<live, bad, badAnchors, shortcut, body, roots, current>>
  /\ anchorOf' = [anchorOf EXCEPT ![n] = a] /\ anchors' = [anchors EXCEPT ![a] = n]
  /\ Mends(heap, heap', a, b, content[n].uid)
  /\ \A m \in live : m # n => content'[m] = content[m]
  /\ content'[n].kind = content[n].kind /\ content'[n].uid = content[n].uid
  /\ content'[n].items = content[n].items
  /\ content'[n].id # 0 =>
       shortcut[n] = NONE /\ IsNodeIn(heap'.boxes, heap'.syms[content'[n].id], content[n].uid)
  /\ \A c \in 1..Len(heap'.boxes) :
       c \in 1..Len(heap.boxes) \/ BoxFor(heap, heap', a, b, content[n], heap'.boxes[c])

LEMMA ToldRetold ==
  ASSUME OwnershipInv, PendingInv, Told(Words, Now, body), NEW n, NEW a, NEW b, Retold(n, a, b),
         Settles(Words, Words', a, content[n].uid)
  PROVE  Told(Words, Now, body)'
  <1>1. /\ live \subseteq Nodes /\ bad \subseteq live /\ Now.heap = heap /\ Now.content = content
        /\ Now'.heap = heap' /\ Now'.content = content' /\ n \in live /\ n \in Nodes /\ n \notin bad /\ a \in Names
        /\ DEFINING \notin Nodes /\ anchorOf \in [Nodes -> Names \cup {NONE}]
        /\ anchors \in [Names -> Nodes \cup {NONE, DEFINING}]
    BY ConstantsAssumption DEF OwnershipInv, TypeOK, TablesSound, Now, Retold
  <1>2. \A m \in live : /\ content[m].items \in Seq(1..Len(heap.syms))
                        /\ content[m].id \in 0..Len(heap.syms)
                        /\ content[m].uid \in Nat
                        /\ Len(heap.syms) \in Nat
    BY <1>1, ItemsFacts DEF PendingInv, NodeType
  <1> DEFINE u == content[n].uid
             h == heap
  <1>3. PICK k : k = heap'
    OBVIOUS
  <1>4. PICK l : l = Words'
    OBVIOUS
  <1>5. Settles(Words, l, a, u) /\ Mends(h, k, a, b, u) /\ u \in Nat
    BY <1>1, <1>2, <1>3, <1>4 DEF Retold
  <1>6. \A m \in live : /\ content'[m].items = content[m].items /\ content'[m].kind = content[m].kind
                        /\ content'[m].uid = content[m].uid
    BY DEF Retold
  <1>7. UNCHANGED <<live, bad, body>>
    BY DEF Retold
  <1> HIDE DEF u, h
  <1>8. ASSUME NEW m \in live, m \notin bad, content[m].kind # "str"
        PROVE  /\ Lists(l, k, content[m].items, body[content[m].uid])
               /\ \A i \in 1..Len(content[m].items) :
                    For(l, k.boxes, Redirect(a, b, h.syms[content[m].items[i]]), body[content[m].uid][i])
    <2> DEFINE items == content[m].items
               said == body[content[m].uid]
    <2>1. Lists(Words, h, items, said) /\ items \in Seq(1..Len(h.syms))
      BY <1>1, <1>2, <1>8 DEF Told, ItemsTold, h
    <2> HIDE DEF items, said
    <2>2. /\ Lists(l, k, items, said)
          /\ \A i \in 1..Len(items) : For(l, k.boxes, Redirect(a, b, h.syms[items[i]]), said[i])
      BY ONLY <1>5, <2>1, ListsMended
    <2>3. QED
      BY <2>2 DEF items, said
  <1>9. ItemsTold(Words, Now, body)'
    BY <1>1, <1>3, <1>4, <1>6, <1>7, <1>8 DEF ItemsTold
  <1>10. ASSUME NEW c \in 1..Len(k.boxes)
         PROVE  BoxTold(l, k.boxes, k.boxes[c], body[k.boxes[c].of])
    <2>1. CASE c \in 1..Len(h.boxes)
      <3>1. BoxTold(Words, h.boxes, h.boxes[c], body[h.boxes[c].of])
        BY <1>1, <2>1 DEF Told, BoxesTold, h
      <3>2. k.boxes[c].of = h.boxes[c].of
        BY <1>5, <2>1 DEF Mends, Redirected
      <3> DEFINE said == body[h.boxes[c].of]
      <3> HIDE DEF said
      <3>3. BoxTold(Words, h.boxes, h.boxes[c], said)
        BY <3>1 DEF said
      <3>4. BoxTold(l, k.boxes, k.boxes[c], said)
        BY ONLY <1>5, <2>1, <3>3, BoxMended
      <3>5. QED
        BY <3>2, <3>4 DEF said
    <2>2. CASE BoxFor(h, k, a, b, content[n], k.boxes[c])
      <3>1. /\ k.boxes[c].of = content[n].uid /\ content[n].kind # "str"
            /\ Len(k.boxes[c].vals) = Len(content[n].items)
            /\ \A i \in 1..Len(content[n].items) : k.boxes[c].vals[i] = Redirect(a, b, h.syms[content[n].items[i]])
        BY <2>2 DEF BoxFor
      <3>2. /\ Len(content[n].items) = Len(body[content[n].uid])
            /\ \A i \in 1..Len(content[n].items) :
                 For(l, k.boxes, Redirect(a, b, h.syms[content[n].items[i]]), body[content[n].uid][i])
        BY <1>1, <1>8, <3>1 DEF Lists
      <3>3. QED
        BY <3>1, <3>2 DEF BoxTold
    <2>3. QED
      BY <1>3, <2>1, <2>2 DEF Retold, h
  <1>11. BoxesTold(Words, Now, body)'
    BY <1>1, <1>3, <1>4, <1>7, <1>10 DEF BoxesTold
  <1>12. ASSUME NEW m \in live, content'[m].id # 0
         PROVE  SymTold(Words, heap, m, content[m])'
    <2>1. Words'.anchors = anchors' /\ Words.anchors = anchors
      BY DEF Words
    <2>2. CASE m = n
      BY <1>1, <1>7, <1>12, <2>2 DEF SymTold, Retold
    <2>3. CASE m # n
      <3>1. content'[m] = content[m] /\ anchorOf'[m] = anchorOf[m]
        BY <1>1, <2>3 DEF Retold
      <3>2. SymTold(Words, h, m, content[m]) /\ content[m].id \in 1..Len(h.syms)
        <4>1. content[m].id \in 1..Len(heap.syms)
          BY <1>2, <1>12, <3>1
        <4>2. QED
          BY <1>1, <1>12, <3>1, <4>1 DEF Told, SymsTold, h
      <3>3. k.syms[content[m].id] = Redirect(a, b, h.syms[content[m].id])
        BY <1>5, <3>2 DEF Mends
      <3>4. ASSUME m \in bad, anchors'[anchorOf[m]] = DEFINING
            PROVE  k.syms[content[m].id] = Bad(anchorOf[m])
        <4>1. anchorOf[m] \in Names
          BY <3>4 DEF OwnershipInv, TablesSound, TypeOK
        <4>2. anchorOf[m] # a /\ anchors[anchorOf[m]] = DEFINING
          BY <1>1, <3>4, <4>1 DEF Retold
        <4>3. h.syms[content[m].id] = Bad(anchorOf[m])
          BY <2>1, <3>2, <3>4, <4>2 DEF SymTold
        <4>4. QED
          BY <3>3, <4>2, <4>3, ValuesDiffer DEF Redirect
      <3>5. ASSUME m \notin bad
            PROVE  IsNodeIn(k.boxes, k.syms[content[m].id], content[m].uid)
        <4> DEFINE v == h.syms[content[m].id]
                   x == content[m].uid
        <4>1. IsNodeIn(h.boxes, v, x)
          BY <3>2, <3>5 DEF SymTold
        <4>2. k.syms[content[m].id] = Redirect(a, b, v)
          BY <3>3
        <4> HIDE DEF v, x
        <4>3. IsNodeIn(k.boxes, v, x) /\ Redirect(a, b, v) = v
          BY ONLY <1>5, <4>1, IsNodeMended
        <4>4. IsNodeIn(k.boxes, k.syms[content[m].id], x)
          BY <4>2, <4>3
        <4>5. QED
          BY <4>4 DEF x
      <3>6. QED
        BY <1>3, <1>7, <2>1, <3>1, <3>4, <3>5 DEF SymTold
    <2>4. QED
      BY <2>2, <2>3
  <1>13. SymsTold(Words, Now)'
    BY <1>1, <1>7, <1>12 DEF SymsTold
  <1>14. QED
    BY <1>9, <1>11, <1>13 DEF Told

LEMMA RootsMended ==
  ASSUME PendingInv, LoadTypes, RootsMeant, NEW n, NEW a, NEW b, Retold(n, a, b),
         Settles(Words, Words', a, content[n].uid)
  PROVE  RootsMeant'
  <1> DEFINE u == content[n].uid
             h == heap
  <1>1. PICK k : k = heap'
    OBVIOUS
  <1>2. PICK l : l = Words'
    OBVIOUS
  <1>3. Settles(Words, l, a, u) /\ Mends(h, k, a, b, u) /\ u \in Nat /\ UNCHANGED roots
    BY <1>1, <1>2, ItemsFacts, NowFacts DEF Retold, PendingInv
  <1>4. ASSUME NEW i \in 1..Len(roots)
        PROVE  For(l, k.boxes, k.syms[roots[i].sym], roots[i].aim)
    <2>1. roots[i].sym \in 1..Len(h.syms)
      BY RootSyms
    <2> DEFINE v == h.syms[roots[i].sym]
               m == roots[i].aim
    <2>2. For(Words, h.boxes, v, m)
      BY DEF RootsMeant
    <2>3. v = Bad(a) => ~Clear(h, a)
      BY <2>1 DEF Clear
    <2>4. k.syms[roots[i].sym] = Redirect(a, b, v)
      BY <1>3, <2>1 DEF Mends
    <2> HIDE DEF v, m, u, h
    <2>5. For(l, k.boxes, Redirect(a, b, v), m)
      BY ONLY <1>3, <2>2, <2>3, ForMended
    <2>6. QED
      BY <2>4, <2>5 DEF m
  <1>5. QED
    BY <1>1, <1>2, <1>3, <1>4 DEF RootsMeant

LEMMA MeaningRetold ==
  ASSUME Scene, NEW n, NEW a, NEW b, ReduceAnchor, n = Val(0), a = Val(1), anchorOf[n] = NONE,
         Retold(n, a, b),
         defs' = [defs EXCEPT ![Top(1)[2]] = Top(0)], MeansTop(2, Top(0))
  PROVE  MeaningSound'
  <1> DEFINE e == [sym |-> Sym(0), val |-> n]
             u == content[n].uid
             d == current[a]
  <1>1. /\ OwnershipInv /\ PendingInv /\ LoadTypes /\ ValuesSound /\ MeaningSound /\ TypeOK /\ StackMeant /\ Glossary
    BY NowScene DEF Scene, Parse, MeaningSound
  <1>2. /\ n \in Nodes /\ a \in Names /\ Sym(0) \in {"ATOM", "TMAP"} /\ Sym(1) = "ANCHOR"
        /\ Pops(2, e) /\ e.sym \in NodeSyms /\ n \in live /\ n \notin bad
    BY <1>1, ReduceAnchorShape DEF ReduceAnchor, NodeSyms, Retold
  <1>3. /\ Depth \in Nat /\ Depth \in 1..Depth /\ Depth - 1 \in 1..Depth /\ DOMAIN stack = 1..Depth
        /\ stack[Depth] = e /\ stack[Depth - 1] = Token(a) /\ Depth - 0 = Depth /\ Depth' = Depth - 1
        /\ Depth \in Places
    <2>1. /\ Depth - 1 \in 1..Depth /\ stack[Depth - 1] \in Entry
          /\ stack[Depth - 1].sym = "ANCHOR" /\ stack[Depth - 1].val = a
      BY <1>1, <1>2, TopFacts DEF TypeOK
    <2>2. stack[Depth - 1] = Token(a)
      BY <2>1 DEF Entry, NameSyms, NodeSyms, MarkSyms, Token
    <2>3. /\ Depth - 0 \in 1..Depth /\ stack[Depth - 0] \in Entry
          /\ stack[Depth - 0].sym = Sym(0) /\ stack[Depth - 0].val = n
      BY <1>1, <1>2, TopFacts DEF TypeOK, NodeSyms
    <2>4. Depth \in Nat /\ DOMAIN stack = 1..Depth
      BY <1>1, StackFacts
    <2>5. Depth - 0 = Depth
      BY <2>4
    <2>6. stack[Depth] = e
      BY <2>3, <2>5, <1>2 DEF Entry, NameSyms, NodeSyms, MarkSyms
    <2>7. Depth' = Depth - 2 + 1
      BY <1>1, <1>2, PopsFacts DEF TypeOK
    <2>8. Depth' = Depth - 1
      BY <2>4, <2>7
    <2>9. Depth \in Places
      BY <1>2, <2>3, <2>4, <2>5 DEF Places
    <2>10. QED
      BY <2>1, <2>2, <2>3, <2>4, <2>5, <2>6, <2>8, <2>9
  <1> HIDE DEF e
  <1>4. /\ anchors[a] = DEFINING /\ Top(1) = Def(d)
        /\ \A j \in 1..Depth : stack[j] = Token(a) => j = Depth - 1
    BY <1>1, <1>2, <1>3 DEF StackMeant, TokensSound, Top
  <1>5. d \in 1..Len(defs) /\ defs[d] = Nothing(a) /\ Top(1)[2] = d
    BY <1>1, <1>2, <1>4 DEF Glossary, Def
  <1>6. /\ live \subseteq Nodes /\ bad \subseteq live /\ DEFINING \notin Nodes /\ DEFINING # NONE /\ a # NONE
        /\ anchorOf \in [Nodes -> Names \cup {NONE}]
        /\ anchors \in [Names -> Nodes \cup {NONE, DEFINING}]
        /\ \A m \in bad : anchorOf[m] \in Names
        /\ \A x \in Names : anchors[x] \in Nodes => anchors[x] \in live /\ anchorOf[anchors[x]] = x
        /\ \A i \in Places : stack[i].val \in live /\ i \in 1..Depth
    <2>1. /\ live \subseteq Nodes /\ bad \subseteq live /\ DEFINING \notin Nodes /\ DEFINING # NONE /\ a # NONE
          /\ anchorOf \in [Nodes -> Names \cup {NONE}]
          /\ anchors \in [Names -> Nodes \cup {NONE, DEFINING}]
      BY <1>1, <1>2, ConstantsAssumption DEF OwnershipInv, TablesSound, TypeOK
    <2>2. \A m \in bad : anchorOf[m] \in Names
      BY <1>1 DEF OwnershipInv, TablesSound, TypeOK
    <2>3. \A x \in Names : anchors[x] \in Nodes => anchors[x] \in live /\ anchorOf[anchors[x]] = x
      BY <1>1, ConstantsAssumption DEF OwnershipInv, TablesSound, TypeOK
    <2>4. \A i \in Places : stack[i].val \in live /\ i \in 1..Depth
      BY <1>1, <1>3 DEF OwnershipInv, StackSound, Places
    <2>5. QED
      BY <2>1, <2>2, <2>3, <2>4
  <1>7. Top(0) = Node(u) /\ u \in Nat
    <2>1. AimsAt(stack[Depth].val, means[Depth])
      BY <1>1, <1>3 DEF StackMeant, Aimed
    <2>2. stack[Depth].val = n
      BY <1>3 DEF e
    <2>3. u \in Nat
      BY <1>1, <1>2, ItemsFacts, NowFacts DEF PendingInv
    <2>4. QED
      BY <1>2, <1>3, <2>1, <2>2, <2>3 DEF AimsAt, Top
  <1>8. /\ Len(defs') = Len(defs) /\ Len(defs) \in Nat
        /\ \A i \in 1..Len(defs) : defs'[i] = IF i = d THEN Node(u) ELSE defs[i]
    <2> DEFINE S == Meaning \cup {Node(u)}
               x == Node(u)
    <2>1. defs \in Seq(S) /\ x \in S
      <3>1. Meaning \subseteq S
        OBVIOUS
      <3>2. Seq(Meaning) \subseteq Seq(S)
        BY <3>1, SeqMono
      <3>3. QED
        BY <1>1, <3>2 DEF LoadTypes
    <2>2. defs' = [defs EXCEPT ![d] = x]
      BY <1>5, <1>7
    <2> HIDE DEF S, x, u, d
    <2>3. Len(defs) \in Nat /\ DOMAIN defs = 1..Len(defs)
      BY <2>1
    <2>4. DOMAIN defs' = DOMAIN defs /\ \A i \in DOMAIN defs : defs'[i] = IF i = d THEN x ELSE defs[i]
      BY <2>2
    <2>5. Len(defs') = Len(defs)
      <3>1. defs' \in Seq(S) /\ Len(defs') = Len(defs)
        BY ONLY <2>1, <2>2, DefsEdited, Zenon
      <3>2. QED
        BY <3>1
    <2>6. QED
      BY <2>3, <2>4, <2>5 DEF x
  <1>9. /\ anchors' = [anchors EXCEPT ![a] = n] /\ UNCHANGED current
        /\ anchors'[a] = n /\ \A x \in Names : x # a => anchors'[x] = anchors[x]
        /\ Words.defs = defs /\ Words.current = current /\ Words.anchors = anchors
        /\ Words'.defs = defs' /\ Words'.current = current' /\ Words'.anchors = anchors'
    BY <1>2, <1>6 DEF Retold, Words
  <1>10. \A x \in Names : x # a => current[x] # d
    BY <1>1, <1>2, <1>5 DEF Glossary
  <1>11. \A x, y : Node(x) # Nothing(y)
    BY DEF Node, Nothing
  <1> HIDE DEF u, d
  <1>12. Settles(Words, Words', a, u)
    <2>1. ASSUME NEW m, NEW v \in Nat, Points(Words, m, v)
          PROVE  Points(Words', m, v)
      BY <1>5, <1>8, <1>9, <1>11, <2>1 DEF Points
    <2>2. ASSUME NEW m, NEW x \in Names, Open(Words, m, x)
          PROVE  IF x = a THEN Points(Words', m, u) ELSE Open(Words', m, x)
      <3>1. CASE x = a
        BY <1>5, <1>8, <1>9, <2>2, <3>1 DEF Points, Open, d
      <3>2. CASE x # a
        BY <1>9, <2>2, <3>2 DEF Open
      <3>3. QED
        BY <3>1, <3>2
    <2>3. QED
      BY <2>1, <2>2 DEF Settles
  <1>13. Told(Words, Now, body)' /\ RootsMeant'
    <2>1. Settles(Words, Words', a, content[n].uid) /\ Told(Words, Now, body) /\ RootsMeant
      BY <1>1, <1>12 DEF u, MeaningSound
    <2>2. QED
      BY ONLY <1>1, <2>1, Retold(n, a, b), ToldRetold, RootsMended
  <1>14. \A m \in live : content'[m].uid = content[m].uid
    BY DEF Retold
  <1>15. Glossary'
    <2>1. ASSUME NEW x \in Names, anchors'[x] = DEFINING
          PROVE  current'[x] \in 1..Len(defs') /\ defs'[current'[x]] = Nothing(x)
      <3>1. x # a /\ anchors[x] = DEFINING
        BY <1>2, <1>6, <1>9, <2>1
      <3>2. QED
        BY <1>1, <1>8, <1>9, <1>10, <3>1 DEF Glossary
    <2>2. ASSUME NEW x \in Names, anchors'[x] \in Nodes
          PROVE  /\ current'[x] \in 1..Len(defs')
                 /\ defs'[current'[x]] = Node(content'[anchors'[x]].uid)
      <3>1. CASE x = a
        BY <1>2, <1>5, <1>8, <1>9, <1>14, <3>1 DEF d, u
      <3>2. CASE x # a
        <4>1. anchors'[x] = anchors[x] /\ anchors[x] \in live
          BY <1>6, <1>9, <2>2, <3>2
        <4>2. current[x] \in 1..Len(defs) /\ defs[current[x]] = Node(content[anchors[x]].uid)
          BY <1>1, <2>2, <4>1 DEF Glossary
        <4>3. QED
          BY <1>8, <1>9, <1>10, <1>14, <3>2, <4>1, <4>2
      <3>3. QED
        BY <3>1, <3>2
    <2>3. \A x, y \in Names : current'[x] # 0 /\ current'[x] = current'[y] => x = y
      BY <1>1, <1>9 DEF Glossary
    <2>4. QED
      BY <2>1, <2>2, <2>3 DEF Glossary
  <1>16. /\ UNCHANGED <<live, bad>> /\ anchorOf'[n] = a
         /\ \A m \in Nodes : m # n => anchorOf'[m] = anchorOf[m]
    BY <1>2, <1>6 DEF Retold
  <1>17. StackMeant'
    <2>1. RestAims
      <3>1. ASSUME NEW i \in Places, i < Depth', NEW x, x = means[i], NEW m, m = stack[i].val
            PROVE  AimsAt(m, x)' /\ (m \in bad' => m \in bad /\ anchorOf'[m] = anchorOf[m])
        <4>1. AimsAt(m, x) /\ m \in live
          BY <1>1, <1>6, <3>1 DEF StackMeant, Aimed
        <4>2. CASE m \in bad
          <5>1. PICK j \in 1..Depth : j < i /\ stack[j] = Token(anchorOf[m])
            BY <1>1, <1>3, <3>1, <4>2 DEF StackMeant, BadAbove
          <5>2. j # Depth - 1
            BY <1>3, <1>6, <3>1, <5>1
          <5>3. anchorOf[m] # a
            BY <1>4, <5>1, <5>2
          <5>4. Open(Words', x, anchorOf[m])
            BY <1>6, <1>12, <4>1, <4>2, <5>3 DEF AimsAt, Settles
          <5>5. anchorOf'[m] = anchorOf[m]
            BY <1>2, <1>6, <1>16, <4>2
          <5>6. QED
            BY <1>16, <4>2, <5>4, <5>5 DEF AimsAt
        <4>3. CASE m \notin bad
          <5>1. Points(Words, x, content[m].uid) /\ (anchorOf[m] = NONE => x = Node(content[m].uid))
            BY <4>1, <4>3 DEF AimsAt
          <5>2. content[m].uid \in Nat /\ m \in Nodes
            BY <1>1, <1>6, <4>1, ItemsFacts, NowFacts DEF PendingInv
          <5>3. Points(Words', x, content'[m].uid)
            BY <1>12, <1>14, <4>1, <5>1, <5>2 DEF Settles
          <5>4. anchorOf'[m] = NONE => x = Node(content'[m].uid)
            BY <1>6, <1>14, <1>16, <4>1, <5>1, <5>2
          <5>5. QED
            BY <1>16, <4>3, <5>3, <5>4 DEF AimsAt
        <4>4. QED
          BY <4>2, <4>3
      <3>2. QED
        BY <3>1 DEF RestAims
    <2>2. RestTokens
      <3>1. ASSUME NEW x \in Names, NEW i \in 1..Depth, i < Depth', stack[i] = Token(x)
            PROVE  anchors'[x] = DEFINING /\ current'[x] = current[x]
        <4>1. x # a
          BY <1>3, <1>4, <3>1
        <4>2. anchors[x] = DEFINING
          BY <1>1, <1>3, <3>1 DEF StackMeant, TokensSound
        <4>3. QED
          BY <1>9, <4>1, <4>2
      <3>2. QED
        BY <3>1 DEF RestTokens
    <2> DEFINE m == Top(0)
    <2>3. NewAims(e, m)
      <3>1. \A i, x : i = n /\ x = Node(u) => AimsAt(i, x)'
        <4>1. Points(Words', Node(u), u)
          BY DEF Points
        <4>2. content'[n].uid = u
          BY <1>2, <1>14 DEF u
        <4>3. QED
          BY <1>2, <1>6, <1>16, <4>1, <4>2 DEF AimsAt
      <3>2. e.val = n /\ n \notin bad'
        BY <1>2, <1>16 DEF e
      <3>3. QED
        BY <1>7, <3>1, <3>2 DEF NewAims
    <2>4. NewToken(e, m)
      <3>1. \A x \in Names : e # Token(x)
        BY <1>2 DEF Token, NodeSyms
      <3>2. QED
        BY <3>1 DEF NewToken
    <2>5. MeansTop(2, m)
      OBVIOUS
    <2> HIDE DEF m
    <2>6. QED
      BY ONLY <1>1, <1>2, <2>1, <2>2, <2>3, <2>4, <2>5, RestMeant
  <1>18. ShortUnhandled'
    <2>1. UNCHANGED shortcut
      BY DEF Retold
    <2>2. ASSUME NEW m \in Nodes, shortcut[m] # NONE
          PROVE  content'[m].id = 0 /\ m \notin bad
      <3>1. content[m].id = 0 /\ m \notin bad
        BY <1>1, <2>2 DEF MeaningSound, ShortUnhandled
      <3>2. m \in live
        BY <1>1, <2>2, NoShortcut DEF Scene, Parse
      <3>3. QED
        BY <2>2, <3>1, <3>2 DEF Retold
    <2>3. QED
      BY <1>16, <2>1, <2>2 DEF ShortUnhandled
  <1>19. QED
    BY <1>13, <1>15, <1>17, <1>18 DEF MeaningSound

(* A heap with no stand-in for a is mended as it is.                       *)
LEMMA MendsSame ==
  ASSUME NEW h, NEW a, Clear(h, a), NEW b, NEW u
  PROVE  Mends(h, h, a, b, u)
  BY DEF Mends, Clear, Redirected, Redirect

LEMMA MeaningReduceAnchor ==
  ASSUME Scene, quirks' = {}, LoadReduceAnchor
  PROVE  MeaningSound'
  <1> DEFINE n == Val(0)
             a == Val(1)
             o == badAnchors[a]
             node == [content[n] EXCEPT !.id = content[o].id]
             w == [heap |-> Handle(heap, n, node, a), content |-> [content EXCEPT ![n] = node]]
             u == content[n].uid
             b == Len(heap.boxes) + 1
  <1>1. /\ OwnershipInv /\ PendingInv /\ LoadTypes /\ ValuesSound /\ MeaningSound /\ TypeOK /\ ~croaked
    BY NowScene DEF Scene, Parse
  <1>2. /\ n \in Nodes /\ a \in Names /\ Sym(0) \in {"ATOM", "TMAP"} /\ Sym(1) = "ANCHOR"
        /\ ReduceAnchor /\ UNCHANGED <<live, bad, badAnchors, shortcut>> /\ UNCHANGED <<body, returned, roots, current>>
        /\ MeansTop(2, Top(0)) /\ defs' = [defs EXCEPT ![Top(1)[2]] = Top(0)]
    BY <1>1, ReduceAnchorShape DEF LoadReduceAnchor, ReduceAnchor
  <1>3. /\ anchorOf[n] = NONE
        /\ \/ o # NONE /\ content[n].kind # "str" /\ Leave(w) /\ shortcut[n] = NONE
           \/ (o = NONE \/ content[n].kind = "str") /\ UNCHANGED <<content, heap>>
    BY DEF LoadReduceAnchor
  <1>4. anchorOf' = [anchorOf EXCEPT ![n] = a] /\ anchors' = [anchors EXCEPT ![a] = n]
    BY <1>2, <1>3 DEF ReduceAnchor, AddAnchor
  <1>5. /\ Depth - 1 \in DOMAIN stack /\ DOMAIN stack = 1..Depth /\ stack[Depth - 1] = Token(a)
        /\ n \in live /\ stack[Depth].sym = Sym(0) /\ stack[Depth].val = n /\ Depth \in Nat
    <2>1. /\ Depth - 1 \in 1..Depth /\ stack[Depth - 1] \in Entry
          /\ stack[Depth - 1].sym = "ANCHOR" /\ stack[Depth - 1].val = a
      BY <1>1, <1>2, TopFacts DEF TypeOK
    <2>2. stack[Depth - 1] = Token(a)
      BY <2>1 DEF Entry, NameSyms, NodeSyms, MarkSyms, Token
    <2>3. Depth - 0 = Depth /\ Depth \in Nat /\ DOMAIN stack = 1..Depth
      BY <1>1, StackFacts
    <2>4. QED
      BY <1>1, <1>2, <2>1, <2>2, <2>3, LiveTop, Repushed DEF NodeSyms
  <1>6. /\ n \notin bad /\ (o # NONE => o \in bad /\ o \in Nodes /\ o \in live /\ anchorOf[o] = a)
        /\ live \subseteq Nodes /\ DEFINING \notin Nodes
    BY <1>1, <1>2, <1>3, ConstantsAssumption DEF OwnershipInv, TablesSound, TypeOK
  <1>7. \A j \in DOMAIN stack : j > Depth - 1 => j = Depth
    BY <1>5
  <1>8. /\ content \in [Nodes -> NodeType(Len(heap.syms))] /\ HeapSound(heap) /\ heap \in HeapType
        /\ Len(heap.syms) \in Nat /\ Len(heap.boxes) \in Nat /\ Now.heap = heap /\ Now.content = content
        /\ Tracked(Now) /\ content[n].id = 0
    BY <1>1, <1>3, <1>5, NowFacts DEF PendingInv, HeapSound, HeapType, ValuesSound, LooseUnhandled
  <1>9. anchors[a] = DEFINING
    BY <1>1, <1>2, <1>5 DEF MeaningSound, StackMeant, TokensSound
  <1> HIDE DEF n, a, o
  <1>10. CASE o # NONE /\ content[n].kind # "str" /\ Leave(w) /\ shortcut[n] = NONE
    <2>1. content[o].id # 0
      <3>1. content[o].id = 0 => \E j \in Places : j > Depth - 1 /\ stack[j].val = o
        BY <1>1, <1>2, <1>5, <1>10 DEF ValuesSound, StandInAbove, o
      <3>2. \A j \in Places : j > Depth - 1 => stack[j].val = n
        BY <1>5, <1>7 DEF Places
      <3>3. QED
        BY <1>6, <1>10, <3>1, <3>2
    <2> DEFINE g == Handle(heap, n, node, a)
    <2>2. World(w) /\ node \in NodeType(Len(heap.syms))
      BY <1>1, <1>2, <1>6, <1>10, CircularWorld
    <2>3. DOMAIN content[n] = {"kind", "id", "uid", "items"}
      BY <1>2, <1>8 DEF NodeType
    <2>4. /\ node.id = content[o].id /\ node.kind = content[n].kind
          /\ node.uid = content[n].uid /\ node.items = content[n].items
      BY <2>3
    <2>5. heap' = g /\ \A m \in Nodes : m \in live => content'[m] = IF m = n THEN node ELSE content[m]
      BY <1>2, <1>8, <1>10 DEF Leave
    <2>6. node.id # 0 /\ node.kind # "str"
      BY <1>10, <2>1, <2>4
    <2> HIDE DEF w
    <2>7. /\ node.id \in 1..Len(heap.syms)
          /\ Len(g.syms) = Len(heap.syms) + 1 /\ Len(g.boxes) = b
          /\ g.syms[node.id] = Ref(b)
          /\ \A s \in 1..Len(heap.syms) : s # node.id => g.syms[s] = heap.syms[s]
          /\ \A c \in 1..Len(heap.boxes) : Redirected(a, b, heap.boxes[c], g.boxes[c])
          /\ g.boxes[b].of = node.uid /\ Len(g.boxes[b].vals) = Len(node.items)
          /\ \A i \in 1..Len(node.items) :
               /\ node.items[i] \in 1..Len(heap.syms)
               /\ g.boxes[b].vals[i] =
                    IF heap.syms[node.items[i]] = Bad(a) THEN Ref(b) ELSE heap.syms[node.items[i]]
      <3>1. g = Handle(heap, n, node, a) /\ b = Len(heap.boxes) + 1
        OBVIOUS
      <3>2. HeapSound(heap) /\ n \notin bad /\ a \in Names
        BY <1>2, <1>6, <1>8
      <3> HIDE DEF g, b, node
      <3>3. /\ Len(heap.syms) \in Nat /\ Len(heap.boxes) \in Nat /\ node.id \in 1..Len(heap.syms)
            /\ Len(g.syms) = Len(heap.syms) + 1 /\ Len(g.boxes) = b
            /\ g.syms[node.id] = Ref(b) /\ g.syms[Len(heap.syms) + 1] = Ref(b)
            /\ \A s \in 1..Len(heap.syms) : s # node.id => g.syms[s] = heap.syms[s]
        BY ONLY <2>2, <2>6, <3>1, <3>2, CircularCells
      <3>4. \A c \in 1..Len(heap.boxes) : Redirected(a, b, heap.boxes[c], g.boxes[c])
        BY ONLY <2>2, <2>6, <3>1, <3>2, CircularCells
      <3>5. /\ g.boxes[b].of = node.uid /\ Len(g.boxes[b].vals) = Len(node.items)
            /\ \A i \in 1..Len(node.items) :
                 /\ node.items[i] \in 1..Len(heap.syms)
                 /\ g.boxes[b].vals[i] =
                      IF heap.syms[node.items[i]] = Bad(a) THEN Ref(b) ELSE heap.syms[node.items[i]]
        BY ONLY <2>2, <2>6, <3>1, <3>2, CircularCells
      <3>6. QED
        BY <3>3, <3>4, <3>5
    <2> HIDE DEF g, node
    <2>8. heap.syms[node.id] = Bad(a)
      <3>1. SymTold(Words, heap, o, content[o])
        BY <1>1, <1>6, <1>8, <1>10, <2>1 DEF MeaningSound, Told, SymsTold
      <3>2. Words.anchors = anchors
        BY DEF Words
      <3>3. QED
        BY <1>6, <1>9, <1>10, <2>4, <3>1, <3>2 DEF SymTold
    <2>9. Len(heap.boxes) \in Nat /\ b \in 1..Len(g.boxes) /\ g.boxes[b].of = u
      BY <1>8, <2>4, <2>7
    <2>10. \A c \in 1..Len(g.boxes) : c \in 1..Len(heap.boxes) \/ c = b
      BY <1>8, <2>7
    <2>11. \A c \in 1..Len(heap.boxes) : c \in 1..Len(g.boxes)
      BY <1>8, <2>7
    <2> HIDE DEF b, u
    <2>12. \A s \in 1..Len(heap.syms) : g.syms[s] = Redirect(a, b, heap.syms[s])
      <3>1. ASSUME NEW s \in 1..Len(heap.syms), heap.syms[s] = Bad(a)
            PROVE  s = node.id
        BY <1>2, <1>8, <2>4, <3>1 DEF Tracked, o
      <3>2. QED
        BY <2>7, <2>8, <3>1 DEF Redirect
    <2>13. Mends(heap, g, a, b, u)
      BY <2>7, <2>9, <2>11, <2>12 DEF Mends
    <2>14. BoxFor(heap, g, a, b, content[n], g.boxes[b])
      BY <1>10, <2>4, <2>7 DEF BoxFor, Redirect
    <2>15. IsNodeIn(g.boxes, g.syms[node.id], u)
      BY <2>7, <2>9 DEF IsNodeIn
    <2>16. Retold(n, a, b)
      BY <1>2, <1>4, <1>5, <1>6, <1>10, <2>4, <2>5, <2>10, <2>13, <2>14, <2>15 DEF Retold, u
    <2>17. QED
      BY <1>2, <1>3, <2>16, MeaningRetold DEF n, a
  <1>11. CASE (o = NONE \/ content[n].kind = "str") /\ UNCHANGED <<content, heap>>
    <2>1. o = NONE
      <3>1. ASSUME o # NONE
            PROVE  \E j \in DOMAIN stack : j > Depth - 1 /\ SolidIn(content, stack[j])
        BY <1>1, <1>2, <1>5, <3>1 DEF ValuesSound, WithinNode, o
      <3>2. content[n].kind = "str" => ~SolidIn(content, stack[Depth])
        BY <1>2, <1>5 DEF SolidIn, MarkSyms, NodeSyms
      <3>3. QED
        BY <1>7, <1>11, <3>1, <3>2
    <2>2. Clear(heap, a)
      <3>1. \A s \in 1..Len(heap.syms) : heap.syms[s] # Bad(a)
        BY <1>2, <1>8, <2>1 DEF Tracked, o
      <3>2. heap.pending[a] = {}
        BY <1>2, <1>8, <2>1 DEF Tracked, o
      <3>3. ASSUME NEW c \in 1..Len(heap.boxes), NEW i \in 1..Len(heap.boxes[c].vals),
                   heap.boxes[c].vals[i] = Bad(a)
            PROVE  FALSE
        <4>1. InCell(heap, Bad(a), <<c, i>>)
          BY <3>3 DEF InCell
        <4>2. <<c, i>> \in Cells(heap, Bad(a))
          BY <1>8, <4>1, CellsMember
        <4>3. QED
          BY <1>2, <1>8, <3>2, <4>2 DEF HeapSound, Exact
      <3>4. QED
        BY <3>1, <3>3 DEF Clear
    <2>3. Mends(heap, heap', a, b, u)
      BY <1>11, <2>2, MendsSame
    <2>4. Retold(n, a, b)
      BY <1>2, <1>4, <1>5, <1>6, <1>8, <1>11, <2>3 DEF Retold
    <2>5. QED
      BY <1>2, <1>3, <2>4, MeaningRetold DEF n, a
  <1>12. QED
    BY <1>3, <1>10, <1>11

-----------------------------------------------------------------------------
(* The end of a document.                                                  *)

LEMMA MeaningEmptied ==
  ASSUME Scene, NEW w, NEW S, Handled(w, S, body),
         UNCHANGED <<anchors, current, defs, bad, anchorOf, shortcut, body, returned>>,
         stack' = <<>>, live' \subseteq live, heap' = w.heap,
         \A n \in live' : content'[n] = w.content[n],
         \A n \in S : shortcut[n] = NONE,
         \A i \in 1..Len(roots') :
           \/ i \in 1..Len(roots) /\ roots'[i] = roots[i]
           \/ For(Words, w.heap.boxes, w.heap.syms[roots'[i].sym], roots'[i].aim)
  PROVE  MeaningSound'
  <1>1. /\ OwnershipInv /\ OwnershipInv' /\ PendingInv /\ LoadTypes /\ MeaningSound /\ ~croaked /\ ~croaked'
        /\ Told(Words, w, body) /\ Extends(heap, w.heap) /\ World(w) /\ Keeps(w)
        /\ \A n \in Nodes \ S : w.content[n].id = content[n].id
    BY NowScene DEF Scene, Parse, Handled, Tidy
  <1>2. Words' = Words /\ Learns(Words, Words')
    <2>1. Words' = Words
      BY DEF Words
    <2>2. QED
      BY <2>1, LearnsSame
  <1>3. DOMAIN stack' = {} /\ Places' = {}
    <2>1. DOMAIN stack' = {}
      BY SeqFacts
    <2>2. QED
      BY <2>1 DEF Places
  <1>4. Told(Words, Now, body)'
    <2>1. Upkeep(w) /\ NewTold(w)
      BY DEF Upkeep, NewTold
    <2>2. Told(Words, w, body')
      BY <1>1
    <2>3. QED
      BY <1>1, <1>2, <2>1, <2>2, ToldStep
  <1>5. /\ live \subseteq Nodes /\ live' \subseteq Nodes
        /\ \A x \in Names : anchors[x] \in Nodes => anchors[x] \in live'
    BY <1>1 DEF OwnershipInv, TypeOK, TablesSound
  <1>6. \A n \in live' : content'[n].uid = content[n].uid
    BY <1>1, <1>5 DEF Keeps
  <1>7. Glossary'
    BY <1>1, <1>5, <1>6 DEF MeaningSound, Glossary
  <1>8. StackMeant'
    BY <1>3 DEF StackMeant, Aimed, TokensSound, BadAbove
  <1>9. ShortUnhandled'
    <2>1. ASSUME NEW n \in Nodes, shortcut'[n] # NONE
          PROVE  content'[n].id = 0 /\ n \notin bad'
      <3>1. n \in live'
        BY <1>1, <2>1, ShortcutsLive DEF MapsLive
      <3>2. n \notin S
        BY <2>1
      <3>3. content[n].id = 0 /\ n \notin bad
        BY <1>1, <2>1 DEF MeaningSound, ShortUnhandled
      <3>4. QED
        BY <1>1, <3>1, <3>2, <3>3
    <2>2. QED
      BY <2>1 DEF ShortUnhandled
  <1>10. RootsMeant'
    <2> DEFINE k == w.heap
    <2>1. \A g : Learns(g, g)
      BY LearnsSame
    <2>2. ASSUME NEW i \in 1..Len(roots), roots'[i] = roots[i]
          PROVE  For(Words, k.boxes, k.syms[roots[i].sym], roots[i].aim)
      <3>1. roots[i].sym \in 1..Len(heap.syms)
        BY <1>1, RootSyms
      <3>2. k.syms[roots[i].sym] = heap.syms[roots[i].sym]
        BY <1>1, <3>1 DEF Extends
      <3> DEFINE v == heap.syms[roots[i].sym]
                 m == roots[i].aim
                 g == Words
                 h == heap
      <3>3. For(g, h.boxes, v, m) /\ Learns(g, g) /\ Extends(h, k)
        BY <1>1, <2>1 DEF MeaningSound, RootsMeant
      <3> HIDE DEF v, m, g, h, k
      <3>4. For(g, k.boxes, v, m)
        BY ONLY <3>3, ForGrows
      <3>5. QED
        BY <3>2, <3>4 DEF v, m, g
    <2> HIDE DEF k
    <2>3. ASSUME NEW i \in 1..Len(roots')
          PROVE  For(Words, k.boxes, k.syms[roots'[i].sym], roots'[i].aim)
      BY <2>2 DEF k
    <2>4. heap' = k
      BY DEF k
    <2>5. QED
      BY <1>2, <2>3, <2>4 DEF RootsMeant
  <1>11. QED
    BY <1>4, <1>7, <1>8, <1>9, <1>10 DEF MeaningSound

LEMMA MeaningRoot ==
  ASSUME Scene, LoadRoot
  PROVE  MeaningSound'
  <1> DEFINE n == Val(0)
             w == AddNode(Now, n)
             root == [sym |-> w.content[n].id, aim |-> Top(0)]
  <1>1. OwnershipInv /\ LoadTypes
    BY NowScene DEF Scene, Parse
  <1>2. /\ UNCHANGED <<anchors, current, defs, bad, anchorOf, shortcut, body, returned>> /\ stack' = <<>>
        /\ live' \subseteq live /\ live \subseteq Nodes
        /\ \/ Sym(0) = "ATOM" /\ Leave(w) /\ roots' = Append(roots, root)
           \/ UNCHANGED <<content, heap, roots, live>>
    <2>1. /\ UNCHANGED <<anchors, current, defs, bad, anchorOf, shortcut, body, returned>> /\ stack' = <<>>
          /\ live \subseteq Nodes /\ (Depth = 0 \/ Depth = 1) /\ ReduceRoot
      BY <1>1 DEF LoadRoot, ReduceRoot, OwnershipInv, TypeOK
    <2>2. CASE Depth = 1
      <3>1. Sym(0) = "ATOM" /\ live' \subseteq live
        BY <2>1, <2>2 DEF ReduceRoot, AddNodes
      <3>2. Leave(w) /\ roots' = Append(roots, root)
        BY <2>2 DEF LoadRoot
      <3>3. QED
        BY <2>1, <3>1, <3>2
    <2>3. CASE Depth = 0
      <3>1. UNCHANGED live
        BY <2>1, <2>3 DEF ReduceRoot
      <3>2. UNCHANGED <<content, heap, roots>>
        BY <2>3 DEF LoadRoot
      <3>3. QED
        BY <2>1, <3>1, <3>2
    <2>4. QED
      BY <2>1, <2>2, <2>3
  <1>3. CASE Sym(0) = "ATOM" /\ Leave(w) /\ roots' = Append(roots, root)
    <2> DEFINE S == {} \cup {n}
    <2>1. n \in live /\ n \in Nodes /\ Sym(0) \in NodeSyms /\ 0 \in Nat
      BY <1>1, <1>3, LiveTop DEF NodeSyms
    <2>2. Handled(w, S, body) /\ w.content[n].id # 0
      <3>1. Handled(Now, {}, body) /\ w = AddNode(Now, n) /\ OwnershipInv /\ n \in live
        BY <1>1, <2>1, HandledNone
      <3> HIDE DEF w, n
      <3>2. QED
        BY ONLY <3>1, HandledAdd
    <2> HIDE DEF w
    <2>3. For(Words, w.heap.boxes, w.heap.syms[w.content[n].id], Top(0))
      BY <2>1, <2>2, TopFor
    <2>4. \A m \in S : shortcut[m] = NONE
      BY <1>3, <2>1, NowScene
    <2>5. heap' = w.heap /\ \A m \in live' : content'[m] = w.content[m]
      BY <1>2, <1>3 DEF Leave
    <2>6. ASSUME NEW i \in 1..Len(roots')
          PROVE  \/ i \in 1..Len(roots) /\ roots'[i] = roots[i]
                 \/ For(Words, w.heap.boxes, w.heap.syms[roots'[i].sym], roots'[i].aim)
      <3>1. IsSeq(roots)
        BY <1>1 DEF LoadTypes, IsSeq
      <3> HIDE DEF root
      <3>2. /\ Len(roots) \in Nat /\ Len(roots') = Len(roots) + 1 /\ roots'[Len(roots) + 1] = root
            /\ \A j \in 1..Len(roots) : roots'[j] = roots[j]
        BY <1>3, <3>1, Appended
      <3>3. i \in 1..Len(roots) \/ i = Len(roots) + 1
        BY <3>2
      <3>4. QED
        BY <2>3, <3>2, <3>3 DEF root
    <2> HIDE DEF S, n, root
    <2>7. QED
      BY <1>2, <2>2, <2>4, <2>5, <2>6, MeaningEmptied
  <1>4. CASE UNCHANGED <<content, heap, roots, live>>
    <2>1. Handled(Now, {}, body) /\ Now.heap = heap /\ Now.content = content
      BY HandledNone, NowScene
    <2>2. QED
      BY <1>2, <1>4, <2>1, MeaningEmptied
  <1>5. QED
    BY <1>2, <1>3, <1>4

(* The nodes go; the values and what was said of them stay.                *)
LEMMA MeaningTeardown ==
  ASSUME OwnershipInv, PendingInv, Accounted, LoadTypes, ValuesSound, MeaningSound, ~croaked,
         LoadNextDocument \/ LoadFree
  PROVE  MeaningSound'
  <1>1. /\ StFree /\ Forget /\ UNCHANGED <<heap, stack, body, defs, roots, shortcut>> /\ stack = <<>>
        /\ current' = current \/ current' = [a \in Names |-> 0]
    BY DEF LoadNextDocument, LoadFree, NextDocument, FreeParser, OwnershipInv, PhaseSound, Forget
  <1>2. DOMAIN stack = {} /\ Places = {} /\ DOMAIN stack' = {} /\ Places' = {}
    <2>1. DOMAIN stack = {} /\ DOMAIN stack' = {}
      BY <1>1, SeqFacts
    <2>2. QED
      BY <2>1 DEF Places
  <1>3. \A x \in Names : anchors[x] # DEFINING
    BY <1>2, NothingBuilt
  <1>4. bad' = {} /\ live' = {}
    <2>1. Tracked(Now)
      BY DEF ValuesSound
    <2>2. bad \subseteq Filed
      <3>1. ASSUME NEW n \in bad PROVE n \in Filed
        <4>1. anchorOf[n] \in Names /\ badAnchors[anchorOf[n]] = n /\ n \in Nodes
          BY <2>1, <3>1 DEF Tracked, OwnershipInv, TablesSound, TypeOK
        <4>2. QED
          BY <4>1 DEF Filed, Entries
      <3>2. QED
        BY <3>1
    <2>3. live \subseteq Filed
      BY <1>2, <2>2, NothingLoose DEF Accounted, FilingSound
    <2>4. QED
      BY <1>1, <2>2, <2>3 DEF StFree
  <1>5. \A x \in Names : anchors'[x] = NONE
    BY <1>1 DEF StFree
  <1>6. DEFINING # NONE /\ NONE \notin Nodes
    BY ConstantsAssumption
  <1>7. Words.defs = defs /\ Words'.defs = defs /\ Words.anchors = anchors
    BY <1>1 DEF Words
  <1>8. Learns(Words, Words')
    <2>1. \A m : \A u \in Nat : Points(Words, m, u) => Points(Words', m, u)
      BY <1>7 DEF Points
    <2>2. \A m : \A x \in Names : ~Open(Words, m, x)
      BY <1>3, <1>7 DEF Open
    <2>3. QED
      BY <2>1, <2>2 DEF Learns
  <1>9. Told(Words, Now, body)'
    <2>1. World(Now) /\ Told(Words, Now, body') /\ Now.heap = heap
      BY <1>1 DEF PendingInv, MeaningSound, Now
    <2>2. Upkeep(Now) /\ NewTold(Now)
      BY <1>1, <1>4, <2>1 DEF Upkeep, NewTold
    <2>3. QED
      BY <1>8, <2>1, <2>2, ToldStep
  <1>10. Glossary'
    <2>1. \A x, y \in Names : current'[x] # 0 /\ current'[x] = current'[y] => x = y
      BY <1>1 DEF MeaningSound, Glossary
    <2>2. QED
      BY <1>5, <1>6, <2>1 DEF Glossary
  <1>11. StackMeant'
    BY <1>2 DEF StackMeant, Aimed, TokensSound, BadAbove
  <1>12. ShortUnhandled'
    <2>1. ASSUME NEW n \in Nodes
          PROVE  content'[n].id = 0 /\ n \notin bad'
      BY <1>1, <1>4 DEF Forget, Blank
    <2>2. QED
      BY <2>1 DEF ShortUnhandled
  <1>13. RootsMeant'
    BY <1>1, <1>8, RootsKept DEF MeaningSound
  <1>14. QED
    BY <1>9, <1>10, <1>11, <1>12, <1>13 DEF MeaningSound

-----------------------------------------------------------------------------
(* Every step.                                                             *)

MeaningInv == Regular => MeaningSound

LEMMA MeaningSame ==
  ASSUME OwnershipInv, PendingInv, LoadTypes, MeaningSound, UNCHANGED <<vars, loadVars>>
  PROVE  MeaningSound'
  <1>1. /\ UNCHANGED <<live, bad, anchorOf, anchors, stack, shortcut>>
        /\ UNCHANGED <<heap, content, body, defs, current, means, roots>>
    BY DEF vars, loadVars
  <1>2. Words' = Words /\ Learns(Words, Words') /\ Places' = Places
    <2>1. Words' = Words /\ Places' = Places
      BY <1>1 DEF Words, Places
    <2>2. QED
      BY <2>1, LearnsSame
  <1>3. Told(Words, Now, body)'
    <2>1. World(Now) /\ Told(Words, Now, body')
      BY <1>1 DEF PendingInv, MeaningSound
    <2>2. Upkeep(Now) /\ NewTold(Now)
      BY <1>1 DEF Upkeep, NewTold, Now
    <2>3. QED
      BY <1>2, <2>1, <2>2, ToldStep
  <1>4. StackMeant'
    BY <1>1, <1>2 DEF MeaningSound, StackMeant, Aimed, AimsAt, TokensSound, BadAbove
  <1>5. Glossary' /\ ShortUnhandled'
    BY <1>1 DEF MeaningSound, Glossary, ShortUnhandled
  <1>6. RootsMeant'
    BY <1>1, <1>2, RootsKept DEF MeaningSound
  <1>7. QED
    BY <1>3, <1>4, <1>5, <1>6 DEF MeaningSound

LEMMA MeaningStep ==
  ASSUME OwnershipInv, OwnershipInv', PendingInv, PendingInv', Accounted, LoadTypes, ValuesInv, MeaningInv,
         [LoadNext]_<<vars, loadVars>>
  PROVE  MeaningInv'
  <1>1. SUFFICES ASSUME quirks' = {}, ~croaked' PROVE MeaningSound'
    BY DEF MeaningInv, Regular
  <1>2. CASE Handles
    <2>1. quirks = {} /\ ~croaked /\ UNCHANGED croaked
      BY <1>1, <1>2, HandlesFacts
    <2>2. Scene
      BY <2>1 DEF ValuesInv, MeaningInv, Regular, Scene, Parse
    <2>3. QED
      BY <1>1, <1>2, <2>2, MeaningAnchor, MeaningAlias, MeaningScalar, MeaningMark, MeaningRename,
         MeaningClose, MeaningReduceAnchor, MeaningFirstItem, MeaningItem, MeaningMapping, MeaningLoneKey,
         MeaningPair, MeaningDash, MeaningEmptyFlow, MeaningCloseBlock, MeaningRoot DEF Handles
  <1>3. CASE LoadNextDocument \/ LoadFree
    <2>1. quirks = {} /\ ~croaked
      BY <1>1, <1>3, OtherFacts
    <2>2. QED
      BY <1>3, <2>1, MeaningTeardown DEF ValuesInv, MeaningInv, Regular
  <1>4. CASE LoadCroak
    BY <1>1, <1>4, OtherFacts
  <1>5. CASE UNCHANGED <<vars, loadVars>>
    <2>1. quirks = {} /\ ~croaked
      BY <1>1, <1>5 DEF vars, loadVars
    <2>2. QED
      BY <1>5, <2>1, MeaningSame DEF MeaningInv, Regular
  <1>6. QED
    BY <1>2, <1>3, <1>4, <1>5, NextIs

LEMMA MeaningStart == LoadInit => MeaningInv
  <1> SUFFICES ASSUME LoadInit PROVE MeaningSound
    BY DEF MeaningInv
  <1>1. /\ heap = [syms |-> <<>>, boxes |-> <<>>, pending |-> [a \in Names |-> {}]]
        /\ stack = <<>> /\ live = {} /\ roots = <<>>
        /\ anchors = [a \in Names |-> NONE] /\ current = [a \in Names |-> 0]
        /\ shortcut = [n \in Nodes |-> NONE]
    BY DEF LoadInit, Init
  <1>2. DOMAIN stack = {} /\ Places = {}
    <2>1. DOMAIN stack = {}
      BY <1>1, SeqFacts
    <2>2. QED
      BY <2>1 DEF Places
  <1>3. Len(heap.boxes) = 0 /\ Now.heap = heap /\ Len(roots) = 0 /\ 1..0 = {}
    BY <1>1 DEF Now
  <1>4. DEFINING # NONE /\ NONE \notin Nodes
    BY ConstantsAssumption
  <1>5. Told(Words, Now, body)
    BY <1>1, <1>3 DEF Told, ItemsTold, BoxesTold, SymsTold
  <1>6. Glossary /\ ShortUnhandled
    BY <1>1, <1>4 DEF Glossary, ShortUnhandled
  <1>7. StackMeant
    BY <1>2 DEF StackMeant, Aimed, TokensSound, BadAbove
  <1>8. RootsMeant
    BY <1>3 DEF RootsMeant
  <1>9. QED
    BY <1>5, <1>6, <1>7, <1>8 DEF MeaningSound

(* What was said of every item, alias and root is an invariant of every    *)
(* parse that meets none of the uses of anchors on which Load goes astray. *)
LEMMA MeaningHolds == LoadSpec => []MeaningInv
  <1>1. /\ LoadInv /\ LoadInv' /\ LoadTypes /\ ValuesInv /\ MeaningInv
        /\ [LoadNext]_<<vars, loadVars>>
        => MeaningInv'
    BY MeaningStep DEF LoadInv
  <1>2. QED
    BY <1>1, LoadInvariant, LoadTypesHold, ValuesStaySound, MeaningStart, PTL DEF LoadSpec

(* With no name being built, what a value is for is what it stands for.    *)
LEMMA ForStands ==
  ASSUME PendingInv, LoadTypes, \A x \in Names : anchors[x] # DEFINING,
         NEW v \in ValueIn(Len(body), Len(heap.boxes)), NEW m, For(Words, heap.boxes, v, m)
  PROVE  StandsFor(v, m)
  <1>1. Words.defs = defs /\ Words.anchors = anchors
    BY DEF Words
  <1>2. PICK u \in Nat : Points(Words, m, u) /\ IsNodeIn(heap.boxes, v, u)
    BY <1>1 DEF For, Open
  <1>3. DOMAIN body = 1..Len(body) /\ DOMAIN defs = 1..Len(defs)
    BY WordLens
  <1>4. u \in 1..Len(body) /\ IsNode(v, u)
    <2>1. CASE v = Str(u)
      <3>1. PICK x \in 1..Len(body) : v = Str(x)
        BY <2>1, ValuesDiffer DEF ValueIn
      <3>2. QED
        BY <2>1, <3>1, ValuesDiffer DEF IsNode
    <2>2. CASE \E b \in 1..Len(heap.boxes) : v = Ref(b) /\ heap.boxes[b].of = u
      <3>1. PICK b \in 1..Len(heap.boxes) : v = Ref(b) /\ heap.boxes[b].of = u
        BY <2>2
      <3>2. b \in DOMAIN heap.boxes
        <4>1. heap.boxes \in Seq(Box)
          BY NowLens DEF HeapType
        <4>2. QED
          BY <3>1, <4>1
      <3>3. heap.boxes[b].of \in 1..Len(body)
        BY DEF LoadTypes, Typed, Now
      <3>4. QED
        BY <3>1, <3>2, <3>3 DEF IsNode
    <2>3. QED
      BY <1>2, <2>1, <2>2 DEF IsNodeIn
  <1>5. QED
    BY <1>1, <1>2, <1>3, <1>4 DEF Points, StandsFor

LEMMA SaysWhatIsMeant ==
  ASSUME LoadInv, LoadTypes, ValuesInv, MeaningInv
  PROVE  LoadsWhatIsMeant
  <1> SUFFICES ASSUME phase = "done", quirks = {} PROVE Faithful
    BY DEF LoadsWhatIsMeant
  <1>1. ~croaked /\ stack = <<>> /\ OwnershipInv /\ PendingInv
    BY DEF LoadInv, OwnershipInv, PhaseSound
  <1>2. ValuesSound /\ MeaningSound
    BY <1>1 DEF ValuesInv, MeaningInv, Regular
  <1>3. \A x \in Names : anchors[x] # DEFINING
    <2>1. DOMAIN stack = {}
      BY <1>1, SeqFacts
    <2>2. QED
      BY <1>2, <2>1, NothingBuilt
  <1>4. /\ Now.heap = heap /\ Typed(Now, Len(body)) /\ heap \in HeapType
        /\ DOMAIN heap.boxes = 1..Len(heap.boxes) /\ DOMAIN roots = 1..Len(roots)
    <2>1. Now.heap = heap /\ Typed(Now, Len(body)) /\ heap \in HeapType
      BY <1>1, NowLens DEF LoadTypes, Now
    <2>2. heap.boxes \in Seq(Box)
      BY <2>1 DEF HeapType
    <2>3. DOMAIN heap.boxes = 1..Len(heap.boxes)
      BY <2>2
    <2>4. QED
      BY <2>1, <2>3, WordLens
  <1>5. ASSUME NEW i \in DOMAIN roots
        PROVE  StandsFor(heap.syms[roots[i].sym], roots[i].aim)
    <2>1. heap.syms[roots[i].sym] \in ValueIn(Len(body), Len(heap.boxes))
      BY <1>4, RootSyms DEF Typed
    <2>2. For(Words, heap.boxes, heap.syms[roots[i].sym], roots[i].aim)
      BY <1>2, <1>4 DEF MeaningSound, RootsMeant
    <2>3. QED
      BY <1>1, <1>3, <2>1, <2>2, ForStands
  <1>6. ASSUME NEW b \in DOMAIN heap.boxes
        PROVE  /\ Len(heap.boxes[b].vals) = Len(body[heap.boxes[b].of])
               /\ \A i \in DOMAIN heap.boxes[b].vals :
                    StandsFor(heap.boxes[b].vals[i], body[heap.boxes[b].of][i])
    <2>1. BoxTold(Words, heap.boxes, heap.boxes[b], body[heap.boxes[b].of])
      BY <1>2, <1>4 DEF MeaningSound, Told, BoxesTold
    <2>2. DOMAIN heap.boxes[b].vals = 1..Len(heap.boxes[b].vals)
      BY <1>4, BoxVals
    <2>3. \A i \in DOMAIN heap.boxes[b].vals : heap.boxes[b].vals[i] \in ValueIn(Len(body), Len(heap.boxes))
      BY <1>4, <2>2 DEF Typed
    <2>4. QED
      BY <1>1, <1>3, <2>1, <2>2, <2>3, ForStands DEF BoxTold
  <1>7. QED
    BY <1>5, <1>6 DEF Faithful

(* LoadsWhatIsMeant holds of every stream (perl_syck.h: the handler copies *)
(* values, notes the copies that only stand in for a node still being      *)
(* built, and mends them when that node is complete): when Load returns a  *)
(* document, its arrays and hashes hold what their nodes' items mean.      *)
THEOREM LoadCorrect == LoadSpec => []LoadsWhatIsMeant
  <1>1. LoadInv /\ LoadTypes /\ ValuesInv /\ MeaningInv => LoadsWhatIsMeant
    BY SaysWhatIsMeant
  <1>2. QED
    BY <1>1, LoadInvariant, LoadTypesHold, ValuesStaySound, MeaningHolds, PTL
=============================================================================
