------------------------- MODULE SyckValues_proofs -------------------------
(***************************************************************************)
(* The Perl values that Load builds: a node is loaded once, and a document *)
(* already returned does not change.                                       *)
(*                                                                         *)
(* ValuesInv is the invariant.  A turn is a step of the grammar seen from  *)
(* the values: what it pops, what it pushes, and the contents it leaves.   *)
(* Each action is shown to be a turn, and every turn keeps the invariant.  *)
(***************************************************************************)
EXTENDS SyckLoad_proofs

(* A parse that met none of the uses of anchors on which Load goes astray, *)
(* and no error.                                                           *)
Regular == quirks = {} /\ ~croaked

(* Nodes are told apart by their uids, a box belongs to one node, and a    *)
(* node not handled yet has none.                                          *)
Apart(w) ==
  /\ \A n \in live \ bad : w.content[n].uid \in 1..Len(body)
  /\ \A m, n \in live \ bad : w.content[m].uid = w.content[n].uid => m = n
  /\ \A b \in 1..Len(w.heap.boxes) : w.heap.boxes[b].of \in 1..Len(body)
  /\ \A b, c \in 1..Len(w.heap.boxes) : w.heap.boxes[b].of = w.heap.boxes[c].of => b = c
  /\ \A n \in live \ bad : w.content[n].id = 0 =>
       \A b \in 1..Len(w.heap.boxes) : w.heap.boxes[b].of # w.content[n].uid

(* A stand-in for a name, on the Perl side or in the parser, is that of an *)
(* anchor still being built, and the parser has one at most.               *)
Tracked(w) ==
  /\ \A x \in Names : \A s \in 1..Len(w.heap.syms) : w.heap.syms[s] = Bad(x) =>
       anchors[x] = DEFINING /\ badAnchors[x] # NONE /\ w.content[badAnchors[x]].id = s
  /\ \A x \in Names : \A p \in w.heap.pending[x] :
       anchors[x] = DEFINING /\ badAnchors[x] # NONE /\ p[1] > returned
  /\ \A n \in bad : /\ badAnchors[anchorOf[n]] = n
                    /\ w.content[n].id = 0 => anchors[anchorOf[n]] = DEFINING
  /\ returned \in 0..Len(w.heap.boxes)

(* What the handler leaves as it was: the nodes but for their symbols and  *)
(* items, and the documents returned.                                      *)
Keeps(w) ==
  /\ \A n \in Nodes : /\ w.content[n].kind = content[n].kind
                      /\ w.content[n].uid = content[n].uid
                      /\ content[n].id # 0 => w.content[n].id = content[n].id
  /\ \A b \in 1..returned : w.heap.boxes[b] = heap.boxes[b]

-----------------------------------------------------------------------------
(* What handling a node does.                                              *)

BoxOf(h, node) == [of |-> node.uid, vals |-> [i \in DOMAIN node.items |-> h.syms[node.items[i]]]]
StandInsOf(h, node, x) ==
  {<<Len(h.boxes) + 1, i>> : i \in {j \in DOMAIN node.items : h.syms[node.items[j]] = Bad(x)}}

(* The heap g is h with node handled for the first time.                   *)
FirstTime(h, n, node, a, g) ==
  \/ /\ n \in bad
     /\ g.syms = Append(h.syms, Bad(a)) /\ g.boxes = h.boxes /\ g.pending = h.pending
  \/ /\ n \notin bad /\ node.kind = "str"
     /\ g.syms = Append(h.syms, Str(node.uid)) /\ g.boxes = h.boxes /\ g.pending = h.pending
  \/ /\ n \notin bad /\ node.kind # "str"
     /\ g.syms = Append(h.syms, Ref(Len(h.boxes) + 1))
     /\ g.boxes = Append(h.boxes, BoxOf(h, node))
     /\ g.pending = [x \in Names |-> h.pending[x] \cup StandInsOf(h, node, x)]

LEMMA AddSymIs ==
  ASSUME NEW h \in HeapType, NEW v
  PROVE  /\ AddSym(h, v).syms = Append(h.syms, v)
         /\ AddSym(h, v).boxes = h.boxes /\ AddSym(h, v).pending = h.pending
  <1> DEFINE s == Append(h.syms, v)
  <1>1. AddSym(h, v) = [h EXCEPT !.syms = s]
    BY DEF AddSym
  <1> HIDE DEF s
  <1>2. [h EXCEPT !.syms = s] = [syms |-> s, boxes |-> h.boxes, pending |-> h.pending]
    BY DEF HeapType
  <1>3. QED
    BY <1>1, <1>2 DEF s

LEMMA BuildIs ==
  ASSUME NEW h \in HeapType, NEW node
  PROVE  /\ Build(h, node).syms = h.syms
         /\ Build(h, node).boxes = Append(h.boxes, BoxOf(h, node))
         /\ Build(h, node).pending = [x \in Names |-> h.pending[x] \cup StandInsOf(h, node, x)]
  <1> DEFINE vals == [i \in DOMAIN node.items |-> h.syms[node.items[i]]]
             b == Len(h.boxes) + 1
             own(x) == {<<b, i>> : i \in {j \in DOMAIN vals : vals[j] = Bad(x)}}
  <1>1. Build(h, node) = [syms |-> h.syms,
                          boxes |-> Append(h.boxes, [of |-> node.uid, vals |-> vals]),
                          pending |-> [x \in Names |-> h.pending[x] \cup own(x)]]
    BY DEF Build
  <1>2. \A x : own(x) = StandInsOf(h, node, x)
    BY DEF StandInsOf
  <1>3. BoxOf(h, node) = [of |-> node.uid, vals |-> vals]
    BY DEF BoxOf
  <1> HIDE DEF own, vals
  <1>4. QED
    BY <1>1, <1>2, <1>3

LEMMA HandleIs ==
  ASSUME NEW h, HeapSound(h), NEW n, NEW node \in NodeType(Len(h.syms)), node.id = 0, NEW a
  PROVE  FirstTime(h, n, node, a, Handle(h, n, node, a))
  <1> h \in HeapType
    BY DEF HeapSound
  <1>1. CASE n \in bad
    <2>1. Handle(h, n, node, a) = AddSym(h, Bad(a))
      BY <1>1 DEF Handle
    <2>2. QED
      BY <1>1, <2>1, AddSymIs DEF FirstTime
  <1>2. CASE n \notin bad /\ node.kind = "str"
    <2>1. Handle(h, n, node, a) = AddSym(h, Str(node.uid))
      BY <1>2 DEF Handle
    <2>2. QED
      BY <1>2, <2>1, AddSymIs DEF FirstTime
  <1>3. CASE n \notin bad /\ node.kind # "str"
    <2> DEFINE built == Build(h, node)
    <2>1. Handle(h, n, node, a) = AddSym(built, Ref(Len(built.boxes)))
      BY <1>3 DEF Handle
    <2>2. built \in HeapType /\ Len(built.boxes) = Len(h.boxes) + 1
      BY BuildSound DEF HeapSound
    <2>3. /\ built.syms = h.syms /\ built.boxes = Append(h.boxes, BoxOf(h, node))
          /\ built.pending = [x \in Names |-> h.pending[x] \cup StandInsOf(h, node, x)]
      BY BuildIs
    <2> HIDE DEF built
    <2>4. /\ AddSym(built, Ref(Len(built.boxes))).syms = Append(built.syms, Ref(Len(built.boxes)))
          /\ AddSym(built, Ref(Len(built.boxes))).boxes = built.boxes
          /\ AddSym(built, Ref(Len(built.boxes))).pending = built.pending
      BY <2>2, AddSymIs
    <2>5. QED
      BY <1>3, <2>1, <2>2, <2>3, <2>4, Zenon DEF FirstTime
  <1>4. QED
    BY <1>1, <1>2, <1>3

(* What syck_hdlr_add_node does: nothing, or a node is handled.            *)
LEMMA AddNodeIs ==
  ASSUME NEW w, World(w), NEW n \in Nodes, anchorOf[n] \in Names \cup {NONE}, NEW g, g = AddNode(w, n)
  PROVE  /\ DOMAIN g.content = Nodes
         /\ \A m \in Nodes : m # n => g.content[m] = w.content[m]
         /\ g.content[n].kind = w.content[n].kind /\ g.content[n].uid = w.content[n].uid
         /\ g.content[n].items = w.content[n].items
         /\ w.content[n].id # 0 => g = w
         /\ w.content[n].id = 0 =>
              /\ FirstTime(w.heap, n, w.content[n], anchorOf[n], g.heap)
              /\ g.content[n].id = Len(w.heap.syms) + 1
         /\ World(g) /\ g.content[n].id \in 1..Len(g.heap.syms)
         /\ g.content[n].id # 0 /\ Len(w.heap.syms) \in Nat
  <1> DEFINE node == w.content[n]
             k == Len(w.heap.syms)
             h == Handle(w.heap, n, node, anchorOf[n])
  <1>1. node \in NodeType(k) /\ HeapSound(w.heap) /\ k \in Nat /\ DOMAIN w.content = Nodes
    BY ItemsFacts DEF World
  <1>2. /\ World(g) /\ g.content[n].id \in 1..Len(g.heap.syms)
        /\ g.content[n].id # 0
    BY AddNodeSound
  <1>3. CASE node.id # 0
    <2>1. g = w
      BY <1>3 DEF AddNode
    <2>2. QED
      BY <1>1, <1>2, <1>3, <2>1
  <1>4. CASE node.id = 0
    <2>1. g = [heap |-> h, content |-> [w.content EXCEPT ![n].id = Len(h.syms)]]
      BY <1>4 DEF AddNode
    <2>2. FirstTime(w.heap, n, node, anchorOf[n], h)
      BY <1>1, <1>4, HandleIs
    <2>3. Len(h.syms) = k + 1
      <3> HIDE DEF node
      <3> QED BY <1>1, <1>4, HandleSound
    <2>4. DOMAIN node = {"kind", "id", "uid", "items"}
      BY <1>1 DEF NodeType
    <2> HIDE DEF h
    <2>5. g.heap = h /\ g.content = [w.content EXCEPT ![n] = [node EXCEPT !.id = k + 1]]
      BY <2>1, <2>3
    <2>6. g.content[n] = [node EXCEPT !.id = k + 1]
      BY <1>1, <2>5
    <2>7. QED
      BY <1>1, <1>2, <1>4, <2>2, <2>4, <2>5, <2>6
  <1>5. QED
    BY <1>3, <1>4

LEMMA Appended ==
  ASSUME NEW s, IsSeq(s), NEW x
  PROVE  /\ Len(s) \in Nat /\ Len(Append(s, x)) = Len(s) + 1
         /\ Append(s, x)[Len(s) + 1] = x
         /\ \A i \in 1..Len(s) : Append(s, x)[i] = s[i]
  BY DEF IsSeq

LEMMA HeapIs ==
  ASSUME NEW h \in HeapType
  PROVE  /\ IsSeq(h.syms) /\ IsSeq(h.boxes)
         /\ Len(h.syms) \in Nat /\ Len(h.boxes) \in Nat
         /\ h.pending \in [Names -> SUBSET (Nat \X Nat)]
  <1>1. h.syms \in Seq(Vals) /\ h.boxes \in Seq(Box)
    BY DEF HeapType
  <1>2. IsSeq(h.syms) /\ IsSeq(h.boxes)
    BY <1>1 DEF IsSeq
  <1>3. QED
    BY <1>1, <1>2 DEF HeapType

LEMMA ValuesDiffer ==
  /\ \A u, v : Str(u) # Ref(v)
  /\ \A u, x : Str(u) # Bad(x) /\ Ref(u) # Bad(x)
  /\ \A x, y : Bad(x) = Bad(y) => x = y
  /\ \A u, v : (Str(u) = Str(v) => u = v) /\ (Ref(u) = Ref(v) => u = v)
  BY DEF Str, Ref, Bad

(* A node handled the first time: the boxes, the symbols and the list grow *)
(* by its own.                                                             *)
LEMMA FirstTimeIs ==
  ASSUME NEW h \in HeapType, NEW n, NEW node, NEW a, NEW g, FirstTime(h, n, node, a, g)
  PROVE  /\ Len(h.syms) \in Nat /\ Len(h.boxes) \in Nat
         /\ Len(g.syms) = Len(h.syms) + 1
         /\ \A s \in 1..Len(h.syms) : g.syms[s] = h.syms[s]
         /\ \A x : g.syms[Len(h.syms) + 1] = Bad(x) => n \in bad /\ x = a
         /\ \/ Len(g.boxes) = Len(h.boxes)
            \/ /\ Len(g.boxes) = Len(h.boxes) + 1
               /\ n \notin bad /\ g.boxes[Len(h.boxes) + 1].of = node.uid
         /\ \A b \in 1..Len(h.boxes) : g.boxes[b] = h.boxes[b]
         /\ \A x \in Names : \A p \in g.pending[x] :
              \/ p \in h.pending[x]
              \/ /\ p[1] = Len(h.boxes) + 1
                 /\ \E i \in DOMAIN node.items : h.syms[node.items[i]] = Bad(x)
  <1>1. /\ IsSeq(h.syms) /\ IsSeq(h.boxes) /\ Len(h.syms) \in Nat /\ Len(h.boxes) \in Nat
    BY HeapIs
  <1>2. PICK v : g.syms = Append(h.syms, v) /\ \A x : v = Bad(x) => n \in bad /\ x = a
    <2>1. CASE n \in bad /\ g.syms = Append(h.syms, Bad(a))
      BY <2>1, ValuesDiffer
    <2>2. CASE \E u : g.syms = Append(h.syms, Str(u))
      BY <2>2, ValuesDiffer
    <2>3. CASE \E u : g.syms = Append(h.syms, Ref(u))
      BY <2>3, ValuesDiffer
    <2>4. QED
      BY <2>1, <2>2, <2>3 DEF FirstTime
  <1>3. /\ Len(g.syms) = Len(h.syms) + 1
        /\ \A s \in 1..Len(h.syms) : g.syms[s] = h.syms[s]
        /\ g.syms[Len(h.syms) + 1] = v
    BY <1>1, <1>2, Appended
  <1>4. CASE g.boxes = h.boxes /\ g.pending = h.pending
    BY <1>1, <1>2, <1>3, <1>4
  <1>5. CASE /\ n \notin bad
             /\ g.boxes = Append(h.boxes, BoxOf(h, node))
             /\ g.pending = [x \in Names |-> h.pending[x] \cup StandInsOf(h, node, x)]
    <2>1. /\ Len(g.boxes) = Len(h.boxes) + 1
          /\ g.boxes[Len(h.boxes) + 1] = BoxOf(h, node)
          /\ \A b \in 1..Len(h.boxes) : g.boxes[b] = h.boxes[b]
      BY <1>1, <1>5, Appended
    <2>2. BoxOf(h, node).of = node.uid
      BY DEF BoxOf
    <2>3. ASSUME NEW x \in Names, NEW p \in g.pending[x], p \notin h.pending[x]
          PROVE  /\ p[1] = Len(h.boxes) + 1
                 /\ \E i \in DOMAIN node.items : h.syms[node.items[i]] = Bad(x)
      <3>1. p \in StandInsOf(h, node, x)
        BY <1>5, <2>3
      <3>2. PICK i \in DOMAIN node.items :
              h.syms[node.items[i]] = Bad(x) /\ p = <<Len(h.boxes) + 1, i>>
        BY <3>1 DEF StandInsOf
      <3>3. QED
        BY <3>2
    <2>4. QED
      BY <1>1, <1>2, <1>3, <1>5, <2>1, <2>2, <2>3
  <1>6. QED
    BY <1>4, <1>5 DEF FirstTime

LEMMA AddNodeTidy ==
  ASSUME OwnershipInv, NEW w, World(w), NEW n \in live, NEW g, g = AddNode(w, n)
  PROVE  /\ Apart(w) => Apart(g)
         /\ Tracked(w) => Tracked(g)
         /\ Keeps(w) /\ Tracked(w) => Keeps(g)
  <1>0. n \in Nodes /\ anchorOf[n] \in Names \cup {NONE} /\ live \subseteq Nodes
    BY DEF OwnershipInv, TypeOK
  <1>1. /\ \A m \in Nodes : m # n => g.content[m] = w.content[m]
        /\ g.content[n].kind = w.content[n].kind /\ g.content[n].uid = w.content[n].uid
        /\ g.content[n].items = w.content[n].items
        /\ w.content[n].id # 0 => g = w
        /\ w.content[n].id = 0 =>
             /\ FirstTime(w.heap, n, w.content[n], anchorOf[n], g.heap)
             /\ g.content[n].id = Len(w.heap.syms) + 1
        /\ g.content[n].id # 0
    BY <1>0, AddNodeIs
  <1>2. CASE w.content[n].id # 0
    BY <1>1, <1>2, Zenon
  <1>3. CASE w.content[n].id = 0
    <2> DEFINE h == w.heap
               k == Len(h.syms)
               b == Len(h.boxes)
               node == w.content[n]
    <2>1. h \in HeapType /\ node.items \in Seq(1..k)
      BY <1>0, ItemsFacts DEF World, HeapSound
    <2>2. /\ k \in Nat /\ b \in Nat
          /\ Len(g.heap.syms) = k + 1
          /\ \A s \in 1..k : g.heap.syms[s] = h.syms[s]
          /\ \A x : g.heap.syms[k + 1] = Bad(x) => n \in bad /\ x = anchorOf[n]
          /\ \/ Len(g.heap.boxes) = b
             \/ /\ Len(g.heap.boxes) = b + 1
                /\ n \notin bad /\ g.heap.boxes[b + 1].of = node.uid
          /\ \A c \in 1..b : g.heap.boxes[c] = h.boxes[c]
          /\ \A x \in Names : \A p \in g.heap.pending[x] :
               \/ p \in h.pending[x]
               \/ p[1] = b + 1 /\ \E i \in DOMAIN node.items : h.syms[node.items[i]] = Bad(x)
      <3>1. FirstTime(h, n, node, anchorOf[n], g.heap)
        BY <1>1, <1>3
      <3> HIDE DEF h, node
      <3>2. h \in HeapType
        BY <2>1
      <3>3. /\ Len(h.syms) \in Nat /\ Len(h.boxes) \in Nat
            /\ Len(g.heap.syms) = Len(h.syms) + 1
            /\ \A s \in 1..Len(h.syms) : g.heap.syms[s] = h.syms[s]
            /\ \A x : g.heap.syms[Len(h.syms) + 1] = Bad(x) => n \in bad /\ x = anchorOf[n]
        BY ONLY <3>1, <3>2, FirstTimeIs
      <3>4. /\ \/ Len(g.heap.boxes) = Len(h.boxes)
               \/ /\ Len(g.heap.boxes) = Len(h.boxes) + 1
                  /\ n \notin bad /\ g.heap.boxes[Len(h.boxes) + 1].of = node.uid
            /\ \A c \in 1..Len(h.boxes) : g.heap.boxes[c] = h.boxes[c]
        BY ONLY <3>1, <3>2, FirstTimeIs
      <3>5. \A x \in Names : \A p \in g.heap.pending[x] :
              \/ p \in h.pending[x]
              \/ /\ p[1] = Len(h.boxes) + 1
                 /\ \E i \in DOMAIN node.items : h.syms[node.items[i]] = Bad(x)
        BY ONLY <3>1, <3>2, FirstTimeIs
      <3>6. QED
        BY <3>3, <3>4, <3>5
    <2> HIDE DEF h
    <2>3. \A m \in Nodes : /\ g.content[m].uid = w.content[m].uid
                           /\ g.content[m].kind = w.content[m].kind
                           /\ w.content[m].id # 0 => g.content[m].id = w.content[m].id
                           /\ g.content[m].id = 0 => w.content[m].id = 0 /\ m # n
      BY <1>1, <1>3
    <2>4. ASSUME Apart(w) PROVE Apart(g)
      <3>1. CASE Len(g.heap.boxes) = b
        <4>1. \A c \in 1..b : g.heap.boxes[c] = h.boxes[c]
          BY <2>2
        <4>2. /\ \A c \in 1..b : h.boxes[c].of \in 1..Len(body)
              /\ \A c, d \in 1..b : h.boxes[c].of = h.boxes[d].of => c = d
              /\ \A m \in live \ bad : w.content[m].id = 0 =>
                   \A c \in 1..b : h.boxes[c].of # w.content[m].uid
              /\ \A m \in live \ bad : w.content[m].uid \in 1..Len(body)
              /\ \A m, l \in live \ bad : w.content[m].uid = w.content[l].uid => m = l
          BY <2>4 DEF Apart, h
        <4> HIDE DEF b
        <4>3. /\ \A c \in 1..b : g.heap.boxes[c].of \in 1..Len(body)
              /\ \A c, d \in 1..b : g.heap.boxes[c].of = g.heap.boxes[d].of => c = d
          BY <4>1, <4>2
        <4>4. \A m \in live \ bad : g.content[m].id = 0 =>
                   \A c \in 1..b : g.heap.boxes[c].of # g.content[m].uid
          BY <1>0, <2>3, <4>1, <4>2
        <4>5. QED
          BY <1>0, <2>3, <3>1, <4>2, <4>3, <4>4 DEF Apart
      <3>2. CASE Len(g.heap.boxes) = b + 1 /\ n \notin bad /\ g.heap.boxes[b + 1].of = node.uid
        <4>1. n \in live \ bad /\ node.uid \in 1..Len(body)
          BY <2>4, <3>2 DEF Apart
        <4>2. \A c \in 1..b : g.heap.boxes[c].of # node.uid /\ g.heap.boxes[c].of = h.boxes[c].of
          BY <2>2, <2>4, <4>1, <1>3 DEF Apart, h
        <4>3. \A c \in 1..(b + 1) : c \in 1..b \/ c = b + 1
          BY <2>2
        <4>4. \A c \in 1..Len(g.heap.boxes) : g.heap.boxes[c].of \in 1..Len(body)
          BY <2>4, <3>2, <4>1, <4>2, <4>3 DEF Apart, h
        <4>5. ASSUME NEW c \in 1..(b + 1), NEW d \in 1..(b + 1),
                     g.heap.boxes[c].of = g.heap.boxes[d].of
              PROVE  c = d
          <5>1. \A i, j \in 1..b : h.boxes[i].of = h.boxes[j].of => i = j
            BY <2>4 DEF Apart, h
          <5>2. QED
            BY <3>2, <4>2, <4>3, <4>5, <5>1
        <4>6. ASSUME NEW m \in live \ bad, g.content[m].id = 0, NEW c \in 1..Len(g.heap.boxes)
              PROVE  g.heap.boxes[c].of # g.content[m].uid
          <5>1. m # n /\ w.content[m].id = 0 /\ g.content[m].uid = w.content[m].uid
            BY <2>3, <4>6, <1>0
          <5>2. CASE c = b + 1
            BY <2>4, <3>2, <4>1, <5>1, <5>2 DEF Apart
          <5>3. CASE c \in 1..b
            BY <2>4, <4>2, <4>6, <5>1, <5>3 DEF Apart, h
          <5>4. QED
            BY <3>2, <4>3, <5>2, <5>3
        <4>7. \A c, d \in 1..Len(g.heap.boxes) : g.heap.boxes[c].of = g.heap.boxes[d].of => c = d
          BY <3>2, <4>5
        <4>8. QED
          BY <1>0, <2>3, <2>4, <4>4, <4>6, <4>7 DEF Apart
      <3>3. QED
        BY <2>2, <3>1, <3>2
    <2>5. ASSUME Tracked(w) PROVE Tracked(g)
      <3>1. /\ n \in bad => anchorOf[n] \in Names /\ badAnchors[anchorOf[n]] = n
                            /\ anchors[anchorOf[n]] = DEFINING
            /\ NONE \notin Nodes
            /\ bad \subseteq Nodes
            /\ \A x \in Names : badAnchors[x] # NONE => badAnchors[x] \in Nodes
        BY <1>0, <1>3, <2>5, ConstantsAssumption DEF Tracked, OwnershipInv, TablesSound, TypeOK
      <3>2. ASSUME NEW x \in Names, NEW s \in 1..Len(g.heap.syms), g.heap.syms[s] = Bad(x)
            PROVE  anchors[x] = DEFINING /\ badAnchors[x] # NONE /\ g.content[badAnchors[x]].id = s
        <4>1. CASE s = k + 1
          <5>1. n \in bad /\ x = anchorOf[n]
            BY <2>2, <3>2, <4>1
          <5>2. g.content[n].id = k + 1
            BY <1>1, <1>3 DEF h
          <5>3. QED
            BY <1>0, <3>1, <4>1, <5>1, <5>2
        <4>2. CASE s \in 1..k
          <5>1. anchors[x] = DEFINING /\ badAnchors[x] # NONE /\ w.content[badAnchors[x]].id = s
            BY <2>2, <2>5, <3>2, <4>2 DEF Tracked, h
          <5>2. s # 0
            BY <4>2
          <5>3. QED
            BY <2>3, <3>1, <5>1, <5>2
        <4>3. QED
          BY <2>2, <4>1, <4>2
      <3>3. ASSUME NEW x \in Names, NEW p \in g.heap.pending[x]
            PROVE  anchors[x] = DEFINING /\ badAnchors[x] # NONE /\ p[1] > returned
        <4>1. CASE p \in h.pending[x]
          BY <2>5, <4>1 DEF Tracked, h
        <4>2. CASE p[1] = b + 1 /\ \E i \in DOMAIN node.items : h.syms[node.items[i]] = Bad(x)
          <5>1. PICK i \in DOMAIN node.items : h.syms[node.items[i]] = Bad(x)
            BY <4>2
          <5>2. node.items[i] \in 1..k
            BY <2>1, <5>1
          <5>3. returned \in 0..b
            BY <2>5 DEF Tracked, h
          <5> HIDE DEF node
          <5>4. QED
            BY <2>2, <2>5, <4>2, <5>1, <5>2, <5>3 DEF Tracked, h
        <4>3. QED
          BY <2>2, <4>1, <4>2
      <3>4. \A m \in bad : /\ badAnchors[anchorOf[m]] = m
                           /\ g.content[m].id = 0 => anchors[anchorOf[m]] = DEFINING
        BY <2>3, <2>5, <3>1 DEF Tracked
      <3>5. returned \in 0..Len(g.heap.boxes)
        BY <2>2, <2>5 DEF Tracked, h
      <3>6. QED
        BY <3>2, <3>3, <3>4, <3>5 DEF Tracked
    <2>6. ASSUME Keeps(w), Tracked(w) PROVE Keeps(g)
      <3>1. \A c \in 1..returned : c \in 1..b
        BY <2>2, <2>6 DEF Tracked, h
      <3>2. \A c \in 1..returned : g.heap.boxes[c] = heap.boxes[c]
        BY <2>2, <2>6, <3>1 DEF Keeps, h
      <3>3. QED
        BY <2>3, <2>6, <3>2 DEF Keeps
    <2>7. QED
      BY <2>4, <2>5, <2>6
  <1>4. QED
    BY <1>2, <1>3

LEMMA SetItemsIs ==
  ASSUME NEW w, World(w), NEW n \in Nodes, NEW items, NEW g, g = SetItems(w, n, items)
  PROVE  /\ g.heap = w.heap /\ DOMAIN g.content = Nodes
         /\ \A m \in Nodes : m # n => g.content[m] = w.content[m]
         /\ g.content[n].kind = w.content[n].kind /\ g.content[n].uid = w.content[n].uid
         /\ g.content[n].id = w.content[n].id /\ g.content[n].items = items
  <1> DEFINE node == w.content[n]
  <1>1. DOMAIN node = {"kind", "id", "uid", "items"} /\ DOMAIN w.content = Nodes
    BY ItemsFacts DEF World, NodeType
  <1> HIDE DEF node
  <1>2. g.heap = w.heap /\ g.content = [w.content EXCEPT ![n] = [node EXCEPT !.items = items]]
    BY DEF SetItems, node
  <1>3. g.content[n] = [node EXCEPT !.items = items]
    BY <1>1, <1>2
  <1>4. QED
    BY <1>1, <1>2, <1>3 DEF node

LEMMA SetItemsTidy ==
  ASSUME OwnershipInv, NEW w, World(w), NEW n \in Nodes, NEW items, NEW g, g = SetItems(w, n, items)
  PROVE  /\ Apart(w) => Apart(g)
         /\ Tracked(w) => Tracked(g)
         /\ Keeps(w) => Keeps(g)
  <1>1. /\ live \subseteq Nodes /\ bad \subseteq Nodes
        /\ \A x \in Names : badAnchors[x] # NONE => badAnchors[x] \in Nodes
    BY DEF OwnershipInv, TypeOK
  <1>2. /\ g.heap = w.heap
        /\ \A m \in Nodes : /\ g.content[m].kind = w.content[m].kind
                            /\ g.content[m].uid = w.content[m].uid
                            /\ g.content[m].id = w.content[m].id
    BY SetItemsIs
  <1>3. Apart(w) => Apart(g)
    BY <1>1, <1>2 DEF Apart
  <1>4. Tracked(w) => Tracked(g)
    BY <1>1, <1>2 DEF Tracked
  <1>5. Keeps(w) => Keeps(g)
    BY <1>2 DEF Keeps
  <1>6. QED
    BY <1>3, <1>4, <1>5

LEMMA NowTidy ==
  ASSUME World(Now)
  PROVE  Keeps(Now)
  BY DEF Keeps, Now

-----------------------------------------------------------------------------
(* What a step leaves behind.                                              *)

(* The step leaves the contents w, but for a node it frees, and for one it *)
(* may build.                                                              *)
Settled(w) ==
  /\ heap' = w.heap
  /\ \A n \in live \cap live' : content'[n] = w.content[n]
  /\ \A n \in live' \ live : /\ content'[n].id = 0
                             /\ n \notin bad' => content'[n].uid = Len(body) + 1
  /\ \A m, n \in live' \ live : m = n
  /\ live' \ live \subseteq bad' \/ Len(body) + 1 <= Len(body')
  /\ Len(body) \in Nat /\ Len(body') \in Nat /\ Len(body) <= Len(body')
  /\ returned' = returned

(* No stand-in for the name x is left, unless a node still to be handled.  *)
NoTrace(w, x) ==
  /\ \A s \in 1..Len(w.heap.syms) : w.heap.syms[s] # Bad(x)
  /\ w.heap.pending[x] = {}
  /\ badAnchors[x] # NONE => w.content[badAnchors[x]].id # 0

(* The tables keep an anchor that is being built and its stand-in, or      *)
(* forget it without a trace; a new bad node stands in for such an anchor. *)
Refiled(w) ==
  /\ \A x \in Names : anchors[x] = DEFINING => anchors'[x] = DEFINING \/ NoTrace(w, x)
  /\ \A x \in Names : badAnchors[x] # NONE => badAnchors'[x] = badAnchors[x]
  /\ bad \subseteq bad' /\ bad' \subseteq live'
  /\ \A n \in bad : anchorOf'[n] = anchorOf[n]
  /\ \A n \in bad' \ bad : /\ n \notin live
                           /\ badAnchors'[anchorOf'[n]] = n /\ anchors'[anchorOf'[n]] = DEFINING

LEMMA SettledApart ==
  ASSUME OwnershipInv, NEW w, Apart(w), Settled(w), Refiled(w)
  PROVE  Apart(Now)'
  <1>1. Now'.heap = w.heap /\ Now'.content = content'
    BY DEF Now, Settled
  <1>2. ASSUME NEW n \in live' \ bad'
        PROVE  \/ /\ n \in live \ bad /\ content'[n] = w.content[n]
                  /\ content'[n].uid \in 1..Len(body)
               \/ n \notin live /\ content'[n].uid = Len(body) + 1
    BY DEF Settled, Refiled, Apart
  <1>3. /\ Len(body) \in Nat /\ Len(body') \in Nat /\ Len(body) <= Len(body')
        /\ live' \ live \subseteq bad' \/ Len(body) + 1 <= Len(body')
        /\ \A m, n \in live' \ live : m = n
    BY DEF Settled
  <1>4. \A n \in live' \ bad' : content'[n].uid \in 1..Len(body')
    BY <1>2, <1>3
  <1>5. ASSUME NEW m \in live' \ bad', NEW n \in live' \ bad', content'[m].uid = content'[n].uid
        PROVE  m = n
    BY <1>2, <1>3, <1>5 DEF Apart
  <1>6. /\ \A b \in 1..Len(w.heap.boxes) : w.heap.boxes[b].of \in 1..Len(body)
        /\ \A b, c \in 1..Len(w.heap.boxes) : w.heap.boxes[b].of = w.heap.boxes[c].of => b = c
        /\ \A n \in live \ bad : w.content[n].id = 0 =>
             \A b \in 1..Len(w.heap.boxes) : w.heap.boxes[b].of # w.content[n].uid
    BY DEF Apart
  <1>7. \A b \in 1..Len(w.heap.boxes) : w.heap.boxes[b].of \in 1..Len(body')
    BY <1>3, <1>6
  <1>8. ASSUME NEW n \in live' \ bad', content'[n].id = 0, NEW b \in 1..Len(w.heap.boxes)
        PROVE  w.heap.boxes[b].of # content'[n].uid
    BY <1>2, <1>3, <1>6, <1>8
  <1>9. QED
    BY <1>1, <1>4, <1>5, <1>6, <1>7, <1>8 DEF Apart

LEMMA SettledTracked ==
  ASSUME OwnershipInv, OwnershipInv', NEW w, World(w), Tracked(w), Settled(w), Refiled(w)
  PROVE  Tracked(Now)'
  <1>1. /\ Now'.heap = w.heap /\ Now'.content = content' /\ returned' = returned
        /\ w.heap.pending \in [Names -> SUBSET (Nat \X Nat)]
        /\ IsSeq(w.heap.syms) /\ Len(w.heap.syms) \in Nat
    BY HeapIs DEF Now, Settled, World, HeapSound
  <1>2. ASSUME NEW x \in Names, badAnchors[x] # NONE
        PROVE  /\ badAnchors'[x] = badAnchors[x] /\ badAnchors[x] \in bad
               /\ content'[badAnchors[x]] = w.content[badAnchors[x]]
    <2>1. badAnchors[x] \in bad /\ badAnchors[x] \in live
      BY <1>2 DEF OwnershipInv, TablesSound, TypeOK
    <2>2. badAnchors[x] \in live'
      BY <2>1 DEF Refiled
    <2>3. QED
      BY <1>2, <2>1, <2>2 DEF Refiled, Settled
  <1>3. ASSUME NEW x \in Names, NEW s \in 1..Len(w.heap.syms), w.heap.syms[s] = Bad(x)
        PROVE  anchors'[x] = DEFINING /\ badAnchors'[x] # NONE /\ content'[badAnchors'[x]].id = s
    <2>1. anchors[x] = DEFINING /\ badAnchors[x] # NONE /\ w.content[badAnchors[x]].id = s
      BY <1>3 DEF Tracked
    <2>2. anchors'[x] = DEFINING
      BY <1>3, <2>1 DEF Refiled, NoTrace
    <2>3. QED
      BY <1>2, <2>1, <2>2
  <1>4. ASSUME NEW x \in Names, NEW p \in w.heap.pending[x]
        PROVE  anchors'[x] = DEFINING /\ badAnchors'[x] # NONE /\ p[1] > returned
    <2>1. anchors[x] = DEFINING /\ badAnchors[x] # NONE /\ p[1] > returned
      BY <1>4 DEF Tracked
    <2>2. anchors'[x] = DEFINING
      BY <1>4, <2>1 DEF Refiled, NoTrace
    <2>3. QED
      BY <1>2, <2>1, <2>2
  <1>5. ASSUME NEW n \in bad'
        PROVE  /\ badAnchors'[anchorOf'[n]] = n
               /\ content'[n].id = 0 => anchors'[anchorOf'[n]] = DEFINING
    <2>1. CASE n \in bad
      <3>1. /\ anchorOf[n] \in Names /\ badAnchors[anchorOf[n]] = n /\ anchorOf'[n] = anchorOf[n]
            /\ n # NONE
        BY <2>1, ConstantsAssumption DEF OwnershipInv, TablesSound, TypeOK, Tracked, Refiled
      <3>2. badAnchors'[anchorOf[n]] = n /\ content'[n] = w.content[n]
        BY <3>1, <1>2
      <3>3. ASSUME w.content[n].id = 0
            PROVE  anchors'[anchorOf[n]] = DEFINING
        BY <2>1, <3>1, <3>3 DEF Tracked, Refiled, NoTrace
      <3>4. QED
        BY <3>1, <3>2, <3>3
    <2>2. CASE n \notin bad
      BY <2>2 DEF Refiled
    <2>3. QED
      BY <2>1, <2>2
  <1>6. returned' \in 0..Len(heap'.boxes)
    BY <1>1 DEF Tracked, Now
  <1>7. QED
    BY <1>1, <1>3, <1>4, <1>5, <1>6 DEF Tracked, Now

-----------------------------------------------------------------------------
(* The value stack.                                                        *)

Collections == {"SEQ", "MAP", "PAIR", "BMAP", "TMAP"}

(* An entry that no alias on its own can be: a mark, or a node that is no  *)
(* scalar in the contents c.                                               *)
SolidIn(c, e) == e.sym \in MarkSyms \/ (e.sym \in NodeSyms /\ c[e.val].kind # "str")

(* A node without an anchor is handled once, when it is freed.             *)
LooseUnhandled == \A n \in live : anchorOf[n] = NONE => content[n].id = 0

(* A stand-in not handled yet is on the stack above its anchor's token.    *)
StandInAbove ==
  \A x \in Names : badAnchors[x] # NONE /\ content[badAnchors[x]].id = 0 =>
    \A i \in DOMAIN stack : stack[i] = Token(x) =>
      \E j \in Places : j > i /\ stack[j].val = badAnchors[x]

(* An anchor used inside its node is not put on a scalar.                  *)
WithinNode ==
  \A x \in Names : badAnchors[x] # NONE =>
    \A i \in DOMAIN stack : stack[i] = Token(x) =>
      \E j \in DOMAIN stack : j > i /\ SolidIn(content, stack[j])

KindsSound ==
  \A i \in Places : stack[i].sym \in Collections => content[stack[i].val].kind \in {"seq", "map"}

(* An anchor whose node is still being built has its token on the stack.   *)
BeingBuilt ==
  \A x \in Names : anchors[x] = DEFINING => \E i \in DOMAIN stack : stack[i] = Token(x)

(* A name that is in no table has not been used in the document.           *)
NamesKnown == phase # "freed" => \A x \in Names : anchors[x] = NONE => current[x] = 0

ValuesSound ==
  /\ Apart(Now) /\ Tracked(Now)
  /\ LooseUnhandled /\ StandInAbove /\ WithinNode /\ KindsSound /\ BeingBuilt /\ NamesKnown
ValuesInv == Regular => ValuesSound

(* A step of the grammar that pops k entries, pushes e and leaves w.       *)
Turn(k, e, w) ==
  /\ Pops(k, e) /\ Settled(w) /\ Refiled(w)
  /\ World(w) /\ Apart(w) /\ Tracked(w) /\ Keeps(w)
  /\ \A n \in live \cap live' :
       anchorOf'[n] = NONE => anchorOf[n] = NONE /\ w.content[n].id = content[n].id
  /\ \A j \in 0..(k - 1) : Sym(j) \in NodeSyms /\ Val(j) \in bad =>
       w.content[Val(j)].id # 0 \/ (e.sym \in NodeSyms /\ e.val = Val(j))
  /\ \A j \in 0..(k - 1) : SolidIn(content, stack[Depth - j]) => SolidIn(content', e)
  /\ e.sym \in Collections => content'[e.val].kind \in {"seq", "map"}
  /\ \A x \in Names : e = Token(x) => badAnchors'[x] = NONE
  /\ \A x \in Names : badAnchors'[x] # badAnchors[x] =>
       /\ e.sym \in NodeSyms /\ e.val = badAnchors'[x]
       /\ SolidIn(content', e)
  /\ \A x \in Names : anchors'[x] = DEFINING =>
       \/ e = Token(x)
       \/ anchors[x] = DEFINING /\ \A j \in 0..(k - 1) : stack[Depth - j] # Token(x)

(* The entries of the stack after a turn.                                  *)
LEMMA TurnEntries ==
  ASSUME OwnershipInv, OwnershipInv', NEW k, NEW e, NEW w, Turn(k, e, w)
  PROVE  /\ Depth \in Nat /\ Depth' \in Nat /\ k \in 0..Depth /\ Depth' = Depth - k + 1
         /\ DOMAIN stack = 1..Depth /\ DOMAIN stack' = 1..Depth' /\ Depth' \in 1..Depth'
         /\ stack'[Depth'] = e
         /\ \A i \in 1..Depth' : i # Depth' => i \in 1..Depth /\ stack'[i] = stack[i]
         /\ \A i \in 1..Depth : i < Depth' => i \in 1..Depth' /\ i # Depth'
         /\ \A i \in 1..Depth : i >= Depth' => Depth - i \in 0..(k - 1) /\ Depth - (Depth - i) = i
         /\ \A i \in 1..Depth' : i \in Places' <=> stack'[i].sym \in NodeSyms
         /\ \A i \in 1..Depth : i \in Places <=> stack[i].sym \in NodeSyms
         /\ \A i \in Places' : stack'[i].val \in live' /\ stack'[i].val \in Nodes
         /\ \A i \in Places : /\ i # Depth' /\ i \in 1..Depth' => content'[stack[i].val] = w.content[stack[i].val]
                              /\ stack[i].val \in live /\ stack[i].val \in Nodes
  <1>1. TypeOK /\ StackSound /\ Pops(k, e)
    BY DEF OwnershipInv, Turn
  <1>2. /\ Depth \in Nat /\ Depth' \in Nat /\ k \in 0..Depth /\ Depth' = Depth - k + 1
        /\ DOMAIN stack = 1..Depth /\ DOMAIN stack' = 1..Depth'
        /\ stack'[Depth'] = e
        /\ \A i \in 1..Depth' : i # Depth' => i \in 1..Depth /\ stack'[i] = stack[i]
    BY <1>1, PopsFacts DEF TypeOK
  <1>3. /\ \A i \in 1..Depth' : i \in Places' <=> stack'[i].sym \in NodeSyms
        /\ \A i \in 1..Depth : i \in Places <=> stack[i].sym \in NodeSyms
    BY <1>2 DEF Places
  <1>4. /\ \A i \in Places' : stack'[i].val \in live' /\ stack'[i].val \in Nodes
        /\ \A i \in Places : stack[i].val \in live /\ stack[i].val \in Nodes
    BY DEF OwnershipInv, StackSound, TypeOK
  <1>5. ASSUME NEW i \in Places, i # Depth', i \in 1..Depth'
        PROVE  content'[stack[i].val] = w.content[stack[i].val]
    <2>1. i \in Places' /\ stack'[i] = stack[i]
      BY <1>2, <1>3, <1>5
    <2>2. stack[i].val \in live \cap live'
      BY <1>4, <2>1
    <2>3. QED
      BY <2>2 DEF Turn, Settled
  <1>6. QED
    BY <1>2, <1>3, <1>4, <1>5

(* The stand-in of a name before and after a turn.                         *)
LEMMA TurnStandIn ==
  ASSUME OwnershipInv, OwnershipInv', NEW k, NEW e, NEW w, Turn(k, e, w),
         NEW x \in Names, badAnchors'[x] # NONE
  PROVE  \/ e.sym \in NodeSyms /\ e.val = badAnchors'[x] /\ SolidIn(content', e)
         \/ /\ badAnchors[x] = badAnchors'[x] /\ badAnchors[x] \in bad
            /\ content'[badAnchors[x]] = w.content[badAnchors[x]]
            /\ content'[badAnchors[x]].id = 0 => content[badAnchors[x]].id = 0
  <1>1. CASE badAnchors'[x] # badAnchors[x]
    BY <1>1 DEF Turn
  <1>2. CASE badAnchors'[x] = badAnchors[x]
    <2> DEFINE m == badAnchors[x]
    <2>1. m \in bad /\ m \in live /\ m \in Nodes
      BY <1>2 DEF OwnershipInv, TablesSound, TypeOK
    <2>2. m \in live'
      BY <2>1 DEF Turn, Refiled
    <2>3. content'[m] = w.content[m]
      BY <2>1, <2>2 DEF Turn, Settled
    <2>4. content[m].id # 0 => w.content[m].id = content[m].id
      BY <2>1 DEF Turn, Keeps
    <2>5. QED
      BY <1>2, <2>1, <2>3, <2>4
  <1>3. QED
    BY <1>1, <1>2

LEMMA TurnAbove ==
  ASSUME OwnershipInv, OwnershipInv', NEW k, NEW e, NEW w, Turn(k, e, w), StandInAbove
  PROVE  StandInAbove'
  <1>1. SUFFICES ASSUME NEW x \in Names, badAnchors'[x] # NONE, content'[badAnchors'[x]].id = 0,
                        NEW i \in DOMAIN stack', stack'[i] = Token(x)
                 PROVE  \E j \in Places' : j > i /\ stack'[j].val = badAnchors'[x]
    BY DEF StandInAbove, Token
  <1>2. i # Depth'
    BY <1>1, TurnEntries DEF Turn
  <1>3. i \in 1..Depth' /\ i \in 1..Depth /\ stack[i] = Token(x) /\ i < Depth'
    BY <1>1, <1>2, TurnEntries
  <1>4. ASSUME e.sym \in NodeSyms, e.val = badAnchors'[x]
        PROVE  \E j \in Places' : j > i /\ stack'[j].val = badAnchors'[x]
    <2>1. Depth' \in Nat /\ Depth' \in 1..Depth' /\ stack'[Depth'] = e
      BY TurnEntries
    <2>2. Depth' \in Places'
      BY <1>4, <2>1, TurnEntries
    <2>3. Depth' > i
      BY <1>3, <2>1
    <2>4. stack'[Depth'].val = badAnchors'[x]
      BY <1>4, <2>1
    <2>5. QED
      BY <2>2, <2>3, <2>4
  <1>5. CASE /\ badAnchors[x] = badAnchors'[x] /\ badAnchors[x] \in bad
             /\ content'[badAnchors[x]] = w.content[badAnchors[x]]
             /\ content[badAnchors[x]].id = 0
    <2>1. PICK j \in Places : j > i /\ stack[j].val = badAnchors[x]
      BY <1>1, <1>3, <1>5, TurnEntries DEF StandInAbove
    <2>2. j \in 1..Depth /\ stack[j].sym \in NodeSyms
      BY TurnEntries DEF Places
    <2>3. CASE j < Depth'
      BY <1>5, <2>1, <2>2, <2>3, TurnEntries
    <2>4. CASE j >= Depth'
      <3>1. TypeOK /\ Pops(k, e)
        BY DEF OwnershipInv, Turn
      <3>2. PICK l \in 0..(k - 1) : stack[j].sym = Sym(l) /\ stack[j].val = Val(l)
        BY <2>4, <3>1, PoppedEntries
      <3>3. w.content[Val(l)].id = 0 /\ Val(l) \in bad /\ Sym(l) \in NodeSyms
        BY <1>1, <1>5, <2>1, <2>2, <3>2
      <3>4. e.sym \in NodeSyms /\ e.val = Val(l)
        BY <3>3 DEF Turn
      <3>5. QED
        BY <1>4, <1>5, <2>1, <3>2, <3>4
    <2>5. QED
      BY <2>2, <2>3, <2>4, TurnEntries
  <1>6. QED
    BY <1>1, <1>4, <1>5, TurnStandIn

LEMMA TurnWithin ==
  ASSUME OwnershipInv, OwnershipInv', NEW k, NEW e, NEW w, Turn(k, e, w), WithinNode
  PROVE  WithinNode'
  <1>1. SUFFICES ASSUME NEW x \in Names, badAnchors'[x] # NONE,
                        NEW i \in DOMAIN stack', stack'[i] = Token(x)
                 PROVE  \E j \in DOMAIN stack' : j > i /\ SolidIn(content', stack'[j])
    BY DEF WithinNode, Token, SolidIn
  <1>2. i # Depth'
    BY <1>1, TurnEntries DEF Turn
  <1>3. i \in 1..Depth' /\ i \in 1..Depth /\ stack[i] = Token(x) /\ i < Depth'
    BY <1>1, <1>2, TurnEntries
  <1>4. ASSUME SolidIn(content', e)
        PROVE  \E j \in DOMAIN stack' : j > i /\ SolidIn(content', stack'[j])
    <2>1. Depth' \in DOMAIN stack' /\ Depth' > i /\ stack'[Depth'] = e
      BY <1>3, TurnEntries
    <2>2. SolidIn(content', stack'[Depth'])
      BY <1>4, <2>1
    <2>3. QED
      BY <2>1, <2>2
  <1>5. CASE badAnchors[x] = badAnchors'[x]
    <2>1. PICK j \in DOMAIN stack : j > i /\ SolidIn(content, stack[j])
      BY <1>1, <1>3, <1>5, TurnEntries DEF WithinNode
    <2>2. j \in 1..Depth
      BY TurnEntries
    <2>3. CASE j < Depth'
      <3>1. j \in 1..Depth' /\ j # Depth' /\ stack'[j] = stack[j]
        BY <2>2, <2>3, TurnEntries
      <3>2. SolidIn(content', stack[j])
        <4>1. CASE stack[j].sym \in MarkSyms
          BY <4>1 DEF SolidIn
        <4>2. CASE stack[j].sym \in NodeSyms /\ content[stack[j].val].kind # "str"
          <5>1. j \in Places /\ stack[j].val \in Nodes
            BY <2>2, <4>2, TurnEntries
          <5>2. content'[stack[j].val].kind = content[stack[j].val].kind
            <6>1. content'[stack[j].val] = w.content[stack[j].val]
              BY <3>1, <5>1, TurnEntries
            <6>2. QED
              BY <5>1, <6>1 DEF Turn, Keeps
          <5>3. QED
            BY <4>2, <5>2 DEF SolidIn
        <4>3. QED
          BY <2>1, <4>1, <4>2 DEF SolidIn
      <3>3. QED
        BY <2>1, <3>1, <3>2, TurnEntries
    <2>4. CASE j >= Depth'
      <3>1. Depth - j \in 0..(k - 1) /\ Depth - (Depth - j) = j
        BY <2>2, <2>4, TurnEntries
      <3>2. SolidIn(content', e)
        BY <2>1, <3>1 DEF Turn
      <3>3. QED
        BY <1>4, <3>2
    <2>5. QED
      BY <2>2, <2>3, <2>4, TurnEntries
  <1>6. QED
    BY <1>1, <1>4, <1>5, TurnStandIn

LEMMA TurnKinds ==
  ASSUME OwnershipInv, OwnershipInv', NEW k, NEW e, NEW w, Turn(k, e, w), KindsSound
  PROVE  KindsSound'
  <1>1. SUFFICES ASSUME NEW i \in Places', stack'[i].sym \in Collections
                 PROVE  content'[stack'[i].val].kind \in {"seq", "map"}
    BY DEF KindsSound, Collections
  <1>2. i \in 1..Depth'
    BY TurnEntries DEF Places
  <1>3. CASE i = Depth'
    BY <1>1, <1>3, TurnEntries DEF Turn
  <1>4. CASE i # Depth'
    <2>1. i \in 1..Depth /\ stack'[i] = stack[i] /\ stack'[i].sym \in NodeSyms
      BY <1>2, <1>4, TurnEntries
    <2>2. i \in Places /\ stack[i].val \in Nodes
      BY <2>1, TurnEntries
    <2>3. content'[stack[i].val].kind = content[stack[i].val].kind
      BY <1>2, <1>4, <2>2, TurnEntries DEF Turn, Keeps
    <2>4. QED
      BY <1>1, <2>1, <2>2, <2>3 DEF KindsSound
  <1>5. QED
    BY <1>3, <1>4

LEMMA TurnBuilt ==
  ASSUME OwnershipInv, OwnershipInv', NEW k, NEW e, NEW w, Turn(k, e, w), BeingBuilt
  PROVE  BeingBuilt'
  <1>1. SUFFICES ASSUME NEW x \in Names, anchors'[x] = DEFINING
                 PROVE  \E i \in DOMAIN stack' : stack'[i] = Token(x)
    BY DEF BeingBuilt, Token
  <1>2. CASE e = Token(x)
    BY <1>2, TurnEntries
  <1>3. CASE anchors[x] = DEFINING /\ \A j \in 0..(k - 1) : stack[Depth - j] # Token(x)
    <2>1. PICK i \in DOMAIN stack : stack[i] = Token(x)
      BY <1>3 DEF BeingBuilt
    <2>2. i \in 1..Depth
      BY TurnEntries
    <2>3. ~(i >= Depth')
      <3>1. i >= Depth' => Depth - i \in 0..(k - 1) /\ stack[Depth - (Depth - i)] = Token(x)
        BY <2>1, <2>2, TurnEntries
      <3>2. QED
        BY <1>3, <3>1
    <2>4. i < Depth'
      BY <2>2, <2>3, TurnEntries
    <2>5. i \in 1..Depth' /\ i # Depth'
      BY <2>2, <2>4, TurnEntries
    <2>6. stack'[i] = Token(x) /\ i \in DOMAIN stack'
      BY <2>1, <2>5, TurnEntries
    <2>7. QED
      BY <2>6
  <1>4. QED
    BY <1>1, <1>2, <1>3 DEF Turn

LEMMA TurnLoose ==
  ASSUME NEW k, NEW e, NEW w, Turn(k, e, w), LooseUnhandled
  PROVE  LooseUnhandled'
  <1>1. ASSUME NEW n \in live', anchorOf'[n] = NONE
        PROVE  content'[n].id = 0
    BY <1>1 DEF Turn, Settled, LooseUnhandled
  <1>2. QED
    BY <1>1 DEF LooseUnhandled

(* Every turn that minds the tables keeps the values sound.                *)
LEMMA TurnSound ==
  ASSUME OwnershipInv, OwnershipInv', ValuesSound, NEW k, NEW e, NEW w, Turn(k, e, w),
         NamesKnown'
  PROVE  ValuesSound'
  <1>1. /\ StandInAbove' /\ WithinNode' /\ KindsSound' /\ BeingBuilt' /\ LooseUnhandled'
    BY TurnAbove, TurnWithin, TurnKinds, TurnBuilt, TurnLoose DEF ValuesSound
  <1>2. Apart(Now)' /\ Tracked(Now)'
    BY SettledApart, SettledTracked DEF Turn
  <1>3. QED
    BY <1>1, <1>2 DEF ValuesSound

-----------------------------------------------------------------------------
(* The contents that the handler leaves.                                   *)

(* Contents w made of those now by handling the nodes S.                   *)
Tidy(w, S) ==
  /\ World(w) /\ Apart(w) /\ Tracked(w) /\ Keeps(w)
  /\ \A n \in Nodes \ S : w.content[n].id = content[n].id

LEMMA TidyNow ==
  ASSUME PendingInv, ValuesSound
  PROVE  Tidy(Now, {})
  <1>1. World(Now) /\ Apart(Now) /\ Tracked(Now) /\ Keeps(Now)
    BY NowTidy DEF PendingInv, ValuesSound
  <1>2. Now.content = content
    BY DEF Now
  <1>3. QED
    BY <1>1, <1>2 DEF Tidy

LEMMA TidyAdd ==
  ASSUME OwnershipInv, NEW w, NEW S, Tidy(w, S), NEW n \in live, NEW g, g = AddNode(w, n)
  PROVE  /\ Tidy(g, S \cup {n})
         /\ g.content[n].id # 0
         /\ \A m \in Nodes : w.content[m].id # 0 => g.content[m].id # 0
         /\ g.content[n].id \in 1..Len(g.heap.syms)
         /\ \A m \in Nodes : m # n => g.content[m] = w.content[m]
  <1>1. World(w) /\ Apart(w) /\ Tracked(w) /\ Keeps(w)
    BY DEF Tidy
  <1>2. n \in Nodes /\ anchorOf[n] \in Names \cup {NONE}
    BY DEF OwnershipInv, TypeOK
  <1>3. /\ World(g) /\ g.content[n].id \in 1..Len(g.heap.syms) /\ g.content[n].id # 0
        /\ \A m \in Nodes : m # n => g.content[m] = w.content[m]
    BY <1>1, <1>2, AddNodeIs
  <1>4. Apart(g) /\ Tracked(g) /\ Keeps(g)
    BY <1>1, AddNodeTidy
  <1>5. \A m \in Nodes \ (S \cup {n}) : g.content[m].id = content[m].id
    BY <1>3 DEF Tidy
  <1>6. \A m \in Nodes : w.content[m].id # 0 => g.content[m].id # 0
    BY <1>3
  <1>7. Tidy(g, S \cup {n})
    BY <1>3, <1>4, <1>5 DEF Tidy
  <1>8. QED
    BY <1>3, <1>6, <1>7

LEMMA TidySet ==
  ASSUME OwnershipInv, NEW w, NEW S, Tidy(w, S), NEW n \in Nodes, NEW items,
         NEW g, g = SetItems(w, n, items), World(g)
  PROVE  /\ Tidy(g, S)
         /\ \A m \in Nodes : g.content[m].id = w.content[m].id
  <1>1. World(w) /\ Apart(w) /\ Tracked(w) /\ Keeps(w)
    BY DEF Tidy
  <1>2. \A m \in Nodes : g.content[m].id = w.content[m].id
    BY <1>1, SetItemsIs
  <1>3. Apart(g) /\ Tracked(g) /\ Keeps(g)
    BY <1>1, SetItemsTidy
  <1>4. QED
    BY <1>2, <1>3 DEF Tidy

LEMMA TidyApply ==
  ASSUME OwnershipInv, phase = "parse", NEW w, Tidy(w, {}), NEW m \in Nodes,
         NEW g, g = ApplySeq(w, m)
  PROVE  Tidy(g, {shortcut[m]})
  <1> DEFINE s == shortcut[m]
             added == AddNode(w, s)
             items == ReplaceLast(added.content[m].items, added.content[s].id)
  <1>1. CASE s = NONE
    <2>1. g = w
      BY <1>1 DEF ApplySeq
    <2>2. QED
      BY <2>1 DEF Tidy
  <1>2. CASE s # NONE
    <2>1. g = SetItems(added, m, items)
      BY <1>2 DEF ApplySeq
    <2>2. s \in live
      BY <1>2 DEF OwnershipInv, PhaseSound, ShortcutsSound
    <2>3. World(g)
      BY ApplySeqSound DEF Tidy, OwnershipInv
    <2> HIDE DEF items, s
    <2>4. Tidy(added, {} \cup {s})
      BY <2>2, TidyAdd
    <2> HIDE DEF added
    <2>5. Tidy(g, {} \cup {s})
      BY <2>1, <2>3, <2>4, TidySet
    <2>6. {} \cup {s} = {s}
      OBVIOUS
    <2>7. QED
      BY <2>5, <2>6 DEF s
  <1>3. QED
    BY <1>1, <1>2

LEMMA Longer ==
  ASSUME NEW s, IsSeq(s)
  PROVE  /\ Len(s) \in Nat
         /\ \A x : Len(Append(s, x)) = Len(s) + 1
         /\ \A i, x : Len([s EXCEPT ![i] = x]) = Len(s)
         /\ \A x, y : Len(s \o <<x, y>>) = Len(s) + 2
  <1>1. PICK S : s \in Seq(S)
    BY DEF IsSeq
  <1>2. Len(s) \in Nat /\ DOMAIN s = 1..Len(s)
    BY <1>1
  <1>3. ASSUME NEW x PROVE Len(Append(s, x)) = Len(s) + 1
    BY Appended
  <1>4. ASSUME NEW i, NEW x PROVE Len([s EXCEPT ![i] = x]) = Len(s)
    <2>1. s \in Seq(S \cup {x})
      <3>1. s \in [1..Len(s) -> S]
        BY <1>1
      <3>2. s \in [1..Len(s) -> S \cup {x}]
        BY <3>1
      <3>3. QED
        BY <1>2, <3>2
    <2>2. QED
      BY <2>1, ChangedPlace
  <1>5. ASSUME NEW x, NEW y PROVE Len(s \o <<x, y>>) = Len(s) + 2
    BY <1>1
  <1>6. QED
    BY <1>2, <1>3, <1>4, <1>5, Zenon

(* A step that keeps or frees nodes, and one that makes one.               *)
LEMMA SettledLeave ==
  ASSUME OwnershipInv, PendingInv, NEW w, Leave(w), live' \subseteq live,
         Len(body') = Len(body), UNCHANGED returned
  PROVE  Settled(w)
  <1>1. Len(body) \in Nat /\ live' \subseteq Nodes
    BY BodyUid DEF OwnershipInv, TypeOK
  <1>2. QED
    BY <1>1 DEF Settled, Leave

LEMMA SettledNew ==
  ASSUME OwnershipInv, PendingInv, NEW w, World(w), NEW node, LeaveNew(w, node),
         Fresh \in Nodes \ live, live' \subseteq live \cup {Fresh}, Fresh \in live',
         node.id = 0, node.uid = NextUid,
         Len(body') \in Nat, Len(body) + 1 <= Len(body'), UNCHANGED returned
  PROVE  Settled(w) /\ content'[Fresh] = node
  <1> DEFINE g == [heap |-> w.heap, content |-> [w.content EXCEPT ![Fresh] = node]]
             u == Fresh
  <1>1. DOMAIN w.content = Nodes
    BY DEF World
  <1>2. heap' = g.heap /\ content' = [n \in Nodes |-> IF n \in live' THEN g.content[n] ELSE Blank]
    BY DEF LeaveNew, Leave
  <1>3. g.heap = w.heap /\ g.content = [w.content EXCEPT ![u] = node] /\ u \in Nodes \ live
    OBVIOUS
  <1> HIDE DEF g, u
  <1>4. /\ g.content[u] = node
        /\ \A n \in Nodes : n # u => g.content[n] = w.content[n]
    BY <1>1, <1>3
  <1>5. live \subseteq Nodes /\ Len(body) \in Nat /\ NextUid = Len(body) + 1
    BY BodyUid DEF OwnershipInv, TypeOK, NextUid
  <1>6. u \in live' /\ live' \subseteq live \cup {u}
    BY DEF u
  <1>7. \A n \in live \cap live' : content'[n] = w.content[n]
    BY <1>2, <1>3, <1>4, <1>5
  <1>8. content'[u] = node
    BY <1>2, <1>3, <1>4, <1>6
  <1>9. \A n \in live' \ live : n = u
    BY <1>6
  <1>10. Settled(w)
    BY <1>2, <1>3, <1>5, <1>7, <1>8, <1>9 DEF Settled
  <1>11. QED
    BY <1>8, <1>10 DEF u

LEMMA SettledSame ==
  ASSUME PendingInv, UNCHANGED <<content, heap, live, body, returned>>
  PROVE  Settled(Now)
  <1>1. Len(body) \in Nat
    BY BodyUid
  <1>2. QED
    BY <1>1 DEF Settled, Now

LEMMA Pushed ==
  ASSUME OwnershipInv, OwnershipInv', NEW k, NEW e, Pops(k, e), e.sym \in NodeSyms
  PROVE  e.val \in live' /\ e.val \in Nodes
  <1>1. /\ Depth' \in Nat /\ Depth \in Nat /\ k \in 0..Depth /\ Depth' = Depth - k + 1
        /\ DOMAIN stack' = 1..Depth' /\ stack'[Depth'] = e
    BY PopsFacts DEF OwnershipInv, TypeOK
  <1>2. Depth' \in Places'
    BY <1>1 DEF Places
  <1>3. QED
    BY <1>1, <1>2 DEF OwnershipInv, StackSound, TypeOK

LEMMA KindLeft ==
  ASSUME NEW w, Settled(w), Keeps(w), NEW n \in live \cap live', n \in Nodes
  PROVE  content'[n].kind = content[n].kind
  BY DEF Settled, Keeps

(* A turn that leaves the tables as they are.                              *)
LEMMA PlainTurn ==
  ASSUME OwnershipInv, OwnershipInv', UNCHANGED <<bad, anchorOf, anchors, badAnchors>>,
         NEW k, NEW e, Pops(k, e), e.sym # "ANCHOR", \A j \in 0..(k - 1) : Sym(j) # "ANCHOR",
         NEW w, NEW S, Tidy(w, S), Settled(w),
         \A n \in S : anchorOf[n] = NONE => n \notin live',
         \A j \in 0..(k - 1) : Sym(j) \in NodeSyms /\ Val(j) \in bad =>
           w.content[Val(j)].id # 0 \/ (e.sym \in NodeSyms /\ e.val = Val(j)),
         e.sym \in Collections => content'[e.val].kind \in {"seq", "map"},
         \A j \in 0..(k - 1) : SolidIn(content, stack[Depth - j]) => SolidIn(content', e)
  PROVE  Turn(k, e, w)
  <1>1. World(w) /\ Apart(w) /\ Tracked(w) /\ Keeps(w)
    BY DEF Tidy
  <1>2. bad \subseteq live' /\ live \subseteq Nodes
    BY DEF OwnershipInv, TablesSound, TypeOK
  <1>3. Refiled(w)
    BY <1>2 DEF Refiled
  <1>4. \A n \in live \cap live' :
          anchorOf'[n] = NONE => anchorOf[n] = NONE /\ w.content[n].id = content[n].id
    BY <1>2 DEF Tidy
  <1>5. \A x \in Names : e # Token(x) /\ \A j \in 0..(k - 1) : stack[Depth - j] # Token(x)
    BY NoToken DEF Token, OwnershipInv
  <1>6. QED
    BY <1>1, <1>3, <1>4, <1>5 DEF Turn

(* The entry pushed is a complete collection, or stands for nothing that   *)
(* was there.                                                              *)
LEMMA BuiltTurn ==
  ASSUME OwnershipInv, OwnershipInv', UNCHANGED <<bad, anchorOf, anchors, badAnchors>>,
         NEW k, NEW e, Pops(k, e), e.sym # "ANCHOR", \A j \in 0..(k - 1) : Sym(j) # "ANCHOR",
         NEW w, NEW S, Tidy(w, S), Settled(w),
         \A n \in S : anchorOf[n] = NONE => n \notin live',
         \A j \in 0..(k - 1) : Sym(j) \in NodeSyms /\ Val(j) \in bad =>
           w.content[Val(j)].id # 0 \/ (e.sym \in NodeSyms /\ e.val = Val(j)),
         e.sym \in NodeSyms, content'[e.val].kind \in {"seq", "map"}
  PROVE  Turn(k, e, w)
  <1>1. SolidIn(content', e)
    BY DEF SolidIn
  <1>2. QED
    BY <1>1, PlainTurn, Zenon

Turns == \E k, e, w : Turn(k, e, w)

LEMMA KindTop ==
  ASSUME OwnershipInv, ValuesSound, NEW k \in Nat, Sym(k) \in Collections
  PROVE  /\ Val(k) \in live /\ Val(k) \in Nodes
         /\ content[Val(k)].kind \in {"seq", "map"}
         /\ Sym(k) # "TMAP" => Val(k) \notin bad
  <1>1. Sym(k) \in NodeSyms
    BY DEF Collections, NodeSyms
  <1>2. Depth - k \in Places /\ stack[Depth - k].sym = Sym(k) /\ stack[Depth - k].val = Val(k)
    BY <1>1, UnderTop
  <1>3. content[Val(k)].kind \in {"seq", "map"}
    BY <1>2 DEF ValuesSound, KindsSound
  <1>4. /\ Val(k) \in live
        /\ Sym(k) \in {"SEQ", "MAP", "PAIR", "BMAP"} => anchorOf[Val(k)] = NONE
    BY <1>1, TopPlace DEF OwnershipInv
  <1>5. QED
    BY <1>3, <1>4 DEF OwnershipInv, TablesSound, TypeOK, Collections

LEMMA LiveTop ==
  ASSUME OwnershipInv, NEW k \in Nat, Sym(k) \in NodeSyms
  PROVE  Val(k) \in live /\ Val(k) \in Nodes
  BY TopPlace DEF OwnershipInv, TypeOK

(* The entry under the top ones is pushed again.                           *)
LEMMA Repushed ==
  ASSUME OwnershipInv, NEW k \in Nat, Sym(k) \in NodeSyms
  PROVE  stack[Depth - k].sym = Sym(k) /\ stack[Depth - k].val = Val(k)
  BY UnderTop

LEMMA ScalarTurns ==
  ASSUME OwnershipInv, OwnershipInv', PendingInv, ValuesSound, LoadScalar
  PROVE  Turns
  <1> DEFINE e == [sym |-> "ATOM", val |-> Fresh]
             node == NewNode("str", NextUid, <<>>)
  <1>1. /\ Fresh \in Nodes \ live /\ Pops(0, e)
        /\ live' = live \cup {Fresh} /\ UNCHANGED <<bad, anchorOf, anchors, badAnchors>>
        /\ LeaveNew(Now, node) /\ body' = Append(body, <<>>) /\ UNCHANGED returned
    BY ShiftScalarShape DEF LoadScalar, ShiftScalar, OwnershipInv
  <1>2. Tidy(Now, {})
    BY TidyNow
  <1>3. Len(body') \in Nat /\ Len(body) + 1 <= Len(body')
    BY <1>1, Longer DEF PendingInv
  <1>4. node.id = 0 /\ node.uid = NextUid
    BY DEF NewNode
  <1>5. World(Now)
    BY DEF PendingInv
  <1> HIDE DEF node
  <1>6. Settled(Now)
    BY <1>1, <1>3, <1>4, <1>5, SettledNew
  <1>7. e.sym = "ATOM" /\ e.sym \notin Collections /\ e.sym # "ANCHOR"
    BY DEF Collections
  <1> HIDE DEF e
  <1>8. Turn(0, e, Now)
    BY <1>1, <1>2, <1>6, <1>7, PlainTurn
  <1>9. QED
    BY <1>8 DEF Turns

LEMMA EmptyFlowTurns ==
  ASSUME OwnershipInv, OwnershipInv', PendingInv, ValuesSound, LoadEmptyFlow
  PROVE  Turns
  <1> DEFINE e == [sym |-> "ATOM", val |-> Fresh]
             node == NewNode("seq", NextUid, <<>>)
  <1>1. /\ Fresh \in Nodes \ live /\ Pops(1, e) /\ Sym(0) \in {"LBRACKET", "LBRACE"}
        /\ live' = live \cup {Fresh} /\ UNCHANGED <<bad, anchorOf, anchors, badAnchors>>
        /\ LeaveNew(Now, node) /\ body' = Append(body, <<>>) /\ UNCHANGED returned
    BY CloseEmptyFlowShape DEF LoadEmptyFlow, CloseEmptyFlow, OwnershipInv
  <1>2. Tidy(Now, {})
    BY TidyNow
  <1>3. Len(body') \in Nat /\ Len(body) + 1 <= Len(body')
    BY <1>1, Longer DEF PendingInv
  <1>4. node.id = 0 /\ node.uid = NextUid /\ node.kind = "seq"
    BY DEF NewNode
  <1>5. World(Now)
    BY DEF PendingInv
  <1> HIDE DEF node
  <1>6. Settled(Now) /\ content'[Fresh] = node
    BY <1>1, <1>3, <1>4, <1>5, SettledNew
  <1>7. e.sym = "ATOM" /\ e.sym # "ANCHOR" /\ e.sym \in NodeSyms /\ content'[e.val].kind = "seq"
    BY <1>4, <1>6 DEF NodeSyms
  <1>8. \A j \in 0..(1 - 1) : Sym(j) # "ANCHOR" /\ Sym(j) \notin NodeSyms
    BY <1>1 DEF NodeSyms
  <1> HIDE DEF e
  <1>9. Turn(1, e, Now)
    BY <1>1, <1>2, <1>6, <1>7, <1>8, BuiltTurn
  <1>10. QED
    BY <1>9 DEF Turns

LEMMA MarkTurns ==
  ASSUME OwnershipInv, OwnershipInv', PendingInv, ValuesSound, LoadMark
  PROVE  Turns
  <1>1. /\ \/ \E s \in {"LBRACKET", "LBRACE", "IOPEN"} : ShiftOpen(s)
           \/ ShiftSep
           \/ ShiftDash
        /\ UNCHANGED <<bad, anchorOf, anchors, badAnchors, live>>
        /\ UNCHANGED <<content, heap, body, returned>>
    BY LoadAssumption DEF LoadMark, ShiftOpen, ShiftSep, ShiftDash
  <1>2. PICK s \in MarkSyms : Pops(0, [sym |-> s, val |-> NONE])
    BY <1>1, ShiftMarkShape DEF OwnershipInv
  <1> DEFINE e == [sym |-> s, val |-> NONE]
  <1>3. Settled(Now) /\ Tidy(Now, {})
    BY <1>1, SettledSame, TidyNow
  <1>4. e.sym # "ANCHOR" /\ e.sym \notin Collections
    BY DEF MarkSyms, Collections
  <1> HIDE DEF e
  <1>5. Turn(0, e, Now)
    BY <1>1, <1>2, <1>3, <1>4, PlainTurn DEF e
  <1>6. QED
    BY <1>5 DEF Turns

LEMMA CloseTurns ==
  ASSUME OwnershipInv, OwnershipInv', PendingInv, ValuesSound, LoadClose
  PROVE  Turns
  <1>1. /\ UNCHANGED <<bad, anchorOf, anchors, badAnchors, live>>
        /\ UNCHANGED <<content, heap, body, returned>>
        /\ Sym(1) \in {"LBRACKET", "LBRACE", "SEP"}
    BY DEF LoadClose, CloseFlow, ReduceTopMap
  <1>2. PICK s \in {"ATOM", "TMAP"} :
          Pops(2, [sym |-> s, val |-> Val(0)]) /\ Sym(0) \in {"SEQ", "MAP", "BMAP"}
    BY CloseFlowShape, ReduceTopMapShape DEF LoadClose, OwnershipInv
  <1> DEFINE e == [sym |-> s, val |-> Val(0)]
  <1>3. Settled(Now) /\ Tidy(Now, {})
    BY <1>1, SettledSame, TidyNow
  <1>4. content[Val(0)].kind \in {"seq", "map"}
    BY <1>2, KindTop DEF Collections
  <1>5. /\ e.sym # "ANCHOR" /\ e.sym \in NodeSyms /\ e.val = Val(0)
        /\ content'[e.val].kind \in {"seq", "map"}
    BY <1>1, <1>4 DEF NodeSyms
  <1>6. \A j \in 0..(2 - 1) : /\ Sym(j) # "ANCHOR"
                              /\ Sym(j) \in NodeSyms => Val(j) = Val(0)
    BY <1>1, <1>2 DEF NodeSyms
  <1> HIDE DEF e
  <1>7. Turn(2, e, Now)
    BY <1>1, <1>2, <1>3, <1>5, <1>6, BuiltTurn DEF e
  <1>8. QED
    BY <1>7 DEF Turns

LEMMA RenameTurns ==
  ASSUME OwnershipInv, OwnershipInv', PendingInv, ValuesSound, LoadRename
  PROVE  Turns
  <1>1. /\ UNCHANGED <<bad, anchorOf, anchors, badAnchors, live>>
        /\ UNCHANGED <<content, heap, body, returned>>
    BY DEF LoadRename, ShiftColon, ReduceFirstPair, loadVars
  <1>2. Settled(Now) /\ Tidy(Now, {})
    BY <1>1, SettledSame, TidyNow
  <1>3. CASE ShiftColon
    <2> DEFINE e == [sym |-> "KEY", val |-> Val(0)]
    <2>1. Pops(1, e) /\ Sym(0) = "ATOM"
      BY <1>3, ShiftColonShape DEF OwnershipInv
    <2>2. e.sym # "ANCHOR" /\ e.sym \in NodeSyms /\ e.sym \notin Collections /\ e.val = Val(0)
      BY DEF NodeSyms, Collections
    <2>3. \A j \in 0..(1 - 1) : Sym(j) # "ANCHOR" /\ Val(j) = Val(0)
      BY <2>1
    <2>4. ASSUME NEW j \in 0..(1 - 1), SolidIn(content, stack[Depth - j])
          PROVE  SolidIn(content', e)
      <3>1. stack[Depth - j].sym = "ATOM" /\ stack[Depth - j].val = Val(0)
        BY <2>1, Repushed DEF NodeSyms
      <3>2. content[Val(0)].kind # "str"
        BY <2>4, <3>1 DEF SolidIn, MarkSyms
      <3>3. QED
        BY <1>1, <2>2, <3>2 DEF SolidIn
    <2> HIDE DEF e
    <2>5. Turn(1, e, Now)
      BY <1>1, <1>2, <2>1, <2>2, <2>3, <2>4, PlainTurn
    <2>6. QED
      BY <2>5 DEF Turns
  <1>4. CASE ReduceFirstPair
    <2>1. PICK s \in {"MAP", "BMAP"} : Pops(1, [sym |-> s, val |-> Val(0)]) /\ Sym(0) = "PAIR"
      BY <1>4, ReduceFirstPairShape DEF OwnershipInv
    <2> DEFINE e == [sym |-> s, val |-> Val(0)]
    <2>2. content[Val(0)].kind \in {"seq", "map"}
      BY <2>1, KindTop DEF Collections
    <2>3. /\ e.sym # "ANCHOR" /\ e.sym \in NodeSyms /\ e.val = Val(0)
          /\ content'[e.val].kind \in {"seq", "map"}
      BY <1>1, <2>2 DEF NodeSyms
    <2>4. \A j \in 0..(1 - 1) : Sym(j) # "ANCHOR" /\ Val(j) = Val(0)
      BY <2>1
    <2> HIDE DEF e
    <2>5. Turn(1, e, Now)
      BY <1>1, <1>2, <2>1, <2>3, <2>4, BuiltTurn DEF e
    <2>6. QED
      BY <2>5 DEF Turns
  <1>5. QED
    BY <1>3, <1>4 DEF LoadRename

(* Turns that handle nodes.                                                *)
LEMMA FirstItemTurns ==
  ASSUME OwnershipInv, OwnershipInv', PendingInv, ValuesSound, LoadFirstItem
  PROVE  Turns
  <1> DEFINE e == [sym |-> "SEQ", val |-> Fresh]
             n == Val(0)
             w == AddNode(Now, n)
             node == NewNode("seq", NextUid, <<w.content[n].id>>)
  <1>1. /\ Fresh \in Nodes \ live /\ Pops(1, e) /\ Sym(0) \in {"ATOM", "PAIR"}
        /\ live' = (live \ Unanchored({n})) \cup {Fresh}
        /\ UNCHANGED <<bad, anchorOf, anchors, badAnchors>>
        /\ LeaveNew(w, node) /\ body' = Append(body, <<Top(0)>>) /\ UNCHANGED returned
    BY ReduceFirstItemShape DEF LoadFirstItem, ReduceFirstItem, AddNodes, OwnershipInv
  <1>2. n \in live /\ n \in Nodes
    BY <1>1, LiveTop DEF NodeSyms
  <1>3. Tidy(w, {} \cup {n}) /\ w.content[n].id # 0
    BY <1>2, TidyNow, TidyAdd
  <1>4. Len(body') \in Nat /\ Len(body) + 1 <= Len(body')
    BY <1>1, Longer DEF PendingInv
  <1>5. node.id = 0 /\ node.uid = NextUid /\ node.kind = "seq"
    BY DEF NewNode
  <1> HIDE DEF node
  <1>6. Settled(w) /\ content'[Fresh] = node
    <2>1. World(w)
      BY <1>3 DEF Tidy
    <2> HIDE DEF w
    <2>2. live' \subseteq live \cup {Fresh} /\ Fresh \in live'
      BY <1>1
    <2>3. QED
      BY <1>1, <1>4, <1>5, <2>1, <2>2, SettledNew
  <1>7. e.sym = "SEQ" /\ e.sym # "ANCHOR" /\ e.sym \in NodeSyms /\ content'[e.val].kind = "seq"
    BY <1>5, <1>6 DEF NodeSyms
  <1>8. \A j \in 0..(1 - 1) : Sym(j) # "ANCHOR" /\ Val(j) = n
    BY <1>1
  <1>9. \A m \in {} \cup {n} : anchorOf[m] = NONE => m \notin live'
    BY <1>1, <1>2 DEF Unanchored
  <1> HIDE DEF e, w, n
  <1>10. Turn(1, e, w)
    BY <1>1, <1>3, <1>6, <1>7, <1>8, <1>9, BuiltTurn
  <1>11. QED
    BY <1>10 DEF Turns

LEMMA ItemTurns ==
  ASSUME OwnershipInv, OwnershipInv', PendingInv, ValuesSound, LoadItem
  PROVE  Turns
  <1> DEFINE e == stack[Depth - 1]
             n == Val(0)
             m == Val(1)
             w == AddNode(Now, n)
             g == AddItem(w, m, w.content[n].id)
  <1>1. /\ Pops(2, e) /\ Sym(0) \in {"ATOM", "PAIR"} /\ Sym(1) = "SEQ"
        /\ live' = live \ Unanchored({n})
        /\ UNCHANGED <<bad, anchorOf, anchors, badAnchors>>
        /\ Leave(g) /\ UNCHANGED returned
        /\ body' = [body EXCEPT ![content[m].uid] = Append(body[content[m].uid], Top(0))]
    BY ReduceItemShape DEF LoadItem, ReduceItem, AddNodes, OwnershipInv
  <1>2. n \in live /\ n \in Nodes /\ m \in live /\ m \in Nodes
    BY <1>1, LiveTop DEF NodeSyms
  <1>3. /\ Tidy(w, {} \cup {n}) /\ w.content[n].id # 0 /\ w.content[n].id \in 1..Len(w.heap.syms)
    BY <1>2, TidyNow, TidyAdd
  <1>4. e.sym = "SEQ" /\ e.val = m /\ content[m].kind \in {"seq", "map"}
    BY <1>1, Repushed, KindTop DEF NodeSyms, Collections
  <1>5. Len(body') = Len(body)
    BY <1>1, Longer DEF PendingInv
  <1> HIDE DEF n, m, w, e
  <1>6. World(g) /\ g = SetItems(w, m, Append(w.content[m].items, w.content[n].id))
    BY <1>2, <1>3, AddItemSound DEF Tidy, AddItem
  <1>7. Tidy(g, {} \cup {n}) /\ g.content[n].id # 0
    BY <1>2, <1>3, <1>6, TidySet
  <1> HIDE DEF g
  <1>8. Settled(g)
    BY <1>1, <1>5, SettledLeave
  <1>9. m \in live'
    BY <1>1, <1>4, Pushed DEF NodeSyms
  <1>10. content'[e.val].kind \in {"seq", "map"}
    BY <1>2, <1>4, <1>7, <1>8, <1>9, KindLeft DEF Tidy
  <1>11. \A j \in 0..(2 - 1) : Sym(j) # "ANCHOR" /\ (Val(j) = n \/ Val(j) = e.val)
    <2>1. \A j \in 0..(2 - 1) : j = 0 \/ j = 1
      OBVIOUS
    <2>2. QED
      BY <1>1, <1>4, <2>1 DEF n, m
  <1>12. \A x \in {} \cup {n} : anchorOf[x] = NONE => x \notin live'
    BY <1>1, <1>2 DEF Unanchored
  <1>13. e.sym # "ANCHOR" /\ e.sym \in NodeSyms
    BY <1>4 DEF NodeSyms
  <1>14. Turn(2, e, g)
    BY <1>1, <1>7, <1>8, <1>10, <1>11, <1>12, <1>13, BuiltTurn
  <1>15. QED
    BY <1>14 DEF Turns

LEMMA MappingTurns ==
  ASSUME OwnershipInv, OwnershipInv', PendingInv, ValuesSound, LoadMapping
  PROVE  Turns
  <1> DEFINE e == [sym |-> "PAIR", val |-> Fresh]
             n == Val(0)
             m == Val(1)
             w1 == AddNode(Now, n)
             w == AddNode(w1, m)
             node == NewNode("map", NextUid, <<w.content[n].id>>)
  <1>1. /\ Fresh \in Nodes \ live /\ Pops(2, e) /\ Sym(0) = "ATOM" /\ Sym(1) = "KEY"
        /\ live' = (live \ Unanchored({n, m})) \cup {Fresh}
        /\ UNCHANGED <<bad, anchorOf, anchors, badAnchors>>
        /\ LeaveNew(w, node) /\ body' = Append(body, <<Top(0)>>) /\ UNCHANGED returned
    BY ReduceMappingShape DEF LoadMapping, ReduceMapping, AddNodes, OwnershipInv
  <1>2. n \in live /\ n \in Nodes /\ m \in live /\ m \in Nodes
    BY <1>1, LiveTop DEF NodeSyms
  <1>3. Tidy(w1, {} \cup {n}) /\ w1.content[n].id # 0
    BY <1>2, TidyNow, TidyAdd
  <1>4. Len(body') \in Nat /\ Len(body) + 1 <= Len(body')
    BY <1>1, Longer DEF PendingInv
  <1>5. node.id = 0 /\ node.uid = NextUid /\ node.kind = "map"
    BY DEF NewNode
  <1>6. \A j \in 0..(2 - 1) : Sym(j) # "ANCHOR" /\ (Val(j) = n \/ Val(j) = m)
    <2>1. \A j \in 0..(2 - 1) : j = 0 \/ j = 1
      OBVIOUS
    <2>2. QED
      BY <1>1, <2>1
  <1>7. e.sym = "PAIR" /\ e.val = Fresh
    OBVIOUS
  <1> HIDE DEF node, w1, n, m, e
  <1>15. w = AddNode(w1, m)
    OBVIOUS
  <1> HIDE DEF w
  <1> DEFINE S == {} \cup {n}
  <1>16. Tidy(w1, S)
    BY <1>3
  <1> HIDE DEF S
  <1>8. /\ Tidy(w, S \cup {m}) /\ w.content[n].id # 0 /\ w.content[m].id # 0
    BY <1>2, <1>3, <1>15, <1>16, TidyAdd
  <1>9. Settled(w) /\ content'[Fresh] = node
    <2>1. World(w)
      BY <1>8 DEF Tidy
    <2>2. live' \subseteq live \cup {Fresh} /\ Fresh \in live'
      BY <1>1
    <2>3. QED
      BY <1>1, <1>4, <1>5, <2>1, <2>2, SettledNew
  <1>10. e.sym # "ANCHOR" /\ e.sym \in NodeSyms /\ content'[e.val].kind = "map"
    BY <1>5, <1>7, <1>9 DEF NodeSyms
  <1>11. \A x \in S \cup {m} : anchorOf[x] = NONE => x \notin live'
    BY <1>1, <1>2 DEF Unanchored, S
  <1>12. \A j \in 0..(2 - 1) : w.content[Val(j)].id # 0
    BY <1>6, <1>8
  <1>13. Turn(2, e, w)
    BY <1>1, <1>6, <1>8, <1>9, <1>10, <1>11, <1>12, BuiltTurn
  <1>14. QED
    BY <1>13 DEF Turns

LEMMA DashTurns ==
  ASSUME OwnershipInv, OwnershipInv', PendingInv, ValuesSound, LoadDash
  PROVE  Turns
  <1> DEFINE e == stack[Depth - 2]
             n == Val(0)
             m == Val(2)
             w == AddNode(Now, n)
             id == w.content[n].id
             s == shortcut[m]
             node == NewNode("seq", NextUid, <<id>>)
             g == AddItem(w, s, id)
  <1>1. /\ Pops(3, e) /\ Sym(0) = "ATOM" /\ Sym(1) = "DASH" /\ Sym(2) = "BMAP"
        /\ UNCHANGED <<bad, anchorOf, anchors, badAnchors>> /\ UNCHANGED returned
        /\ \/ CanAlloc /\ live' = (live \ Unanchored({n})) \cup {Fresh}
           \/ live' = (live \ Unanchored({n})) \cup {}
    BY ReduceDashShape DEF LoadDash, ReduceDash, AddNodes, OwnershipInv
  <1>2. \/ /\ s = NONE /\ LeaveNew(w, node) /\ body' = Append(body, <<Top(0)>>)
           /\ CanAlloc /\ live' = (live \ Unanchored({n})) \cup {Fresh}
        \/ /\ s # NONE /\ Leave(g)
           /\ body' = [body EXCEPT ![content[s].uid] = Append(body[content[s].uid], Top(0))]
           /\ live' = (live \ Unanchored({n})) \cup {}
    BY DEF LoadDash, ReduceDash, AddNodes
  <1>3. n \in live /\ n \in Nodes /\ m \in live /\ m \in Nodes
    BY <1>1, LiveTop DEF NodeSyms
  <1>4. Tidy(w, {} \cup {n}) /\ id # 0 /\ id \in 1..Len(w.heap.syms)
    BY <1>3, TidyNow, TidyAdd
  <1>5. e.sym = "BMAP" /\ e.val = m /\ content[m].kind \in {"seq", "map"}
    BY <1>1, Repushed, KindTop DEF NodeSyms, Collections
  <1>6. \A j \in 0..(3 - 1) : /\ Sym(j) # "ANCHOR"
                              /\ Sym(j) \in NodeSyms => Val(j) = n \/ Val(j) = e.val
    <2>1. \A j \in 0..(3 - 1) : j = 0 \/ j = 1 \/ j = 2
      OBVIOUS
    <2>2. QED
      BY <1>1, <1>5, <2>1 DEF NodeSyms
  <1>7. m \in live'
    BY <1>1, <1>5, Pushed DEF NodeSyms
  <1>8. \A x \in {} \cup {n} : anchorOf[x] = NONE => x \notin live'
    <2>1. CanAlloc => Fresh \notin live
      BY FreshIsDead DEF OwnershipInv, TypeOK
    <2>2. QED
      BY <1>1, <1>3, <2>1 DEF Unanchored
  <1>9. e.sym # "ANCHOR" /\ e.sym \in NodeSyms
    BY <1>5 DEF NodeSyms
  <1>10. node.id = 0 /\ node.uid = NextUid
    BY DEF NewNode
  <1>11. s # NONE => s \in Nodes
    BY <1>3 DEF OwnershipInv, TypeOK
  <1> DEFINE c == content[s].uid
             more == Append(body[c], Top(0))
  <1> HIDE DEF node, n, m, w, e, s
  <1>12. CASE s = NONE /\ LeaveNew(w, node)
    <2>1. CanAlloc /\ live' = (live \ Unanchored({n})) \cup {Fresh} /\ body' = Append(body, <<Top(0)>>)
      BY <1>2, <1>12
    <2>2. Fresh \in Nodes \ live
      BY <2>1, FreshIsDead DEF OwnershipInv, TypeOK
    <2>3. Len(body') \in Nat /\ Len(body) + 1 <= Len(body')
      BY <2>1, Longer DEF PendingInv
    <2>4. live' \subseteq live \cup {Fresh} /\ Fresh \in live'
      BY <2>1
    <2>5. Settled(w)
      BY <1>1, <1>4, <1>10, <1>12, <2>2, <2>3, <2>4, SettledNew DEF Tidy
    <2>6. content'[e.val].kind \in {"seq", "map"}
      BY <1>3, <1>4, <1>5, <1>7, <2>5, KindLeft DEF Tidy
    <2>7. Turn(3, e, w)
      BY <1>1, <1>4, <1>6, <1>8, <1>9, <2>5, <2>6, BuiltTurn
    <2>8. QED
      BY <2>7 DEF Turns
  <1>13. CASE s # NONE /\ Leave(g)
    <2>1. /\ live' = (live \ Unanchored({n})) \cup {} /\ body' = [body EXCEPT ![c] = more]
      BY <1>2, <1>13
    <2> HIDE DEF c, more, id
    <2>2. Len(body') = Len(body)
      BY <2>1, Longer DEF PendingInv
    <2>3. World(g) /\ g = SetItems(w, s, Append(w.content[s].items, id))
      BY <1>4, <1>11, <1>13, AddItemSound DEF Tidy, AddItem
    <2>4. Tidy(g, {} \cup {n}) /\ g.content[n].id # 0
      BY <1>3, <1>4, <1>11, <1>13, <2>3, TidySet DEF id
    <2> HIDE DEF g
    <2>5. Settled(g)
      BY <1>1, <1>13, <2>1, <2>2, SettledLeave
    <2>6. content'[e.val].kind \in {"seq", "map"}
      BY <1>3, <1>5, <1>7, <2>4, <2>5, KindLeft DEF Tidy
    <2>7. Turn(3, e, g)
      BY <1>1, <1>6, <1>8, <1>9, <2>4, <2>5, <2>6, BuiltTurn
    <2>8. QED
      BY <2>7 DEF Turns
  <1>14. QED
    BY <1>2, <1>12, <1>13

LEMMA PairTurns ==
  ASSUME OwnershipInv, OwnershipInv', PendingInv, ValuesSound, LoadPair
  PROVE  Turns
  <1> DEFINE e == stack[Depth - 1]
             n == Val(0)
             m == Val(1)
             w == ApplySeq(Now, m)
             items == w.content[m].items \o content[n].items
             g == SetItems(w, m, items)
             c == content[m].uid
             more == SaysSeq(m) \o body[content[n].uid]
  <1>1. /\ Pops(2, e) /\ Sym(0) = "PAIR" /\ Sym(1) \in {"MAP", "BMAP"} /\ phase = "parse"
        /\ live' = live \ ({n} \cup {shortcut[m]})
        /\ UNCHANGED <<bad, anchorOf, anchors, badAnchors>> /\ UNCHANGED returned
        /\ Leave(g) /\ body' = [body EXCEPT ![c] = more]
    BY ReducePairShape DEF LoadPair, ReducePair, Parsing, OwnershipInv
  <1>2. /\ n \in live /\ n \in Nodes /\ m \in live /\ m \in Nodes
        /\ n \notin bad /\ content[m].kind \in {"seq", "map"}
    BY <1>1, KindTop DEF Collections
  <1>3. e.sym = Sym(1) /\ e.val = m
    BY <1>1, Repushed DEF NodeSyms
  <1>4. e.sym # "ANCHOR" /\ e.sym \in NodeSyms
    BY <1>1, <1>3 DEF NodeSyms
  <1>5. m \in live'
    BY <1>1, <1>3, <1>4, Pushed
  <1>6. \A j \in 0..(2 - 1) : Sym(j) # "ANCHOR" /\ (Val(j) \notin bad \/ Val(j) = e.val)
    <2>1. \A j \in 0..(2 - 1) : j = 0 \/ j = 1
      OBVIOUS
    <2>2. QED
      BY <1>1, <1>2, <1>3, <2>1
  <1> HIDE DEF e, n, m, c, more
  <1>7. Len(body') = Len(body)
    BY <1>1, Longer DEF PendingInv
  <1>8. Tidy(w, {shortcut[m]})
    BY <1>1, <1>2, TidyNow, TidyApply
  <1>9. World(g)
    <2>1. /\ World(w) /\ Len(heap.syms) \in Nat /\ Len(w.heap.syms) \in Nat
          /\ Len(heap.syms) <= Len(w.heap.syms)
      BY <1>2, ApplySeqSound, NowFacts DEF PendingInv, OwnershipInv
    <2>2. content[n].items \in Seq(1..Len(heap.syms))
      BY <1>2, NowFacts, ItemsFacts DEF PendingInv
    <2> HIDE DEF w
    <2>3. w.content[m].items \in Seq(1..Len(w.heap.syms))
      BY <1>2, <2>1, ItemsFacts
    <2>4. content[n].items \in Seq(1..Len(w.heap.syms))
      BY <2>1, <2>2, SeqGrows
    <2>5. items \in Seq(1..Len(w.heap.syms))
      BY <2>3, <2>4
    <2> HIDE DEF items
    <2>6. QED
      BY <1>2, <2>1, <2>5, SetItemsSound
  <1> HIDE DEF w, items
  <1>10. Tidy(g, {shortcut[m]})
    BY <1>2, <1>8, <1>9, TidySet
  <1> HIDE DEF g
  <1>11. Settled(g)
    BY <1>1, <1>7, SettledLeave
  <1>12. content'[e.val].kind \in {"seq", "map"}
    BY <1>2, <1>3, <1>5, <1>10, <1>11, KindLeft DEF Tidy
  <1>13. \A x \in {shortcut[m]} : anchorOf[x] = NONE => x \notin live'
    BY <1>1
  <1>14. Turn(2, e, g)
    BY <1>1, <1>4, <1>6, <1>10, <1>11, <1>12, <1>13, BuiltTurn
  <1>15. QED
    BY <1>14 DEF Turns

LEMMA CloseBlockTurns ==
  ASSUME OwnershipInv, OwnershipInv', PendingInv, ValuesSound, LoadCloseBlock
  PROVE  Turns
  <1> DEFINE m == Val(0)
             e == [sym |-> "ATOM", val |-> m]
             w == ApplySeq(Now, m)
             c == content[m].uid
             more == SaysSeq(m)
  <1>1. /\ Pops(2, e) /\ Sym(0) \in {"BMAP", "TMAP"} /\ Sym(1) = "IOPEN" /\ phase = "parse"
        /\ live' = live \ {shortcut[m]}
        /\ UNCHANGED <<bad, anchorOf, anchors, badAnchors>> /\ UNCHANGED returned
        /\ Leave(w) /\ body' = [body EXCEPT ![c] = more]
    BY CloseBlockShape DEF LoadCloseBlock, CloseBlock, OwnershipInv
  <1>2. m \in live /\ m \in Nodes /\ content[m].kind \in {"seq", "map"}
    BY <1>1, KindTop DEF Collections
  <1>3. e.sym # "ANCHOR" /\ e.sym \in NodeSyms /\ e.val = m
    BY DEF NodeSyms
  <1>4. \A j \in 0..(2 - 1) : /\ Sym(j) # "ANCHOR"
                              /\ Sym(j) \in NodeSyms => Val(j) = e.val
    BY <1>1 DEF NodeSyms
  <1> HIDE DEF e, m, c, more
  <1>5. m \in live'
    BY <1>1, <1>3, Pushed
  <1>6. Len(body') = Len(body)
    BY <1>1, Longer DEF PendingInv
  <1>7. Tidy(w, {shortcut[m]})
    BY <1>1, <1>2, TidyNow, TidyApply
  <1> HIDE DEF w
  <1>8. Settled(w)
    BY <1>1, <1>6, SettledLeave
  <1>9. content'[e.val].kind \in {"seq", "map"}
    BY <1>2, <1>3, <1>5, <1>7, <1>8, KindLeft DEF Tidy
  <1>10. \A x \in {shortcut[m]} : anchorOf[x] = NONE => x \notin live'
    BY <1>1
  <1>11. Turn(2, e, w)
    BY <1>1, <1>3, <1>4, <1>7, <1>8, <1>9, <1>10, BuiltTurn
  <1>12. QED
    BY <1>11 DEF Turns

(* The null of a lone key is a value of its own.                           *)
LEMMA NullTidy ==
  ASSUME PendingInv, ValuesSound, NEW h, h = AddSym(heap, Str(NextUid + 1)),
         NEW null, null = [heap |-> h, content |-> content]
  PROVE  Tidy(null, {})
  <1>1. Str(NextUid + 1) \in Vals
    BY BodyUid DEF Vals
  <1>2. HeapSound(heap) /\ heap \in HeapType
    BY NowFacts DEF PendingInv, HeapSound
  <1>3. /\ h.syms = Append(heap.syms, Str(NextUid + 1))
        /\ h.boxes = heap.boxes /\ h.pending = heap.pending
    BY <1>2, AddSymIs
  <1>4. HeapSound(h) /\ Len(h.syms) = Len(heap.syms) + 1
    BY <1>1, <1>2, AddSymSound
  <1>5. null.heap = h /\ null.content = content
    OBVIOUS
  <1>6. World(null)
    <2>1. content \in [Nodes -> NodeType(Len(heap.syms) + 1)]
      BY NowFacts, NodeTypeGrows DEF PendingInv
    <2>2. QED
      BY <1>4, <1>5, <2>1 DEF World
  <1>7. Apart(null)
    BY <1>3, <1>5 DEF Apart, Now, ValuesSound
  <1>8. Tracked(null)
    <2>1. Len(heap.syms) \in Nat /\ IsSeq(heap.syms)
      BY <1>2, HeapIs
    <2>2. ASSUME NEW x \in Names, NEW s \in 1..Len(h.syms), h.syms[s] = Bad(x)
          PROVE  s \in 1..Len(heap.syms) /\ heap.syms[s] = Bad(x)
      <3>1. h.syms[Len(heap.syms) + 1] # Bad(x)
        BY <1>3, <2>1, Appended, ValuesDiffer
      <3>2. s \in 1..Len(heap.syms)
        BY <1>4, <2>1, <2>2, <3>1
      <3>3. QED
        BY <1>3, <2>1, <2>2, <3>2, Appended
    <2>3. Tracked(Now)
      BY DEF ValuesSound
    <2>4. QED
      BY <1>3, <1>5, <2>2, <2>3 DEF Tracked, Now
  <1>9. Keeps(null)
    BY <1>3, <1>5 DEF Keeps
  <1>10. QED
    BY <1>5, <1>6, <1>7, <1>8, <1>9 DEF Tidy

LEMMA LoneKeyTurns ==
  ASSUME OwnershipInv, OwnershipInv', PendingInv, ValuesSound, LoadLoneKey
  PROVE  Turns
  <1> DEFINE e == [sym |-> "PAIR", val |-> Fresh]
             n == Val(0)
             h == AddSym(heap, Str(NextUid + 1))
             null == [heap |-> h, content |-> content]
             w == AddNode(null, n)
             node == NewNode("map", NextUid, <<Len(null.heap.syms)>>)
  <1>1. /\ Fresh \in Nodes \ live /\ Pops(1, e) /\ Sym(0) = "ATOM"
        /\ live' = (live \ Unanchored({n})) \cup {Fresh}
        /\ UNCHANGED <<bad, anchorOf, anchors, badAnchors>>
        /\ LeaveNew(w, node) /\ body' = body \o <<<<Node(NextUid + 1)>>, <<>>>> /\ UNCHANGED returned
    BY ReduceLoneKeyShape DEF LoadLoneKey, ReduceLoneKey, AddNodes, OwnershipInv
  <1>2. n \in live /\ n \in Nodes
    BY <1>1, LiveTop DEF NodeSyms
  <1>3. Tidy(null, {})
    BY NullTidy
  <1>4. Len(body') \in Nat /\ Len(body) + 1 <= Len(body')
    <2>1. Len(body) \in Nat /\ Len(body') = Len(body) + 2
      BY <1>1, Longer DEF PendingInv
    <2>2. QED
      BY <2>1
  <1>5. node.id = 0 /\ node.uid = NextUid /\ node.kind = "map"
    BY DEF NewNode
  <1>6. e.sym = "PAIR" /\ e.val = Fresh
    OBVIOUS
  <1>7. \A j \in 0..(1 - 1) : Sym(j) # "ANCHOR" /\ Val(j) = n
    BY <1>1
  <1> HIDE DEF node, h, null, n, e
  <1>8. Tidy(w, {} \cup {n}) /\ w.content[n].id # 0
    BY <1>2, <1>3, TidyAdd
  <1> HIDE DEF w
  <1>9. Settled(w) /\ content'[Fresh] = node
    <2>1. World(w)
      BY <1>8 DEF Tidy
    <2>2. live' \subseteq live \cup {Fresh} /\ Fresh \in live'
      BY <1>1
    <2>3. QED
      BY <1>1, <1>4, <1>5, <2>1, <2>2, SettledNew
  <1>10. e.sym # "ANCHOR" /\ e.sym \in NodeSyms /\ content'[e.val].kind = "map"
    BY <1>5, <1>6, <1>9 DEF NodeSyms
  <1>11. \A m \in {} \cup {n} : anchorOf[m] = NONE => m \notin live'
    BY <1>1, <1>2 DEF Unanchored
  <1>12. Turn(1, e, w)
    BY <1>1, <1>7, <1>8, <1>9, <1>10, <1>11, BuiltTurn
  <1>13. QED
    BY <1>12 DEF Turns

-----------------------------------------------------------------------------
(* Turns that write to the tables.                                         *)

(* An anchor token: in a regular parse its name is not being built, and    *)
(* was not used inside its own node before.                                *)
LEMMA AnchorTurns ==
  ASSUME OwnershipInv, OwnershipInv', PendingInv, ValuesSound, quirks' = {},
         NEW a \in Names, LoadAnchor(a)
  PROVE  Turns
  <1> DEFINE e == [sym |-> "ANCHOR", val |-> a]
  <1>1. /\ Pops(0, e) /\ UNCHANGED <<live, bad, anchorOf, badAnchors>>
        /\ anchors' = [anchors EXCEPT ![a] = DEFINING]
        /\ UNCHANGED <<content, heap, body, returned>>
    BY ShiftAnchorShape DEF LoadAnchor, ShiftAnchor, RemoveAnchor, OwnershipInv
  <1>2. anchors[a] # DEFINING /\ badAnchors[a] = NONE
    BY DEF LoadAnchor
  <1>3. Settled(Now) /\ Tidy(Now, {})
    BY <1>1, SettledSame, TidyNow
  <1>4. /\ bad \subseteq live /\ anchors \in [Names -> Nodes \cup {NONE, DEFINING}]
    BY DEF OwnershipInv, TablesSound, TypeOK
  <1>5. Refiled(Now)
    BY <1>1, <1>4 DEF Refiled
  <1>6. /\ e.sym \notin Collections /\ e.sym = "ANCHOR"
        /\ \A x \in Names : e = Token(x) <=> x = a
    BY DEF Collections, Token
  <1> HIDE DEF e
  <1>7. \A x \in Names : anchors'[x] = DEFINING => x = a \/ anchors[x] = DEFINING
    BY <1>1, <1>4
  <1>8. \A n \in live \cap live' :
          anchorOf'[n] = NONE => anchorOf[n] = NONE /\ Now.content[n].id = content[n].id
    BY <1>1 DEF Now
  <1>9. World(Now) /\ Apart(Now) /\ Tracked(Now) /\ Keeps(Now)
    BY <1>3 DEF Tidy
  <1>10. Turn(0, e, Now)
    BY <1>1, <1>2, <1>3, <1>5, <1>6, <1>7, <1>8, <1>9 DEF Turn
  <1>11. QED
    BY <1>10 DEF Turns

(* An alias: of a node, or of one being built, for which a node stands in. *)
LEMMA AliasTurns ==
  ASSUME OwnershipInv, OwnershipInv', PendingInv, ValuesSound, quirks' = {},
         NEW a \in Names, LoadAlias(a)
  PROVE  Turns
  <1>1. PICK n \in Nodes : GetAnchor(a, n) /\ Pops(0, [sym |-> "ATOM", val |-> n])
    BY ShiftAliasShape DEF LoadAlias, OwnershipInv
  <1> DEFINE e == [sym |-> "ATOM", val |-> n]
             node == NewNode("bad", 0, <<>>)
  <1>2. /\ UNCHANGED <<anchors, heap, body, returned>> /\ phase = "parse"
        /\ content' = [m \in Nodes |-> IF m \in live' \ live THEN node ELSE content[m]]
    BY DEF LoadAlias, ShiftAlias, Expecting
  <1>3. anchors[a] # NONE
    <2>1. current[a] # 0
      BY DEF LoadAlias
    <2>2. QED
      BY <1>2, <2>1 DEF ValuesSound, NamesKnown
  <1>4. Tidy(Now, {})
    BY TidyNow
  <1>5. e.sym = "ATOM" /\ e.val = n /\ e.sym # "ANCHOR" /\ e.sym \in NodeSyms /\ e.sym \notin Collections
    BY DEF NodeSyms, Collections
  <1>6. /\ Len(body) \in Nat /\ live \subseteq Nodes /\ bad \subseteq live /\ live' \subseteq Nodes
        /\ anchorOf \in [Nodes -> Names \cup {NONE}]
        /\ badAnchors \in [Names -> Nodes \cup {NONE}]
    BY BodyUid DEF OwnershipInv, TypeOK, TablesSound
  <1> HIDE DEF e
  <1>7. CASE UNCHANGED <<live, bad, anchorOf, badAnchors>>
    <2>1. content' = content
      BY <1>2, <1>7, NowFacts DEF PendingInv
    <2>2. Settled(Now)
      BY <1>2, <1>7, <2>1, SettledSame
    <2>3. Turn(0, e, Now)
      BY <1>1, <1>2, <1>4, <1>5, <1>7, <2>2, PlainTurn DEF e
    <2>4. QED
      BY <2>3 DEF Turns
  <1>8. CASE /\ n \in Nodes \ live /\ live' = live \cup {n} /\ bad' = bad \cup {n}
             /\ anchorOf' = [anchorOf EXCEPT ![n] = a]
             /\ anchors[a] = DEFINING /\ badAnchors[a] = NONE
             /\ badAnchors' = [badAnchors EXCEPT ![a] = n]
    <2>1. node.id = 0 /\ node.kind = "bad"
      BY DEF NewNode
    <2> HIDE DEF node
    <2>2. content'[n] = node /\ \A m \in live : content'[m] = content[m]
      BY <1>2, <1>6, <1>8
    <2>3. Settled(Now)
      BY <1>2, <1>6, <1>8, <2>1, <2>2 DEF Settled, Now
    <2>4. Refiled(Now)
      BY <1>2, <1>6, <1>8 DEF Refiled
    <2>5. World(Now) /\ Apart(Now) /\ Tracked(Now) /\ Keeps(Now)
      BY <1>4 DEF Tidy
    <2>6. \A m \in live \cap live' :
            anchorOf'[m] = NONE => anchorOf[m] = NONE /\ Now.content[m].id = content[m].id
      BY <1>6, <1>8 DEF Now
    <2>7. SolidIn(content', e)
      BY <1>5, <2>1, <2>2 DEF SolidIn
    <2>8. \A x \in Names : e # Token(x)
      BY <1>5 DEF Token
    <2>9. \A x \in Names : badAnchors'[x] # badAnchors[x] => x = a /\ badAnchors'[x] = n
      BY <1>6, <1>8
    <2>10. Turn(0, e, Now)
      BY <1>1, <1>2, <1>5, <2>3, <2>4, <2>5, <2>6, <2>7, <2>8, <2>9 DEF Turn, e
    <2>11. QED
      BY <2>10 DEF Turns
  <1>9. QED
    <2>1. CanAlloc => Fresh \in Nodes \ live
      BY <1>6, FreshIsDead
    <2>2. QED
      BY <1>1, <1>3, <1>7, <1>8, <2>1 DEF GetAnchor

(* Every cell noted under the name, and the symbol, refer to the box.      *)
LEMMA ResolveIs ==
  ASSUME NEW h, HeapSound(h), NEW a \in Names, NEW id \in 1..Len(h.syms), NEW b \in Nat,
         NEW g, g = Resolve(h, a, id, b)
  PROVE  /\ Len(h.syms) \in Nat /\ Len(h.boxes) \in Nat
         /\ Len(g.syms) = Len(h.syms) /\ Len(g.boxes) = Len(h.boxes)
         /\ g.syms[id] = Ref(b)
         /\ \A s \in 1..Len(h.syms) : s # id => g.syms[s] = h.syms[s]
         /\ \A c \in 1..Len(h.boxes) :
              /\ g.boxes[c].of = h.boxes[c].of
              /\ (\A p \in h.pending[a] : p[1] # c) => g.boxes[c] = h.boxes[c]
         /\ g.pending[a] = {}
         /\ \A x \in Names : x # a => g.pending[x] = h.pending[x]
  <1> DEFINE new == Patched(h, a, b)
             syms == [h.syms EXCEPT ![id] = Ref(b)]
             pending == [h.pending EXCEPT ![a] = {}]
  <1>1. /\ h.boxes \in Seq(Box) /\ h.syms \in Seq(Vals)
        /\ Len(h.boxes) \in Nat /\ Len(h.syms) \in Nat
        /\ DOMAIN h.boxes = 1..Len(h.boxes) /\ DOMAIN h.syms = 1..Len(h.syms)
        /\ h.pending \in [Names -> SUBSET (Nat \X Nat)]
    BY DEF HeapSound, HeapType
  <1>2. g.syms = syms /\ g.boxes = new /\ g.pending = pending
    BY DEF Resolve
  <1>3. g \in HeapType /\ Len(g.syms) = Len(h.syms)
    <2>1. id \in Nat
      BY <1>1
    <2>2. HeapSound(Resolve(h, a, id, b)) /\ Len(Resolve(h, a, id, b).syms) = Len(h.syms)
      BY ONLY <2>1, HeapSound(h), a \in Names, b \in Nat, ResolveSound
    <2>3. QED
      BY <2>2 DEF HeapSound
  <1>4. syms[id] = Ref(b) /\ \A s \in 1..Len(h.syms) : s # id => syms[s] = h.syms[s]
    BY <1>1
  <1>5. pending[a] = {} /\ \A x \in Names : x # a => pending[x] = h.pending[x]
    BY <1>1
  <1>6. Len(new) = Len(h.boxes)
    <2>1. new \in Seq(Box)
      BY <1>2, <1>3 DEF HeapType
    <2>2. DOMAIN new = 1..Len(h.boxes)
      BY <1>1 DEF Patched
    <2> HIDE DEF new
    <2>3. QED
      BY <1>1, <2>1, <2>2
  <1>7. ASSUME NEW c \in 1..Len(h.boxes)
        PROVE  /\ new[c].of = h.boxes[c].of
               /\ (\A p \in h.pending[a] : p[1] # c) => new[c] = h.boxes[c]
    <2> DEFINE box == h.boxes[c]
               val(i) == IF <<c, i>> \in h.pending[a] THEN Ref(b) ELSE box.vals[i]
    <2>1. new[c] = [of |-> box.of, vals |-> [i \in DOMAIN box.vals |-> val(i)]]
      BY <1>1 DEF Patched
    <2>2. box \in Box
      BY <1>1
    <2>3. box = [of |-> box.of, vals |-> box.vals] /\ box.vals \in Seq(Vals)
      BY <2>2 DEF Box
    <2>4. box.vals = [i \in DOMAIN box.vals |-> box.vals[i]]
      BY <2>3
    <2>5. ASSUME \A p \in h.pending[a] : p[1] # c
          PROVE  new[c] = box
      <3>1. \A i : <<c, i>> \notin h.pending[a]
        BY <2>5
      <3>2. \A i : val(i) = box.vals[i]
        BY <3>1
      <3> HIDE DEF val, box, new
      <3>3. QED
        BY <2>1, <2>3, <2>4, <3>2
    <2>6. QED
      BY <2>1, <2>5
  <1> HIDE DEF new, syms, pending
  <1>8. QED
    BY <1>1, <1>2, <1>3, <1>4, <1>5, <1>6, <1>7

(* What handling a circular node does.                                     *)
LEMMA CircularIs ==
  ASSUME NEW h, HeapSound(h), NEW n, n \notin bad,
         NEW node \in NodeType(Len(h.syms)), node.id # 0, node.kind # "str",
         NEW a \in Names, NEW g, g = Handle(h, n, node, a)
  PROVE  /\ Len(h.syms) \in Nat /\ Len(h.boxes) \in Nat /\ node.id \in 1..Len(h.syms)
         /\ Len(g.syms) = Len(h.syms) + 1 /\ Len(g.boxes) = Len(h.boxes) + 1
         /\ \A x : g.syms[node.id] # Bad(x) /\ g.syms[Len(h.syms) + 1] # Bad(x)
         /\ \A s \in 1..Len(h.syms) : s # node.id => g.syms[s] = h.syms[s]
         /\ g.boxes[Len(h.boxes) + 1].of = node.uid
         /\ \A c \in 1..Len(h.boxes) :
              /\ g.boxes[c].of = h.boxes[c].of
              /\ (\A p \in h.pending[a] : p[1] # c) => g.boxes[c] = h.boxes[c]
         /\ g.pending[a] = {}
         /\ \A x \in Names : x # a => g.pending[x] = h.pending[x] \cup StandInsOf(h, node, x)
  <1> DEFINE built == Build(h, node)
             b == Len(built.boxes)
             done == Resolve(built, a, node.id, b)
  <1>1. g = AddSym(done, Ref(b))
    BY DEF Handle
  <1>2. /\ IsSeq(h.syms) /\ IsSeq(h.boxes) /\ Len(h.syms) \in Nat /\ Len(h.boxes) \in Nat
        /\ node.id \in 1..Len(h.syms)
    BY HeapIs DEF HeapSound, NodeType
  <1>3. /\ built.syms = h.syms /\ built.boxes = Append(h.boxes, BoxOf(h, node))
        /\ built.pending = [x \in Names |-> h.pending[x] \cup StandInsOf(h, node, x)]
    BY BuildIs DEF HeapSound
  <1>4. HeapSound(built)
    BY BuildSound
  <1> HIDE DEF built
  <1>5. /\ b = Len(h.boxes) + 1 /\ built.boxes[b] = BoxOf(h, node)
        /\ \A c \in 1..Len(h.boxes) : built.boxes[c] = h.boxes[c]
    BY <1>2, <1>3, Appended
  <1>6. \A p \in StandInsOf(h, node, a) : p[1] = Len(h.boxes) + 1
    BY DEF StandInsOf
  <1>7. b \in Nat /\ node.id \in 1..Len(built.syms)
    BY <1>2, <1>3, <1>5
  <1> HIDE DEF b
  <1>8. /\ Len(done.syms) = Len(h.syms) /\ Len(done.boxes) = b
        /\ done.syms[node.id] = Ref(b)
        /\ \A s \in 1..Len(h.syms) : s # node.id => done.syms[s] = h.syms[s]
        /\ \A c \in 1..b :
             /\ done.boxes[c].of = built.boxes[c].of
             /\ (\A p \in built.pending[a] : p[1] # c) => done.boxes[c] = built.boxes[c]
        /\ done.pending[a] = {}
        /\ \A x \in Names : x # a => done.pending[x] = built.pending[x]
    <2> DEFINE id == node.id
    <2>1. id \in 1..Len(built.syms) /\ done = Resolve(built, a, id, b)
      BY <1>7
    <2> HIDE DEF done, id
    <2>2. HeapSound(built) /\ b \in Nat
      BY <1>4, <1>7
    <2>7. Len(done.syms) = Len(built.syms) /\ Len(done.boxes) = Len(built.boxes)
      BY ONLY <2>1, <2>2, a \in Names, ResolveIs
    <2>8. done.syms[id] = Ref(b)
      BY ONLY <2>1, <2>2, a \in Names, ResolveIs
    <2>3. \A s \in 1..Len(built.syms) : s # id => done.syms[s] = built.syms[s]
      BY ONLY <2>1, <2>2, a \in Names, ResolveIs
    <2>4. \A c \in 1..Len(built.boxes) :
            /\ done.boxes[c].of = built.boxes[c].of
            /\ (\A p \in built.pending[a] : p[1] # c) => done.boxes[c] = built.boxes[c]
      BY ONLY <2>1, <2>2, a \in Names, ResolveIs
    <2>5. /\ done.pending[a] = {}
          /\ \A x \in Names : x # a => done.pending[x] = built.pending[x]
      BY ONLY <2>1, <2>2, a \in Names, ResolveIs
    <2>6. QED
      BY <1>3, <2>3, <2>4, <2>5, <2>7, <2>8 DEF id, b
  <1>9. done \in HeapType
    BY <1>4, <1>7, <1>3, <1>2, ResolveSound DEF HeapSound
  <1> HIDE DEF done
  <1>10. g.syms = Append(done.syms, Ref(b)) /\ g.boxes = done.boxes /\ g.pending = done.pending
    BY <1>1, <1>9, AddSymIs
  <1>11. /\ Len(g.syms) = Len(h.syms) + 1 /\ g.syms[Len(h.syms) + 1] = Ref(b)
         /\ \A s \in 1..Len(h.syms) : g.syms[s] = done.syms[s]
    BY <1>8, <1>9, <1>10, HeapIs, Appended
  <1>12. \A x : g.syms[node.id] # Bad(x) /\ g.syms[Len(h.syms) + 1] # Bad(x)
    BY <1>2, <1>8, <1>11, ValuesDiffer
  <1>13. g.boxes[Len(h.boxes) + 1].of = node.uid /\ Len(g.boxes) = Len(h.boxes) + 1
    <2>1. BoxOf(h, node).of = node.uid
      BY DEF BoxOf
    <2>2. QED
      BY <1>2, <1>5, <1>8, <1>10, <2>1
  <1>14. ASSUME NEW c \in 1..Len(h.boxes)
         PROVE  /\ g.boxes[c].of = h.boxes[c].of
                /\ (\A p \in h.pending[a] : p[1] # c) => g.boxes[c] = h.boxes[c]
    <2>1. c \in 1..b /\ c # Len(h.boxes) + 1 /\ built.boxes[c] = h.boxes[c]
      BY <1>2, <1>5
    <2>2. built.pending[a] = h.pending[a] \cup StandInsOf(h, node, a)
      BY <1>3
    <2>3. QED
      BY <1>6, <1>8, <1>10, <2>1, <2>2
  <1>15. /\ g.pending[a] = {}
         /\ \A x \in Names : x # a => g.pending[x] = h.pending[x] \cup StandInsOf(h, node, x)
    BY <1>3, <1>8, <1>10
  <1>16. \A s \in 1..Len(h.syms) : s # node.id => g.syms[s] = h.syms[s]
    BY <1>8, <1>11
  <1>17. QED
    BY <1>2, <1>11, <1>12, <1>13, <1>14, <1>15, <1>16

LEMMA CircularTidy ==
  ASSUME OwnershipInv, PendingInv, ValuesSound,
         NEW a \in Names, NEW n \in live, anchorOf[n] = NONE, n \notin bad,
         badAnchors[a] # NONE, content[badAnchors[a]].id # 0, content[n].kind # "str",
         NEW node, node = [content[n] EXCEPT !.id = content[badAnchors[a]].id],
         NEW w, w = [heap |-> Handle(heap, n, node, a), content |-> [content EXCEPT ![n] = node]]
  PROVE  Tidy(w, {n}) /\ NoTrace(w, a)
  <1> DEFINE o == badAnchors[a]
             g == Handle(heap, n, node, a)
             k == Len(heap.syms)
             b == Len(heap.boxes)
  <1>1. /\ n \in Nodes /\ o \in Nodes /\ o \in bad /\ anchorOf[o] = a /\ o # n
        /\ bad \subseteq Nodes /\ live \subseteq Nodes
        /\ \A x \in Names : badAnchors[x] # NONE => badAnchors[x] \in bad
        /\ a # NONE
    BY ConstantsAssumption DEF OwnershipInv, TablesSound, TypeOK
  <1>2. World(w) /\ node \in NodeType(k)
    BY <1>1, CircularWorld
  <1>3. content \in [Nodes -> NodeType(k)] /\ HeapSound(heap)
    BY NowFacts DEF PendingInv
  <1>4. DOMAIN content[n] = {"kind", "id", "uid", "items"}
    BY <1>1, <1>3 DEF NodeType
  <1>5. /\ node.id = content[o].id /\ node.kind = content[n].kind
        /\ node.uid = content[n].uid /\ node.items = content[n].items
    BY <1>4
  <1>6. content[n].id = 0
    BY DEF ValuesSound, LooseUnhandled
  <1>7. w.heap = g /\ w.content = [content EXCEPT ![n] = node]
    OBVIOUS
  <1>8. node.id # 0 /\ node.kind # "str"
    BY <1>5
  <1> HIDE DEF o
  <1>9. /\ k \in Nat /\ b \in Nat /\ node.id \in 1..k
        /\ Len(g.syms) = k + 1 /\ Len(g.boxes) = b + 1
        /\ \A x : g.syms[node.id] # Bad(x) /\ g.syms[k + 1] # Bad(x)
        /\ \A s \in 1..k : s # node.id => g.syms[s] = heap.syms[s]
    <2> HIDE DEF g
    <2>1. g = Handle(heap, n, node, a)
      BY DEF g
    <2>2. QED
      BY ONLY <1>2, <1>3, <1>8, <2>1, a \in Names, n \notin bad, CircularIs
  <1>10. /\ g.boxes[b + 1].of = node.uid
         /\ \A c \in 1..b : /\ g.boxes[c].of = heap.boxes[c].of
                            /\ (\A p \in heap.pending[a] : p[1] # c) => g.boxes[c] = heap.boxes[c]
    <2> HIDE DEF g
    <2>1. g = Handle(heap, n, node, a)
      BY DEF g
    <2>2. g.boxes[b + 1].of = node.uid
      BY ONLY <1>2, <1>3, <1>8, <2>1, a \in Names, n \notin bad, CircularIs
    <2>3. \A c \in 1..b : /\ g.boxes[c].of = heap.boxes[c].of
                          /\ (\A p \in heap.pending[a] : p[1] # c) => g.boxes[c] = heap.boxes[c]
      BY ONLY <1>2, <1>3, <1>8, <2>1, a \in Names, n \notin bad, CircularIs
    <2>4. QED
      BY <2>2, <2>3
  <1>11. /\ g.pending[a] = {}
         /\ \A x \in Names : x # a => g.pending[x] = heap.pending[x] \cup StandInsOf(heap, node, x)
    <2> HIDE DEF g
    <2>1. g = Handle(heap, n, node, a)
      BY DEF g
    <2>2. QED
      BY ONLY <1>2, <1>3, <1>8, <2>1, a \in Names, n \notin bad, CircularIs
  <1> HIDE DEF g
  <1>12. /\ w.content[n] = node
         /\ \A m \in Nodes : m # n => w.content[m] = content[m]
    BY <1>1, <1>3, <1>7
  <1>13. /\ Apart(Now) /\ Tracked(Now) /\ Now.heap = heap /\ Now.content = content
    BY DEF ValuesSound, Now
  <1>14. \A m \in Nodes : w.content[m].uid = content[m].uid /\ w.content[m].kind = content[m].kind
    BY <1>5, <1>12
  <1>15. \A s \in 1..Len(g.syms) : s = k + 1 \/ s \in 1..k
    BY <1>9
  <1>16. ASSUME NEW x \in Names, NEW s \in 1..Len(g.syms), g.syms[s] = Bad(x)
         PROVE  /\ s \in 1..k /\ s # node.id /\ heap.syms[s] = Bad(x)
                /\ anchors[x] = DEFINING /\ badAnchors[x] # NONE
                /\ content[badAnchors[x]].id = s /\ w.content[badAnchors[x]].id = s
    <2>1. s \in 1..k /\ s # node.id
      BY <1>9, <1>15, <1>16
    <2>2. heap.syms[s] = Bad(x)
      BY <1>9, <1>16, <2>1
    <2>3. anchors[x] = DEFINING /\ badAnchors[x] # NONE /\ content[badAnchors[x]].id = s
      BY <1>13, <2>1, <2>2 DEF Tracked
    <2>4. badAnchors[x] # n /\ badAnchors[x] \in Nodes
      BY <1>1, <2>3
    <2>5. QED
      BY <1>12, <2>1, <2>2, <2>3, <2>4
  <1>17. \A s \in 1..Len(g.syms) : g.syms[s] # Bad(a)
    BY <1>5, <1>16 DEF o
  <1>18. NoTrace(w, a)
    BY <1>1, <1>5, <1>7, <1>8, <1>11, <1>12, <1>17 DEF NoTrace, o
  <1>19. ASSUME NEW x \in Names, NEW p \in g.pending[x]
         PROVE  anchors[x] = DEFINING /\ badAnchors[x] # NONE /\ p[1] > returned
    <2>1. x # a
      BY <1>11, <1>19
    <2>2. CASE p \in heap.pending[x]
      BY <1>13, <2>2 DEF Tracked
    <2>3. CASE p \in StandInsOf(heap, node, x)
      <3>1. PICK i \in DOMAIN node.items : heap.syms[node.items[i]] = Bad(x) /\ p = <<b + 1, i>>
        BY <2>3 DEF StandInsOf
      <3>2. node.items \in Seq(1..k)
        BY <1>2 DEF NodeType
      <3>3. node.items[i] \in 1..k
        BY <3>1, <3>2
      <3>4. anchors[x] = DEFINING /\ badAnchors[x] # NONE
        BY <1>13, <3>1, <3>3 DEF Tracked
      <3>5. p[1] = b + 1 /\ returned \in 0..b
        BY <1>13, <3>1 DEF Tracked
      <3> HIDE DEF b
      <3>6. QED
        BY <1>9, <3>4, <3>5
    <2>4. QED
      BY <1>11, <1>19, <2>1, <2>2, <2>3
  <1>20. \A m \in bad : /\ badAnchors[anchorOf[m]] = m
                        /\ w.content[m].id = 0 => anchors[anchorOf[m]] = DEFINING
    BY <1>1, <1>12, <1>13 DEF Tracked
  <1>21. returned \in 0..Len(g.boxes) /\ returned \in 0..b
    BY <1>9, <1>13 DEF Tracked
  <1>22. Tracked(w)
    BY <1>7, <1>16, <1>19, <1>20, <1>21 DEF Tracked
  <1>23. Keeps(w)
    <2>1. ASSUME NEW c \in 1..returned
          PROVE  g.boxes[c] = heap.boxes[c]
      <3>1. c \in 1..b
        BY <1>9, <1>21
      <3>2. \A p \in heap.pending[a] : p[1] > returned
        BY <1>13 DEF Tracked
      <3>3. \A p \in heap.pending[a] : p[1] # c
        BY <1>21, <3>2
      <3>4. QED
        BY <1>10, <3>1, <3>3
    <2>2. QED
      BY <1>6, <1>7, <1>12, <1>14, <2>1 DEF Keeps
  <1>24. Apart(w)
    <2>1. /\ \A m \in live \ bad : content[m].uid \in 1..Len(body)
          /\ \A m, l \in live \ bad : content[m].uid = content[l].uid => m = l
          /\ \A c \in 1..b : heap.boxes[c].of \in 1..Len(body)
          /\ \A c, d \in 1..b : heap.boxes[c].of = heap.boxes[d].of => c = d
          /\ \A m \in live \ bad : content[m].id = 0 =>
               \A c \in 1..b : heap.boxes[c].of # content[m].uid
      BY <1>13 DEF Apart
    <2>2. n \in live \ bad /\ node.uid = content[n].uid
      BY <1>5
    <2>3. \A c \in 1..Len(g.boxes) : c \in 1..b \/ c = b + 1
      BY <1>9
    <2> HIDE DEF b
    <2>4. \A c \in 1..b : g.boxes[c].of = heap.boxes[c].of /\ g.boxes[c].of # node.uid
      BY <1>6, <1>10, <2>1, <2>2
    <2>5. \A c \in 1..Len(g.boxes) : g.boxes[c].of \in 1..Len(body)
      BY <1>10, <2>1, <2>2, <2>3, <2>4
    <2>6. ASSUME NEW c \in 1..Len(g.boxes), NEW d \in 1..Len(g.boxes), g.boxes[c].of = g.boxes[d].of
          PROVE  c = d
      BY <1>10, <2>1, <2>3, <2>4, <2>6
    <2>7. ASSUME NEW m \in live \ bad, w.content[m].id = 0, NEW c \in 1..Len(g.boxes)
          PROVE  g.boxes[c].of # w.content[m].uid
      <3>1. m # n /\ content[m].id = 0 /\ w.content[m].uid = content[m].uid
        BY <1>1, <1>8, <1>12, <2>7
      <3>2. content[m].uid # content[n].uid
        BY <2>1, <2>2, <3>1
      <3>3. CASE c = b + 1
        BY <1>10, <2>2, <3>1, <3>2, <3>3
      <3>4. CASE c \in 1..b
        BY <2>1, <2>4, <3>1, <3>4
      <3>5. QED
        BY <2>3, <3>3, <3>4
    <2>8. QED
      BY <1>1, <1>7, <1>14, <2>1, <2>5, <2>6, <2>7 DEF Apart
  <1>25. \A m \in Nodes \ {n} : w.content[m].id = content[m].id
    BY <1>12
  <1>26. QED
    BY <1>2, <1>18, <1>22, <1>23, <1>24, <1>25 DEF Tidy

(* The node of an anchor is complete: in a regular parse it had none, and  *)
(* no stand-in for the name is left.                                       *)
LEMMA FiledTurn ==
  ASSUME OwnershipInv, OwnershipInv', PendingInv, ValuesSound, ReduceAnchor, UNCHANGED <<body, returned>>,
         anchorOf[Val(0)] = NONE, NEW w, Tidy(w, {Val(0)}), NoTrace(w, Val(1)), Settled(w)
  PROVE  Turns
  <1> DEFINE n == Val(0)
             a == Val(1)
             e == [sym |-> Sym(0), val |-> n]
  <1>1. /\ n \in Nodes /\ a \in Names /\ Sym(0) \in {"ATOM", "TMAP"} /\ Sym(1) = "ANCHOR"
        /\ Pops(2, e) /\ UNCHANGED <<live, bad, badAnchors>>
        /\ anchorOf' = [anchorOf EXCEPT ![n] = a] /\ anchors' = [anchors EXCEPT ![a] = n]
    BY ReduceAnchorShape DEF ReduceAnchor, AddAnchor, OwnershipInv
  <1>2. n \in live /\ stack[Depth].sym = Sym(0) /\ stack[Depth].val = n /\ Depth \in Nat
    <2>1. Depth - 0 = Depth /\ Depth \in Nat
      BY StackFacts DEF OwnershipInv
    <2>2. QED
      BY <1>1, <2>1, LiveTop, Repushed DEF NodeSyms
  <1>3. stack[Depth - 1].sym = "ANCHOR" /\ stack[Depth - 1].val = a
    BY <1>1, TopFacts DEF OwnershipInv, TypeOK
  <1>4. /\ bad \subseteq live /\ bad \subseteq Nodes /\ n \notin bad /\ DEFINING \notin Nodes /\ a # NONE
        /\ anchorOf \in [Nodes -> Names \cup {NONE}]
        /\ anchors \in [Names -> Nodes \cup {NONE, DEFINING}]
    BY <1>1, ConstantsAssumption DEF OwnershipInv, TablesSound, TypeOK
  <1>5. World(w) /\ Apart(w) /\ Tracked(w) /\ Keeps(w)
    BY DEF Tidy
  <1>6. NoTrace(w, a)
    OBVIOUS
  <1>7. e.sym = Sym(0) /\ e.val = n /\ e.sym \in NodeSyms /\ e.sym # "ANCHOR"
    BY <1>1 DEF NodeSyms
  <1>8. Sym(0) \in Collections => content[n].kind \in {"seq", "map"}
    BY KindTop
  <1>9. \A m \in Nodes \ {n} : w.content[m].id = content[m].id
    BY DEF Tidy
  <1>10. \A j \in 0..(2 - 1) : j = 0 \/ j = 1
    OBVIOUS
  <1> HIDE DEF n, a, e
  <1>11. Refiled(w)
    BY <1>1, <1>4, <1>6 DEF Refiled
  <1>12. \A m \in live \cap live' :
           anchorOf'[m] = NONE => anchorOf[m] = NONE /\ w.content[m].id = content[m].id
    BY <1>1, <1>4, <1>9 DEF OwnershipInv, TypeOK
  <1>13. content'[n].kind = content[n].kind
    BY <1>1, <1>2, <1>5, KindLeft
  <1>14. \A j \in 0..(2 - 1) : Sym(j) \in NodeSyms /\ Val(j) \in bad =>
           w.content[Val(j)].id # 0 \/ (e.sym \in NodeSyms /\ e.val = Val(j))
    BY <1>1, <1>7, <1>10 DEF NodeSyms, n
  <1>15. ASSUME NEW j \in 0..(2 - 1), SolidIn(content, stack[Depth - j])
         PROVE  SolidIn(content', e)
    <2>1. j # 1
      BY <1>3, <1>15 DEF SolidIn, MarkSyms, NodeSyms
    <2>2. j = 0 /\ Depth - j = Depth
      BY <1>2, <1>10, <2>1
    <2>3. content[n].kind # "str"
      BY <1>1, <1>2, <1>15, <2>2 DEF SolidIn, MarkSyms
    <2>4. QED
      BY <1>7, <1>13, <2>3 DEF SolidIn
  <1>16. e.sym \in Collections => content'[e.val].kind \in {"seq", "map"}
    BY <1>7, <1>8, <1>13
  <1>17. \A x \in Names : e # Token(x)
    BY <1>7 DEF Token
  <1>18. ASSUME NEW x \in Names, anchors'[x] = DEFINING
         PROVE  anchors[x] = DEFINING /\ \A j \in 0..(2 - 1) : stack[Depth - j] # Token(x)
    <2>1. x # a /\ anchors[x] = DEFINING
      BY <1>1, <1>4, <1>18
    <2>2. stack[Depth - 1] # Token(x)
      BY <1>3, <2>1 DEF Token
    <2>3. stack[Depth] # Token(x) /\ Depth - 0 = Depth
      BY <1>1, <1>2 DEF Token
    <2>4. QED
      BY <1>10, <2>1, <2>2, <2>3
  <1>19. Turn(2, e, w)
    BY <1>1, <1>5, <1>11, <1>12, <1>14, <1>15, <1>16, <1>17, <1>18 DEF Turn
  <1>20. QED
    BY <1>19 DEF Turns

LEMMA ReduceAnchorTurns ==
  ASSUME OwnershipInv, OwnershipInv', PendingInv, ValuesSound, quirks' = {}, LoadReduceAnchor
  PROVE  Turns
  <1> DEFINE n == Val(0)
             a == Val(1)
             o == badAnchors[a]
             node == [content[n] EXCEPT !.id = content[o].id]
             w == [heap |-> Handle(heap, n, node, a), content |-> [content EXCEPT ![n] = node]]
  <1>1. /\ n \in Nodes /\ a \in Names /\ Sym(0) \in {"ATOM", "TMAP"} /\ Sym(1) = "ANCHOR"
        /\ ReduceAnchor /\ UNCHANGED <<live, bad, badAnchors>> /\ UNCHANGED <<body, returned>>
    BY ReduceAnchorShape DEF LoadReduceAnchor, ReduceAnchor, OwnershipInv
  <1>2. /\ anchorOf[n] = NONE
        /\ \/ o # NONE /\ content[n].kind # "str" /\ Leave(w)
           \/ (o = NONE \/ content[n].kind = "str") /\ UNCHANGED <<content, heap>>
    BY DEF LoadReduceAnchor
  <1>3. n \in live /\ stack[Depth].sym = Sym(0) /\ stack[Depth].val = n /\ Depth \in Nat
    <2>1. Depth - 0 = Depth /\ Depth \in Nat
      BY StackFacts DEF OwnershipInv
    <2>2. QED
      BY <1>1, <2>1, LiveTop, Repushed DEF NodeSyms
  <1>4. /\ Depth - 1 \in DOMAIN stack /\ DOMAIN stack = 1..Depth /\ stack[Depth - 1] = Token(a)
    <2>1. /\ Depth - 1 \in 1..Depth /\ stack[Depth - 1] \in Entry
          /\ stack[Depth - 1].sym = "ANCHOR" /\ stack[Depth - 1].val = a
      BY <1>1, TopFacts DEF OwnershipInv, TypeOK
    <2>2. stack[Depth - 1] = Token(a)
      BY <2>1 DEF Entry, NameSyms, NodeSyms, MarkSyms, Token
    <2>3. QED
      BY <2>1, <2>2, StackFacts DEF OwnershipInv
  <1>5. n \notin bad /\ (o # NONE => o \in bad)
    BY <1>1, <1>2 DEF OwnershipInv, TablesSound, TypeOK
  <1>6. \A j \in DOMAIN stack : j > Depth - 1 => j = Depth
    BY <1>3, <1>4
  <1> HIDE DEF n, a, o
  <1>7. CASE o # NONE /\ content[n].kind # "str" /\ Leave(w)
    <2>1. content[o].id # 0
      <3>1. content[o].id = 0 => \E j \in Places : j > Depth - 1 /\ stack[j].val = o
        BY <1>1, <1>4, <1>7 DEF ValuesSound, StandInAbove, o
      <3>2. \A j \in Places : j > Depth - 1 => stack[j].val = n
        BY <1>3, <1>6 DEF Places
      <3>3. QED
        BY <1>5, <1>7, <3>1, <3>2
    <2>2. Tidy(w, {n}) /\ NoTrace(w, a)
      BY <1>1, <1>2, <1>3, <1>5, <1>7, <2>1, CircularTidy DEF o
    <2> HIDE DEF w
    <2>3. Settled(w)
      BY <1>1, <1>7, SettledLeave
    <2>4. QED
      BY <1>1, <1>2, <2>2, <2>3, FiledTurn DEF n, a
  <1>8. CASE (o = NONE \/ content[n].kind = "str") /\ UNCHANGED <<content, heap>>
    <2>1. o = NONE
      <3>1. ASSUME o # NONE
            PROVE  \E j \in DOMAIN stack : j > Depth - 1 /\ SolidIn(content, stack[j])
        BY <1>1, <1>4, <3>1 DEF ValuesSound, WithinNode, o
      <3>2. content[n].kind = "str" => ~SolidIn(content, stack[Depth])
        BY <1>1, <1>3 DEF SolidIn, MarkSyms, NodeSyms
      <3>3. QED
        BY <1>6, <1>8, <3>1, <3>2
    <2>2. Tracked(Now) /\ Now.heap = heap /\ Now.content = content
      BY DEF ValuesSound, Now
    <2>3. NoTrace(Now, a)
      <3>1. \A s \in 1..Len(heap.syms) : heap.syms[s] # Bad(a)
        BY <1>1, <2>1, <2>2 DEF Tracked, o
      <3>2. heap.pending[a] = {}
        BY <1>1, <2>1, <2>2 DEF Tracked, o
      <3>3. QED
        BY <2>1, <2>2, <3>1, <3>2 DEF NoTrace, o
    <2>4. Settled(Now) /\ Tidy(Now, {})
      BY <1>1, <1>8, SettledSame, TidyNow
    <2>5. Tidy(Now, {n})
      BY <2>4 DEF Tidy
    <2>6. QED
      BY <1>1, <1>2, <2>3, <2>4, <2>5, FiledTurn DEF n, a
  <1>9. QED
    BY <1>2, <1>7, <1>8

-----------------------------------------------------------------------------
(* Every step.                                                             *)

(* The documents already returned are as they were.                        *)
Steady == \A b \in 1..returned : heap'.boxes[b] = heap.boxes[b]

LEMMA KnownStep ==
  ASSUME OwnershipInv, NamesKnown, phase = "parse",
         \/ UNCHANGED <<anchors, current>>
         \/ \E a \in Names : \/ LoadAnchor(a)
                             \/ LoadAlias(a)
         \/ LoadReduceAnchor
  PROVE  NamesKnown'
  <1>1. anchors \in [Names -> Nodes \cup {NONE, DEFINING}] /\ DEFINING # NONE /\ NONE \notin Nodes
    BY ConstantsAssumption DEF OwnershipInv, TypeOK
  <1>2. CASE UNCHANGED <<anchors, current>>
    BY <1>2 DEF NamesKnown
  <1>3. ASSUME NEW a \in Names, LoadAnchor(a)
        PROVE  NamesKnown'
    <2>1. /\ anchors' = [anchors EXCEPT ![a] = DEFINING]
          /\ \A x \in Names : x # a => current'[x] = current[x]
      BY <1>3 DEF LoadAnchor, ShiftAnchor, RemoveAnchor
    <2>2. QED
      BY <1>1, <2>1 DEF NamesKnown
  <1>4. ASSUME NEW a \in Names, LoadAlias(a)
        PROVE  NamesKnown'
    BY <1>4 DEF LoadAlias, ShiftAlias, NamesKnown
  <1>5. CASE LoadReduceAnchor
    <2>1. current' = current /\ \A x \in Names : anchors'[x] = NONE => anchors[x] = NONE
      <3>1. Val(0) \in Nodes /\ Val(1) \in Names
        BY <1>5, ReduceAnchorShape DEF LoadReduceAnchor, OwnershipInv
      <3>2. \/ anchors' = anchors
            \/ anchors' = [anchors EXCEPT ![Val(1)] = Val(0)]
        BY <1>5 DEF LoadReduceAnchor, ReduceAnchor, AddAnchor
      <3>3. QED
        BY <1>1, <1>5, <3>1, <3>2 DEF LoadReduceAnchor
    <2>2. QED
      BY <2>1 DEF NamesKnown
  <1>6. QED
    BY <1>2, <1>3, <1>4, <1>5

LEMMA TurnsSound ==
  ASSUME OwnershipInv, OwnershipInv', ValuesSound, Turns, NamesKnown'
  PROVE  ValuesSound' /\ Steady
  <1>1. PICK k, e, w : Turn(k, e, w)
    BY DEF Turns
  <1>2. ValuesSound'
    BY <1>1, TurnSound
  <1>3. Steady
    BY <1>1 DEF Turn, Settled, Keeps, Steady
  <1>4. QED
    BY <1>2, <1>3

(* No anchor is being built when the stack has no token.                   *)
LEMMA NothingBuilt ==
  ASSUME ValuesSound, \A x \in Names : \A i \in DOMAIN stack : stack[i] # Token(x)
  PROVE  /\ \A x \in Names : anchors[x] # DEFINING
         /\ \A x \in Names : /\ \A s \in 1..Len(heap.syms) : heap.syms[s] # Bad(x)
                             /\ heap.pending[x] = {}
  <1>1. \A x \in Names : anchors[x] # DEFINING
    BY DEF ValuesSound, BeingBuilt
  <1>2. Tracked(Now) /\ Now.heap = heap
    BY DEF ValuesSound, Now
  <1>3. QED
    BY <1>1, <1>2 DEF Tracked

LEMMA RootStep ==
  ASSUME OwnershipInv, OwnershipInv', PendingInv, ValuesSound, LoadRoot
  PROVE  ValuesSound' /\ Steady
  <1>1. /\ UNCHANGED <<croaked, bad, anchorOf, anchors, badAnchors, body, returned, current>>
        /\ stack' = <<>> /\ phase = "parse"
    BY DEF LoadRoot, ReduceRoot
  <1>2. DOMAIN stack' = {} /\ Places' = {}
    BY <1>1, EmptyStack, SeqFacts DEF OwnershipInv
  <1>3. PICK w, S : /\ Tidy(w, S) /\ Settled(w)
                    /\ \A n \in S : anchorOf[n] = NONE => n \notin live'
    <2>1. CASE Depth = 1 /\ Leave(AddNode(Now, Val(0)))
      <3> DEFINE n == Val(0)
                 w == AddNode(Now, n)
      <3>1. n \in Nodes /\ Sym(0) = "ATOM" /\ live' = (live \ Unanchored({n})) \cup {}
        <4>1. stack # <<>>
          BY <2>1 DEF Depth
        <4>2. QED
          BY <4>1, ReduceRootShape DEF LoadRoot, AddNodes, OwnershipInv
      <3>2. n \in live
        BY <3>1, LiveTop DEF NodeSyms
      <3> HIDE DEF n
      <3>3. Tidy(w, {} \cup {n})
        BY <3>2, TidyNow, TidyAdd
      <3>4. Leave(w)
        BY <2>1 DEF n
      <3> HIDE DEF w
      <3>5. Settled(w)
        BY <1>1, <3>1, <3>4, SettledLeave
      <3>6. \A m \in {} \cup {n} : anchorOf[m] = NONE => m \notin live'
        BY <3>1, <3>2 DEF Unanchored
      <3>7. QED
        BY <3>3, <3>5, <3>6
    <2>2. CASE Depth = 0 /\ UNCHANGED <<content, heap>>
      <3>1. live' = live
        BY <2>2 DEF LoadRoot, ReduceRoot
      <3>2. Settled(Now) /\ Tidy(Now, {})
        BY <1>1, <2>2, <3>1, SettledSame, TidyNow
      <3>3. QED
        BY <3>2
    <2>3. QED
      BY <2>1, <2>2 DEF LoadRoot
  <1>4. World(w) /\ Apart(w) /\ Tracked(w) /\ Keeps(w)
    BY <1>3 DEF Tidy
  <1>5. Refiled(w)
    <2>1. bad \subseteq live'
      BY <1>1 DEF OwnershipInv, TablesSound
    <2>2. QED
      BY <1>1, <2>1 DEF Refiled
  <1>6. Apart(Now)' /\ Tracked(Now)'
    BY <1>3, <1>4, <1>5, SettledApart, SettledTracked
  <1>7. LooseUnhandled'
    <2>1. \A n \in live' : n \in Nodes
      BY DEF OwnershipInv, TypeOK
    <2>2. ASSUME NEW n \in live', anchorOf[n] = NONE
          PROVE  content'[n].id = 0
      <3>1. CASE n \notin live
        BY <1>3, <3>1 DEF Settled
      <3>2. CASE n \in live
        <4>1. content'[n] = w.content[n] /\ n \notin S
          BY <1>3, <2>2, <3>2 DEF Settled
        <4>2. w.content[n].id = content[n].id
          BY <1>3, <2>1, <4>1 DEF Tidy
        <4>3. QED
          BY <2>2, <3>2, <4>1, <4>2 DEF ValuesSound, LooseUnhandled
      <3>3. QED
        BY <3>1, <3>2
    <2>3. QED
      BY <1>1, <2>2 DEF LooseUnhandled
  <1>8. \A x \in Names : \A i \in DOMAIN stack : stack[i] # Token(x)
    <2>1. Depth = 0 \/ (Depth = 1 /\ Sym(0) = "ATOM")
      BY DEF LoadRoot, ReduceRoot
    <2>2. DOMAIN stack = 1..Depth
      BY StackFacts DEF OwnershipInv
    <2>3. CASE Depth = 0
      BY <2>2, <2>3
    <2>4. CASE Depth = 1 /\ Sym(0) = "ATOM"
      <3>1. stack[1].sym = "ATOM"
        BY <2>4 DEF Sym
      <3>2. \A i \in DOMAIN stack : i = 1
        BY <2>2, <2>4
      <3>3. QED
        BY <3>1, <3>2 DEF Token
    <2>5. QED
      BY <2>1, <2>3, <2>4
  <1>9. \A x \in Names : anchors'[x] # DEFINING
    BY <1>1, <1>8, NothingBuilt
  <1>10. StandInAbove' /\ WithinNode' /\ KindsSound' /\ BeingBuilt'
    BY <1>2, <1>9 DEF StandInAbove, WithinNode, KindsSound, BeingBuilt
  <1>11. NamesKnown'
    BY <1>1 DEF ValuesSound, NamesKnown
  <1>12. Steady
    BY <1>3, <1>4 DEF Settled, Keeps, Steady
  <1>13. QED
    BY <1>6, <1>7, <1>10, <1>11, <1>12 DEF ValuesSound

(* The tables go, and every node with them.                                *)
LEMMA TeardownStep ==
  ASSUME OwnershipInv, OwnershipInv', PendingInv, Accounted, ValuesSound, ~croaked,
         LoadNextDocument \/ LoadFree
  PROVE  ValuesSound' /\ Steady
  <1>1. /\ StFree /\ Forget /\ UNCHANGED <<heap, stack>> /\ stack = <<>>
        /\ returned' = Len(heap.boxes) \/ returned' = returned
        /\ phase' = "freed" \/ current' = [a \in Names |-> 0]
    BY DEF LoadNextDocument, LoadFree, NextDocument, FreeParser, OwnershipInv, PhaseSound
  <1>2. DOMAIN stack = {} /\ Places = {} /\ DOMAIN stack' = {} /\ Places' = {}
    <2>1. DOMAIN stack = {} /\ DOMAIN stack' = {}
      BY <1>1, SeqFacts
    <2>2. QED
      BY <2>1 DEF Places
  <1>3. /\ \A x \in Names : \A s \in 1..Len(heap.syms) : heap.syms[s] # Bad(x)
        /\ \A x \in Names : heap.pending[x] = {}
    BY <1>2, NothingBuilt
  <1>4. Apart(Now) /\ Tracked(Now) /\ Now.heap = heap /\ Now.content = content
    BY DEF ValuesSound, Now
  <1>5. bad' = {} /\ live' = {}
    <2>1. bad \subseteq Filed
      <3>1. ASSUME NEW n \in bad PROVE n \in Filed
        <4>1. anchorOf[n] \in Names /\ badAnchors[anchorOf[n]] = n /\ n \in Nodes
          BY <1>4, <3>1 DEF Tracked, OwnershipInv, TablesSound, TypeOK
        <4>2. QED
          BY <4>1 DEF Filed, Entries
      <3>2. QED
        BY <3>1
    <2>2. live \subseteq Filed
      BY <1>2, <2>1, NothingLoose DEF Accounted, FilingSound
    <2>3. QED
      BY <1>1, <2>1, <2>2 DEF StFree
  <1>6. \A x \in Names : badAnchors'[x] = NONE /\ anchors'[x] = NONE
    BY <1>1 DEF StFree
  <1>7. DEFINING # NONE /\ Len(heap.boxes) \in Nat
    BY ConstantsAssumption, NowFacts, HeapIs DEF PendingInv, HeapSound
  <1>8. Now'.heap = heap /\ Now'.content = content' /\ body' = body
    BY <1>1 DEF Now, Forget
  <1>9. Apart(Now)'
    BY <1>4, <1>5, <1>8 DEF Apart
  <1>10. returned' \in 0..Len(heap.boxes)
    BY <1>1, <1>4, <1>7 DEF Tracked
  <1>11. Tracked(Now)'
    BY <1>3, <1>5, <1>8, <1>10 DEF Tracked
  <1>12. LooseUnhandled'
    BY <1>5 DEF LooseUnhandled
  <1>13. StandInAbove' /\ WithinNode' /\ KindsSound' /\ BeingBuilt'
    BY <1>2, <1>6, <1>7 DEF StandInAbove, WithinNode, KindsSound, BeingBuilt
  <1>14. NamesKnown'
    BY <1>1 DEF NamesKnown
  <1>15. Steady
    BY <1>1 DEF Steady
  <1>16. QED
    BY <1>9, <1>11, <1>12, <1>13, <1>14, <1>15 DEF ValuesSound

(* The handler writes to the Perl side only while a parse runs, and what   *)
(* has gone astray stays so.                                               *)
Handles ==
  \/ \E a \in Names : LoadAnchor(a) \/ LoadAlias(a)
  \/ LoadScalar \/ LoadMark \/ LoadRename \/ LoadClose \/ LoadReduceAnchor
  \/ LoadFirstItem \/ LoadItem \/ LoadMapping \/ LoadLoneKey \/ LoadPair \/ LoadDash
  \/ LoadEmptyFlow \/ LoadCloseBlock \/ LoadRoot

LEMMA HandlesFacts ==
  ASSUME Handles
  PROVE  phase = "parse" /\ UNCHANGED croaked /\ quirks \subseteq quirks'
  <1>1. ASSUME NEW a \in Names, LoadAnchor(a) \/ LoadAlias(a)
        PROVE  phase = "parse" /\ UNCHANGED croaked /\ quirks \subseteq quirks'
    BY <1>1 DEF LoadAnchor, LoadAlias, ShiftAnchor, ShiftAlias, Expecting
  <1>2. CASE LoadScalar \/ LoadMark
    BY <1>2 DEF LoadScalar, LoadMark, ShiftScalar, ShiftOpen, ShiftSep, ShiftDash, Expecting, Parsing
  <1>3. CASE LoadRename \/ LoadClose
    BY <1>3 DEF LoadRename, LoadClose, loadVars, ShiftColon, ReduceFirstPair, CloseFlow,
                ReduceTopMap, Parsing
  <1>4. CASE LoadReduceAnchor
    BY <1>4 DEF LoadReduceAnchor, ReduceAnchor
  <1>5. CASE LoadFirstItem \/ LoadItem
    BY <1>5 DEF LoadFirstItem, LoadItem, ReduceFirstItem, ReduceItem
  <1>6. CASE LoadMapping \/ LoadLoneKey
    BY <1>6 DEF LoadMapping, LoadLoneKey, ReduceMapping, ReduceLoneKey, Parsing
  <1>7. CASE LoadPair \/ LoadDash
    BY <1>7 DEF LoadPair, LoadDash, ReducePair, ReduceDash, Parsing
  <1>8. CASE LoadEmptyFlow \/ LoadCloseBlock \/ LoadRoot
    BY <1>8 DEF LoadEmptyFlow, LoadCloseBlock, LoadRoot, CloseEmptyFlow, CloseBlock, ReduceRoot
  <1>9. QED
    BY <1>1, <1>2, <1>3, <1>4, <1>5, <1>6, <1>7, <1>8 DEF Handles

LEMMA HandlesStep ==
  ASSUME OwnershipInv, OwnershipInv', PendingInv, ValuesSound, quirks' = {}, Handles
  PROVE  ValuesSound' /\ Steady
  <1>1. phase = "parse" /\ NamesKnown
    BY HandlesFacts DEF ValuesSound
  <1>2. ASSUME NEW a \in Names, LoadAnchor(a) \/ LoadAlias(a)
        PROVE  Turns /\ NamesKnown'
    BY <1>1, <1>2, AnchorTurns, AliasTurns, KnownStep
  <1>3. CASE LoadReduceAnchor
    BY <1>1, <1>3, ReduceAnchorTurns, KnownStep, TurnsSound
  <1>4. CASE LoadScalar \/ LoadMark \/ LoadRename \/ LoadClose \/ LoadEmptyFlow
    <2>1. UNCHANGED <<anchors, current>>
      BY <1>4 DEF LoadScalar, LoadMark, LoadRename, LoadClose, LoadEmptyFlow, loadVars,
                  ShiftScalar, ShiftOpen, ShiftSep, ShiftDash, ShiftColon, ReduceFirstPair,
                  CloseFlow, ReduceTopMap, CloseEmptyFlow
    <2>2. Turns
      BY <1>4, ScalarTurns, MarkTurns, RenameTurns, CloseTurns, EmptyFlowTurns
    <2>3. QED
      BY <1>1, <2>1, <2>2, KnownStep, TurnsSound
  <1>5. CASE LoadFirstItem \/ LoadItem \/ LoadMapping \/ LoadLoneKey
    <2>1. UNCHANGED <<anchors, current>>
      BY <1>5 DEF LoadFirstItem, LoadItem, LoadMapping, LoadLoneKey, ReduceFirstItem,
                  ReduceItem, ReduceMapping, ReduceLoneKey
    <2>2. Turns
      BY <1>5, FirstItemTurns, ItemTurns, MappingTurns, LoneKeyTurns
    <2>3. QED
      BY <1>1, <2>1, <2>2, KnownStep, TurnsSound
  <1>6. CASE LoadPair \/ LoadDash \/ LoadCloseBlock
    <2>1. UNCHANGED <<anchors, current>>
      BY <1>6 DEF LoadPair, LoadDash, LoadCloseBlock, ReducePair, ReduceDash, CloseBlock
    <2>2. Turns
      BY <1>6, PairTurns, DashTurns, CloseBlockTurns
    <2>3. QED
      BY <1>1, <2>1, <2>2, KnownStep, TurnsSound
  <1>7. CASE LoadRoot
    BY <1>7, RootStep
  <1>8. QED
    BY <1>2, <1>3, <1>4, <1>5, <1>6, <1>7, TurnsSound DEF Handles

LEMMA NextIs ==
  LoadNext <=> Handles \/ LoadNextDocument \/ LoadFree \/ LoadCroak
  BY DEF LoadNext, Handles

LEMMA OtherFacts ==
  ASSUME LoadNextDocument \/ LoadFree \/ LoadCroak
  PROVE  /\ UNCHANGED <<heap, quirks>>
         /\ LoadCroak => croaked'
         /\ LoadNextDocument \/ LoadFree => UNCHANGED croaked
  BY DEF LoadNextDocument, LoadFree, LoadCroak, NextDocument, FreeParser, Croak, Forget

LEMMA ValuesStep ==
  ASSUME OwnershipInv, OwnershipInv', PendingInv, Accounted, ValuesInv,
         [LoadNext]_<<vars, loadVars>>
  PROVE  ValuesInv' /\ (Regular' => Steady)
  <1>1. SUFFICES ASSUME quirks' = {}, ~croaked' PROVE ValuesSound' /\ Steady
    BY DEF ValuesInv, Regular
  <1>2. CASE Handles
    <2>1. quirks = {} /\ ~croaked
      BY <1>1, <1>2, HandlesFacts
    <2>2. ValuesSound
      BY <2>1 DEF ValuesInv, Regular
    <2>3. QED
      BY <1>1, <1>2, <2>2, HandlesStep
  <1>3. CASE LoadNextDocument \/ LoadFree
    <2>1. quirks = {} /\ ~croaked
      BY <1>1, <1>3, OtherFacts
    <2>2. ValuesSound
      BY <2>1 DEF ValuesInv, Regular
    <2>3. QED
      BY <1>3, <2>1, <2>2, TeardownStep
  <1>4. CASE LoadCroak
    BY <1>1, <1>4, OtherFacts
  <1>5. CASE UNCHANGED <<vars, loadVars>>
    <2>1. ValuesSound
      BY <1>1, <1>5 DEF ValuesInv, Regular, vars, loadVars
    <2>2. Steady
      BY <1>5 DEF Steady, vars, loadVars
    <2>3. UNCHANGED <<live, bad, anchorOf, anchors, badAnchors, stack, phase>>
          /\ UNCHANGED <<heap, content, body, returned, current>>
      BY <1>5 DEF vars, loadVars
    <2>4. Apart(Now)'
      BY <2>1, <2>3 DEF ValuesSound, Apart, Now
    <2>5. Tracked(Now)'
      BY <2>1, <2>3 DEF ValuesSound, Tracked, Now
    <2>6. LooseUnhandled' /\ NamesKnown' /\ BeingBuilt'
      BY <2>1, <2>3 DEF ValuesSound, LooseUnhandled, NamesKnown, BeingBuilt
    <2>7. StandInAbove' /\ WithinNode' /\ KindsSound'
      BY <2>1, <2>3 DEF ValuesSound, StandInAbove, WithinNode, KindsSound, Places, SolidIn
    <2>8. QED
      BY <2>1, <2>2, <2>4, <2>5, <2>6, <2>7 DEF ValuesSound
  <1>6. QED
    BY <1>2, <1>3, <1>4, <1>5, NextIs

LEMMA ValuesStart == LoadInit => ValuesInv
  <1> SUFFICES ASSUME LoadInit PROVE ValuesSound
    BY DEF ValuesInv
  <1>1. /\ heap = [syms |-> <<>>, boxes |-> <<>>, pending |-> [a \in Names |-> {}]]
        /\ stack = <<>> /\ live = {} /\ bad = {} /\ returned = 0
        /\ badAnchors = [a \in Names |-> NONE] /\ anchors = [a \in Names |-> NONE]
        /\ current = [a \in Names |-> 0]
    BY DEF LoadInit, Init
  <1>2. DOMAIN stack = {} /\ Places = {}
    <2>1. DOMAIN stack = {}
      BY <1>1, SeqFacts
    <2>2. QED
      BY <2>1 DEF Places
  <1>3. Len(heap.syms) = 0 /\ Len(heap.boxes) = 0 /\ \A x \in Names : heap.pending[x] = {}
    BY <1>1
  <1>4. Now.heap = heap /\ Now.content = content
    BY DEF Now
  <1>5. Apart(Now) /\ Tracked(Now)
    BY <1>1, <1>3, <1>4 DEF Apart, Tracked
  <1>6. DEFINING # NONE
    BY ConstantsAssumption
  <1>7. LooseUnhandled /\ StandInAbove /\ WithinNode /\ KindsSound /\ BeingBuilt /\ NamesKnown
    BY <1>1, <1>2, <1>6
       DEF LooseUnhandled, StandInAbove, WithinNode, KindsSound, BeingBuilt, NamesKnown
  <1>8. QED
    BY <1>5, <1>7 DEF ValuesSound

LoadInv == OwnershipInv /\ PendingInv /\ Accounted

LEMMA LoadInvariant == LoadSpec => []LoadInv
  <1>1. LoadSpec => []OwnershipInv /\ []Accounted
    BY LoadImplements, Ownership, NodesAccounted, PTL
  <1>2. OwnershipInv /\ PendingInv /\ [LoadNext]_<<vars, loadVars>> => PendingInv'
    BY PendingStep DEF OwnershipInv
  <1>3. LoadSpec => []PendingInv
    BY <1>1, <1>2, PendingStart, PTL DEF LoadSpec
  <1>4. QED
    BY <1>1, <1>3, PTL DEF LoadInv

(* What the handler has built is sound in every parse that meets none of   *)
(* the uses of anchors on which Load goes astray: nodes are told apart,    *)
(* and whatever stands in for a name, on the Perl side or in the parser,   *)
(* will be found when the anchor's node is complete.                       *)
THEOREM ValuesStaySound == LoadSpec => []ValuesInv
  <1>1. LoadInv /\ LoadInv' /\ ValuesInv /\ [LoadNext]_<<vars, loadVars>> => ValuesInv'
    BY ValuesStep DEF LoadInv
  <1>2. QED
    BY <1>1, LoadInvariant, ValuesStart, PTL DEF LoadSpec

(* A node is loaded once, however many aliases name it and whether or not  *)
(* one of them is inside it.                                               *)
THEOREM Shared == LoadSpec => []SharedNotCopied
  <1>1. LoadInit => SharedNotCopied
    <2> SUFFICES ASSUME LoadInit PROVE SharedNotCopied
      OBVIOUS
    <2>1. heap = [syms |-> <<>>, boxes |-> <<>>, pending |-> [a \in Names |-> {}]]
      BY DEF LoadInit
    <2>2. DOMAIN heap.boxes = {}
      BY <2>1
    <2>3. QED
      BY <2>2 DEF SharedNotCopied
  <1>2. PendingInv /\ ValuesSound => SharedNotCopied
    <2> SUFFICES ASSUME PendingInv, ValuesSound PROVE SharedNotCopied
      OBVIOUS
    <2>1. heap.boxes \in Seq(Box)
      BY NowFacts DEF PendingInv, HeapSound, HeapType
    <2>2. DOMAIN heap.boxes = 1..Len(heap.boxes)
      BY <2>1
    <2>3. Apart(Now) /\ Now.heap = heap
      BY DEF ValuesSound, Now
    <2>4. QED
      BY <2>2, <2>3 DEF Apart, SharedNotCopied
  <1>3. PendingInv' /\ ValuesSound' => SharedNotCopied'
    BY <1>2, PTL
  <1>4. /\ LoadInv /\ LoadInv' /\ ValuesInv /\ ValuesInv' /\ SharedNotCopied
        /\ [LoadNext]_<<vars, loadVars>>
        => SharedNotCopied'
    <2> SUFFICES ASSUME LoadInv, LoadInv', ValuesInv', SharedNotCopied,
                        [LoadNext]_<<vars, loadVars>>
                 PROVE  SharedNotCopied'
      OBVIOUS
    <2>1. CASE UNCHANGED <<heap, quirks>>
      BY <2>1 DEF SharedNotCopied
    <2>2. CASE Handles
      <3>1. SUFFICES ASSUME quirks' = {} PROVE SharedNotCopied'
        BY DEF SharedNotCopied
      <3>2. ~croaked'
        BY <2>2, HandlesFacts DEF LoadInv, OwnershipInv, PhaseSound
      <3>3. ValuesSound'
        BY <3>1, <3>2 DEF ValuesInv, Regular
      <3>4. QED
        BY <1>3, <3>3 DEF LoadInv
    <2>3. QED
      BY <2>1, <2>2, NextIs, OtherFacts DEF vars, loadVars
  <1>5. QED
    BY <1>1, <1>4, LoadInvariant, ValuesStaySound, PTL DEF LoadSpec

(* A document that Load has returned stays as it is while later ones load. *)
THEOREM Independent == LoadSpec => DocumentsIndependent
  <1>1. LoadInv /\ LoadInv' /\ ValuesInv /\ [LoadNext]_<<vars, loadVars>>
        => (quirks' = {} => Steady)
    <2> SUFFICES ASSUME LoadInv, LoadInv', ValuesInv, [LoadNext]_<<vars, loadVars>>, quirks' = {}
                 PROVE  Steady
      OBVIOUS
    <2>1. CASE UNCHANGED heap
      BY <2>1 DEF Steady
    <2>2. CASE Handles
      <3>1. ~croaked'
        BY <2>2, HandlesFacts DEF LoadInv, OwnershipInv, PhaseSound
      <3>2. QED
        BY <3>1, ValuesStep DEF LoadInv, Regular
    <2>3. QED
      BY <2>1, <2>2, NextIs, OtherFacts DEF vars, loadVars
  <1>2. LoadSpec => [][quirks' = {} => Steady]_<<vars, loadVars>>
    BY <1>1, LoadInvariant, ValuesStaySound, PTL DEF LoadSpec
  <1>3. QED
    BY <1>2 DEF DocumentsIndependent, Steady
=============================================================================
