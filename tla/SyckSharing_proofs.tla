------------------------- MODULE SyckSharing_proofs -------------------------
(***************************************************************************)
(* Proofs about the two traversals of Dump taken together, for every graph *)
(* of values: what is shared is written once and named, every name is      *)
(* used, and no cycle is ever entered.  An arc is a place a value is       *)
(* reached from, a cell of another value or the argument of Dump itself;   *)
(* the mark phase names a value at its second arc, and so the emit phase,  *)
(* which walks the same arcs in its own order, meets no value again whose  *)
(* name it has not written.  The last parts follow the depth of the two    *)
(* traversals, and what a call refuses.                                    *)
(***************************************************************************)
EXTENDS SyckDump_proofs

-----------------------------------------------------------------------------
(* The arcs walked so far by a traversal that entered the values in V and  *)
(* has the frames fr: all cells of a value it left, those before the next  *)
(* of a value it is in.                                                    *)

RootArc == <<NONE, 1>>
Arcs(V, fr) ==
  {a \in V \X Nat : /\ a[2] \in 1..Len(kids[a[1]])
                    /\ \A l \in 1..Len(fr) : fr[l].obj = a[1] => a[2] < fr[l].next}
    \cup (IF V = {} THEN {} ELSE {RootArc})
End(order, a) == IF a[1] = NONE THEN root ELSE order[a[1]][a[2]]
Due == IF Starting THEN RootArc ELSE <<Top.obj, Top.next>>

(* Every frame is of another value, one that was entered.                  *)
Walk(V, fr) ==
  /\ \A l \in 1..Len(fr) : fr[l].obj \in V
  /\ \A l, m \in 1..Len(fr) : fr[l].obj = fr[m].obj => l = m

(* The order of the emit phase, and what an arc is called in the other.    *)
EmitOrder == [o \in Objs |-> IF SortKeys /\ o \in shuffled THEN Reverse(kids[o]) ELSE kids[o]]
Flip(a) ==
  IF a[1] # NONE /\ SortKeys /\ a[1] \in shuffled THEN <<a[1], Len(kids[a[1]]) + 1 - a[2]>> ELSE a

-----------------------------------------------------------------------------
(* The mark phase: what its arcs say of the names.                         *)

Marking == IF phase = "mark" THEN frames ELSE <<>>
Closed(S) == \A o \in S : \A i \in 1..Len(kids[o]) : kids[o][i] \in S
MarkedOnce ==
  /\ Walk(Marked, Marking)
  /\ \A a \in Arcs(Marked, Marking) : End(kids, a) \in Marked
  /\ \A o \in Marked : \E a \in Arcs(Marked, Marking) : End(kids, a) = o
  /\ \A a, b \in Arcs(Marked, Marking) :
       a # b /\ End(kids, a) = End(kids, b) => Named(markers[End(kids, a)])
NamedTwice ==
  /\ \A n \in DOMAIN anchors : \E o \in Marked :
       /\ markers[o] = anchors[n]
       /\ \E a, b \in Arcs(Marked, Marking) : a # b /\ End(kids, a) = o /\ End(kids, b) = o
  /\ \A n, m \in DOMAIN anchors : anchors[n] = anchors[m] => n = m
MarkedNeeded == \A S \in SUBSET Objs : root \in S /\ Closed(S) => Marked \subseteq S
MarkInv ==
  /\ phase = "mark" /\ frames = <<>> => Marked = {}
  /\ phase \in {"emit", "done"} => Marked # {}
  /\ MarkedOnce /\ NamedTwice /\ MarkedNeeded

-----------------------------------------------------------------------------
(* The emit phase.  V are the values entered, those whose handler runs or  *)
(* ran; of the regular expressions none is.                                *)

IsValue(e) == e.what \in {"open", "leaf"}
Once(s, S) ==
  /\ s \in Seq(EventType)
  /\ \A i \in 1..Len(s) : IsValue(s[i]) => s[i].obj \in S \cup Regexps
  /\ \A i, j \in 1..Len(s) :
       IsValue(s[i]) /\ IsValue(s[j]) /\ s[i].obj = s[j].obj /\ i # j => s[i].obj \in Regexps
Aliased(s, o) == \E i \in 1..Len(s) : s[i].what = "alias" /\ s[i].obj = o

Entries(V) ==
  /\ V \subseteq Marked
  /\ phase = "emit" /\ frames = <<>> => V = {}
  /\ phase = "done" => frames = <<>> /\ V # {}
  /\ Walk(V, frames)
  /\ \A a \in Arcs(V, frames) : End(EmitOrder, a) \in V \cup Regexps
  /\ \A o \in V : \E a \in Arcs(V, frames) : End(EmitOrder, a) = o
NamesWritten(V) ==
  /\ \A o \in V : NameOf(o) \in anchored \cup {0}
  /\ \A n \in anchored : \E o \in V : NameOf(o) = n
AliasesWritten(V) ==
  \A a, b \in Arcs(V, frames) :
    a # b /\ End(EmitOrder, a) = End(EmitOrder, b) /\ End(EmitOrder, a) \notin Regexps =>
      Aliased(out, End(EmitOrder, a))
EmitInv(V) == Entries(V) /\ NamesWritten(V) /\ Once(out, V) /\ AliasesWritten(V)

(* What a step enters: the child, unless its name is written, and with a   *)
(* reference to a scalar that is written in its place the scalar.          *)
Grown(V) ==
  IF Emitting /\ ~Written(Child)
    THEN V \cup {Child} \cup (IF Flattened(Child) THEN {Referent(Child)} ELSE {})
    ELSE V

SharingInv ==
  /\ phase # "croaked" => MarkInv
  /\ phase \in {"emit", "done"} => \E V \in SUBSET Objs : EmitInv(V)
  /\ phase \in {"mark", "croaked"} => SharingKept

-----------------------------------------------------------------------------
(* Lemmas about arcs.                                                      *)

LEMMA ArcIs ==
  ASSUME NEW V, V \subseteq Objs, NEW fr
  PROVE  /\ \A a \in Arcs(V, fr) : a = RootArc \/ a[1] \in V
         /\ RootArc \in Arcs(V, fr) <=> V # {}
         /\ \A p \in Objs : \A i : <<p, i>> # RootArc
         /\ \A p \in Objs : \A i : <<p, i>> \in Arcs(V, fr) <=>
              /\ p \in V /\ i \in Nat /\ i \in 1..Len(kids[p])
              /\ \A l \in 1..Len(fr) : fr[l].obj = p => i < fr[l].next
         /\ \A a \in Arcs(V, fr) : a # RootArc => a = <<a[1], a[2]>> /\ a[1] \in Objs
  <1>1. \A p \in Objs : p # NONE
    BY KindsFacts
  <1>2. \A p \in Objs : \A i : <<p, i>> # RootArc
    BY <1>1 DEF RootArc
  <1>3. \A i : <<NONE, i>> \notin V \X Nat
    BY <1>1
  <1>4. RootArc \in Arcs(V, fr) <=> V # {}
    BY <1>3 DEF Arcs, RootArc
  <1>5. \A a \in Arcs(V, fr) : a # RootArc => a \in V \X Nat
    BY DEF Arcs
  <1>6. \A p \in Objs : \A i : <<p, i>> \in Arcs(V, fr) <=>
              /\ p \in V /\ i \in Nat /\ i \in 1..Len(kids[p])
              /\ \A l \in 1..Len(fr) : fr[l].obj = p => i < fr[l].next
    BY <1>2 DEF Arcs
  <1>7. QED
    BY <1>2, <1>4, <1>5, <1>6

LEMMA ArcMember ==
  ASSUME NEW V, V \subseteq Objs, NEW fr, NEW p \in Objs, NEW i
  PROVE  <<p, i>> \in Arcs(V, fr) <=>
           /\ p \in V /\ i \in Nat /\ i \in 1..Len(kids[p])
           /\ \A l \in 1..Len(fr) : fr[l].obj = p => i < fr[l].next
BY ArcIs

LEMMA ArcShape ==
  ASSUME NEW V, V \subseteq Objs, NEW fr
  PROVE  /\ \A a \in Arcs(V, fr) : a = RootArc \/ (a[1] \in Objs /\ a = <<a[1], a[2]>>)
         /\ RootArc \in Arcs(V, fr) <=> V # {}
BY ArcIs

(* The arc that is due is not walked yet, and leads to the child.          *)
LEMMA DueFacts ==
  ASSUME RunSound, Visiting, NEW V, V \subseteq Objs, Walk(V, frames), Starting => V = {}
  PROVE  /\ Due \notin Arcs(V, frames)
         /\ phase = "mark" => End(kids, Due) = Child
         /\ phase = "emit" => End(EmitOrder, Due) = Child
         /\ ~Starting => /\ Top.obj \in V /\ Top.next \in 1..Len(kids[Top.obj])
                         /\ Due = <<Top.obj, Top.next>>
         /\ Starting => Due = RootArc
  <1>1. CASE Starting
    <2>1. Due = RootArc /\ V = {} /\ Child = root
      BY <1>1 DEF Due, Child
    <2>2. QED
      BY <1>1, <2>1, ArcIs DEF End, RootArc
  <1>2. CASE ~Starting
    <2>1. Level \in 1..Level /\ Top = frames[Level] /\ Top \in FrameType /\ Top.next > 0
      BY <1>2, LevelFacts DEF RunSound, FramesSound
    <2>2. Top.obj \in Objs /\ Top.next \in Nat /\ Top.obj \in V
      BY <2>1 DEF FrameType, Walk, Level
    <2>3. kids[Top.obj] \in Seq(Objs)
      BY <2>2 DEF RunSound, GraphSound
    <2>4. Top.next \in 1..Len(kids[Top.obj])
      BY <1>2, <2>1, <2>2, <2>3 DEF Visiting
    <2>5. Due = <<Top.obj, Top.next>>
      BY <1>2 DEF Due
    <2>6. Due \notin Arcs(V, frames)
      <3>1. SUFFICES ASSUME <<Top.obj, Top.next>> \in Arcs(V, frames) PROVE FALSE
        BY <2>5
      <3>2. \A l \in 1..Len(frames) : frames[l].obj = Top.obj => Top.next < frames[l].next
        BY <2>2, <3>1, ArcIs
      <3>3. Top.next < Top.next
        BY <2>1, <3>2 DEF Level
      <3>4. QED
        BY <2>2, <3>3
    <2>7. Top.obj # NONE
      BY <2>2, KindsFacts
    <2>8. End(kids, Due) = kids[Top.obj][Top.next]
          /\ End(EmitOrder, Due) = EmitOrder[Top.obj][Top.next]
      BY <2>5, <2>7 DEF End
    <2>9. QED
      BY <1>2, <2>2, <2>4, <2>5, <2>6, <2>8 DEF Child, KidsOf, EmitOrder
  <1>3. QED
    BY <1>1, <1>2

(* Stepping past the child.                                                *)
LEMMA AdvancedIs ==
  ASSUME RunSound, Visiting
  PROVE  /\ Len(Advanced) = Level /\ Level \in Nat
         /\ \A l \in 1..Level : Advanced[l].obj = frames[l].obj
         /\ \A l \in 1..Level : l # Level => Advanced[l].next = frames[l].next
         /\ ~Starting => /\ Level \in 1..Level /\ Top = frames[Level] /\ Top.next \in Nat
                         /\ Advanced[Level].next = Top.next + 1
  <1>1. Len(Advanced) = Level /\ Level \in Nat
        /\ \A l \in 1..Level : Advanced[l].obj = frames[l].obj
    BY ChildFacts, LevelFacts
  <1>2. CASE Starting
    BY <1>1, <1>2 DEF Starting, Level, Advanced
  <1>3. CASE ~Starting
    <2>1. Level \in 1..Level /\ Top = frames[Level] /\ Top \in FrameType
      BY <1>3, LevelFacts
    <2>2. Advanced = [frames EXCEPT ![Level].next = @ + 1] /\ frames \in Seq(FrameType)
      BY <1>3 DEF Advanced, RunSound, FramesSound
    <2>3. DOMAIN frames = 1..Level
      BY <2>2 DEF Level
    <2>4. Top.next \in Nat /\ DOMAIN Top = {"obj", "next", "tag"}
      BY <2>1 DEF FrameType
    <2>5. Advanced[Level] = [Top EXCEPT !.next = @ + 1]
      BY <2>1, <2>2, <2>3
    <2>6. QED
      BY <1>1, <2>1, <2>2, <2>3, <2>4, <2>5
  <1>4. QED
    BY <1>2, <1>3

(* Arcs are the same when the same pairs are among them.                   *)
LEMMA ArcsEqual ==
  ASSUME NEW V, V \subseteq Objs, NEW fr, NEW A,
         \A a \in A : a = RootArc \/ (a[1] \in Objs /\ a = <<a[1], a[2]>>),
         RootArc \in A <=> V # {},
         \A p \in Objs : \A i : <<p, i>> \in Arcs(V, fr) <=> <<p, i>> \in A
  PROVE  Arcs(V, fr) = A
  <1>1. ASSUME NEW a \in Arcs(V, fr) PROVE a \in A
    <2>1. CASE a = RootArc
      BY <1>1, <2>1, ArcIs
    <2>2. CASE a # RootArc
      <3>1. a = <<a[1], a[2]>> /\ a[1] \in Objs
        BY <1>1, <2>2, ArcIs
      <3>2. <<a[1], a[2]>> \in A
        BY <1>1, <3>1
      <3>3. QED
        BY <3>1, <3>2
    <2>3. QED
      BY <2>1, <2>2
  <1>2. ASSUME NEW a \in A PROVE a \in Arcs(V, fr)
    <2>1. CASE a = RootArc
      BY <1>2, <2>1, ArcIs
    <2>2. CASE a # RootArc
      <3>1. a = <<a[1], a[2]>> /\ a[1] \in Objs
        BY <1>2, <2>2
      <3>2. <<a[1], a[2]>> \in Arcs(V, fr)
        BY <1>2, <3>1
      <3>3. QED
        BY <3>1, <3>2
    <2>3. QED
      BY <2>1, <2>2
  <1>3. QED
    BY <1>1, <1>2

(* A traversal that meets a value again walks the arc that is due.         *)
LEMMA ArcsAdvance ==
  ASSUME RunSound, Visiting, ~Starting, NEW V, V \subseteq Objs, Walk(V, frames)
  PROVE  Arcs(V, Advanced) = Arcs(V, frames) \cup {Due} /\ Walk(V, Advanced)
  <1> DEFINE o == Top.obj
             n == Top.next
  <1>1. /\ o \in V /\ o \in Objs /\ n \in 1..Len(kids[o]) /\ Due = <<o, n>> /\ n \in Nat
    BY DueFacts, AdvancedIs
  <1>2. /\ Len(Advanced) = Level /\ Level \in Nat /\ Level \in 1..Level /\ Len(frames) = Level
        /\ \A l \in 1..Level : Advanced[l].obj = frames[l].obj
        /\ \A l \in 1..Level : l # Level => Advanced[l].next = frames[l].next
        /\ frames[Level].obj = o /\ frames[Level].next = n /\ Advanced[Level].next = n + 1
    BY AdvancedIs DEF Level
  <1>3. \A l \in 1..Level : frames[l].obj = o => l = Level
    BY <1>2 DEF Walk
  <1>4. \A l \in 1..Level : frames[l].obj \in V
    BY <1>2 DEF Walk
  <1>5. Walk(V, Advanced)
    BY <1>2 DEF Walk
  <1> HIDE DEF o, n
  <1>6. ASSUME NEW p \in Objs, NEW i
        PROVE  <<p, i>> \in Arcs(V, Advanced) <=> <<p, i>> \in Arcs(V, frames) \cup {Due}
    <2>1. <<p, i>> \in Arcs(V, frames) <=>
            /\ p \in V /\ i \in Nat /\ i \in 1..Len(kids[p])
            /\ \A l \in 1..Level : frames[l].obj = p => i < frames[l].next
      BY <1>2, ArcIs
    <2>2. <<p, i>> \in Arcs(V, Advanced) <=>
            /\ p \in V /\ i \in Nat /\ i \in 1..Len(kids[p])
            /\ \A l \in 1..Level : frames[l].obj = p => i < Advanced[l].next
      <3>1. <<p, i>> \in Arcs(V, Advanced) <=>
            /\ p \in V /\ i \in Nat /\ i \in 1..Len(kids[p])
            /\ \A l \in 1..Len(Advanced) : Advanced[l].obj = p => i < Advanced[l].next
        BY ArcMember
      <3>2. QED
        BY <1>2, <3>1
    <2>3. <<p, i>> = Due <=> p = o /\ i = n
      BY <1>1
    <2>4. CASE p = o
      <3>1. (\A l \in 1..Level : frames[l].obj = p => i < Advanced[l].next) <=> i < n + 1
        BY <1>2, <1>3, <2>4
      <3>2. (\A l \in 1..Level : frames[l].obj = p => i < frames[l].next) <=> i < n
        BY <1>2, <1>3, <2>4
      <3>3. i \in Nat => (i < n + 1 <=> i < n \/ i = n)
        BY <1>1
      <3>4. QED
        BY <1>1, <2>1, <2>2, <2>3, <2>4, <3>1, <3>2, <3>3
    <2>5. CASE p # o
      BY <1>2, <2>1, <2>2, <2>3, <2>5
    <2>6. QED
      BY <2>4, <2>5
  <1>7. /\ \A a \in Arcs(V, frames) \cup {Due} : a = RootArc \/ (a[1] \in Objs /\ a = <<a[1], a[2]>>)
        /\ RootArc \in Arcs(V, frames) \cup {Due} <=> V # {}
    <2>1. Due # RootArc
      BY <1>1, ArcIs
    <2>2. V # {} /\ Due[1] \in Objs /\ Due = <<Due[1], Due[2]>>
      BY <1>1
    <2>3. QED
      BY <2>1, <2>2, ArcShape
  <1>8. Arcs(V, Advanced) = Arcs(V, frames) \cup {Due}
    BY <1>6, <1>7, ArcsEqual
  <1>9. QED
    BY <1>5, <1>8

(* A value that is entered has its own arcs still to walk.                 *)
CellArcs(c) == {a \in {c} \X Nat : a[2] \in 1..Len(kids[c])}

LEMMA ArcsNew ==
  ASSUME RunSound, Visiting, NEW V, V \subseteq Objs, Walk(V, frames),
         Starting => V = {}, Child \notin V
  PROVE  Arcs(V \cup {Child}, Advanced) = Arcs(V, frames) \cup {Due} \cup CellArcs(Child)
         /\ Walk(V \cup {Child}, Advanced)
  <1> DEFINE W == V \cup {Child}
             A == Arcs(V, frames) \cup {Due} \cup CellArcs(Child)
  <1>1. Child \in Objs /\ W \subseteq Objs
    BY ChildFacts
  <1>2. Walk(W, Advanced)
    BY AdvancedIs DEF Walk, Level
  <1>3. ASSUME NEW p \in Objs, NEW i
        PROVE  <<p, i>> \in Arcs(W, Advanced) <=> <<p, i>> \in A
    <2>1. <<p, i>> \in Arcs(W, Advanced) <=>
            /\ p \in W /\ i \in Nat /\ i \in 1..Len(kids[p])
            /\ \A l \in 1..Len(Advanced) : Advanced[l].obj = p => i < Advanced[l].next
      BY <1>1, ArcIs
    <2>2. <<p, i>> \in CellArcs(Child) <=> p = Child /\ i \in Nat /\ i \in 1..Len(kids[p])
      BY DEF CellArcs
    <2>3. CASE p = Child
      <3>1. \A l \in 1..Len(Advanced) : Advanced[l].obj # p
        BY <2>3, AdvancedIs DEF Walk, Level
      <3>2. QED
        <4>1. <<p, i>> \notin Arcs(V, frames)
          BY <2>3, ArcIs
        <4>2. <<p, i>> # Due
          BY <2>3, DueFacts, ArcIs
        <4>3. QED
          BY <2>1, <2>2, <2>3, <3>1, <4>1, <4>2
    <2>4. CASE p # Child /\ ~Starting
      <3>1. <<p, i>> \in Arcs(V, Advanced) <=>
            /\ p \in V /\ i \in Nat /\ i \in 1..Len(kids[p])
            /\ \A l \in 1..Len(Advanced) : Advanced[l].obj = p => i < Advanced[l].next
        BY ArcIs
      <3>2. Arcs(V, Advanced) = Arcs(V, frames) \cup {Due}
        BY <2>4, ArcsAdvance
      <3>3. QED
        BY <2>1, <2>2, <2>4, <3>1, <3>2
    <2>5. CASE p # Child /\ Starting
      BY <2>1, <2>2, <2>5, DueFacts, ArcIs
    <2>6. QED
      BY <2>3, <2>4, <2>5
  <1>4. /\ \A a \in A : a = RootArc \/ (a[1] \in Objs /\ a = <<a[1], a[2]>>)
        /\ RootArc \in A <=> W # {}
    <2>1. ASSUME NEW a \in A PROVE a = RootArc \/ (a[1] \in Objs /\ a = <<a[1], a[2]>>)
      <3>1. CASE a \in Arcs(V, frames)
        BY <3>1, ArcIs
      <3>2. CASE a = Due
        BY <3>2, DueFacts
      <3>3. CASE a \in CellArcs(Child)
        BY <1>1, <3>3 DEF CellArcs
      <3>4. QED
        BY <3>1, <3>2, <3>3
    <2>2. RootArc \in A
      BY ArcIs, DueFacts
    <2>3. QED
      BY <2>1, <2>2
  <1> HIDE DEF A, W
  <1>5. Arcs(W, Advanced) = A
    BY <1>1, <1>3, <1>4, ArcsEqual
  <1>6. QED
    BY <1>2, <1>5 DEF A, W

LEMMA ArcsEnter ==
  ASSUME RunSound, Visiting, NEW V, V \subseteq Objs, Walk(V, frames),
         Starting => V = {}, Child \notin V, NEW t \in {0, 1}
  PROVE  LET new == Append(Advanced, Frame(Child, t)) IN
         /\ Arcs(V \cup {Child}, new) = Arcs(V, frames) \cup {Due}
         /\ Walk(V \cup {Child}, new)
  <1> DEFINE W == V \cup {Child}
             new == Append(Advanced, Frame(Child, t))
             A == Arcs(V, frames) \cup {Due}
  <1>1. /\ Len(new) = Level + 1 /\ Level \in Nat /\ new[Level + 1].obj = Child
        /\ \A l \in 1..Level : new[l].obj = frames[l].obj
        /\ Len(Advanced) = Level
        /\ \A l \in 1..Level : Advanced[l].obj = frames[l].obj
    BY EnterFacts, AdvancedIs
  <1>2. new[Level + 1].next = 1 /\ \A l \in 1..Level : new[l].next = Advanced[l].next
    <2>1. Advanced \in Seq(FrameType) /\ Len(Advanced) = Level
      BY ChildFacts
    <2>2. Frame(Child, t) \in FrameType /\ Frame(Child, t).next = 1
      BY ChildFacts DEF Frame, FrameType
    <2>3. new[Level + 1] = Frame(Child, t) /\ \A l \in 1..Level : new[l] = Advanced[l]
      <3> HIDE DEF Level
      <3>1. QED
        BY <1>1, <2>1, <2>2, AppendProperties
    <2>4. QED
      BY <2>2, <2>3
  <1>3. Walk(W, new)
    <2>1. 1..Len(new) = 1..Level \cup {Level + 1}
      BY <1>1
    <2>2. \A l \in 1..Level : frames[l].obj \in V
      BY DEF Walk, Level
    <2>3. \A l, m \in 1..Level : frames[l].obj = frames[m].obj => l = m
      BY DEF Walk, Level
    <2> HIDE DEF new
    <2>4. QED
      BY <1>1, <2>1, <2>2, <2>3 DEF Walk
  <1>4. Child \in Objs /\ W \subseteq Objs
    BY ChildFacts
  <1> HIDE DEF new
  <1>5. ASSUME NEW p \in Objs, NEW i
        PROVE  <<p, i>> \in Arcs(W, new) <=> <<p, i>> \in A
    <2>1. <<p, i>> \in Arcs(W, new) <=>
            /\ p \in W /\ i \in Nat /\ i \in 1..Len(kids[p])
            /\ \A l \in 1..Len(new) : new[l].obj = p => i < new[l].next
      <3> HIDE DEF W
      <3>1. QED
        BY <1>4, ArcIs
    <2>2. 1..Len(new) = 1..Level \cup {Level + 1}
      BY <1>1
    <2>3. CASE p = Child
      <3>1. ~(\A l \in 1..Len(new) : new[l].obj = p => i < new[l].next) \/ i \notin 1..Len(kids[p])
        BY <1>1, <1>2, <2>2, <2>3
      <3>2. <<p, i>> \notin Arcs(V, frames)
        BY <2>3, ArcIs
      <3>3. <<p, i>> # Due
        BY <2>3, DueFacts, ArcIs
      <3>4. QED
        BY <2>1, <3>1, <3>2, <3>3
    <2>4. CASE p # Child
      <3>1. (\A l \in 1..Len(new) : new[l].obj = p => i < new[l].next) <=>
            (\A l \in 1..Level : Advanced[l].obj = p => i < Advanced[l].next)
        BY <1>1, <1>2, <2>2, <2>4
      <3>2. <<p, i>> \in Arcs(W, Advanced) <=>
            /\ p \in W /\ i \in Nat /\ i \in 1..Len(kids[p])
            /\ \A l \in 1..Level : Advanced[l].obj = p => i < Advanced[l].next
        <4>1. <<p, i>> \in Arcs(W, Advanced) <=>
              /\ p \in W /\ i \in Nat /\ i \in 1..Len(kids[p])
              /\ \A l \in 1..Len(Advanced) : Advanced[l].obj = p => i < Advanced[l].next
          <5> HIDE DEF W
          <5>1. QED
            BY <1>4, ArcIs
        <4>2. QED
          BY <1>1, <4>1
      <3>3. Arcs(W, Advanced) = A \cup CellArcs(Child)
        BY ArcsNew
      <3>4. <<p, i>> \notin CellArcs(Child)
        BY <2>4 DEF CellArcs
      <3>5. QED
        BY <2>1, <3>1, <3>2, <3>3, <3>4
    <2>5. QED
      BY <2>3, <2>4
  <1>6. /\ \A a \in A : a = RootArc \/ (a[1] \in Objs /\ a = <<a[1], a[2]>>)
        /\ RootArc \in A <=> W # {}
    <2>1. CASE Starting
      <3>1. Due = RootArc
        BY <2>1, DueFacts
      <3>2. QED
        BY <3>1, ArcShape
    <2>2. CASE ~Starting
      <3>1. Due = <<Due[1], Due[2]>> /\ Due[1] \in V /\ V # {}
        BY <2>2, DueFacts
      <3>2. QED
        BY <3>1, ArcShape
    <2>3. QED
      BY <2>1, <2>2
  <1> HIDE DEF A, W
  <1>7. Arcs(W, new) = A
    BY <1>4, <1>5, <1>6, ArcsEqual
  <1>8. QED
    BY <1>3, <1>7 DEF A, W, new

(* A return walks nothing.                                                 *)
LEMMA ArcsReturn ==
  ASSUME RunSound, ~Visiting, NEW V, V \subseteq Objs, Walk(V, frames)
  PROVE  Arcs(V, Returned) = Arcs(V, frames) /\ Walk(V, Returned)
  <1>1. /\ Level \in Nat \ {0} /\ Top = frames[Level] /\ Len(Returned) = Level - 1
        /\ \A l \in 1..(Level - 1) : Returned[l] = frames[l]
        /\ Len(frames) = Level
    BY ReturnFacts DEF Level
  <1>2. Walk(V, Returned)
    BY <1>1 DEF Walk
  <1>3. Top.next \in Nat /\ ~(Top.next <= Len(kids[Top.obj])) /\ kids[Top.obj] \in Seq(Objs)
    <2>1. frames[Level] \in FrameType
      BY <1>1, LevelFacts
    <2>2. QED
      BY <1>1, <2>1 DEF FrameType, Visiting, RunSound, GraphSound
  <1>4. Len(kids[Top.obj]) \in Nat
    BY <1>3
  <1>5. ASSUME NEW p \in Objs, NEW i
        PROVE  <<p, i>> \in Arcs(V, Returned) <=> <<p, i>> \in Arcs(V, frames)
    <2>1. <<p, i>> \in Arcs(V, frames) <=>
            /\ p \in V /\ i \in Nat /\ i \in 1..Len(kids[p])
            /\ \A l \in 1..Level : frames[l].obj = p => i < frames[l].next
      BY <1>1, ArcIs
    <2>2. <<p, i>> \in Arcs(V, Returned) <=>
            /\ p \in V /\ i \in Nat /\ i \in 1..Len(kids[p])
            /\ \A l \in 1..(Level - 1) : Returned[l].obj = p => i < Returned[l].next
      BY <1>1, ArcIs
    <2>3. 1..Level = 1..(Level - 1) \cup {Level}
      BY <1>1
    <2>4. p = Top.obj /\ i \in 1..Len(kids[p]) => i < Top.next
      BY <1>3, <1>4
    <2>5. QED
      BY <1>1, <2>1, <2>2, <2>3, <2>4
  <1>6. /\ \A a \in Arcs(V, frames) : a = RootArc \/ (a[1] \in Objs /\ a = <<a[1], a[2]>>)
        /\ RootArc \in Arcs(V, frames) <=> V # {}
    BY ArcIs
  <1>7. Arcs(V, Returned) = Arcs(V, frames)
    BY <1>5, <1>6, ArcsEqual
  <1>8. QED
    BY <1>2, <1>7

(* A value without cells has no arcs.                                      *)
LEMMA ArcsLeaf ==
  ASSUME NEW V, V \subseteq Objs, V # {}, NEW fr, NEW o \in Objs, kids[o] = <<>>
  PROVE  Arcs(V \cup {o}, fr) = Arcs(V, fr)
  <1>1. V \cup {o} \subseteq Objs /\ 1..Len(kids[o]) = {}
    OBVIOUS
  <1>2. \A p \in Objs : \A i : <<p, i>> \in Arcs(V \cup {o}, fr) <=> <<p, i>> \in Arcs(V, fr)
    <2> SUFFICES ASSUME NEW p \in Objs, NEW i
                 PROVE  <<p, i>> \in Arcs(V \cup {o}, fr) <=> <<p, i>> \in Arcs(V, fr)
      OBVIOUS
    <2>1. <<p, i>> \in Arcs(V, fr) <=>
           /\ p \in V /\ i \in Nat /\ i \in 1..Len(kids[p])
           /\ \A l \in 1..Len(fr) : fr[l].obj = p => i < fr[l].next
      BY ArcMember
    <2>2. <<p, i>> \in Arcs(V \cup {o}, fr) <=>
           /\ p \in V \cup {o} /\ i \in Nat /\ i \in 1..Len(kids[p])
           /\ \A l \in 1..Len(fr) : fr[l].obj = p => i < fr[l].next
      BY <1>1, ArcMember
    <2>3. QED
      BY <1>1, <2>1, <2>2
  <1>3. /\ \A a \in Arcs(V, fr) : a = RootArc \/ (a[1] \in Objs /\ a = <<a[1], a[2]>>)
        /\ RootArc \in Arcs(V, fr) <=> V \cup {o} # {}
    BY ArcIs
  <1>4. QED
    BY <1>1, <1>2, <1>3, ArcsEqual

-----------------------------------------------------------------------------
(* The mark phase keeps its invariant.                                     *)

LEMMA MarkInvInit == Init => MarkInv
  <1> SUFFICES ASSUME Init PROVE MarkInv
    OBVIOUS
  <1>1. /\ Marked = {} /\ Marking = <<>> /\ anchors = <<>> /\ phase = "mark"
    BY DEF Init, Marked, Marking
  <1>2. Arcs({}, <<>>) = {}
    BY DEF Arcs
  <1>3. MarkedOnce
    BY <1>1, <1>2 DEF MarkedOnce, Walk
  <1>4. NamedTwice
    BY <1>1 DEF NamedTwice
  <1>5. QED
    BY <1>1, <1>3, <1>4 DEF MarkInv, MarkedNeeded

LEMMA SameGraph ==
  ASSUME UNCHANGED graph
  PROVE  /\ \A a : End(kids, a)' = End(kids, a) /\ End(EmitOrder, a)' = End(EmitOrder, a)
         /\ \A S : Closed(S)' <=> Closed(S)
  BY DEF graph, End, Closed, EmitOrder, Reverse

(* What a step of the mark phase makes of the arcs.                        *)
LEMMA MarkWalks ==
  ASSUME RunSound, MarksSound, MarkInv, phase = "mark", phase' = "mark", ~Json, MarkAgain \/ MarkEnter
  PROVE  /\ Walk(Marked, Marking)' /\ UNCHANGED graph /\ Child \in Objs
         /\ Arcs(Marked, Marking)' = Arcs(Marked, Marking) \cup {Due}
         /\ Due \notin Arcs(Marked, Marking) /\ End(kids, Due) = Child
         /\ frames' # <<>> /\ Marked' = Marked \cup {Child}
         /\ Starting => Child = root
         /\ ~Starting => Top.obj \in Marked /\ Child = kids[Top.obj][Top.next]
                         /\ Top.next \in 1..Len(kids[Top.obj])
  <1>1. /\ Visiting /\ MarkNode(Child) /\ UNCHANGED graph /\ Child \in Objs
        /\ Marking = frames /\ Marking' = frames' /\ Walk(Marked, frames)
        /\ Starting => Marked = {}
        /\ Marked \subseteq Objs
    BY ChildFacts DEF MarkAgain, MarkEnter, MarkInv, MarkedOnce, Marking, Starting, Marked
  <1>2. /\ Due \notin Arcs(Marked, frames) /\ End(kids, Due) = Child
        /\ ~Starting => Top.obj \in Marked /\ Top.next \in 1..Len(kids[Top.obj])
                        /\ Due = <<Top.obj, Top.next>>
    BY <1>1, DueFacts
  <1>3. Starting => Child = root
    BY DEF Child
  <1>4. ~Starting => Child = kids[Top.obj][Top.next]
    BY DEF Child, KidsOf
  <1>5. CASE MarkAgain
    <2>1. Child \in Marked /\ frames' = Advanced /\ UNCHANGED markers
      BY <1>1, <1>5 DEF MarkAgain, TurnsBack, Marked, MarkNode
    <2>2. ~Starting
      BY <1>1, <2>1
    <2>3. Arcs(Marked, Advanced) = Arcs(Marked, frames) \cup {Due} /\ Walk(Marked, Advanced)
      BY <1>1, <2>2, ArcsAdvance
    <2>4. Marked' = Marked
      BY <2>1 DEF Marked
    <2>5. Arcs(Marked, Marking)' = Arcs(Marked, Advanced)
      BY <1>1, <2>1, <2>4 DEF Arcs, graph, RootArc
    <2>6. Walk(Marked, Marking)'
      BY <1>1, <2>1, <2>3, <2>4 DEF Walk
    <2>7. frames' # <<>>
      <3>1. Len(Advanced) > 0
        BY <1>1, <2>2, AdvancedIs
      <3>2. QED
        BY <2>1, <3>1
    <2>8. QED
      BY <1>1, <1>2, <1>3, <1>4, <2>1, <2>3, <2>4, <2>5, <2>6, <2>7
  <1>6. CASE MarkEnter
    <2>1. /\ frames' = Append(Advanced, Frame(Child, 0)) /\ markers[Child] = NONE
          /\ Child \notin Marked
      BY <1>1, <1>6 DEF MarkEnter, TurnsBack, Marked
    <2>2. /\ Arcs(Marked \cup {Child}, frames') = Arcs(Marked, frames) \cup {Due}
          /\ Walk(Marked \cup {Child}, frames')
      BY <1>1, <2>1, ArcsEnter
    <2>3. Marked' = Marked \cup {Child}
      <3>1. Cardinality(Marked) + 1 # NONE
        BY MarkedFinite, KindsFacts
      <3>2. \A o \in Objs : markers'[o] # NONE <=> markers[o] # NONE \/ o = Child
        BY <1>1, <2>1, <3>1 DEF MarkNode, MarksSound, NumbersType
      <3>3. QED
        BY <1>1, <3>2 DEF Marked
    <2>4. Arcs(Marked, Marking)' = Arcs(Marked \cup {Child}, frames')
      BY <1>1, <2>3 DEF Arcs, graph, RootArc
    <2>5. Walk(Marked, Marking)'
      BY <1>1, <2>2, <2>3 DEF Walk
    <2>6. frames' # <<>>
      BY <1>1, <2>1, EnterFacts, LevelFacts
    <2>7. QED
      BY <1>1, <1>2, <1>3, <1>4, <2>2, <2>3, <2>4, <2>5, <2>6
  <1>7. QED
    BY <1>5, <1>6

LEMMA MarkInvAgain ==
  ASSUME RunSound, MarksSound, MarkInv, ~Json, MarkAgain
  PROVE  MarkInv'
  <1> DEFINE W == Arcs(Marked, Marking)
  <1>1. /\ Walk(Marked, Marking)' /\ UNCHANGED graph /\ Child \in Objs
        /\ Arcs(Marked, Marking)' = W \cup {Due}
        /\ Due \notin W /\ End(kids, Due) = Child /\ frames' # <<>>
    BY MarkWalks DEF MarkAgain
  <1>2. /\ Child \in Marked /\ UNCHANGED markers /\ Marked' = Marked /\ phase' = "mark"
        /\ anchors' = IF Named(markers[Child]) THEN anchors ELSE Append(anchors, markers[Child])
        /\ anchors \in Seq(Nat) /\ markers[Child] \in Nat
    BY <1>1 DEF MarkAgain, TurnsBack, MarkNode, Marked, MarksSound, NumbersType
  <1>3. \A n : Named(n)' <=> Named(n) \/ n = markers[Child]
    BY <1>2 DEF Named
  <1>4. \A a : End(kids, a)' = End(kids, a)
    BY <1>1, SameGraph
  <1> HIDE DEF W
  <1>5. MarkedOnce'
    <2>1. \A a \in W \cup {Due} : End(kids, a) \in Marked
      BY <1>1, <1>2 DEF MarkInv, MarkedOnce, W
    <2>2. \A o \in Marked : \E a \in W \cup {Due} : End(kids, a) = o
      BY DEF MarkInv, MarkedOnce, W
    <2>3. ASSUME NEW a \in W \cup {Due}, NEW b \in W \cup {Due}, a # b,
                 End(kids, a) = End(kids, b)
          PROVE  Named(markers[End(kids, a)])'
      <3>1. CASE a \in W /\ b \in W
        BY <1>2, <1>3, <1>4, <2>3, <3>1 DEF MarkInv, MarkedOnce, W
      <3>2. CASE a = Due \/ b = Due
        BY <1>1, <1>2, <1>3, <1>4, <2>3, <3>2
      <3>3. QED
        BY <3>1, <3>2
    <2>4. QED
      BY <1>1, <1>2, <1>4, <2>1, <2>2, <2>3 DEF MarkedOnce
  <1>6. NamedTwice'
    <2>1. ASSUME NEW n \in DOMAIN anchors'
          PROVE  \E o \in Marked : /\ markers[o] = anchors'[n]
                   /\ \E a, b \in W \cup {Due} : a # b /\ End(kids, a) = o /\ End(kids, b) = o
      <3>1. CASE n \in DOMAIN anchors
        <4>1. anchors'[n] = anchors[n]
          BY <1>2, <3>1
        <4>2. PICK o \in Marked : /\ markers[o] = anchors[n]
                   /\ \E a, b \in W : a # b /\ End(kids, a) = o /\ End(kids, b) = o
          BY <3>1 DEF MarkInv, NamedTwice, W
        <4>3. QED
          BY <4>1, <4>2
      <3>2. CASE n \notin DOMAIN anchors
        <4>1. anchors'[n] = markers[Child]
          BY <1>2, <2>1, <3>2
        <4>2. PICK a \in W : End(kids, a) = Child
          BY <1>2 DEF MarkInv, MarkedOnce, W
        <4>3. QED
          BY <1>1, <1>2, <4>1, <4>2
      <3>3. QED
        BY <3>1, <3>2
    <2>2. \A n, m \in DOMAIN anchors' : anchors'[n] = anchors'[m] => n = m
      <3>1. CASE anchors' = anchors
        BY <3>1 DEF MarkInv, NamedTwice
      <3>2. CASE ~Named(markers[Child])
        <4>1. /\ DOMAIN anchors' = DOMAIN anchors \cup {Len(anchors) + 1}
              /\ anchors'[Len(anchors) + 1] = markers[Child]
              /\ \A n \in DOMAIN anchors : anchors'[n] = anchors[n]
          BY <1>2, <3>2
        <4>2. QED
          BY <3>2, <4>1 DEF MarkInv, NamedTwice, Named
      <3>3. QED
        BY <1>2, <3>1, <3>2
    <2>3. QED
      BY <1>1, <1>2, <1>4, <2>1, <2>2 DEF NamedTwice
  <1>7. MarkedNeeded'
    BY <1>1, <1>2, SameGraph DEF MarkInv, MarkedNeeded, graph
  <1>8. QED
    BY <1>1, <1>2, <1>5, <1>6, <1>7 DEF MarkInv

LEMMA MarkInvEnter ==
  ASSUME RunSound, MarksSound, MarkInv, ~Json, MarkEnter, phase' # "croaked"
  PROVE  MarkInv'
  <1> DEFINE W == Arcs(Marked, Marking)
  <1>1. phase = "mark" /\ phase' = "mark" /\ MarkNode(Child) /\ markers[Child] = NONE
        /\ Child \notin Marked
    BY DEF MarkEnter, TurnsBack, Marked
  <1>2. /\ Walk(Marked, Marking)' /\ UNCHANGED graph /\ Child \in Objs
        /\ Arcs(Marked, Marking)' = W \cup {Due}
        /\ Due \notin W /\ End(kids, Due) = Child /\ frames' # <<>>
        /\ Marked' = Marked \cup {Child}
        /\ Starting => Child = root
        /\ ~Starting => Top.obj \in Marked /\ Child = kids[Top.obj][Top.next]
                        /\ Top.next \in 1..Len(kids[Top.obj])
    BY <1>1, MarkWalks
  <1>3. UNCHANGED anchors /\ \A o \in Marked : markers'[o] = markers[o]
    BY <1>1, <1>2 DEF MarkNode, Marked, MarksSound, NumbersType
  <1>4. \A a : End(kids, a)' = End(kids, a)
    BY <1>2, SameGraph
  <1> HIDE DEF W
  <1>5. \A a \in W : End(kids, a) \in Marked
    BY DEF MarkInv, MarkedOnce, W
  <1>6. MarkedOnce'
    <2>1. \A a \in W \cup {Due} : End(kids, a) \in Marked'
      BY <1>2, <1>5
    <2>2. \A o \in Marked' : \E a \in W \cup {Due} : End(kids, a) = o
      BY <1>2 DEF MarkInv, MarkedOnce, W
    <2>3. ASSUME NEW a \in W \cup {Due}, NEW b \in W \cup {Due}, a # b,
                 End(kids, a) = End(kids, b)
          PROVE  Named(markers[End(kids, a)])'
      <3>1. a \in W /\ b \in W
        BY <1>1, <1>2, <1>5, <2>3
      <3>2. Named(markers[End(kids, a)]) /\ markers'[End(kids, a)] = markers[End(kids, a)]
        BY <1>3, <1>5, <2>3, <3>1 DEF MarkInv, MarkedOnce, W
      <3>3. QED
        BY <1>3, <1>4, <3>2 DEF Named
    <2>4. QED
      BY <1>2, <1>4, <2>1, <2>2, <2>3 DEF MarkedOnce
  <1>7. NamedTwice'
    <2>1. ASSUME NEW n \in DOMAIN anchors
          PROVE  \E o \in Marked' : /\ markers'[o] = anchors[n]
                   /\ \E a, b \in W \cup {Due} : a # b /\ End(kids, a) = o /\ End(kids, b) = o
      <3>1. PICK o \in Marked : /\ markers[o] = anchors[n]
                   /\ \E a, b \in W : a # b /\ End(kids, a) = o /\ End(kids, b) = o
        BY DEF MarkInv, NamedTwice, W
      <3>2. QED
        BY <1>2, <1>3, <3>1
    <2>2. QED
      BY <1>2, <1>3, <1>4, <2>1 DEF MarkInv, NamedTwice
  <1>8. MarkedNeeded'
    <2>1. ASSUME NEW S \in SUBSET Objs, root \in S, Closed(S)
          PROVE  Marked \cup {Child} \subseteq S
      <3>1. Marked \subseteq S
        BY <2>1 DEF MarkInv, MarkedNeeded
      <3>2. Child \in S
        BY <1>2, <2>1, <3>1 DEF Closed
      <3>3. QED
        BY <3>1, <3>2
    <2>2. QED
      BY <1>2, <2>1, SameGraph DEF MarkedNeeded, graph
  <1>9. QED
    BY <1>1, <1>2, <1>6, <1>7, <1>8 DEF MarkInv

(* Nothing of it changes when no value is marked.                          *)
LEMMA MarkInvSame ==
  ASSUME MarkInv, UNCHANGED <<graph, markers, anchors>>,
         Arcs(Marked, Marking') = Arcs(Marked, Marking), Walk(Marked, Marking'),
         phase' = "mark" => frames' # <<>>,
         phase' \in {"emit", "done"} => Marked # {}
  PROVE  MarkInv'
  <1>1. Marked' = Marked
    BY DEF Marked
  <1>2. Arcs(Marked, Marking)' = Arcs(Marked, Marking)
    <2>1. Arcs(Marked, Marking)' = Arcs(Marked, Marking')
      BY <1>1 DEF Arcs, graph, RootArc
    <2>2. QED
      BY <2>1
  <1>3. Walk(Marked, Marking)'
    BY <1>1 DEF Walk
  <1>4. (\A n : Named(n)' <=> Named(n)) /\ \A a : End(kids, a)' = End(kids, a)
    BY SameGraph DEF Named
  <1>5. MarkedOnce'
    BY <1>1, <1>2, <1>3, <1>4 DEF MarkInv, MarkedOnce
  <1>6. NamedTwice'
    BY <1>1, <1>2, <1>4 DEF MarkInv, NamedTwice
  <1>7. MarkedNeeded'
    BY <1>1, SameGraph DEF MarkInv, MarkedNeeded, graph
  <1>8. QED
    BY <1>1, <1>5, <1>6, <1>7 DEF MarkInv

LEMMA MarkInvStep ==
  ASSUME RunSound, MarksSound, phase # "croaked" => MarkInv, ~Json, [Next]_vars
  PROVE  phase' # "croaked" => MarkInv'
  <1> SUFFICES ASSUME phase' # "croaked" PROVE MarkInv'
    OBVIOUS
  <1>1. CASE MarkAgain
    BY <1>1, MarkInvAgain DEF MarkAgain
  <1>2. CASE MarkEnter
    BY <1>2, MarkInvEnter DEF MarkEnter
  <1>3. CASE MarkLeave
    <2>1. /\ phase = "mark" /\ ~Visiting /\ frames' = Returned /\ MarkInv
          /\ phase' = IF Level = 1 THEN "emit" ELSE "mark"
          /\ UNCHANGED <<graph, markers, anchors>> /\ Marking = frames
      BY <1>3 DEF MarkLeave, Marking
    <2>2. Level \in Nat \ {0} /\ Len(Returned) = Level - 1 /\ Returned \in Seq(FrameType)
      BY <2>1, ReturnFacts
    <2>3. Marking' = Returned
      <3>1. CASE Level = 1
        <4>1. Returned = <<>>
          BY <2>2, <3>1
        <4>2. QED
          BY <2>1, <3>1, <4>1 DEF Marking
      <3>2. CASE Level # 1
        BY <2>1, <3>2 DEF Marking
      <3>3. QED
        BY <3>1, <3>2
    <2>4. Marked \subseteq Objs /\ Walk(Marked, frames)
      BY <2>1 DEF MarkInv, MarkedOnce, Marked
    <2>5. Arcs(Marked, Returned) = Arcs(Marked, frames) /\ Walk(Marked, Returned)
      BY <2>1, <2>4, ArcsReturn
    <2>6. Marked # {}
      BY <2>2, <2>4 DEF Walk, Level
    <2>7. phase' = "mark" => frames' # <<>>
      BY <2>1, <2>2
    <2>8. QED
      BY <2>1, <2>3, <2>5, <2>6, <2>7, MarkInvSame
  <1>4. CASE \/ EmitAlias \/ EmitLeaf \/ EmitFlattened \/ EmitRegexp \/ EmitRef
             \/ EmitContainer \/ EmitLeave \/ EmitCroak
    <2>1. UNCHANGED <<graph, markers, anchors>> /\ phase = "emit" /\ phase' \in {"emit", "done"}
      BY <1>4 DEF EmitAlias, EmitLeaf, EmitFlattened, EmitRegexp, EmitRef, EmitContainer,
                  EmitLeave, EmitCroak, Emitting, names, Ends
    <2>2. Marking = <<>> /\ Marking' = <<>>
      BY <2>1 DEF Marking
    <2>3. QED
      BY <2>1, <2>2, MarkInvSame DEF MarkInv, MarkedOnce
  <1>5. CASE UNCHANGED vars
    <2>1. /\ UNCHANGED <<graph, markers, anchors>> /\ UNCHANGED <<phase, frames>>
          /\ Marking' = Marking
      BY <1>5 DEF vars, names, Marking
    <2>2. CASE phase = "mark" /\ frames = <<>>
      <3>1. Marked' = Marked /\ Arcs(Marked, Marking)' = Arcs(Marked, Marking)
        BY <2>1 DEF Marked, Arcs, graph, RootArc
      <3>2. (\A n : Named(n)' <=> Named(n)) /\ \A a : End(kids, a)' = End(kids, a)
        BY <2>1, SameGraph DEF Named
      <3>3. QED
        BY <2>1, <3>1, <3>2, SameGraph
         DEF MarkInv, MarkedOnce, NamedTwice, MarkedNeeded, Walk, graph
    <2>3. CASE ~(phase = "mark" /\ frames = <<>>)
      BY <2>1, <2>3, MarkInvSame DEF MarkInv, MarkedOnce
    <2>4. QED
      BY <2>2, <2>3
  <1>6. QED
    BY <1>1, <1>2, <1>3, <1>4, <1>5 DEF Next

-----------------------------------------------------------------------------
(* The emit phase walks the same arcs in its own order.                    *)

ScalarsBare == \A o \in Scalars : kids[o] = <<>>

LEMMA BareInit == Init => ScalarsBare
  <1> SUFFICES ASSUME Init, NEW o \in Scalars PROVE kids[o] = <<>>
    BY DEF ScalarsBare
  <1>1. PICK f \in [Refs -> Objs], g \in [Containers -> CellLists] :
          kids = [p \in Objs |-> IF p \in Refs THEN <<f[p]>>
                                 ELSE IF p \in Containers THEN g[p] ELSE <<>>]
    BY DEF Init, Graph
  <1>2. o \in Objs /\ o \notin Refs /\ o \notin Containers
    <2>1. o \in Objs /\ o \notin Refs
      BY KindsFacts DEF Objs
    <2>2. \A i \in {1, 2, 3}, j \in {5, 6} : Kinds[i] \cap Kinds[j] = {}
      BY DumpAssumption DEF Kinds
    <2>3. Scalars \cap Containers = {}
      BY <2>2 DEF Kinds, Scalars, Containers
    <2>4. QED
      BY <2>1, <2>3
  <1>3. QED
    BY <1>1, <1>2

LEMMA FlipFacts ==
  ASSUME RunSound, NEW V, V \subseteq Objs
  PROVE  \A a \in Arcs(V, <<>>) :
           /\ Flip(a) \in Arcs(V, <<>>) /\ Flip(Flip(a)) = a
           /\ End(kids, Flip(a)) = End(EmitOrder, a)
           /\ End(EmitOrder, Flip(a)) = End(kids, a)
  <1> SUFFICES ASSUME NEW a \in Arcs(V, <<>>)
               PROVE  /\ Flip(a) \in Arcs(V, <<>>) /\ Flip(Flip(a)) = a
                      /\ End(kids, Flip(a)) = End(EmitOrder, a)
                      /\ End(EmitOrder, Flip(a)) = End(kids, a)
    OBVIOUS
  <1>1. CASE a = RootArc
    BY <1>1 DEF Flip, RootArc, End
  <1>2. CASE a # RootArc
    <2> DEFINE o == a[1]
               i == a[2]
               k == Len(kids[o])
    <2>1. a = <<o, i>> /\ o \in Objs
      BY <1>2, ArcShape
    <2>2. o \in V /\ i \in Nat /\ i \in 1..k
      <3>1. <<o, i>> \in Arcs(V, <<>>)
        BY <2>1
      <3>2. QED
        BY <2>1, <3>1, ArcMember
    <2>3. kids[o] \in Seq(Objs) /\ k \in Nat /\ o # NONE
      BY <2>1, KindsFacts DEF RunSound, GraphSound
    <2> HIDE DEF o, i
    <2>4. CASE ~(SortKeys /\ o \in shuffled)
      <3>1. Flip(a) = a
        BY <2>1, <2>4 DEF Flip, o
      <3>2. EmitOrder[o] = kids[o]
        BY <2>1, <2>4 DEF EmitOrder
      <3>3. End(kids, a) = kids[o][i] /\ End(EmitOrder, a) = EmitOrder[o][i]
        BY <2>3 DEF End, o, i
      <3>4. QED
        BY <3>1, <3>2, <3>3
    <2>5. CASE SortKeys /\ o \in shuffled
      <3>1. Flip(<<o, i>>) = <<o, k + 1 - i>> /\ Flip(<<o, k + 1 - i>>) = <<o, k + 1 - (k + 1 - i)>>
        BY <2>3, <2>5 DEF Flip
      <3>2. k + 1 - i \in 1..k /\ k + 1 - i \in Nat /\ k + 1 - (k + 1 - i) = i
        BY <2>2, <2>3
      <3>3. <<o, k + 1 - i>> \in Arcs(V, <<>>)
        <4> DEFINE j == k + 1 - i
        <4>1. j \in Nat /\ j \in 1..Len(kids[o])
          BY <3>2
        <4> HIDE DEF j
        <4>2. <<o, j>> \in Arcs(V, <<>>)
          <5>1. \A l \in 1..Len(<<>>) : FALSE
            OBVIOUS
          <5>2. <<o, j>> \in Arcs(V, <<>>) <=>
                  /\ o \in V /\ j \in Nat /\ j \in 1..Len(kids[o])
                  /\ \A l \in 1..Len(<<>>) : <<>>[l].obj = o => j < <<>>[l].next
            BY <2>1, ArcMember
          <5>3. QED
            BY <2>2, <4>1, <5>1, <5>2
        <4>3. QED
          BY <4>2 DEF j
      <3>4. EmitOrder[o] = Reverse(kids[o])
        BY <2>1, <2>5 DEF EmitOrder
      <3>5. Reverse(kids[o])[i] = kids[o][k + 1 - i]
            /\ Reverse(kids[o])[k + 1 - i] = kids[o][k + 1 - (k + 1 - i)]
        BY <2>2, <2>3, <3>2 DEF Reverse
      <3>6. \A order, j : End(order, <<o, j>>) = order[o][j]
        BY <2>3 DEF End
      <3>7. QED
        BY <2>1, <3>1, <3>2, <3>3, <3>4, <3>5, <3>6
    <2>6. QED
      BY <2>4, <2>5
  <1>3. QED
    BY <1>1, <1>2

(* What the mark phase says, in the order of the emit phase.               *)
LEMMA MetAgain ==
  ASSUME RunSound, MarkInv, phase # "mark", NEW a \in Arcs(Marked, <<>>)
  PROVE  /\ End(EmitOrder, a) \in Marked
         /\ \A b \in Arcs(Marked, <<>>) :
              a # b /\ End(EmitOrder, a) = End(EmitOrder, b) => Named(markers[End(EmitOrder, a)])
  <1>1. Marked \subseteq Objs /\ Marking = <<>>
    BY DEF Marked, Marking
  <1>2. Flip(a) \in Arcs(Marked, <<>>) /\ End(kids, Flip(a)) = End(EmitOrder, a)
        /\ Flip(Flip(a)) = a
    BY <1>1, FlipFacts
  <1>3. ASSUME NEW b \in Arcs(Marked, <<>>), a # b, End(EmitOrder, a) = End(EmitOrder, b)
        PROVE  Named(markers[End(EmitOrder, a)])
    <2>1. Flip(b) \in Arcs(Marked, <<>>) /\ End(kids, Flip(b)) = End(EmitOrder, b)
          /\ Flip(Flip(b)) = b
      BY <1>1, FlipFacts
    <2>2. Flip(a) # Flip(b)
      BY <1>2, <1>3, <2>1
    <2>3. QED
      BY <1>1, <1>2, <1>3, <2>1, <2>2 DEF MarkInv, MarkedOnce
  <1>4. QED
    BY <1>1, <1>2, <1>3 DEF MarkInv, MarkedOnce

LEMMA MetTwice ==
  ASSUME RunSound, MarkInv, phase # "mark", NEW n \in DOMAIN anchors
  PROVE  \E o \in Marked : /\ markers[o] = anchors[n]
           /\ \E a, b \in Arcs(Marked, <<>>) :
                a # b /\ End(EmitOrder, a) = o /\ End(EmitOrder, b) = o
  <1>1. Marked \subseteq Objs /\ Marking = <<>>
    BY DEF Marked, Marking
  <1>2. PICK o \in Marked : /\ markers[o] = anchors[n]
           /\ \E a, b \in Arcs(Marked, <<>>) : a # b /\ End(kids, a) = o /\ End(kids, b) = o
    BY <1>1 DEF MarkInv, NamedTwice
  <1>3. PICK a \in Arcs(Marked, <<>>), b \in Arcs(Marked, <<>>) :
          a # b /\ End(kids, a) = o /\ End(kids, b) = o
    BY <1>2
  <1>4. /\ Flip(a) \in Arcs(Marked, <<>>) /\ End(EmitOrder, Flip(a)) = o
        /\ Flip(b) \in Arcs(Marked, <<>>) /\ End(EmitOrder, Flip(b)) = o
        /\ Flip(Flip(a)) = a /\ Flip(Flip(b)) = b
    BY <1>1, <1>3, FlipFacts
  <1>5. Flip(a) # Flip(b)
    BY <1>3, <1>4
  <1>6. QED
    BY <1>2, <1>4, <1>5

LEMMA ArcsWithin ==
  ASSUME NEW V, NEW U, V \subseteq U, U \subseteq Objs, NEW fr
  PROVE  Arcs(V, fr) \subseteq Arcs(U, <<>>)
  BY DEF Arcs

(* A value that is reached by another arc and whose name is not written    *)
(* was not entered.                                                        *)
LEMMA NotEntered ==
  ASSUME RunSound, MarksSound, MarkInv, phase = "emit", NEW V, EmitInv(V),
         NEW a \in Arcs(Marked, <<>>), a \notin Arcs(V, frames), ~Written(End(EmitOrder, a))
  PROVE  End(EmitOrder, a) \notin V
  <1> DEFINE c == End(EmitOrder, a)
  <1> SUFFICES ASSUME c \in V PROVE FALSE
    OBVIOUS
  <1>1. V \subseteq Marked /\ Marked \subseteq Objs
    BY DEF EmitInv, Entries, Marked
  <1>2. PICK b \in Arcs(V, frames) : End(EmitOrder, b) = c
    BY DEF EmitInv, Entries
  <1>3. b \in Arcs(Marked, <<>>) /\ a # b
    BY <1>1, ArcsWithin
  <1>4. Named(markers[c])
    BY <1>2, <1>3, MetAgain
  <1> HIDE DEF c
  <1>5. NameOf(c) # 0
    <2>1. NameOf(c) = CHOOSE i \in DOMAIN anchors : anchors[i] = markers[c]
      BY <1>1, <1>4 DEF NameOf, Marked
    <2>2. NameOf(c) \in DOMAIN anchors
      BY <1>4, <2>1 DEF Named
    <2>3. QED
      BY <2>2 DEF MarksSound, NumbersType
  <1>6. NameOf(c) \in anchored
    BY <1>5 DEF EmitInv, NamesWritten
  <1>7. QED
    BY <1>6 DEF Written, c

(* A value whose name is written was entered.                              *)
LEMMA WrittenEntered ==
  ASSUME RunSound, MarksSound, OutInv, ~Json, NEW V, EmitInv(V), NEW o \in Objs, Written(o)
  PROVE  o \in V
  <1>1. NameOf(o) \in anchored /\ NameOf(o) # 0
    BY DEF Written, OutInv
  <1>2. PICK p \in V : NameOf(p) = NameOf(o)
    BY <1>1 DEF EmitInv, NamesWritten
  <1>3. p \in Objs
    BY <1>2 DEF EmitInv, Entries, Marked
  <1>4. Stands(NameOf(o), o) /\ Stands(NameOf(o), p)
    BY <1>1, <1>2, <1>3, NameFacts DEF MarksSound
  <1>5. o = p
    BY <1>4 DEF Stands, MarksSound, NumbersOnce
  <1>6. QED
    BY <1>2, <1>5

-----------------------------------------------------------------------------
(* Writing.                                                                *)

LEMMA OnceAppend ==
  ASSUME NEW S, NEW s, Once(s, S), NEW e \in EventType
  PROVE  /\ ~IsValue(e) => Once(Append(s, e), S)
         /\ IsValue(e) /\ (e.obj \notin S \/ e.obj \in Regexps) =>
              Once(Append(s, e), S \cup {e.obj})
  <1> DEFINE t == Append(s, e)
             l == Len(s) + 1
  <1>1. s \in Seq(EventType)
    BY DEF Once
  <1>2. /\ t \in Seq(EventType) /\ \A i \in 1..Len(s) : t[i] = s[i]
        /\ t[l] = e /\ 1..Len(t) = 1..Len(s) \cup {l}
    BY <1>1, AppendFacts
  <1> HIDE DEF t, l
  <1>3. ~IsValue(e) => Once(t, S)
    BY <1>2 DEF Once
  <1>4. ASSUME IsValue(e), e.obj \notin S \/ e.obj \in Regexps
        PROVE  Once(t, S \cup {e.obj})
    <2>1. \A i \in 1..Len(s) : IsValue(s[i]) /\ s[i].obj = e.obj => e.obj \in Regexps
      BY <1>4 DEF Once
    <2>2. QED
      BY <1>2, <1>4, <2>1 DEF Once
  <1>5. QED
    BY <1>3, <1>4 DEF t

LEMMA OnceMore ==
  ASSUME NEW S, NEW s, Once(s, S), NEW T, S \subseteq T \cup Regexps
  PROVE  Once(s, T)
  BY DEF Once

LEMMA OnceAnchors ==
  ASSUME NumbersType, NEW o \in Objs, NEW S, NEW s, Once(s, S)
  PROVE  Once(s \o AnchorEvents(o), S)
  <1>1. s \in Seq(EventType)
    BY DEF Once
  <1>2. CASE NameOf(o) = 0
    <2>1. s \o AnchorEvents(o) = s
      BY <1>1, <1>2, ConcatEmptySeq DEF AnchorEvents
    <2>2. QED
      BY <2>1
  <1>3. CASE NameOf(o) # 0
    <2> DEFINE e == Event("anchor", o, NameOf(o), NONE)
    <2>1. e \in EventType /\ ~IsValue(e)
      BY EventFacts DEF Event, IsValue
    <2>2. s \o AnchorEvents(o) = Append(s, e)
      BY <1>1, <1>3, <2>1, AppendIsConcat DEF AnchorEvents
    <2> HIDE DEF e
    <2>3. QED
      BY <2>1, <2>2, OnceAppend
  <1>4. QED
    BY <1>2, <1>3

LEMMA AliasedConcat ==
  ASSUME NEW s \in Seq(EventType), NEW t \in Seq(EventType), NEW o, Aliased(s, o)
  PROVE  Aliased(s \o t, o)
  <1>1. PICK i \in 1..Len(s) : s[i].what = "alias" /\ s[i].obj = o
    BY DEF Aliased
  <1>2. /\ Len(s \o t) = Len(s) + Len(t) /\ Len(s) \in Nat /\ Len(t) \in Nat
        /\ \A j \in 1..Len(s) : (s \o t)[j] = s[j]
    BY ConcatProperties, LenProperties
  <1>3. i \in 1..Len(s \o t) /\ (s \o t)[i] = s[i]
    BY <1>1, <1>2
  <1>4. QED
    BY <1>1, <1>3 DEF Aliased

LEMMA AliasedHere ==
  ASSUME NumbersType, NEW s \in Seq(EventType), NEW o \in Objs
  PROVE  Aliased(Append(s, AliasEvent(o)), o)
  <1> DEFINE e == AliasEvent(o)
             t == Append(s, e)
  <1>1. e \in EventType /\ e.what = "alias" /\ e.obj = o
    BY EventFacts DEF AliasEvent, Event
  <1> HIDE DEF e
  <1>2. t[Len(s) + 1] = e /\ Len(s) + 1 \in 1..Len(t)
    BY <1>1, AppendFacts
  <1>3. Aliased(t, o)
    BY <1>1, <1>2 DEF Aliased
  <1>4. QED
    BY <1>3 DEF e

(* Writing a value and its anchor.                                         *)
LEMMA OnceValue ==
  ASSUME NumbersType, NEW o \in Objs, NEW S, NEW s, Once(s, S), NEW p \in Objs,
         NEW what \in {"leaf", "open"}, NEW class \in Objs \cup {NONE, BINARY},
         p \notin S \/ p \in Regexps
  PROVE  LET t == Append(AnchorEvents(o), Event(what, p, 0, class)) IN
         /\ Once(s \o t, S \cup {p}) /\ t \in Seq(EventType)
         /\ AnchorEvents(o) \o <<Event(what, p, 0, class)>> = t
  <1> DEFINE e == Event(what, p, 0, class)
  <1>1. /\ e \in EventType /\ IsValue(e) /\ e.obj = p
        /\ AnchorEvents(o) \in Seq(EventType) /\ s \in Seq(EventType)
    BY EventFacts DEF Once, Event, IsValue
  <1>2. Once(s \o AnchorEvents(o), S)
    BY OnceAnchors
  <1> HIDE DEF e
  <1>3. Once(Append(s \o AnchorEvents(o), e), S \cup {p})
    BY <1>1, <1>2, OnceAppend
  <1>4. /\ s \o Append(AnchorEvents(o), e) = Append(s \o AnchorEvents(o), e)
        /\ Append(AnchorEvents(o), e) \in Seq(EventType)
        /\ AnchorEvents(o) \o <<e>> = Append(AnchorEvents(o), e)
    BY <1>1, ConcatFacts, AppendProperties
  <1>5. QED
    BY <1>3, <1>4 DEF e

-----------------------------------------------------------------------------
(* The emit phase keeps its invariant: what a step that enters the values  *)
(* of X and walks the arcs of N has to see to.                             *)

LEMMA EmitGrows ==
  ASSUME RunSound, MarksSound, MarkInv, phase = "emit", phase' \in {"emit", "done"},
         NEW V, EmitInv(V), NEW X, V \subseteq X, X \subseteq Marked,
         UNCHANGED <<graph, markers, anchors>>,
         NEW N, Arcs(X, frames') = Arcs(V, frames) \cup N, Walk(X, frames'),
         phase' = "emit" /\ frames' = <<>> => X = {},
         phase' = "done" => frames' = <<>> /\ X # {},
         \A a \in N : End(EmitOrder, a) \in X \cup Regexps,
         X \ V \subseteq {End(EmitOrder, a) : a \in N},
         anchored' = anchored \cup ({NameOf(o) : o \in X \ V} \ {0}),
         Once(out', X),
         NEW events \in Seq(EventType), out' = out \o events,
         \A a \in N, b \in Arcs(V, frames) \cup N :
           a # b /\ End(EmitOrder, a) = End(EmitOrder, b) =>
             End(EmitOrder, a) \in Regexps \/ Aliased(out', End(EmitOrder, a))
  PROVE  EmitInv(X)'
  <1>1. Arcs(X, frames)' = Arcs(V, frames) \cup N
    BY DEF Arcs, graph, RootArc
  <1>2. \A a : End(EmitOrder, a)' = End(EmitOrder, a)
    BY SameGraph
  <1>3. \A o : NameOf(o)' = NameOf(o)
    BY DEF NameOf, Named
  <1>4. Entries(X)'
    <2>1. \A o \in X : \E a \in Arcs(V, frames) \cup N : End(EmitOrder, a) = o
      BY DEF EmitInv, Entries
    <2>2. \A a \in Arcs(V, frames) \cup N : End(EmitOrder, a) \in X \cup Regexps
      BY DEF EmitInv, Entries
    <2>3. QED
      BY <1>1, <1>2, <2>1, <2>2 DEF Entries, Walk, Marked
  <1>5. NamesWritten(X)'
    <2>1. \A o \in X : NameOf(o) \in anchored' \cup {0}
      BY DEF EmitInv, NamesWritten
    <2>2. \A n \in anchored' : \E o \in X : NameOf(o) = n
      BY DEF EmitInv, NamesWritten
    <2>3. QED
      BY <1>3, <2>1, <2>2 DEF NamesWritten
  <1>6. AliasesWritten(X)'
    <2>1. out \in Seq(EventType)
      BY DEF EmitInv, Once
    <2>2. \A c : Aliased(out, c) => Aliased(out', c)
      BY <2>1, AliasedConcat
    <2>3. ASSUME NEW a \in Arcs(V, frames) \cup N, NEW b \in Arcs(V, frames) \cup N, a # b,
                 End(EmitOrder, a) = End(EmitOrder, b), End(EmitOrder, a) \notin Regexps
          PROVE  Aliased(out', End(EmitOrder, a))
      <3>1. CASE a \in N \/ b \in N
        BY <2>3, <3>1
      <3>2. CASE a \notin N /\ b \notin N
        BY <2>2, <2>3, <3>2 DEF EmitInv, AliasesWritten
      <3>3. QED
        BY <3>1, <3>2
    <2>4. \A c : Aliased(out, c)' <=> Aliased(out', c)
      BY DEF Aliased
    <2>5. QED
      BY <1>1, <1>2, <2>3, <2>4 DEF AliasesWritten
  <1>7. Once(out, X)'
    BY DEF Once, IsValue
  <1>8. QED
    BY <1>4, <1>5, <1>6, <1>7 DEF EmitInv

(* What is known of the child when a step of the emit phase meets it.      *)
EmitState(V) ==
  /\ RunSound /\ MarksSound /\ OutInv /\ MarkInv /\ ScalarsBare /\ CellsSound
  /\ ~Json /\ phase = "emit" /\ EmitInv(V)

LEMMA EmitDue ==
  ASSUME NEW V, EmitState(V), Visiting
  PROVE  /\ Child \in Objs /\ V \subseteq Objs /\ V \subseteq Marked /\ Walk(V, frames)
         /\ Starting => V = {}
         /\ Due \notin Arcs(V, frames) /\ End(EmitOrder, Due) = Child
         /\ Due \in Arcs(Marked, <<>>) /\ Child \in Marked
         /\ Written(Child) => Child \in V /\ ~Starting
         /\ ~Written(Child) => Child \notin V
         /\ \A a \in Arcs(V, frames) : End(EmitOrder, a) \in V \cup Regexps
  <1> USE DEF EmitState
  <1>1. /\ Child \in Objs /\ V \subseteq Objs /\ V \subseteq Marked /\ Walk(V, frames)
        /\ Starting => V = {}
        /\ Marked # {} /\ Marked \subseteq Objs
    BY ChildFacts DEF EmitInv, Entries, Marked, Starting, MarkInv
  <1>2. /\ Due \notin Arcs(V, frames) /\ End(EmitOrder, Due) = Child
        /\ ~Starting => Top.obj \in V /\ Top.next \in 1..Len(kids[Top.obj])
                        /\ Due = <<Top.obj, Top.next>>
        /\ Starting => Due = RootArc
    BY <1>1, DueFacts
  <1>3. Due \in Arcs(Marked, <<>>)
    <2>1. CASE Starting
      BY <1>1, <1>2, <2>1, ArcShape
    <2>2. CASE ~Starting
      <3>1. \A l \in 1..Len(<<>>) : FALSE
        OBVIOUS
      <3>2. Top.next \in Nat
        BY <2>2, AdvancedIs
      <3>3. <<Top.obj, Top.next>> \in Arcs(Marked, <<>>) <=>
              /\ Top.obj \in Marked /\ Top.next \in Nat /\ Top.next \in 1..Len(kids[Top.obj])
              /\ \A l \in 1..Len(<<>>) : <<>>[l].obj = Top.obj => Top.next < <<>>[l].next
        BY <1>1, <1>2, <2>2, ArcMember
      <3>4. QED
        BY <1>1, <1>2, <2>2, <3>1, <3>2, <3>3
    <2>3. QED
      BY <2>1, <2>2
  <1>4. Child \in Marked
    BY <1>2, <1>3, MetAgain
  <1>5. ~Written(Child) => Child \notin V
    BY <1>2, <1>3, NotEntered
  <1>6. Written(Child) => Child \in V
    BY <1>1, WrittenEntered
  <1>7. QED
    BY <1>1, <1>2, <1>3, <1>4, <1>5, <1>6 DEF EmitInv, Entries

LEMMA AdvancedNotEmpty ==
  ASSUME RunSound, Visiting
  PROVE  Starting <=> Advanced = <<>>
  <1>1. Starting => Advanced = <<>>
    BY DEF Advanced, Starting
  <1>2. ~Starting => Len(Advanced) > 0
    BY AdvancedIs
  <1>3. QED
    BY <1>1, <1>2

LEMMA EmitInvAlias ==
  ASSUME NEW V, EmitState(V), EmitAlias
  PROVE  EmitInv(V)'
  <1>1. /\ Visiting /\ Written(Child) /\ out' = out \o <<AliasEvent(Child)>>
        /\ frames' = Advanced /\ UNCHANGED <<graph, markers, anchors, anchored, phase>>
        /\ NumbersType /\ out \in Seq(EventType) /\ Once(out, V)
    BY DEF EmitAlias, Emitting, Write, names, EmitState, MarksSound, EmitInv, Once
  <1>2. /\ Child \in V /\ Child \in Objs /\ ~Starting /\ V \subseteq Objs /\ V \subseteq Marked
        /\ Walk(V, frames) /\ Due \notin Arcs(V, frames) /\ End(EmitOrder, Due) = Child
    BY <1>1, EmitDue
  <1>3. Arcs(V, Advanced) = Arcs(V, frames) \cup {Due} /\ Walk(V, Advanced)
    BY <1>1, <1>2, ArcsAdvance DEF EmitState
  <1>4. AliasEvent(Child) \in EventType /\ ~IsValue(AliasEvent(Child))
    BY <1>1, <1>2, EventFacts DEF IsValue, AliasEvent, Event
  <1>5. out' = Append(out, AliasEvent(Child)) /\ <<AliasEvent(Child)>> \in Seq(EventType)
    BY <1>1, <1>4, AppendIsConcat
  <1>6. Once(out', V)
    BY <1>1, <1>4, <1>5, OnceAppend
  <1>7. Aliased(out', Child)
    BY <1>1, <1>2, <1>5, AliasedHere
  <1>8. frames' # <<>>
    BY <1>1, <1>2, AdvancedNotEmpty DEF EmitState
  <1>9. anchored' = anchored \cup ({NameOf(o) : o \in V \ V} \ {0})
    BY <1>1
  <1> DEFINE N == {Due}
  <1>10. /\ \A a \in N : End(EmitOrder, a) \in V \cup Regexps /\ Aliased(out', End(EmitOrder, a))
         /\ Arcs(V, frames') = Arcs(V, frames) \cup N
    BY <1>1, <1>2, <1>3, <1>7
  <1> HIDE DEF N
  <1>11. QED
    BY <1>1, <1>2, <1>3, <1>5, <1>6, <1>8, <1>9, <1>10, EmitGrows DEF EmitState

(* A value whose handler calls nothing: the cells it has, if any, are not  *)
(* walked but written in its place.                                        *)
LEMMA EmitInvLeaf ==
  ASSUME NEW V, EmitState(V), Visiting, ~Written(Child), NEW X, X = V \cup {Child},
         Stepped, UNCHANGED <<graph, markers, anchors>>, Ends, NowAnchored({Child}),
         \A a \in CellArcs(Child) : End(EmitOrder, a) \in Regexps,
         NEW p \in Objs, p = Child \/ p \in Regexps, NEW class \in Objs \cup {NONE, BINARY},
         Write(Append(AnchorEvents(Child), Event("leaf", p, 0, class)))
  PROVE  EmitInv(X)'
  <1> DEFINE N == {Due} \cup CellArcs(Child)
             events == Append(AnchorEvents(Child), Event("leaf", p, 0, class))
  <1>1. /\ Child \notin V /\ Child \in Objs /\ V \subseteq Objs /\ X \subseteq Marked
        /\ Starting => V = {}
        /\ Walk(V, frames) /\ Due \notin Arcs(V, frames) /\ End(EmitOrder, Due) = Child
        /\ \A a \in Arcs(V, frames) : End(EmitOrder, a) \in V \cup Regexps
        /\ NumbersType /\ Once(out, V)
    BY EmitDue DEF EmitState, EmitInv, MarksSound
  <1>2. Arcs(X, Advanced) = Arcs(V, frames) \cup N /\ Walk(X, Advanced)
    <2>1. Arcs(X, Advanced) = Arcs(V, frames) \cup {Due} \cup CellArcs(Child) /\ Walk(X, Advanced)
      BY <1>1, ArcsNew DEF EmitState
    <2>2. QED
      BY <2>1
  <1>3. Once(out \o events, V \cup {p}) /\ events \in Seq(EventType)
    <2>1. (p \notin V \/ p \in Regexps) /\ "leaf" \in {"leaf", "open"}
      BY <1>1
    <2>2. QED
      BY <1>1, <2>1, OnceValue
  <1>4. Once(out \o events, X)
    BY <1>3, OnceMore
  <1>5. out' = out \o events
    BY DEF Write
  <1>6. /\ phase' \in {"emit", "done"} /\ X # {}
        /\ phase' = "emit" => frames' # <<>>
        /\ phase' = "done" => frames' = <<>>
    BY AdvancedNotEmpty DEF Ends, EmitState, Stepped
  <1>7. anchored' = anchored \cup ({NameOf(o) : o \in X \ V} \ {0})
    <2>1. X \ V = {Child}
      BY <1>1
    <2>2. QED
      BY <2>1 DEF NowAnchored
  <1>8. \A a \in N : a = Due \/ End(EmitOrder, a) \in Regexps
    OBVIOUS
  <1>9. /\ \A a \in N : End(EmitOrder, a) \in X \cup Regexps
        /\ X \ V \subseteq {End(EmitOrder, a) : a \in N}
        /\ \A a \in N, b \in Arcs(V, frames) \cup N :
             a # b /\ End(EmitOrder, a) = End(EmitOrder, b) =>
               End(EmitOrder, a) \in Regexps \/ Aliased(out', End(EmitOrder, a))
    BY <1>1, <1>8
  <1>10. EmitInv(V) /\ RunSound /\ MarksSound /\ MarkInv /\ phase = "emit" /\ V \subseteq X
    BY DEF EmitState
  <1> HIDE DEF N, events
  <1>11. /\ Arcs(X, frames') = Arcs(V, frames) \cup N /\ Walk(X, frames') /\ Once(out', X)
         /\ phase' = "emit" /\ frames' = <<>> => X = {}
         /\ phase' = "done" => frames' = <<>> /\ X # {}
         /\ phase' \in {"emit", "done"} /\ X \subseteq Marked
         /\ events \in Seq(EventType)
    BY <1>1, <1>2, <1>3, <1>4, <1>5, <1>6 DEF Stepped
  <1>12. PICK written \in Seq(EventType) : out' = out \o written
    BY <1>5, <1>11
  <1>13. QED
    <2> USE <1>7, <1>9, <1>10, <1>11, <1>12
    <2>1. RunSound /\ MarksSound /\ MarkInv /\ phase = "emit" /\ phase' \in {"emit", "done"}
         /\ EmitInv(V) /\ V \subseteq X /\ X \subseteq Marked
      OBVIOUS
    <2>2. UNCHANGED <<graph, markers, anchors>>
      OBVIOUS
    <2>3. Arcs(X, frames') = Arcs(V, frames) \cup N /\ Walk(X, frames')
      OBVIOUS
    <2>4. (phase' = "emit" /\ frames' = <<>> => X = {}) /\ (phase' = "done" => frames' = <<>> /\ X # {})
      OBVIOUS
    <2>5. \A a \in N : End(EmitOrder, a) \in X \cup Regexps
      OBVIOUS
    <2>6. X \ V \subseteq {End(EmitOrder, a) : a \in N}
      OBVIOUS
    <2>7. anchored' = anchored \cup ({NameOf(o) : o \in X \ V} \ {0})
      OBVIOUS
    <2>8. Once(out', X)
      OBVIOUS
    <2>9. written \in Seq(EventType) /\ out' = out \o written
      OBVIOUS
    <2>10. \A a \in N, b \in Arcs(V, frames) \cup N :
           a # b /\ End(EmitOrder, a) = End(EmitOrder, b) =>
             End(EmitOrder, a) \in Regexps \/ Aliased(out', End(EmitOrder, a))
      OBVIOUS
    <2>11. QED
      BY ONLY <2>1, <2>2, <2>3, <2>4, <2>5, <2>6, <2>7, <2>8, <2>9, <2>10, EmitGrows

(* A value whose handler goes on to its cells.                             *)
LEMMA EmitInvEnter ==
  ASSUME NEW V, EmitState(V), Visiting, ~Written(Child), NEW X, X = V \cup {Child}, NEW t \in {0, 1}, Entered(t),
         phase' = "emit", UNCHANGED <<graph, markers, anchors>>, NowAnchored({Child}),
         NEW events \in Seq(EventType), out' = out \o events, Once(out', X)
  PROVE  EmitInv(X)'
  <1> DEFINE N == {Due}
  <1>1. /\ Child \notin V /\ Child \in Objs /\ V \subseteq Objs /\ X \subseteq Marked
        /\ Starting => V = {}
        /\ Walk(V, frames) /\ Due \notin Arcs(V, frames) /\ End(EmitOrder, Due) = Child
        /\ \A a \in Arcs(V, frames) : End(EmitOrder, a) \in V \cup Regexps
    BY EmitDue
  <1>2. Arcs(X, frames') = Arcs(V, frames) \cup N /\ Walk(X, frames')
    BY <1>1, ArcsEnter DEF EmitState, Entered
  <1>3. frames' # <<>>
    BY EnterFacts, LevelFacts DEF EmitState, Entered
  <1>4. anchored' = anchored \cup ({NameOf(o) : o \in X \ V} \ {0})
    <2>1. X \ V = {Child}
      BY <1>1
    <2>2. QED
      BY <2>1 DEF NowAnchored
  <1>5. /\ \A a \in N : End(EmitOrder, a) \in X \cup Regexps
        /\ X \ V \subseteq {End(EmitOrder, a) : a \in N}
        /\ \A a \in N, b \in Arcs(V, frames) \cup N :
             a # b /\ End(EmitOrder, a) = End(EmitOrder, b) =>
               End(EmitOrder, a) \in Regexps \/ Aliased(out', End(EmitOrder, a))
    BY <1>1
  <1>6. EmitInv(V) /\ RunSound /\ MarksSound /\ MarkInv /\ phase = "emit" /\ V \subseteq X
    BY DEF EmitState
  <1> HIDE DEF N
  <1>7. /\ Once(out', X) /\ X \subseteq Marked
        /\ phase' = "emit" /\ frames' = <<>> => X = {}
        /\ phase' = "done" => frames' = <<>> /\ X # {}
        /\ phase' \in {"emit", "done"}
    BY <1>1, <1>3 
  <1>8. QED
    BY <1>2, <1>4, <1>5, <1>6, <1>7, EmitGrows

LEMMA EmitInvLeave ==
  ASSUME NEW V, EmitState(V), EmitLeave
  PROVE  EmitInv(V)'
  <1> DEFINE close == Event("close", Top.obj, 0, NONE)
  <1>1. /\ ~Visiting /\ frames' = Returned /\ UNCHANGED <<graph, markers, anchors, anchored>>
        /\ phase' = IF Level = 1 THEN "done" ELSE "emit"
        /\ out' \in {out, out \o <<close>>}
        /\ V \subseteq Objs /\ V \subseteq Marked /\ Walk(V, frames)
        /\ EmitInv(V) /\ RunSound /\ MarksSound /\ MarkInv /\ phase = "emit"
        /\ out \in Seq(EventType) /\ NumbersType /\ Once(out, V)
    BY DEF EmitLeave, EmitState, EmitInv, Entries, Marked, names, Write, Once, MarksSound
  <1>2. /\ Level \in Nat \ {0} /\ Len(Returned) = Level - 1 /\ Top.obj \in Objs
        /\ Returned \in Seq(FrameType)
    BY <1>1, ReturnFacts
  <1>3. Arcs(V, Returned) = Arcs(V, frames) /\ Walk(V, Returned)
    BY <1>1, ArcsReturn
  <1>4. V # {}
    BY <1>1, <1>2 DEF Walk, Level
  <1>5. /\ phase' = "emit" => frames' # <<>>
        /\ phase' = "done" => frames' = <<>>
        /\ phase' \in {"emit", "done"}
    BY <1>1, <1>2
  <1>6. \E events \in Seq(EventType) : out' = out \o events /\ Once(out', V)
    <2>1. close \in EventType /\ ~IsValue(close)
      BY <1>1, <1>2, EventFacts DEF IsValue, Event
    <2> HIDE DEF close
    <2>2. out \o <<close>> = Append(out, close) /\ <<close>> \in Seq(EventType)
      BY <1>1, <2>1, AppendIsConcat
    <2>3. Once(Append(out, close), V)
      BY <1>1, <2>1, OnceAppend
    <2>4. out \o <<>> = out /\ <<>> \in Seq(EventType)
      BY <1>1, ConcatEmptySeq
    <2>5. QED
      BY <1>1, <2>2, <2>3, <2>4
  <1>7. PICK events \in Seq(EventType) : out' = out \o events /\ Once(out', V)
    BY <1>6
  <1> DEFINE N == {}
  <1>8. /\ Arcs(V, frames') = Arcs(V, frames) \cup N
        /\ \A a \in N : FALSE
        /\ anchored' = anchored \cup ({NameOf(o) : o \in V \ V} \ {0})
        /\ V \ V = {}
    BY <1>1, <1>3
  <1> HIDE DEF N
  <1>9. QED
    BY <1>1, <1>3, <1>4, <1>5, <1>7, <1>8, EmitGrows

LEMMA OnceOpen ==
  ASSUME NumbersType, NEW o \in Objs, NEW S, NEW s, Once(s, S), o \notin S,
         NEW class \in Objs \cup {NONE, BINARY}, NEW T, T = S \cup {o}
  PROVE  LET t == Append(AnchorEvents(o), Event("open", o, 0, class)) IN
         /\ Once(s \o t, T) /\ t \in Seq(EventType)
         /\ AnchorEvents(o) \o <<Event("open", o, 0, class)>> = t
BY OnceValue

(* The one arc of a reference.                                             *)
LEMMA RefArc ==
  ASSUME RunSound, NEW c \in Refs
  PROVE  /\ CellArcs(c) = {<<c, 1>>} /\ End(kids, <<c, 1>>) = Referent(c)
         /\ End(EmitOrder, <<c, 1>>) = Referent(c) /\ Referent(c) \in Objs
         /\ \A V : V \subseteq Objs /\ c \in V => <<c, 1>> \in Arcs(V, <<>>)
         /\ \A V, fr : V \subseteq Objs /\ c \notin V => <<c, 1>> \notin Arcs(V, fr)
  <1>1. c \in Objs /\ kids[c] \in Seq(Objs) /\ Len(kids[c]) = 1 /\ c # NONE
    BY KindsFacts DEF RunSound, GraphSound
  <1>2. CellArcs(c) = {<<c, 1>>}
    <2>1. \A i \in Nat : i \in 1..1 <=> i = 1
      OBVIOUS
    <2>2. QED
      BY <1>1, <2>1 DEF CellArcs
  <1>3. End(kids, <<c, 1>>) = Referent(c)
    BY <1>1 DEF End, Referent
  <1>4. End(EmitOrder, <<c, 1>>) = Referent(c)
    <2>1. Reverse(kids[c])[1] = kids[c][1]
      BY <1>1 DEF Reverse
    <2>2. EmitOrder[c][1] = kids[c][1]
      BY <1>1, <2>1 DEF EmitOrder
    <2>3. QED
      BY <1>1, <2>2 DEF End, Referent
  <1>5. ASSUME NEW V, V \subseteq Objs, c \in V PROVE <<c, 1>> \in Arcs(V, <<>>)
    <2>1. \A l \in 1..Len(<<>>) : FALSE
      OBVIOUS
    <2>2. <<c, 1>> \in Arcs(V, <<>>) <=>
            /\ c \in V /\ 1 \in Nat /\ 1 \in 1..Len(kids[c])
            /\ \A l \in 1..Len(<<>>) : <<>>[l].obj = c => 1 < <<>>[l].next
      BY <1>1, <1>5, ArcMember
    <2>3. 1 \in Nat /\ 1 \in 1..Len(kids[c])
      BY <1>1
    <2>4. QED
      BY <1>5, <2>1, <2>2, <2>3
  <1>6. ASSUME NEW V, NEW fr, V \subseteq Objs, c \notin V PROVE <<c, 1>> \notin Arcs(V, fr)
    BY <1>1, <1>6, ArcMember
  <1>7. QED
    BY <1>2, <1>3, <1>4, <1>5, <1>6, ReferentFacts

(* A reference to a blessed scalar is entered together with the scalar.    *)
LEMMA EmitInvFlattened ==
  ASSUME NEW V, EmitState(V), EmitFlattened,
         NEW X, X = V \cup {Child} \cup {Referent(Child)}
  PROVE  EmitInv(X)'
  <1> DEFINE o == Referent(Child)
             d == <<Child, 1>>
             N == {Due, d}
             first == out \o AnchorEvents(Child)
             class == LeafTag(o, o)
             leaf == Event("leaf", o, 0, class)
  <1>1. /\ Visiting /\ ~Written(Child) /\ Child \in Refs /\ o \in Leaves
        /\ UNCHANGED <<graph, markers, anchors>> /\ frames' = Advanced /\ Ends
        /\ anchored' = anchored \cup ({NameOf(p) : p \in {Child, o}} \ {0})
        /\ out' = out \o (AnchorEvents(Child)
                            \o IF Written(o) THEN <<AliasEvent(o)>>
                               ELSE Append(AnchorEvents(o), leaf))
    BY DEF EmitFlattened, Emitting, Flattened, IsObject, Write, NowAnchored
  <1>2. /\ RunSound /\ MarksSound /\ MarkInv /\ OutInv /\ ~Json /\ phase = "emit" /\ EmitInv(V)
        /\ NumbersType /\ Once(out, V) /\ ScalarsBare /\ NamesWritten(V)
    BY DEF EmitState, MarksSound, EmitInv
  <1>3. Child \in Objs /\ o \in Objs /\ Child # o /\ kids[o] = <<>> /\ o \notin Regexps
        /\ Child \notin Regexps
    <2>1. \A i, j \in {1, 2, 3, 4, 5, 6} : i # j => Kinds[i] \cap Kinds[j] = {}
      BY DumpAssumption DEF Kinds
    <2>2. Leaves \cap Refs = {} /\ Leaves \cap Regexps = {} /\ Regexps \cap Refs = {}
      BY <2>1 DEF Kinds
    <2>3. QED
      BY <1>1, <1>2, <2>2, KindsFacts DEF ScalarsBare, Scalars, Objs
  <1> HIDE DEF class
  <1>4. /\ Child \notin V /\ V \subseteq Objs /\ V \subseteq Marked /\ Child \in Marked
        /\ Starting => V = {}
        /\ Walk(V, frames) /\ Due \notin Arcs(V, frames) /\ End(EmitOrder, Due) = Child
        /\ \A a \in Arcs(V, frames) : End(EmitOrder, a) \in V \cup Regexps
    BY <1>1, EmitDue
  <1>5. /\ CellArcs(Child) = {d} /\ End(EmitOrder, d) = o
        /\ d \in Arcs(Marked, <<>>) /\ d \notin Arcs(V, frames)
    <2>1. Marked \subseteq Objs
      BY DEF Marked
    <2>2. QED
      BY <1>1, <1>2, <1>4, <2>1, RefArc
  <1>6. o \in Marked
    BY <1>2, <1>5, MetAgain
  <1>7. /\ Written(o) => o \in V
        /\ ~Written(o) => o \notin V
    <2>1. Written(o) => o \in V
      BY <1>2, <1>3, WrittenEntered
    <2>2. ~Written(o) => o \notin V
      BY <1>2, <1>5, NotEntered
    <2>3. QED
      BY <2>1, <2>2
  <1> HIDE DEF o, d
  <1>8. Arcs(X, Advanced) = Arcs(V, frames) \cup N /\ Walk(X, Advanced)
    <2> DEFINE W == V \cup {Child}
    <2>1. Arcs(W, Advanced) = Arcs(V, frames) \cup {Due} \cup {d} /\ Walk(W, Advanced)
      BY <1>1, <1>2, <1>4, <1>5, ArcsNew
    <2>2. W \subseteq Objs /\ W # {} /\ X = W \cup {o}
      BY <1>3, <1>4 DEF o
    <2> HIDE DEF W
    <2>3. Arcs(X, Advanced) = Arcs(W, Advanced)
      BY <1>3, <2>2, ArcsLeaf
    <2>4. Walk(X, Advanced)
      BY <2>1, <2>2 DEF Walk
    <2>5. QED
      BY <2>1, <2>3, <2>4
  <1>9. /\ out \in Seq(EventType) /\ first \in Seq(EventType) /\ Once(first, V)
        /\ AnchorEvents(Child) \in Seq(EventType) /\ AnchorEvents(o) \in Seq(EventType)
        /\ leaf \in EventType /\ AliasEvent(o) \in EventType /\ ~IsValue(AliasEvent(o))
        /\ class \in Objs \cup {NONE, BINARY}
    <2>0. class \in Objs \cup {NONE, BINARY}
      BY <1>3, LeafTagFacts DEF class
    <2>1. Once(first, V)
      BY <1>2, <1>3, OnceAnchors
    <2>2. ~IsValue(AliasEvent(o))
      BY DEF IsValue, AliasEvent, Event
    <2>3. QED
      BY <1>2, <1>3, <2>0, <2>1, <2>2, EventFacts DEF Once
  <1>10. anchored' = anchored \cup ({NameOf(p) : p \in X \ V} \ {0})
    <2>1. CASE o \in V
      <3>1. NameOf(o) \in anchored \cup {0} /\ X \ V = {Child}
        BY <1>2, <1>4, <2>1 DEF NamesWritten, o
      <3>2. QED
        BY <1>1, <3>1
    <2>2. CASE o \notin V
      <3>1. X \ V = {Child, o}
        BY <1>4, <2>2 DEF o
      <3>2. QED
        BY <1>1, <3>1
    <2>3. QED
      BY <2>1, <2>2
  <1>11. Written(o) => Once(out', X) /\ Aliased(out', o)
    <2> SUFFICES ASSUME Written(o) PROVE Once(out', X) /\ Aliased(out', o)
      OBVIOUS
    <2>1. out' = Append(first, AliasEvent(o))
      BY <1>1, <1>9, ConcatFacts
    <2> HIDE DEF first
    <2>2. Once(out', V)
      BY <1>9, <2>1, OnceAppend
    <2>3. Aliased(out', o)
      BY <1>2, <1>3, <1>9, <2>1, AliasedHere
    <2>4. V \subseteq X \cup Regexps
      OBVIOUS
    <2>5. QED
      BY <2>2, <2>3, <2>4, OnceMore
  <1>12. ~Written(o) => Once(out', X)
    <2> SUFFICES ASSUME ~Written(o) PROVE Once(out', X)
      OBVIOUS
    <2> DEFINE t == Append(AnchorEvents(o), leaf)
    <2>1. t \in Seq(EventType)
      BY <1>9, AppendProperties
    <2>2. out' = first \o t
      <3> DEFINE a == AnchorEvents(Child)
      <3>1. a \in Seq(EventType) /\ out' = out \o (a \o t) /\ first = out \o a
        BY <1>1, <1>9
      <3>2. out \in Seq(EventType) /\ t \in Seq(EventType)
        BY <1>9, <2>1
      <3> HIDE DEF a, t, first
      <3>3. \A q, r, u \in Seq(EventType) : (q \o r) \o u = q \o (r \o u)
        BY ConcatAssociative
      <3>4. (out \o a) \o t = out \o (a \o t)
        BY <3>1, <3>2, <3>3
      <3>5. QED
        BY <3>1, <3>4
    <2> HIDE DEF first
    <2>3. Once(first \o t, V \cup {o})
      BY <1>2, <1>3, <1>7, <1>9, OnceValue
    <2>4. V \cup {o} \subseteq X \cup Regexps
      BY DEF o
    <2>5. QED
      BY <2>2, <2>3, <2>4, OnceMore
  <1>13. PICK written \in Seq(EventType) : out' = out \o written
    <2> DEFINE t == IF Written(o) THEN <<AliasEvent(o)>> ELSE Append(AnchorEvents(o), leaf)
    <2>1. t \in Seq(EventType)
      BY <1>9, AppendProperties
    <2>2. out' = out \o (AnchorEvents(Child) \o t)
      BY <1>1
    <2> HIDE DEF t
    <2>3. AnchorEvents(Child) \o t \in Seq(EventType)
      BY <1>9, <2>1, ConcatProperties
    <2>4. QED
      BY <2>2, <2>3
  <1>14. \A a \in N : (a = Due /\ End(EmitOrder, a) = Child) \/ (a = d /\ End(EmitOrder, a) = o)
    BY <1>4, <1>5
  <1>15. /\ \A a \in N : End(EmitOrder, a) \in X \cup Regexps
         /\ X \ V \subseteq {End(EmitOrder, a) : a \in N}
    BY <1>4, <1>5, <1>14 DEF o
  <1>16. \A a \in N, b \in Arcs(V, frames) \cup N :
           a # b /\ End(EmitOrder, a) = End(EmitOrder, b) =>
             End(EmitOrder, a) \in Regexps \/ Aliased(out', End(EmitOrder, a))
    <2> SUFFICES ASSUME NEW a \in N, NEW b \in Arcs(V, frames) \cup N, a # b,
                        End(EmitOrder, a) = End(EmitOrder, b)
                 PROVE  End(EmitOrder, a) \in Regexps \/ Aliased(out', End(EmitOrder, a))
      OBVIOUS
    <2>1. b \in Arcs(V, frames) => End(EmitOrder, b) \in V \cup Regexps
      BY <1>4
    <2>2. b \in Arcs(V, frames)
      BY <1>3, <1>14
    <2>3. QED
      BY <1>3, <1>4, <1>7, <1>11, <1>14, <2>1, <2>2
  <1>17. /\ phase' \in {"emit", "done"} /\ X # {}
         /\ phase' = "emit" => frames' # <<>>
         /\ phase' = "done" => frames' = <<>>
    BY <1>1, <1>2, AdvancedNotEmpty DEF Ends
  <1> HIDE DEF N
  <1>18. QED
    <2>1. RunSound /\ MarksSound /\ MarkInv /\ phase = "emit" /\ phase' \in {"emit", "done"}
         /\ EmitInv(V) /\ V \subseteq X /\ X \subseteq Marked
      BY <1>2, <1>4, <1>6, <1>17 DEF o
    <2>2. UNCHANGED <<graph, markers, anchors>>
      BY <1>1
    <2>3. Arcs(X, frames') = Arcs(V, frames) \cup N /\ Walk(X, frames')
      BY <1>1, <1>8
    <2>4. (phase' = "emit" /\ frames' = <<>> => X = {}) /\ (phase' = "done" => frames' = <<>> /\ X # {})
      BY <1>17
    <2>5. \A a \in N : End(EmitOrder, a) \in X \cup Regexps
      BY <1>15
    <2>6. X \ V \subseteq {End(EmitOrder, a) : a \in N}
      BY <1>15
    <2>7. anchored' = anchored \cup ({NameOf(p) : p \in X \ V} \ {0})
      BY <1>10
    <2>8. Once(out', X)
      BY <1>11, <1>12
    <2>9. written \in Seq(EventType) /\ out' = out \o written
      BY <1>13
    <2>10. \A a \in N, b \in Arcs(V, frames) \cup N :
           a # b /\ End(EmitOrder, a) = End(EmitOrder, b) =>
             End(EmitOrder, a) \in Regexps \/ Aliased(out', End(EmitOrder, a))
      BY <1>16
    <2>11. QED
      BY ONLY <2>1, <2>2, <2>3, <2>4, <2>5, <2>6, <2>7, <2>8, <2>9, <2>10, EmitGrows

LEMMA EmitInvSame ==
  ASSUME NEW V, EmitInv(V), UNCHANGED vars
  PROVE  EmitInv(V)'
  <1>1. UNCHANGED <<kids, shuffled, root, phase, frames, markers, anchors, anchored, out>>
    BY DEF vars, graph, names
  <1>2. Arcs(V, frames)' = Arcs(V, frames) /\ \A a : End(EmitOrder, a)' = End(EmitOrder, a)
    BY <1>1, SameGraph DEF Arcs, RootArc, graph
  <1>3. (\A o : NameOf(o)' = NameOf(o)) /\ Marked' = Marked
    BY <1>1 DEF NameOf, Named, Marked
  <1>4. Entries(V)' /\ NamesWritten(V)'
    BY <1>1, <1>2, <1>3 DEF EmitInv, Entries, NamesWritten, Walk
  <1>5. Once(out, V)' /\ AliasesWritten(V)'
    BY <1>1, <1>2 DEF EmitInv, Once, IsValue, AliasesWritten, Aliased
  <1>6. QED
    BY <1>4, <1>5 DEF EmitInv

(* One step of the emit phase.                                             *)
LEMMA EmitInvNext ==
  ASSUME NEW V, EmitState(V), Next, phase' # "croaked", NEW X, X = Grown(V)
  PROVE  EmitInv(X)'
  <1>1. /\ RunSound /\ MarksSound /\ MarkInv /\ OutInv /\ ~Json /\ phase = "emit" /\ EmitInv(V)
        /\ NumbersType /\ Once(out, V) /\ ScalarsBare /\ V \subseteq Objs
        /\ tag \in Objs \cup {NONE}
    BY DEF EmitState, MarksSound, EmitInv, Entries, Marked, OutInv
  <1>2. \A i, j \in {1, 2, 3, 4, 5, 6} : i # j => Kinds[i] \cap Kinds[j] = {}
    BY DumpAssumption DEF Kinds
  <1>3. Refs \cap (Scalars \cup Containers) = {} /\ Leaves \cap Regexps = {}
    BY <1>2 DEF Kinds, Scalars, Containers
  <1>4. Visiting /\ ~Written(Child) /\ ~Flattened(Child) => X = V \cup {Child}
    BY <1>1 DEF Grown, Emitting
  <1>5. CASE EmitAlias
    <2>1. X = V
      BY <1>5 DEF EmitAlias, Grown
    <2>2. QED
      BY <1>5, <2>1, EmitInvAlias
  <1>6. CASE EmitLeaf
    <2> DEFINE class == LeafTag(Child, tag)
    <2>1. /\ Visiting /\ ~Written(Child) /\ Child \in Scalars /\ Stepped /\ Ends
          /\ UNCHANGED <<graph, markers, anchors>> /\ NowAnchored({Child})
          /\ Write(Append(AnchorEvents(Child), Event("leaf", Child, 0, class)))
      BY <1>6 DEF EmitLeaf, Emitting, Stepped
    <2>2. Child \in Objs /\ X = V \cup {Child}
      BY <1>1, <1>3, <1>4, <2>1, ChildFacts DEF Flattened, IsObject
    <2>3. CellArcs(Child) = {}
      BY <1>1, <2>1 DEF CellArcs, ScalarsBare
    <2>4. \A a \in CellArcs(Child) : End(EmitOrder, a) \in Regexps
      BY <2>3
    <2>5. class \in Objs \cup {NONE, BINARY}
      BY <1>1, LeafTagFacts DEF OutInv
    <2> HIDE DEF class
    <2>6. QED
      BY <1>1, <2>1, <2>2, <2>4, <2>5, EmitInvLeaf
  <1>7. CASE EmitFlattened
    <2>1. X = V \cup {Child} \cup {Referent(Child)}
      BY <1>7 DEF EmitFlattened, Grown
    <2>2. QED
      BY <1>7, <2>1, EmitInvFlattened
  <1>8. CASE EmitRegexp
    <2> DEFINE p == Referent(Child)
    <2>1. /\ Visiting /\ ~Written(Child) /\ Child \in Refs /\ p \in Regexps /\ Stepped /\ Ends
          /\ UNCHANGED <<graph, markers, anchors>> /\ NowAnchored({Child})
          /\ Write(Append(AnchorEvents(Child), Event("leaf", p, 0, p)))
      BY <1>8 DEF EmitRegexp, Emitting, Stepped, IsObject
    <2>2. Child \in Objs /\ X = V \cup {Child}
      BY <1>1, <1>3, <1>4, <2>1, ChildFacts DEF Flattened
    <2>3. \A a \in CellArcs(Child) : End(EmitOrder, a) \in Regexps
      <3>1. CellArcs(Child) = {<<Child, 1>>} /\ End(EmitOrder, <<Child, 1>>) = p
        BY <1>1, <2>1, RefArc
      <3>2. QED
        BY <2>1, <3>1
    <2>4. p \in Objs /\ p \in Objs \cup {NONE}
      BY <1>1, <2>1, ReferentFacts
    <2> HIDE DEF p
    <2>5. QED
      BY <1>1, <2>1, <2>2, <2>3, <2>4, EmitInvLeaf
  <1>9. CASE EmitRef \/ EmitContainer
    <2>1. PICK t \in {0, 1}, class \in Objs \cup {NONE} :
          /\ Visiting /\ ~Written(Child) /\ ~Flattened(Child) /\ Entered(t) /\ phase' = "emit"
          /\ UNCHANGED <<graph, markers, anchors>> /\ NowAnchored({Child})
          /\ \/ out' = out \o (AnchorEvents(Child) \o <<>>)
             \/ out' = out \o (AnchorEvents(Child) \o <<Event("open", Child, 0, class)>>)
             \/ out' = out \o Append(AnchorEvents(Child), Event("open", Child, 0, class))
      <3>1. CASE EmitRef
        <4> DEFINE c == IF IsObject(Child) THEN Referent(Child) ELSE tag
        <4>1. Visiting /\ Child \in Refs
          BY <3>1 DEF EmitRef, Emitting
        <4>2. c \in Objs \cup {NONE}
          BY <1>1, <4>1, ReferentFacts
        <4>3. buffer \in {0, 1}
          BY <1>1 DEF RunSound, FramesSound
        <4>4. buffer' \in {0, 1}
          BY <3>1, <4>3 DEF EmitRef, MayMove
        <4>5. /\ ~Written(Child) /\ ~Flattened(Child) /\ Entered(buffer') /\ phase' = "emit"
              /\ UNCHANGED <<graph, markers, anchors>> /\ NowAnchored({Child})
              /\ out' = out \o (AnchorEvents(Child)
                         \o IF Inlined(Child) THEN <<>> ELSE <<Event("open", Child, 0, c)>>)
          BY <1>1, <3>1 DEF EmitRef, Emitting, Entered, Write
        <4> HIDE DEF c
        <4>6. QED
          BY <4>1, <4>2, <4>4, <4>5
      <3>2. CASE EmitContainer
        <4>1. buffer \in {0, 1}
          BY <1>1 DEF RunSound, FramesSound
        <4>2. /\ Visiting /\ ~Written(Child) /\ Child \in Containers
              /\ Entered(buffer) /\ phase' = "emit"
              /\ UNCHANGED <<graph, markers, anchors>> /\ NowAnchored({Child})
              /\ out' = out \o Append(AnchorEvents(Child), Event("open", Child, 0, tag))
          BY <1>1, <3>2 DEF EmitContainer, Emitting, Entered, Write
        <4>3. ~Flattened(Child)
          BY <1>3, <4>2 DEF Flattened, IsObject
        <4>4. QED
          BY <1>1, <4>1, <4>2, <4>3
      <3>3. QED
        BY <1>9, <3>1, <3>2
    <2>2. Child \in Objs /\ Child \notin V /\ X = V \cup {Child}
      BY <1>1, <1>4, <2>1, ChildFacts, EmitDue
    <2> DEFINE e == Event("open", Child, 0, class)
    <2>3. /\ Once(out \o Append(AnchorEvents(Child), e), X)
          /\ Append(AnchorEvents(Child), e) \in Seq(EventType)
          /\ AnchorEvents(Child) \o <<e>> = Append(AnchorEvents(Child), e)
      BY <1>1, <2>2, OnceOpen
    <2>4. Once(out \o AnchorEvents(Child), X) /\ AnchorEvents(Child) \in Seq(EventType)
      <3>1. Once(out \o AnchorEvents(Child), V)
        BY <1>1, <2>2, OnceAnchors
      <3>2. V \subseteq X \cup Regexps
        BY <2>2
      <3>3. QED
        BY <1>1, <2>2, <3>1, <3>2, OnceMore, EventFacts
    <2> HIDE DEF e
    <2>5. PICK events \in Seq(EventType) : out' = out \o events /\ Once(out', X)
      <3>1. AnchorEvents(Child) \o <<>> = AnchorEvents(Child)
        BY <2>4, ConcatEmptySeq
      <3>2. CASE out' = out \o (AnchorEvents(Child) \o <<>>)
        BY <2>4, <3>1, <3>2
      <3>3. CASE out' # out \o (AnchorEvents(Child) \o <<>>)
        <4>1. out' = out \o Append(AnchorEvents(Child), e)
          BY <2>1, <2>3, <3>3 DEF e
        <4>2. QED
          BY <2>3, <4>1
      <3>4. QED
        BY <3>2, <3>3
    <2>6. QED
      BY <2>1, <2>2, <2>5, EmitInvEnter
  <1>10. CASE EmitLeave
    <2>1. X = V
      BY <1>10 DEF EmitLeave, Grown, Emitting
    <2>2. QED
      BY <1>10, <2>1, EmitInvLeave
  <1>11. CASE MarkAgain \/ MarkEnter \/ MarkLeave \/ EmitCroak
    BY <1>1, <1>11 DEF MarkAgain, MarkEnter, MarkLeave, EmitCroak
  <1>12. QED
    BY <1>5, <1>6, <1>7, <1>8, <1>9, <1>10, <1>11 DEF Next

LEMMA EmitInvStep ==
  ASSUME NEW V, EmitState(V), [Next]_vars, phase' # "croaked"
  PROVE  \E X \in SUBSET Objs : EmitInv(X)'
  <1>1. PICK X : (Next /\ X = Grown(V)) \/ (UNCHANGED vars /\ X = V)
    <2>1. CASE Next
      BY <2>1
    <2>2. CASE UNCHANGED vars
      BY <2>2
    <2>3. QED
      BY <2>1, <2>2
  <1>2. EmitInv(X)'
    BY <1>1, EmitInvNext, EmitInvSame DEF EmitState
  <1>3. X \subseteq Marked'
    BY <1>2 DEF EmitInv, Entries
  <1>4. X \in SUBSET Objs
    BY <1>3 DEF Marked
  <1>5. QED
    BY <1>2, <1>4

-----------------------------------------------------------------------------
(* The two properties.                                                     *)

LEMMA OnceKept ==
  ASSUME NEW V, Once(out, V)
  PROVE  SharingKept
  <1>1. DOMAIN out = 1..Len(out)
    BY LenProperties DEF Once
  <1>2. \A i \in Positions("open") \cup Positions("leaf") : i \in 1..Len(out) /\ IsValue(out[i])
    BY <1>1 DEF Positions, IsValue
  <1>3. QED
    BY <1>2 DEF Once, SharingKept

LEMMA NothingOut ==
  ASSUME out = <<>>
  PROVE  SharingKept
  <1>1. Once(out, {})
    BY DEF Once
  <1>2. QED
    BY <1>1, OnceKept

(* The emit phase begins with no value entered.                            *)
LEMMA EmitInvBegin ==
  ASSUME RunSound, MarksSound, MarkLeave, phase' = "emit"
  PROVE  EmitInv({})'
  <1>1. /\ frames' = Returned /\ Level = 1 /\ ~Visiting /\ anchored = {} /\ out = <<>>
        /\ anchored' = {} /\ out' = <<>>
    BY DEF MarkLeave, MarksSound
  <1>2. frames' = <<>>
    <2>1. Returned \in Seq(FrameType) /\ Len(Returned) = 0
      BY <1>1, ReturnFacts
    <2>2. QED
      BY <1>1, <2>1
  <1>3. Arcs({}, frames)' = {}
    BY DEF Arcs
  <1>4. Entries({})'
    BY <1>2, <1>3 DEF Entries, Walk
  <1>5. NamesWritten({})' /\ AliasesWritten({})'
    BY <1>1, <1>3 DEF NamesWritten, AliasesWritten
  <1>6. Once(out, {})'
    BY <1>1 DEF Once
  <1>7. QED
    BY <1>4, <1>5, <1>6 DEF EmitInv

WholeInv == RunSound /\ MarksSound /\ OutInv /\ CellsSound /\ ScalarsBare /\ SharingInv

LEMMA PhaseSteps ==
  ASSUME [Next]_vars
  PROVE  /\ UNCHANGED graph
         /\ phase' = "mark" => phase = "mark"
         /\ phase' = "emit" => phase = "emit" \/ MarkLeave
         /\ phase' = "done" => phase = "emit" \/ UNCHANGED vars
         /\ phase' = "croaked" => phase = "mark" \/ UNCHANGED out
         /\ phase' \in {"mark", "croaked"} /\ phase = "mark" => UNCHANGED out
         /\ phase' = "croaked" => phase \in {"mark", "emit"} \/ UNCHANGED vars
  <1>1. CASE MarkAgain \/ MarkEnter \/ MarkLeave
    BY <1>1 DEF MarkAgain, MarkEnter, MarkLeave
  <1>2. CASE \/ EmitAlias \/ EmitLeaf \/ EmitFlattened \/ EmitRegexp \/ EmitRef
             \/ EmitContainer \/ EmitLeave
    BY <1>2 DEF EmitAlias, EmitLeaf, EmitFlattened, EmitRegexp, EmitRef, EmitContainer,
                EmitLeave, Emitting, Ends
  <1>3. CASE EmitCroak
    BY <1>3 DEF EmitCroak, Emitting
  <1>4. CASE UNCHANGED vars
    BY <1>4 DEF vars
  <1>5. QED
    BY <1>1, <1>2, <1>3, <1>4 DEF Next

LEMMA SharingStep ==
  ASSUME WholeInv, ~Json, [Next]_vars
  PROVE  SharingInv'
  <1>1. /\ RunSound /\ MarksSound /\ OutInv /\ CellsSound /\ ScalarsBare /\ SharingInv
        /\ phase # "croaked" => MarkInv
    BY DEF WholeInv, SharingInv
  <1>2. phase' # "croaked" => MarkInv'
    BY <1>1, MarkInvStep
  <1>3. phase = "emit" => \E V \in SUBSET Objs : EmitState(V)
    BY <1>1 DEF SharingInv, EmitState
  <1>4. phase' \in {"emit", "done"} => \E X \in SUBSET Objs : EmitInv(X)'
    <2> SUFFICES ASSUME phase' \in {"emit", "done"} PROVE \E X \in SUBSET Objs : EmitInv(X)'
      OBVIOUS
    <2>1. CASE phase = "emit"
      BY <1>3, <2>1, EmitInvStep
    <2>2. CASE phase' = "emit" /\ MarkLeave
      <3>1. EmitInv({})'
        BY <1>1, <2>2, EmitInvBegin
      <3>2. PICK Y : Y = {}
        OBVIOUS
      <3>3. EmitInv(Y)'
        BY <3>1, <3>2
      <3>4. QED
        BY <3>2, <3>3
    <2>3. CASE phase' = "done" /\ UNCHANGED vars
      <3>1. phase = "done"
        BY <2>3 DEF vars
      <3>2. PICK V \in SUBSET Objs : EmitInv(V)
        BY <1>1, <3>1 DEF SharingInv
      <3>3. QED
        BY <2>3, <3>2, EmitInvSame
    <2>4. QED
      BY <2>1, <2>2, <2>3, PhaseSteps
  <1>5. phase' \in {"mark", "croaked"} => SharingKept'
    <2> SUFFICES ASSUME phase' \in {"mark", "croaked"} PROVE SharingKept'
      OBVIOUS
    <2>1. SharingKept /\ UNCHANGED out
      <3>1. CASE phase = "mark"
        <4>1. out = <<>> /\ UNCHANGED out
          BY <1>1, <3>1, PhaseSteps DEF MarksSound
        <4>2. QED
          BY <4>1, NothingOut
      <3>2. CASE phase = "emit"
        <4>1. PICK V \in SUBSET Objs : Once(out, V)
          BY <1>1, <3>2 DEF SharingInv, EmitInv
        <4>2. SharingKept
          BY <4>1, OnceKept
        <4>3. QED
          BY <3>2, <4>2, PhaseSteps
      <3>3. CASE phase \notin {"mark", "emit"}
        <4>1. UNCHANGED vars
          BY <3>3, PhaseSteps
        <4>2. UNCHANGED <<phase, out>>
          BY <4>1 DEF vars
        <4>3. QED
          BY <1>1, <4>2 DEF SharingInv
      <3>4. QED
        BY <3>1, <3>2, <3>3
    <2>2. QED
      BY <2>1 DEF SharingKept, Positions
  <1>6. QED
    BY <1>2, <1>4, <1>5 DEF SharingInv

LEMMA WholeInit == Init => WholeInv
  <1> SUFFICES ASSUME Init PROVE WholeInv
    OBVIOUS
  <1>1. phase = "mark" /\ out = <<>>
    BY DEF Init
  <1>2. SharingInv
    BY <1>1, MarkInvInit, NothingOut DEF SharingInv
  <1>3. QED
    BY <1>2, InitGraph, MarksInit, OutInit, CellsInit, BareInit DEF WholeInv

LEMMA WholeStep ==
  ASSUME WholeInv, ~Json, [Next]_vars
  PROVE  WholeInv'
  <1>1. UNCHANGED graph
    BY PhaseSteps
  <1>2. CellsSound' /\ ScalarsBare'
    BY <1>1 DEF WholeInv, CellsSound, ScalarsBare, graph
  <1>3. QED
    BY <1>2, RunStep, MarksStep, OutStep, SharingStep DEF WholeInv

(* YAML::Syck writes nothing that is shared twice: whatever the values     *)
(* refer to and in whatever order the keys are written, every value but a  *)
(* regular expression is spelled out at most once.                         *)
THEOREM Sharing == ASSUME ~Json PROVE Spec => []SharingKept
  <1>1. Init => WholeInv
    BY WholeInit
  <1>2. WholeInv /\ [Next]_vars => WholeInv'
    BY WholeStep
  <1>3. WholeInv => SharingKept
    <2> SUFFICES ASSUME WholeInv PROVE SharingKept
      OBVIOUS
    <2>1. CASE phase \in {"mark", "croaked"}
      BY <2>1 DEF WholeInv, SharingInv
    <2>2. CASE phase \in {"emit", "done"}
      <3>1. PICK V \in SUBSET Objs : Once(out, V)
        BY <2>2 DEF WholeInv, SharingInv, EmitInv
      <3>2. QED
        BY <3>1, OnceKept
    <2>3. QED
      BY <2>1, <2>2 DEF WholeInv, MarksSound
  <1>4. QED
    BY <1>1, <1>2, <1>3, PTL DEF Spec

(* A complete document holds every value the mark phase saw but for the    *)
(* regular expressions.                                                    *)
LEMMA AllEntered ==
  ASSUME WholeInv, phase = "done", NEW V \in SUBSET Objs, EmitInv(V)
  PROVE  /\ Marked \subseteq V \cup Regexps
         /\ \A a \in Arcs(Marked, <<>>) : a \in Arcs(V, frames)
  <1>1. /\ RunSound /\ MarkInv /\ frames = <<>> /\ V # {} /\ ScalarsBare /\ V \subseteq Marked
        /\ \A a \in Arcs(V, <<>>) : End(EmitOrder, a) \in V \cup Regexps
    BY DEF WholeInv, SharingInv, EmitInv, Entries
  <1>2. \A o \in Regexps : Len(kids[o]) = 0 /\ o \in Objs
    BY <1>1, KindsFacts DEF ScalarsBare, Scalars, Objs
  <1>3. \A l \in 1..Len(<<>>) : FALSE
    OBVIOUS
  <1>4. \A U \in SUBSET Objs, p \in Objs : \A i :
          <<p, i>> \in Arcs(U, <<>>) <=> p \in U /\ i \in Nat /\ i \in 1..Len(kids[p])
    <2> SUFFICES ASSUME NEW U \in SUBSET Objs, NEW p \in Objs, NEW i
                 PROVE  <<p, i>> \in Arcs(U, <<>>) <=> p \in U /\ i \in Nat /\ i \in 1..Len(kids[p])
      OBVIOUS
    <2>1. <<p, i>> \in Arcs(U, <<>>) <=>
            /\ p \in U /\ i \in Nat /\ i \in 1..Len(kids[p])
            /\ \A l \in 1..Len(<<>>) : <<>>[l].obj = p => i < <<>>[l].next
      BY ArcMember
    <2>2. QED
      BY <1>3, <2>1
  <1>5. root \in V \cup Regexps
    <2>1. RootArc \in Arcs(V, <<>>)
      BY <1>1, ArcShape
    <2>2. End(EmitOrder, RootArc) = root
      BY DEF End, RootArc
    <2>3. QED
      BY <1>1, <2>1, <2>2
  <1>6. Closed(V \cup Regexps)
    <2> SUFFICES ASSUME NEW o \in V \cup Regexps, NEW i \in 1..Len(kids[o])
                 PROVE  kids[o][i] \in V \cup Regexps
      BY DEF Closed
    <2>1. o \in V
      BY <1>2
    <2>2. <<o, i>> \in Arcs(V, <<>>)
      <3>1. i \in Nat
        BY <2>1 DEF RunSound, GraphSound
      <3>2. QED
        BY <1>4, <2>1, <3>1
    <2>3. Flip(<<o, i>>) \in Arcs(V, <<>>) /\ End(EmitOrder, Flip(<<o, i>>)) = End(kids, <<o, i>>)
      BY <1>1, <2>2, FlipFacts
    <2>4. End(kids, <<o, i>>) = kids[o][i]
      BY <2>1, KindsFacts DEF End
    <2>5. QED
      BY <1>1, <2>3, <2>4
  <1>7. Marked \subseteq V \cup Regexps
    <2>1. V \cup Regexps \in SUBSET Objs
      BY <1>2
    <2>2. QED
      BY <1>1, <1>5, <1>6, <2>1 DEF MarkInv, MarkedNeeded
  <1>8. ASSUME NEW a \in Arcs(Marked, <<>>) PROVE a \in Arcs(V, <<>>)
    <2>1. Marked \subseteq Objs
      BY DEF Marked
    <2>2. CASE a = RootArc
      BY <1>1, <2>2, ArcShape
    <2>3. CASE a # RootArc
      <3>1. a[1] \in Objs /\ a = <<a[1], a[2]>>
        BY <1>8, <2>1, <2>3, ArcShape
      <3>2. PICK p, i : p \in Objs /\ a = <<p, i>>
        BY <3>1
      <3>3. p \in Marked /\ i \in Nat /\ i \in 1..Len(kids[p])
        BY <1>4, <1>8, <2>1, <3>2
      <3>4. p \notin Regexps
        BY <1>2, <3>3
      <3>5. QED
        BY <1>4, <1>7, <3>2, <3>3, <3>4
    <2>4. QED
      BY <2>2, <2>3
  <1>9. QED
    BY <1>1, <1>7, <1>8

LEMMA EveryNameUsed ==
  ASSUME WholeInv
  PROVE  NamesUsed
  <1> SUFFICES ASSUME phase = "done", NEW n \in DOMAIN anchors,
                      ~\E o \in Regexps : markers[o] = anchors[n]
               PROVE  /\ Cardinality({i \in Positions("anchor") : out[i].name = n}) = 1
                      /\ \E i \in Positions("alias") : out[i].name = n
    BY DEF NamesUsed
  <1>1. /\ RunSound /\ MarksSound /\ MarkInv /\ Good(out, anchored)
        /\ DOMAIN out = 1..Len(out) /\ DOMAIN anchors = 1..Len(anchors)
    BY LenProperties DEF WholeInv, SharingInv, OutInv, Good, MarksSound, NumbersType
  <1>2. PICK V \in SUBSET Objs : EmitInv(V)
    BY DEF WholeInv, SharingInv
  <1>3. PICK o \in Marked : /\ markers[o] = anchors[n]
                            /\ \E a, b \in Arcs(Marked, <<>>) :
                                 a # b /\ End(EmitOrder, a) = o /\ End(EmitOrder, b) = o
    BY <1>1, MetTwice
  <1>4. PICK a \in Arcs(Marked, <<>>), b \in Arcs(Marked, <<>>) :
          a # b /\ End(EmitOrder, a) = o /\ End(EmitOrder, b) = o
    BY <1>3
  <1>5. o \notin Regexps
    BY <1>3
  <1>6. a \in Arcs(V, frames) /\ b \in Arcs(V, frames)
    BY <1>2, AllEntered
  <1>7. Aliased(out, o)
    BY <1>2, <1>4, <1>5, <1>6 DEF EmitInv, AliasesWritten
  <1>8. PICK i \in 1..Len(out) : out[i].what = "alias" /\ out[i].obj = o
    BY <1>7 DEF Aliased
  <1>9. Stands(out[i].name, o) /\ out[i].name \in anchored
    BY <1>1, <1>8 DEF Good
  <1>10. out[i].name = n
    BY <1>1, <1>3, <1>9 DEF Stands, MarkInv, NamedTwice
  <1>11. PICK j \in 1..Len(out) : out[j].what = "anchor" /\ out[j].name = n
    BY <1>1, <1>9, <1>10 DEF Good
  <1>12. {k \in Positions("anchor") : out[k].name = n} = {j}
    BY <1>1, <1>11 DEF Positions, Good
  <1>13. Cardinality({j}) = 1
    BY FS_Singleton
  <1>14. i \in Positions("alias")
    BY <1>1, <1>8 DEF Positions
  <1>15. QED
    BY <1>10, <1>12, <1>13, <1>14

(* No name is given in vain: in every document that YAML::Syck completes,  *)
(* a value that was numbered for an anchor has exactly one, and an alias   *)
(* to it, unless it is a regular expression.                               *)
THEOREM Names == ASSUME ~Json PROVE Spec => []NamesUsed
  <1>1. Init => WholeInv
    BY WholeInit
  <1>2. WholeInv /\ [Next]_vars => WholeInv'
    BY WholeStep
  <1>3. WholeInv => NamesUsed
    BY EveryNameUsed
  <1>4. QED
    BY <1>1, <1>2, <1>3, PTL DEF Spec

-----------------------------------------------------------------------------
(* No cycle is entered.  YAML enters every value once.  JSON sets the      *)
(* number of a value to 0 when it and all it refers to are complete, so    *)
(* that these values have ranks, each higher than those of its cells; and  *)
(* it emits nothing before the root is complete.                           *)

Complete == {o \in Objs : markers[o] = 0}
Ranked(S, rank) ==
  \A o \in S : \A i \in 1..Len(kids[o]) :
    kids[o][i] \in S /\ rank[kids[o][i]] < rank[o]
Ranking(S) == \E rank \in [Objs -> Nat], bound \in Nat :
                Ranked(S, rank) /\ \A o \in S : rank[o] < bound
Before(S, o, n) == \A i \in 1..Len(kids[o]) : i < n => kids[o][i] \in S

(* Each frame is of a cell of the one below, and the cells before it are   *)
(* complete.                                                               *)
Chain(S, fr, mk) ==
  /\ Len(fr) > 0 => fr[1].obj = root
  /\ \A l \in 1..Len(fr) :
       /\ mk[fr[l].obj] \notin {0, NONE}
       /\ l = Len(fr) => Before(S, fr[l].obj, fr[l].next)
       /\ l < Len(fr) => /\ fr[l].next - 1 \in 1..Len(kids[fr[l].obj])
                         /\ fr[l + 1].obj = kids[fr[l].obj][fr[l].next - 1]
                         /\ Before(S, fr[l].obj, fr[l].next - 1)
Falls(S, rank, fr) ==
  /\ root \in S /\ Ranked(S, rank)
  /\ \A l \in 1..Len(fr) : fr[l].obj \in S
  /\ \A l, m \in 1..Len(fr) : l < m => rank[fr[m].obj] < rank[fr[l].obj]
CycleInv ==
  /\ phase = "mark" => Ranking(Complete) /\ Chain(Complete, frames, markers)
  /\ phase = "emit" =>
       \E S \in SUBSET Objs, rank \in [Objs -> Nat] : Falls(S, rank, frames)

LEMMA CycleInit == Init => CycleInv
  <1> SUFFICES ASSUME Init PROVE CycleInv
    OBVIOUS
  <1>1. phase = "mark" /\ frames = <<>> /\ markers = [o \in Objs |-> NONE] /\ NONE # 0
    BY KindsFacts DEF Init
  <1>2. Complete = {}
    BY <1>1 DEF Complete
  <1>3. [o \in Objs |-> 0] \in [Objs -> Nat] /\ 0 \in Nat
    OBVIOUS
  <1>4. Ranking(Complete)
    BY <1>2, <1>3 DEF Ranking, Ranked
  <1>5. Chain(Complete, frames, markers)
    BY <1>1 DEF Chain
  <1>6. QED
    BY <1>1, <1>4, <1>5 DEF CycleInv

(* One more complete value has a rank above all others.                    *)
LEMMA RankMore ==
  ASSUME NEW S, S \subseteq Objs, Ranking(S), NEW o \in Objs, o \notin S,
         kids[o] \in Seq(Objs),
         \A p \in S : kids[p] \in Seq(Objs),
         \A i \in 1..Len(kids[o]) : kids[o][i] \in S
  PROVE  Ranking(S \cup {o})
  <1>1. PICK rank \in [Objs -> Nat], bound \in Nat :
          Ranked(S, rank) /\ \A p \in S : rank[p] < bound
    BY DEF Ranking
  <1> DEFINE new == [rank EXCEPT ![o] = bound]
  <1>2. new \in [Objs -> Nat] /\ new[o] = bound /\ \A p \in S : new[p] = rank[p]
    OBVIOUS
  <1>3. bound + 1 \in Nat /\ bound < bound + 1 /\ \A p \in S : new[p] < bound + 1
    BY <1>1, <1>2
  <1> HIDE DEF new
  <1>4. Ranked(S \cup {o}, new)
    BY <1>1, <1>2 DEF Ranked
  <1>5. QED
    BY <1>2, <1>3, <1>4 DEF Ranking

(* What a step of the mark phase does in JSON.                             *)
LEMMA JsonMarks ==
  ASSUME RunSound, MarksSound, Json, phase = "mark", MarkAgain \/ MarkEnter
  PROVE  /\ Child \in Objs /\ Complete' = Complete /\ UNCHANGED graph
         /\ \A o \in Objs : markers[o] \notin {0, NONE} => markers'[o] = markers[o]
         /\ MarkEnter => Child \notin Complete /\ markers'[Child] \notin {0, NONE}
         /\ MarkAgain => Child \in Complete
  <1>1. Visiting /\ MarkNode(Child) /\ NumbersType /\ NONE \notin Nat /\ UNCHANGED graph
    BY KindsFacts DEF MarkAgain, MarkEnter, MarksSound
  <1>2. Child \in Objs
    BY <1>1, ChildFacts
  <1>3. Cardinality(Marked) + 1 \in Nat \ {0}
    BY MarkedFinite
  <1>4. CASE markers[Child] = NONE
    <2>1. markers' = [markers EXCEPT ![Child] = Cardinality(Marked) + 1]
      BY <1>1, <1>4 DEF MarkNode
    <2>2. /\ markers'[Child] = Cardinality(Marked) + 1
          /\ \A o \in Objs : o # Child => markers'[o] = markers[o]
      BY <1>1, <1>2, <2>1 DEF NumbersType
    <2>3. markers'[Child] \notin {0, NONE} /\ markers[Child] # 0
      BY <1>1, <1>3, <1>4, <2>2
    <2>4. Complete' = Complete
      BY <2>2, <2>3 DEF Complete
    <2>5. ~MarkAgain /\ Child \notin Complete
      BY <1>4, <2>3 DEF MarkAgain, TurnsBack, Complete
    <2>6. QED
      BY <1>1, <1>2, <1>4, <2>2, <2>3, <2>4, <2>5
  <1>5. CASE markers[Child] # NONE
    <2>1. markers' = markers
      BY <1>1, <1>5 DEF MarkNode
    <2>2. MarkEnter => markers[Child] # 0
      BY <1>5 DEF MarkEnter, TurnsBack
    <2>3. MarkAgain => markers[Child] = 0
      BY DEF MarkAgain, TurnsBack
    <2>4. QED
      BY <1>1, <1>2, <1>5, <2>1, <2>2, <2>3 DEF Complete
  <1>6. QED
    BY <1>4, <1>5

(* The frames after a call.                                                *)
LEMMA EnteredIs ==
  ASSUME RunSound, Visiting, NEW t \in {0, 1}
  PROVE  LET new == Append(Advanced, Frame(Child, t)) IN
         /\ Len(new) = Level + 1
         /\ new[Level + 1].obj = Child /\ new[Level + 1].next = 1
         /\ \A l \in 1..Level : new[l].obj = frames[l].obj
         /\ \A l \in 1..Level : new[l].next = Advanced[l].next
  <1> DEFINE frame == Frame(Child, t)
             new == Append(Advanced, frame)
  <1>1. frame \in FrameType /\ frame.obj = Child /\ frame.next = 1
    BY ChildFacts DEF Frame, FrameType
  <1>2. Advanced \in Seq(FrameType) /\ Len(Advanced) = Level /\ Level \in Nat
        /\ \A l \in 1..Level : Advanced[l].obj = frames[l].obj
    BY ChildFacts, LevelFacts
  <1> HIDE DEF frame
  <1>3. /\ Len(new) = Level + 1 /\ new[Level + 1] = frame
        /\ \A l \in 1..Level : new[l] = Advanced[l]
    BY <1>1, <1>2, AppendProperties
  <1> HIDE DEF new
  <1>4. /\ new[Level + 1].obj = Child /\ new[Level + 1].next = 1
        /\ \A l \in 1..Level : new[l].obj = frames[l].obj /\ new[l].next = Advanced[l].next
    BY <1>1, <1>2, <1>3
  <1>5. QED
    BY <1>3, <1>4 DEF new, frame

LEMMA CycleMarks ==
  ASSUME RunSound, MarksSound, Json, phase = "mark", phase' = "mark", CycleInv,
         MarkAgain \/ MarkEnter
  PROVE  CycleInv'
  <1>1. /\ Child \in Objs /\ Complete' = Complete /\ UNCHANGED graph /\ Visiting
        /\ \A o \in Objs : markers[o] \notin {0, NONE} => markers'[o] = markers[o]
        /\ MarkEnter => Child \notin Complete /\ markers'[Child] \notin {0, NONE}
        /\ MarkAgain => Child \in Complete
        /\ Ranking(Complete) /\ Chain(Complete, frames, markers) /\ 0 # NONE
        /\ root' = root /\ kids' = kids
    BY JsonMarks, KindsFacts DEF CycleInv, MarkAgain, MarkEnter, graph
  <1>2. Ranking(Complete)'
    BY <1>1 DEF Ranking, Ranked
  <1>3. /\ Len(Advanced) = Level /\ Level \in Nat /\ Len(frames) = Level
        /\ \A l \in 1..Level : Advanced[l].obj = frames[l].obj
        /\ \A l \in 1..Level : l # Level => Advanced[l].next = frames[l].next
        /\ ~Starting => /\ Level \in 1..Level /\ Top = frames[Level] /\ Top.next \in Nat
                        /\ Advanced[Level].next = Top.next + 1
        /\ \A l \in 1..Level : frames[l].obj \in Objs
    BY <1>1, AdvancedIs, LevelFacts DEF Level
  <1>4. ~Starting => /\ Child = kids[Top.obj][Top.next]
                     /\ kids[Top.obj] \in Seq(Objs) /\ Top.next \in 1..Len(kids[Top.obj])
    <2> SUFFICES ASSUME ~Starting PROVE Child = kids[Top.obj][Top.next]
                     /\ kids[Top.obj] \in Seq(Objs) /\ Top.next \in 1..Len(kids[Top.obj])
      OBVIOUS
    <2>1. Top.next > 0 /\ Top.obj \in Objs
      BY <1>3 DEF RunSound, FramesSound
    <2>2. kids[Top.obj] \in Seq(Objs)
      BY <2>1 DEF RunSound, GraphSound
    <2>3. QED
      BY <1>1, <1>3, <2>1, <2>2 DEF Visiting, Child, KidsOf
  <1>5. \A l \in 1..Level : markers'[frames[l].obj] \notin {0, NONE}
    BY <1>1, <1>3 DEF Chain
  <1>6. Chain(Complete, frames', markers') => CycleInv'
    <2> SUFFICES ASSUME Chain(Complete, frames', markers') PROVE CycleInv'
      OBVIOUS
    <2>1. Chain(Complete, frames, markers)'
      BY <1>1 DEF Chain, Before
    <2>2. QED
      BY <1>2, <2>1 DEF CycleInv
  <1>7. CASE MarkAgain
    <2>1. frames' = Advanced
      BY <1>7 DEF MarkAgain
    <2>2. CASE Starting
      <3>1. Len(frames') = 0
        BY <1>3, <2>1, <2>2 DEF Starting
      <3>2. Chain(Complete, frames', markers')
        BY <3>1 DEF Chain
      <3>3. QED
        BY <1>6, <3>2
    <2>3. CASE ~Starting
      <3>1. Child \in Complete
        BY <1>1, <1>7
      <3>2. Len(frames') = Level /\ \A l \in 1..Level : frames'[l].obj = frames[l].obj
        BY <1>3, <2>1
      <3>3. \A l \in 1..Level : l # Level => frames'[l].next = frames[l].next
        BY <1>3, <2>1
      <3>4. Before(Complete, frames'[Level].obj, frames'[Level].next)
        <4>1. Before(Complete, Top.obj, Top.next)
          BY <1>1, <1>3, <2>3 DEF Chain
        <4>2. frames'[Level].obj = Top.obj /\ frames'[Level].next = Top.next + 1 /\ Top.next \in Nat
          BY <1>3, <2>1, <2>3
        <4>3. ASSUME NEW i \in 1..Len(kids[Top.obj]), i < Top.next + 1
              PROVE  kids[Top.obj][i] \in Complete
          <5>1. CASE i = Top.next
            BY <1>4, <2>3, <3>1, <5>1
          <5>2. CASE i # Top.next
            <6>1. i < Top.next
              BY <1>4, <2>3, <4>2, <4>3, <5>2
            <6>2. QED
              BY <4>1, <6>1 DEF Before
          <5>3. QED
            BY <5>1, <5>2
        <4>4. QED
          BY <4>2, <4>3 DEF Before
      <3>5. ASSUME NEW l \in 1..Level, l < Level
            PROVE  /\ frames'[l].next - 1 \in 1..Len(kids[frames'[l].obj])
                   /\ frames'[l + 1].obj = kids[frames'[l].obj][frames'[l].next - 1]
                   /\ Before(Complete, frames'[l].obj, frames'[l].next - 1)
        <4>1. frames'[l].obj = frames[l].obj /\ frames'[l].next = frames[l].next
              /\ frames'[l + 1].obj = frames[l + 1].obj
          BY <1>3, <3>2, <3>3, <3>5
        <4>2. /\ frames[l].next - 1 \in 1..Len(kids[frames[l].obj])
              /\ frames[l + 1].obj = kids[frames[l].obj][frames[l].next - 1]
              /\ Before(Complete, frames[l].obj, frames[l].next - 1)
          BY <1>1, <1>3, <3>5 DEF Chain
        <4>3. QED
          BY <4>1, <4>2
      <3>6. frames'[1].obj = root
        BY <1>1, <1>3, <2>3, <3>2 DEF Chain
      <3>7. Chain(Complete, frames', markers')
        <4> USE DEF Chain
        <4>1. \A l \in 1..Level : markers'[frames'[l].obj] \notin {0, NONE}
          BY <1>5, <3>2
        <4>2. QED
          BY <1>1, <3>2, <3>4, <3>5, <3>6, <4>1
      <3>8. QED
        BY <1>6, <3>7
    <2>4. QED
      BY <2>2, <2>3
  <1>8. CASE MarkEnter
    <2>1. frames' = Append(Advanced, Frame(Child, 0))
      BY <1>8 DEF MarkEnter
    <2>2. /\ Len(frames') = Level + 1
          /\ frames'[Level + 1].obj = Child /\ frames'[Level + 1].next = 1
          /\ \A l \in 1..Level : frames'[l].obj = frames[l].obj
          /\ \A l \in 1..Level : frames'[l].next = Advanced[l].next
      BY <1>1, <2>1, EnteredIs
    <2>3. Child \notin Complete /\ markers'[Child] \notin {0, NONE}
      BY <1>1, <1>8
    <2>4. Before(Complete, Child, 1)
      <3>1. kids[Child] \in Seq(Objs)
        BY <1>1 DEF RunSound, GraphSound
      <3>2. QED
        BY <3>1 DEF Before
    <2>5. ASSUME NEW l \in 1..Level
          PROVE  /\ frames'[l].next - 1 \in 1..Len(kids[frames'[l].obj])
                 /\ frames'[l + 1].obj = kids[frames'[l].obj][frames'[l].next - 1]
                 /\ Before(Complete, frames'[l].obj, frames'[l].next - 1)
      <3>1. CASE l = Level
        <4>1. ~Starting
          BY <1>3, <2>5, <3>1 DEF Starting
        <4>2. frames'[l].obj = Top.obj /\ frames'[l].next - 1 = Top.next
          BY <1>3, <2>2, <3>1, <4>1
        <4>3. Before(Complete, Top.obj, Top.next)
          BY <1>1, <1>3, <4>1 DEF Chain
        <4>4. QED
          BY <1>4, <2>2, <3>1, <4>1, <4>2, <4>3
      <3>2. CASE l # Level
        <4>1. l < Level /\ l + 1 \in 1..Level
          BY <1>3, <2>5, <3>2
        <4>2. frames'[l].obj = frames[l].obj /\ frames'[l].next = frames[l].next
              /\ frames'[l + 1].obj = frames[l + 1].obj
          BY <1>3, <2>2, <3>2, <4>1
        <4>3. /\ frames[l].next - 1 \in 1..Len(kids[frames[l].obj])
              /\ frames[l + 1].obj = kids[frames[l].obj][frames[l].next - 1]
              /\ Before(Complete, frames[l].obj, frames[l].next - 1)
          BY <1>1, <1>3, <2>5, <4>1 DEF Chain
        <4>4. QED
          BY <4>2, <4>3
      <3>3. QED
        BY <3>1, <3>2
    <2>6. frames'[1].obj = root
      <3>1. CASE Starting
        <4>1. Level = 0 /\ Child = root
          BY <3>1 DEF Starting, Level, Child
        <4>2. QED
          BY <2>2, <4>1
      <3>2. CASE ~Starting
        <4>1. frames[1].obj = root /\ 1 \in 1..Level
          BY <1>1, <1>3, <3>2 DEF Chain
        <4>2. QED
          BY <2>2, <4>1
      <3>3. QED
        BY <3>1, <3>2
    <2>7. Chain(Complete, frames', markers')
      <3>1. 1..Len(frames') = 1..Level \cup {Level + 1}
        BY <1>3, <2>2
      <3>2. \A l \in 1..Len(frames') : markers'[frames'[l].obj] \notin {0, NONE}
        BY <1>5, <2>2, <2>3, <3>1
      <3>3. Before(Complete, frames'[Level + 1].obj, frames'[Level + 1].next)
        BY <2>2, <2>4
      <3>4. \A l \in 1..Level : l < Level + 1 /\ l # Level + 1
        BY <1>3
      <3>5. ~(Level + 1 < Level + 1)
        BY <1>3
      <3>6. QED
        BY <1>1, <2>2, <2>5, <2>6, <3>1, <3>2, <3>3, <3>4, <3>5 DEF Chain
    <2>8. QED
      BY <1>6, <2>7
  <1>9. QED
    BY <1>7, <1>8

(* A value whose cells are all complete becomes complete.                  *)
LEMMA CycleLeaves ==
  ASSUME RunSound, MarksSound, Json, CycleInv, MarkLeave
  PROVE  CycleInv'
  <1> DEFINE t == Top.obj
             S == Complete \cup {t}
  <1>1. /\ phase = "mark" /\ ~Visiting /\ frames' = Returned /\ UNCHANGED graph
        /\ phase' = IF Level = 1 THEN "emit" ELSE "mark"
        /\ Level > 1 => markers' = [markers EXCEPT ![t] = 0]
        /\ root' = root /\ kids' = kids
        /\ NumbersType /\ Ranking(Complete) /\ Chain(Complete, frames, markers)
    BY DEF MarkLeave, graph, MarksSound, CycleInv
  <1>2. /\ Level \in Nat \ {0} /\ Top = frames[Level] /\ t \in Objs /\ Len(frames) = Level
        /\ Len(Returned) = Level - 1
        /\ \A l \in 1..(Level - 1) : Returned[l] = frames[l]
        /\ Level \in 1..Level
    BY <1>1, ReturnFacts DEF Level
  <1>3. kids[t] \in Seq(Objs) /\ Top.next \in Nat /\ ~(Top.next <= Len(kids[t]))
    <2>1. Top \in FrameType
      BY <1>2, LevelFacts
    <2>2. QED
      BY <1>1, <1>2, <2>1 DEF FrameType, Visiting, RunSound, GraphSound
  <1>4. t \notin Complete /\ markers[t] # 0
    BY <1>1, <1>2 DEF Chain, Complete
  <1>5. \A i \in 1..Len(kids[t]) : kids[t][i] \in Complete
    <2>1. Before(Complete, t, Top.next)
      BY <1>1, <1>2 DEF Chain
    <2>2. \A i \in 1..Len(kids[t]) : i < Top.next
      BY <1>3
    <2>3. QED
      BY <2>1, <2>2 DEF Before
  <1>6. Ranking(S) /\ S \subseteq Objs
    <2>1. Complete \subseteq Objs /\ \A p \in Complete : kids[p] \in Seq(Objs)
      BY DEF Complete, RunSound, GraphSound
    <2>2. QED
      BY <1>1, <1>2, <1>3, <1>4, <1>5, <2>1, RankMore
  <1>7. CASE Level > 1
    <2>1. markers' = [markers EXCEPT ![t] = 0]
      BY <1>1, <1>7
    <2>2. Complete' = S
      BY <1>2, <2>1 DEF Complete, NumbersType, MarksSound
    <2>3. ASSUME NEW l \in 1..Level, l < Level PROVE frames[l].obj # t
      <3>1. l + 1 \in 1..Level
        BY <1>2, <2>3
      <3>2. /\ frames[l].next - 1 \in 1..Len(kids[frames[l].obj])
            /\ frames[l + 1].obj = kids[frames[l].obj][frames[l].next - 1]
        BY <1>1, <1>2, <2>3 DEF Chain
      <3>3. markers[frames[l + 1].obj] # 0
        BY <1>1, <1>2, <3>1 DEF Chain
      <3>4. frames[l + 1].obj \notin Complete
        BY <3>3 DEF Complete
      <3>5. QED
        BY <1>5, <3>2, <3>4
    <2> DEFINE m == Level - 1
    <2>4. m \in Nat \ {0} /\ Len(frames') = m /\ m + 1 = Level
          /\ \A l \in 1..m : frames'[l] = frames[l] /\ l \in 1..Level /\ l < Level
      BY <1>1, <1>2, <1>7
    <2>5. \A o, n : Before(Complete, o, n) => Before(S, o, n)
      BY DEF Before
    <2>6. \A l \in 1..m : markers'[frames'[l].obj] \notin {0, NONE}
      <3> SUFFICES ASSUME NEW l \in 1..m PROVE markers'[frames'[l].obj] \notin {0, NONE}
        OBVIOUS
      <3>1. frames[l].obj \in Objs /\ frames[l].obj # t
        BY <2>3, <2>4, LevelFacts
      <3>2. markers'[frames[l].obj] = markers[frames[l].obj]
        BY <2>1, <3>1 DEF NumbersType, MarksSound
      <3>3. QED
        BY <1>1, <1>2, <2>4, <3>2 DEF Chain
    <2>7. Before(S, frames'[m].obj, frames'[m].next)
      <3> DEFINE o == frames[m].obj
                 n == frames[m].next
      <3>1. m \in 1..m /\ m \in 1..Level /\ m < Level
        BY <2>4
      <3>2. n - 1 \in 1..Len(kids[o]) /\ t = kids[o][n - 1] /\ Before(Complete, o, n - 1)
        BY <1>1, <1>2, <2>4, <3>1 DEF Chain
      <3>3. frames[m] \in FrameType
        BY <3>1, LevelFacts
      <3>4. n \in Nat /\ o \in Objs
        BY <3>3 DEF FrameType
      <3>5. kids[o] \in Seq(Objs)
        BY <3>4 DEF RunSound, GraphSound
      <3> HIDE DEF o, n
      <3>6. \A i \in 1..Len(kids[o]) : i < n => i < n - 1 \/ i = n - 1
        BY <3>4, <3>5
      <3>7. Before(S, o, n)
        BY <3>2, <3>6 DEF Before
      <3>8. QED
        BY <2>4, <3>1, <3>7 DEF o, n
    <2>8. ASSUME NEW l \in 1..m, l < m
          PROVE  /\ frames'[l].next - 1 \in 1..Len(kids[frames'[l].obj])
                 /\ frames'[l + 1].obj = kids[frames'[l].obj][frames'[l].next - 1]
                 /\ Before(S, frames'[l].obj, frames'[l].next - 1)
      <3>1. l + 1 \in 1..m
        BY <2>4, <2>8
      <3>2. /\ frames[l].next - 1 \in 1..Len(kids[frames[l].obj])
            /\ frames[l + 1].obj = kids[frames[l].obj][frames[l].next - 1]
            /\ Before(Complete, frames[l].obj, frames[l].next - 1)
        BY <1>1, <1>2, <2>4 DEF Chain
      <3>3. QED
        BY <2>4, <2>5, <3>1, <3>2
    <2>9. frames'[1].obj = root
      <3>1. 1 \in 1..m /\ frames[1].obj = root
        BY <1>1, <1>2, <2>4 DEF Chain
      <3>2. QED
        BY <2>4, <3>1
    <2> HIDE DEF m, S
    <2>10. Chain(S, frames', markers')
      BY <2>4, <2>6, <2>7, <2>8, <2>9 DEF Chain
    <2>11. Chain(Complete, frames, markers)'
      BY <1>1, <2>2, <2>10 DEF Chain, Before
    <2>12. Ranking(Complete)'
      BY <1>1, <1>6, <2>2 DEF Ranking, Ranked
    <2>13. QED
      BY <1>1, <1>7, <2>11, <2>12 DEF CycleInv
  <1>8. CASE Level = 1
    <2>1. t = root
      BY <1>1, <1>2, <1>8 DEF Chain
    <2>2. PICK Y \in SUBSET Objs, rank \in [Objs -> Nat] : Y = S /\ Ranked(Y, rank)
      BY <1>6 DEF Ranking
    <2>3. Len(frames') = 0
      BY <1>1, <1>2, <1>8
    <2>4. root \in Y
      BY <2>1, <2>2
    <2> HIDE DEF S
    <2>5. Falls(Y, rank, frames)'
      <3>1. 1..Len(frames') = {}
        BY <2>3
      <3>2. Ranked(Y, rank)'
        BY <1>1, <2>2 DEF Ranked
      <3>3. QED
        BY <1>1, <2>4, <3>1, <3>2 DEF Falls
    <2>6. QED
      BY <1>1, <1>6, <1>8, <2>5 DEF CycleInv
  <1>9. QED
    BY <1>2, <1>7, <1>8

(* The emit phase goes down the ranks.                                     *)
LEMMA CycleEmits ==
  ASSUME RunSound, NEW S \in SUBSET Objs, NEW rank \in [Objs -> Nat], Falls(S, rank, frames),
         UNCHANGED graph,
         \/ Visiting /\ Stepped
         \/ \E t \in {0, 1} : Visiting /\ Entered(t)
         \/ ~Visiting /\ frames' = Returned
         \/ UNCHANGED frames
  PROVE  Falls(S, rank, frames)'
  <1>1. /\ root \in S /\ Ranked(S, rank) /\ kids' = kids /\ root' = root
        /\ \A l \in 1..Level : frames[l].obj \in S
        /\ \A l, m \in 1..Level : l < m => rank[frames[m].obj] < rank[frames[l].obj]
        /\ Level \in Nat /\ Len(frames) = Level
    BY LevelFacts DEF Falls, graph, Level
  <1>2. SUFFICES /\ \A l \in 1..Len(frames') : frames'[l].obj \in S
                 /\ \A l, m \in 1..Len(frames') : l < m => rank[frames'[m].obj] < rank[frames'[l].obj]
    BY <1>1 DEF Falls, Ranked
  <1>3. CASE Visiting /\ Stepped
    <2>1. Len(frames') = Level /\ \A l \in 1..Level : frames'[l].obj = frames[l].obj
      BY <1>3, AdvancedIs DEF Stepped
    <2>2. QED
      BY <1>1, <2>1
  <1>4. ASSUME NEW t \in {0, 1}, Visiting, Entered(t)
        PROVE  /\ \A l \in 1..Len(frames') : frames'[l].obj \in S
               /\ \A l, m \in 1..Len(frames') : l < m => rank[frames'[m].obj] < rank[frames'[l].obj]
    <2>1. /\ Len(frames') = Level + 1 /\ frames'[Level + 1].obj = Child
          /\ \A l \in 1..Level : frames'[l].obj = frames[l].obj
      BY <1>4, EnteredIs DEF Entered
    <2>2. 1..Len(frames') = 1..Level \cup {Level + 1} /\ \A l \in 1..Level : ~(Level + 1 < l)
          /\ ~(Level + 1 < Level + 1)
      BY <1>1, <2>1
    <2>3. CASE Starting
      <3>1. Level = 0 /\ Child = root
        BY <2>3 DEF Starting, Level, Child
      <3>2. 1..Level = {}
        BY <3>1
      <3>3. QED
        BY <1>1, <2>1, <2>2, <3>1, <3>2
    <2>4. CASE ~Starting
      <3> DEFINE o == Top.obj
      <3>1. Level \in 1..Level /\ Top = frames[Level] /\ o \in S /\ o \in Objs
        BY <1>1, <2>4, LevelFacts
      <3>2. \E i \in 1..Len(kids[o]) : Child = kids[o][i]
        <4>1. Top \in FrameType /\ Top.next > 0
          BY <3>1, LevelFacts DEF RunSound, FramesSound
        <4>2. kids[o] \in Seq(Objs) /\ Top.next \in Nat
          BY <3>1, <4>1 DEF RunSound, GraphSound, FrameType
        <4>3. Top.next \in 1..Len(kids[o])
          BY <1>4, <2>4, <4>1, <4>2 DEF Visiting
        <4>4. Len(kids[o]) + 1 - Top.next \in 1..Len(kids[o])
          BY <4>2, <4>3
        <4>5. Reverse(kids[o])[Top.next] = kids[o][Len(kids[o]) + 1 - Top.next]
          BY <4>2, <4>3 DEF Reverse
        <4>6. Child \in {kids[o][Top.next], Reverse(kids[o])[Top.next]}
          BY <2>4 DEF Child, KidsOf
        <4>7. QED
          BY <4>3, <4>4, <4>5, <4>6
      <3>3. Child \in S /\ rank[Child] < rank[o] /\ Child \in Objs
        BY <1>1, <3>1, <3>2 DEF Ranked
      <3>4. ASSUME NEW l \in 1..Level PROVE rank[Child] < rank[frames[l].obj]
        <4>1. frames[l].obj \in Objs
          BY <1>1
        <4>2. l = Level \/ l < Level
          BY <1>1
        <4>3. CASE l < Level
          <5>1. rank[o] < rank[frames[l].obj]
            BY <1>1, <3>1, <4>3
          <5>2. rank[o] \in Nat /\ rank[Child] \in Nat /\ rank[frames[l].obj] \in Nat
            BY <3>1, <3>3, <4>1
          <5>3. QED
            BY <3>3, <5>1, <5>2
        <4>4. QED
          BY <3>1, <3>3, <4>2, <4>3
      <3>5. \A l \in 1..Len(frames') : frames'[l].obj \in S
        BY <1>1, <2>1, <2>2, <3>3
      <3>6. ASSUME NEW l \in 1..Len(frames'), NEW m \in 1..Len(frames'), l < m
            PROVE  rank[frames'[m].obj] < rank[frames'[l].obj]
        <4>1. l \in 1..Level
          BY <2>2, <3>6
        <4>2. CASE m \in 1..Level
          BY <1>1, <2>1, <3>6, <4>1, <4>2
        <4>3. CASE m = Level + 1
          BY <2>1, <3>4, <4>1, <4>3
        <4>4. QED
          BY <2>2, <4>2, <4>3
      <3>7. QED
        BY <3>5, <3>6
    <2>5. QED
      BY <2>3, <2>4
  <1>5. CASE ~Visiting /\ frames' = Returned
    <2>1. /\ Level \in Nat \ {0} /\ Len(frames') = Level - 1
          /\ \A l \in 1..(Level - 1) : frames'[l] = frames[l]
      BY <1>5, ReturnFacts
    <2>2. 1..(Level - 1) \subseteq 1..Level
      BY <2>1
    <2>3. QED
      BY <1>1, <2>1, <2>2
  <1>6. CASE UNCHANGED frames
    BY <1>1, <1>6
  <1>7. QED
    BY <1>3, <1>4, <1>5, <1>6

LEMMA CycleStep ==
  ASSUME RunSound, MarksSound, Json, CycleInv, [Next]_vars
  PROVE  CycleInv'
  <1>1. CASE MarkAgain \/ MarkEnter
    <2>1. phase = "mark" /\ phase' \in {"mark", "croaked"}
      BY <1>1 DEF MarkAgain, MarkEnter
    <2>2. QED
      BY <1>1, <2>1, CycleMarks DEF CycleInv
  <1>2. CASE MarkLeave
    BY <1>2, CycleLeaves
  <1>3. CASE \/ EmitAlias \/ EmitLeaf \/ EmitFlattened \/ EmitRegexp \/ EmitRef
             \/ EmitContainer \/ EmitLeave \/ EmitCroak
    <2>1. buffer \in {0, 1}
      BY DEF RunSound, FramesSound
    <2>2. /\ phase = "emit" /\ UNCHANGED graph /\ phase' # "mark"
          /\ \/ Visiting /\ Stepped
             \/ \E t \in {0, 1} : Visiting /\ Entered(t)
             \/ ~Visiting /\ frames' = Returned
      BY <1>3, <2>1
       DEF EmitAlias, EmitLeaf, EmitFlattened, EmitRegexp, EmitRef, EmitContainer, EmitLeave,
           EmitCroak, Emitting, Ends, Stepped, Entered, MayMove
    <2>3. PICK S \in SUBSET Objs, rank \in [Objs -> Nat] : Falls(S, rank, frames)
      BY <2>2 DEF CycleInv
    <2>4. Falls(S, rank, frames)'
      BY <2>2, <2>3, CycleEmits
    <2>5. QED
      BY <2>2, <2>4 DEF CycleInv
  <1>4. CASE UNCHANGED vars
    BY <1>4 DEF vars, graph, names, CycleInv, Ranking, Ranked, Chain, Before, Complete, Falls
  <1>5. QED
    BY <1>1, <1>2, <1>3, <1>4 DEF Next

(* Neither YAML nor JSON ever writes a value inside of itself, whatever    *)
(* refers to whatever.                                                     *)
THEOREM NoCycle == Spec => []NoCycleWritten
  <1>1. CASE Json
    <2> DEFINE Inv == RunSound /\ MarksSound /\ CycleInv
    <2>1. Init => Inv
      BY InitGraph, MarksInit, CycleInit
    <2>2. Inv /\ [Next]_vars => Inv'
      BY <1>1, RunStep, MarksStep, CycleStep
    <2>3. Inv => NoCycleWritten
      <3> SUFFICES ASSUME Inv, phase = "emit", NEW i \in DOMAIN frames, NEW j \in DOMAIN frames,
                          frames[i].obj = frames[j].obj
                   PROVE  i = j
        BY DEF NoCycleWritten
      <3>1. PICK S \in SUBSET Objs, rank \in [Objs -> Nat] : Falls(S, rank, frames)
        BY DEF CycleInv
      <3>2. frames \in Seq(FrameType)
        BY DEF RunSound, FramesSound
      <3>3. DOMAIN frames = 1..Len(frames) /\ i \in Nat /\ j \in Nat
        BY <3>2
      <3>4. frames[i].obj \in Objs
        BY <3>1, <3>3 DEF Falls
      <3>5. ~(rank[frames[i].obj] < rank[frames[j].obj])
        BY <3>4
      <3>6. ~(i < j) /\ ~(j < i)
        BY <3>1, <3>3, <3>4, <3>5 DEF Falls
      <3>7. QED
        BY <3>3, <3>6
    <2>4. QED
      BY <2>1, <2>2, <2>3, PTL DEF Spec
  <1>2. CASE ~Json
    <2>1. Init => WholeInv
      BY WholeInit
    <2>2. WholeInv /\ [Next]_vars => WholeInv'
      BY <1>2, WholeStep
    <2>3. WholeInv => NoCycleWritten
      <3> SUFFICES ASSUME WholeInv, phase = "emit" PROVE NoCycleWritten
        BY DEF NoCycleWritten
      <3>1. PICK V \in SUBSET Objs : Walk(V, frames)
        BY DEF WholeInv, SharingInv, EmitInv, Entries
      <3>2. frames \in Seq(FrameType)
        BY DEF WholeInv, RunSound, FramesSound
      <3>3. DOMAIN frames = 1..Len(frames)
        BY <3>2
      <3>4. QED
        BY <3>1, <3>3 DEF NoCycleWritten, Walk
    <2>4. QED
      BY <2>1, <2>2, <2>3, PTL DEF Spec
  <1>3. QED
    BY <1>1, <1>2

(***************************************************************************)
(* The mark phase bounds the recursion of the emit phase.  The mark phase  *)
(* counts levels and the emit phase does not; but where no keys are        *)
(* sorted, both meet the values in the same order, so that a value is      *)
(* entered from the same place and at the same level in both.  Then the    *)
(* bounds of the other variables: every variable of Dump keeps its type.   *)
(***************************************************************************)
(* What the mark phase knows when it is over, in two functions: time[p, i] *)
(* is how many values were marked when the i-th cell of p came up, and     *)
(* level[o] at which level o was entered.                                  *)

Times == [Objs \X Nat -> Nat]
Levels == [Objs -> Nat]

(* The cell i of p was the place its value was entered from.               *)
Entry(time, mk, p, i) == mk[kids[p][i]] = time[<<p, i>>] + 1

(* It is behind the traversal with the frames fr: the value was met before *)
(* and turned back at, or entered and left.                                *)
Behind(time, level, mk, fr, p, i) ==
  LET c == kids[p][i] IN
  /\ mk[c] # NONE
  /\ \/ mk[c] <= time[<<p, i>>] /\ time[<<p, i + 1>>] = time[<<p, i>>]
     \/ /\ Entry(time, mk, p, i) /\ level[c] = level[p] + 1
        /\ time[<<p, i + 1>>] = time[<<c, Len(kids[c]) + 1>>]
        /\ \A l \in 1..Len(fr) : fr[l].obj # c
Settled(fr, p, i) ==
  \A l \in 1..Len(fr) :
    fr[l].obj = p => IF l = Len(fr) THEN i < fr[l].next ELSE i + 1 < fr[l].next

(* Each frame is of a value entered from the last cell of the frame below. *)
Nested(time, level, mk, fr) ==
  /\ \A l \in 1..Len(fr) :
       /\ level[fr[l].obj] = l /\ mk[fr[l].obj] # NONE
       /\ fr[l].next <= Len(kids[fr[l].obj]) + 1
       /\ l < Len(fr) =>
            /\ fr[l].next - 1 \in 1..Len(kids[fr[l].obj])
            /\ fr[l + 1].obj = kids[fr[l].obj][fr[l].next - 1]
            /\ Entry(time, mk, fr[l].obj, fr[l].next - 1)
  /\ Len(fr) > 0 => fr[1].obj = root
Counted(time, level, mk) ==
  /\ \A o \in Objs : mk[o] # NONE => time[<<o, 1>>] = mk[o] /\ level[o] < MaxDepth
  /\ mk[root] # NONE => mk[root] = 1 /\ level[root] = 1
Told(time, level, mk, fr) ==
  \A p \in Objs : mk[p] # NONE =>
    \A i \in 1..Len(kids[p]) : Settled(fr, p, i) => Behind(time, level, mk, fr, p, i)

(* The mark phase and the emit phase: the values entered are those of the  *)
(* mark phase up to a time, but for the regular expressions.               *)
Marks(time, level) ==
  /\ Counted(time, level, markers) /\ Told(time, level, markers, frames)
  /\ Nested(time, level, markers, frames)
  /\ frames # <<>> => time[<<Top.obj, Top.next>>] = Cardinality(Marked)
Seen(time) == IF frames = <<>> THEN 0 ELSE time[<<Top.obj, Top.next>>]
Emits(time, level, V) ==
  /\ Counted(time, level, markers) /\ Told(time, level, markers, <<>>)
  /\ Nested(time, level, markers, frames)
  /\ EmitInv(V) /\ V = {o \in Marked \ Regexps : markers[o] <= Seen(time)}
DepthInv ==
  /\ phase = "mark" =>
       /\ depth = Level
       /\ \E time \in Times, level \in Levels : Marks(time, level)
  /\ phase = "emit" /\ shuffled = {} =>
       \E time \in Times, level \in Levels, V \in SUBSET Objs : Emits(time, level, V)

(* What is written at one place of time changes nothing at another.        *)
LEMMA BehindKept ==
  ASSUME RunSound, NEW time \in Times, NEW level \in Levels, NEW mk, NEW fr,
         NEW p \in Objs, NEW i \in 1..Len(kids[p]), Behind(time, level, mk, fr, p, i),
         NEW o \in Objs, NEW k \in Nat, NEW v \in Nat,
         \E l \in 1..Len(fr) : fr[l].obj = o,
         p = o => i + 1 < k
  PROVE  Behind([time EXCEPT ![<<o, k>>] = v], level, mk, fr, p, i)
  <1> DEFINE new == [time EXCEPT ![<<o, k>>] = v]
             c == kids[p][i]
  <1>1. /\ i \in Nat /\ c \in Objs /\ kids[c] \in Seq(Objs) /\ Len(kids[c]) + 1 \in Nat
        /\ i + 1 \in Nat
    <2>1. kids[p] \in Seq(Objs)
      BY DEF RunSound, GraphSound
    <2>2. i \in Nat /\ c \in Objs
      BY <2>1
    <2>3. QED
      BY <2>2 DEF RunSound, GraphSound
  <1>2. \A q \in Objs, j \in Nat : <<q, j>> # <<o, k>> => new[<<q, j>>] = time[<<q, j>>]
    BY DEF Times
  <1>3. <<p, i>> # <<o, k>> /\ <<p, i + 1>> # <<o, k>>
    BY <1>1
  <1>4. new[<<p, i>>] = time[<<p, i>>] /\ new[<<p, i + 1>>] = time[<<p, i + 1>>]
    BY <1>1, <1>2, <1>3
  <1>5. (\A l \in 1..Len(fr) : fr[l].obj # c) =>
          new[<<c, Len(kids[c]) + 1>>] = time[<<c, Len(kids[c]) + 1>>]
    <2>1. SUFFICES ASSUME \A l \in 1..Len(fr) : fr[l].obj # c
                   PROVE  new[<<c, Len(kids[c]) + 1>>] = time[<<c, Len(kids[c]) + 1>>]
      OBVIOUS
    <2>2. c # o
      BY <2>1
    <2>3. QED
      BY <1>1, <1>2, <2>2
  <1> HIDE DEF new
  <1>6. Behind(new, level, mk, fr, p, i)
    BY <1>4, <1>5 DEF Behind, Entry
  <1>7. QED
    BY <1>6 DEF new

LEMMA SameKids ==
  ASSUME UNCHANGED graph
  PROVE  \A time, level, mk, fr :
           /\ Counted(time, level, mk)' <=> Counted(time, level, mk)
           /\ Told(time, level, mk, fr)' <=> Told(time, level, mk, fr)
           /\ Nested(time, level, mk, fr)' <=> Nested(time, level, mk, fr)
BY DEF graph, Counted, Told, Nested, Behind, Settled, Entry

LEMMA DepthInit == Init => DepthInv
  <1> SUFFICES ASSUME Init PROVE DepthInv
    OBVIOUS
  <1>1. /\ phase = "mark" /\ frames = <<>> /\ depth = 0 /\ root \in Objs
        /\ \A o \in Objs : markers[o] = NONE
    BY InitGraph DEF Init, RunSound, GraphSound
  <1>2. PICK time \in Times, level \in Levels : TRUE
    <2>1. [q \in Objs \X Nat |-> 0] \in Times /\ [o \in Objs |-> 0] \in Levels
      BY DEF Times, Levels
    <2>2. QED
      BY <2>1
  <1>3. Marks(time, level)
    BY <1>1 DEF Marks, Counted, Told, Nested
  <1>4. QED
    BY <1>1, <1>3 DEF DepthInv, Level

-----------------------------------------------------------------------------
(* What a step makes of the frames.                                        *)

LEMMA NextChild ==
  ASSUME RunSound, Visiting, ~Starting, phase = "mark" \/ shuffled = {}
  PROVE  /\ Top.obj \in Objs /\ kids[Top.obj] \in Seq(Objs) /\ Top.next \in Nat
         /\ Top.next \in 1..Len(kids[Top.obj]) /\ Child = kids[Top.obj][Top.next]
         /\ Top = frames[Level] /\ Level \in 1..Level
  <1>1. Level \in 1..Level /\ Top = frames[Level] /\ Top \in FrameType /\ Top.next > 0
    BY LevelFacts DEF RunSound, FramesSound
  <1>2. Top.obj \in Objs /\ Top.next \in Nat
    BY <1>1 DEF FrameType
  <1>3. kids[Top.obj] \in Seq(Objs)
    BY <1>2 DEF RunSound, GraphSound
  <1>4. QED
    BY <1>1, <1>2, <1>3 DEF Visiting, Child, KidsOf

LEMMA NestedAdvanced ==
  ASSUME RunSound, Visiting, phase = "mark" \/ shuffled = {},
         NEW time, NEW level, NEW mk, Nested(time, level, mk, frames)
  PROVE  Nested(time, level, mk, Advanced)
  <1>1. /\ Len(Advanced) = Level /\ Level \in Nat /\ Len(frames) = Level
        /\ \A l \in 1..Level : Advanced[l].obj = frames[l].obj
        /\ \A l \in 1..Level : l # Level => Advanced[l].next = frames[l].next
        /\ ~Starting => /\ Level \in 1..Level /\ Top = frames[Level] /\ Top.next \in Nat
                        /\ Advanced[Level].next = Top.next + 1
    BY AdvancedIs DEF Level
  <1>2. CASE Starting
    BY <1>2 DEF Advanced
  <1>3. CASE ~Starting
    <2>1. Top.next + 1 <= Len(kids[Top.obj]) + 1
      BY <1>3, NextChild
    <2>2. ASSUME NEW l \in 1..Level
          PROVE  /\ level[Advanced[l].obj] = l /\ mk[Advanced[l].obj] # NONE
                 /\ Advanced[l].next <= Len(kids[Advanced[l].obj]) + 1
                 /\ l < Level =>
                      /\ Advanced[l].next - 1 \in 1..Len(kids[Advanced[l].obj])
                      /\ Advanced[l + 1].obj = kids[Advanced[l].obj][Advanced[l].next - 1]
                      /\ Entry(time, mk, Advanced[l].obj, Advanced[l].next - 1)
      <3>1. CASE l = Level
        BY <1>1, <1>3, <2>1, <3>1 DEF Nested
      <3>2. CASE l # Level
        <4>1. l + 1 \in 1..Level
          BY <1>1, <3>2
        <4>2. /\ Advanced[l].obj = frames[l].obj /\ Advanced[l].next = frames[l].next
              /\ Advanced[l + 1].obj = frames[l + 1].obj
          BY <1>1, <3>2, <4>1
        <4>3. /\ level[frames[l].obj] = l /\ mk[frames[l].obj] # NONE
              /\ frames[l].next <= Len(kids[frames[l].obj]) + 1
              /\ l < Level =>
                   /\ frames[l].next - 1 \in 1..Len(kids[frames[l].obj])
                   /\ frames[l + 1].obj = kids[frames[l].obj][frames[l].next - 1]
                   /\ Entry(time, mk, frames[l].obj, frames[l].next - 1)
          BY <1>1 DEF Nested
        <4>4. QED
          BY <4>2, <4>3
      <3>3. QED
        BY <3>1, <3>2
    <2>3. Advanced[1].obj = root
      <3>1. 1 \in 1..Level
        BY <1>1, <1>3
      <3>2. QED
        BY <1>1, <3>1 DEF Nested
    <2>4. QED
      BY <1>1, <2>2, <2>3 DEF Nested
  <1>4. QED
    BY <1>2, <1>3

LEMMA NestedEntered ==
  ASSUME RunSound, Visiting, phase = "mark" \/ shuffled = {}, NEW t \in {0, 1},
         NEW time, NEW level, NEW mk, Nested(time, level, mk, frames),
         mk[Child] # NONE, level[Child] = Level + 1,
         ~Starting => Entry(time, mk, Top.obj, Top.next)
  PROVE  Nested(time, level, mk, Append(Advanced, Frame(Child, t)))
  <1> DEFINE new == Append(Advanced, Frame(Child, t))
  <1>1. /\ Level \in Nat /\ Len(frames) = Level
        /\ \A l \in 1..Level : l # Level => Advanced[l].next = frames[l].next
        /\ ~Starting => Advanced[Level].next = Top.next + 1
    BY AdvancedIs DEF Level
  <1>2. /\ Len(new) = Level + 1
        /\ new[Level + 1].obj = Child /\ new[Level + 1].next = 1
        /\ \A l \in 1..Level : new[l].obj = frames[l].obj /\ new[l].next = Advanced[l].next
    BY EnteredIs
  <1> HIDE DEF new
  <1>3. ASSUME NEW l \in 1..Level
        PROVE  /\ level[new[l].obj] = l /\ mk[new[l].obj] # NONE
               /\ new[l].next <= Len(kids[new[l].obj]) + 1
               /\ new[l].next - 1 \in 1..Len(kids[new[l].obj])
               /\ new[l + 1].obj = kids[new[l].obj][new[l].next - 1]
               /\ Entry(time, mk, new[l].obj, new[l].next - 1)
    <2>1. level[new[l].obj] = l /\ mk[new[l].obj] # NONE
      BY <1>1, <1>2 DEF Nested
    <2>2. CASE l = Level
      <3>1. ~Starting
        BY <1>1, <2>2 DEF Starting
      <3>2. /\ kids[Top.obj] \in Seq(Objs) /\ Top.next \in Nat
            /\ Top.next \in 1..Len(kids[Top.obj]) /\ Child = kids[Top.obj][Top.next]
            /\ Top = frames[Level]
        BY <3>1, NextChild
      <3>3. new[l].obj = Top.obj /\ new[l].next = Top.next + 1 /\ new[l].next - 1 = Top.next
            /\ new[l + 1].obj = Child
        BY <1>1, <1>2, <2>2, <3>1, <3>2
      <3>4. Top.next + 1 <= Len(kids[Top.obj]) + 1
        BY <3>2
      <3>5. QED
        BY <2>1, <3>1, <3>2, <3>3, <3>4
    <2>3. CASE l # Level
      <3>1. l < Level /\ l + 1 \in 1..Level
        BY <1>1, <2>3
      <3>2. /\ new[l].obj = frames[l].obj /\ new[l].next = frames[l].next
            /\ new[l + 1].obj = frames[l + 1].obj
        BY <1>1, <1>2, <2>3, <3>1
      <3>3. /\ frames[l].next <= Len(kids[frames[l].obj]) + 1
            /\ frames[l].next - 1 \in 1..Len(kids[frames[l].obj])
            /\ frames[l + 1].obj = kids[frames[l].obj][frames[l].next - 1]
            /\ Entry(time, mk, frames[l].obj, frames[l].next - 1)
        BY <1>1, <3>1 DEF Nested
      <3>4. QED
        BY <2>1, <3>2, <3>3
    <2>4. QED
      BY <2>2, <2>3
  <1>4. /\ level[new[Level + 1].obj] = Level + 1 /\ mk[new[Level + 1].obj] # NONE
        /\ new[Level + 1].next <= Len(kids[new[Level + 1].obj]) + 1
    <2>1. Child \in Objs
      BY ChildFacts
    <2>2. kids[Child] \in Seq(Objs)
      BY <2>1 DEF RunSound, GraphSound
    <2>3. 1 <= Len(kids[Child]) + 1
      BY <2>2
    <2>4. QED
      BY <1>2, <2>3
  <1>5. new[1].obj = root
    <2>1. CASE Starting
      <3>1. Level = 0 /\ Child = root
        BY <2>1 DEF Starting, Level, Child
      <3>2. QED
        BY <1>2, <3>1
    <2>2. CASE ~Starting
      <3>1. 1 \in 1..Level /\ frames[1].obj = root
        BY <1>1, <2>2, LevelFacts DEF Nested
      <3>2. QED
        BY <1>2, <3>1
    <2>3. QED
      BY <2>1, <2>2
  <1>6. 1..Len(new) = 1..Level \cup {Level + 1} /\ ~(Level + 1 < Level + 1)
    BY <1>1, <1>2
  <1>7. Nested(time, level, mk, new)
    BY <1>2, <1>3, <1>4, <1>5, <1>6 DEF Nested
  <1>8. QED
    BY <1>7 DEF new

LEMMA NestedReturned ==
  ASSUME RunSound, ~Visiting,
         NEW time, NEW level, NEW mk, Nested(time, level, mk, frames)
  PROVE  /\ Nested(time, level, mk, Returned)
         /\ Top.next = Len(kids[Top.obj]) + 1 /\ kids[Top.obj] \in Seq(Objs)
  <1>1. /\ Level \in Nat \ {0} /\ Top = frames[Level] /\ Top.obj \in Objs
        /\ Len(Returned) = Level - 1 /\ Len(frames) = Level
        /\ \A l \in 1..(Level - 1) : Returned[l] = frames[l]
    BY ReturnFacts DEF Level
  <1>2. Top \in FrameType /\ Level \in 1..Level
    BY <1>1, LevelFacts
  <1>3. kids[Top.obj] \in Seq(Objs) /\ Top.next \in Nat
    BY <1>1, <1>2 DEF RunSound, GraphSound, FrameType
  <1>4. ~(Top.next <= Len(kids[Top.obj])) /\ Top.next <= Len(kids[Top.obj]) + 1
    BY <1>1, <1>2 DEF Visiting, Nested
  <1>5. Top.next = Len(kids[Top.obj]) + 1
    BY <1>3, <1>4
  <1> DEFINE m == Level - 1
  <1>6. m \in Nat /\ \A l \in 1..m : l \in 1..Level /\ l < Level /\ (l < m => l + 1 \in 1..m)
    BY <1>1
  <1>7. Len(Returned) = m /\ \A l \in 1..m : Returned[l] = frames[l]
    BY <1>1
  <1> HIDE DEF m
  <1>8. ASSUME NEW l \in 1..m
        PROVE  /\ level[Returned[l].obj] = l /\ mk[Returned[l].obj] # NONE
               /\ Returned[l].next <= Len(kids[Returned[l].obj]) + 1
               /\ l < m =>
                    /\ Returned[l].next - 1 \in 1..Len(kids[Returned[l].obj])
                    /\ Returned[l + 1].obj = kids[Returned[l].obj][Returned[l].next - 1]
                    /\ Entry(time, mk, Returned[l].obj, Returned[l].next - 1)
    BY <1>1, <1>6, <1>7 DEF Nested
  <1>9. m > 0 => Returned[1].obj = root
    BY <1>1, <1>6, <1>7 DEF Nested
  <1>10. QED
    BY <1>3, <1>5, <1>7, <1>8, <1>9 DEF Nested

LEMMA NestedKept ==
  ASSUME RunSound, NEW time \in Times, NEW level, NEW mk, Nested(time, level, mk, frames),
         NEW o \in Objs, NEW k \in Nat, NEW v \in Nat,
         \A l \in 1..Level : l < Level /\ frames[l].obj = o => frames[l].next - 1 # k
  PROVE  Nested([time EXCEPT ![<<o, k>>] = v], level, mk, frames)
  <1> DEFINE new == [time EXCEPT ![<<o, k>>] = v]
  <1>1. \A q \in Objs, j \in Nat : <<q, j>> # <<o, k>> => new[<<q, j>>] = time[<<q, j>>]
    BY DEF Times
  <1> HIDE DEF new
  <1>2. ASSUME NEW l \in 1..Level, l < Level
        PROVE  Entry(new, mk, frames[l].obj, frames[l].next - 1)
    <2>1. frames[l].obj \in Objs /\ kids[frames[l].obj] \in Seq(Objs)
      BY LevelFacts DEF RunSound, GraphSound
    <2>2. frames[l].next - 1 \in 1..Len(kids[frames[l].obj])
      BY <1>2 DEF Nested, Level
    <2>3. frames[l].next - 1 \in Nat
      BY <2>1, <2>2
    <2>4. new[<<frames[l].obj, frames[l].next - 1>>] = time[<<frames[l].obj, frames[l].next - 1>>]
      BY <1>1, <1>2, <2>1, <2>3
    <2>5. Entry(time, mk, frames[l].obj, frames[l].next - 1)
      BY <1>2 DEF Nested, Level
    <2>6. QED
      BY <2>4, <2>5 DEF Entry
  <1>3. Nested(new, level, mk, frames)
    BY <1>2 DEF Nested, Level
  <1>4. QED
    BY <1>3 DEF new

(* The mark phase after a step, said of the new frames and numbers.        *)
LEMMA MarksPrimed ==
  ASSUME UNCHANGED graph, NEW time, NEW level,
         Counted(time, level, markers'), Told(time, level, markers', frames'),
         Nested(time, level, markers', frames'), frames' # <<>>,
         time[<<frames'[Len(frames')].obj, frames'[Len(frames')].next>>] = Cardinality(Marked')
  PROVE  Marks(time, level)'
  <1>1. Counted(time, level, markers)'
    BY DEF Counted, graph
  <1>2. Told(time, level, markers, frames)'
    <2>1. kids' = kids
      BY DEF graph
    <2>2. \A fr, mk, q, i : Behind(time, level, mk, fr, q, i)' <=> Behind(time, level, mk, fr, q, i)
      BY <2>1 DEF Behind, Entry
    <2>3. QED
      BY <2>1 DEF Told, Behind, Settled, Entry
  <1>3. Nested(time, level, markers, frames)'
    BY DEF Nested, Entry, graph
  <1>4. QED
    BY <1>1, <1>2, <1>3 DEF Marks, Top, Level

-----------------------------------------------------------------------------
(* The mark phase.                                                         *)

LEMMA DepthAgain ==
  ASSUME RunSound, MarksSound, MarkInv, ~Json, MarkAgain,
         NEW time \in Times, NEW level \in Levels, Marks(time, level)
  PROVE  \E u \in Times : Marks(u, level)'
  <1> DEFINE p == Top.obj
             n == Top.next
             v == time[<<p, n>>]
             new == [time EXCEPT ![<<p, n + 1>>] = v]
  <1>1. /\ phase = "mark" /\ Visiting /\ Child \in Marked /\ ~Starting /\ Marking = frames
        /\ frames' = Advanced /\ UNCHANGED graph /\ markers' = markers
    <2>1. /\ phase = "mark" /\ Visiting /\ markers[Child] # NONE /\ MarkNode(Child)
          /\ frames' = Advanced /\ UNCHANGED graph
      BY DEF MarkAgain, TurnsBack
    <2>2. Child \in Marked /\ markers' = markers
      BY <2>1, ChildFacts DEF Marked, MarkNode
    <2>3. QED
      BY <2>1, <2>2 DEF MarkInv, Starting, Marking
  <1>2. /\ p \in Objs /\ kids[p] \in Seq(Objs) /\ n \in Nat /\ n \in 1..Len(kids[p])
        /\ Child = kids[p][n] /\ Top = frames[Level] /\ Level \in 1..Level
        /\ Level \in Nat /\ Len(Advanced) = Level /\ Len(frames) = Level
        /\ \A l \in 1..Level : Advanced[l].obj = frames[l].obj
        /\ \A l \in 1..Level : l # Level => Advanced[l].next = frames[l].next
        /\ Advanced[Level].next = n + 1
    BY <1>1, NextChild, AdvancedIs DEF Level
  <1>3. \A l \in 1..Level : frames[l].obj = p => l = Level
    BY <1>1, <1>2 DEF MarkInv, MarkedOnce, Walk
  <1>4. /\ v = Cardinality(Marked) /\ v \in Nat /\ n + 1 \in Nat
        /\ Counted(time, level, markers) /\ Told(time, level, markers, frames)
        /\ Nested(time, level, markers, frames)
    BY <1>1, <1>2, MarkedFinite DEF Marks, Starting
  <1>5. /\ new \in Times /\ new[<<p, n + 1>>] = v
        /\ \A q \in Objs, j \in Nat : <<q, j>> # <<p, n + 1>> => new[<<q, j>>] = time[<<q, j>>]
    BY <1>2, <1>4 DEF Times
  <1>6. ASSUME NEW q \in Objs, NEW i \in 1..Len(kids[q]),
               Behind(time, level, markers, frames, q, i), q = p => i + 1 < n + 1
        PROVE  Behind(new, level, markers, frames, q, i)
    <2>1. \E l \in 1..Len(frames) : frames[l].obj = p
      BY <1>2
    <2> HIDE DEF v, p, n
    <2>2. QED
      BY <1>2, <1>4, <1>6, <2>1, BehindKept
  <1>7. Nested(new, level, markers, frames)
    <2>1. \A l \in 1..Level : l < Level /\ frames[l].obj = p => frames[l].next - 1 # n + 1
      BY <1>2, <1>3
    <2> HIDE DEF v, p, n
    <2>2. QED
      BY <1>2, <1>4, <2>1, NestedKept
  <1> HIDE DEF new, v, p, n
  <1>8. Nested(new, level, markers', frames')
    BY <1>1, <1>7, NestedAdvanced
  <1>9. Counted(new, level, markers')
    <2>1. \A o \in Objs : <<o, 1>> # <<p, n + 1>>
      BY <1>2
    <2>2. \A o \in Objs : new[<<o, 1>>] = time[<<o, 1>>]
      BY <1>5, <2>1
    <2>3. QED
      BY <1>1, <1>4, <2>2 DEF Counted
  <1>10. ASSUME NEW q \in Objs, markers[q] # NONE, NEW i \in 1..Len(kids[q]),
                Settled(Advanced, q, i)
         PROVE  Behind(new, level, markers, Advanced, q, i)
    <2>1. i \in Nat
      <3>1. kids[q] \in Seq(Objs)
        BY DEF RunSound, GraphSound
      <3>2. QED
        BY <3>1
    <2>2. q = p => i < n + 1
      BY <1>2, <1>10 DEF Settled, p
    <2>3. CASE q = p /\ i = n
      <3>1. markers[Child] \in 1..Cardinality(Marked)
        BY <1>1 DEF MarksSound, NumbersOnce
      <3>2. <<p, n>> # <<p, n + 1>> /\ new[<<p, n>>] = time[<<p, n>>]
        BY <1>2, <1>5
      <3>3. markers[kids[q][i]] <= new[<<q, i>>] /\ new[<<q, i + 1>>] = new[<<q, i>>]
        BY <1>2, <1>4, <1>5, <2>3, <3>1, <3>2 DEF v
      <3>4. markers[kids[q][i]] # NONE
        BY <1>1, <1>2, <2>3 DEF Marked
      <3>5. QED
        BY <3>3, <3>4 DEF Behind
    <2>4. CASE ~(q = p /\ i = n)
      <3>1. q = p => i < n /\ i + 1 < n + 1
        BY <1>2, <2>1, <2>2, <2>4
      <3>2. Settled(frames, q, i)
        BY <1>2, <1>10, <3>1 DEF Settled, p, n
      <3>3. Behind(time, level, markers, frames, q, i)
        BY <1>4, <1>10, <3>2 DEF Told
      <3>4. Behind(new, level, markers, frames, q, i)
        BY <1>6, <3>1, <3>3
      <3>5. QED
        BY <1>2, <3>4 DEF Behind
    <2>5. QED
      BY <2>3, <2>4
  <1>11. Told(new, level, markers', frames')
    BY <1>1, <1>10 DEF Told
  <1>12. /\ frames' # <<>> /\ Marked' = Marked
         /\ new[<<frames'[Len(frames')].obj, frames'[Len(frames')].next>>] = Cardinality(Marked')
    <2>1. frames' # <<>>
      BY <1>1, <1>2
    <2>2. Marked' = Marked
      BY <1>1 DEF Marked
    <2>3. QED
      BY <1>1, <1>2, <1>4, <1>5, <2>1, <2>2 DEF p
  <1>13. QED
    <2>1. PICK u \in Times : u = new
      BY <1>5
    <2>2. /\ Counted(u, level, markers') /\ Told(u, level, markers', frames')
          /\ Nested(u, level, markers', frames')
          /\ u[<<frames'[Len(frames')].obj, frames'[Len(frames')].next>>] = Cardinality(Marked')
      BY <1>8, <1>9, <1>11, <1>12, <2>1
    <2>3. Marks(u, level)'
      BY <1>1, <1>12, <2>2, MarksPrimed
    <2>4. QED
      BY <2>3

LEMMA DepthEnter ==
  ASSUME RunSound, MarksSound, MarkInv, ~Json, MarkEnter, phase' # "croaked", depth = Level,
         NEW time \in Times, NEW level \in Levels, Marks(time, level)
  PROVE  \E u \in Times, w \in Levels : Marks(u, w)'
  <1> DEFINE c == Child
             N == Cardinality(Marked) + 1
             new == [time EXCEPT ![<<c, 1>>] = N]
             lev == [level EXCEPT ![c] = Level + 1]
  <1>1. /\ phase = "mark" /\ Visiting /\ c \in Objs /\ c \notin Marked /\ Marking = frames
        /\ Level + 1 < MaxDepth /\ UNCHANGED graph
        /\ frames' = Append(Advanced, Frame(c, 0))
        /\ markers' = [markers EXCEPT ![c] = N]
    <2>1. /\ phase = "mark" /\ Visiting /\ markers[Child] = NONE /\ MarkNode(Child)
          /\ UNCHANGED graph
          /\ IF Level + 1 >= MaxDepth THEN phase' = "croaked" /\ frames' = <<>>
             ELSE frames' = Append(Advanced, Frame(Child, 0)) /\ UNCHANGED phase
      BY DEF MarkEnter, TurnsBack
    <2>2. ~(Level + 1 >= MaxDepth) /\ frames' = Append(Advanced, Frame(Child, 0))
      BY <2>1
    <2>3. Level + 1 \in Nat /\ MaxDepth \in Nat
      BY LevelFacts, DumpAssumption
    <2>4. Level + 1 < MaxDepth
      BY <2>2, <2>3
    <2>5. markers' = [markers EXCEPT ![Child] = Cardinality(Marked) + 1]
      BY <2>1 DEF MarkNode
    <2>6. Child \in Objs /\ Child \notin Marked
      BY <2>1, ChildFacts DEF Marked
    <2>7. QED
      BY <2>1, <2>2, <2>4, <2>5, <2>6 DEF Marking
  <1>2. /\ Level \in Nat /\ Len(frames) = Level
        /\ \A l \in 1..Level : l # Level => Advanced[l].next = frames[l].next
        /\ ~Starting => /\ Level \in 1..Level /\ Top = frames[Level] /\ Top.next \in Nat
                        /\ Advanced[Level].next = Top.next + 1
    BY <1>1, AdvancedIs DEF Level
  <1>3. /\ Len(frames') = Level + 1
        /\ frames'[Level + 1].obj = c /\ frames'[Level + 1].next = 1
        /\ \A l \in 1..Level : frames'[l].obj = frames[l].obj /\ frames'[l].next = Advanced[l].next
    BY <1>1, EnteredIs
  <1>4. \A l \in 1..Level : frames[l].obj \in Marked /\ frames[l].obj # c /\ frames[l].obj \in Objs
    BY <1>1, <1>2 DEF MarkInv, MarkedOnce, Walk, Marked
  <1>5. /\ N \in Nat /\ Cardinality(Marked) \in Nat /\ N # NONE
        /\ Counted(time, level, markers) /\ Told(time, level, markers, frames)
        /\ Nested(time, level, markers, frames)
        /\ ~Starting => time[<<Top.obj, Top.next>>] = Cardinality(Marked)
    BY MarkedFinite, KindsFacts DEF Marks, Starting
  <1>6. /\ new \in Times /\ new[<<c, 1>>] = N
        /\ \A q \in Objs, j \in Nat : q # c => new[<<q, j>>] = time[<<q, j>>]
    BY <1>1, <1>5 DEF Times
  <1>7. /\ lev \in Levels /\ lev[c] = Level + 1
        /\ \A q \in Objs : q # c => lev[q] = level[q]
    BY <1>1, <1>2 DEF Levels
  <1>8. /\ markers'[c] = N
        /\ \A q \in Objs : q # c => markers'[q] = markers[q]
    BY <1>1 DEF MarksSound, NumbersType
  <1>9. markers[c] = NONE
    BY <1>1 DEF Marked
  <1>10. Marked' = Marked \cup {c} /\ Cardinality(Marked') = N
    <2>1. Marked' = Marked \cup {c}
      BY <1>1, <1>5, <1>8 DEF Marked
    <2>2. QED
      BY <1>1, <2>1, MarkedFinite, FS_AddElement
  <1>11. Nested(new, level, markers, frames)
    <2>1. \A l \in 1..Level : l < Level /\ frames[l].obj = c => frames[l].next - 1 # 1
      BY <1>4
    <2> HIDE DEF c, N
    <2>2. QED
      BY <1>1, <1>5, <2>1, NestedKept
  <1> HIDE DEF new, lev, N, c
  <1>12. Nested(new, lev, markers', frames)
    <2>1. ASSUME NEW l \in 1..Level, l < Level,
                 Entry(new, markers, frames[l].obj, frames[l].next - 1)
          PROVE  Entry(new, markers', frames[l].obj, frames[l].next - 1)
      <3>1. l + 1 \in 1..Level
        BY <1>2, <2>1
      <3>2. frames[l + 1].obj = kids[frames[l].obj][frames[l].next - 1]
        BY <1>2, <1>11, <2>1 DEF Nested
      <3>3. QED
        BY <1>4, <1>8, <2>1, <3>1, <3>2 DEF Entry
    <2>2. \A l \in 1..Level : lev[frames[l].obj] = level[frames[l].obj]
                              /\ markers'[frames[l].obj] = markers[frames[l].obj]
      BY <1>4, <1>7, <1>8
    <2>3. QED
      BY <1>2, <1>11, <2>1, <2>2 DEF Nested
  <1>13. ~Starting => Entry(new, markers', Top.obj, Top.next)
    <2> SUFFICES ASSUME ~Starting PROVE Entry(new, markers', Top.obj, Top.next)
      OBVIOUS
    <2>1. Top.obj \in Objs /\ Top.obj # c /\ Top.next \in Nat
      BY <1>2, <1>4
    <2>2. kids[Top.obj][Top.next] = c
      BY <1>1, NextChild DEF c
    <2>3. new[<<Top.obj, Top.next>>] = Cardinality(Marked)
      BY <1>5, <1>6, <2>1
    <2>4. QED
      BY <1>8, <2>2, <2>3 DEF Entry, N
  <1>14. Nested(new, lev, markers', frames')
    <2>1. markers'[Child] # NONE /\ lev[Child] = Level + 1 /\ 0 \in {0, 1}
      BY <1>5, <1>7, <1>8 DEF c
    <2>2. frames' = Append(Advanced, Frame(Child, 0))
      BY <1>1 DEF c
    <2>3. QED
      BY <1>1, <1>12, <1>13, <2>1, <2>2, NestedEntered
  <1>15. Counted(new, lev, markers')
    <2>1. \A o \in Objs : markers'[o] # NONE => new[<<o, 1>>] = markers'[o] /\ lev[o] < MaxDepth
      <3> SUFFICES ASSUME NEW o \in Objs, markers'[o] # NONE
                   PROVE  new[<<o, 1>>] = markers'[o] /\ lev[o] < MaxDepth
        OBVIOUS
      <3>1. CASE o = c
        BY <1>1, <1>6, <1>7, <1>8, <3>1
      <3>2. CASE o # c
        BY <1>5, <1>6, <1>7, <1>8, <3>2 DEF Counted
      <3>3. QED
        BY <3>1, <3>2
    <2>2. root \in Objs
      BY DEF RunSound, GraphSound
    <2>3. CASE root = c
      <3>1. Starting
        <4> SUFFICES ASSUME ~Starting PROVE FALSE
          OBVIOUS
        <4>1. 1 \in 1..Level
          BY <1>2
        <4>2. frames[1].obj = root
          BY <1>2, <1>5, <4>1 DEF Nested
        <4>3. QED
          BY <1>4, <2>3, <4>1, <4>2
      <3>2. Marked = {} /\ Level = 0
        BY <1>1, <3>1 DEF MarkInv, Starting, Level
      <3>3. N = 1
        BY <3>2, FS_EmptySet DEF N
      <3>4. QED
        BY <1>7, <1>8, <2>1, <2>3, <3>2, <3>3 DEF Counted
    <2>4. CASE root # c
      BY <1>5, <1>7, <1>8, <2>1, <2>2, <2>4 DEF Counted
    <2>5. QED
      BY <2>3, <2>4
  <1>16. ASSUME NEW q \in Objs, markers'[q] # NONE, NEW i \in 1..Len(kids[q]),
                Settled(frames', q, i)
         PROVE  Behind(new, lev, markers', frames', q, i)
    <2> DEFINE k == kids[q][i]
    <2>1. i \in Nat /\ i > 0 /\ i + 1 \in Nat /\ k \in Objs /\ Len(kids[k]) + 1 \in Nat
      <3>1. kids[q] \in Seq(Objs)
        BY DEF RunSound, GraphSound
      <3>2. i \in Nat /\ i > 0 /\ i + 1 \in Nat /\ k \in Objs
        BY <3>1
      <3>3. QED
        BY <3>2 DEF RunSound, GraphSound
    <2>2. q # c
      <3> SUFFICES ASSUME q = c PROVE FALSE
        OBVIOUS
      <3>1. Level + 1 \in 1..Len(frames') /\ Level + 1 = Len(frames')
        BY <1>2, <1>3
      <3>2. i < 1
        BY <1>3, <1>16, <3>1 DEF Settled
      <3>3. QED
        BY <2>1, <3>2
    <2>3. Settled(frames, q, i)
      <3> SUFFICES ASSUME NEW l \in 1..Level, frames[l].obj = q
                   PROVE  IF l = Level THEN i < frames[l].next ELSE i + 1 < frames[l].next
        BY <1>2 DEF Settled
      <3>1. l \in 1..Len(frames') /\ l # Len(frames') /\ frames'[l].obj = q
        BY <1>2, <1>3
      <3>2. i + 1 < Advanced[l].next
        BY <1>3, <1>16, <3>1 DEF Settled
      <3>3. CASE l = Level
        <4>1. ~Starting
          BY <1>2, <3>3 DEF Starting
        <4>2. i + 1 < Top.next + 1
          BY <1>2, <3>2, <3>3, <4>1
        <4>3. QED
          BY <1>2, <2>1, <3>3, <4>1, <4>2
      <3>4. CASE l # Level
        BY <1>2, <3>2, <3>4
      <3>5. QED
        BY <3>3, <3>4
    <2>4. markers'[q] = markers[q] /\ lev[q] = level[q]
      BY <1>7, <1>8, <2>2
    <2>5. Behind(time, level, markers, frames, q, i)
      BY <1>5, <1>16, <2>3, <2>4 DEF Told
    <2>6. k # c /\ markers'[k] = markers[k] /\ lev[k] = level[k] /\ markers'[k] # NONE
      BY <1>7, <1>8, <1>9, <2>1, <2>5 DEF Behind
    <2>7. /\ new[<<q, i>>] = time[<<q, i>>] /\ new[<<q, i + 1>>] = time[<<q, i + 1>>]
          /\ new[<<k, Len(kids[k]) + 1>>] = time[<<k, Len(kids[k]) + 1>>]
      BY <1>6, <2>1, <2>2, <2>6
    <2>8. (\A l \in 1..Len(frames) : frames[l].obj # k) =>
            \A l \in 1..Len(frames') : frames'[l].obj # k
      <3> SUFFICES ASSUME \A l \in 1..Level : frames[l].obj # k, NEW l \in 1..(Level + 1)
                   PROVE  frames'[l].obj # k
        BY <1>2, <1>3
      <3>1. l \in 1..Level \/ l = Level + 1
        BY <1>2
      <3>2. QED
        BY <1>3, <2>6, <3>1
    <2> HIDE DEF k
    <2>9. k = kids[q][i]
      BY DEF k
    <2>10. QED
      BY <2>4, <2>5, <2>6, <2>7, <2>8, <2>9 DEF Behind, Entry
  <1>17. Told(new, lev, markers', frames')
    BY <1>16 DEF Told
  <1>18. frames' # <<>> /\ new[<<frames'[Len(frames')].obj, frames'[Len(frames')].next>>] = N
    BY <1>2, <1>3, <1>6
  <1>19. QED
    <2>1. PICK u \in Times, w \in Levels : u = new /\ w = lev
      BY <1>6, <1>7
    <2>2. /\ Counted(u, w, markers') /\ Told(u, w, markers', frames')
          /\ Nested(u, w, markers', frames')
          /\ u[<<frames'[Len(frames')].obj, frames'[Len(frames')].next>>] = Cardinality(Marked')
      BY <1>10, <1>14, <1>15, <1>17, <1>18, <2>1
    <2>3. Marks(u, w)'
      BY <1>1, <1>18, <2>2, MarksPrimed
    <2>4. QED
      BY <2>3

LEMMA DepthReturn ==
  ASSUME RunSound, MarksSound, MarkInv, ~Json, MarkLeave, Level # 1,
         NEW time \in Times, NEW level \in Levels, Marks(time, level)
  PROVE  \E u \in Times : Marks(u, level)'
  <1> DEFINE m == Level - 1
             p == frames[m].obj
             k == frames[m].next
             c == Top.obj
             v == Cardinality(Marked)
             new == [time EXCEPT ![<<p, k>>] = v]
  <1>1. /\ phase = "mark" /\ ~Visiting /\ UNCHANGED graph /\ markers' = markers
        /\ frames' = Returned /\ Marking = frames
    BY DEF MarkLeave, Marking
  <1>2. /\ Level \in Nat /\ Level > 1 /\ Top = frames[Level] /\ c \in Objs
        /\ Len(Returned) = m /\ Len(frames) = Level
        /\ \A l \in 1..m : Returned[l] = frames[l]
    BY <1>1, ReturnFacts DEF Level
  <1>3. /\ m \in Nat /\ m \in 1..m /\ m \in 1..Level /\ m < Level /\ m + 1 = Level
        /\ \A l \in 1..Level : l = Level \/ l = m \/ (l < m /\ l \in 1..m)
        /\ \A l \in 1..m : l \in 1..Level /\ l # Level
    BY <1>2
  <1>4. /\ v \in Nat
        /\ Counted(time, level, markers) /\ Told(time, level, markers, frames)
        /\ Nested(time, level, markers, frames)
        /\ time[<<c, Top.next>>] = v
    <2>1. frames # <<>>
      BY <1>2 DEF Level
    <2>2. QED
      BY <2>1, MarkedFinite DEF Marks
  <1>5. \A l, j \in 1..Level : frames[l].obj = frames[j].obj => l = j
    BY <1>1, <1>2 DEF MarkInv, MarkedOnce, Walk
  <1>6. /\ p \in Objs /\ k \in Nat /\ kids[p] \in Seq(Objs) /\ kids[c] \in Seq(Objs)
        /\ p # c /\ level[p] = m /\ level[c] = Level /\ markers[c] # NONE
        /\ k - 1 \in 1..Len(kids[p]) /\ k - 1 \in Nat /\ k # 1 /\ (k - 1) + 1 = k
        /\ c = kids[p][k - 1] /\ Entry(time, markers, p, k - 1)
    <2>1. p \in Objs /\ k \in Nat /\ kids[p] \in Seq(Objs) /\ kids[c] \in Seq(Objs)
      BY <1>2, <1>3, LevelFacts DEF RunSound, GraphSound, FrameType
    <2>2. /\ level[p] = m /\ k - 1 \in 1..Len(kids[p])
          /\ frames[m + 1].obj = kids[p][k - 1] /\ Entry(time, markers, p, k - 1)
      BY <1>2, <1>3, <1>4 DEF Nested
    <2>3. level[c] = Level /\ markers[c] # NONE
      <3>1. Level \in 1..Level
        BY <1>2
      <3>2. QED
        BY <1>2, <1>4, <3>1 DEF Nested
    <2>4. p # c
      BY <1>2, <1>3, <1>5
    <2>5. c = kids[p][k - 1]
      BY <1>2, <1>3, <2>2
    <2> HIDE DEF p, k, c, m
    <2>6. k - 1 \in Nat /\ k # 1 /\ (k - 1) + 1 = k
      BY <2>1, <2>2
    <2>7. QED
      BY <2>1, <2>2, <2>3, <2>4, <2>5, <2>6
  <1>7. /\ new \in Times /\ new[<<p, k>>] = v
        /\ \A q \in Objs, j \in Nat : <<q, j>> # <<p, k>> => new[<<q, j>>] = time[<<q, j>>]
    BY <1>4, <1>6 DEF Times
  <1>8. ASSUME NEW q \in Objs, NEW i \in 1..Len(kids[q]),
               Behind(time, level, markers, frames, q, i), q = p => i + 1 < k
        PROVE  Behind(new, level, markers, frames, q, i)
    <2>1. \E l \in 1..Len(frames) : frames[l].obj = p
      BY <1>2, <1>3
    <2> HIDE DEF v, p, k
    <2>2. QED
      BY <1>4, <1>6, <1>8, <2>1, BehindKept
  <1>9. Nested(new, level, markers, frames)
    <2>1. ASSUME NEW l \in 1..Level, l < Level, frames[l].obj = p PROVE frames[l].next - 1 # k
      <3>1. l = m
        BY <1>3, <1>5, <2>1
      <3>2. QED
        BY <1>6, <3>1
    <2> HIDE DEF v, p, k
    <2>2. QED
      BY <1>4, <1>6, <2>1, NestedKept
  <1>10. Top.next = Len(kids[c]) + 1
    BY <1>1, <1>4, NestedReturned
  <1> HIDE DEF new, v, p, k, c, m
  <1>11. Nested(new, level, markers', frames')
    BY <1>1, <1>9, NestedReturned
  <1>12. Counted(new, level, markers')
    <2>1. \A o \in Objs : <<o, 1>> # <<p, k>>
      BY <1>6
    <2>2. \A o \in Objs : new[<<o, 1>>] = time[<<o, 1>>]
      BY <1>7, <2>1
    <2>3. QED
      BY <1>1, <1>4, <2>2 DEF Counted
  <1>13. ASSUME NEW q \in Objs, markers[q] # NONE, NEW i \in 1..Len(kids[q]),
                Settled(Returned, q, i)
         PROVE  Behind(new, level, markers, Returned, q, i)
    <2>1. i \in Nat /\ \A n \in Nat : i = n \/ i # n
      <3>1. kids[q] \in Seq(Objs)
        BY DEF RunSound, GraphSound
      <3>2. QED
        BY <3>1
    <2>2. q = p => i < k
      BY <1>2, <1>3, <1>13 DEF Settled, p, k
    <2>3. CASE q = p /\ i = k - 1
      <3>1. kids[q][i] = c /\ i + 1 = k
        BY <1>6, <2>3
      <3>2. new[<<p, k - 1>>] = time[<<p, k - 1>>]
        <4>1. k - 1 # k
          BY <1>6
        <4>2. <<p, k - 1>> # <<p, k>>
          BY <4>1
        <4>3. QED
          BY <1>6, <1>7, <4>2
      <3>3. Entry(new, markers, p, k - 1)
        BY <1>6, <3>2 DEF Entry
      <3>4. new[<<c, Len(kids[c]) + 1>>] = v
        <4>1. Len(kids[c]) + 1 \in Nat /\ c \in Objs
          BY <1>2, <1>6
        <4>2. new[<<c, Len(kids[c]) + 1>>] = time[<<c, Len(kids[c]) + 1>>]
          BY <1>6, <1>7, <4>1
        <4>3. QED
          BY <1>4, <1>10, <4>2 DEF c
      <3>5. level[c] = level[p] + 1
        BY <1>3, <1>6
      <3>6. \A l \in 1..Len(Returned) : Returned[l].obj # c
        <4> SUFFICES ASSUME NEW l \in 1..m PROVE frames[l].obj # c
          BY <1>2
        <4>1. l \in 1..Level /\ l # Level /\ Level \in 1..Level
          BY <1>2, <1>3
        <4>2. QED
          BY <1>2, <1>5, <4>1 DEF c
      <3>7. QED
        BY <1>6, <1>7, <2>3, <3>1, <3>3, <3>4, <3>5, <3>6 DEF Behind
    <2>4. CASE ~(q = p /\ i = k - 1)
      <3>1. q = p => i + 1 < k
        BY <1>6, <2>1, <2>2, <2>4
      <3>2. Settled(frames, q, i)
        <4> SUFFICES ASSUME NEW l \in 1..Level, frames[l].obj = q
                     PROVE  IF l = Level THEN i < frames[l].next ELSE i + 1 < frames[l].next
          BY <1>2 DEF Settled
        <4>1. CASE l = Level
          <5>1. q = c /\ kids[c] \in Seq(Objs) /\ i \in 1..Len(kids[c])
            BY <1>2, <1>6, <4>1 DEF c
          <5>2. i < Len(kids[c]) + 1
            BY <5>1
          <5>3. QED
            BY <1>2, <1>10, <4>1, <5>2
        <4>2. CASE l = m
          BY <1>3, <3>1, <4>2 DEF p, k
        <4>3. CASE l < m /\ l \in 1..m
          <5>1. l # m /\ l # Level
            BY <1>3, <4>3
          <5>2. i + 1 < Returned[l].next
            BY <1>2, <1>13, <4>3, <5>1 DEF Settled
          <5>3. QED
            BY <1>2, <4>3, <5>1, <5>2
        <4>4. QED
          BY <1>3, <4>1, <4>2, <4>3
      <3>3. Behind(time, level, markers, frames, q, i)
        BY <1>4, <1>13, <3>2 DEF Told
      <3>4. Behind(new, level, markers, frames, q, i)
        BY <1>8, <3>1, <3>3
      <3>5. \A o : (\A l \in 1..Len(frames) : frames[l].obj # o) =>
                     \A l \in 1..Len(Returned) : Returned[l].obj # o
        BY <1>2, <1>3
      <3>6. QED
        BY <3>4, <3>5 DEF Behind
    <2>5. QED
      BY <2>3, <2>4
  <1>14. Told(new, level, markers', frames')
    BY <1>1, <1>13 DEF Told
  <1>15. /\ frames' # <<>> /\ Marked' = Marked
         /\ new[<<frames'[Len(frames')].obj, frames'[Len(frames')].next>>] = v
    <2>1. Len(frames') = m /\ frames'[m] = frames[m] /\ m > 0
      BY <1>1, <1>2, <1>3
    <2>2. Marked' = Marked
      BY <1>1 DEF Marked
    <2>3. QED
      BY <1>7, <2>1, <2>2 DEF p, k
  <1>16. QED
    <2>1. PICK u \in Times : u = new
      BY <1>7
    <2>2. /\ Counted(u, level, markers') /\ Told(u, level, markers', frames')
          /\ Nested(u, level, markers', frames')
          /\ u[<<frames'[Len(frames')].obj, frames'[Len(frames')].next>>] = Cardinality(Marked')
      BY <1>11, <1>12, <1>14, <1>15, <2>1 DEF v
    <2>3. Marks(u, level)'
      BY <1>1, <1>15, <2>2, MarksPrimed
    <2>4. QED
      BY <2>3

(* When the mark phase is over, all of its arcs are behind it.             *)
LEMMA DepthBegin ==
  ASSUME RunSound, MarksSound, MarkInv, ~Json, MarkLeave, Level = 1,
         NEW time \in Times, NEW level \in Levels, Marks(time, level)
  PROVE  \E V \in SUBSET Objs : Emits(time, level, V)'
  <1>1. /\ phase = "mark" /\ phase' = "emit" /\ ~Visiting /\ UNCHANGED graph /\ markers' = markers
        /\ frames' = Returned /\ kids' = kids /\ root' = root
    BY DEF MarkLeave, graph
  <1>2. /\ Top = frames[1] /\ Len(frames) = 1 /\ 1 \in 1..1 /\ frames' = <<>> /\ Top.obj \in Objs
    <2>1. Returned \in Seq(FrameType) /\ Len(Returned) = 0 /\ Top = frames[1] /\ Len(frames) = 1
          /\ Top.obj \in Objs
      BY <1>1, ReturnFacts DEF Level
    <2>2. QED
      BY <1>1, <2>1
  <1>3. /\ Counted(time, level, markers) /\ Told(time, level, markers, frames)
        /\ Nested(time, level, markers, frames)
    BY DEF Marks
  <1>4. Top.next = Len(kids[Top.obj]) + 1 /\ kids[Top.obj] \in Seq(Objs)
    BY <1>1, <1>3, NestedReturned
  <1>5. Told(time, level, markers, <<>>)
    <2> SUFFICES ASSUME NEW q \in Objs, markers[q] # NONE, NEW i \in 1..Len(kids[q])
                 PROVE  Behind(time, level, markers, <<>>, q, i)
      BY DEF Told
    <2>1. Settled(frames, q, i)
      <3>1. q = Top.obj => i < Top.next
        BY <1>4
      <3>2. \A l \in 1..Len(frames) : l = 1
        BY <1>2
      <3>3. QED
        BY <1>2, <3>1, <3>2 DEF Settled
    <2>2. Behind(time, level, markers, frames, q, i)
      BY <1>3, <2>1 DEF Told
    <2>3. \A l \in 1..Len(<<>>) : FALSE
      OBVIOUS
    <2>4. QED
      BY <2>2, <2>3 DEF Behind
  <1>6. \A o \in Marked : ~(markers[o] <= 0)
    <2>1. \A o \in Marked : markers[o] \in 1..Cardinality(Marked)
      BY DEF MarksSound, NumbersOnce
    <2>2. QED
      BY <2>1, MarkedFinite
  <1>7. PICK V \in SUBSET Objs : V = {}
    OBVIOUS
  <1>8. EmitInv(V)'
    <2>1. EmitInv({})'
      BY <1>1, EmitInvBegin
    <2>2. QED
      BY <1>7, <2>1
  <1>9. Seen(time)' = 0 /\ Marked' = Marked
    BY <1>1, <1>2 DEF Seen, Marked
  <1>10. (V = {o \in Marked \ Regexps : markers[o] <= Seen(time)})'
    BY <1>1, <1>6, <1>7, <1>9
  <1>11. Counted(time, level, markers)' /\ Nested(time, level, markers, frames)'
    BY <1>1, <1>2, <1>3 DEF Counted, Nested
  <1>12. Told(time, level, markers, <<>>)'
    BY <1>1, <1>5 DEF Told, Behind, Settled, Entry
  <1>13. Emits(time, level, V)'
    BY <1>8, <1>10, <1>11, <1>12 DEF Emits
  <1>14. QED
    BY <1>13

-----------------------------------------------------------------------------
(* The emit phase.                                                         *)

(* The values numbered up to s.                                            *)
Upto(s) == {o \in Marked \ Regexps : markers[o] <= s}

LEMMA UptoNext ==
  ASSUME MarksSound, ~Json, NEW s \in Nat, NEW c \in Marked, markers[c] = s + 1
  PROVE  Upto(s + 1) = Upto(s) \cup ({c} \ Regexps)
  <1>1. \A o \in Marked : markers[o] \in Nat
    <2>1. \A o \in Marked : markers[o] \in 1..Cardinality(Marked)
      BY DEF MarksSound, NumbersOnce
    <2>2. QED
      BY <2>1, MarkedFinite
  <1>2. \A o \in Marked : markers[o] <= s + 1 <=> markers[o] <= s \/ markers[o] = markers[c]
    BY <1>1
  <1>3. \A o \in Marked : markers[o] = markers[c] <=> o = c
    BY DEF MarksSound, NumbersOnce
  <1>4. QED
    BY <1>2, <1>3 DEF Upto

(* What the times say of the child.                                        *)
LEMMA DepthDue ==
  ASSUME NEW V, EmitState(V), TagInv, shuffled = {}, Visiting,
         NEW time \in Times, NEW level \in Levels, Emits(time, level, V)
  PROVE  /\ Child \in Marked \ Regexps /\ Seen(time) \in Nat /\ V = Upto(Seen(time))
         /\ ~Starting => Seen(time) = time[<<Top.obj, Top.next>>]
         /\ Written(Child) => ~Starting /\ time[<<Top.obj, Top.next + 1>>] = Seen(time)
         /\ ~Written(Child) =>
              /\ markers[Child] = Seen(time) + 1 /\ level[Child] = Level + 1
              /\ ~Starting =>
                   /\ Entry(time, markers, Top.obj, Top.next)
                   /\ time[<<Top.obj, Top.next + 1>>] = time[<<Child, Len(kids[Child]) + 1>>]
  <1> DEFINE p == Top.obj
             n == Top.next
             s == Seen(time)
  <1>1. /\ RunSound /\ CellsSound /\ phase = "emit" /\ TagFrames(frames, tag, buffer)
        /\ MarksSound /\ MarkInv /\ ~Json /\ Child \in Objs
    BY ChildFacts DEF EmitState, TagInv
  <1>2. \A i, j \in {1, 2, 3, 4, 5, 6} : i # j => Kinds[i] \cap Kinds[j] = {}
    BY DumpAssumption DEF Kinds
  <1>3. Refs \cap Regexps = {} /\ Leaves \cap Regexps = {}
    BY <1>2 DEF Kinds
  <1>4. Child \notin Regexps
    BY <1>1, <1>3, ChildKind, TagFramesFacts, DumpAssumption DEF Framed
  <1>5. /\ V \subseteq Marked /\ Child \in Marked /\ Walk(V, frames)
        /\ Starting => V = {}
        /\ Written(Child) => Child \in V /\ ~Starting
        /\ ~Written(Child) => Child \notin V
    BY EmitDue
  <1>6. markers[Child] \in Nat
    <2>1. markers[Child] \in 1..Cardinality(Marked)
      BY <1>1, <1>5 DEF MarksSound, NumbersOnce
    <2>2. QED
      BY <2>1, MarkedFinite
  <1>7. V = Upto(s) /\ (Child \in V <=> markers[Child] <= s)
    BY <1>4, <1>5 DEF Emits, Upto
  <1>8. CASE Starting
    <2>1. s = 0 /\ Level = 0 /\ Child = root
      BY <1>8 DEF Starting, Seen, Level, Child
    <2>2. markers[root] = 1 /\ level[root] = 1
      BY <1>5, <2>1 DEF Emits, Counted, Marked
    <2>3. QED
      BY <1>4, <1>5, <1>7, <1>8, <2>1, <2>2
  <1>9. CASE ~Starting
    <2>1. /\ p \in Objs /\ n \in Nat /\ n \in 1..Len(kids[p]) /\ Child = kids[p][n]
          /\ Top = frames[Level] /\ Level \in 1..Level
      BY <1>1, <1>9, NextChild
    <2>2. s = time[<<p, n>>] /\ s \in Nat
      <3>1. s = time[<<p, n>>]
        BY <1>9 DEF Seen, Starting
      <3>2. QED
        BY <2>1, <3>1 DEF Times
    <2>3. markers[p] # NONE /\ level[p] = Level
      BY <2>1 DEF Emits, Nested, Level
    <2>4. Behind(time, level, markers, <<>>, p, n)
      <3>1. \A l \in 1..Len(<<>>) : FALSE
        OBVIOUS
      <3>2. Settled(<<>>, p, n)
        BY <3>1 DEF Settled
      <3>3. QED
        BY <2>1, <2>3, <3>2 DEF Emits, Told
    <2> HIDE DEF p, n, s
    <2>5. \/ markers[Child] <= s /\ time[<<p, n + 1>>] = s
          \/ /\ markers[Child] = s + 1 /\ level[Child] = Level + 1
             /\ Entry(time, markers, p, n)
             /\ time[<<p, n + 1>>] = time[<<Child, Len(kids[Child]) + 1>>]
      BY <2>1, <2>2, <2>3, <2>4 DEF Behind, Entry
    <2>6. ~(markers[Child] = s + 1 /\ markers[Child] <= s)
      BY <1>6, <2>2
    <2>7. Written(Child) => time[<<p, n + 1>>] = s
      BY <1>5, <1>7, <2>5, <2>6
    <2>8. ~Written(Child) =>
              /\ markers[Child] = s + 1 /\ level[Child] = Level + 1
              /\ Entry(time, markers, p, n)
              /\ time[<<p, n + 1>>] = time[<<Child, Len(kids[Child]) + 1>>]
      BY <1>5, <1>7, <2>5
    <2>9. QED
      BY <1>4, <1>5, <1>7, <1>9, <2>2, <2>7, <2>8 DEF p, n, s
  <1>10. QED
    BY <1>8, <1>9

(* The emit phase after a step, said of the new frames.                    *)
LEMMA EmitsPrimed ==
  ASSUME UNCHANGED <<graph, markers>>, NEW time, NEW level, NEW V, Emits(time, level, V),
         NEW X, EmitInv(X)', Nested(time, level, markers, frames'), frames' # <<>>,
         NEW s, time[<<frames'[Len(frames')].obj, frames'[Len(frames')].next>>] = s,
         X = Upto(s)
  PROVE  Emits(time, level, X)'
  <1>1. kids' = kids /\ root' = root /\ markers' = markers /\ Marked' = Marked
    BY DEF graph, Marked
  <1>2. Counted(time, level, markers)'
    BY <1>1 DEF Emits, Counted
  <1>3. Told(time, level, markers, <<>>)'
    <2>1. \A fr, q, i : Behind(time, level, markers, fr, q, i)'
                          <=> Behind(time, level, markers, fr, q, i)
      BY <1>1 DEF Behind, Entry
    <2>2. QED
      BY <1>1, <2>1 DEF Emits, Told, Settled
  <1>4. Nested(time, level, markers, frames)'
    BY <1>1 DEF Nested, Entry
  <1>5. Seen(time)' = s
    BY DEF Seen, Top, Level
  <1>6. (X = {o \in Marked \ Regexps : markers[o] <= Seen(time)})'
    BY <1>1, <1>5 DEF Upto
  <1>7. QED
    BY <1>2, <1>3, <1>4, <1>6 DEF Emits

(* What is known of the cell of a reference that is not entered itself.    *)
LEMMA DepthCell ==
  ASSUME RunSound, MarksSound, ~Json, NEW V, NEW time \in Times, NEW level \in Levels,
         Emits(time, level, V), NEW c \in Refs, c \in Marked
  PROVE  LET o == Referent(c)
             s == markers[c]
         IN /\ o \in Marked /\ Len(kids[c]) + 1 = 2 /\ time[<<c, 1>>] = s
            /\ \/ markers[o] <= s /\ time[<<c, 2>>] = s
               \/ markers[o] = s + 1 /\ time[<<c, 2>>] = time[<<o, Len(kids[o]) + 1>>]
  <1> DEFINE o == Referent(c)
             s == markers[c]
  <1>1. /\ c \in Objs /\ Len(kids[c]) = 1 /\ kids[c][1] = o /\ o \in Objs
    BY KindsFacts, ReferentFacts DEF RunSound, GraphSound, Referent
  <1>2. time[<<c, 1>>] = s
    BY <1>1 DEF Emits, Counted, Marked
  <1>3. Behind(time, level, markers, <<>>, c, 1)
    <2>1. \A l \in 1..Len(<<>>) : FALSE
      OBVIOUS
    <2>2. Settled(<<>>, c, 1) /\ 1 \in 1..Len(kids[c])
      BY <1>1, <2>1 DEF Settled
    <2>3. QED
      BY <1>1, <2>2 DEF Emits, Told, Marked
  <1>4. 1 + 1 = 2
    OBVIOUS
  <1>5. QED
    BY <1>1, <1>2, <1>3, <1>4 DEF Behind, Entry, Marked

(* A step that does not enter its child as a frame.                        *)
LEMMA DepthStepped ==
  ASSUME NEW V, EmitState(V), TagInv, shuffled = {}, Visiting, ~Starting, frames' = Advanced,
         UNCHANGED <<graph, markers>>,
         NEW time \in Times, NEW level \in Levels, Emits(time, level, V),
         NEW X, EmitInv(X)', X = Upto(time[<<Top.obj, Top.next + 1>>])
  PROVE  Emits(time, level, X)'
  <1>1. RunSound /\ phase = "emit" /\ Nested(time, level, markers, frames)
    BY DEF EmitState, Emits
  <1>2. Nested(time, level, markers, frames')
    BY <1>1, NestedAdvanced
  <1>3. /\ frames' # <<>> /\ frames'[Len(frames')].obj = Top.obj
        /\ frames'[Len(frames')].next = Top.next + 1
    <2>1. /\ Len(frames') = Level /\ Level \in 1..Level /\ Level \in Nat
          /\ frames'[Level].obj = frames[Level].obj /\ Top = frames[Level]
          /\ frames'[Level].next = Top.next + 1
      BY <1>1, AdvancedIs
    <2>2. QED
      BY <2>1
  <1>4. QED
    BY <1>2, <1>3, EmitsPrimed

LEMMA DepthEntered ==
  ASSUME NEW V, EmitState(V), TagInv, shuffled = {}, Visiting, ~Written(Child),
         NEW t \in {0, 1}, frames' = Append(Advanced, Frame(Child, t)),
         UNCHANGED <<graph, markers>>,
         NEW time \in Times, NEW level \in Levels, Emits(time, level, V),
         NEW X, EmitInv(X)', X = V \cup {Child}
  PROVE  Emits(time, level, X)'
  <1>1. /\ RunSound /\ MarksSound /\ ~Json /\ phase = "emit"
        /\ Nested(time, level, markers, frames) /\ Counted(time, level, markers)
    BY DEF EmitState, Emits
  <1>2. /\ Child \in Marked \ Regexps /\ Seen(time) \in Nat /\ V = Upto(Seen(time))
        /\ markers[Child] = Seen(time) + 1 /\ level[Child] = Level + 1
        /\ ~Starting => Entry(time, markers, Top.obj, Top.next)
    BY DepthDue
  <1>3. Child \in Objs /\ markers[Child] # NONE
    BY <1>2 DEF Marked
  <1>4. Nested(time, level, markers, frames')
    BY <1>1, <1>2, <1>3, NestedEntered
  <1>5. /\ frames' # <<>> /\ frames'[Len(frames')].obj = Child
        /\ frames'[Len(frames')].next = 1
    <2>1. /\ Len(frames') = Level + 1 /\ Level \in Nat /\ frames'[Level + 1].obj = Child
          /\ frames'[Level + 1].next = 1
      BY <1>1, EnteredIs, LevelFacts
    <2>2. QED
      BY <2>1
  <1>6. time[<<Child, 1>>] = Seen(time) + 1
    BY <1>1, <1>2, <1>3 DEF Counted
  <1>7. X = Upto(Seen(time) + 1)
    BY <1>1, <1>2, UptoNext
  <1>8. QED
    BY <1>4, <1>5, <1>6, <1>7, EmitsPrimed

LEMMA DepthLeft ==
  ASSUME NEW V, EmitState(V), shuffled = {}, ~Visiting, Level # 1, frames' = Returned,
         UNCHANGED <<graph, markers>>,
         NEW time \in Times, NEW level \in Levels, Emits(time, level, V), EmitInv(V)'
  PROVE  Emits(time, level, V)'
  <1> DEFINE m == Level - 1
             p == frames[m].obj
             k == frames[m].next
             c == Top.obj
  <1>1. /\ RunSound /\ MarksSound /\ ~Json
        /\ Nested(time, level, markers, frames) /\ Told(time, level, markers, <<>>)
    BY DEF EmitState, Emits
  <1>2. /\ Nested(time, level, markers, frames') /\ Top.next = Len(kids[c]) + 1
    BY <1>1, NestedReturned
  <1>3. /\ Level \in Nat /\ Level > 1 /\ Top = frames[Level] /\ c \in Objs
        /\ Len(frames') = m /\ Len(frames) = Level
        /\ \A l \in 1..m : frames'[l] = frames[l]
    BY <1>1, ReturnFacts DEF Level
  <1>4. m \in 1..m /\ m \in 1..Level /\ m < Level /\ m + 1 = Level /\ m > 0
    BY <1>3
  <1>5. /\ p \in Objs /\ k \in Nat /\ kids[p] \in Seq(Objs)
    BY <1>1, <1>3, <1>4, LevelFacts DEF RunSound, GraphSound, FrameType
  <1>6. /\ k - 1 \in 1..Len(kids[p]) /\ c = kids[p][k - 1] /\ Entry(time, markers, p, k - 1)
        /\ markers[p] # NONE
    BY <1>1, <1>3, <1>4 DEF Nested
  <1>7. (k - 1) + 1 = k /\ k - 1 \in Nat
    BY <1>5, <1>6
  <1>8. Behind(time, level, markers, <<>>, p, k - 1)
    <2>1. \A l \in 1..Len(<<>>) : FALSE
      OBVIOUS
    <2>2. Settled(<<>>, p, k - 1)
      BY <2>1 DEF Settled
    <2>3. QED
      BY <1>1, <1>5, <1>6, <2>2 DEF Told
  <1> HIDE DEF p, k, c
  <1>9. ~(markers[c] <= time[<<p, k - 1>>])
    <2>1. time[<<p, k - 1>>] \in Nat
      BY <1>5, <1>7 DEF Times
    <2>2. QED
      BY <1>6, <2>1 DEF Entry
  <1>10. time[<<p, k>>] = time[<<c, Len(kids[c]) + 1>>]
    BY <1>6, <1>7, <1>8, <1>9 DEF Behind
  <1>11. frames # <<>> /\ frames' # <<>>
    BY <1>3, <1>4
  <1>12. Seen(time) = time[<<p, k>>]
    BY <1>2, <1>10, <1>11 DEF Seen, c
  <1>13. V = Upto(time[<<p, k>>])
    BY <1>12 DEF Emits, Upto
  <1>14. frames'[Len(frames')].obj = p /\ frames'[Len(frames')].next = k
    BY <1>3, <1>4 DEF p, k
  <1>15. QED
    BY <1>2, <1>11, <1>13, <1>14, EmitsPrimed

(* The values a step enters are the next of the mark phase.                *)
LEMMA DepthGrown ==
  ASSUME NEW V, EmitState(V), TagInv, shuffled = {}, phase' = "emit",
         EmitAlias \/ EmitLeaf \/ EmitFlattened \/ EmitRegexp,
         NEW time \in Times, NEW level \in Levels, Emits(time, level, V)
  PROVE  /\ Visiting /\ ~Starting /\ frames' = Advanced /\ UNCHANGED <<graph, markers>>
         /\ Grown(V) = Upto(time[<<Top.obj, Top.next + 1>>])
  <1> DEFINE s == Seen(time)
             e == time[<<Top.obj, Top.next + 1>>]
             o == Referent(Child)
  <1>1. /\ RunSound /\ MarksSound /\ ~Json /\ phase = "emit" /\ ScalarsBare
        /\ Counted(time, level, markers)
    BY DEF EmitState, Emits
  <1>2. /\ Visiting /\ frames' = Advanced /\ UNCHANGED <<graph, markers>>
        /\ EmitAlias \/ Ends
    BY DEF EmitAlias, EmitLeaf, EmitFlattened, EmitRegexp, Emitting, names
  <1>3. /\ Child \in Marked \ Regexps /\ s \in Nat /\ V = Upto(s)
        /\ Written(Child) => ~Starting /\ e = s
        /\ ~Written(Child) =>
              /\ markers[Child] = s + 1
              /\ ~Starting => e = time[<<Child, Len(kids[Child]) + 1>>]
    BY <1>2, DepthDue
  <1>4. EmitAlias => Written(Child)
    BY DEF EmitAlias
  <1>5. ~Starting
    BY <1>2, <1>3, <1>4 DEF Ends
  <1>6. markers[Child] \in Nat /\ (\A q \in Objs : kids[q] = <<>> => Len(kids[q]) + 1 = 1)
        /\ \A q \in Marked : time[<<q, 1>>] = markers[q]
    <2>1. markers[Child] \in 1..Cardinality(Marked)
      BY <1>1, <1>3 DEF MarksSound, NumbersOnce
    <2>2. \A q \in Marked : time[<<q, 1>>] = markers[q]
      BY <1>1 DEF Counted, Marked
    <2>3. QED
      BY <2>1, <2>2, MarkedFinite
  <1>7. ~Written(Child) => Upto(s + 1) = V \cup {Child}
    BY <1>1, <1>3, UptoNext
  <1>8. ~Written(Child) /\ Child \in Refs =>
           /\ o \in Marked /\ e = time[<<Child, 2>>]
           /\ \/ markers[o] <= s + 1 /\ e = s + 1
              \/ markers[o] = (s + 1) + 1 /\ e = time[<<o, Len(kids[o]) + 1>>]
    <2> SUFFICES ASSUME ~Written(Child), Child \in Refs
                 PROVE  /\ o \in Marked /\ e = time[<<Child, 2>>]
                        /\ \/ markers[o] <= s + 1 /\ e = s + 1
                           \/ markers[o] = (s + 1) + 1 /\ e = time[<<o, Len(kids[o]) + 1>>]
      OBVIOUS
    <2>1. /\ o \in Marked /\ Len(kids[Child]) + 1 = 2
          /\ \/ markers[o] <= markers[Child] /\ time[<<Child, 2>>] = markers[Child]
             \/ /\ markers[o] = markers[Child] + 1
                /\ time[<<Child, 2>>] = time[<<o, Len(kids[o]) + 1>>]
      BY <1>1, <1>3, DepthCell
    <2>2. e = time[<<Child, 2>>] /\ markers[Child] = s + 1
      BY <1>3, <1>5, <2>1
    <2> HIDE DEF s, e, o
    <2>3. QED
      BY <2>1, <2>2
  <1>9. \A i, j \in {1, 2, 3, 4, 5, 6} : i # j => Kinds[i] \cap Kinds[j] = {}
    BY DumpAssumption DEF Kinds
  <1>10. Refs \cap Scalars = {} /\ Leaves \cap Regexps = {}
    BY <1>9 DEF Kinds, Scalars
  <1> HIDE DEF s, e, o
  <1>11. CASE EmitAlias
    <2>1. Grown(V) = V
      BY <1>4, <1>11 DEF Grown
    <2>2. QED
      BY <1>2, <1>3, <1>4, <1>5, <1>11, <2>1 DEF e
  <1>12. CASE EmitLeaf
    <2>1. ~Written(Child) /\ Child \in Scalars /\ Child \notin Refs
      BY <1>10, <1>12 DEF EmitLeaf
    <2>2. Grown(V) = V \cup {Child}
      BY <1>1, <1>2, <2>1 DEF Grown, Emitting, Flattened, IsObject
    <2>3. kids[Child] = <<>> /\ Child \in Objs
      BY <1>1, <2>1 DEF ScalarsBare, Objs
    <2>4. Len(kids[Child]) + 1 = 1
      BY <1>6, <2>3
    <2>5. e = s + 1
      BY <1>3, <1>5, <1>6, <2>1, <2>4
    <2>6. QED
      BY <1>2, <1>5, <1>7, <2>1, <2>2, <2>5 DEF e
  <1>13. CASE EmitRegexp
    <2>1. ~Written(Child) /\ Child \in Refs /\ o \in Regexps
      BY <1>13 DEF EmitRegexp, IsObject, o
    <2>2. Grown(V) = V \cup {Child}
      BY <1>1, <1>2, <1>10, <2>1 DEF Grown, Emitting, Flattened, o
    <2>3. o \in Scalars /\ o \in Objs
      BY <2>1 DEF Scalars, Objs
    <2>4. Len(kids[o]) + 1 = 1
      BY <1>1, <1>6, <2>3 DEF ScalarsBare
    <2>5. CASE e = s + 1
      BY <1>2, <1>5, <1>7, <2>1, <2>2, <2>5 DEF e
    <2>6. CASE markers[o] = (s + 1) + 1 /\ e = time[<<o, Len(kids[o]) + 1>>]
      <3>1. e = (s + 1) + 1 /\ o \in Marked /\ s + 1 \in Nat
        BY <1>3, <1>6, <1>8, <2>1, <2>4, <2>6
      <3>2. Upto((s + 1) + 1) = Upto(s + 1) \cup ({o} \ Regexps)
        BY <1>1, <2>6, <3>1, UptoNext
      <3>3. Upto(e) = V \cup {Child}
        BY <1>7, <2>1, <3>1, <3>2
      <3>4. QED
        BY <1>2, <1>5, <2>2, <3>3 DEF e
    <2>7. QED
      BY <1>8, <2>1, <2>5, <2>6
  <1>14. CASE EmitFlattened
    <2>1. ~Written(Child) /\ Child \in Refs /\ o \in Leaves /\ Flattened(Child) /\ o \notin Regexps
      BY <1>10, <1>14 DEF EmitFlattened, Flattened, IsObject, o
    <2>2. Grown(V) = V \cup {Child} \cup {o}
      BY <1>1, <1>2, <2>1 DEF Grown, Emitting, o
    <2>3. o \in Scalars /\ o \in Objs
      BY <2>1 DEF Scalars, Objs
    <2>4. Len(kids[o]) + 1 = 1
      BY <1>1, <1>6, <2>3 DEF ScalarsBare
    <2>5. CASE markers[o] <= s + 1 /\ e = s + 1
      <3>1. o \in Upto(s + 1)
        BY <1>8, <2>1, <2>5 DEF Upto
      <3>2. Upto(e) = V \cup {Child} \cup {o}
        BY <1>7, <2>1, <2>5, <3>1
      <3>3. QED
        BY <1>2, <1>5, <2>2, <3>2 DEF e
    <2>6. CASE markers[o] = (s + 1) + 1 /\ e = time[<<o, Len(kids[o]) + 1>>]
      <3>1. e = (s + 1) + 1 /\ o \in Marked /\ s + 1 \in Nat
        BY <1>3, <1>6, <1>8, <2>1, <2>4, <2>6
      <3>2. Upto((s + 1) + 1) = Upto(s + 1) \cup ({o} \ Regexps)
        BY <1>1, <2>6, <3>1, UptoNext
      <3>3. Upto(e) = V \cup {Child} \cup {o}
        BY <1>7, <2>1, <3>1, <3>2
      <3>4. QED
        BY <1>2, <1>5, <2>2, <3>3 DEF e
    <2>7. QED
      BY <1>8, <2>1, <2>5, <2>6
  <1>15. QED
    BY <1>11, <1>12, <1>13, <1>14

LEMMA DepthEmits ==
  ASSUME NEW V, EmitState(V), TagInv, shuffled = {}, Next, phase' = "emit",
         NEW time \in Times, NEW level \in Levels, Emits(time, level, V), NEW X, X = Grown(V)
  PROVE  Emits(time, level, X)'
  <1>1. EmitInv(X)'
    BY EmitInvNext
  <1>2. CASE EmitAlias \/ EmitLeaf \/ EmitFlattened \/ EmitRegexp
    <2>1. /\ Visiting /\ ~Starting /\ frames' = Advanced /\ UNCHANGED <<graph, markers>>
          /\ X = Upto(time[<<Top.obj, Top.next + 1>>])
      BY <1>2, DepthGrown
    <2>2. QED
      BY <1>1, <2>1, DepthStepped
  <1>3. CASE EmitRef \/ EmitContainer
    <2>1. /\ RunSound /\ ~Json /\ phase = "emit" /\ buffer \in {0, 1}
      BY DEF EmitState, RunSound, FramesSound
    <2>2. PICK t \in {0, 1} : frames' = Append(Advanced, Frame(Child, t))
      <3>1. CASE EmitRef
        <4>1. buffer' \in {0, 1} /\ frames' = Append(Advanced, Frame(Child, buffer'))
          BY <2>1, <3>1 DEF EmitRef, MayMove
        <4>2. QED
          BY <4>1
      <3>2. CASE EmitContainer
        BY <2>1, <3>2 DEF EmitContainer
      <3>3. QED
        BY <1>3, <3>1, <3>2
    <2>3. Visiting /\ ~Written(Child) /\ UNCHANGED <<graph, markers>>
      BY <1>3 DEF EmitRef, EmitContainer, Emitting
    <2>4. ~Flattened(Child)
      BY <1>3, KindsFacts DEF EmitRef, EmitContainer, Flattened, IsObject
    <2>5. X = V \cup {Child}
      BY <2>1, <2>3, <2>4 DEF Grown, Emitting
    <2>6. QED
      BY <1>1, <2>2, <2>3, <2>5, DepthEntered
  <1>4. CASE EmitLeave
    <2>1. ~Visiting /\ Level # 1 /\ frames' = Returned /\ UNCHANGED <<graph, markers>> /\ X = V
      BY <1>4 DEF EmitLeave, names, Grown, Emitting
    <2>2. QED
      BY <1>1, <2>1, DepthLeft
  <1>5. CASE MarkAgain \/ MarkEnter \/ MarkLeave \/ EmitCroak
    BY <1>5 DEF MarkAgain, MarkEnter, MarkLeave, EmitCroak, EmitState
  <1>6. QED
    BY <1>2, <1>3, <1>4, <1>5 DEF Next

LEMMA DepthStep ==
  ASSUME WholeInv, TagInv, DepthInv, ~Json, [Next]_vars
  PROVE  DepthInv'
  <1>1. /\ RunSound /\ MarksSound /\ OutInv /\ CellsSound /\ ScalarsBare
        /\ phase # "croaked" => MarkInv
    BY DEF WholeInv, SharingInv
  <1>2. CASE UNCHANGED vars
    <2>1. UNCHANGED <<kids, shuffled, root, phase, frames, depth, markers>> /\ Marked' = Marked
      BY <1>2 DEF vars, graph, names, Marked
    <2>2. \A time, level, fr, q, i : Behind(time, level, markers, fr, q, i)'
                                       <=> Behind(time, level, markers, fr, q, i)
      BY <2>1 DEF Behind, Entry
    <2>3. \A time, level : /\ Counted(time, level, markers)' <=> Counted(time, level, markers)
                           /\ Nested(time, level, markers, frames)'
                                <=> Nested(time, level, markers, frames)
      BY <2>1 DEF Counted, Nested, Entry
    <2>4. \A time, level : /\ Told(time, level, markers, frames)'
                                <=> Told(time, level, markers, frames)
                           /\ Told(time, level, markers, <<>>)'
                                <=> Told(time, level, markers, <<>>)
      BY <2>1, <2>2 DEF Told, Settled
    <2>5. \A time, level : Marks(time, level)' <=> Marks(time, level)
      BY <2>1, <2>3, <2>4 DEF Marks, Top, Level
    <2>6. ASSUME NEW time, NEW level, NEW V, Emits(time, level, V)
          PROVE  Emits(time, level, V)'
      <3>1. EmitInv(V)'
        BY <1>2, <2>6, EmitInvSame DEF Emits
      <3>2. Seen(time)' = Seen(time)
        BY <2>1 DEF Seen, Top, Level
      <3>3. QED
        BY <2>1, <2>3, <2>4, <2>6, <3>1, <3>2 DEF Emits
    <2>7. Level' = Level
      BY <2>1 DEF Level
    <2>8. phase' = "mark" =>
            /\ depth' = Level'
            /\ \E time \in Times, level \in Levels : Marks(time, level)'
      BY <2>1, <2>5, <2>7 DEF DepthInv
    <2>9. phase' = "emit" /\ shuffled' = {} =>
            \E time \in Times, level \in Levels, V \in SUBSET Objs : Emits(time, level, V)'
      BY <2>1, <2>6 DEF DepthInv
    <2>10. QED
      BY <2>8, <2>9 DEF DepthInv
  <1>3. CASE Next /\ phase = "mark"
    <2>1. depth = Level /\ MarkInv /\ (MarkAgain \/ MarkEnter \/ MarkLeave)
      BY <1>1, <1>3 DEF DepthInv, Next, EmitAlias, EmitLeaf, EmitFlattened, EmitRegexp, EmitRef,
                  EmitContainer, EmitLeave, EmitCroak, Emitting
    <2>2. PICK time \in Times, level \in Levels : Marks(time, level)
      BY <1>3 DEF DepthInv
    <2>3. MarkInv /\ depth = Level
      BY <1>1, <1>3 DEF DepthInv
    <2>4. CASE MarkAgain
      <3>1. /\ phase' = "mark" /\ depth' = depth /\ frames' = Advanced /\ Visiting
        BY <2>4 DEF MarkAgain
      <3>2. Level' = Level
        BY <1>1, <3>1, AdvancedIs DEF Level
      <3>3. \E u \in Times : Marks(u, level)'
        BY <1>1, <2>2, <2>3, <2>4, DepthAgain
      <3>4. QED
        BY <2>3, <3>1, <3>2, <3>3 DEF DepthInv
    <2>5. CASE MarkEnter
      <3>1. /\ phase' = "croaked" \/ (phase' = "mark" /\ depth' = depth + 1)
            /\ Visiting
        BY <2>5 DEF MarkEnter
      <3>2. CASE phase' = "croaked"
        BY <3>2 DEF DepthInv
      <3>3. CASE phase' # "croaked"
        <4>1. frames' = Append(Advanced, Frame(Child, 0)) /\ phase' = "mark"
              /\ depth' = depth + 1 /\ Visiting
          BY <1>3, <2>5, <3>3 DEF MarkEnter
        <4>2. Level' = Level + 1
          <5>1. 0 \in {0, 1}
            OBVIOUS
          <5>2. Len(frames') = Level + 1
            BY <1>1, <4>1, <5>1, EnteredIs
          <5>3. QED
            BY <5>2 DEF Level
        <4>3. \E u \in Times, w \in Levels : Marks(u, w)'
          BY <1>1, <2>2, <2>3, <2>5, <3>3, DepthEnter
        <4>4. QED
          BY <2>3, <4>1, <4>2, <4>3 DEF DepthInv
      <3>4. QED
        BY <3>2, <3>3
    <2>6. CASE MarkLeave /\ Level # 1
      <3>1. /\ phase' = "mark" /\ depth' = depth - 1 /\ frames' = Returned /\ ~Visiting
        BY <2>6 DEF MarkLeave
      <3>2. Level' = Level - 1
        BY <1>1, <3>1, ReturnFacts DEF Level
      <3>3. \E u \in Times : Marks(u, level)'
        BY <1>1, <2>2, <2>3, <2>6, DepthReturn
      <3>4. QED
        BY <2>3, <3>1, <3>2, <3>3 DEF DepthInv
    <2>7. CASE MarkLeave /\ Level = 1
      <3>1. phase' = "emit"
        BY <2>7 DEF MarkLeave
      <3>2. \E V \in SUBSET Objs : Emits(time, level, V)'
        BY <1>1, <2>2, <2>3, <2>7, DepthBegin
      <3>3. QED
        BY <3>1, <3>2 DEF DepthInv
    <2>8. QED
      BY <2>1, <2>4, <2>5, <2>6, <2>7
  <1>4. CASE Next /\ phase # "mark"
    <2>1. phase' # "mark" /\ shuffled' = shuffled /\ (phase' = "emit" => phase = "emit")
      BY <1>4, PhaseSteps DEF graph, MarkLeave
    <2>2. SUFFICES ASSUME phase' = "emit", shuffled = {}
                   PROVE  \E time \in Times, level \in Levels, V \in SUBSET Objs :
                             Emits(time, level, V)'
      BY <2>1 DEF DepthInv
    <2>3. PICK time \in Times, level \in Levels, V \in SUBSET Objs : Emits(time, level, V)
      BY <2>1, <2>2 DEF DepthInv
    <2>4. EmitState(V)
      BY <1>1, <2>1, <2>2, <2>3 DEF EmitState, Emits
    <2>5. PICK X : X = Grown(V)
      OBVIOUS
    <2>6. Emits(time, level, X)'
      BY <1>4, <2>2, <2>3, <2>4, <2>5, DepthEmits
    <2>7. X \in SUBSET Objs
      <3>1. X \subseteq Marked'
        BY <2>6 DEF Emits, EmitInv, Entries
      <3>2. QED
        BY <3>1 DEF Marked
    <2>8. QED
      BY <2>6, <2>7
  <1>5. QED
    BY <1>2, <1>3, <1>4

(* As long as both phases take the keys in the same order, YAML::Syck      *)
(* never emits a value nested deeper than MaxDepth, though only the mark   *)
(* phase counts: it has entered every value at the level where the emit    *)
(* phase enters it, or has refused the structure.                          *)
THEOREM Depth == ASSUME ~Json PROVE Spec => []EmitWithinDepthUnsorted
  <1> DEFINE Inv == WholeInv /\ TagInv /\ DepthInv
  <1>1. Init => Inv
    BY WholeInit, TagInit, DepthInit
  <1>2. Inv /\ [Next]_vars => Inv'
    <2> SUFFICES ASSUME Inv, [Next]_vars PROVE Inv'
      OBVIOUS
    <2>1. RunSound /\ MarksSound /\ OutInv
      BY DEF WholeInv
    <2>2. QED
      BY <2>1, WholeStep, TagStep, DepthStep
  <1>3. Inv => EmitWithinDepthUnsorted
    <2> SUFFICES ASSUME Inv, shuffled = {}, phase = "emit", Visiting, ~Written(Child)
                 PROVE  Level + 1 < MaxDepth
      BY DEF EmitWithinDepthUnsorted, EmitWithinDepth, Emitting
    <2>1. PICK time \in Times, level \in Levels, V \in SUBSET Objs : Emits(time, level, V)
      BY DEF DepthInv
    <2>2. EmitState(V)
      BY <2>1 DEF EmitState, Emits, WholeInv, SharingInv
    <2>3. Child \in Marked /\ level[Child] = Level + 1
      BY <2>1, <2>2, DepthDue
    <2>4. Counted(time, level, markers)
      BY <2>1 DEF Emits
    <2>5. QED
      BY <2>3, <2>4 DEF Counted, Marked
  <1>4. QED
    BY <1>1, <1>2, <1>3, PTL DEF Spec

-----------------------------------------------------------------------------
(* What the mark phase refuses.  Its frames are values one inside the next, *)
(* each numbered when it was entered; the value it croaks at is inside them *)
(* all, and the depth is how many they are.                                *)

Chained(fr, mk) ==
  /\ fr[1].obj = root
  /\ \A l \in 1..Len(fr) : fr[l].obj \in Objs /\ mk[fr[l].obj] \in Nat
  /\ \A l, m \in 1..Len(fr) : l < m => mk[fr[l].obj] < mk[fr[m].obj]
  /\ \A l \in 1..Len(fr) : l < Len(fr) => fr[l + 1].obj \in Kids(kids, fr[l].obj)
TooDeep(mk, n) ==
  \E S \in SUBSET {o \in Objs : mk[o] # NONE} :
    /\ Cardinality(S) = n /\ root \in S
    /\ \A o \in S \ {root} :
         \E p \in S :
           /\ o \in Kids(kids, p) /\ mk[p] < mk[o]
           /\ \A q \in S : mk[q] < mk[o] => mk[q] <= mk[p]
ChainInv ==
  /\ phase = "mark" => depth = Level /\ (Level > 0 => Chained(frames, markers))
  /\ phase = "emit" => depth = 0
  /\ phase = "croaked" /\ depth > 0 => depth >= MaxDepth /\ TooDeep(markers, depth)

LEMMA ChainFound ==
  ASSUME NEW mk, NEW fr, NEW n \in Nat \ {0}, Len(fr) = n, Chained(fr, mk)
  PROVE  TooDeep(mk, n)
  <1> DEFINE f == [l \in 1..n |-> fr[l].obj]
             S == {fr[l].obj : l \in 1..n}
  <1>1. /\ \A l \in 1..n : fr[l].obj \in Objs /\ mk[fr[l].obj] \in Nat
        /\ \A l, m \in 1..n : l < m => mk[fr[l].obj] < mk[fr[m].obj]
        /\ \A l \in 1..n : l < n => fr[l + 1].obj \in Kids(kids, fr[l].obj)
        /\ fr[1].obj = root
    BY DEF Chained
  <1>2. \A l, m \in 1..n : fr[l].obj = fr[m].obj => l = m
    <2>1. SUFFICES ASSUME NEW l \in 1..n, NEW m \in 1..n, l # m PROVE fr[l].obj # fr[m].obj
      OBVIOUS
    <2>2. l < m \/ m < l
      BY <2>1
    <2>3. mk[fr[l].obj] < mk[fr[m].obj] \/ mk[fr[m].obj] < mk[fr[l].obj]
      BY <1>1, <2>2
    <2>4. QED
      BY <1>1, <2>3
  <1>3. Cardinality(S) = n
    <2>1. IsFiniteSet(1..n) /\ Cardinality(1..n) = n
      BY FS_Interval
    <2>2. f \in Surjection(1..n, S)
      BY DEF Surjection
    <2>3. f \in Injection(1..n, S)
      BY <1>2 DEF Injection, IsInjective
    <2>4. QED
      BY <2>1, <2>2, <2>3, FS_Surjection
  <1>4. S \in SUBSET {o \in Objs : mk[o] # NONE}
    BY <1>1, DumpAssumption
  <1>5. 1 \in 1..n
    OBVIOUS
  <1>6. root \in S
    BY <1>1, <1>5
  <1>7. ASSUME NEW o \in S \ {root}
        PROVE  \E p \in S : /\ o \in Kids(kids, p) /\ mk[p] < mk[o]
                            /\ \A q \in S : mk[q] < mk[o] => mk[q] <= mk[p]
    <2>1. PICK m \in 1..n : o = fr[m].obj
      OBVIOUS
    <2>2. m # 1
      BY <1>1, <2>1, <1>7
    <2> DEFINE l == m - 1
    <2>3. l \in 1..n /\ l < n /\ l + 1 = m /\ l < m
      BY <2>2
    <2> HIDE DEF l
    <2>4. o \in Kids(kids, fr[l].obj) /\ mk[fr[l].obj] < mk[o] /\ fr[l].obj \in S
      BY <1>1, <2>1, <2>3
    <2>5. ASSUME NEW k \in 1..n, mk[fr[k].obj] < mk[o] PROVE mk[fr[k].obj] <= mk[fr[l].obj]
      <3>1. CASE k > l
        <4>1. k = m \/ m < k
          BY <2>3, <3>1
        <4>2. mk[o] <= mk[fr[k].obj]
          BY <1>1, <2>1, <4>1
        <4>3. QED
          BY <1>1, <2>1, <2>5, <4>2
      <3>2. CASE k <= l
        BY <1>1, <2>3, <3>2
      <3>3. QED
        BY <2>3, <3>1, <3>2
    <2>6. \A q \in S : mk[q] < mk[o] => mk[q] <= mk[fr[l].obj]
      BY <2>5
    <2>7. QED
      BY <2>4, <2>6
  <1>8. QED
    BY <1>3, <1>4, <1>6, <1>7 DEF TooDeep

(* The frames, and those with one more behind, after a child came up.      *)
LEMMA ChainedSame ==
  ASSUME NEW fr, NEW new, NEW mk, Len(new) = Len(fr), Len(fr) \in Nat \ {0},
         \A l \in 1..Len(fr) : new[l].obj = fr[l].obj, Chained(fr, mk)
  PROVE  Chained(new, mk)
  <1>1. 1 \in 1..Len(fr) /\ \A l \in 1..Len(fr) : l < Len(fr) => l + 1 \in 1..Len(fr)
    OBVIOUS
  <1>2. /\ \A l \in 1..Len(fr) : fr[l].obj \in Objs /\ mk[fr[l].obj] \in Nat
        /\ \A l, m \in 1..Len(fr) : l < m => mk[fr[l].obj] < mk[fr[m].obj]
        /\ \A l \in 1..Len(fr) : l < Len(fr) => fr[l + 1].obj \in Kids(kids, fr[l].obj)
        /\ fr[1].obj = root
    BY DEF Chained
  <1>3. /\ \A l \in 1..Len(fr) : new[l].obj \in Objs /\ mk[new[l].obj] \in Nat
        /\ \A l, m \in 1..Len(fr) : l < m => mk[new[l].obj] < mk[new[m].obj]
        /\ new[1].obj = root
    BY <1>1, <1>2
  <1>4. ASSUME NEW l \in 1..Len(fr), l < Len(fr) PROVE new[l + 1].obj \in Kids(kids, new[l].obj)
    <2>1. new[l + 1].obj = fr[l + 1].obj /\ new[l].obj = fr[l].obj
      BY <1>1, <1>4
    <2>2. QED
      BY <1>2, <1>4, <2>1
  <1>5. QED
    BY <1>3, <1>4 DEF Chained

LEMMA ChainedEnter ==
  ASSUME RunSound, MarksSound, ~Json, phase = "mark", Visiting, ~TurnsBack(Child), MarkNode(Child),
         Level > 0 => Chained(frames, markers)
  PROVE  LET new == Append(Advanced, Frame(Child, 0)) IN
         Len(new) = Level + 1 /\ Chained(new, markers')
  <1> DEFINE new == Append(Advanced, Frame(Child, 0))
             n == Cardinality(Marked)
  <1>1. /\ Len(new) = Level + 1 /\ new[Level + 1].obj = Child /\ Level \in Nat
        /\ \A l \in 1..Level : new[l].obj = frames[l].obj
        /\ Child \in Objs /\ Len(frames) = Level
    BY EnterFacts, ChildFacts, LevelFacts DEF Level
  <1>2. /\ markers[Child] = NONE /\ n \in Nat
        /\ markers' = [markers EXCEPT ![Child] = n + 1]
    BY MarkedFinite DEF TurnsBack, MarkNode
  <1>3. NumbersType /\ NumbersOnce
    BY DEF MarksSound
  <1>4. /\ markers'[Child] = n + 1
        /\ \A o \in Objs : markers[o] # NONE =>
             markers'[o] = markers[o] /\ markers[o] \in Nat /\ markers[o] <= n
    BY <1>1, <1>2, <1>3 DEF NumbersType, NumbersOnce, Marked
  <1> HIDE DEF n, new
  <1>5. \A l \in 1..Level : /\ frames[l].obj \in Objs /\ markers[frames[l].obj] # NONE
                            /\ new[l].obj \in Objs /\ markers'[new[l].obj] = markers[frames[l].obj]
                            /\ markers'[new[l].obj] \in Nat /\ markers'[new[l].obj] <= n
    <2>1. ASSUME NEW l \in 1..Level PROVE frames[l].obj \in Objs /\ markers[frames[l].obj] # NONE
      BY <1>1, DumpAssumption DEF Chained
    <2>2. QED
      BY <1>1, <1>4, <2>1
  <1>6. \A l \in 1..Level + 1 : new[l].obj \in Objs /\ markers'[new[l].obj] \in Nat
    <2>1. \A l \in 1..Level + 1 : l = Level + 1 \/ l \in 1..Level
      BY <1>1
    <2>2. QED
      BY <1>1, <1>2, <1>4, <1>5, <2>1
  <1>7. ASSUME NEW l \in 1..Level + 1, NEW m \in 1..Level + 1, l < m
        PROVE  markers'[new[l].obj] < markers'[new[m].obj]
    <2>1. l \in 1..Level
      BY <1>1, <1>7
    <2>2. CASE m = Level + 1
      BY <1>1, <1>2, <1>4, <1>5, <2>1, <2>2
    <2>3. CASE m # Level + 1
      <3>1. m \in 1..Level /\ Level > 0
        BY <1>1, <2>3
      <3>2. markers[frames[l].obj] < markers[frames[m].obj]
        BY <1>1, <1>7, <2>1, <3>1 DEF Chained
      <3>3. QED
        BY <1>5, <2>1, <3>1, <3>2
    <2>4. QED
      BY <2>2, <2>3
  <1>8. new[1].obj = root
    <2>1. CASE Level = 0
      <3>1. Child = root
        BY <1>1, <2>1 DEF Child, Starting, Level, RunSound, FramesSound
      <3>2. QED
        BY <1>1, <2>1, <3>1
    <2>2. CASE Level > 0
      BY <1>1, <2>2 DEF Chained
    <2>3. QED
      BY <1>1, <2>1, <2>2
  <1>9. ASSUME NEW l \in 1..Level + 1, l < Level + 1
        PROVE  new[l + 1].obj \in Kids(kids, new[l].obj)
    <2>1. l \in 1..Level /\ Level > 0
      BY <1>1, <1>9
    <2>2. CASE l = Level
      <3>1. ~Starting
        BY <2>1 DEF Starting, Level
      <3>2. /\ Child = kids[Top.obj][Top.next] /\ Top.next \in 1..Len(kids[Top.obj])
            /\ kids[Top.obj] \in Seq(Objs) /\ Top = frames[Level]
        BY <3>1, NextChild
      <3>3. Child \in Kids(kids, frames[l].obj)
        BY <2>2, <3>2 DEF Kids
      <3>4. new[l + 1].obj = Child /\ new[l].obj = frames[l].obj
        BY <1>1, <2>1, <2>2
      <3>5. QED
        BY <3>3, <3>4
    <2>3. CASE l # Level
      <3>1. l < Level /\ l + 1 \in 1..Level
        BY <1>1, <2>1, <2>3
      <3>2. frames[l + 1].obj \in Kids(kids, frames[l].obj)
        BY <1>1, <2>1, <3>1 DEF Chained
      <3>3. QED
        BY <1>1, <2>1, <3>1, <3>2
    <2>4. QED
      BY <2>2, <2>3
  <1>10. Chained(new, markers')
    BY <1>1, <1>6, <1>7, <1>8, <1>9 DEF Chained
  <1>11. QED
    BY <1>1, <1>10 DEF new

LEMMA ChainStep ==
  ASSUME RunSound, MarksSound, ChainInv, ~Json, [Next]_vars
  PROVE  ChainInv'
  <1>1. Level \in Nat /\ Len(frames) = Level /\ UNCHANGED graph
    BY LevelFacts DEF Next, MarkAgain, MarkEnter, MarkLeave, EmitAlias, EmitLeaf, EmitFlattened,
           EmitRegexp, EmitRef, EmitContainer, EmitLeave, EmitCroak, vars, Level
  <1>2. /\ \A fr, mk : Chained(fr, mk) <=> Chained(fr, mk)'
        /\ \A mk, n : TooDeep(mk, n) <=> TooDeep(mk, n)'
    BY <1>1 DEF graph, Chained, TooDeep, Kids
  <1>3. CASE MarkAgain
    <2>1. /\ phase = "mark" /\ phase' = "mark" /\ depth' = depth /\ frames' = Advanced
          /\ markers' = markers
      BY <1>3 DEF MarkAgain, TurnsBack, MarkNode
    <2>2. Level' = Level /\ \A l \in 1..Level : Advanced[l].obj = frames[l].obj
      BY <1>3, <2>1, ChildFacts DEF MarkAgain, Level
    <2>3. ASSUME Level > 0 PROVE Chained(frames', markers)
      BY <1>1, <2>1, <2>2, <2>3, ChainedSame DEF ChainInv, Level
    <2>4. QED
      BY <1>2, <2>1, <2>2, <2>3 DEF ChainInv
  <1>4. CASE MarkEnter
    <2> DEFINE new == Append(Advanced, Frame(Child, 0))
    <2>1. /\ phase = "mark" /\ Visiting /\ ~TurnsBack(Child) /\ MarkNode(Child)
          /\ depth' = Level + 1 /\ phase' \in {"mark", "croaked"}
          /\ phase' = "mark" => frames' = new
          /\ phase' = "croaked" => Level + 1 >= MaxDepth
      BY <1>4 DEF MarkEnter, ChainInv
    <2>2. Len(new) = Level + 1 /\ Chained(new, markers')
      BY <2>1, ChainedEnter DEF ChainInv
    <2> HIDE DEF new
    <2>3. TooDeep(markers', Level + 1)
      BY <1>1, <2>2, ChainFound
    <2>4. QED
      BY <1>2, <2>1, <2>2, <2>3 DEF ChainInv, Level
  <1>5. CASE MarkLeave
    <2>1. /\ phase = "mark" /\ frames' = Returned /\ depth' = depth - 1 /\ markers' = markers
          /\ phase' = IF Level = 1 THEN "emit" ELSE "mark"
      BY <1>5 DEF MarkLeave
    <2>2. /\ Level \in Nat \ {0} /\ Len(Returned) = Level - 1
          /\ \A i \in 1..(Level - 1) : Returned[i] = frames[i]
      BY <1>5, ReturnFacts DEF MarkLeave
    <2>3. Level' = Level - 1 /\ depth' = Level - 1
      BY <2>1, <2>2 DEF Level, ChainInv
    <2>4. ASSUME Level - 1 > 0 PROVE Chained(Returned, markers)
      <3>1. Chained(frames, markers)
        BY <2>1, <2>2 DEF ChainInv
      <3>2. 1 \in 1..(Level - 1) /\ \A l \in 1..(Level - 1) : l < Level - 1 => l + 1 \in 1..(Level - 1)
        BY <2>2, <2>4
      <3>3. \A l \in 1..(Level - 1) : l \in 1..Level /\ l < Level
        BY <2>2
      <3>4. QED
        BY <1>1, <2>2, <3>1, <3>2, <3>3 DEF Chained
    <2>5. QED
      BY <1>2, <2>1, <2>2, <2>3, <2>4 DEF ChainInv
  <1>6. CASE \/ EmitAlias \/ EmitLeaf \/ EmitFlattened \/ EmitRegexp \/ EmitRef
             \/ EmitContainer \/ EmitLeave \/ EmitCroak
    <2>1. /\ phase = "emit" /\ depth' = depth /\ phase' # "mark"
      BY <1>6 DEF EmitAlias, EmitLeaf, EmitFlattened, EmitRegexp, EmitRef, EmitContainer,
                  EmitLeave, EmitCroak, Emitting, Ends
    <2>2. QED
      BY <2>1 DEF ChainInv
  <1>7. CASE UNCHANGED vars
    BY <1>2, <1>7 DEF vars, names, Level, ChainInv
  <1>8. QED
    BY <1>3, <1>4, <1>5, <1>6, <1>7 DEF Next

(* YAML::Syck's mark phase refuses nothing but what is nested as deep as    *)
(* MaxDepth: when it croaks there are that many values one inside the next. *)
THEOREM Refusals == ASSUME ~Json PROVE Spec => []NotRefused
  <1> DEFINE Inv == RunSound /\ MarksSound /\ ChainInv
  <1>1. Init => Inv
    <2>1. Init => Level = 0 /\ depth = 0 /\ phase = "mark"
      BY DEF Init, Level
    <2>2. QED
      BY <2>1, InitGraph, MarksInit DEF ChainInv
  <1>2. Inv /\ [Next]_vars => Inv'
    BY RunStep, MarksStep, ChainStep
  <1>3. Inv => NotRefused
    BY DEF ChainInv, NotRefused, TooDeep, Marked
  <1>4. QED
    BY <1>1, <1>2, <1>3, PTL DEF Spec

-----------------------------------------------------------------------------
(* Types.  What bounds the variables, beside the invariants above.         *)

Bounded == \A o \in Objs : Len(kids[o]) <= MaxCells + 1
WithinCells(fr) == \A l \in 1..Len(fr) : fr[l].next <= MaxCells + 2
Numbered(n) == n \in 0..Cardinality(Objs)
Spelt(c) == c \in Blessed \cup {NONE}
Tagged(c) == c \in Blessed \cup {NONE, BINARY}
EventsTyped(s) == \A i \in 1..Len(s) : Tagged(s[i].tag) /\ s[i].name \in 0..Len(anchors)
TypesInv ==
  /\ Bounded /\ WithinCells(frames)
  /\ phase = "mark" => depth = Level /\ (Level = 0 \/ Level < MaxDepth)
  /\ depth \in 0..MaxDepth \cup {1}
  /\ \A o \in Marked : Numbered(markers[o])
  /\ \A i \in 1..Len(anchors) : Numbered(anchors[i])
  /\ Spelt(tag) /\ EventsTyped(out)
  /\ phase = "croaked" => curRef = 0

LEMMA TypesInit == Init => TypesInv
  <1> SUFFICES ASSUME Init PROVE TypesInv
    OBVIOUS
  <1>1. MaxCells \in Nat /\ MaxDepth \in Nat
    BY DumpAssumption DEF Init
  <1>2. PICK f \in [Refs -> Objs], g \in [Containers -> CellLists] :
          kids = [o \in Objs |-> IF o \in Refs THEN <<f[o]>>
                                 ELSE IF o \in Containers THEN g[o] ELSE <<>>]
    BY DEF Init, Graph
  <1>3. ASSUME NEW o \in Objs PROVE Len(kids[o]) <= MaxCells + 1
    <2>1. CASE o \in Refs
      <3>1. kids[o] = <<f[o]>>
        BY <1>2, <2>1
      <3>2. QED
        BY <1>1, <3>1
    <2>2. CASE o \notin Refs /\ o \in Containers
      <3>1. kids[o] = g[o] /\ g[o] \in CellLists
        BY <1>2, <2>2
      <3>2. PICK n \in 0..MaxCells : kids[o] \in [1..n -> Cells]
        BY <3>1 DEF CellLists
      <3>3. n \in Nat
        BY <1>1
      <3>4. Len(kids[o]) = n
        BY <3>2, <3>3
      <3>5. QED
        BY <1>1, <3>3, <3>4
    <2>3. CASE o \notin Refs /\ o \notin Containers
      <3>1. kids[o] = <<>>
        BY <1>2, <2>3
      <3>2. QED
        BY <1>1, <3>1
    <2>4. QED
      BY <2>1, <2>2, <2>3
  <1>4. /\ frames = <<>> /\ Len(frames) = 0 /\ depth = 0 /\ phase = "mark" /\ anchors = <<>>
        /\ tag = NONE /\ out = <<>> /\ Marked = {} /\ Level = 0
    BY DEF Init, Marked, Level
  <1>5. QED
    BY <1>1, <1>3, <1>4 DEF TypesInv, Bounded, WithinCells, Spelt, EventsTyped

(* The recursion never looks past the last cell.                           *)
LEMMA WithinStep ==
  ASSUME RunSound, TypesInv, [Next]_vars
  PROVE  WithinCells(frames')
  <1>3. buffer \in {0, 1} /\ buffer' \in {0, 1} /\ MaxCells \in Nat
        /\ WithinCells(frames) /\ Level \in Nat
    BY RunStep, DumpAssumption, LevelFacts DEF RunSound, FramesSound, TypesInv
  <1>4. \/ Visiting /\ Stepped
        \/ \E t \in {0, 1} : Visiting /\ Entered(t)
        \/ ~Visiting /\ frames' = Returned
        \/ frames' = <<>>
        \/ UNCHANGED frames
    BY <1>3
     DEF Next, MarkAgain, MarkEnter, MarkLeave, EmitAlias, EmitLeaf, EmitFlattened,
         EmitRegexp, EmitRef, EmitContainer, EmitLeave, EmitCroak, vars, Emitting,
         Stepped, Entered
  <1>5. ASSUME Visiting PROVE \A l \in 1..Level : Advanced[l].next <= MaxCells + 2
    <2>1. CASE Starting
      <3>1. 1..Level = {}
        BY <2>1 DEF Starting, Level
      <3>2. QED
        BY <3>1
    <2>2. CASE ~Starting
      <3>1. /\ Level \in 1..Level /\ Top = frames[Level] /\ Top.next \in Nat
            /\ Advanced[Level].next = Top.next + 1 /\ Top.obj \in Objs
            /\ \A l \in 1..Level : l # Level => Advanced[l].next = frames[l].next
        BY <1>5, <2>2, AdvancedIs, LevelFacts
      <3>2. kids[Top.obj] \in Seq(Objs)
        BY <3>1 DEF RunSound, GraphSound
      <3>3. Top.next <= Len(kids[Top.obj]) /\ Len(kids[Top.obj]) <= MaxCells + 1
        BY <1>5, <2>2, <3>1 DEF Visiting, TypesInv, Bounded
      <3>4. Top.next + 1 <= MaxCells + 2
        <4>1. Len(kids[Top.obj]) \in Nat
          BY <3>2
        <4>2. QED
          BY <1>3, <3>1, <3>3, <4>1
      <3>5. QED
        BY <1>3, <3>1, <3>4 DEF WithinCells, Level
    <2>3. QED
      BY <2>1, <2>2
  <1>6. CASE Visiting /\ Stepped
    BY <1>5, <1>6, AdvancedIs DEF Stepped, WithinCells
  <1>7. ASSUME NEW t \in {0, 1}, Visiting, Entered(t) PROVE WithinCells(frames')
    <2>1. /\ Len(frames') = Level + 1 /\ frames'[Level + 1].next = 1
          /\ \A l \in 1..Level : frames'[l].next = Advanced[l].next
      BY <1>7, EnteredIs DEF Entered
    <2>2. \A l \in 1..(Level + 1) : l \in 1..Level \/ l = Level + 1
      BY <1>3
    <2>3. QED
      BY <1>3, <1>5, <1>7, <2>1, <2>2 DEF WithinCells
  <1>8. CASE ~Visiting /\ frames' = Returned
    <2>1. /\ Level \in Nat \ {0} /\ Len(frames') = Level - 1
          /\ \A l \in 1..(Level - 1) : frames'[l] = frames[l]
      BY <1>8, ReturnFacts
    <2>2. 1..(Level - 1) \subseteq 1..Level
      BY <2>1
    <2>3. QED
      BY <1>3, <2>1, <2>2 DEF WithinCells, Level
  <1>9. CASE frames' = <<>>
    BY <1>9 DEF WithinCells
  <1>10. CASE UNCHANGED frames
    BY <1>3, <1>10 DEF WithinCells
  <1>11. QED
    BY <1>4, <1>6, <1>7, <1>8, <1>9, <1>10

(* No step gives a number beyond the number of values.                     *)
LEMMA NumbersWithin ==
  ASSUME RunSound, MarksSound, TypesInv, [Next]_vars
  PROVE  /\ \A o \in Marked' : Numbered(markers'[o])
         /\ \A i \in 1..Len(anchors') : Numbered(anchors'[i])
  <1>1. /\ NumbersType /\ IsFiniteSet(Objs) /\ Cardinality(Objs) \in Nat
        /\ \A o \in Marked : Numbered(markers[o])
        /\ \A i \in 1..Len(anchors) : Numbered(anchors[i])
    BY KindsFacts, FS_CardinalityType DEF MarksSound, TypesInv
  <1>2. CASE MarkAgain \/ MarkEnter
    <2>1. Visiting /\ MarkNode(Child) /\ Child \in Objs
      BY <1>2, ChildFacts DEF MarkAgain, MarkEnter
    <2>2. CASE markers[Child] = NONE
      <3> DEFINE N == Cardinality(Marked) + 1
      <3>1. markers' = [markers EXCEPT ![Child] = N] /\ anchors' = anchors
        BY <2>1, <2>2 DEF MarkNode
      <3>2. Numbered(N)
        <4>1. Child \notin Marked /\ Marked \cup {Child} \subseteq Objs
          BY <2>1, <2>2 DEF Marked
        <4>2. Cardinality(Marked \cup {Child}) = N
          BY <4>1, MarkedFinite, FS_AddElement
        <4>3. Cardinality(Marked \cup {Child}) <= Cardinality(Objs)
          BY <1>1, <4>1, FS_Subset
        <4>4. QED
          BY <1>1, <4>2, <4>3, MarkedFinite DEF Numbered
      <3> HIDE DEF N
      <3>3. \A o \in Marked' : o = Child \/ (o \in Marked /\ markers'[o] = markers[o])
        BY <1>1, <3>1 DEF NumbersType, Marked
      <3>4. markers'[Child] = N
        BY <1>1, <2>1, <3>1 DEF NumbersType
      <3>5. QED
        BY <1>1, <3>1, <3>2, <3>3, <3>4
    <2>3. CASE markers[Child] # NONE
      <3>1. markers' = markers /\ Marked' = Marked
            /\ anchors' \in {anchors, Append(anchors, markers[Child])}
        BY <2>1, <2>3 DEF MarkNode, Marked
      <3>2. Numbered(markers[Child]) /\ anchors \in Seq(Nat) /\ markers[Child] \in Nat
        BY <1>1, <2>1, <2>3 DEF Marked, NumbersType
      <3>3. CASE anchors' = Append(anchors, markers[Child])
        <4>1. /\ Len(anchors') = Len(anchors) + 1 /\ anchors'[Len(anchors) + 1] = markers[Child]
              /\ \A i \in 1..Len(anchors) : anchors'[i] = anchors[i]
              /\ \A i \in 1..(Len(anchors) + 1) : i \in 1..Len(anchors) \/ i = Len(anchors) + 1
          BY <3>2, <3>3
        <4>2. QED
          BY <1>1, <3>1, <3>2, <4>1
      <3>4. QED
        BY <1>1, <3>1, <3>3
    <2>4. QED
      BY <2>2, <2>3
  <1>3. CASE MarkLeave
    <2>1. anchors' = anchors /\ Top.obj \in Objs
      BY <1>3, ReturnFacts DEF MarkLeave
    <2>2. \A o \in Marked' : markers'[o] = 0 \/ (o \in Marked /\ markers'[o] = markers[o])
      <3>1. \/ markers' = markers
            \/ markers' = [markers EXCEPT ![Top.obj] = 0]
            \/ markers' = [o \in Objs |-> NONE]
        BY <1>3 DEF MarkLeave
      <3>2. QED
        BY <1>1, <2>1, <3>1 DEF Marked, NumbersType
    <2>3. Numbered(0)
      BY <1>1 DEF Numbered
    <2>4. QED
      BY <1>1, <2>1, <2>2, <2>3
  <1>4. CASE \/ EmitAlias \/ EmitLeaf \/ EmitFlattened \/ EmitRegexp \/ EmitRef
             \/ EmitContainer \/ EmitLeave \/ EmitCroak \/ UNCHANGED vars
    <2>1. UNCHANGED <<markers, anchors>>
      BY <1>4 DEF EmitAlias, EmitLeaf, EmitFlattened, EmitRegexp, EmitRef, EmitContainer,
                  EmitLeave, EmitCroak, vars, names
    <2>2. Marked' = Marked
      BY <2>1 DEF Marked
    <2>3. QED
      BY <1>1, <2>1, <2>2
  <1>5. QED
    BY <1>2, <1>3, <1>4 DEF Next

(* The depth counts the levels of the mark phase, below the limit.         *)
LEMMA DepthWithin ==
  ASSUME RunSound, TypesInv, [Next]_vars
  PROVE  /\ phase' = "mark" => depth' = Level' /\ (Level' = 0 \/ Level' < MaxDepth)
         /\ depth' \in 0..MaxDepth \cup {1}
  <1>1. /\ Level \in Nat /\ MaxDepth \in Nat /\ depth \in 0..MaxDepth \cup {1}
        /\ phase = "mark" => depth = Level /\ (Level = 0 \/ Level < MaxDepth)
    BY LevelFacts, DumpAssumption DEF TypesInv
  <1>2. CASE MarkAgain
    <2>1. phase = "mark" /\ depth' = depth /\ Level' = Level
      BY <1>2, ChildFacts DEF MarkAgain, Level
    <2>2. QED
      BY <1>1, <2>1
  <1>3. CASE MarkEnter
    <2>1. phase = "mark" /\ depth' = Level + 1
      BY <1>1, <1>3 DEF MarkEnter
    <2>2. CASE depth + 1 >= MaxDepth
      <3>1. phase' = "croaked"
        BY <1>3, <2>2 DEF MarkEnter
      <3>2. Level + 1 \in 0..MaxDepth \cup {1}
        BY <1>1, <2>1
      <3>3. QED
        BY <2>1, <3>1, <3>2
    <2>3. CASE ~(depth + 1 >= MaxDepth)
      <3>1. Len(frames') = Level + 1
        BY <1>3, <2>3, EnterFacts DEF MarkEnter
      <3>2. Level' = Level + 1
        BY <3>1 DEF Level
      <3>3. QED
        BY <1>1, <2>1, <2>3, <3>2
    <2>4. QED
      BY <2>2, <2>3
  <1>4. CASE MarkLeave
    <2>1. phase = "mark" /\ depth' = Level - 1 /\ Level \in Nat \ {0}
      BY <1>1, <1>4, ReturnFacts DEF MarkLeave
    <2>2. Len(frames') = Level - 1
      BY <1>4, ReturnFacts DEF MarkLeave
    <2>3. Level' = Level - 1
      BY <2>2 DEF Level
    <2>4. QED
      BY <1>1, <2>1, <2>3
  <1>5. CASE \/ EmitAlias \/ EmitLeaf \/ EmitFlattened \/ EmitRegexp \/ EmitRef
             \/ EmitContainer \/ EmitLeave \/ EmitCroak
    <2>1. depth' = depth /\ phase' # "mark"
      BY <1>5 DEF EmitAlias, EmitLeaf, EmitFlattened, EmitRegexp, EmitRef, EmitContainer,
                  EmitLeave, EmitCroak, Emitting, Ends
    <2>2. QED
      BY <1>1, <2>1
  <1>6. CASE UNCHANGED vars
    BY <1>1, <1>6 DEF vars, Level
  <1>7. QED
    BY <1>2, <1>3, <1>4, <1>5, <1>6 DEF Next

(* What the actions write.                                                 *)
LEMMA TypedConcat ==
  ASSUME NEW s \in Seq(EventType), NEW t \in Seq(EventType), EventsTyped(s), EventsTyped(t)
  PROVE  s \o t \in Seq(EventType) /\ EventsTyped(s \o t)
  <1>1. s \o t \in Seq(EventType)
    BY ConcatProperties
  <1>2. \A i \in 1..Len(s \o t) :
          \/ i \in 1..Len(s) /\ (s \o t)[i] = s[i]
          \/ i - Len(s) \in 1..Len(t) /\ (s \o t)[i] = t[i - Len(s)]
    BY ConcatProperties, LenProperties
  <1>3. QED
    BY <1>1, <1>2 DEF EventsTyped

LEMMA TypedOne ==
  ASSUME NEW e \in EventType, Tagged(e.tag), e.name \in 0..Len(anchors)
  PROVE  <<e>> \in Seq(EventType) /\ EventsTyped(<<e>>)
  BY DEF EventsTyped

LEMMA TypedEvents ==
  ASSUME NumbersType, NEW o \in Objs
  PROVE  /\ AnchorEvents(o) \in Seq(EventType) /\ EventsTyped(AnchorEvents(o))
         /\ <<AliasEvent(o)>> \in Seq(EventType) /\ EventsTyped(<<AliasEvent(o)>>)
         /\ \A what \in {"leaf", "open", "close"}, class \in Objs \cup {NONE, BINARY} :
              Tagged(class) => /\ <<Event(what, o, 0, class)>> \in Seq(EventType)
                              /\ EventsTyped(<<Event(what, o, 0, class)>>)
  <1>1. Len(anchors) \in Nat /\ NameOf(o) \in 0..Len(anchors)
    <2>1. Len(anchors) \in Nat
      BY DEF NumbersType
    <2>2. QED
      BY <2>1, NameFacts DEF Stands
  <1>2. Tagged(NONE)
    BY DEF Tagged
  <1>3. <<AliasEvent(o)>> \in Seq(EventType) /\ EventsTyped(<<AliasEvent(o)>>)
    <2>1. AliasEvent(o) \in EventType /\ AliasEvent(o).tag = NONE
          /\ AliasEvent(o).name = NameOf(o)
      BY EventFacts DEF AliasEvent, Event
    <2>2. QED
      BY <1>1, <1>2, <2>1, TypedOne
  <1>4. AnchorEvents(o) \in Seq(EventType) /\ EventsTyped(AnchorEvents(o))
    <2> DEFINE e == Event("anchor", o, NameOf(o), NONE)
    <2>1. e \in EventType /\ e.tag = NONE /\ e.name = NameOf(o)
      BY EventFacts DEF Event
    <2>2. AnchorEvents(o) = <<>> \/ AnchorEvents(o) = <<e>>
      BY DEF AnchorEvents
    <2> HIDE DEF e
    <2>3. <<e>> \in Seq(EventType) /\ EventsTyped(<<e>>)
      BY <1>1, <1>2, <2>1, TypedOne
    <2>4. <<>> \in Seq(EventType) /\ EventsTyped(<<>>)
      BY DEF EventsTyped
    <2>5. QED
      BY <2>2, <2>3, <2>4
  <1>5. ASSUME NEW what \in {"leaf", "open", "close"}, NEW class \in Objs \cup {NONE, BINARY},
               Tagged(class)
        PROVE  <<Event(what, o, 0, class)>> \in Seq(EventType)
               /\ EventsTyped(<<Event(what, o, 0, class)>>)
    <2>1. /\ Event(what, o, 0, class) \in EventType
          /\ Event(what, o, 0, class).tag = class /\ Event(what, o, 0, class).name = 0
      BY EventFacts DEF Event
    <2>2. QED
      BY <1>1, <1>5, <2>1, TypedOne
  <1>6. QED
    BY <1>3, <1>4, <1>5

(* An event behind its anchor.                                             *)
LEMMA TypedValue ==
  ASSUME NumbersType, NEW o \in Objs, NEW p \in Objs, NEW what \in {"leaf", "open"},
         NEW class \in Objs \cup {NONE, BINARY}, Tagged(class)
  PROVE  LET written == Append(AnchorEvents(o), Event(what, p, 0, class)) IN
         /\ written = AnchorEvents(o) \o <<Event(what, p, 0, class)>>
         /\ written \in Seq(EventType) /\ EventsTyped(written)
  <1> DEFINE e == Event(what, p, 0, class)
  <1>1. e \in EventType /\ AnchorEvents(o) \in Seq(EventType) /\ EventsTyped(AnchorEvents(o))
        /\ <<e>> \in Seq(EventType) /\ EventsTyped(<<e>>)
    BY EventFacts, TypedEvents
  <1> HIDE DEF e
  <1>2. Append(AnchorEvents(o), e) = AnchorEvents(o) \o <<e>>
    BY <1>1, AppendIsConcat
  <1>3. AnchorEvents(o) \o <<e>> \in Seq(EventType) /\ EventsTyped(AnchorEvents(o) \o <<e>>)
    BY <1>1, TypedConcat
  <1>4. QED
    BY <1>2, <1>3 DEF e

LEMMA ObjectsSpelt ==
  ASSUME NEW o, IsObject(o)
  PROVE  Spelt(Referent(o)) /\ Tagged(Referent(o)) /\ Referent(o) \in Objs
  BY DumpAssumption DEF IsObject, Spelt, Tagged

LEMMA LeavesTagged ==
  ASSUME NEW o, NEW class \in Objs \cup {NONE}, Spelt(class)
  PROVE  Tagged(LeafTag(o, class)) /\ LeafTag(o, class) \in Objs \cup {NONE, BINARY}
  BY LeafTagFacts DEF Spelt, Tagged

LEMMA EmitTyped ==
  ASSUME RunSound, MarksSound, OutInv, TypesInv,
         \/ EmitAlias \/ EmitLeaf \/ EmitFlattened \/ EmitRegexp \/ EmitRef
         \/ EmitContainer \/ EmitLeave \/ EmitCroak
  PROVE  Spelt(tag') /\ EventsTyped(out')
  <1>1. /\ NumbersType /\ out \in Seq(EventType) /\ EventsTyped(out) /\ Spelt(tag)
        /\ tag \in Objs \cup {NONE} /\ Spelt(NONE) /\ Tagged(NONE) /\ Tagged(tag)
    BY DEF MarksSound, OutInv, Good, TypesInv, Spelt, Tagged
  <1>2. ASSUME NEW events \in Seq(EventType), EventsTyped(events), Write(events)
        PROVE  EventsTyped(out')
    BY <1>1, <1>2, TypedConcat DEF Write
  <1>3. Visiting => Child \in Objs
    BY ChildFacts
  <1>4. CASE EmitAlias
    <2>1. Child \in Objs /\ tag' = tag /\ Write(<<AliasEvent(Child)>>)
      BY <1>3, <1>4 DEF EmitAlias, Emitting, buffers
    <2>2. QED
      BY <1>1, <1>2, <2>1, TypedEvents
  <1>5. CASE EmitLeaf
    <2> DEFINE class == LeafTag(Child, tag)
    <2>1. Child \in Objs /\ tag' = NONE
          /\ Write(Append(AnchorEvents(Child), Event("leaf", Child, 0, class)))
      BY <1>3, <1>5 DEF EmitLeaf, Emitting
    <2>2. Tagged(class) /\ class \in Objs \cup {NONE, BINARY}
      BY <1>1, LeavesTagged
    <2> HIDE DEF class
    <2>3. QED
      BY <1>1, <1>2, <2>1, <2>2, TypedValue
  <1>6. CASE EmitFlattened
    <2> DEFINE o == Referent(Child)
               class == LeafTag(o, o)
               value == IF Written(o) THEN <<AliasEvent(o)>>
                        ELSE Append(AnchorEvents(o), Event("leaf", o, 0, class))
    <2>1. Child \in Objs /\ tag' = NONE /\ IsObject(Child)
          /\ Write(AnchorEvents(Child) \o value)
      BY <1>3, <1>6 DEF EmitFlattened, Emitting, Flattened
    <2>2. o \in Objs /\ Tagged(class) /\ class \in Objs \cup {NONE, BINARY}
      BY <2>1, ObjectsSpelt, LeavesTagged
    <2> HIDE DEF class
    <2>3. value \in Seq(EventType) /\ EventsTyped(value)
      BY <1>1, <2>2, TypedEvents, TypedValue
    <2>4. AnchorEvents(Child) \in Seq(EventType) /\ EventsTyped(AnchorEvents(Child))
      BY <1>1, <2>1, TypedEvents
    <2> HIDE DEF value
    <2>5. AnchorEvents(Child) \o value \in Seq(EventType)
          /\ EventsTyped(AnchorEvents(Child) \o value)
      BY <2>3, <2>4, TypedConcat
    <2>6. QED
      BY <1>1, <1>2, <2>1, <2>5
  <1>7. CASE EmitRegexp
    <2> DEFINE o == Referent(Child)
    <2>1. Child \in Objs /\ tag' = NONE /\ IsObject(Child)
          /\ Write(Append(AnchorEvents(Child), Event("leaf", o, 0, o)))
      BY <1>3, <1>7 DEF EmitRegexp, Emitting
    <2>2. o \in Objs /\ Tagged(o)
      BY <2>1, ObjectsSpelt
    <2>3. QED
      BY <1>1, <1>2, <2>1, <2>2, TypedValue
  <1>8. CASE EmitRef
    <2> DEFINE class == IF IsObject(Child) THEN Referent(Child) ELSE tag
    <2>1. Child \in Objs /\ tag' = (IF Inlined(Child) THEN class ELSE NONE)
          /\ Write(AnchorEvents(Child)
                     \o IF Inlined(Child) THEN <<>> ELSE <<Event("open", Child, 0, class)>>)
      BY <1>3, <1>8 DEF EmitRef, Emitting
    <2>2. Spelt(class) /\ Tagged(class) /\ class \in Objs \cup {NONE}
      BY <1>1, <2>1, ObjectsSpelt
    <2> HIDE DEF class
    <2>3. AnchorEvents(Child) \in Seq(EventType) /\ EventsTyped(AnchorEvents(Child))
          /\ <<Event("open", Child, 0, class)>> \in Seq(EventType)
          /\ EventsTyped(<<Event("open", Child, 0, class)>>)
      BY <1>1, <2>1, <2>2, TypedEvents
    <2>4. <<>> \in Seq(EventType) /\ EventsTyped(<<>>)
      BY DEF EventsTyped
    <2>5. CASE Inlined(Child)
      <3>1. Write(AnchorEvents(Child) \o <<>>)
        BY <2>1, <2>5
      <3>2. AnchorEvents(Child) \o <<>> \in Seq(EventType)
            /\ EventsTyped(AnchorEvents(Child) \o <<>>)
        BY <2>3, <2>4, TypedConcat
      <3>3. QED
        BY <1>1, <1>2, <2>1, <2>2, <3>1, <3>2
    <2>6. CASE ~Inlined(Child)
      <3>1. Write(AnchorEvents(Child) \o <<Event("open", Child, 0, class)>>)
        BY <2>1, <2>6
      <3>2. AnchorEvents(Child) \o <<Event("open", Child, 0, class)>> \in Seq(EventType)
            /\ EventsTyped(AnchorEvents(Child) \o <<Event("open", Child, 0, class)>>)
        BY <2>3, TypedConcat
      <3>3. QED
        BY <1>1, <1>2, <2>1, <2>2, <3>1, <3>2
    <2>7. QED
      BY <2>5, <2>6
  <1>9. CASE EmitContainer
    <2>1. Child \in Objs /\ tag' = NONE
          /\ Write(Append(AnchorEvents(Child), Event("open", Child, 0, tag)))
      BY <1>3, <1>9 DEF EmitContainer, Emitting
    <2>2. QED
      BY <1>1, <1>2, <2>1, TypedValue
  <1>10. CASE EmitLeave
    <2>1. Top.obj \in Objs /\ tag' \in {NONE, tag}
          /\ (Write(<<Event("close", Top.obj, 0, NONE)>>) \/ UNCHANGED out)
      BY <1>10, ReturnFacts DEF EmitLeave
    <2>2. QED
      BY <1>1, <1>2, <2>1, TypedEvents
  <1>11. CASE EmitCroak
    BY <1>1, <1>11 DEF EmitCroak
  <1>12. QED
    BY <1>4, <1>5, <1>6, <1>7, <1>8, <1>9, <1>10, <1>11

LEMMA TypesStep ==
  ASSUME RunSound, ClassInv, MarksSound, OutInv, TypesInv, [Next]_vars
  PROVE  TypesInv'
  <1>1. Bounded'
    <2>1. kids' = kids
      BY PhaseSteps DEF graph
    <2>2. QED
      BY <2>1 DEF TypesInv, Bounded
  <1>2. WithinCells(frames)' /\ Level' = Len(frames')
    BY WithinStep DEF WithinCells, Level
  <1>3. Spelt(tag') /\ EventsTyped(out)'
    <2>1. CASE MarkAgain \/ MarkEnter \/ MarkLeave
      <3>1. tag' = tag /\ out' = <<>>
        BY <2>1 DEF MarkAgain, MarkEnter, MarkLeave, buffers, MarksSound
      <3>2. QED
        BY <3>1 DEF TypesInv, EventsTyped
    <2>2. CASE \/ EmitAlias \/ EmitLeaf \/ EmitFlattened \/ EmitRegexp \/ EmitRef
               \/ EmitContainer \/ EmitLeave \/ EmitCroak
      <3>1. anchors' = anchors
        BY <2>2 DEF EmitAlias, EmitLeaf, EmitFlattened, EmitRegexp, EmitRef, EmitContainer,
                    EmitLeave, EmitCroak, names
      <3>2. QED
        BY <2>2, <3>1, EmitTyped DEF EventsTyped
    <2>3. CASE UNCHANGED vars
      BY <2>3 DEF vars, names, buffers, TypesInv, EventsTyped
    <2>4. QED
      BY <2>1, <2>2, <2>3 DEF Next
  <1>4. phase' = "croaked" => curRef' = 0
    <2>1. CASE MarkAgain \/ MarkEnter \/ MarkLeave
      BY <2>1 DEF MarkAgain, MarkEnter, MarkLeave, buffers, ClassInv
    <2>2. CASE EmitCroak \/ UNCHANGED vars
      BY <2>2 DEF EmitCroak, vars, buffers, TypesInv
    <2>3. CASE \/ EmitAlias \/ EmitLeaf \/ EmitFlattened \/ EmitRegexp \/ EmitRef
               \/ EmitContainer \/ EmitLeave
      <3>1. phase' # "croaked"
        BY <2>3 DEF EmitAlias, EmitLeaf, EmitFlattened, EmitRegexp, EmitRef, EmitContainer,
                    EmitLeave, Emitting, Ends
      <3>2. QED
        BY <3>1
    <2>4. QED
      BY <2>1, <2>2, <2>3 DEF Next
  <1>5. /\ \A o \in Marked' : Numbered(markers'[o])
        /\ \A i \in 1..Len(anchors') : Numbered(anchors'[i])
    BY NumbersWithin
  <1>6. /\ phase' = "mark" => depth' = Level' /\ (Level' = 0 \/ Level' < MaxDepth)
        /\ depth' \in 0..MaxDepth \cup {1}
    BY DepthWithin
  <1>7. QED
    BY <1>1, <1>2, <1>3, <1>4, <1>5, <1>6 DEF TypesInv, Numbered, Spelt

LEMMA SeqOf ==
  ASSUME NEW S, NEW T, NEW s \in Seq(S), \A i \in 1..Len(s) : s[i] \in T
  PROVE  s \in Seq(T)
  OBVIOUS

LEMMA TypesHold ==
  ASSUME RunSound, ClassInv, MarksSound, OutInv, TypesInv
  PROVE  TypeOK
  <1>1. MaxCells \in Nat /\ Cardinality(Objs) \in Nat /\ Level \in Nat
    BY DumpAssumption, LevelFacts, FS_CardinalityType
  <1>2. frames \in Seq([obj : Objs, next : 1..MaxCells + 2, tag : {0, 1}])
    <2>1. frames \in Seq(FrameType)
      BY DEF RunSound, FramesSound
    <2>2. ASSUME NEW i \in 1..Len(frames)
          PROVE  frames[i] \in [obj : Objs, next : 1..MaxCells + 2, tag : {0, 1}]
      <3>1. frames[i] \in FrameType /\ frames[i].next > 0 /\ frames[i].next <= MaxCells + 2
        BY LevelFacts DEF Level, RunSound, FramesSound, TypesInv, WithinCells
      <3>2. frames[i].next \in 1..MaxCells + 2
        BY <1>1, <3>1 DEF FrameType
      <3>3. QED
        BY <3>1, <3>2 DEF FrameType
    <2>3. QED
      BY <2>1, <2>2, SeqOf
  <1>3. markers \in [Objs -> 0..Cardinality(Objs) \cup {NONE}]
    <2>1. \A o \in Objs : markers[o] \in 0..Cardinality(Objs) \cup {NONE}
      BY DEF TypesInv, Marked, Numbered
    <2>2. QED
      BY <2>1 DEF MarksSound, NumbersType
  <1>4. anchors \in Seq(0..Cardinality(Objs)) /\ DOMAIN anchors = 1..Len(anchors)
        /\ Len(anchors) \in Nat
    <2>1. anchors \in Seq(Nat) /\ \A i \in 1..Len(anchors) : anchors[i] \in 0..Cardinality(Objs)
      BY DEF MarksSound, NumbersType, TypesInv, Numbered
    <2>2. anchors \in Seq(0..Cardinality(Objs))
      BY <2>1, SeqOf
    <2>3. QED
      BY <2>1, <2>2
  <1>5. anchored \subseteq DOMAIN anchors
    <2> SUFFICES ASSUME NEW n \in anchored PROVE n \in DOMAIN anchors
      OBVIOUS
    <2>1. PICK i \in 1..Len(out) : out[i].what = "anchor" /\ out[i].name = n
      BY DEF OutInv, Good
    <2>2. Stands(n, out[i].obj)
      BY <2>1 DEF OutInv, Good
    <2>3. QED
      BY <1>4, <2>2 DEF Stands
  <1>6. strings \subseteq 1..Level \/ phase = "croaked"
    BY DEF MarksSound, ClassInv, ObjectLevels
  <1>7. curRef \in 0..Level
    BY <1>1, <1>6 DEF ClassInv, TypesInv
  <1>8. out \in Seq([what : {"anchor", "alias", "leaf", "open", "close"}, obj : Objs,
                     name : DOMAIN anchors \cup {0}, tag : Blessed \cup {NONE, BINARY}])
    <2>1. out \in Seq(EventType) /\ EventsTyped(out)
      BY DEF OutInv, Good, TypesInv
    <2>2. ASSUME NEW i \in 1..Len(out)
          PROVE  out[i] \in [what : {"anchor", "alias", "leaf", "open", "close"}, obj : Objs,
                             name : DOMAIN anchors \cup {0}, tag : Blessed \cup {NONE, BINARY}]
      <3>1. out[i] \in EventType /\ out[i].tag \in Blessed \cup {NONE, BINARY}
            /\ out[i].name \in 0..Len(anchors)
        BY <2>1 DEF EventsTyped, Tagged
      <3>2. out[i].name \in DOMAIN anchors \cup {0}
        BY <1>4, <3>1
      <3>3. QED
        BY <3>1, <3>2 DEF EventType
    <2>3. QED
      BY <2>1, <2>2, SeqOf
  <1>9. QED
    BY <1>2, <1>3, <1>4, <1>5, <1>6, <1>7, <1>8
     DEF TypeOK, TypesInv, MarksSound, RunSound, FramesSound, Spelt

(* Every variable of Dump keeps its type, whatever MaxDepth is: the depth  *)
(* never passes the limit but for a MaxDepth of 0, which refuses the first *)
(* value at depth 1, and every name that is written has been given.        *)
THEOREM TypesKept == Spec => []TypeOK
  <1> DEFINE Inv == RunSound /\ ClassInv /\ MarksSound /\ OutInv /\ TypesInv
  <1>1. Init => Inv
    BY InitGraph, ClassInit, MarksInit, OutInit, TypesInit
  <1>2. Inv /\ [Next]_vars => Inv'
    BY RunStep, ClassStep, MarksStep, OutStep, TypesStep
  <1>3. Inv => TypeOK
    BY TypesHold
  <1>4. QED
    BY <1>1, <1>2, <1>3, PTL DEF Spec
=============================================================================
