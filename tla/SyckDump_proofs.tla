-------------------------- MODULE SyckDump_proofs --------------------------
(***************************************************************************)
(* Proofs about Dump, for every graph of values and both of its orders: an *)
(* alias always names the value it was written for, no value has the tag   *)
(* of another, and a class name that a handler allocates is freed once.    *)
(***************************************************************************)
EXTENDS SyckDump, SequenceTheorems, FiniteSetTheorems, TLAPS

LEMMA KindsFacts ==
  /\ Refs \cap Scalars = {} /\ Refs \cap Leaves = {} /\ Refs \cap Containers = {}
  /\ Refs \subseteq Objs /\ Leaves \subseteq Objs /\ Cells \subseteq Objs
  /\ IsFiniteSet(Objs) /\ NONE \notin Objs \cup Nat
  <1>1. \A i \in {1, 2, 3, 5, 6} : Kinds[4] \cap Kinds[i] = {}
    BY DumpAssumption DEF Kinds
  <1>2. Refs \cap Leaves = {} /\ Refs \cap Regexps = {} /\ Refs \cap Codes = {}
        /\ Refs \cap Arrays = {} /\ Refs \cap Hashes = {}
    BY <1>1 DEF Kinds
  <1>3. QED
    BY <1>2, DumpAssumption DEF Objs, Scalars, Containers

-----------------------------------------------------------------------------
(* The recursion.                                                          *)

FrameType == [obj : Objs, next : Nat, tag : {0, 1}]
GraphSound ==
  /\ kids \in [Objs -> Seq(Objs)] /\ root \in Objs
  /\ \A o \in Refs : Len(kids[o]) = 1
FramesSound ==
  /\ frames \in Seq(FrameType) /\ buffer \in {0, 1}
  /\ \A i \in 1..Level : frames[i].next > 0
RunSound == GraphSound /\ FramesSound

LEMMA ReferentFacts ==
  ASSUME RunSound, NEW o \in Refs
  PROVE  Referent(o) \in Objs
  <1>1. kids[o] \in Seq(Objs) /\ Len(kids[o]) = 1
    BY KindsFacts DEF RunSound, GraphSound
  <1>2. QED
    BY <1>1 DEF Referent

LEMMA LevelFacts ==
  ASSUME RunSound
  PROVE  /\ Level \in Nat
         /\ \A i \in 1..Level : frames[i] \in FrameType /\ frames[i].obj \in Objs
         /\ ~Starting => Level \in 1..Level /\ Top = frames[Level]
  <1>1. frames \in Seq(FrameType)
    BY DEF RunSound, FramesSound
  <1>2. Level \in Nat /\ (frames # <<>> => Level > 0)
    BY <1>1 DEF Level
  <1>3. \A i \in 1..Level : frames[i] \in FrameType
    BY <1>1 DEF Level
  <1>4. QED
    BY <1>2, <1>3 DEF FrameType, Starting, Top

(* The child due is a value, and stepping past it keeps the frames.        *)
LEMMA ChildFacts ==
  ASSUME RunSound, Visiting
  PROVE  /\ Child \in Objs
         /\ Advanced \in Seq(FrameType) /\ Len(Advanced) = Level
         /\ \A i \in 1..Level : Advanced[i].obj = frames[i].obj /\ Advanced[i].next > 0
  <1>1. CASE Starting
    <2>1. Child = root /\ Advanced = frames /\ frames \in Seq(FrameType)
      BY <1>1 DEF Child, Advanced, RunSound, FramesSound
    <2>2. QED
      BY <2>1 DEF RunSound, GraphSound, FramesSound, Level
  <1>2. CASE ~Starting
    <2>1. Level \in 1..Level /\ Level \in Nat /\ frames[Level] \in FrameType
          /\ Top = frames[Level] /\ Top.next > 0
      BY <1>2, LevelFacts DEF RunSound, FramesSound
    <2>2. Top.obj \in Objs /\ Top.next \in Nat
      BY <2>1 DEF FrameType
    <2>3. kids[Top.obj] \in Seq(Objs)
      BY <2>2 DEF RunSound, GraphSound
    <2>4. Top.next \in 1..Len(kids[Top.obj])
      BY <1>2, <2>1, <2>2, <2>3 DEF Visiting
    <2>5. Child \in Objs
      <3>1. kids[Top.obj][Top.next] \in Objs
        BY <2>3, <2>4
      <3>2. Reverse(kids[Top.obj])[Top.next] \in Objs
        <4>1. Len(kids[Top.obj]) + 1 - Top.next \in 1..Len(kids[Top.obj])
          BY <2>3, <2>4
        <4>2. Reverse(kids[Top.obj])[Top.next] = kids[Top.obj][Len(kids[Top.obj]) + 1 - Top.next]
          BY <2>3, <2>4 DEF Reverse
        <4>3. QED
          BY <2>3, <4>1, <4>2
      <3>3. QED
        BY <1>2, <3>1, <3>2 DEF Child, KidsOf
    <2>6. Advanced = [frames EXCEPT ![Level] = [Top EXCEPT !.next = Top.next + 1]]
      BY <1>2, <2>1 DEF Advanced
    <2> DEFINE frame == [Top EXCEPT !.next = Top.next + 1]
    <2>7. frame \in FrameType /\ frame.obj = Top.obj /\ frame.next > 0
      BY <2>1, <2>2 DEF FrameType
    <2>8. frames \in Seq(FrameType) /\ \A i \in 1..Level : frames[i].next > 0
      BY DEF RunSound, FramesSound
    <2> HIDE DEF frame
    <2>9. Advanced \in Seq(FrameType) /\ Len(Advanced) = Level
          /\ \A i \in 1..Level : Advanced[i] = IF i = Level THEN frame ELSE frames[i]
      BY <2>1, <2>6, <2>7, <2>8 DEF Level, frame
    <2>10. QED
      BY <2>1, <2>5, <2>7, <2>8, <2>9
  <1>3. QED
    BY <1>1, <1>2

(* What a call and a return leave of the frames.                           *)
LEMMA EnterFacts ==
  ASSUME RunSound, Visiting, NEW t \in {0, 1}
  PROVE  LET new == Append(Advanced, Frame(Child, t)) IN
         /\ new \in Seq(FrameType) /\ Len(new) = Level + 1
         /\ \A i \in 1..Level : new[i].obj = frames[i].obj /\ new[i].next > 0
         /\ new[Level + 1].obj = Child /\ new[Level + 1].next > 0
  <1> DEFINE frame == Frame(Child, t)
             new == Append(Advanced, frame)
  <1>1. frame \in FrameType /\ frame.obj = Child /\ frame.next = 1
    BY ChildFacts DEF Frame, FrameType
  <1>2. Advanced \in Seq(FrameType) /\ Len(Advanced) = Level /\ Level \in Nat
    BY ChildFacts, LevelFacts
  <1>3. \A i \in 1..Level : Advanced[i].obj = frames[i].obj /\ Advanced[i].next > 0
    BY ChildFacts
  <1> HIDE DEF frame
  <1>4. /\ new \in Seq(FrameType) /\ Len(new) = Level + 1 /\ new[Level + 1] = frame
        /\ \A i \in 1..Level : new[i] = Advanced[i]
    BY <1>1, <1>2, AppendProperties
  <1>5. new[Level + 1].obj = Child /\ new[Level + 1].next > 0
    BY <1>1, <1>4
  <1>6. \A i \in 1..Level : new[i].obj = frames[i].obj /\ new[i].next > 0
    BY <1>3, <1>4
  <1>7. QED
    BY <1>4, <1>5, <1>6 DEF frame

LEMMA ReturnFacts ==
  ASSUME RunSound, ~Visiting
  PROVE  /\ Level \in Nat \ {0} /\ Top = frames[Level] /\ Top.obj \in Objs
         /\ Returned \in Seq(FrameType) /\ Len(Returned) = Level - 1
         /\ \A i \in 1..(Level - 1) : Returned[i] = frames[i]
  <1>1. Level \in Nat \ {0} /\ Top = frames[Level] /\ frames \in Seq(FrameType) /\ Top.obj \in Objs
    BY LevelFacts DEF Visiting, RunSound, FramesSound
  <1>2. /\ SubSeq(frames, 1, Level - 1) \in Seq(FrameType)
        /\ Len(SubSeq(frames, 1, Level - 1)) = Level - 1
        /\ \A i \in 1..(Level - 1) : SubSeq(frames, 1, Level - 1)[i] = frames[i]
    <2>1. \A i \in 1..(Level - 1) : frames[i] \in FrameType
      BY <1>1, LevelFacts
    <2>2. 1 \in Int /\ Level - 1 \in Int
      BY <1>1
    <2> HIDE DEF Level
    <2>3. /\ SubSeq(frames, 1, Level - 1) \in Seq(FrameType)
          /\ Len(SubSeq(frames, 1, Level - 1)) =
                IF 1 <= Level - 1 THEN Level - 1 - 1 + 1 ELSE 0
          /\ \A i \in 1..(Level - 1 - 1 + 1) : SubSeq(frames, 1, Level - 1)[i] = frames[1 + i - 1]
      BY <2>1, <2>2, SubSeqProperties
    <2>4. QED
      BY <1>1, <2>3
  <1>3. QED
    BY <1>1, <1>2 DEF Returned

LEMMA InitGraph == Init => RunSound
  <1> SUFFICES ASSUME Init PROVE RunSound
    OBVIOUS
  <1>1. root \in Refs
    BY DEF Init
  <1>2. PICK f \in [Refs -> Objs], g \in [Containers -> CellLists] :
          kids = [o \in Objs |-> IF o \in Refs THEN <<f[o]>>
                                 ELSE IF o \in Containers THEN g[o] ELSE <<>>]
    BY DEF Init, Graph
  <1>3. CellLists \subseteq Seq(Objs)
    <2>1. ASSUME NEW n \in 0..MaxCells, NEW s \in [1..n -> Cells] PROVE s \in Seq(Objs)
      <3>1. n \in Nat /\ s \in [1..n -> Objs]
        BY KindsFacts, DumpAssumption
      <3>2. QED
        BY <3>1
    <2>2. QED
      BY <2>1 DEF CellLists
  <1>4. \A o \in Refs : o \in Objs /\ <<f[o]>> \in Seq(Objs)
    BY KindsFacts
  <1>5. <<>> \in Seq(Objs)
    OBVIOUS
  <1>6. kids \in [Objs -> Seq(Objs)]
    BY <1>2, <1>3, <1>4, <1>5
  <1>7. \A o \in Refs : Len(kids[o]) = 1
    BY <1>2, <1>4
  <1>8. frames \in Seq(FrameType) /\ buffer \in {0, 1} /\ Level = 0
    BY DEF Init, Level
  <1>9. QED
    BY <1>1, <1>6, <1>7, <1>8, KindsFacts DEF RunSound, GraphSound, FramesSound

(* The frames after each kind of step.                                     *)
Stepped == frames' = Advanced
Entered(t) == frames' = Append(Advanced, Frame(Child, t))

LEMMA RunStep ==
  ASSUME RunSound, [Next]_vars
  PROVE  RunSound'
  <1>1. UNCHANGED graph
    BY DEF Next, MarkAgain, MarkEnter, MarkLeave, EmitAlias, EmitLeaf, EmitFlattened,
           EmitRegexp, EmitRef, EmitContainer, EmitLeave, EmitCroak, vars
  <1>2. buffer' \in {0, 1}
    BY DEF Next, MarkAgain, MarkEnter, MarkLeave, EmitAlias, EmitLeaf, EmitFlattened,
           EmitRegexp, EmitRef, EmitContainer, EmitLeave, EmitCroak, vars, buffers,
           RunSound, FramesSound, MayMove
  <1>3. \/ Visiting /\ Stepped
        \/ \E t \in {0, 1} : Visiting /\ Entered(t)
        \/ ~Visiting /\ frames' = Returned
        \/ frames' = <<>>
        \/ UNCHANGED frames
    <2>1. buffer \in {0, 1}
      BY DEF RunSound, FramesSound
    <2>2. QED
      BY <1>2, <2>1
       DEF Next, MarkAgain, MarkEnter, MarkLeave, EmitAlias, EmitLeaf, EmitFlattened,
           EmitRegexp, EmitRef, EmitContainer, EmitLeave, EmitCroak, vars, Emitting,
           Stepped, Entered
  <1>4. frames' \in Seq(FrameType) /\ \A i \in 1..Len(frames') : frames'[i].next > 0
    <2>1. CASE Visiting /\ Stepped
      BY <2>1, ChildFacts DEF Stepped
    <2>2. ASSUME NEW t \in {0, 1}, Visiting, Entered(t)
          PROVE  frames' \in Seq(FrameType) /\ \A i \in 1..Len(frames') : frames'[i].next > 0
      BY <2>2, EnterFacts, LevelFacts DEF Entered
    <2>3. CASE ~Visiting /\ frames' = Returned
      BY <2>3, ReturnFacts DEF RunSound, FramesSound
    <2>4. CASE frames' = <<>>
      BY <2>4
    <2>5. CASE UNCHANGED frames
      BY <2>5 DEF RunSound, FramesSound, Level
    <2>6. QED
      BY <1>3, <2>1, <2>2, <2>3, <2>4, <2>5
  <1>5. QED
    BY <1>1, <1>2, <1>4 DEF RunSound, GraphSound, FramesSound, Level, graph, Referent

-----------------------------------------------------------------------------
(* The class names.  While values are emitted, the handlers of the objects *)
(* on the recursion hold one name each.                                    *)

ObjectLevels == {l \in 1..Level : IsObject(frames[l].obj)}
ClassInv ==
  /\ curRef \in strings \cup {0}
  /\ phase \in {"mark", "done"} => strings = {}
  /\ phase = "emit" => strings = ObjectLevels

LEMMA ObjectsSteps ==
  ASSUME RunSound, Visiting, UNCHANGED graph, Stepped
  PROVE  ObjectLevels' = ObjectLevels
  <1>1. Level' = Level /\ \A i \in 1..Level : frames'[i].obj = frames[i].obj
    BY ChildFacts DEF Stepped, Level
  <1>2. \A o : IsObject(o)' <=> IsObject(o)
    BY DEF IsObject, Referent, graph
  <1>3. QED
    BY <1>1, <1>2 DEF ObjectLevels, IsObject, Referent, graph

LEMMA ObjectsEnter ==
  ASSUME RunSound, Visiting, UNCHANGED graph, NEW t \in {0, 1}, Entered(t)
  PROVE  ObjectLevels' = ObjectLevels \cup (IF IsObject(Child) THEN {Level + 1} ELSE {})
  <1>1. /\ Level' = Level + 1 /\ Level \in Nat
        /\ \A i \in 1..Level : frames'[i].obj = frames[i].obj
        /\ frames'[Level + 1].obj = Child
    BY EnterFacts, LevelFacts DEF Entered, Level
  <1>2. 1..(Level + 1) = (1..Level) \cup {Level + 1}
    BY <1>1
  <1>3. QED
    BY <1>1, <1>2 DEF ObjectLevels, IsObject, Referent, graph

LEMMA ObjectsReturn ==
  ASSUME RunSound, ~Visiting, UNCHANGED graph, frames' = Returned
  PROVE  /\ ObjectLevels' = ObjectLevels \ {Level}
         /\ Level \in ObjectLevels <=> IsObject(Top.obj)
  <1>1. /\ Level \in Nat \ {0} /\ Level' = Level - 1 /\ Top = frames[Level]
        /\ \A i \in 1..(Level - 1) : frames'[i] = frames[i]
    BY ReturnFacts DEF Level
  <1>2. 1..Level = (1..(Level - 1)) \cup {Level} /\ Level \notin 1..(Level - 1)
    BY <1>1
  <1>3. QED
    BY <1>1, <1>2 DEF ObjectLevels, IsObject, Referent, graph

LEMMA ClassInit == Init => ClassInv
  BY DEF Init, ClassInv

LEMMA ClassMark ==
  ASSUME RunSound, ClassInv, MarkAgain \/ MarkEnter \/ MarkLeave
  PROVE  ClassInv'
  <1>1. strings = {} /\ strings' = {} /\ curRef = 0 /\ curRef' = 0
    BY DEF ClassInv, MarkAgain, MarkEnter, MarkLeave, buffers
  <1>2. phase' = "emit" => ObjectLevels' = {}
    <2>1. phase' = "emit" => MarkLeave /\ Level = 1
      BY DEF MarkAgain, MarkEnter, MarkLeave
    <2>2. MarkLeave /\ Level = 1 => Len(frames') = 0
      BY ReturnFacts DEF MarkLeave
    <2>3. Len(frames') = 0 => ObjectLevels' = {}
      BY DEF ObjectLevels, Level
    <2>4. QED
      BY <2>1, <2>2, <2>3
  <1>3. QED
    BY <1>1, <1>2 DEF ClassInv

LEMMA ClassStep ==
  ASSUME RunSound, ClassInv, [Next]_vars
  PROVE  ClassInv'
  <1>1. CASE MarkAgain \/ MarkEnter \/ MarkLeave
    BY <1>1, ClassMark
  <1>2. ASSUME phase = "emit", Visiting, UNCHANGED graph, Stepped, UNCHANGED strings,
               curRef' \in {curRef, 0}, phase' = "emit" \/ Starting
        PROVE  ClassInv'
    <2>1. ObjectLevels' = ObjectLevels /\ strings = ObjectLevels
      BY <1>2, ObjectsSteps DEF ClassInv
    <2>2. Starting => ObjectLevels = {}
      BY DEF Starting, ObjectLevels, Level
    <2>3. QED
      BY <1>2, <2>1, <2>2 DEF ClassInv
  <1>3. CASE EmitAlias \/ EmitLeaf \/ EmitFlattened \/ EmitRegexp
    <2>1. /\ phase = "emit" /\ Visiting /\ UNCHANGED graph /\ Stepped /\ UNCHANGED strings
          /\ curRef' \in {curRef, 0}
      BY <1>3 DEF EmitAlias, EmitLeaf, EmitFlattened, EmitRegexp, Emitting, Stepped, buffers
    <2>2. phase' = "emit" \/ Starting
      BY <1>3 DEF EmitAlias, EmitLeaf, EmitFlattened, EmitRegexp, Emitting, Ends
    <2>3. QED
      BY <1>2, <2>1, <2>2
  <1>4. CASE EmitRef
    <2>1. ObjectLevels' = ObjectLevels \cup (IF IsObject(Child) THEN {Level + 1} ELSE {})
      <3>1. buffer' \in {0, 1}
        BY <1>4 DEF EmitRef, MayMove, RunSound, FramesSound
      <3>2. Visiting /\ UNCHANGED graph /\ Entered(buffer')
        BY <1>4 DEF EmitRef, Emitting, Entered
      <3>3. QED
        BY <3>1, <3>2, ObjectsEnter
    <2>2. phase = "emit" /\ phase' = "emit"
      BY <1>4 DEF EmitRef, Emitting
    <2>3. strings' = (IF IsObject(Child) THEN strings \cup {Level + 1} ELSE strings)
          /\ curRef' = (IF IsObject(Child) THEN Level + 1 ELSE curRef)
      BY <1>4 DEF EmitRef
    <2>4. QED
      BY <2>1, <2>2, <2>3 DEF ClassInv
  <1>5. CASE EmitContainer
    <2>1. ~IsObject(Child)
      BY <1>5, KindsFacts DEF EmitContainer, IsObject
    <2>2. ObjectLevels' = ObjectLevels
      <3>1. buffer \in {0, 1} /\ Visiting /\ UNCHANGED graph /\ Entered(buffer)
        BY <1>5 DEF EmitContainer, Emitting, Entered, RunSound, FramesSound
      <3>2. QED
        BY <2>1, <3>1, ObjectsEnter
    <2>3. QED
      BY <1>5, <2>2 DEF EmitContainer, Emitting, ClassInv
  <1>6. CASE EmitLeave
    <2>1. phase = "emit" /\ ~Visiting /\ UNCHANGED graph /\ frames' = Returned
      BY <1>6 DEF EmitLeave
    <2>2. /\ ObjectLevels' = ObjectLevels \ {Level}
          /\ Level \in ObjectLevels <=> IsObject(Top.obj)
      BY <2>1, ObjectsReturn
    <2>3. strings = ObjectLevels /\ curRef \in strings \cup {0}
      BY <2>1 DEF ClassInv
    <2>4. IF IsObject(Top.obj) THEN strings' = strings \ {Level} /\ curRef' = 0
                               ELSE UNCHANGED <<strings, curRef>>
      BY <1>6 DEF EmitLeave
    <2>5. strings' = ObjectLevels' /\ curRef' \in strings' \cup {0}
      <3>1. CASE IsObject(Top.obj)
        BY <2>2, <2>3, <2>4, <3>1
      <3>2. CASE ~IsObject(Top.obj)
        <4>1. Level \notin ObjectLevels /\ strings' = strings /\ curRef' = curRef
          BY <2>2, <2>4, <3>2
        <4>2. QED
          BY <2>2, <2>3, <4>1
      <3>3. QED
        BY <3>1, <3>2
    <2>6. phase' = IF Level = 1 THEN "done" ELSE "emit"
      BY <1>6 DEF EmitLeave
    <2>7. Level = 1 => ObjectLevels' = {}
      <3>1. ObjectLevels \subseteq 1..Level
        BY DEF ObjectLevels
      <3>2. QED
        BY <2>2, <3>1
    <2>8. QED
      BY <2>5, <2>6, <2>7 DEF ClassInv
  <1>7. CASE EmitCroak
    BY <1>7 DEF EmitCroak, ClassInv
  <1>8. CASE UNCHANGED vars
    BY <1>8 DEF vars, graph, buffers, ClassInv, ObjectLevels, Level, IsObject, Referent
  <1>9. QED
    BY <1>1, <1>3, <1>4, <1>5, <1>6, <1>7, <1>8 DEF Next

(* Every class name that a handler of Dump allocates is freed by the time  *)
(* it returns, and cur_ref never points to one that was freed: the string  *)
(* the destructor would free is allocated, however the handlers nest.      *)
THEOREM ClassNames == Spec => []ClassNamesFreed
  <1>1. Init => RunSound /\ ClassInv
    BY InitGraph, ClassInit
  <1>2. RunSound /\ ClassInv /\ [Next]_vars => (RunSound /\ ClassInv)'
    BY RunStep, ClassStep
  <1>3. RunSound /\ ClassInv => ClassNamesFreed
    BY DEF ClassInv, ClassNamesFreed
  <1>4. QED
    BY <1>1, <1>2, <1>3, PTL DEF Spec

-----------------------------------------------------------------------------
(* The names.  The numbers of the mark phase are given once each, so a     *)
(* name stands for one value.                                              *)

NumbersType ==
  /\ markers \in [Objs -> Nat \cup {NONE}]
  /\ anchors \in Seq(Nat)
NumbersOnce ==
  /\ \A o \in Marked : markers[o] \in 1..Cardinality(Marked)
  /\ \A o, p \in Marked : markers[o] = markers[p] => o = p
MarksSound ==
  /\ NumbersType /\ phase \in {"mark", "emit", "done", "croaked"}
  /\ phase = "mark" => out = <<>> /\ anchored = {}
  /\ ~Json => NumbersOnce
  /\ Json /\ phase \in {"emit", "done"} => Marked = {}
  /\ Json /\ phase = "croaked" => out = <<>>

LEMMA MarkedFinite == IsFiniteSet(Marked) /\ Cardinality(Marked) \in Nat
  <1>1. Marked \subseteq Objs
    BY DEF Marked
  <1>2. QED
    BY <1>1, KindsFacts, FS_Subset, FS_CardinalityType

(* syck_emitter_mark_node keeps the numbers apart.                         *)
LEMMA MarkNodeSound ==
  ASSUME NumbersType, NEW o \in Objs, MarkNode(o)
  PROVE  NumbersType' /\ (NumbersOnce => NumbersOnce')
  <1>1. CASE markers[o] = NONE
    <2> DEFINE n == Cardinality(Marked) + 1
    <2>1. markers' = [markers EXCEPT ![o] = n] /\ anchors' = anchors
      BY <1>1 DEF MarkNode
    <2>2. n \in Nat \ {0} /\ n # NONE /\ Cardinality(Marked) \in Nat
      BY MarkedFinite, KindsFacts
    <2> HIDE DEF n
    <2>3. NumbersType'
      BY <2>1, <2>2 DEF NumbersType
    <2>4. Marked' = Marked \cup {o} /\ o \notin Marked
      BY <1>1, <2>1, <2>2 DEF Marked, NumbersType
    <2>5. Cardinality(Marked') = n
      BY <2>4, MarkedFinite, FS_AddElement DEF n
    <2>6. \A p \in Marked : markers'[p] = markers[p]
      BY <2>1, <2>4 DEF NumbersType, Marked
    <2>7. markers'[o] = n
      BY <2>1 DEF NumbersType
    <2>8. ASSUME NumbersOnce PROVE NumbersOnce'
      <3>1. \A p \in Marked : markers'[p] \in 1..(n - 1)
        BY <2>6, <2>8, <2>2 DEF NumbersOnce, n
      <3>2. \A p \in Marked' : markers'[p] \in 1..n
        BY <2>2, <2>4, <2>7, <3>1
      <3>3. \A p \in Marked : markers'[p] # markers'[o]
        BY <2>2, <2>7, <3>1
      <3>4. \A p, q \in Marked : markers'[p] = markers'[q] => p = q
        BY <2>6, <2>8 DEF NumbersOnce
      <3>5. \A p, q \in Marked' : markers'[p] = markers'[q] => p = q
        BY <2>4, <3>3, <3>4
      <3>6. QED
        BY <2>5, <3>2, <3>5 DEF NumbersOnce
    <2>9. QED
      BY <2>3, <2>8
  <1>2. CASE markers[o] # NONE
    <2>1. markers' = markers /\ markers[o] \in Nat
      BY <1>2 DEF MarkNode, NumbersType
    <2>2. anchors' \in Seq(Nat)
      BY <1>2, <2>1 DEF MarkNode, NumbersType
    <2>3. QED
      BY <2>1, <2>2 DEF NumbersType, NumbersOnce, Marked
  <1>3. QED
    BY <1>1, <1>2

LEMMA MarksInit == Init => MarksSound
  <1> SUFFICES ASSUME Init PROVE MarksSound
    OBVIOUS
  <1>1. markers = [o \in Objs |-> NONE] /\ anchors = <<>> /\ phase = "mark"
        /\ out = <<>> /\ anchored = {}
    BY DEF Init
  <1>2. Marked = {}
    BY <1>1 DEF Marked
  <1>3. QED
    BY <1>1, <1>2 DEF MarksSound, NumbersType, NumbersOnce

LEMMA MarksStep ==
  ASSUME RunSound, MarksSound, [Next]_vars
  PROVE  MarksSound'
  <1>1. CASE MarkAgain \/ MarkEnter
    <2>1. /\ phase = "mark" /\ Visiting /\ MarkNode(Child) /\ phase' \in {"mark", "croaked"}
          /\ UNCHANGED <<anchored, out>>
      BY <1>1 DEF MarkAgain, MarkEnter
    <2>2. NumbersType' /\ (NumbersOnce => NumbersOnce')
      BY <2>1, ChildFacts, MarkNodeSound DEF MarksSound
    <2>3. QED
      BY <2>1, <2>2 DEF MarksSound
  <1>2. CASE MarkLeave
    <2>1. /\ phase = "mark" /\ phase' \in {"mark", "emit"}
          /\ phase' = "emit" => Level = 1
          /\ UNCHANGED <<anchors, anchored, out>>
      BY <1>2 DEF MarkLeave
    <2>2. Level \in Nat \ {0} /\ Top.obj \in Objs
      BY <1>2, ReturnFacts DEF MarkLeave
    <2>3. CASE ~Json
      <3>1. markers' = markers
        BY <1>2, <2>3 DEF MarkLeave
      <3>2. QED
        BY <2>1, <2>3, <3>1 DEF MarksSound, NumbersType, NumbersOnce, Marked
    <2>4. CASE Json /\ Level = 1
      <3>1. markers' = [o \in Objs |-> NONE]
        BY <1>2, <2>4 DEF MarkLeave
      <3>2. Marked' = {}
        BY <3>1 DEF Marked
      <3>3. QED
        BY <2>1, <2>4, <3>1, <3>2 DEF MarksSound, NumbersType
    <2>5. CASE Json /\ Level > 1
      <3>1. markers' = [markers EXCEPT ![Top.obj] = 0]
        BY <1>2, <2>5 DEF MarkLeave
      <3>2. phase' = "mark"
        BY <2>1, <2>5
      <3>3. QED
        BY <2>1, <2>5, <3>1, <3>2 DEF MarksSound, NumbersType
    <2>6. QED
      BY <2>2, <2>3, <2>4, <2>5
  <1>3. CASE \/ EmitAlias \/ EmitLeaf \/ EmitFlattened \/ EmitRegexp \/ EmitRef
             \/ EmitContainer \/ EmitLeave \/ EmitCroak
    <2>1. UNCHANGED <<markers, anchors>> /\ phase = "emit"
      BY <1>3 DEF EmitAlias, EmitLeaf, EmitFlattened, EmitRegexp, EmitRef, EmitContainer,
                  EmitLeave, EmitCroak, Emitting, names
    <2>2. phase' \in {"emit", "done"} \/ (phase' = "croaked" /\ ~Json)
      BY <1>3, <2>1 DEF EmitAlias, EmitLeaf, EmitFlattened, EmitRegexp, EmitRef, EmitContainer,
                  EmitLeave, EmitCroak, Ends
    <2>3. QED
      BY <2>1, <2>2 DEF MarksSound, NumbersType, NumbersOnce, Marked
  <1>4. CASE UNCHANGED vars
    BY <1>4 DEF vars, names, MarksSound, NumbersType, NumbersOnce, Marked
  <1>5. QED
    BY <1>1, <1>2, <1>3, <1>4 DEF Next

-----------------------------------------------------------------------------
(* What is written.  A sequence of events is good for a set of names when  *)
(* these are the names of its anchors, each written once, and an alias     *)
(* comes after its anchor.                                                 *)

Stands(n, o) == n \in 1..Len(anchors) /\ o \in Marked /\ anchors[n] = markers[o]
EventType == [what : {"anchor", "alias", "leaf", "open", "close"}, obj : Objs, name : Nat,
              tag : Objs \cup {NONE, BINARY}]
Good(s, S) ==
  /\ s \in Seq(EventType)
  /\ \A i \in 1..Len(s) :
       s[i].what \in {"anchor", "alias"} => Stands(s[i].name, s[i].obj) /\ s[i].name \in S
  /\ \A n \in S : \E i \in 1..Len(s) : s[i].what = "anchor" /\ s[i].name = n
  /\ \A i, j \in 1..Len(s) :
       s[i].what = "anchor" /\ s[j].what = "anchor" /\ s[i].name = s[j].name => i = j
  /\ \A i \in 1..Len(s) : s[i].what = "alias" =>
       \E j \in 1..Len(s) : j < i /\ s[j].what = "anchor" /\ s[j].name = s[i].name
OutInv ==
  /\ tag \in Objs \cup {NONE}
  /\ 0 \notin anchored
  /\ Good(out, anchored)

LEMMA NameFacts ==
  ASSUME NumbersType, NEW o \in Objs, NameOf(o) # 0
  PROVE  NameOf(o) \in Nat /\ Stands(NameOf(o), o)
  <1>1. anchors \in Seq(Nat) /\ DOMAIN anchors = 1..Len(anchors) /\ Len(anchors) \in Nat
    BY DEF NumbersType
  <1>2. o \in Marked /\ \E i \in DOMAIN anchors : anchors[i] = markers[o]
    BY DEF NameOf, Named, Marked
  <1>3. NameOf(o) = CHOOSE i \in DOMAIN anchors : anchors[i] = markers[o]
    BY DEF NameOf
  <1>4. NameOf(o) \in DOMAIN anchors /\ anchors[NameOf(o)] = markers[o]
    BY <1>2, <1>3
  <1>5. QED
    BY <1>1, <1>2, <1>4 DEF Stands

(* The three ways to write an event.                                       *)
LEMMA AppendFacts ==
  ASSUME NEW s \in Seq(EventType), NEW e \in EventType
  PROVE  /\ Append(s, e) \in Seq(EventType) /\ Len(s) \in Nat
         /\ Len(Append(s, e)) = Len(s) + 1
         /\ \A i \in 1..Len(s) : Append(s, e)[i] = s[i]
         /\ Append(s, e)[Len(s) + 1] = e
         /\ 1..Len(Append(s, e)) = 1..Len(s) \cup {Len(s) + 1}
  <1>1. /\ Append(s, e) \in Seq(EventType) /\ Len(s) \in Nat
        /\ Len(Append(s, e)) = Len(s) + 1
        /\ \A i \in 1..Len(s) : Append(s, e)[i] = s[i]
        /\ Append(s, e)[Len(s) + 1] = e
    BY AppendProperties, LenProperties
  <1>2. 1..(Len(s) + 1) = 1..Len(s) \cup {Len(s) + 1}
    BY <1>1
  <1>3. QED
    BY <1>1, <1>2

LEMMA WriteOther ==
  ASSUME NEW S, NEW s, Good(s, S), NEW e \in EventType, e.what \notin {"anchor", "alias"}
  PROVE  Good(Append(s, e), S)
  <1> DEFINE t == Append(s, e)
             l == Len(s) + 1
  <1>1. s \in Seq(EventType)
    BY DEF Good
  <1>2. /\ t \in Seq(EventType) /\ \A i \in 1..Len(s) : t[i] = s[i]
        /\ t[l] = e /\ 1..Len(t) = 1..Len(s) \cup {l}
    BY <1>1, AppendFacts
  <1> HIDE DEF t, l
  <1>3. QED
    BY <1>2 DEF Good, t

LEMMA WriteAnchor ==
  ASSUME NEW S, NEW s, Good(s, S), NEW e \in EventType, e.what = "anchor",
         Stands(e.name, e.obj), e.name \notin S
  PROVE  Good(Append(s, e), S \cup {e.name})
  <1> DEFINE t == Append(s, e)
             l == Len(s) + 1
             T == S \cup {e.name}
  <1>1. s \in Seq(EventType)
    BY DEF Good
  <1>2. /\ t \in Seq(EventType) /\ \A i \in 1..Len(s) : t[i] = s[i]
        /\ t[l] = e /\ 1..Len(t) = 1..Len(s) \cup {l}
    BY <1>1, AppendFacts
  <1>3. \A i \in 1..Len(s) : s[i].what = "anchor" => s[i].name # e.name
    BY DEF Good
  <1> HIDE DEF t, l
  <1>4. \A i \in 1..Len(t) :
          t[i].what \in {"anchor", "alias"} => Stands(t[i].name, t[i].obj) /\ t[i].name \in T
    BY <1>2 DEF Good
  <1>5. \A n \in T : \E i \in 1..Len(t) : t[i].what = "anchor" /\ t[i].name = n
    <2>1. ASSUME NEW n \in S PROVE \E i \in 1..Len(t) : t[i].what = "anchor" /\ t[i].name = n
      <3>1. PICK i \in 1..Len(s) : s[i].what = "anchor" /\ s[i].name = n
        BY DEF Good
      <3>2. i \in 1..Len(t) /\ t[i] = s[i]
        BY <1>2
      <3>3. QED
        BY <3>1, <3>2
    <2>2. l \in 1..Len(t) /\ t[l].what = "anchor" /\ t[l].name = e.name
      BY <1>2
    <2>3. QED
      BY <2>1, <2>2
  <1>6. \A i, j \in 1..Len(t) :
          t[i].what = "anchor" /\ t[j].what = "anchor" /\ t[i].name = t[j].name => i = j
    BY <1>2, <1>3 DEF Good
  <1>7. \A i \in 1..Len(t) : t[i].what = "alias" =>
          \E j \in 1..Len(t) : j < i /\ t[j].what = "anchor" /\ t[j].name = t[i].name
    BY <1>2 DEF Good
  <1>8. QED
    BY <1>2, <1>4, <1>5, <1>6, <1>7 DEF Good, t

LEMMA WriteAlias ==
  ASSUME NEW S, NEW s, Good(s, S), NEW e \in EventType, e.what = "alias",
         Stands(e.name, e.obj), e.name \in S
  PROVE  Good(Append(s, e), S)
  <1> DEFINE t == Append(s, e)
             l == Len(s) + 1
  <1>1. s \in Seq(EventType) /\ Len(s) \in Nat
    BY AppendFacts DEF Good
  <1>2. /\ t \in Seq(EventType) /\ \A i \in 1..Len(s) : t[i] = s[i]
        /\ t[l] = e /\ 1..Len(t) = 1..Len(s) \cup {l}
    BY <1>1, AppendFacts
  <1>3. PICK j \in 1..Len(s) : s[j].what = "anchor" /\ s[j].name = e.name
    BY DEF Good
  <1>4. j < l
    BY <1>1, <1>3
  <1> HIDE DEF t, l
  <1>5. \A i \in 1..Len(t) :
          t[i].what \in {"anchor", "alias"} => Stands(t[i].name, t[i].obj) /\ t[i].name \in S
    BY <1>2 DEF Good
  <1>6. \A n \in S : \E i \in 1..Len(t) : t[i].what = "anchor" /\ t[i].name = n
    BY <1>2 DEF Good
  <1>7. \A i, k \in 1..Len(t) :
          t[i].what = "anchor" /\ t[k].what = "anchor" /\ t[i].name = t[k].name => i = k
    BY <1>2 DEF Good
  <1>8. \A i \in 1..Len(t) : t[i].what = "alias" =>
          \E k \in 1..Len(t) : k < i /\ t[k].what = "anchor" /\ t[k].name = t[i].name
    <2>1. ASSUME NEW i \in 1..Len(s), t[i].what = "alias"
          PROVE  \E k \in 1..Len(t) : k < i /\ t[k].what = "anchor" /\ t[k].name = t[i].name
      <3>1. PICK k \in 1..Len(s) : k < i /\ s[k].what = "anchor" /\ s[k].name = s[i].name
        BY <1>2, <2>1 DEF Good
      <3>2. k \in 1..Len(t) /\ t[k] = s[k] /\ t[i] = s[i]
        BY <1>2
      <3>3. QED
        BY <3>1, <3>2
    <2>2. j \in 1..Len(t) /\ j < l /\ t[j].what = "anchor" /\ t[j].name = t[l].name
      BY <1>2, <1>3, <1>4
    <2>3. QED
      BY <1>2, <2>1, <2>2
  <1>9. QED
    BY <1>2, <1>5, <1>6, <1>7, <1>8 DEF Good, t

(* Concatenation of events, as the actions write them.                     *)
LEMMA ConcatFacts ==
  ASSUME NEW s \in Seq(EventType), NEW t \in Seq(EventType), NEW e \in EventType
  PROVE  /\ s \o <<>> = s /\ s \o t \in Seq(EventType)
         /\ s \o <<e>> = Append(s, e) /\ <<e>> \in Seq(EventType)
         /\ s \o Append(t, e) = Append(s \o t, e)
         /\ s \o (t \o <<e>>) = Append(s \o t, e)
  <1>1. <<e>> \in Seq(EventType) /\ s \o t \in Seq(EventType) /\ s \o <<>> = s
    BY ConcatProperties, ConcatEmptySeq
  <1>2. \A q \in Seq(EventType) : Append(q, e) = q \o <<e>>
    BY AppendIsConcat
  <1>3. (s \o t) \o <<e>> = s \o (t \o <<e>>)
    BY <1>1, ConcatAssociative
  <1>4. QED
    BY <1>1, <1>2, <1>3

(* What syck_emit_scalar makes of a class.                                 *)
LEMMA LeafTagFacts ==
  ASSUME NEW o, NEW class
  PROVE  /\ LeafTag(o, class) \in {class, NONE, BINARY}
         /\ LeafTag(o, class) = NONE => class = NONE \/ o \in Implicits
         /\ LeafTag(o, class) = BINARY => class = BINARY \/ o \in Binaries
         /\ o \notin Leaves => LeafTag(o, class) = class
  <1>1. CASE o \in Implicits
    BY <1>1, DumpAssumption DEF LeafTag
  <1>2. CASE o \in Binaries \ Implicits
    BY <1>2, DumpAssumption DEF LeafTag
  <1>3. CASE o \notin Implicits \cup Binaries
    BY <1>3 DEF LeafTag
  <1>4. QED
    BY <1>1, <1>2, <1>3

LEMMA EventFacts ==
  ASSUME NumbersType, NEW o \in Objs
  PROVE  /\ Event("anchor", o, NameOf(o), NONE) \in EventType
         /\ AliasEvent(o) \in EventType
         /\ \A what \in {"leaf", "open", "close"}, class \in Objs \cup {NONE, BINARY} :
              Event(what, o, 0, class) \in EventType
         /\ AnchorEvents(o) \in Seq(EventType)
  <1>1. NameOf(o) \in Nat
    BY NameFacts
  <1>2. /\ Event("anchor", o, NameOf(o), NONE) \in EventType
        /\ AliasEvent(o) \in EventType
        /\ \A what \in {"leaf", "open", "close"}, class \in Objs \cup {NONE, BINARY} :
             Event(what, o, 0, class) \in EventType
    BY <1>1 DEF Event, AliasEvent, EventType
  <1>3. AnchorEvents(o) \in Seq(EventType)
    BY <1>2 DEF AnchorEvents
  <1>4. QED
    BY <1>2, <1>3

LEMMA WriteAnchorEvents ==
  ASSUME NumbersType, NEW o \in Objs, NEW S, NEW s, Good(s, S), NameOf(o) \notin S
  PROVE  Good(s \o AnchorEvents(o), S \cup ({NameOf(o)} \ {0}))
  <1>1. s \in Seq(EventType)
    BY DEF Good
  <1>2. CASE NameOf(o) = 0
    <2>1. s \o AnchorEvents(o) = s
      BY <1>1, <1>2, ConcatEmptySeq DEF AnchorEvents
    <2>2. S \cup ({NameOf(o)} \ {0}) = S
      BY <1>2
    <2>3. QED
      BY <2>1, <2>2
  <1>3. CASE NameOf(o) # 0
    <2> DEFINE e == Event("anchor", o, NameOf(o), NONE)
    <2>1. e \in EventType /\ e.what = "anchor" /\ e.name = NameOf(o) /\ e.obj = o
      BY EventFacts DEF Event
    <2>2. s \o AnchorEvents(o) = Append(s, e)
      BY <1>1, <1>3, <2>1, AppendIsConcat DEF AnchorEvents
    <2>3. Stands(NameOf(o), o)
      BY <1>3, NameFacts
    <2> HIDE DEF e
    <2>4. Good(Append(s, e), S \cup {NameOf(o)})
      BY <2>1, <2>3, WriteAnchor
    <2>5. S \cup ({NameOf(o)} \ {0}) = S \cup {NameOf(o)}
      BY <1>3
    <2>6. QED
      BY <2>2, <2>4, <2>5
  <1>4. QED
    BY <1>2, <1>3

LEMMA WriteAliasEvent ==
  ASSUME NumbersType, NEW o \in Objs, NEW S, NEW s, Good(s, S), NameOf(o) \in S, 0 \notin S
  PROVE  Good(Append(s, AliasEvent(o)), S)
  <1> DEFINE e == AliasEvent(o)
  <1>1. e \in EventType /\ e.what = "alias" /\ e.name = NameOf(o) /\ e.obj = o
    BY EventFacts DEF AliasEvent, Event
  <1>2. Stands(NameOf(o), o)
    BY NameFacts
  <1> HIDE DEF e
  <1>3. Good(Append(s, e), S)
    BY <1>1, <1>2, WriteAlias
  <1>4. QED
    BY <1>3 DEF e

LEMMA WriteOtherEvent ==
  ASSUME NumbersType, NEW o \in Objs, NEW S, NEW s, Good(s, S),
         NEW what \in {"leaf", "open", "close"}, NEW class \in Objs \cup {NONE, BINARY}
  PROVE  Good(Append(s, Event(what, o, 0, class)), S)
  <1> DEFINE e == Event(what, o, 0, class)
  <1>1. e \in EventType /\ e.what \notin {"anchor", "alias"}
    BY EventFacts DEF Event
  <1> HIDE DEF e
  <1>2. Good(Append(s, e), S)
    BY <1>1, WriteOther
  <1>3. QED
    BY <1>2 DEF e

(* A value and its anchor, in front of one event more.                     *)
LEMMA WriteValue ==
  ASSUME NumbersType, OutInv, NEW o \in Objs, ~Written(o), NEW p \in Objs,
         NEW what \in {"leaf", "open"}, NEW class \in Objs \cup {NONE, BINARY}
  PROVE  /\ Good(out \o Append(AnchorEvents(o), Event(what, p, 0, class)),
                 anchored \cup ({NameOf(o)} \ {0}))
         /\ out \o (AnchorEvents(o) \o <<Event(what, p, 0, class)>>)
              = out \o Append(AnchorEvents(o), Event(what, p, 0, class))
  <1> DEFINE e == Event(what, p, 0, class)
             S == anchored \cup ({NameOf(o)} \ {0})
  <1>1. Good(out \o AnchorEvents(o), S)
    BY WriteAnchorEvents DEF OutInv, Written
  <1>2. out \in Seq(EventType) /\ AnchorEvents(o) \in Seq(EventType) /\ e \in EventType
    BY EventFacts DEF OutInv, Good
  <1>3. Good(Append(out \o AnchorEvents(o), e), S)
    BY <1>1, WriteOtherEvent
  <1> HIDE DEF e, S
  <1>4. /\ out \o Append(AnchorEvents(o), e) = Append(out \o AnchorEvents(o), e)
        /\ out \o (AnchorEvents(o) \o <<e>>) = Append(out \o AnchorEvents(o), e)
    BY <1>2, ConcatFacts
  <1>5. QED
    BY <1>3, <1>4 DEF e, S

LEMMA NamesSteady ==
  ASSUME UNCHANGED <<markers, anchors>>, Good(out', anchored'), tag' \in Objs \cup {NONE},
         0 \notin anchored'
  PROVE  OutInv'
  BY DEF OutInv, Good, Stands, Marked

LEMMA OutInit == Init => OutInv
  <1> SUFFICES ASSUME Init PROVE OutInv
    OBVIOUS
  <1>1. out = <<>> /\ anchored = {} /\ tag = NONE
    BY DEF Init
  <1>2. Good(<<>>, {})
    BY DEF Good
  <1>3. QED
    BY <1>1, <1>2 DEF OutInv

LEMMA OutFlattened ==
  ASSUME RunSound, MarksSound, OutInv, EmitFlattened
  PROVE  OutInv'
  <1> DEFINE o == Referent(Child)
             S == anchored \cup ({NameOf(Child)} \ {0})
             first == out \o AnchorEvents(Child)
             class == LeafTag(o, o)
             leaf == Event("leaf", o, 0, class)
  <1>1. /\ Visiting /\ ~Written(Child) /\ Child \in Refs /\ o \in Leaves /\ ~Json
        /\ UNCHANGED <<markers, anchors>> /\ tag' = NONE
        /\ anchored' = anchored \cup ({NameOf(p) : p \in {Child, o}} \ {0})
        /\ out' = out \o (AnchorEvents(Child)
                            \o IF Written(o) THEN <<AliasEvent(o)>>
                               ELSE Append(AnchorEvents(o), leaf))
    BY DEF EmitFlattened, Emitting, Flattened, IsObject, Write, NowAnchored
  <1>2. NumbersType /\ NumbersOnce /\ Child \in Objs /\ o \in Objs /\ Child # o
        /\ class \in Objs \cup {NONE, BINARY}
    BY <1>1, KindsFacts, LeafTagFacts DEF MarksSound
  <1> HIDE DEF class
  <1>3. Good(first, S) /\ 0 \notin S
    BY <1>1, <1>2, WriteAnchorEvents DEF OutInv, Written
  <1>4. anchored' = S \cup ({NameOf(o)} \ {0}) /\ 0 \notin anchored'
    BY <1>1, <1>3
  <1>5. /\ out \in Seq(EventType) /\ first \in Seq(EventType)
        /\ AnchorEvents(Child) \in Seq(EventType) /\ AnchorEvents(o) \in Seq(EventType)
        /\ leaf \in EventType /\ AliasEvent(o) \in EventType
    BY <1>2, <1>3, EventFacts DEF OutInv, Good
  <1>6. CASE Written(o)
    <2>1. S \cup ({NameOf(o)} \ {0}) = S /\ NameOf(o) \in S
      BY <1>6 DEF Written
    <2>2. out' = Append(first, AliasEvent(o))
      BY <1>1, <1>5, <1>6, ConcatFacts
    <2> HIDE DEF S, first, o
    <2>3. Good(Append(first, AliasEvent(o)), S)
      BY <1>2, <1>3, <2>1, WriteAliasEvent
    <2>4. QED
      BY <1>1, <1>4, <2>1, <2>2, <2>3, NamesSteady
  <1>7. CASE ~Written(o)
    <2>1. NameOf(o) \notin S
      <3>1. SUFFICES ASSUME NameOf(o) \in S PROVE FALSE
        OBVIOUS
      <3>2. NameOf(o) = NameOf(Child) /\ NameOf(o) # 0
        BY <1>7, <3>1 DEF Written
      <3>3. Stands(NameOf(o), o) /\ Stands(NameOf(o), Child)
        BY <1>2, <3>2, NameFacts
      <3>4. QED
        BY <1>2, <3>3 DEF Stands, NumbersOnce
    <2>2. out' = Append(first \o AnchorEvents(o), leaf)
      <3> HIDE DEF leaf
      <3>1. out' = out \o (AnchorEvents(Child) \o Append(AnchorEvents(o), leaf))
        BY <1>1, <1>7
      <3>2. Append(AnchorEvents(o), leaf) \in Seq(EventType)
        BY <1>5, AppendProperties
      <3>3. out' = first \o Append(AnchorEvents(o), leaf)
        <4> DEFINE a == AnchorEvents(Child)
                   b == Append(AnchorEvents(o), leaf)
        <4>1. a \in Seq(EventType) /\ b \in Seq(EventType) /\ out \in Seq(EventType)
              /\ out' = out \o (a \o b) /\ first = out \o a
          BY <1>5, <3>1, <3>2
        <4> HIDE DEF a, b, first
        <4>2. \A s, t, u \in Seq(EventType) : (s \o t) \o u = s \o (t \o u)
          BY ConcatAssociative
        <4>3. out' = first \o b
          BY <4>1, <4>2
        <4>4. QED
          BY <4>3 DEF b
      <3>4. QED
        BY <1>5, <3>3, ConcatFacts
    <2> HIDE DEF S, first, o
    <2>3. Good(first \o AnchorEvents(o), S \cup ({NameOf(o)} \ {0}))
      BY <1>2, <1>3, <2>1, WriteAnchorEvents
    <2>4. Good(Append(first \o AnchorEvents(o), leaf), S \cup ({NameOf(o)} \ {0}))
      BY <1>2, <2>3, WriteOtherEvent
    <2>5. QED
      BY <1>1, <1>4, <2>2, <2>4, NamesSteady
  <1>8. QED
    BY <1>6, <1>7

LEMMA OutStep ==
  ASSUME RunSound, MarksSound, OutInv, [Next]_vars
  PROVE  OutInv'
  <1> USE DEF MarksSound
  <1>1. CASE MarkAgain \/ MarkEnter \/ MarkLeave
    <2>1. out = <<>> /\ anchored = {} /\ UNCHANGED <<out, anchored, tag>>
      BY <1>1 DEF MarkAgain, MarkEnter, MarkLeave, buffers
    <2>2. Good(<<>>, {})'
      BY DEF Good
    <2>3. QED
      BY <2>1, <2>2 DEF OutInv
  <1>2. ASSUME NEW o \in Objs, ~Written(o), NEW p \in Objs, NEW class \in Objs \cup {NONE, BINARY},
               NEW what \in {"leaf", "open"}, UNCHANGED <<markers, anchors>>,
               tag' \in Objs \cup {NONE},
               out' = out \o Append(AnchorEvents(o), Event(what, p, 0, class)),
               anchored' = anchored \cup ({NameOf(q) : q \in {o}} \ {0})
        PROVE  OutInv'
    <2>1. Good(out', anchored \cup ({NameOf(o)} \ {0}))
      BY <1>2, WriteValue
    <2>2. anchored' = anchored \cup ({NameOf(o)} \ {0})
      BY <1>2
    <2>3. 0 \notin anchored'
      BY <2>2 DEF OutInv
    <2>4. QED
      BY <1>2, <2>1, <2>2, <2>3, NamesSteady
  <1>3. tag \in Objs \cup {NONE} /\ NONE \in Objs \cup {NONE}
    BY DEF OutInv
  <1>4. CASE EmitAlias
    <2>1. /\ Visiting /\ Written(Child) /\ UNCHANGED <<markers, anchors, anchored, tag>>
          /\ out' = out \o <<AliasEvent(Child)>>
      BY <1>4 DEF EmitAlias, Emitting, Write, names, buffers
    <2>2. Child \in Objs /\ AliasEvent(Child) \in EventType /\ out \in Seq(EventType)
      BY <2>1, ChildFacts, EventFacts DEF OutInv, Good
    <2>3. out' = Append(out, AliasEvent(Child))
      BY <2>1, <2>2, ConcatFacts, EmptySeq
    <2>4. Good(out', anchored)
      BY <2>1, <2>2, <2>3, WriteAliasEvent DEF OutInv, Written
    <2>5. QED
      BY <1>3, <2>1, <2>4, NamesSteady DEF OutInv
  <1>5. CASE EmitLeaf
    <2> DEFINE class == LeafTag(Child, tag)
    <2>1. Child \in Objs /\ class \in Objs \cup {NONE, BINARY}
      BY <1>3, <1>5, ChildFacts, LeafTagFacts DEF EmitLeaf, Emitting
    <2>2. /\ ~Written(Child) /\ UNCHANGED <<markers, anchors>> /\ tag' = NONE
          /\ out' = out \o Append(AnchorEvents(Child), Event("leaf", Child, 0, class))
          /\ anchored' = anchored \cup ({NameOf(q) : q \in {Child}} \ {0})
      BY <1>5 DEF EmitLeaf, Write, NowAnchored
    <2> HIDE DEF class
    <2>3. QED
      BY <1>2, <1>3, <2>1, <2>2
  <1>6. CASE EmitFlattened
    BY <1>6, OutFlattened
  <1>7. CASE EmitRegexp
    <2>1. Child \in Objs /\ Referent(Child) \in Objs
      BY <1>7, ReferentFacts, ChildFacts DEF EmitRegexp, Emitting, IsObject
    <2>2. QED
      BY <1>2, <1>3, <1>7, <2>1 DEF EmitRegexp, Write, NowAnchored
  <1>8. CASE EmitContainer
    <2>1. Child \in Objs
      BY <1>8, ChildFacts DEF EmitContainer, Emitting
    <2>2. QED
      BY <1>2, <1>3, <1>8, <2>1 DEF EmitContainer, Write, NowAnchored
  <1>9. CASE EmitRef
    <2> DEFINE class == IF IsObject(Child) THEN Referent(Child) ELSE tag
    <2>1. /\ Child \in Objs /\ Child \in Refs /\ Referent(Child) \in Objs /\ ~Written(Child)
          /\ UNCHANGED <<markers, anchors>>
          /\ anchored' = anchored \cup ({NameOf(q) : q \in {Child}} \ {0})
      BY <1>9, ChildFacts, ReferentFacts DEF EmitRef, Emitting, NowAnchored
    <2>2. class \in Objs \cup {NONE}
      BY <1>3, <2>1
    <2>3. /\ tag' = IF Inlined(Child) THEN class ELSE NONE
          /\ out' = out \o (AnchorEvents(Child)
                      \o IF Inlined(Child) THEN <<>> ELSE <<Event("open", Child, 0, class)>>)
      BY <1>9 DEF EmitRef, Write
    <2> HIDE DEF class
    <2>4. tag' \in Objs \cup {NONE}
      BY <2>2, <2>3
    <2>5. AnchorEvents(Child) \in Seq(EventType)
      BY <2>1, EventFacts
    <2>6. CASE Inlined(Child)
      <3>1. out' = out \o AnchorEvents(Child)
        BY <2>3, <2>5, <2>6, ConcatEmptySeq
      <3>2. Good(out', anchored \cup ({NameOf(Child)} \ {0}))
        BY <2>1, <3>1, WriteAnchorEvents DEF OutInv, Written
      <3>3. anchored' = anchored \cup ({NameOf(Child)} \ {0}) /\ 0 \notin anchored'
        BY <2>1 DEF OutInv
      <3>4. QED
        BY <2>1, <2>4, <3>2, <3>3, NamesSteady
    <2>7. CASE ~Inlined(Child)
      <3>1. out' = out \o Append(AnchorEvents(Child), Event("open", Child, 0, class))
        BY <2>1, <2>2, <2>3, <2>7, WriteValue
      <3>2. QED
        BY <1>2, <2>1, <2>2, <2>4, <3>1
    <2>8. QED
      BY <2>6, <2>7
  <1>10. CASE EmitLeave
    <2> DEFINE close == Event("close", Top.obj, 0, NONE)
    <2>1. Top.obj \in Objs
      BY <1>10, ReturnFacts DEF EmitLeave
    <2>2. close \in EventType /\ out \in Seq(EventType)
      BY <2>1, EventFacts DEF OutInv, Good
    <2>3. UNCHANGED <<markers, anchors, anchored>> /\ tag' \in {tag, NONE}
          /\ out' \in {out, out \o <<close>>}
      BY <1>10 DEF EmitLeave, Write, names
    <2>4. out \o <<close>> = Append(out, close)
      BY <2>2, AppendIsConcat
    <2>5. Good(Append(out, close), anchored)
      BY <2>1, WriteOtherEvent DEF OutInv
    <2>6. Good(out', anchored')
      BY <2>3, <2>4, <2>5 DEF OutInv
    <2>7. QED
      BY <1>3, <2>3, <2>6, NamesSteady DEF OutInv
  <1>11. CASE EmitCroak \/ UNCHANGED vars
    <2>1. UNCHANGED <<markers, anchors, anchored, tag, out>>
      BY <1>11 DEF EmitCroak, vars, names, buffers
    <2>2. QED
      BY <2>1, NamesSteady DEF OutInv
  <1>12. QED
    BY <1>1, <1>4, <1>5, <1>6, <1>7, <1>8, <1>9, <1>10, <1>11 DEF Next

LEMMA AliasNamesOneValue ==
  ASSUME MarksSound, OutInv
  PROVE  AliasesResolve
  <1> SUFFICES ASSUME NEW i \in Positions("alias")
               PROVE  \E j \in Positions("anchor") :
                        /\ j < i /\ out[j].name = out[i].name /\ out[j].obj = out[i].obj
                        /\ \A k \in Positions("anchor") : out[k].name = out[i].name => k = j
    BY DEF AliasesResolve
  <1>1. DOMAIN out = 1..Len(out)
    BY LenProperties DEF OutInv, Good
  <1>2. i \in 1..Len(out) /\ out[i].what = "alias"
    BY <1>1 DEF Positions
  <1>3. PICK j \in 1..Len(out) : j < i /\ out[j].what = "anchor" /\ out[j].name = out[i].name
    BY <1>2 DEF OutInv, Good
  <1>4. j \in Positions("anchor")
    BY <1>1, <1>3 DEF Positions
  <1>5. Stands(out[i].name, out[i].obj) /\ Stands(out[i].name, out[j].obj)
    BY <1>2, <1>3 DEF OutInv, Good
  <1>6. NumbersOnce
    <2>1. CASE Json
      <3>1. Marked # {}
        BY <1>5 DEF Stands
      <3>2. out # <<>>
        BY <1>2
      <3>3. QED
        BY <2>1, <3>1, <3>2 DEF MarksSound
    <2>2. CASE ~Json
      BY <2>2 DEF MarksSound
    <2>3. QED
      BY <2>1, <2>2
  <1>7. out[j].obj = out[i].obj
    BY <1>5, <1>6 DEF Stands, NumbersOnce
  <1>8. \A k \in Positions("anchor") : out[k].name = out[i].name => k = j
    BY <1>1, <1>3 DEF Positions, OutInv, Good
  <1>9. QED
    BY <1>3, <1>4, <1>7, <1>8

-----------------------------------------------------------------------------
(* The tags.  While the tag buffer spells a class, the frame on top is the *)
(* reference to the object of that class, which is the next to be written, *)
(* and the pointer that its handler keeps is that of the buffer.           *)

CellsSound ==
  /\ root \in Refs
  /\ \A o \in Containers : \A i \in 1..Len(kids[o]) : kids[o][i] \in Cells
Spelled(o) == IsObject(o) /\ Inlined(o)
Framed(o) ==      \* a value whose handler calls others
  o \in Containers \/ (o \in Refs /\ Referent(o) \notin Regexps /\ ~Flattened(o))
TagFrames(fr, tg, bf) ==
  LET level == Len(fr)
      top == fr[level]
  IN /\ \A i \in 1..level : Framed(fr[i].obj)
     /\ \A i \in 1..level : i < level => fr[i].next > 1
     /\ tg # NONE => /\ level > 0 /\ Spelled(top.obj)
                     /\ tg = Referent(top.obj) /\ top.tag = bf
     /\ level > 0 /\ Spelled(top.obj) /\ top.next = 1 => tg = Referent(top.obj)
RightTag(e) ==
  LET o == IF e.obj \in Refs THEN Referent(e.obj) ELSE e.obj
  IN \/ e.tag = o
     \/ e.tag = BINARY /\ e.obj \in Binaries
     \/ e.tag = NONE /\ (o \notin Blessed \/ Unclassed(e.obj))
AllRight(s) ==
  /\ s \in Seq(EventType)
  /\ \A i \in 1..Len(s) : s[i].what \in {"open", "leaf"} => RightTag(s[i])
TagInv ==
  /\ CellsSound
  /\ phase = "mark" => tag = NONE
  /\ phase = "emit" => TagFrames(frames, tag, buffer)
  /\ AllRight(out)

LEMMA CellsInit == Init => CellsSound
  <1> SUFFICES ASSUME Init PROVE CellsSound
    OBVIOUS
  <1>1. root \in Refs
    BY DEF Init
  <1>2. PICK f \in [Refs -> Objs], g \in [Containers -> CellLists] :
          kids = [o \in Objs |-> IF o \in Refs THEN <<f[o]>>
                                 ELSE IF o \in Containers THEN g[o] ELSE <<>>]
    BY DEF Init, Graph
  <1>3. ASSUME NEW o \in Containers, NEW i \in 1..Len(kids[o]) PROVE kids[o][i] \in Cells
    <2>1. o \in Objs /\ o \notin Refs
      BY KindsFacts DEF Objs
    <2>2. kids[o] = g[o] /\ g[o] \in CellLists
      BY <1>2, <2>1
    <2>3. PICK n \in 0..MaxCells : kids[o] \in [1..n -> Cells]
      BY <2>2 DEF CellLists
    <2>4. n \in Nat
      BY DumpAssumption
    <2>5. Len(kids[o]) = n
      BY <2>3, <2>4
    <2>6. QED
      BY <2>3, <2>5
  <1>4. QED
    BY <1>1, <1>3 DEF CellsSound

(* The child of a reference is what it refers to, and a cell is a scalar   *)
(* or a reference.                                                         *)
LEMMA ChildKind ==
  ASSUME RunSound, CellsSound, Visiting
  PROVE  /\ Starting => Child \in Refs
         /\ ~Starting /\ Top.obj \in Refs => Top.next = 1 /\ Child = Referent(Top.obj)
         /\ ~Starting /\ Top.obj \in Containers => Child \in Cells
         /\ ~Starting => Child \in Kids(kids, Top.obj)
  <1>1. Starting => Child \in Refs
    BY DEF Child, CellsSound
  <1>2. ASSUME ~Starting
        PROVE  /\ Top.obj \in Objs /\ kids[Top.obj] \in Seq(Objs)
               /\ Top.next \in 1..Len(kids[Top.obj])
               /\ Child \in {kids[Top.obj][Top.next], Reverse(kids[Top.obj])[Top.next]}
    <2>1. Level \in 1..Level /\ Top = frames[Level] /\ Top \in FrameType /\ Top.next > 0
      BY <1>2, LevelFacts DEF RunSound, FramesSound
    <2>2. Top.obj \in Objs /\ Top.next \in Nat
      BY <2>1 DEF FrameType
    <2>3. kids[Top.obj] \in Seq(Objs)
      BY <2>2 DEF RunSound, GraphSound
    <2>4. QED
      BY <1>2, <2>1, <2>2, <2>3 DEF Visiting, Child, KidsOf
  <1>3. ASSUME ~Starting, NEW S, \A i \in 1..Len(kids[Top.obj]) : kids[Top.obj][i] \in S
        PROVE  Child \in S
    <2>1. Len(kids[Top.obj]) + 1 - Top.next \in 1..Len(kids[Top.obj])
      BY <1>2, <1>3
    <2>2. Reverse(kids[Top.obj])[Top.next] = kids[Top.obj][Len(kids[Top.obj]) + 1 - Top.next]
      BY <1>2, <1>3 DEF Reverse
    <2>3. QED
      BY <1>2, <1>3, <2>1, <2>2
  <1>4. ASSUME ~Starting, Top.obj \in Refs PROVE Top.next = 1 /\ Child = Referent(Top.obj)
    <2>1. Len(kids[Top.obj]) = 1
      BY <1>4 DEF RunSound, GraphSound
    <2>2. \A i \in 1..Len(kids[Top.obj]) : kids[Top.obj][i] \in {Referent(Top.obj)}
      BY <2>1 DEF Referent
    <2>3. Child \in {Referent(Top.obj)}
      BY <1>3, <1>4, <2>2
    <2>4. QED
      BY <1>2, <1>4, <2>1, <2>3
  <1>5. ASSUME ~Starting, Top.obj \in Containers PROVE Child \in Cells
    BY <1>3, <1>5 DEF CellsSound
  <1>6. ASSUME ~Starting PROVE Child \in Kids(kids, Top.obj)
    <2>1. \A i \in 1..Len(kids[Top.obj]) : kids[Top.obj][i] \in Kids(kids, Top.obj)
      BY <1>2, <1>6 DEF Kids
    <2>2. QED
      BY <1>3, <1>6, <2>1
  <1>7. QED
    BY <1>1, <1>4, <1>5, <1>6

LEMMA TagFramesFacts ==
  ASSUME RunSound, CellsSound, TagFrames(frames, tag, buffer), ~Starting
  PROVE  /\ Level \in Nat \ {0} /\ Top = frames[Level]
         /\ Framed(Top.obj)
         /\ tag # NONE => Spelled(Top.obj) /\ tag = Referent(Top.obj) /\ Top.tag = buffer
         /\ Spelled(Top.obj) /\ Top.next = 1 => tag = Referent(Top.obj)
  <1>1. Level \in Nat /\ Level \in 1..Level /\ Top = frames[Level]
    BY LevelFacts
  <1>2. QED
    BY <1>1 DEF TagFrames, Level

(* Nothing but the value its reference refers to takes a tag, and it takes *)
(* its own; a blessed value that takes none is a cell.                     *)
LEMMA TagDue ==
  ASSUME RunSound, CellsSound, TagFrames(frames, tag, buffer), Visiting, ~Json
  PROVE  /\ Child \in Refs => tag = NONE
         /\ Child \notin Refs =>
              tag = Child \/ (tag = NONE /\ (Child \notin Blessed \/ Unclassed(Child)))
  <1>1. CASE Starting
    <2>1. Len(frames) = 0 /\ Child \in Refs
      BY <1>1, ChildKind DEF Starting
    <2>2. QED
      BY <2>1 DEF TagFrames
  <1>2. CASE ~Starting /\ Top.obj \in Containers
    <2>1. Child \in Leaves \cup Refs /\ Child \in Kids(kids, Top.obj)
      BY <1>2, ChildKind, DumpAssumption
    <2>2. ~Spelled(Top.obj)
      BY <1>2, KindsFacts DEF Spelled, IsObject
    <2>3. Child \in Leaves => Unclassed(Child)
      BY <1>2, <2>1 DEF Unclassed
    <2>4. QED
      BY <1>2, <2>1, <2>2, <2>3, TagFramesFacts
  <1>3. CASE /\ ~Starting /\ Top.obj \in Refs /\ Referent(Top.obj) \notin Regexps
             /\ ~Flattened(Top.obj)
    <2>1. Child = Referent(Top.obj) /\ Top.next = 1 /\ Child \in Objs
      BY <1>3, ChildKind, ChildFacts
    <2>2. Spelled(Top.obj) => Child \notin Refs
      BY <2>1, KindsFacts DEF Spelled, Inlined, Scalars
    <2>3. Child \in Refs \cup Leaves \cup Containers \cup Codes
      BY <1>3, <2>1 DEF Objs, Scalars
    <2>4. Child \in (Containers \cup Codes) \cap Blessed => Spelled(Top.obj)
      BY <1>3, <2>1 DEF Spelled, IsObject, Inlined
    <2>5. Child \in Leaves => Child \notin Blessed
      BY <1>3, <2>1 DEF Flattened, IsObject
    <2>6. QED
      BY <1>3, <2>1, <2>2, <2>3, <2>4, <2>5, TagFramesFacts
  <1>4. QED
    BY <1>1, <1>2, <1>3, TagFramesFacts DEF Framed

(* What the moves of the recursion make of the tag buffer.                 *)
LEMMA AdvancedFacts ==
  ASSUME RunSound, Visiting, ~Starting
  PROVE  LET n == Len(frames) IN
         /\ n \in Nat \ {0} /\ Len(Advanced) = n
         /\ \A i \in 1..n : i < n => Advanced[i] = frames[i]
         /\ Advanced[n].obj = frames[n].obj /\ Advanced[n].tag = frames[n].tag
         /\ Advanced[n].next > 1 /\ Advanced[n].next # 1
  <1> DEFINE n == Len(frames)
             frame == [frames[n] EXCEPT !.next = frames[n].next + 1]
  <1>1. n \in Nat \ {0} /\ frames \in Seq(FrameType) /\ Top = frames[n]
        /\ frames[n].next \in Nat \ {0} /\ frames[n] \in FrameType
    BY LevelFacts DEF Level, RunSound, FramesSound, FrameType
  <1>2. Advanced = [frames EXCEPT ![n] = frame]
    BY <1>1 DEF Advanced, Level
  <1>3. frame.obj = frames[n].obj /\ frame.tag = frames[n].tag /\ frame.next > 1
        /\ frame.next # 1 /\ frame \in FrameType
    BY <1>1 DEF FrameType
  <1> HIDE DEF frame
  <1>4. Len(Advanced) = n
        /\ \A i \in 1..n : Advanced[i] = IF i = n THEN frame ELSE frames[i]
    BY <1>1, <1>2, <1>3, ExceptSeq
  <1>5. Advanced[n] = frame
    BY <1>1, <1>4
  <1>6. QED
    BY <1>1, <1>3, <1>4, <1>5

LEMMA TagStepped ==
  ASSUME RunSound, TagFrames(frames, tag, buffer), Visiting, Stepped, NEW tg, NEW bf,
         tg = NONE \/ (tg = tag /\ bf = buffer)
  PROVE  TagFrames(frames', tg, bf)
  <1>1. CASE Starting
    <2>1. frames' = <<>> /\ Len(frames) = 0 /\ frames = <<>>
      BY <1>1 DEF Stepped, Advanced, Starting
    <2>2. tag = NONE
      BY <2>1 DEF TagFrames
    <2>3. QED
      BY <2>1, <2>2 DEF TagFrames
  <1>2. CASE ~Starting
    <2> DEFINE n == Len(frames)
    <2>1. /\ n \in Nat \ {0} /\ Len(frames') = n
          /\ \A i \in 1..n : i < n => frames'[i] = frames[i]
          /\ frames'[n].obj = frames[n].obj /\ frames'[n].tag = frames[n].tag
          /\ frames'[n].next # 1
      BY <1>2, AdvancedFacts DEF Stepped
    <2>2. \A i \in 1..n : frames'[i].obj = frames[i].obj
      BY <2>1
    <2>3. \A i \in 1..n : i < n => frames'[i].next > 1
      BY <2>1 DEF TagFrames
    <2>4. tg # NONE => /\ n > 0 /\ Spelled(frames[n].obj) /\ tg = Referent(frames[n].obj)
                       /\ frames[n].tag = bf
      BY DEF TagFrames
    <2> HIDE DEF n
    <2>5. QED
      BY <2>1, <2>2, <2>3, <2>4 DEF TagFrames, n
  <1>3. QED
    BY <1>1, <1>2

LEMMA TagEntered ==
  ASSUME RunSound, TagFrames(frames, tag, buffer), Visiting,
         NEW tg, NEW bf \in {0, 1}, Entered(bf), Framed(Child),
         tg # NONE => Spelled(Child) /\ tg = Referent(Child),
         Spelled(Child) => tg = Referent(Child)
  PROVE  TagFrames(frames', tg, bf)
  <1> DEFINE n == Len(frames)
             frame == Frame(Child, bf)
  <1>1. n \in Nat /\ Advanced \in Seq(FrameType) /\ Len(Advanced) = n
        /\ \A i \in 1..n : Advanced[i].obj = frames[i].obj
    BY ChildFacts, LevelFacts DEF Level
  <1>2. \A i \in 1..n : Advanced[i].next > 1
    <2>1. CASE Starting
      BY <2>1 DEF Starting
    <2>2. CASE ~Starting
      <3>1. /\ n \in Nat \ {0} /\ Advanced[n].next > 1
            /\ \A i \in 1..n : i < n => Advanced[i] = frames[i]
        BY <2>2, AdvancedFacts
      <3>2. \A i \in 1..n : i < n => frames[i].next > 1
        BY DEF TagFrames
      <3> HIDE DEF n
      <3>3. \A i \in 1..n : i = n \/ i < n
        BY <3>1
      <3>4. QED
        BY <3>1, <3>2, <3>3
    <2>3. QED
      BY <2>1, <2>2
  <1>3. frame \in FrameType /\ frame.obj = Child /\ frame.tag = bf
    BY ChildFacts DEF Frame, FrameType
  <1>4. frames' = Append(Advanced, frame)
    BY DEF Entered
  <1> HIDE DEF frame
  <1>5. /\ Len(frames') = n + 1 /\ frames'[n + 1] = frame
        /\ \A i \in 1..n : frames'[i] = Advanced[i]
    BY <1>1, <1>3, <1>4, AppendProperties
  <1>6. \A i \in 1..n : Framed(frames[i].obj)
    BY DEF TagFrames
  <1> HIDE DEF n
  <1>7. 1..(n + 1) = 1..n \cup {n + 1} /\ n + 1 > 0
    BY <1>1
  <1>8. \A i \in 1..(n + 1) : Framed(frames'[i].obj)
    BY <1>1, <1>3, <1>5, <1>6, <1>7
  <1>9. \A i \in 1..(n + 1) : i < n + 1 => frames'[i].next > 1
    BY <1>1, <1>2, <1>5, <1>7
  <1>10. QED
    BY <1>3, <1>5, <1>7, <1>8, <1>9 DEF TagFrames

LEMMA TagReturned ==
  ASSUME RunSound, CellsSound, TagFrames(frames, tag, buffer), ~Visiting, frames' = Returned
  PROVE  TagFrames(frames', NONE, buffer)
  <1> DEFINE n == Len(frames)
             m == n - 1
  <1>1. n \in Nat \ {0} /\ Len(frames') = m /\ \A i \in 1..m : frames'[i] = frames[i]
    BY ReturnFacts DEF Level
  <1>2. \A i \in 1..m : frames'[i].next > 1 /\ Framed(frames'[i].obj)
    BY <1>1 DEF TagFrames
  <1>3. m > 0 => frames'[m].next # 1
    <2>1. m > 0 => frames'[m] = frames[m] /\ frames[m].next > 1 /\ frames[m] \in FrameType
      BY <1>1, <1>2, LevelFacts DEF Level
    <2>2. QED
      BY <2>1 DEF FrameType
  <1> HIDE DEF m
  <1>4. QED
    BY <1>1, <1>2, <1>3 DEF TagFrames

LEMMA RightAppend ==
  ASSUME NEW s, AllRight(s), NEW e \in EventType,
         e.what \in {"open", "leaf"} => RightTag(e)
  PROVE  AllRight(Append(s, e))
  <1>1. s \in Seq(EventType)
    BY DEF AllRight
  <1>2. /\ Append(s, e) \in Seq(EventType) /\ \A i \in 1..Len(s) : Append(s, e)[i] = s[i]
        /\ Append(s, e)[Len(s) + 1] = e
        /\ 1..Len(Append(s, e)) = 1..Len(s) \cup {Len(s) + 1}
    BY <1>1, AppendFacts
  <1>3. QED
    BY <1>2 DEF AllRight

LEMMA RightAnchors ==
  ASSUME NumbersType, NEW s, AllRight(s), NEW o \in Objs
  PROVE  AllRight(s \o AnchorEvents(o))
  <1>1. s \in Seq(EventType)
    BY DEF AllRight
  <1>2. CASE NameOf(o) = 0
    BY <1>1, <1>2, ConcatEmptySeq DEF AnchorEvents
  <1>3. CASE NameOf(o) # 0
    <2> DEFINE e == Event("anchor", o, NameOf(o), NONE)
    <2>1. e \in EventType /\ e.what = "anchor"
      BY EventFacts DEF Event
    <2>2. s \o AnchorEvents(o) = Append(s, e)
      BY <1>1, <1>3, <2>1, AppendIsConcat DEF AnchorEvents
    <2> HIDE DEF e
    <2>3. QED
      BY <2>1, <2>2, RightAppend
  <1>4. QED
    BY <1>2, <1>3

(* A value, its anchor in front of it.                                     *)
LEMMA RightValue ==
  ASSUME NumbersType, NEW s, AllRight(s), NEW o \in Objs, NEW e \in EventType,
         e.what \in {"open", "leaf"} => RightTag(e)
  PROVE  /\ AllRight(s \o Append(AnchorEvents(o), e))
         /\ AllRight(s \o (AnchorEvents(o) \o <<e>>))
  <1>1. AllRight(Append(s \o AnchorEvents(o), e))
    BY RightAnchors, RightAppend
  <1>2. s \in Seq(EventType) /\ AnchorEvents(o) \in Seq(EventType)
    BY EventFacts DEF AllRight
  <1>3. QED
    BY <1>1, <1>2, ConcatFacts

LEMMA TagSteady ==
  ASSUME UNCHANGED graph, CellsSound, phase' # "mark",
         phase' = "emit" => TagFrames(frames', tag', buffer'), AllRight(out')
  PROVE  TagInv'
  <1>1. kids' = kids /\ root' = root
    BY DEF graph
  <1>2. CellsSound'
    BY <1>1 DEF CellsSound
  <1>3. AllRight(out)'
    BY <1>1 DEF AllRight, RightTag, Referent, Unclassed, Kids
  <1>4. TagFrames(frames', tag', buffer') => TagFrames(frames, tag, buffer)'
    BY <1>1 DEF TagFrames, Framed, Flattened, Spelled, IsObject, Inlined, Referent
  <1>5. QED
    BY <1>2, <1>3, <1>4 DEF TagInv

LEMMA TagInit == Init => TagInv
  <1> SUFFICES ASSUME Init PROVE TagInv
    OBVIOUS
  <1>1. tag = NONE /\ phase = "mark" /\ out = <<>>
    BY DEF Init
  <1>2. AllRight(<<>>)
    BY DEF AllRight
  <1>3. QED
    BY <1>1, <1>2, CellsInit DEF TagInv

LEMMA TagMark ==
  ASSUME RunSound, TagInv, MarkAgain \/ MarkEnter \/ MarkLeave
  PROVE  TagInv'
  <1>1. UNCHANGED graph /\ tag' = NONE /\ out' = out
    BY DEF MarkAgain, MarkEnter, MarkLeave, TagInv, buffers
  <1>2. phase' = "emit" => frames' = <<>>
    <2>1. phase' = "emit" => MarkLeave /\ Level = 1
      BY DEF MarkAgain, MarkEnter, MarkLeave
    <2>2. MarkLeave /\ Level = 1 => frames' \in Seq(FrameType) /\ Len(frames') = 0
      BY ReturnFacts DEF MarkLeave
    <2>3. QED
      BY <2>1, <2>2, EmptySeq
  <1>3. phase' = "emit" => TagFrames(frames', tag', buffer')
    BY <1>1, <1>2 DEF TagFrames
  <1>4. CASE phase' = "mark"
    <2>1. CellsSound'
      BY <1>1 DEF TagInv, CellsSound, graph
    <2>2. AllRight(out)'
      BY <1>1 DEF TagInv, AllRight, RightTag, Referent, Unclassed, Kids, graph
    <2>3. QED
      BY <1>1, <1>4, <2>1, <2>2 DEF TagInv
  <1>5. CASE phase' # "mark"
    BY <1>1, <1>3, <1>5, TagSteady DEF TagInv
  <1>6. QED
    BY <1>4, <1>5

LEMMA TagRef ==
  ASSUME RunSound, MarksSound, OutInv, TagInv, ~Json, EmitRef
  PROVE  TagInv'
  <1> DEFINE class == IF IsObject(Child) THEN Referent(Child) ELSE tag
             open == Event("open", Child, 0, class)
  <1>1. /\ phase = "emit" /\ phase' = "emit" /\ Visiting /\ Child \in Refs
        /\ Framed(Child) /\ UNCHANGED graph /\ Entered(buffer')
        /\ tag' = IF Inlined(Child) THEN class ELSE NONE
        /\ out' = out \o (AnchorEvents(Child) \o IF Inlined(Child) THEN <<>> ELSE <<open>>)
    BY DEF EmitRef, Emitting, Write, Entered, Framed
  <1>2. Child \in Objs /\ Referent(Child) \in Objs /\ NumbersType
    BY <1>1, ChildFacts, ReferentFacts DEF MarksSound
  <1>3. tag = NONE
    BY <1>1, TagDue DEF TagInv
  <1>4. class \in Objs \cup {NONE} /\ open \in EventType
    BY <1>2, <1>3, EventFacts
  <1>5. RightTag(open)
    <2>1. ~IsObject(Child) => Referent(Child) \notin Blessed
      BY <1>1 DEF IsObject
    <2>2. open.obj = Child /\ open.tag = class
      BY DEF Event
    <2>3. QED
      BY <1>1, <1>3, <2>1, <2>2 DEF RightTag
  <1>6. TagFrames(frames', tag', buffer')
    <2>1. buffer' \in {0, 1}
      BY DEF EmitRef, MayMove, RunSound, FramesSound
    <2>2. tag' # NONE => Spelled(Child) /\ tag' = Referent(Child)
      BY <1>1, <1>3 DEF Spelled
    <2>3. Spelled(Child) => tag' = Referent(Child)
      BY <1>1 DEF Spelled
    <2>4. QED
      BY <1>1, <2>1, <2>2, <2>3, TagEntered DEF TagInv
  <1>7. AllRight(out')
    <2> HIDE DEF open
    <2>1. CASE Inlined(Child)
      <3>1. out' = out \o AnchorEvents(Child)
        BY <1>1, <1>2, <2>1, EventFacts, ConcatEmptySeq
      <3>2. QED
        BY <1>2, <3>1, RightAnchors DEF TagInv
    <2>2. CASE ~Inlined(Child)
      BY <1>1, <1>2, <1>4, <1>5, <2>2, RightValue DEF TagInv
    <2>3. QED
      BY <2>1, <2>2
  <1>8. QED
    BY <1>1, <1>6, <1>7, TagSteady DEF TagInv

LEMMA TagFlattened ==
  ASSUME RunSound, MarksSound, OutInv, TagInv, EmitFlattened
  PROVE  TagInv'
  <1> DEFINE o == Referent(Child)
             first == out \o AnchorEvents(Child)
             class == LeafTag(o, o)
             leaf == Event("leaf", o, 0, class)
  <1>1. /\ phase = "emit" /\ phase' # "mark" /\ Visiting /\ Child \in Refs /\ o \in Leaves
        /\ UNCHANGED graph /\ Stepped /\ tag' = NONE
        /\ out' = out \o (AnchorEvents(Child)
                            \o IF Written(o) THEN <<AliasEvent(o)>>
                               ELSE Append(AnchorEvents(o), leaf))
    BY DEF EmitFlattened, Emitting, Flattened, IsObject, Write, Ends, Stepped
  <1>2. Child \in Objs /\ o \in Objs /\ o \notin Refs /\ NumbersType
        /\ class \in Objs \cup {NONE, BINARY}
    BY <1>1, KindsFacts, LeafTagFacts DEF MarksSound
  <1>3. TagFrames(frames', tag', buffer')
    BY <1>1, TagStepped DEF TagInv
  <1>4. /\ AllRight(first) /\ first \in Seq(EventType) /\ out \in Seq(EventType)
        /\ AnchorEvents(Child) \in Seq(EventType) /\ AnchorEvents(o) \in Seq(EventType)
        /\ leaf \in EventType /\ AliasEvent(o) \in EventType
    BY <1>2, RightAnchors, EventFacts DEF TagInv, AllRight
  <1>5. RightTag(leaf) /\ AliasEvent(o).what = "alias"
    <2>1. leaf.obj = o /\ leaf.tag = class /\ AliasEvent(o).what = "alias"
      BY DEF Event, AliasEvent
    <2>2. class = o \/ (class = NONE /\ Unclassed(o)) \/ (class = BINARY /\ o \in Binaries)
      BY <1>1, <1>2, LeafTagFacts, KindsFacts, DumpAssumption DEF Unclassed
    <2> HIDE DEF class, leaf
    <2>3. QED
      BY <1>2, <2>1, <2>2 DEF RightTag
  <1>6. CASE Written(o)
    <2>1. out' = Append(first, AliasEvent(o))
      BY <1>1, <1>4, <1>6, ConcatFacts
    <2> HIDE DEF o, first
    <2>2. AllRight(out')
      BY <1>4, <1>5, <2>1, RightAppend
    <2>3. QED
      BY <1>1, <1>3, <2>2, TagSteady DEF TagInv
  <1>7. CASE ~Written(o)
    <2> DEFINE a == AnchorEvents(Child)
               b == Append(AnchorEvents(o), leaf)
    <2> HIDE DEF leaf
    <2>1. a \in Seq(EventType) /\ b \in Seq(EventType) /\ out' = out \o (a \o b)
          /\ first = out \o a /\ out \in Seq(EventType)
      BY <1>1, <1>4, <1>7, AppendProperties
    <2>2. \A s, t, u \in Seq(EventType) : (s \o t) \o u = s \o (t \o u)
      BY ConcatAssociative
    <2> HIDE DEF a, b, first, o
    <2>3. out' = first \o b
      BY <2>1, <2>2
    <2>4. AllRight(first \o b)
      <3>1. \A t : AllRight(t) => AllRight(t \o Append(AnchorEvents(o), leaf))
        BY <1>2, <1>4, <1>5, RightValue
      <3>2. QED
        BY <1>4, <3>1 DEF b
    <2>5. QED
      BY <1>1, <1>3, <2>3, <2>4, TagSteady DEF TagInv
  <1>8. QED
    BY <1>6, <1>7

LEMMA TagStep ==
  ASSUME RunSound, MarksSound, OutInv, TagInv, ~Json, [Next]_vars
  PROVE  TagInv'
  <1>1. NumbersType /\ CellsSound /\ AllRight(out)
    BY DEF MarksSound, TagInv
  <1>2. tag \in Objs \cup {NONE}
    BY DEF OutInv
  <1>3. CASE MarkAgain \/ MarkEnter \/ MarkLeave
    BY <1>3, TagMark
  <1>4. CASE EmitAlias
    <2>1. /\ phase = "emit" /\ phase' = "emit" /\ Visiting /\ UNCHANGED graph /\ Stepped
          /\ tag' = tag /\ buffer' = buffer /\ out' = out \o <<AliasEvent(Child)>>
      BY <1>4 DEF EmitAlias, Emitting, Write, Stepped, buffers
    <2>2. TagFrames(frames', tag', buffer')
      BY <2>1, TagStepped DEF TagInv
    <2>3. /\ AliasEvent(Child) \in EventType /\ AliasEvent(Child).what = "alias"
          /\ out \in Seq(EventType)
      BY <1>1, <2>1, ChildFacts, EventFacts DEF AliasEvent, Event, AllRight
    <2>4. out' = Append(out, AliasEvent(Child))
      BY <2>1, <2>3, AppendIsConcat
    <2>5. AllRight(out')
      BY <1>1, <2>3, <2>4, RightAppend
    <2>6. QED
      BY <1>1, <2>1, <2>2, <2>5, TagSteady
  <1>5. CASE EmitLeaf
    <2> DEFINE class == LeafTag(Child, tag)
               leaf == Event("leaf", Child, 0, class)
    <2>1. /\ phase = "emit" /\ phase' # "mark" /\ Visiting /\ UNCHANGED graph /\ Stepped
          /\ tag' = NONE /\ Child \in Scalars
          /\ out' = out \o Append(AnchorEvents(Child), leaf)
      BY <1>5 DEF EmitLeaf, Emitting, Write, Ends, Stepped
    <2>2. TagFrames(frames', tag', buffer')
      BY <2>1, TagStepped DEF TagInv
    <2>3. Child \in Objs /\ Child \notin Refs
      BY <2>1, KindsFacts, ChildFacts
    <2>4. leaf \in EventType /\ class \in {tag, NONE, BINARY}
      BY <1>1, <1>2, <2>3, EventFacts, LeafTagFacts
    <2>5. RightTag(leaf)
      <3>1. leaf.obj = Child /\ leaf.tag = class
        BY DEF Event
      <3>2. tag = Child \/ (tag = NONE /\ (Child \notin Blessed \/ Unclassed(Child)))
        BY <2>1, <2>3, TagDue DEF TagInv
      <3>3. /\ class = NONE => tag = NONE \/ Unclassed(Child)
            /\ class = BINARY => Child \in Binaries
        BY <1>2, <2>3, <3>2, LeafTagFacts, DumpAssumption DEF Unclassed
      <3> HIDE DEF class, leaf
      <3>4. QED
        BY <2>3, <2>4, <3>1, <3>2, <3>3, DumpAssumption DEF RightTag
    <2> HIDE DEF leaf
    <2>6. AllRight(out')
      BY <1>1, <2>1, <2>3, <2>4, <2>5, RightValue
    <2>7. QED
      BY <1>1, <2>1, <2>2, <2>6, TagSteady
  <1>6. CASE EmitFlattened
    BY <1>6, TagFlattened
  <1>7. CASE EmitRegexp
    <2> DEFINE o == Referent(Child)
               leaf == Event("leaf", o, 0, o)
    <2>1. /\ phase = "emit" /\ phase' # "mark" /\ Visiting /\ UNCHANGED graph /\ Stepped
          /\ tag' = NONE /\ Child \in Refs /\ o \in Regexps
          /\ out' = out \o Append(AnchorEvents(Child), leaf)
      BY <1>7 DEF EmitRegexp, Emitting, Write, Ends, Stepped, IsObject
    <2>2. TagFrames(frames', tag', buffer')
      BY <2>1, TagStepped DEF TagInv
    <2>3. Child \in Objs /\ o \in Objs /\ o \notin Refs
      BY <2>1, KindsFacts, ReferentFacts DEF Scalars
    <2>4. leaf \in EventType /\ RightTag(leaf)
      BY <1>1, <2>3, EventFacts DEF RightTag, Event
    <2> HIDE DEF leaf
    <2>5. AllRight(out')
      BY <1>1, <2>1, <2>3, <2>4, RightValue
    <2>6. QED
      BY <1>1, <2>1, <2>2, <2>5, TagSteady
  <1>8. CASE EmitRef
    BY <1>8, TagRef
  <1>9. CASE EmitContainer
    <2> DEFINE open == Event("open", Child, 0, tag)
    <2>1. /\ phase = "emit" /\ phase' = "emit" /\ Visiting /\ UNCHANGED graph
          /\ Entered(buffer) /\ tag' = NONE /\ buffer' = buffer /\ Child \in Containers
          /\ out' = out \o Append(AnchorEvents(Child), open)
      BY <1>9 DEF EmitContainer, Emitting, Write, Entered
    <2>2. Child \in Objs /\ Child \notin Refs /\ buffer \in {0, 1}
      BY <2>1, KindsFacts, ChildFacts DEF RunSound, FramesSound
    <2>3. TagFrames(frames', tag', buffer')
      <3>1. ~Spelled(Child) /\ Framed(Child)
        BY <2>1, <2>2 DEF Spelled, IsObject, Framed
      <3>2. QED
        BY <2>1, <2>2, <3>1, TagEntered DEF TagInv
    <2>4. open \in EventType
      BY <1>1, <1>2, <2>2, EventFacts
    <2>5. RightTag(open)
      <3>1. open.obj = Child /\ open.tag = tag
        BY DEF Event
      <3>2. QED
        BY <2>1, <2>2, <3>1, TagDue DEF RightTag, TagInv
    <2> HIDE DEF open
    <2>6. AllRight(out')
      BY <1>1, <2>1, <2>2, <2>4, <2>5, RightValue
    <2>7. QED
      BY <1>1, <2>1, <2>3, <2>6, TagSteady
  <1>10. CASE EmitLeave
    <2> DEFINE close == Event("close", Top.obj, 0, NONE)
    <2>1. /\ phase = "emit" /\ ~Visiting /\ UNCHANGED graph /\ frames' = Returned
          /\ tag' = IF Top.obj \in Refs /\ Top.tag = buffer THEN NONE ELSE tag
          /\ buffer' = buffer /\ out' \in {out, out \o <<close>>}
      BY <1>10 DEF EmitLeave, Write
    <2>2. phase' # "mark"
      BY <1>10 DEF EmitLeave
    <2>3. tag' = NONE
      <3>1. ~Starting
        BY <2>1 DEF Visiting
      <3>2. tag # NONE => Top.obj \in Refs /\ Top.tag = buffer
        BY <1>1, <2>1, <3>1, TagFramesFacts DEF TagInv, Spelled, IsObject
      <3>3. QED
        BY <2>1, <3>2
    <2>4. TagFrames(frames', tag', buffer')
      BY <1>1, <2>1, <2>3, TagReturned DEF TagInv
    <2>5. close \in EventType /\ close.what = "close" /\ out \in Seq(EventType)
      BY <1>1, <2>1, ReturnFacts, EventFacts DEF Event, AllRight
    <2>6. out \o <<close>> = Append(out, close)
      BY <2>5, AppendIsConcat
    <2>7. AllRight(Append(out, close))
      BY <1>1, <2>5, RightAppend
    <2>8. AllRight(out')
      BY <1>1, <2>1, <2>6, <2>7
    <2>9. QED
      BY <1>1, <2>1, <2>2, <2>4, <2>8, TagSteady
  <1>11. CASE EmitCroak
    <2>1. UNCHANGED graph /\ phase' = "croaked" /\ out' = out
      BY <1>11 DEF EmitCroak
    <2>2. QED
      BY <1>1, <2>1, TagSteady
  <1>12. CASE UNCHANGED vars
    BY <1>12 DEF vars, graph, buffers, TagInv, CellsSound, TagFrames, AllRight, RightTag,
                 Framed, Flattened, Spelled, IsObject, Inlined, Referent, Unclassed, Kids
  <1>13. QED
    BY <1>3, <1>4, <1>5, <1>6, <1>7, <1>8, <1>9, <1>10, <1>11, <1>12 DEF Next

(* An alias that Dump writes names the value it was written for: its       *)
(* anchor comes before it, once, at that very value, in whatever orders    *)
(* the mark phase and the emit phase meet the values.                      *)
THEOREM Aliases == Spec => []AliasesResolve
  <1>1. Init => RunSound /\ MarksSound /\ OutInv
    BY InitGraph, MarksInit, OutInit
  <1>2. RunSound /\ MarksSound /\ OutInv /\ [Next]_vars => (RunSound /\ MarksSound /\ OutInv)'
    BY RunStep, MarksStep, OutStep
  <1>3. MarksSound /\ OutInv => AliasesResolve
    BY AliasNamesOneValue
  <1>4. QED
    BY <1>1, <1>2, <1>3, PTL DEF Spec

(* No value that YAML::Syck writes has the tag of another, though one      *)
(* buffer spells the classes of all the handlers that are active, and may  *)
(* move while a handler keeps a pointer to it: it has that of its own      *)
(* class or !binary, and a blessed value that has none is a scalar that is *)
(* a cell, or one that is quoted because its text looks implicit.          *)
THEOREM Tags == ASSUME ~Json PROVE Spec => []TagsRight
  <1> DEFINE Inv == RunSound /\ MarksSound /\ OutInv /\ TagInv
  <1>1. Init => Inv
    BY InitGraph, MarksInit, OutInit, TagInit
  <1>2. Inv /\ [Next]_vars => Inv'
    BY RunStep, MarksStep, OutStep, TagStep
  <1>3. Inv => TagsRight
    <2> SUFFICES ASSUME Inv, NEW i \in Positions("open") \cup Positions("leaf")
                 PROVE  RightTag(out[i])
      BY DEF TagsRight, RightTag
    <2>1. i \in 1..Len(out) /\ out[i].what \in {"open", "leaf"}
      BY LenProperties DEF TagInv, AllRight, Positions
    <2>2. QED
      BY <2>1 DEF TagInv, AllRight
  <1>4. QED
    BY <1>1, <1>2, <1>3, PTL DEF Spec
=============================================================================
