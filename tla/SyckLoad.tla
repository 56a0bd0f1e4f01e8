------------------------------ MODULE SyckLoad ------------------------------
(***************************************************************************)
(* What Load builds: the Perl values that the handler of perl_syck.h makes *)
(* of the parser's nodes, while SyckAnchors says which nodes there are.    *)
(*                                                                         *)
(* Every action is an action of SyckAnchors with the contents of the nodes *)
(* and the Perl side added.  A node holds the symbols of its items; the    *)
(* handler copies the values of those symbols into a new array or hash     *)
(* (a box), and remembers by name the copies of values that stand for an   *)
(* anchor still being built, to patch them when the anchor's node is       *)
(* complete.                                                               *)
(*                                                                         *)
(* Beside the program's state the module keeps what the document says:     *)
(* which node each item and each alias stands for, by YAML's rule that an  *)
(* alias stands for the latest node before it with that anchor.  The       *)
(* properties compare the two.                                             *)
(*                                                                         *)
(* Left out: scalars' text and types, blessing, merge keys, and hash keys: *)
(* a key is handled, and its symbol counted, but a box has only the values *)
(* of a mapping, and keys are taken to be distinct.                        *)
(***************************************************************************)
EXTENDS SyckAnchors

CONSTANTS MaxTokens,  \* bound on the anchors, aliases, scalars and openings of a stream
          Openings    \* the kinds of collection it may open

ASSUME LoadAssumption ==
  MaxTokens \in Nat /\ Openings \subseteq {"LBRACKET", "LBRACE", "IOPEN"}

VARIABLES
  content,  \* per node: n->kind, n->id, the symbols of its items; `uid' names
            \* the node for the properties (a cell of memory is used again)
  heap,     \* the Perl side: p->syms, the boxes, and bonus->bad_anchors, the
            \* cells to patch per name
  roots,    \* the documents loaded: the symbol of each root, and what it means
  (* What the document says.                                               *)
  defs,     \* what the node of each anchor token is, once it is known
  current,  \* the latest anchor token of each name in this document, or 0
  means,    \* what each entry of the value stack stands for
  body,     \* what the items of each node stand for, by uid
  returned, \* how many boxes belong to documents already returned
  tokens,   \* tokens read so far, up to MaxTokens
  quirks    \* uses of anchors met so far on which Load is known to go astray

loadVars == <<content, heap, roots, defs, current, means, body, returned, tokens,
              quirks>>

-----------------------------------------------------------------------------
(* Values and meanings.                                                    *)

Str(u) == <<"str", u>>   \* a plain scalar, built from node u
Ref(b) == <<"ref", b>>   \* a reference to box b
Bad(a) == <<"bad", a>>   \* a YAML::Syck::BadAlias object named a

Node(u) == <<"node", u>>  \* the node u
Def(d) == <<"def", d>>    \* the node the d-th anchor token is put on
Nothing(a) == <<"none", a>>  \* no anchor a stands before the alias

Blank == [kind |-> "none", id |-> 0, uid |-> 0, items |-> <<>>]
NewNode(kind, uid, items) == [kind |-> kind, id |-> 0, uid |-> uid, items |-> items]
NextUid == Len(body) + 1

-----------------------------------------------------------------------------
(* perl_syck.h and handler.c, as functions of a state w of the two.        *)

Now == [heap |-> heap, content |-> content]

(* syck_add_sym: a new value gets the next symbol.                         *)
AddSym(h, v) == [h EXCEPT !.syms = Append(@, v)]

(* A new box with a copy of each item's value.  register_bad_alias notes   *)
(* the copies that are BadAlias objects.                                   *)
Build(h, node) ==
  LET vals == [i \in DOMAIN node.items |-> h.syms[node.items[i]]]
      b == Len(h.boxes) + 1
  IN [syms |-> h.syms,
      boxes |-> Append(h.boxes, [of |-> node.uid, vals |-> vals]),
      pending |-> [a \in Names |->
                     h.pending[a] \cup {<<b, i>> : i \in {j \in DOMAIN vals : vals[j] = Bad(a)}}]]

(* The boxes with a reference to box b in the cells noted under the name.  *)
Patched(h, a, b) ==
  [c \in DOMAIN h.boxes |->
     [of |-> h.boxes[c].of,
      vals |-> [i \in DOMAIN h.boxes[c].vals |->
                  IF <<c, i>> \in h.pending[a] THEN Ref(b) ELSE h.boxes[c].vals[i]]]]

(* Mutants of Resolve: the list is not cleared; the lists of every name    *)
(* are.                                                                    *)
Resolve_KeepsList(h, a, id, b) ==
  [syms |-> [h.syms EXCEPT ![id] = Ref(b)], boxes |-> Patched(h, a, b), pending |-> h.pending]
Resolve_ClearsAll(h, a, id, b) ==
  [syms |-> [h.syms EXCEPT ![id] = Ref(b)], boxes |-> Patched(h, a, b),
   pending |-> [x \in Names |-> {}]]

(* resolve_bad_alias, and the sv_setsv that follows it: the copies noted   *)
(* under the name, and the value of the symbol, now refer to box b.        *)
Resolve(h, a, id, b) ==
  [syms |-> [h.syms EXCEPT ![id] = Ref(b)],
   boxes |-> Patched(h, a, b),
   pending |-> [h.pending EXCEPT ![a] = {}]]

(* yaml_syck_parser_handler.  A node that has a symbol already is one that *)
(* stood in for an alias of itself.  `a' is the node's anchor.             *)
Handle(h, n, node, a) ==
  IF n \in bad THEN AddSym(h, Bad(a))
  ELSE IF node.kind = "str" THEN AddSym(h, Str(node.uid))
  ELSE LET built == Build(h, node)
           b == Len(built.boxes)
       IN AddSym(IF node.id = 0 THEN built ELSE Resolve(built, a, node.id, b), Ref(b))

(* Mutants of AddNode: the symbol is that of the next value; a node is     *)
(* handled again for each alias.                                           *)
AddNode_OffByOne(w, n) ==
  IF w.content[n].id # 0 THEN w
  ELSE LET h == Handle(w.heap, n, w.content[n], anchorOf[n]) IN
       [heap |-> h, content |-> [w.content EXCEPT ![n].id = Len(h.syms) + 1]]
AddNode_Again(w, n) ==
  LET h == Handle(w.heap, n, w.content[n], anchorOf[n]) IN
  [heap |-> h, content |-> [w.content EXCEPT ![n].id = Len(h.syms)]]

(* syck_hdlr_add_node: a node is handled once.                             *)
AddNode(w, n) ==
  IF w.content[n].id # 0 THEN w
  ELSE LET h == Handle(w.heap, n, w.content[n], anchorOf[n]) IN
       [heap |-> h, content |-> [w.content EXCEPT ![n].id = Len(h.syms)]]

SetItems(w, n, items) ==
  [heap |-> w.heap, content |-> [w.content EXCEPT ![n].items = items]]
AddItem(w, n, id) == SetItems(w, n, Append(w.content[n].items, id))

ReplaceLast(seq, x) == [seq EXCEPT ![Len(seq)] = x]

(* Mutant of ApplySeq: the sequence becomes a value of its own.            *)
ApplySeq_Appends(w, m) ==
  LET s == shortcut[m]
      added == AddNode(w, s) IN
  IF s = NONE THEN w ELSE AddItem(added, m, added.content[s].id)

(* apply_seq_in_map: the waiting sequence becomes the last value.          *)
ApplySeq(w, m) ==
  LET s == shortcut[m]
      added == AddNode(w, s)
  IN IF s = NONE THEN w
     ELSE SetItems(added, m, ReplaceLast(added.content[m].items, added.content[s].id))
SaysSeq(m) ==
  LET said == body[content[m].uid] IN
  IF shortcut[m] = NONE THEN said
                        ELSE ReplaceLast(said, Node(content[shortcut[m]].uid))

(* The step leaves the contents w, but for the nodes it frees.             *)
Leave(w) ==
  /\ heap' = w.heap
  /\ content' = [n \in Nodes |-> IF n \in live' THEN w.content[n] ELSE Blank]

(* The same, with a new node in the cell the step allocates.               *)
LeaveNew(w, node) ==
  Leave([heap |-> w.heap, content |-> [w.content EXCEPT ![Fresh] = node]])

MeansTop(k, meaning) == means' = Append(SubSeq(means, 1, Depth - k), meaning)
Top(k) == means[Depth - k]

-----------------------------------------------------------------------------
(* Tokens.                                                                 *)

Read == tokens < MaxTokens /\ tokens' = tokens + 1

(* The name is being built twice at once, or was used inside its own node  *)
(* before.                                                                 *)
LoadAnchor(a) ==
  /\ ShiftAnchor(a) /\ Read
  /\ defs' = Append(defs, Nothing(a))
  /\ current' = [current EXCEPT ![a] = Len(defs')]
  /\ MeansTop(0, Def(Len(defs')))
  /\ quirks' = quirks \cup (IF anchors[a] = DEFINING THEN {"nested"} ELSE {})
                      \cup (IF badAnchors[a] # NONE THEN {"redefined"} ELSE {})
  /\ UNCHANGED <<content, heap, roots, body, returned>>

LoadAlias(a) ==
  /\ ShiftAlias(a) /\ Read
  /\ content' = [n \in Nodes |-> IF n \in live' \ live THEN NewNode("bad", 0, <<>>)
                                                        ELSE content[n]]
  /\ MeansTop(0, IF current[a] = 0 THEN Nothing(a) ELSE Def(current[a]))
  /\ quirks' = quirks \cup (IF current[a] = 0 THEN {"undefined"} ELSE {})
  /\ UNCHANGED <<heap, roots, defs, current, body, returned>>

LoadScalar ==
  /\ ShiftScalar /\ Read
  /\ LeaveNew(Now, NewNode("str", NextUid, <<>>))
  /\ body' = Append(body, <<>>)
  /\ MeansTop(0, Node(NextUid))
  /\ UNCHANGED <<roots, defs, current, returned, quirks>>

LoadMark ==
  /\ \/ Read /\ \E sym \in Openings : ShiftOpen(sym)
     \/ (ShiftSep \/ ShiftDash) /\ UNCHANGED tokens
  /\ MeansTop(0, Nothing(NONE))
  /\ UNCHANGED <<content, heap, roots, defs, current, body, returned, quirks>>

(* The reductions after which the top symbol is another, and nothing else  *)
(* is changed here.                                                        *)
LoadRename ==
  /\ ShiftColon \/ ReduceFirstPair
  /\ UNCHANGED loadVars

LoadClose ==
  /\ CloseFlow \/ ReduceTopMap
  /\ MeansTop(2, Top(0))
  /\ UNCHANGED <<content, heap, roots, defs, current, body, returned, tokens, quirks>>

-----------------------------------------------------------------------------
(* Reductions.                                                             *)

(* syck_hdlr_add_anchor: a collection whose name was used before it was    *)
(* complete takes the symbol of the node that stood in, and is handled at  *)
(* once; the symbol of that value is dropped.                              *)
LoadReduceAnchor ==
  /\ ReduceAnchor
  /\ LET a == Val(1)
         n == Val(0)
         d == Top(1)[2]
         circular == badAnchors[a] # NONE /\ content[n].kind # "str"
         node == [content[n] EXCEPT !.id = content[badAnchors[a]].id]
     IN /\ defs' = [defs EXCEPT ![d] = Top(0)]
        /\ \/ /\ anchorOf[n] = NONE /\ circular
              /\ Leave([heap |-> Handle(heap, n, node, a),
                        content |-> [content EXCEPT ![n] = node]])
              /\ quirks' = quirks \cup (IF shortcut[n] # NONE THEN {"shortcut"} ELSE {})
           \/ /\ anchorOf[n] # NONE \/ ~circular
              /\ quirks' = quirks \cup
                   CASE anchorOf[n] = NONE -> {}
                     [] Top(0)[1] = "node" -> {"doubled"}
                     [] OTHER -> {"aliased"}
              /\ UNCHANGED <<content, heap>>
  /\ MeansTop(2, Top(0))
  /\ UNCHANGED <<roots, current, body, returned, tokens>>

LoadFirstItem ==
  /\ ReduceFirstItem
  /\ LET w == AddNode(Now, Val(0)) IN
     LeaveNew(w, NewNode("seq", NextUid, <<w.content[Val(0)].id>>))
  /\ body' = Append(body, <<Top(0)>>)
  /\ MeansTop(1, Node(NextUid))
  /\ UNCHANGED <<roots, defs, current, returned, tokens, quirks>>

LoadItem ==
  /\ ReduceItem
  /\ LET w == AddNode(Now, Val(0)) IN Leave(AddItem(w, Val(1), w.content[Val(0)].id))
  /\ body' = [body EXCEPT ![content[Val(1)].uid] = Append(@, Top(0))]
  /\ MeansTop(2, Top(1))
  /\ UNCHANGED <<roots, defs, current, returned, tokens, quirks>>

(* The value is handled first: the order of the two arguments is the       *)
(* compiler's, and only numbers the symbols.                               *)
LoadMapping ==
  /\ ReduceMapping
  /\ LET w == AddNode(AddNode(Now, Val(0)), Val(1)) IN
     LeaveNew(w, NewNode("map", NextUid, <<w.content[Val(0)].id>>))
  /\ body' = Append(body, <<Top(0)>>)
  /\ MeansTop(2, Node(NextUid))
  /\ UNCHANGED <<roots, defs, current, returned, tokens, quirks>>

LoadLoneKey ==
  /\ ReduceLoneKey
  /\ LET null == [heap |-> AddSym(heap, Str(NextUid + 1)), content |-> content] IN
     LeaveNew(AddNode(null, Val(0)), NewNode("map", NextUid, <<Len(null.heap.syms)>>))
  /\ body' = body \o <<<<Node(NextUid + 1)>>, <<>>>>
  /\ MeansTop(1, Node(NextUid))
  /\ UNCHANGED <<roots, defs, current, returned, tokens, quirks>>

LoadPair ==
  /\ ReducePair
  /\ LET w == ApplySeq(Now, Val(1)) IN
     Leave(SetItems(w, Val(1), w.content[Val(1)].items \o content[Val(0)].items))
  /\ body' = [body EXCEPT ![content[Val(1)].uid] = SaysSeq(Val(1)) \o body[content[Val(0)].uid]]
  /\ MeansTop(2, Top(1))
  /\ UNCHANGED <<roots, defs, current, returned, tokens, quirks>>

(* The first item replaces a value that is not empty: no YAML, but the     *)
(* grammar takes it.                                                       *)
LastIsScalar(m) ==
  LET items == content[m].items IN heap.syms[items[Len(items)]][1] = "str"
LoadDash ==
  /\ ReduceDash
  /\ LET w == AddNode(Now, Val(0))
         id == w.content[Val(0)].id
         s == shortcut[Val(2)]
     IN \/ /\ s = NONE
           /\ LeaveNew(w, NewNode("seq", NextUid, <<id>>))
           /\ body' = Append(body, <<Top(0)>>)
        \/ /\ s # NONE
           /\ Leave(AddItem(w, s, id))
           /\ body' = [body EXCEPT ![content[s].uid] = Append(@, Top(0))]
  /\ MeansTop(3, Top(2))
  /\ quirks' = quirks \cup (IF shortcut[Val(2)] = NONE /\ ~LastIsScalar(Val(2))
                             THEN {"overwritten"} ELSE {})
  /\ UNCHANGED <<roots, defs, current, returned, tokens>>

LoadEmptyFlow ==
  /\ CloseEmptyFlow
  /\ LeaveNew(Now, NewNode("seq", NextUid, <<>>))
  /\ body' = Append(body, <<>>)
  /\ MeansTop(1, Node(NextUid))
  /\ UNCHANGED <<roots, defs, current, returned, tokens, quirks>>

LoadCloseBlock ==
  /\ CloseBlock
  /\ Leave(ApplySeq(Now, Val(0)))
  /\ body' = [body EXCEPT ![content[Val(0)].uid] = SaysSeq(Val(0))]
  /\ MeansTop(2, Top(0))
  /\ UNCHANGED <<roots, defs, current, returned, tokens, quirks>>

(* LoadYAML looks up the root's symbol when syck_parse returns it.         *)
LoadRoot ==
  /\ ReduceRoot /\ UNCHANGED tokens
  /\ \/ /\ Depth = 1
        /\ LET w == AddNode(Now, Val(0)) IN
           /\ Leave(w)
           /\ roots' = Append(roots, [sym |-> w.content[Val(0)].id, aim |-> Top(0)])
     \/ Depth = 0 /\ UNCHANGED <<content, heap, roots>>
  /\ means' = <<>>
  /\ UNCHANGED <<defs, current, body, returned, quirks>>

-----------------------------------------------------------------------------
(* Between documents.                                                      *)

Forget ==
  /\ content' = [n \in Nodes |-> Blank]
  /\ UNCHANGED <<roots, defs, body, tokens, quirks>>

(* Mutant of LoadNextDocument: the symbols begin anew.                     *)
LoadNextDocument_NewSyms ==
  /\ NextDocument /\ Forget
  /\ current' = [a \in Names |-> 0]
  /\ returned' = Len(heap.boxes)
  /\ heap' = [heap EXCEPT !.syms = <<>>]
  /\ UNCHANGED means

(* The tables of the parser are dropped; its symbols and the list of cells *)
(* to patch live as long as the parser.                                    *)
LoadNextDocument ==
  /\ NextDocument /\ Forget
  /\ current' = [a \in Names |-> 0]
  /\ returned' = Len(heap.boxes)
  /\ UNCHANGED <<heap, means>>

LoadFree == FreeParser /\ Forget /\ UNCHANGED <<heap, current, means, returned>>
LoadCroak == Croak /\ Forget /\ means' = <<>> /\ UNCHANGED <<heap, current, returned>>

-----------------------------------------------------------------------------
LoadInit ==
  /\ Init
  /\ content = [n \in Nodes |-> Blank]
  /\ heap = [syms |-> <<>>, boxes |-> <<>>, pending |-> [a \in Names |-> {}]]
  /\ roots = <<>> /\ defs = <<>>
  /\ current = [a \in Names |-> 0]
  /\ means = <<>> /\ body = <<>> /\ returned = 0 /\ tokens = 0 /\ quirks = {}

LoadNext ==
  \/ \E a \in Names : LoadAnchor(a) \/ LoadAlias(a)
  \/ LoadScalar
  \/ LoadMark
  \/ LoadRename
  \/ LoadClose
  \/ LoadReduceAnchor
  \/ LoadFirstItem
  \/ LoadItem
  \/ LoadMapping
  \/ LoadLoneKey
  \/ LoadPair
  \/ LoadDash
  \/ LoadEmptyFlow
  \/ LoadCloseBlock
  \/ LoadRoot
  \/ LoadNextDocument
  \/ LoadFree
  \/ LoadCroak

LoadSpec == LoadInit /\ [][LoadNext]_<<vars, loadVars>>

-----------------------------------------------------------------------------
(* Properties.                                                             *)

Value == {Str(u) : u \in 1..Len(body)} \cup {Ref(b) : b \in 1..Len(heap.boxes)}
           \cup {Bad(a) : a \in Names}
Meaning == {Node(u) : u \in 1..Len(body)} \cup {Def(d) : d \in 1..Len(defs)}
             \cup {Nothing(a) : a \in Names \cup {NONE}}

LoadTypeOK ==
  /\ \A n \in Nodes :
       /\ content[n].kind \in {"none", "str", "seq", "map", "bad"}
       /\ content[n].id \in 0..Len(heap.syms)
       /\ content[n].uid \in 0..Len(body)
       /\ content[n].items \in Seq(1..Len(heap.syms))
  /\ heap.syms \in Seq(Value)
  /\ heap.boxes \in Seq([of : 1..Len(body), vals : Seq(Value)])
  /\ heap.pending \in [Names -> SUBSET (Nat \X Nat)]
  /\ roots \in Seq([sym : 1..Len(heap.syms), aim : Meaning])
  /\ defs \in Seq(Meaning) /\ means \in Seq(Meaning) /\ body \in Seq(Seq(Meaning))
  /\ current \in [Names -> 0..Len(defs)]
  /\ tokens \in 0..MaxTokens
  /\ returned \in 0..Len(heap.boxes)
  /\ quirks \subseteq {"nested", "redefined", "undefined", "doubled", "aliased",
                     "shortcut", "overwritten"}

(* A value is what an item, alias or root stands for.                      *)
IsNode(v, u) == v = Str(u) \/ v \in {Ref(b) : b \in {c \in DOMAIN heap.boxes : heap.boxes[c].of = u}}
StandsFor(v, m) ==
  \/ \E u \in DOMAIN body : m = Node(u) /\ IsNode(v, u)
  \/ \E d \in DOMAIN defs : m = Def(d) /\ \E u \in DOMAIN body : defs[d] = Node(u) /\ IsNode(v, u)
  \/ \E a \in Names : m = Nothing(a) /\ v = Bad(a)

Faithful ==
  /\ \A i \in DOMAIN roots : StandsFor(heap.syms[roots[i].sym], roots[i].aim)
  /\ \A b \in DOMAIN heap.boxes :
       LET box == heap.boxes[b] IN
       /\ Len(box.vals) = Len(body[box.of])
       /\ \A i \in DOMAIN box.vals : StandsFor(box.vals[i], body[box.of][i])

(* When Load returns a document, every array and hash holds exactly the    *)
(* values of its node's items, and every alias is the node that its name   *)
(* last stood for: an alias inside the node it names, which the handler    *)
(* could only note and patch later, included.                              *)
LoadsWhatIsMeant == phase = "done" /\ quirks = {} => Faithful

(* A node is loaded once, however many aliases name it: aliased data is    *)
(* shared, not copied.                                                     *)
SharedNotCopied ==
  quirks = {} =>
    \A b, c \in DOMAIN heap.boxes : heap.boxes[b].of = heap.boxes[c].of => b = c

(* The list of cells to patch has every cell that still holds a stand-in   *)
(* for the name, and no other: resolve_bad_alias overwrites whatever the   *)
(* cells on its list refer to.                                             *)
Cells(h, v) == UNION {{<<b, i>> : i \in {j \in DOMAIN h.boxes[b].vals : h.boxes[b].vals[j] = v}}
                        : b \in DOMAIN h.boxes}
PendingExact == \A a \in Names : heap.pending[a] = Cells(heap, Bad(a))

(* A document already returned does not change while later ones load.      *)
DocumentsIndependent ==
  [][quirks' = {} => \A b \in 1..returned : heap'.boxes[b] = heap.boxes[b]]_<<vars, loadVars>>

(* What the documentation promises of the cases set aside above.           *)
RedefinedAnchors == phase = "done" /\ quirks \subseteq {"redefined"} => Faithful
CircularMappings == phase = "done" /\ quirks \subseteq {"shortcut"} => Faithful

=============================================================================
