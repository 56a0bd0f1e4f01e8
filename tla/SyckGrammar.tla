---------------------------- MODULE SyckGrammar ----------------------------
(***************************************************************************)
(* The grammar (gram.y): its productions as data, what their actions do    *)
(* to nodes (node.c), and what the binding makes of the finished node.     *)
(*                                                                         *)
(* The parser built from the productions by the generator has no           *)
(* conflicts, so a text has at most one derivation.  Here all derivations  *)
(* of the tokens read so far are followed together (a chart): a token no   *)
(* derivation can take is a parse error, exactly when the generated        *)
(* tables have no move.                                                    *)
(***************************************************************************)
EXTENDS SyckScalar, Integers, FiniteSets, SequencesExt

CONSTANT AllocCt     \* ALLOC_CT: how far a node's arrays grow at a time
ASSUME AllocCtAssumption == AllocCt \in Nat \ {0}

(***************************************************************************)
(* Productions.  An action's name says what it does with which symbols.    *)
(***************************************************************************)
P(lhs, rhs, action) == [lhs |-> lhs, rhs |-> rhs, action |-> action]

\* doc, atom, ind_rep
NodeRules ==
    {P("doc", <<"atom">>, "first"), P("doc", <<"DOCSEP", "atom_or_empty">>, "second"),
     P("atom", <<"word_rep">>, "first"), P("atom", <<"ind_rep">>, "first"),
     P("ind_rep", <<"struct_rep">>, "first"),
     P("ind_rep", <<"TRANSFER", "ind_rep">>, "tag second"),
     P("ind_rep", <<"TAGURI", "ind_rep">>, "uri second"),
     P("ind_rep", <<"ANCHOR", "ind_rep">>, "anchor second"),
     P("ind_rep", <<"ITRANSFER", "ind_rep">>, "implicit second"),
     P("ind_rep", <<"indent_open", "ind_rep", "indent_flex_end">>, "second"),
     P("struct_rep", <<"BLOCK">>, "first"),
     P("struct_rep", <<"implicit_seq">>, "first"), P("struct_rep", <<"inline_seq">>, "first"),
     P("struct_rep", <<"implicit_map">>, "first"), P("struct_rep", <<"inline_map">>, "first")}

\* word_rep, atom_or_empty, empty, and the indentation tokens
WordRules ==
    {P("word_rep", <<"TRANSFER", "word_rep">>, "tag second"),
     P("word_rep", <<"TAGURI", "word_rep">>, "uri second"), P("word_rep", <<"WORD">>, "word"),
     P("word_rep", <<"ITRANSFER", "word_rep">>, "implicit second"),
     P("word_rep", <<"ANCHOR", "word_rep">>, "anchor second"),
     P("word_rep", <<"ALIAS">>, "alias"), P("word_rep", <<"PLAIN">>, "plain"),
     P("word_rep", <<"indent_open", "word_rep", "indent_flex_end">>, "second"),
     P("atom_or_empty", <<"atom">>, "first"), P("atom_or_empty", <<"empty">>, "first"),
     P("empty", <<"indent_open", "empty", "indent_end">>, "second"),
     P("empty", <<"ITRANSFER", "empty">>, "implicit second"),
     P("empty", <<"TRANSFER", "empty">>, "tag second"), P("empty", <<"TAGURI", "empty">>, "uri second"),
     P("empty", <<"ANCHOR", "empty">>, "anchor second"),
     P("indent_open", <<"IOPEN">>, "none"), P("indent_open", <<"indent_open", "INDENT">>, "none"),
     P("indent_end", <<"IEND">>, "none"), P("indent_sep", <<"INDENT">>, "none"),
     P("indent_flex_end", <<"IEND">>, "none"),
     P("indent_flex_end", <<"indent_sep", "indent_flex_end">>, "none")}

SeqRules ==
    {P("implicit_seq", <<"indent_open", "top_imp_seq", "indent_end">>, "second"),
     P("implicit_seq", <<"indent_open", "in_implicit_seq", "indent_end">>, "second"),
     P("basic_seq", <<"-", "atom_or_empty">>, "second"),
     P("top_imp_seq", <<"TRANSFER", "indent_sep", "in_implicit_seq">>, "tag third"),
     P("top_imp_seq", <<"TRANSFER", "top_imp_seq">>, "tag second"),
     P("top_imp_seq", <<"TAGURI", "indent_sep", "in_implicit_seq">>, "uri third"),
     P("top_imp_seq", <<"TAGURI", "top_imp_seq">>, "uri second"),
     P("top_imp_seq", <<"ANCHOR", "indent_sep", "in_implicit_seq">>, "anchor third"),
     P("top_imp_seq", <<"ANCHOR", "top_imp_seq">>, "anchor second"),
     P("in_implicit_seq", <<"basic_seq">>, "new seq"),
     P("in_implicit_seq", <<"in_implicit_seq", "indent_sep", "basic_seq">>, "seq add"),
     P("in_implicit_seq", <<"in_implicit_seq", "indent_sep">>, "first"),
     P("inline_seq", <<"[", "in_inline_seq", "]">>, "second"),
     P("inline_seq", <<"[", "]">>, "empty seq"),
     P("in_inline_seq", <<"inline_seq_atom">>, "new seq"),
     P("in_inline_seq", <<"in_inline_seq", ",", "inline_seq_atom">>, "seq add"),
     P("in_inline_seq", <<"in_inline_seq", ",">>, "first"),
     P("inline_seq_atom", <<"atom">>, "first"), P("inline_seq_atom", <<"basic_mapping">>, "first")}

MapRules ==
    {P("implicit_map", <<"indent_open", "top_imp_map", "indent_end">>, "apply second"),
     P("implicit_map", <<"indent_open", "in_implicit_map", "indent_end">>, "apply second"),
     P("top_imp_map", <<"TRANSFER", "indent_sep", "in_implicit_map">>, "tag third"),
     P("top_imp_map", <<"TRANSFER", "top_imp_map">>, "tag second"),
     P("top_imp_map", <<"TAGURI", "indent_sep", "in_implicit_map">>, "uri third"),
     P("top_imp_map", <<"TAGURI", "top_imp_map">>, "uri second"),
     P("top_imp_map", <<"ANCHOR", "indent_sep", "in_implicit_map">>, "anchor third"),
     P("top_imp_map", <<"ANCHOR", "top_imp_map">>, "anchor second"),
     P("complex_key", <<"word_rep">>, "first"),
     P("complex_key", <<"?", "atom", "indent_sep">>, "second"),
     P("complex_value", <<"atom_or_empty">>, "first"),
     P("complex_mapping", <<"complex_key", ":", "complex_value">>, "new map"),
     P("in_implicit_map", <<"complex_mapping">>, "first"),
     P("in_implicit_map", <<"in_implicit_map", "indent_sep", "basic_seq">>, "shortcut add"),
     P("in_implicit_map", <<"in_implicit_map", "indent_sep", "complex_mapping">>, "apply merge"),
     P("in_implicit_map", <<"in_implicit_map", "indent_sep">>, "first"),
     P("basic_mapping", <<"atom", ":", "atom_or_empty">>, "new map"),
     P("inline_map", <<"{", "in_inline_map", "}">>, "second"),
     P("inline_map", <<"{", "}">>, "empty map"),
     P("in_inline_map", <<"inline_map_atom">>, "first"),
     P("in_inline_map", <<"in_inline_map", ",", "inline_map_atom">>, "merge"),
     P("in_inline_map", <<"in_inline_map", ",">>, "first"),
     P("inline_map_atom", <<"atom">>, "key alone"), P("inline_map_atom", <<"basic_mapping">>, "first")}

Productions == NodeRules \cup WordRules \cup SeqRules \cup MapRules
Nonterminals == {p.lhs : p \in Productions}
Symbols == Nonterminals \cup UNION {Range(p.rhs) : p \in Productions}
\* The nonterminals with a derivation of nothing (`empty : /* empty */').
Nullable == {"empty", "atom_or_empty", "complex_value"}

\* Which productions start with a symbol, and which nonterminals with what
\* can stand where a symbol is expected.
StartingWith == [x \in Symbols |-> {p \in Productions : p.rhs[1] = x}]
RECURSIVE Reach(_)
Reach(xs) ==
    LET more == xs \cup {p.rhs[1] : p \in {q \in Productions : q.lhs \in xs}}
    IN  IF more = xs THEN xs ELSE Reach(more)
Corner == [x \in Symbols |-> Reach({x}) \cap Nonterminals]

(***************************************************************************)
(* Nodes.  A map's items alternate keys and values; capa counts items or   *)
(* pairs; tag is type_id, "" for none.                                     *)
(***************************************************************************)
Bare == [kind |-> "str", text |-> "", style |-> "plain", tag |-> "", anchor |-> "",
         items |-> <<>>, capa |-> 0, shortcut |-> <<>>]
\* A type's name, expanded if the parser is asked to (taguri_expansion); a mode
\* is the settings of SyckEmitter, with what libsyck alone has.
TypeId(name, mode) == IF mode.uris THEN TagUri(Domain, name) ELSE name
NullNode(mode) == [Bare EXCEPT !.tag = TypeId("null", mode)]
Alloc(kind) == [Bare EXCEPT !.kind = kind, !.capa = AllocCt]
Count(node) == IF node.kind = "map" THEN Len(node.items) \div 2 ELSE Len(node.items)

RECURSIVE Grown(_, _)
Grown(capa, count) == IF count <= capa THEN capa ELSE Grown(capa + AllocCt, count)

SeqAdd(node, item) ==
    [node EXCEPT !.items = Append(@, item),
                 !.capa = IF Count(node) + 1 > @ THEN @ + AllocCt ELSE @]
NewMap(key, value) == [Alloc("map") EXCEPT !.items = <<key, value>>]
(* Mutant of MapUpdate: the arrays grow for the first map's pairs only.    *)
MapUpdate_OldCount(node, other) ==
    [node EXCEPT !.items = @ \o other.items, !.capa = Grown(@, Count(node))]
MapUpdate(node, other) ==
    [node EXCEPT !.items = @ \o other.items,
                 !.capa = Grown(@, Count(node) + Count(other))]

\* apply_seq_in_map: entries found where the last key's value should be.
ApplySeq(node) ==
    IF node.shortcut = <<>> THEN node
    ELSE [node EXCEPT !.items[Len(node.items)] = [Alloc("seq") EXCEPT !.items = node.shortcut],
                      !.shortcut = <<>>]

\* try_tag_implicit
Implicit(node, mode) ==
    IF ~mode.implicit THEN node
    ELSE [node EXCEPT !.tag = TypeId(IF node.kind = "str" THEN MatchImplicit(node.text) ELSE node.kind, mode)]

\* The node a token carries: RETURN_IMPLICIT for a plain scalar.
Carried(token, mode) ==
    LET node == [Bare EXCEPT !.text = token.text, !.style = token.style]
    IN  IF token.type \notin {"PLAIN", "BLOCK"} THEN [Bare EXCEPT !.text = token.name]
        ELSE IF token.style \in {"plain", "none"} THEN Implicit(node, mode)
        ELSE [node EXCEPT !.tag = TypeId("str", mode)]

\* syck_add_transfer
Transferred(node, name, mode) == [node EXCEPT !.tag = IF mode.uris THEN TypeUri(name) ELSE name]

\* What a production's action makes of its symbols' values: a node with a
\* property, a sequence, a map, or a value passed on.
Described(action, v, mode) ==
    CASE action = "tag second"    -> Transferred(v[2], v[1].text, mode)
      [] action = "tag third"     -> Transferred(v[3], v[1].text, mode)
      [] action = "uri second"    -> [v[2] EXCEPT !.tag = v[1].text]
      [] action = "uri third"     -> [v[3] EXCEPT !.tag = v[1].text]
      [] action = "anchor second" -> [v[2] EXCEPT !.anchor = v[1].text]
      [] action = "anchor third"  -> [v[3] EXCEPT !.anchor = v[1].text]
      [] action = "implicit second" -> Implicit(v[2], mode)
      [] action = "word"          -> [v[1] EXCEPT !.tag = TypeId("str", mode)]
      [] action = "alias"         -> [Bare EXCEPT !.kind = "alias", !.anchor = v[1].text]
Sequenced(action, v) ==
    CASE action = "new seq"   -> SeqAdd(Alloc("seq"), v[1])
      [] action = "seq add"   -> SeqAdd(v[1], v[3])
      [] action = "empty seq" -> Alloc("seq")
Mapped(action, v, mode) ==
    CASE action = "empty map"    -> Alloc("map")
      [] action = "new map"      -> NewMap(v[1], v[3])
      [] action = "key alone"    -> NewMap(v[1], NullNode(mode))
      [] action = "merge"        -> MapUpdate(v[1], v[3])
      [] action = "apply merge"  -> MapUpdate(ApplySeq(v[1]), v[3])
      [] action = "apply second" -> ApplySeq(v[2])
      [] action = "shortcut add" -> [v[1] EXCEPT !.shortcut = Append(@, v[3])]
Reduced(action, v, mode) ==
    CASE action \in {"first", "plain", "none"} -> v[1]
      [] action = "second" -> v[2]
      [] action \in {"new seq", "seq add", "empty seq"} -> Sequenced(action, v)
      [] action \in {"empty map", "new map", "key alone", "merge", "apply merge", "apply second", "shortcut add"} ->
           Mapped(action, v, mode)
      [] OTHER -> Described(action, v, mode)

(***************************************************************************)
(* The chart.  An item is a production begun at an earlier place, with the *)
(* values of the symbols found so far; an entry holds the unfinished items *)
(* of a place, what they may start there, and the finished documents.      *)
(***************************************************************************)
Expects(item) == item.rule.rhs[Len(item.values) + 1]
Finished(item) == Len(item.values) = Len(item.rule.rhs)
Begun(rule, from) == [rule |-> rule, from |-> from, values |-> <<>>]

RECURSIVE Found(_, _, _)
\* The item with a value for its next symbol, and also with nothing for the
\* symbols after it that may be nothing.
Found(item, value, mode) ==
    LET next == [item EXCEPT !.values = Append(@, value)]
    IN  {next} \cup IF ~Finished(next) /\ Expects(next) \in Nullable
                    THEN Found(next, NullNode(mode), mode) ELSE {}

\* All items that get a value for the symbol, found from the place on.
Taking(chart, from, symbol, value, mode) ==
    UNION {Found(item, value, mode) : item \in {i \in chart[from].items : Expects(i) = symbol}}
    \cup UNION {Found(Begun(rule, from), value, mode) :
                  rule \in {r \in StartingWith[symbol] : r.lhs \in chart[from].heads}}

RECURSIVE Closure(_, _, _)
Closure(chart, todo, mode) ==
    IF todo = {} THEN {}
    ELSE todo \cup
         Closure(chart,
                 UNION {Taking(chart, i.from, i.rule.lhs, Reduced(i.rule.action, i.values, mode), mode) :
                          i \in {j \in todo : Finished(j)}},
                 mode)

EntryOf(items, docs) ==
    [items |-> items, docs |-> docs, heads |-> UNION {Corner[Expects(i)] : i \in items}]
\* `doc : /* empty */' loads as undef.
NewChart ==
    <<EntryOf({Begun(p, 1) : p \in {q \in Productions : q.lhs = "doc"}}, {[Bare EXCEPT !.tag = "null"]})>>

Advance(chart, token, mode) ==
    LET all == Closure(chart, Taking(chart, Len(chart), token.type, Carried(token, mode), mode), mode)
    IN  Append(chart,
               EntryOf({i \in all : ~Finished(i)},
                       {Reduced(i.rule.action, i.values, mode) :
                          i \in {j \in all : Finished(j) /\ j.rule.lhs = "doc"}}))
Rejected(chart) == Last(chart).items = {} /\ Last(chart).docs = {}

(***************************************************************************)
(* What the binding loads a node as (yaml_syck_parser_handler), in the     *)
(* shape of the values SyckEmitter writes.                                 *)
(***************************************************************************)
RECURSIVE NodesOf(_)
NodesOf(node) == {node} \cup UNION {NodesOf(item) : item \in Range(node.items)}

\* syck_str_blow_away_commas; the character behind a comma is not looked at.
RECURSIVE WithoutCommas(_, _)
WithoutCommas(s, i) ==
    IF i > Len(s) THEN s
    ELSE IF At(s, i) = "," THEN WithoutCommas(SubSeq(s, 1, i - 1) \o From(s, i + 1), i + 1)
    ELSE WithoutCommas(s, i + 1)

\* Numbers, up to the first character that is no digit (strtol, grok_hex,
\* grok_oct and Atof), and what Perl prints of them.
Leading(s, chars) ==
    SubSeq(s, 1, CHOOSE n \in 0..Len(s) :
                   At(s, n + 1) \notin chars /\ \A i \in 1..n : At(s, i) \in chars)
DigitValue(c) ==
    (CHOOSE i \in 1..16 : c \in {At("0123456789abcdef", i), At("0123456789ABCDEF", i)}) - 1
Number(s, base) ==
    LET digits == Leading(s, {At("0123456789abcdef", i) : i \in 1..Least(base, 16)}
                               \cup {At("0123456789ABCDEF", i) : i \in 1..Least(base, 16)})
        Shift(n, c) == base * n + DigitValue(c)
    IN  FoldLeft(Shift, 0, [i \in 1..Len(digits) |-> At(digits, i)])
RECURSIVE Sexagesimal(_)
Sexagesimal(s) ==
    LET colons == {i \in 1..Len(s) : At(s, i) = ":"}
        last   == CHOOSE i \in colons : \A j \in colons : j <= i
    IN  IF colons = {} THEN Number(s, 10)
        ELSE 60 * Sexagesimal(SubSeq(s, 1, last - 1)) + Number(From(s, last + 1), 10)
Printed(s, n, fraction) ==
    LET decimals == TrimEnd(fraction, {"0"})
    IN  (IF At(s, 1) = "-" /\ (n # 0 \/ decimals # "") THEN "-" ELSE "")
          \o ToString(n) \o (IF decimals = "" THEN "" ELSE "." \o decimals)

\* The digits of a fraction follow the whole of the last group. How Perl
\* prints an exponent, an infinity or a nan is its own affair: these load as
\* the name of their type.
LoadedScalar(node, json) ==
    LET literal  == IF json THEN "null" ELSE "~"
        Text(s)  == [kind |-> "str", text |-> s]
        undef    == [kind |-> "undef", text |-> ""]
        text     == WithoutCommas(node.text, 2)
        digits   == Unsigned(text)
        group    == From(digits, 1 + Cardinality({i \in 1..Len(digits) : \E j \in i..Len(digits) : At(digits, j) = ":"}))
        rest     == From(group, 1 + Len(Leading(group, Digits)))
        fraction == IF StartsAt(rest, 1, ".") THEN Leading(From(rest, 2), Digits) ELSE ""
    IN  CASE node.tag \in {"", "str"} ->
               IF node.text = literal /\ node.style = "plain" THEN undef ELSE Text(node.text)
          [] node.tag = "null"     -> undef
          [] node.tag = "bool#yes" -> Text("1")
          [] node.tag = "bool#no"  -> Text("")
          [] node.tag \in {"int", "float#fix"} -> Text(Printed(text, Number(digits, 10), fraction))
          [] node.tag \in {"int#base60", "float#base60"} -> Text(Printed(text, Sexagesimal(digits), fraction))
          [] node.tag = "int#hex"  -> Text(Printed(text, Number(From(digits, 3), 16), ""))
          [] node.tag = "int#oct"  -> Text(Printed(text, Number(digits, 8), ""))
          [] node.tag \in {"float#exp", "float#inf", "float#neginf", "float#nan"} -> Text(node.tag)
          [] OTHER -> Text(node.text)

\* The pairs of a hash: a key stored again gets the new value, a key merged
\* only if it is not there.
KeyAt(pairs, key) == {i \in 1..Len(pairs) : i % 2 = 1 /\ pairs[i].text = key.text}
Stored(pairs, pair) ==
    IF KeyAt(pairs, pair[1]) = {} THEN pairs \o pair
    ELSE [i \in 1..Len(pairs) |-> IF i - 1 \in KeyAt(pairs, pair[1]) THEN pair[2] ELSE pairs[i]]
Filled(pairs, pair) == IF KeyAt(pairs, pair[1]) = {} THEN pairs \o pair ELSE pairs
Pairs(items) == [i \in 1..Len(items) \div 2 |-> <<items[2 * i - 1], items[2 * i]>>]

\* Keys first, then what `<<' names, in order: a hash or the hashes of an array.
Hashed(items, merging) ==
    LET IsMerge(pair) == merging /\ pair[1].text = "<<"
        NotMerge(pair) == ~IsMerge(pair)
        own     == FoldLeft(Stored, <<>>, SelectSeq(Pairs(items), NotMerge))
        merged  == SelectSeq(Pairs(items), IsMerge)
        Sources(value) == IF value.kind = "seq" THEN value.items ELSE <<value>>
        IsHash(value) == value.kind = "map"
        sources == SelectSeq(FlattenSeq([i \in 1..Len(merged) |-> Sources(merged[i][2])]), IsHash)
    IN  FoldLeft(Filled, own, FlattenSeq([i \in 1..Len(sources) |-> Pairs(sources[i].items)]))

\* The part of a tag that names the class; array and hash alone bless nothing.
Class(tag) ==
    LET id == TrimStart(tag, {"!"})
    IN  IF StartsAt(id, 1, "perl/") /\ From(id, 6) \notin {"array", "hash"} THEN From(id, 6) ELSE ""

\* What libsyck alone makes of a text: the binding switches bytecode and
\* the expansion of tags off.
Raw(mode) == mode.bytecode \/ mode.uris

RECURSIVE Loaded(_, _, _)
Loaded(node, root, mode) ==
    LET named == {n \in NodesOf(root) : n.kind # "alias" /\ n.anchor = node.anchor}
        Value(kind, text, tag, items) ==
            [kind |-> kind, text |-> text, tag |-> tag, anchor |-> node.anchor, items |-> items]
        all == [i \in 1..Len(node.items) |-> Loaded(node.items[i], root, mode)]
        class == Class(node.tag)
        tag == IF class = "" THEN "" ELSE "tag:!perl:" \o class
        scalar == LoadedScalar(node, mode.json)
    IN  IF node.kind = "alias" THEN
            IF named = {} THEN Value("bad alias", "", "", <<>>)
            ELSE Loaded(CHOOSE n \in named : TRUE, root, mode)
        ELSE IF Raw(mode) THEN Value(node.kind, node.text, node.tag, all)
        ELSE CASE node.kind = "seq" -> Value("seq", "", tag, all)
               [] node.kind = "map" /\ class = "ref" -> Value("ref", "", "", <<all[2]>>)
               [] node.kind = "map" /\ class # "ref" ->
                    Value("map", "", tag, Hashed(all, mode.implicit /\ ~mode.json))
               [] node.kind = "str" /\ StartsAt(class, 1, "code") -> Value("code", node.text, tag, <<>>)
               [] OTHER -> Value(scalar.kind, scalar.text, "", <<>>)
=============================================================================
