# A TLA+ model of YAML::Syck

YAML::Syck is a Perl binding of libsyck, a YAML 1.0 loader and dumper in C. This
directory holds TLA+ modules that model its parts, the TLC configurations that
check them on small instances, and TLAPS proofs of what matters most.

## The system

One process, one thread. A call of `Load` or `Dump` runs to its end, or leaves in
the middle by `croak` (a `longjmp`). What makes the code hard is not concurrency
but memory ownership, order, and state that outlives the step that made it:

| part | source | state it keeps | operations |
|---|---|---|---|
| node and anchor store | handler.c, node.c, syck_.c | nodes; tables `anchors`, `bad_anchors`, `retired` | add_node, add_anchor, remove_anchor, get_anchor, st_free |
| grammar | gram.y (gram.c is generated) | the LALR value stack | one reduction per rule |
| YAML lexer | token.c (generated) | cursor, level stack | one token per call; opens and closes levels |
| bytecode lexer | bytecode.c (generated) | the same, and a pointer of its own | one token per call, from libsyck's other input |
| parser object | syck_.c | input buffer, levels, symbol table `syms` | new, parse, read, move_tokens, check_limit, add/pop_level, add/lookup_sym, free |
| parser binding | perl_syck.h, perl_common.h | `bonus`: cells to patch per anchor name, objects to free | the handler, one call per node; register/resolve_bad_alias |
| load entry points | perl_syck.h | the parser, freed by a scope destructor | LoadYAML, LoadJSON, the loop over documents |
| mark phase | perl_syck.h, emitter.c | `markers`, `anchors`, `depth` | mark_emitter, mark_node |
| dump driver | perl_syck.h, emitter.c | emitter, tag buffer, `cur_ref`, freed by a scope destructor | DumpImpl, emitter handler, syck_emit |
| emitter layout | emitter.c | output buffer, level stack | write, flush, indent, seq/map/item/end, scalars |
| implicit typing | implicit.c (generated) | none | a classifier of scalar text; the URI of a type's name |
| hash table | syck_st.c | buckets | init, insert, lookup, delete, foreach, free |
| JSON text passes | perl_syck.h | none | preprocess, postprocess |
| Perl front ends | lib/*.pm | option variables | Load, Dump, LoadFile, DumpFile, DumpInto |

How they interact: the lexer calls the node store (an anchor token evicts the
name's node); the grammar calls it in almost every reduction; the node store
calls the binding's handler with a node and gets a symbol back; the handler
looks up the symbols of the node's items. A node without an anchor is freed by the
reduction that handles it; one with an anchor is left to the tables, because an
alias may name it later. Dumping walks the Perl data twice: the mark phase finds
what is reached twice and names it, the emit phase writes `&n` at the first
visit and `*n` afterwards.

The hard behaviours, listed with their lines in `PROJECT.json` under `hazards`:

* a name defined again while the node it named is still on the value stack;
* an alias inside its own node, which stands for a node that is not built yet;
* a key that is handled only after its value; a sequence that waits in a mapping;
* a croak in the middle of a parse or a dump;
* state kept by name across documents while tables are dropped per document;
* traversals that are bounded in the mark phase and not in the emit phase;
* buffers and arrays at their limits: a token or an escape that straddles the end of
  the input buffer, a write that straddles that of the output buffer;
* a style chosen by the emitter from what one scan of a text saw, and read by a
  lexer with rules of its own;
* levels that two modules keep: the lexer's stack, and what the grammar was told.

The modules come in three groups that look at the program from different sides:

* memory and sharing on the way in: `SyckAnchors`, extended by `SyckLoad`;
* memory and sharing on the way out: `SyckDump`; the table all of them use: `SyckSt`;
* the text between them: `SyckText`, `SyckImplicit`, `SyckScalar`, `SyckJson` (operators),
  `SyckEmitter`, `SyckLexer`, `SyckTokens`, `SyckBytecode`, `SyckGrammar` (state), composed
  by `SyckRoundTrip`.

## Modules

### SyckAnchors: the node store under the grammar

State: the value stack (`stack`, bottom first; an entry is a grammar symbol and its
semantic value), the allocated nodes (`live`), the name each carries
(`anchorOf` is `n->anchor`), a mapping's waiting sequence (`shortcut` is
`n->shortcut`), the three tables, and how many copies of each name are allocated
(`strs`). The symbol on top of the stack is the control state; each reduction of
`gram.y` that makes, merges, handles or frees a node is an action, tokens are
chosen among those the grammar can shift, and `Croak` may happen at any point of
a parse. `DEFINING` is the table value `(void *)1`. Nodes are cells of memory and
are used again after they are freed, so that a stale pointer would meet a new
node. Reductions that only pass a value on, tags, and the stand-alone block
sequence (whose reductions are those of a flow sequence) are left out.

| run | instance | shows |
|---|---|---|
| `anchors` | 1 name, 3 nodes, stack 6, 2 documents | nothing reachable is freed and nothing is freed twice; until a croak every node but the stand-in of an undefined alias is held somewhere and every copy of a name has one owner; an anchored node lives until its document's tables are freed, and the teardown leaves no named node but those stand-ins; the invariant of the proofs holds |

Bounds: a stack of six is what a mapping inside its own anchor needs
(`IOPEN ANCHOR SEP BMAP KEY ATOM`); three nodes are a node evicted by a second one
of its name and a collection or an alias that still holds the first, and one name is
enough for every eviction; the second document meets the tables after their reset.
`MCSyckAnchors` adds the symmetry of the nodes, which are cells of memory that
only differ in being used. More names and nodes are left to the proofs, which are for
every number of them. Deadlock is not checked: a
stack at its bound stops, and so does a freed parser.

`Croak` leaves `yyparse` by `longjmp`. What only the value stack holds is then never
freed: `syck_st_free` drops the tables and nothing else. So `NoLostNode` and
`EveryNameOwned` say nothing of the state after a croak, and `ReclaimedAtEnd` says
only that no node with an anchor is left then. Of a parse that ends without an
error it says that nodes and names are freed, but for the stand-ins of aliases
whose name no table has (each node keeps its copy of the name): no table files
those, and they leak.

### SyckLoad: what the handler makes of the nodes

`SyckLoad` EXTENDS `SyckAnchors`: each of its actions is an action of that
module with two more parts. The program's part is what nodes hold (symbols) and
the Perl heap: `syms`, the boxes (arrays and hashes, each a copy of its items'
values) and `pending`, the handler's list of cells that hold a stand-in for a
name. The other part is what the document says: which node every item, alias
and root stands for, by the rule that an alias stands for the latest anchored node
before it. `LoadsWhatIsMeant` compares the two when a document is returned.

The comparison fails on some documents; `quirks` records that one of them was met,
and the properties are stated for the rest. Where a document or a test of the
repository promises otherwise, a run shows the disagreement; the other quirks
are documents for which YAML or the repository promises nothing.

| quirk | document | what happens |
|---|---|---|
| `redefined` | `- &a [*a]`, `- &a [y]` | the second node is given the first one's symbol (run `load_redefined`) |
| `shortcut` | anchor inside the indent of a circular mapping that ends in a sequence | the sequence is lost (run `load_circular`) |
| `doubled` | `- &b &a [x]`, `- *b` | the outer name is dropped, `*b` stays unresolved |
| `undefined` | `*a` before any `&a` | stays a BadAlias, but is patched by a later circular `&a`, even of a later document |
| `nested` | `&a [&a [x], *a]` | after the outer node is complete `*a` is the outer one |
| `aliased` | `&b *a` | the name is dropped |
| `overwritten` | `k: [v]`, `- x` at the same indent | the sequence replaces the value |

| run | instance | shows |
|---|---|---|
| `load_flow` | 2 names, 4 nodes, stack 7, flow collections, 6 tokens | every item and alias is what it stands for, circular aliases too; data is shared; `pending` is exact, and one name's resolution leaves the other's cells alone |
| `load_block` | 1 name, 5 nodes, stack 7, block mappings, 8 tokens, 2 documents | the same with anchors inside the indent and waiting sequences; a document already returned does not change |
| `load_redefined`, `load_circular` | as small as the disagreement needs | the table above |

`MCSyckLoad` adds the symmetry of the names, which are interchangeable: no operator
prefers one. Bounds: `MaxTokens` counts anchors, aliases, scalars and openings. Six
are enough for a circular collection with a second item and an alias after it
(`[&a [*a, x], *a]`), eight for a block mapping with an inner anchor, two pairs
and a sequence, or for two documents of which the second uses the first one's
name. `Openings` chooses the collections a run uses.

Left out, because they do not touch the bookkeeping of names: the text and type of
scalars, blessing, code, scalar references, merge keys and hash keys. What a
document without stand-ins loads as, those included, is `Loaded` in `SyckGrammar`. A
key is handled here, and its symbol counted, but only values are compared, with
keys taken to be distinct.

### SyckDump: the mark phase and the emit phase

The values are a graph chosen in `Init`: a reference has one child, an array or a hash
has its cells, scalars are leaves, regular expressions or code values, and some
values are blessed. Both traversals of the code are recursive functions; `frames`
is that recursion, one step per call and one per return. A frame is a value, the next
child and, in the emit phase, the handler's local pointer to the tag buffer.

| state | in the code |
|---|---|
| `phase` | which traversal `DumpImpl` is in, whether it returned or croaked |
| `depth` | `e->depth` |
| `markers`, `anchors`, `anchored` | the emitter's tables: value to number, numbers that got a name, names written |
| `tag`, `buffer` | what `bonus->tag` spells, and which allocation it is |
| `strings`, `curRef` | the class names handlers have allocated, and `bonus->cur_ref` |
| `out` | the sequence of anchors, aliases, leaves and brackets written |

`MarkAgain`, `MarkEnter` and `MarkLeave` are `yaml_syck_mark_emitter` and
`json_syck_mark_emitter` with `syck_emitter_mark_node`; the `Emit...` actions are
`syck_emit` and the emitter handler, by kind of value. An alias or a scalar is
written in one step, a reference or a collection is entered and left. With `Json`
the markers only detect cycles; with `SortKeys` the keys of a hash come in another
order in the emit phase (`shuffled`).

The text of a scalar matters only for its tag (`LeafTag`): `Implicits` are those that
`syck_emit_scalar` quotes because their text looks implicit (`true`, `~`, `0x1A`), and before
which it writes no tag; `Binaries` those written in base 64 with the tag `!binary` instead of
their class. A scalar may be both: the base 64 of the bytes B6 BB 9E is `true`, so it
has no tag at all. `Cells` bounds what collections hold; it is all scalars and references unless a
run says less.

| run | instance | shows |
|---|---|---|
| `dump_yaml` | 3 references, an array, a hash, three scalars (one quoted as implicit, one binary, only the third a cell), a regular expression, a code value; the scalars, the regular expression and the array blessed; sorted keys | every alias names the value it was written for, nothing shared is written twice, every name is written once and used; no value takes the tag of another, and only a scalar that is a cell or looks implicit loses its class; a class name is freed once; with keys in one order what is emitted nests within `MaxDepth`; only what is nested that deep is refused |
| `dump_json` | 3 references, an array, a hash, fairness | no cycle is written; Dump ends |
| `dump_json_depth` | disagreement | JSON writes a shared value deeper than `MaxDepth`: it was marked where it is near the root |
| `dump_leak` | disagreement | a croak inside an object inside an object frees one class name of two |

Three more things the code does are behaviours of the model without a run of
their own, because nothing in the repository promises otherwise: with `SortKeys`
the emit phase may nest deeper than `MaxDepth`, because the marks were made in
another order (`EmitWithinDepthUnsorted` says where it may not); a handler may clear
the tag through a pointer that `realloc` has moved (`Top.tag = buffer` in
`EmitLeave`; the proof of `Tags` shows that it has nothing to clear by then); and a
reference and the array it refers to, both shared, put two anchors on one node.

Bounds: three references and two collections with up to two cells give every shape
that matters here: a value shared by two parents, a cycle through one and
through two collections, and a reference shared together with what it refers to.
`MaxDepth` is 6 in `dump_yaml`: exactly the chains of six distinct values are
refused there, so that the limit is met from both sides, while the cycles
through five are dumped. `MCSyckDump` adds the symmetry of the references. Deadlock is
not checked: a call that returned or croaked stops.

Fairness: `FairSpec` has weak fairness of `Next`. A call of `Dump` is a sequential
program; it runs until it returns or croaks.

Left out: hash keys (strings, never shared), globs, formats and tied values, the
headers and the layout of the output, `DumpCode` when it is off (a code value is then
a leaf), and headless documents.

### SyckSt: the hash table as a map

Every table of the program (nodes, anchors, markers, symbols, class names) is an
`st_table`. `StMap` states what a caller may assume of one: a map from the text of a
key to a record, keyed by the address given first, and a traversal that visits every
entry once and may keep or delete the one it is at. `SyckSt` is the code:

| state | in the code |
|---|---|
| `numBins`, `bins`, `numEntries` | `num_bins`, the chains of `bins` from the head, `num_entries` |
| `phase`, `moving` | inside `rehash`: the entries still to be moved to the new bins |
| `phase`, `cursor` | inside `st_foreach`: the bin and the place of the next entry |
| `reply` | what the last call returned and stored through its `value` pointer |

`Lookup`, `InsertOver`, `InsertNew`, `Delete` and `Free` are whole calls; an insertion
that finds the bins crowded (`InsertCrowded`) first moves every entry (`MoveEntry`) and
then pushes its own with the bin position of the new size (`FinishInsert`).
`ImplementsMap` is the refinement: the map is the set of entries in the bins, wherever
they are, with those being moved.

| run | instance | shows |
|---|---|---|
| `st_map` | 5 addresses of 4 texts, primes 2 and 3, density 0, 2 records | an entry is in the bin of its hash and once; the count is right through insertions, rehashes and deletions during a traversal; bins are as crowded as the code allows and no more; the table is the map |

Bounds: two addresses spell one text, as two copies of an anchor's name do; two texts
collide in both sizes, one pair only after the rehash and one only before it; a fourth
text asks for a rehash when the list of primes has run out, where `new_size` returns
the last prime again and the rehash keeps the size. Deadlock is not checked,
but the table never stops: it is always idle, rehashing or walking.

Left out: the numeric hash functions (a constant function, any values), `st_copy`,
`st_add_direct`, `st_delete_safe` and `st_cleanup_safe`, which nothing in the program
calls. Callbacks of `st_foreach` do not use the table they are called from.

### The text between Dump and Load: SyckRoundTrip

`SyckRoundTrip` dumps a value, passes the text on, and loads it under the same
settings; the load alone also starts from texts written by hand. The abstract
specification is the value itself: what is loaded is what was dumped, or what the text
means. Of other texts (`MCTexts`) nothing is said but what holds of every text. The job is
chosen in `Init`, and from there on the program is deterministic, so that a run is a walk along
some 1,750 executions, all of whose intermediate states are checked. The parts:

| module | in the code | state and steps |
|---|---|---|
| `SyckText` | | characters of a text; `looks_like_number` |
| `SyckImplicit` | implicit.c | none: which texts a number, a boolean, null, a timestamp are; `TypeUri` is `syck_type_id_to_uri` |
| `SyckScalar` | `syck_scan_scalar`, `syck_emit_scalar`, the quoting functions | none: the style of a text, the pieces it is written in |
| `SyckEmitter` | emitter.c, the emitter handlers | `em`: levels, indent, output buffer and what left it; `agenda`: the calls still to be made, which is the recursion of `syck_emit` and of the handler |
| `SyckLexer` | token.c, the buffer and levels of syck_.c | `lx`: cursor, token start, what the buffer holds, levels, the token made; one action per rule of a section |
| `SyckTokens` | the calls of `sycklex` by `yyparse` | `open`, history: what the tokens opened and have not closed; `idle`, history: the last step read nothing; the caller takes a token or, if it closes what nothing opened, stops |
| `SyckBytecode` | bytecode.c | the same variable, another scanner |
| `SyckGrammar` | gram.y, node.c, the parser handler | `chart`, a value that `Advance` moves by one token |
| `SyckJson` | `perl_json_preprocess`, `perl_json_postprocess` | none: each pass a function of a text |

**The lexer and its buffer.** `lx.src` is the whole text, and the buffer holds it up to
`lx.limit`. `Need` is `YYFILL(n)`: with fewer than n characters ahead it keeps the text
from the start of the token and reads until the buffer is full. What lies behind
the limit reads as the end of the text to a rule that does not ask (`Peek`). That
is where the hazard is: a rule must ask for as many characters as it looks at. `lx.base` is
the place of the buffer's first character (what `syck_move_tokens` changes), and
`CursorInBuffer` says that the cursor never leaves the buffer.
Texts behind every padding of 0 to 7 characters (`Placed`), with a buffer of 20
characters, put every rule on every side of the buffer's end. The generated scanner's
states within a rule are not modelled; a rule is the set of texts it accepts. `lx.section` is the
label of the code where the scanner stands (Header, Document, Plain3, ScalarBlock2, ...); a rule
that goes back to a label is a step of its own (`ToDocument`, `ToPlain`, ...), so that a
call of the tokenizer is a walk from `entry` to `done`. A rule's repeated part (`Over`, `Skip`)
asks for characters each time round, and ends at the first character it does not match. One level of the
stack is one record; opening, closing and the forced `IOPEN`, `INDENT` and `IEND` are
those of the code, and the levels that quoted and block scalars open for their
later lines too. `lx.quirks` is history, as in `SyckLoad`: `left` is a dash to the left of the
level it is in, whose own level is then no deeper (`syck_parser_add_level` asserts that a level
is deeper than its parent, syck_.c:392; the assertion is compiled only in a debugging build, and
does not hold of these entries nor of the levels of quoted and block scalars); `cut` is a text that ends
before the first line of a block scalar, or while bytecode has a level open for a node not
yet seen: there the tokenizer closes a level too many.

**The grammar.** `Productions` are the rules of gram.y as data, each with the name of its
action. Bison's tables (gram.c) have no conflicts, so that a text has one
derivation; `Advance` follows every derivation of the tokens so far at once
(an Earley chart, with the values of the reductions done on the way) instead of a stack of states.
`Rejected` is a syntax error. A default reduction that the tables make before they
find the error is not seen, which matters to nothing here: `SyckAnchors` has what an
error leaves behind. A derivation's nodes are records, with the capacity of their arrays.

**Loaded** is `yaml_syck_parser_handler` as a function of the finished node: numbers with
commas, octal, hexadecimal, sexagesimal; null and booleans; classes; references (`=`);
code; merge keys; aliases by name. Two further settings are those of a client of
libsyck alone: `bytecode` (the input is bytecode) and `uris` (`taguri_expansion`, which the
binding switches off); what they load is compared as tags and texts, not as Perl values.

**The stand-ins in texts.** A TLA+ string holds no control characters but `\t \n \f \r`: `$`
stands for one (0x01) and `;` for NUL. `Indicators` lacks the grave accent.

| run | instance | shows |
|---|---|---|
| `round_trip` | the values and texts of `MCSyckRoundTrip`: about 1,750 initial states, 114,000 states | what Dump writes, Load reads back, in YAML with SingleQuote, ImplicitTyping and Headless on and off, in JSON with both quotes; texts by hand load as they mean or are refused; output and input buffers lose nothing; the levels of lexer and grammar agree, for every text of three characters too; a load ends |
| `json_escape_window` | disagreement | a `\u` escape of JSON that straddles the input buffer is not read back: the rule looks at six characters and asks for four |

Bounds, and why they are enough:

* `BufSize` 8 (16384 in the code): most writes are shorter and some are longer, and
  `Placed` shifts them by one character at a time, so that the buffer is met exactly full, one
  short and overrun, by each piece of each style.
* `Window` 20 (4095): longer than what any rule asks for (the longest `YYFILL` is 5), shorter
  than most texts, so that a load refills several times. In `json_escape_window` it
  is 16, with which one of the paddings places an escape across the end; the JSON texts of
  `round_trip` that hold such an escape fit the buffer.
* `AllocCt` 2 (8): collections of four and five items grow twice.
* `BestWidth` 10 (80): dumped code and multi-line texts are folded more than once.
* `Words` are at least one for each thing the scan looks for (each indicator, each blank at
  an edge, each document mark, each implicit type), in four positions: root, key, item and
  value. `Trees`, `PerlTrees`, `CodeTrees` and `TagTrees` are nestings of each kind of node in each
  other, empty ones included, with anchors, aliases, classes, references and code. `MCDocuments`
  has a text for each rule of a lexer and each production that no dump produces.
* `MCTexts` is every text of three characters out of `-`, blank, line end, `a`, `[` and `]`
  (entries left and right of their level, levels opened and closed by each other's tokens, ends
  inside a section) and four longer ones for what these do not reach (a quoted scalar and a block
  scalar that the text ends inside, a dash in a flow collection). They are tokenized and parsed like
  the rest. Longer texts are left to the proofs, which are for every text.

What the properties say beyond reading back: `BufferKeepsAll` is the abstract
specification of the output buffer (a stream: what was typed is what was
sent and what waits); `NoTrailingBlanks` is the emitter's trim, which only sees the buffer;
`LevelsMatchTokens` relates the lexer's stack to the tokens the parser was given;
`LoadsWithinDepth` that what Dump's `MaxDepth` lets through, Load's lets through;
`NodesFit` the growth of arrays; `CallsAdvance` that a call of the tokenizer never goes round
without reading on (a rule that leaves everything as it is would be a stutter, which no action
property sees: `idle` records it), and `Advances` that the tokens are at most three per character,
which together bound a load without any fairness. Deadlock is checked: a state without a step, other than one that
`Returned`, is a tokenizer or an emitter with no rule for what it sees.

**Lost.** The bytecode scanner keeps a pointer of its own into the buffer (bytecode.c:973) that
a refill, which moves the text, does not move. A scalar that straddles the buffer is then
read from the wrong place. What it reads is whatever the buffer holds; the model
stops there (`section = "lost"`), and the texts of `ByteDocuments` say which of them do. No
entry of the Perl module selects this input.

The operators were compared with the program while they were written: random texts and
values through this model and through the compiled libsyck and YAML::Syck, with the
buffer sizes set to those of the runs.

Known limits of the code, each seen on the program. The jobs of the run steer clear of
them or say what happens (the `\xZZ`, the commas); they have no run of their own:

* Loading: a block scalar whose comment ends the text (`k: | # c`) is a syntax error, as
  is a line `...` without a blank behind it before the first document; a comment or
  unknown line of bytecode that no newline ends is read past its end; an invalid `\xZZ`
  is a blank; only the last digit of a block scalar's indentation counts; every second
  of several consecutive commas of a number stays.
* Dumping: JSON's SingleQuote with a line break followed by a blank is not undone by the load's
  pass (`Indented` texts are left out for `JsonSingle`); a key `<<` merges when it is
  loaded; a text like `1,000` is plain and loses its comma under ImplicitTyping; a
  multi-line single-quoted text at the root needs one level more to load than to
  dump (`LoadsWithinDepth` is about collections); a blessed scalar whose text
  looks implicit (`true`, `~`, `0x1A`) loses its class, and with ImplicitBinary the bytes B6 BB 9E
  come back as the text `true`, their base 64 (`Unclassed` and `LeafTag` of `SyckDump`); a dumped subroutine whose pattern holds a line `---` at the left margin
  is cut there; a tag URI with dots before its first slash is shortened to another one's name.

Left out: carriage returns; the escape letters 0, a, b, e and v; literal blocks and
explicit typing, which the binding never asks for; FILE input; running into Load's
`max_depth`; regexps, globs, blessed scalar references and binary data; quoted
scalars the text ends inside; more than eight line breaks in a row inside a scalar (`NewLines`);
the UTF-8 bytes of a `\u` escape (`Coded` gives one character for any code but U+0001,
and one for the two halves of a surrogate pair, `IsPair`). Two simplifications change
nothing: `DocumentOpen` has no branch for a flow collection (token.c:63-66), since
`doc` is 0 there, and `BlockScalar` passes its hints by asking for one
character at a time where token.c:872 asks for two.

`SyckGrammar` follows all parses of the productions of gram.y at once (an Earley chart) where
Bison's automaton follows one. The actions of the rules, their semantic values and the tokens they
take are the code's; the operators of the chart (`StartingWith`, `Reach`, `Corner`, `Expects`,
`Finished`, `Begun`) stand for the generator that made the tables, and are marked external.


## Proofs

`SyckOwnership_proofs` proves of the node store `TypeCorrect` (Spec => []TypeOK),
`Ownership` (Spec => []OwnershipInv) and from it
`NoUseAfterFree`, `NoSecondFree` and the action property `AliasedNodesSurvive`,
for every set of names, every finite heap and every bound. The assumptions are
`ConstantsAssumption`: the heap is finite, and NULL and `(void *)1` are no nodes.

`NoDanglingNode` and `NoDoubleFree` are not inductive. A reduction that frees the
node it handled is safe only because no other entry of the stack holds it, which
holds because a node met twice on the stack came from an alias and so carries an
anchor. `OwnershipInv` says so: `StackSound` (nodes being built are reached from
one entry, nodes met twice are complete and anchored), `TablesSound` (where a
node is filed agrees with the name it carries, and a retired node is in no table),
`ShortcutsSound` (a waiting sequence belongs to one block mapping on the stack) and
`PhaseSound`. Each action has a lemma; the moves that several actions share
(replacing stack entries, handling nodes, refiling a name) are lemmas of their own.

Its last part proves the other half, what can be lost:

* `NoNodeLost` (Spec => []NoLostNode): until a croak, an allocated node is on the stack, in a
  shortcut, in a table, or the stand-in of an undefined alias. The invariant is
  `Accounted` (theorem `NodesAccounted`): as long as nothing croaked, a node
  without an anchor is on the stack or waits in a shortcut (`LooseSound`), and a
  node with one is in a table or is a stand-in (`FilingSound`); the teardown empties
  the tables (`FreedSound`). `LooseStep` is the
  argument for every move of the stack at once: it must keep, free or name what it pops.
* `NamesHaveOneOwner` (Spec => []EveryNameOwned): `strs` counts the allocated copies of a
  name, and `OwnersSum` says what its owners are: the anchor tokens on the stack, the nodes that
  carry the name, and its entries in the two tables. `Balance` gives these sums for both sides
  of a step (`Ledger`); then there is one lemma per step that allocates, hands over or frees
  a copy, and one (`NamesPlain`) for all others.
* `AllReclaimed` (Spec => []ReclaimedAtEnd) joins the two: once the parser is freed the
  tables are empty, so of the nodes with an anchor only stand-ins are left, after a croak
  too; without a croak the stack is empty as well, nothing else is left, and
  `EveryNameOwned` then counts one copy of a name for each stand-in that carries it.

`SyckLoad_proofs` proves of the handler:

* `LoadImplements` (LoadSpec => Spec): Load implements the node store, step by step, so
  that `LoadOwnership` carries the ownership results over: the handler never
  sees a freed node.
* `PendingCells` (LoadSpec => []PendingExact): `resolve_bad_alias` patches every cell
  that holds a stand-in for the name and no other. The inductive invariant is
  `PendingInv`: beside `PendingExact` it needs that the symbols of a node's items
  exist (`NodeType`), because a new box copies their values. The argument is about
  three operators, each with its lemma: a new symbol touches no cell (`AddSymSound`),
  a new box adds exactly its own stand-ins (`BuildSound`), and a resolution clears
  one name's cells and leaves the others' (`ResolveSound`); what the grammar's
  actions make of them follows (`AddNodeSound`, `ApplySeqSound`, one lemma per action).

`SyckValues_proofs` proves what the handler's bookkeeping is for:

* `Shared` (LoadSpec => []SharedNotCopied): a node becomes one Perl value, however many
  aliases name it and even if one of them is inside it.
* `Independent` (LoadSpec => DocumentsIndependent): a document already returned stays as it is.

Both are about parses that meet none of the `quirks`: with them the properties are false
(runs `load_redefined` and `load_circular`). The invariant is `ValuesInv` (theorem
`ValuesStaySound`):

* `Apart`: nodes are told apart by their uids, a uid has one box, and a node
  not handled yet has none. That last part is what a second handling would break, and the
  handler does handle a collection unasked, in `syck_hdlr_add_anchor`.
* `Tracked`: a stand-in, whether a symbol, a cell on a list of cells to patch or a node of the
  parser, belongs to an anchor still being built, and no cell on a list is in a
  document returned.
* `LooseUnhandled`, `StandInAbove`, `WithinNode`, `KindsSound`, `BeingBuilt`, `NamesKnown`: what
  the stack says of this. A node without an anchor was not handled; a stand-in still to be handled
  lies above the token of its anchor; above the token of an anchor used already there is
  more than an alias on its own, so that the name goes to a collection, which is built
  anew from the stand-in's symbol, and not to a scalar; an anchor being built has
  its token on the stack, so that when Load returns a document nothing is left to patch.

`Turn` is the common shape of the grammar's steps (k entries popped, one pushed, these
contents left); one lemma per part of the invariant says that a turn keeps it, and one lemma
per action that it is a turn. Before the proof TLC checked each part on the sizes of
`load_flow` and `load_block`.

`SyckMeaning_proofs` proves `LoadTypeCorrect` (LoadSpec => []LoadTypeOK), for every parse,
the irregular ones too: the handler and the root look up no symbol that
`syck_add_sym` did not return, and every value they find is one there is. The invariant is
`LoadTypes`: the values that symbols and cells hold refer to nodes and boxes there
are (`Typed`), and what a document says refers to its own nodes and definitions. Symbols and
boxes are never taken back, so that `Typed` is stated of contents that may have grown.
Of stand-ins for undefined aliases it says no kind and no uid: they outlive
the parser, in which they were given one.

The module goes on to `LoadCorrect` (LoadSpec => []LoadsWhatIsMeant), the promise of Load
as a whole: while anchors are used in none of the ways of `quirks`, each array, hash and
root of a returned document holds exactly the values that its items and aliases mean. The
history variables of what was said (`defs`, `current`, `means`, `body`) and the contents of
the code meet in `MeaningSound`:

* `Told`: each symbol, and each cell of an array or hash, is what was said of its item, or
  stands in for it (`For`): a stand-in of a name is for the definition of that name
  as long as it is open (`Open`), a value is for what the meaning `Points` to.
* `Glossary`: the latest definition of a name is open while the name is being built, and
  afterwards the node that `anchors` keeps.
* `StackMeant`: each entry of the value stack is the node its meaning points to; an open name
  has one token on the stack, and its stand-ins lie above the token.
* `ShortUnhandled`: a mapping with a sequence waiting has neither symbol nor box. `RootsMeant`:
  the roots returned so far are what was meant by them.

Most steps only say more: nothing that stood for its meaning stops doing so (`Extends`,
`Learns`; `ForGrows`, `ToldAdd`, `MeaningTurn`). The exception is the completion of an anchor's
node, which closes a definition: each stand-in then has to be replaced in the same
step (`Mends`, `Settles`; `ForMended`, `ToldRetold`, `MeaningRetold`), and it is there
that `PendingExact` is needed, that the list of cells to patch misses none. When a
document is returned no name is being built (`NothingBuilt`), so no stand-in is left
and each cell holds what was meant (`SaysWhatIsMeant`).

`SyckDump_proofs` proves of Dump, for every finite graph of values, every bound and
both orders of the keys (the assumption is `DumpAssumption`: finitely many values,
of one kind each):

* `Aliases` (Spec => []AliasesResolve). `MarksSound` says that the numbers of the mark
  phase are given once each, so a name stands for one value; `OutInv` that what was
  written is `Good` for the names in `anchored`: they are the names of the anchors,
  each once, and each alias comes after its anchor. One lemma per way of writing
  an event (`WriteAnchor`, `WriteAlias`, `WriteOther`).
* `Tags` (~Json, Spec => []TagsRight). `TagFrames` relates the one tag buffer to the
  recursion: while it spells a class, the frame on top is the reference to the
  object of that class, its child is due, and its handler's pointer is that of
  the buffer. `TagDue` concludes that only that child can take the tag, and that a
  blessed value that takes none is a scalar met as a cell, because a reference to a
  blessed scalar never has a frame (`Framed`); `LeafTagFacts` is what
  `syck_emit_scalar` then makes of the class; one lemma each for a step past a child, a
  call and a return.
* `ClassNames` (Spec => []ClassNamesFreed). `ClassInv`: the names allocated are those
  of the objects on the recursion.

All of them rest on `RunSound` (the frames hold values and the next child exists).

`SyckSharing_proofs` takes the two traversals together. An arc is a place a value is
reached from: a cell of another value, or the argument of `Dump` itself. `Arcs(V, fr)` are
the arcs walked so far by a traversal that entered the values in `V` and has the frames
`fr`. Both phases walk the same arcs, each in its own order (`Flip` is what an arc of
the emit phase is called in the mark phase).

* `Sharing` (~Json, Spec => []SharingKept). `MarkInv`: at every moment of the mark phase the
  marked values are the ends of the arcs walked, and a value at the end of two has a
  name. `EmitInv`: each value entered is at the end of an arc walked, is written once, and
  its name is among those written. A value that is met again is therefore at the end of
  two arcs, was named by the mark phase whatever order that took, and is an alias.
* `Names` (~Json, Spec => []NamesUsed). When Dump returns, the two walks have the same
  arcs (`AllEntered`), so that a name, which the mark phase gave at a second arc
  (`NamedTwice`), has an anchor and an alias.
* `NoCycle` (Spec => []NoCycleWritten), in both modes. YAML enters every value once. JSON has
  only the numbers it sets to 0: `CycleInv` gives the complete values a rank
  above those of their cells, so that the ranks fall along the emit phase's recursion.

`~Json` is a mode of the program and not a simplification: JSON has no names, writes a
shared value wherever it occurs and so refutes both properties, as it should.

The last parts of the module are about the depth of the two traversals:

* `Depth` (~Json, Spec => []EmitWithinDepthUnsorted): where both phases take the keys in
  one order, no value is emitted at a level the mark phase did not allow. `DepthInv`
  remembers the mark phase by two functions: `time`, how many values were marked when a
  cell came up, and `level`, where a value was entered. The emit phase replays them: what it
  entered is what the mark phase had marked at the same time (`Emits`), so that
  the child due is entered from the same cell, and at the same level. In JSON the property is
  false (run `dump_json_depth`), and so it is with sorted keys.
* `Refusals` (~Json, Spec => []NotRefused): what is refused for its depth is nested that deep. The
  property names the evidence, `MaxDepth` values numbered by the mark phase, each a child of the
  one numbered before it among them. `ChainInv` finds it in the recursion: the values of the
  frames of the mark phase are such a chain as long as the depth, because a value is
  entered only when it gets its number (`ChainStep`), and a call refused leaves the chain as it was.
* `TypesKept` (Spec => []TypeOK), in both modes. The proof found `TypeOK` too strict: with a
  `MaxDepth` of 0, which no run has, the first value is refused at depth 1.

`SyckSt_proofs` proves of the hash table, for every hash function, every list of
sizes and every density (`StAssumption`: finitely many texts, positive sizes):

* `TableSound` (Spec => []StInv): the invariant `StInv` (`TypeOK`, `BinsSound` and
  `CountRight`) is inductive. What a change of one chain does to the entries is
  said once, for any array of bins: pushing (`PushSound`), unlinking (`DropSound`),
  taking the head (`TailSound`), overwriting a record (`OverwriteSound`). Each action
  has a lemma that gives `StInv'` and what became of `Entries`.
* `CountStaysRight`, and `TableImplements` (Spec => ImplementsMap): `StepImplements`
  maps every step to a step of `StMap` or a stutter. A rehash moves one entry per
  step, so that the argument is an induction over steps and `MoveEntry` a stutter.
  The traversal needs that an entry has one place (`OnePlace`), so that what is
  ahead of the cursor loses exactly the entry just visited (`VisitStep`).
* `TypesStayRight`, and `ChainsStayShort` (Spec => []DensityKept). Its invariant `Roomy` adds
  that a rehash under way is to more bins, unless it is to the last size there is, which needs
  `NewSizeGrows`: `new_size` of one more than the present size is a larger one. That is
  so because of the list: `PrimesAssumption` says that the i-th prime is about as large
  as MINSIZE times the i-th power of two, and none larger than the last. The list of
  syck_st.c is 8+3, 16+3, 32+5, ... in that order, with MINSIZE 8.

`SyckTokens_proofs` proves of the tokenizer, for every set of texts and every size of the
input buffer (`WindowAssumption`: it is positive; `TextsAssumption`: texts have lengths):

* `CursorStays` (TokSpec => []CursorInBuffer): wherever a refill falls, the token and the
  cursor are inside what the buffer holds, or on the terminator behind it, and the buffer
  holds no more than its size.
* `LevelsAlwaysDeepen` (TokSpec => []LevelsDeepen) and `LevelsAlwaysMatch`
  (TokSpec => []LevelsMatchTokens): the stack of levels deepens, and it is what the tokens say.
* `CallsAlwaysAdvance` (TokSpec => []CallsAdvance): in a call each step reads on, or goes to a later
  label at the same place (`Reads`).

They are theorems of `TokSpec`, the tokenizer with the least a caller does: it takes each token,
and stops at one that closes what nothing opened, which every parser of gram.y does. The
invariant is `TokInv` (theorem `TokInvariant`). None of the properties is inductive by itself:

* `Buffered` is `CursorInBuffer` with its types. That a rule which matched n characters may move
  n on needs that a matched character is no NUL, and so is held by the buffer.
* `Levelled` (the stack has a root of -1 and deepens) needs `Ahead`, that between the cursor and
  the start of its line there are only blanks and line ends: after `Back` the cursor is
  before `lx.line`, and a column taken there would be negative. An entry's own level is deeper than
  its dash because the cursor is past the dash, or, if nothing is behind it, by `EntryLevel`.
* `Placed` says what holds at each label: the level of a quoted or block scalar is on the stack only
  inside that scalar, and a block scalar without one has the start of its line behind the cursor, so
  that no `---` ends it (`BlockSeparator`, which would close a level of another) before its first
  line.
* `Balanced` counts: the levels, less that of a scalar under way, are as many as the tokens opened,
  with the token that waits for the parser and the one to be forced (`Due`). It needs `Forcing`,
  that a token is forced between calls only.

The lemmas go from the inside out: the buffer (`Need`, `Over`, `Mark`; that `Over` has an end is
that the text has one), the stack, what each label adds, then the rules of each section, and the
entry of a call. To be proved about, the module has no recursive operator: what the code repeats is
stated by where it stops. The YAML loads of `SyckRoundTrip` take exactly the steps of `TokNext`, and
its run checks the same four formulas; they are not restated of its `Spec`, because
that module uses the recursive operators of the emitter, which no theorem may reach.

Only model-checked, and why:

* Of `SyckRoundTrip`: `ReadsBack`, `LoadsWithinDepth` and `NodesFit` are about trees, and
  `BufferKeepsAll`, `NoTrailingBlanks` and `TypeOK` about what recursive operators write; these
  definitions compute something from a text or a tree of any size, and facts about them need an
  induction over data that the provers at hand cannot do. `Advances` bounds the tokens by the
  length of the text; it would follow from a measure of what each token reads, and the three
  tokens of one character (an opening, a closing, the character) have no invariant as simple.
  Besides, tlapm knows nothing of the characters of a string.
* `Termination` of `SyckDump` is a liveness property under fairness.

## Not modelled, and what is left

* Vendored and build files: ppport.h (portability macros, more than half of the
  repository's C), Makefile.PL and the like hold no state of the program.
* Perl front ends (lib/*.pm): option variables and file handles around the entry
  points above. The options are the settings of a job.
* The generated tables of token.c, implicit.c, bytecode.c and gram.c are modelled by what
  they accept, not state by state.
* Explicit limits of each module are under its `Left out`.

What would come next, in this order:

1. `BufferKeepsAll` for every buffer size, with the recursion of `SyckEmitter` written as
   recursive functions and the output as a sequence: a string is none to the prover. It needs
   a hypothesis on the texts: of two blanks at the end of a line, one sent already and one in the
   buffer, the trim takes only the second.
2. Carriage returns in the lexer: they make two-character line ends, which are one more
   thing that can straddle the buffer.
3. Regexps, blessed scalars and globs in `SyckEmitter` and `Loaded`.
4. The composition of `SyckLexer` with `SyckAnchors`: an anchor token evicts a name when the
   lexer reads it, which is up to one token before the grammar takes it.
