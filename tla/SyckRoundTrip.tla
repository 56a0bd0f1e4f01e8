--------------------------- MODULE SyckRoundTrip ---------------------------
(***************************************************************************)
(* Dump and Load composed: a value is dumped (SyckEmitter), for JSON the   *)
(* text goes through the two passes of SyckJson, and the text is tokenized *)
(* (SyckLexer) and parsed (SyckGrammar) under the same settings.  The load *)
(* alone also starts from texts a person could have written, as YAML or as *)
(* bytecode (SyckBytecode).                                                *)
(***************************************************************************)
EXTENDS SyckEmitter, SyckBytecode, SyckTokens, SyckGrammar, SyckJson

CONSTANTS Jobs,      \* the values dumped, each with the settings
          Documents  \* the texts loaded: [text, mode, means]
\* Texts of SyckTokens are loaded too; nothing is said of what they mean.

VARIABLES phase,     \* "dump", "load", "loaded" or "failed"
          job,       \* the value, the settings, and whether it is dumped
          chart      \* the parser
vars == <<em, agenda, lx, open, idle, phase, job, chart>>

\* What LoadJSON's pass and the tokenizer get, and the text of a dump.
Quote(mode) == IF mode.json THEN IF mode.single THEN "'" ELSE "\"" ELSE NUL
LexerFor(mode, text) ==
    NewLexer(IF mode.json THEN Preprocess(text, Quote(mode)) ELSE text)
Dumped(mode, text) == IF mode.json THEN Postprocess(text, Quote(mode)) ELSE text

Unsaid == [NoNode EXCEPT !.kind = "unsaid"]
PlainMode == [json |-> FALSE, single |-> FALSE, headless |-> FALSE, implicit |-> FALSE,
              bytecode |-> FALSE, uris |-> FALSE]

Init ==
    /\ open = 0 /\ idle = FALSE
    /\ \/ /\ \E j \in Jobs : job = [value |-> j.value, mode |-> j.mode, dumped |-> TRUE]
          /\ phase = "dump"
          /\ EmitInit(job.mode, job.value)
          /\ lx = NewLexer("")
       \/ /\ \/ \E d \in Documents :
                  /\ job = [value |-> d.means, mode |-> d.mode, dumped |-> FALSE]
                  /\ lx = LexerFor(d.mode, d.text)
             \/ \E text \in Texts :
                  /\ job = [value |-> Unsaid, mode |-> PlainMode, dumped |-> FALSE]
                  /\ lx = NewLexer(text)
          /\ phase = "load"
          /\ em = NewEmitter(job.mode)
          /\ agenda = <<>>
    /\ chart = NewChart

Dump ==
    /\ phase = "dump" /\ EmitNext
    /\ UNCHANGED <<lx, open, idle, phase, job, chart>>

LoadBack ==
    /\ phase = "dump" /\ agenda = <<>>
    /\ phase' = "load"
    /\ lx' = LexerFor(job.mode, Dumped(job.mode, em.sent))
    /\ UNCHANGED <<em, agenda, open, idle, job, chart>>

Lex ==
    /\ phase = "load"
    /\ IF job.mode.bytecode THEN ByteNext ELSE LexNext
    /\ idle' = ~Reads
    /\ UNCHANGED <<em, agenda, open, phase, job, chart>>

\* The parser takes a token, or rejects it; at the end of the text it must have a
\* document.
Parse ==
    /\ phase = "load" /\ In("done")
    /\ IF lx.out.type = "END"
       THEN /\ phase' = IF Last(chart).docs = {} THEN "failed" ELSE "loaded"
            /\ UNCHANGED <<lx, open, chart>>
       ELSE /\ chart' = Advance(chart, lx.out, job.mode)
            /\ IF Rejected(chart') THEN phase' = "failed" /\ UNCHANGED <<lx, open>>
               ELSE Take /\ UNCHANGED phase
    /\ UNCHANGED <<em, agenda, idle, job>>

\* Load has returned, or what it reads is lost; a state with no other step is
\* one where it is stuck.
Returned == (phase \in {"loaded", "failed"} \/ In("lost")) /\ UNCHANGED vars

Next == Dump \/ LoadBack \/ Lex \/ Parse \/ Returned
Spec == Init /\ [][Next]_vars

(***************************************************************************)
(* What the text must keep of a value: numbers come back as their text     *)
(* (Perl does not tell), and JSON has no tags and no sharing.              *)
(***************************************************************************)
RECURSIVE Meant(_, _)
Meant(node, json) ==
    [kind   |-> IF node.kind = "int" THEN "str" ELSE node.kind,
     text   |-> node.text,
     tag    |-> IF json THEN "" ELSE node.tag,
     anchor |-> IF json THEN "" ELSE node.anchor,
     items  |-> [i \in 1..Len(node.items) |-> Meant(node.items[i], json)]]

(***************************************************************************)
(* Properties.                                                             *)
(***************************************************************************)
RECURSIVE Depth(_)
\* How many levels the handler of a dump opens for a value.
Depth(node) ==
    LET below == Max({0} \cup {Depth(item) : item \in Range(node.items)})
    IN  CASE node.kind \in Scalars -> 1
          [] node.kind = "ref"     -> 1 + below
          [] OTHER                 -> 2 + below

\* The state's shape: the emitter's levels deepen, and its buffer is never
\* overfull.
TypeOK ==
    /\ phase \in {"dump", "load", "loaded", "failed"}
    /\ Len(em.buf) <= BufSize /\ em.levels # <<>> /\ em.indent \in {0, 2}
    /\ \A i \in 2..Len(em.levels) : em.levels[i].spaces >= em.levels[i - 1].spaces

\* What Dump writes, Load reads back as the value dumped; a text written by
\* hand loads as what it means, or is refused if it is not YAML.  Every choice
\* of a style (emitter.c:678) is answered by a rule of the tokenizer: the text
\* of a scalar is quoted when some rule would see something else in it.
ReadsBack == job.value # Unsaid =>
    /\ phase = "failed" => job.value.kind = "error"
    /\ In("lost") => job.value.kind = "lost"
    /\ phase = "loaded" =>
         \A root \in Last(chart).docs :
           Loaded(root, root, job.mode) = Meant(job.value, job.mode.json)

\* However small the output buffer, what went to the port and what waits in
\* the buffer are together all that was written (syck_emitter_write).
BufferKeepsAll == em.sent \o em.buf = em.typed

\* No line of a dump ends in a blank, wherever the buffer was flushed: the
\* blank of `- ' or `: ' is trimmed in the buffer when a line follows
\* (syck_emit_indent).  Quoted texts of SingleQuote and JSON hold line ends
\* and blanks of their own.
NoTrailingBlanks ==
    job.mode.json \/ job.mode.single \/ ~Occurs(" \n", em.sent \o em.buf)

\* A collection dumped under some MaxDepth loads under the same one: the
\* levels of the tokenizer, which syck_add_level bounds (syck_.c:381), are
\* never more than the levels the mark phase counted (perl_syck.h:1005).
LoadsWithinDepth ==
    job.dumped /\ job.value.kind \notin Scalars => lx.most <= Depth(job.value) + 1

\* A node's arrays hold its pairs or items, however it was put together: one
\* by one, merged, or from entries found in place of a value (node.c:233).
NodesFit ==
    \A item \in Last(chart).items, i \in 1..3 :
      i <= Len(item.values) =>
        \A node \in NodesOf(item.values[i]) :
          node.kind \in {"seq", "map"} => Count(node) <= node.capa

\* A load of any text ends: the tokens are at most three for each character (a
\* level opened, closed, and the character itself) and those of the levels closed
\* at the end.  With CallsAdvance this bounds the steps of a load.
Advances == Len(chart) <= 3 * Len(lx.src) + 4
=============================================================================
