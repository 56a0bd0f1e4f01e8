-------------------------- MODULE MCSyckRoundTrip --------------------------
EXTENDS SyckRoundTrip

(* Values. *)
Str(s)       == [NoNode EXCEPT !.kind = "str", !.text = s]
Num(s)       == [NoNode EXCEPT !.kind = "int", !.text = s]
Undef        == NoNode
Arr(items)   == [NoNode EXCEPT !.kind = "seq", !.items = items]
Hash(items)  == [NoNode EXCEPT !.kind = "map", !.items = items]
Code(s)      == [NoNode EXCEPT !.kind = "code", !.text = s, !.tag = "tag:!perl:code:"]
Ref(target)  == [NoNode EXCEPT !.kind = "ref", !.items = <<target>>]
Named(name, node) == [node EXCEPT !.anchor = name]
Blessed(tag, node) == [node EXCEPT !.tag = "tag:!perl:" \o tag]

(* Settings. *)
Mode(json, single, headless, implicit) ==
    [json |-> json, single |-> single, headless |-> headless, implicit |-> implicit,
     bytecode |-> FALSE, uris |-> FALSE]
Yaml == {Mode(FALSE, s, FALSE, i) : s \in BOOLEAN, i \in BOOLEAN}
Headless == {Mode(FALSE, s, TRUE, FALSE) : s \in BOOLEAN}
Json == Mode(TRUE, FALSE, TRUE, TRUE)
JsonSingle == Mode(TRUE, TRUE, TRUE, TRUE)
Plainly == PlainMode
Typed == Mode(FALSE, FALSE, FALSE, TRUE)
Expanding == [Plainly EXCEPT !.uris = TRUE]
Bytecode == [Plainly EXCEPT !.bytecode = TRUE]

(* Texts that some rule of the tokenizer, of the implicit types or of a      *)
(* quoting style could take for something else.                              *)
Words ==
    {"a", "", "a b", " a", "a ", "a: b", "a:", ":a", "- a", "-", "a #b", "#a", "it's", "a\"b",
     "a\nb", "a\n", "\na", "a\n\nb", "a\n b", "\n", "a'b\n", "~", "yes", "null", "1", "012", "1.5", "1:30",
     "---", "--- a", "[a", "a]", "{", "a}b", "a, b", "a,", ", ", "&a", "*a", "!a", "|", ">", "%a", "@a",
     "a\\n", "\\", "a/b", "a\tb", "...", "a\n---\nb", "?", "? a", "=", "'", "\"", "0x1F", ".inf", "a\n...\n",
     "2001-12-14", "2001-12-14 21:59:43 Z"}
Everywhere(s) == Hash(<<Str("k"), Arr(<<Str(s)>>), Str(s), Str(s)>>)

(* Shapes. *)
Shared == Named("1", Arr(<<Str("s")>>))
Trees ==
    {Arr(<<Str("x\ny\n\nz")>>), Arr(<<>>), Hash(<<>>), Arr(<<Undef, Num("1"), Arr(<<>>), Hash(<<>>)>>),
     Arr(<<Arr(<<Arr(<<Str("a"), Num("-5")>>), Str("b")>>), Hash(<<Str("k"), Arr(<<Hash(<<Str("d"), Undef>>)>>)>>)>>),
     Hash(<<Str("a"), Hash(<<Str("b"), Hash(<<Str("c"), Str("x\ny"), Str("d"), Arr(<<Str("e"), Arr(<<>>)>>)>>),
            Str("f"), Hash(<<>>)>>), Str("g"), Num("0")>>)}
PerlTrees ==
    {Arr(<<Shared, Shared>>), Hash(<<Str("p"), Shared, Str("q"), Hash(<<Str("r"), Shared>>)>>),
     Named("1", Blessed("hash:F", Hash(<<Str("k"), Blessed("array:B", Arr(<<Str("v")>>)), Str("l"), Str("w")>>))),
     Ref(Str("a")), Arr(<<Ref(Str("x\ny")), Ref(Ref(Num("1")))>>), Hash(<<Str("k"), Ref(Shared), Str("l"), Shared>>),
     Arr(<<Named("1", Hash(<<>>)), Named("2", Arr(<<>>)), Named("2", Arr(<<>>)), Named("1", Hash(<<>>))>>)}

(* Code: a body, a prototype, nested blocks, and a pattern that keeps the    *)
(* line breaks and the columns it has in the source.                         *)
Codes == {"{\n    5;\n}", "($;@) {\n    if (a) {\n        b;\n    }\n}", "{\n    x =~ m[\nab\ncd\n\n e\n]x;\n}",
          "{\n    m[\n---a\n]x;\n}", "{\n    m[\nab cd efgh ijkl mnop\n]x;\n}", "{\n    m[\n\n\nab\n ]x;\n}"}
CodeTrees ==
    UNION {{Code(s), Arr(<<Code(s), Str("a")>>), Hash(<<Str("k"), Arr(<<Code(s)>>), Str("l"), Ref(Code(s))>>),
            Arr(<<Named("1", Blessed("code:F", Code(s))), Named("1", Blessed("code:F", Code(s)))>>)} : s \in Codes}

(* A text at every distance from where a buffer ends.                        *)
Pads == {"", "p", "pp", "ppp", "pppp", "ppppp", "pppppp", "ppppppp"}
Placed == {Arr(<<Str(p), Hash(<<Str("k"), Str(s)>>)>>) :
             p \in Pads, s \in {"a\n---\nb", "it's", "a\n\n\nb", "a\tb", "\"a\"", "a,  b", "abcdefghijklm", "a: b #c"}}

\* The escape of a character without a letter; in JSON it is longer, and only
\* where the text is short it is not at a buffer's end.
Escapes == {Arr(<<Str(p), Str(Control \o "b"), Hash(<<Str("a" \o Control), Undef>>)>>) : p \in Pads}

(* Tags as a client of libsyck alone gives them.                            *)
Of(tag, node) == [node EXCEPT !.tag = tag]
TagUris == {"tag:yaml.org,2002:a", "tag:p.yaml.org,2002:b", "tag:d.e-f,2005-12:g", "x-private:h", "tag:i,2005:j/k"}
TagTrees ==
    {Arr(<<Of(t, Str("u")), Of(t, Arr(<<>>)), Of(t, Hash(<<Of(u, Str("k")), Of(u, Str("v"))>>))>>) : t \in TagUris, u \in TagUris}

Job(values, modes) == {[value |-> v, mode |-> m] : v \in values, m \in modes}
MCJobs ==
    Job({Everywhere(s) : s \in Words}, Yaml \cup {Json})
    \cup Job({Str(s) : s \in Words}, Yaml \cup Headless \cup {Json})
    \cup Job({Everywhere(s) : s \in {t \in Words : ~Indented(t)}}, {JsonSingle})
    \cup Job(Trees, Yaml \cup Headless \cup {Json, JsonSingle})
    \cup Job(Placed, Yaml \cup {Json, JsonSingle})
    \cup Job(Escapes, Yaml) \cup Job({Arr(<<Str("a" \o Control)>>)}, {Json, JsonSingle})
    \cup Job(PerlTrees \cup CodeTrees, Yaml \cup Headless)
    \cup Job(TagTrees, {Expanding})

(* JSON texts with an escape of six characters at every distance.            *)
MCEscapeJobs == Job({Arr(<<Str(p), Str("a" \o Control)>>) : p \in Pads}, {Json})
MCNoDocuments == {}
MCNoTexts == {}

(* Texts a person could have written, and what they mean.                    *)
D(text, means) == [text |-> text, mode |-> Plainly, means |-> means]
Wrong == [NoNode EXCEPT !.kind = "error"]

\* The same for bytecode, whose text may also be lost, and for the tags and
\* types of a parser that expands them.
B(text, means) == [text |-> text, mode |-> Bytecode, means |-> means]
Lose == [NoNode EXCEPT !.kind = "lost"]
ByteDocuments ==
    {B("D\nSa\nCb\nN2\nCc\nP\n", Str("ab\n\nc")), B("D\nVa:b\nVc:d\nQ\nE\n", Arr(<<>>)),
     B("D\nV:b\nSa\n", Of("null", Str(""))), B("c d\nSa\nP\n", Str("a")), B("", Of("null", Str(""))),
     B("M\nSa\nSb\nSc\nQ\nE\nE\n", Hash(<<Str("a"), Str("b"), Str("c"), Arr(<<>>)>>)),
     B("M\nSk\nQ\nSa\nSb\nE\nE\n", Hash(<<Str("k"), Arr(<<Str("a"), Str("b")>>)>>)),
     B("M\nSk\nM\nSl\nSm\nE\nE\n", Hash(<<Str("k"), Hash(<<Str("l"), Str("m")>>)>>)),
     B("Q\nM\nE\nQ\nSa\nE\nE\n", Arr(<<Hash(<<>>), Arr(<<Str("a")>>)>>)),
     B("Q\nQ\nQ\nSa\nE\nE\nE\n", Arr(<<Arr(<<Arr(<<Str("a")>>)>>)>>)),
     B("Q\nAx\nSa\nRx\nE\n", Arr(<<Named("x", Str("a")), Named("x", Str("a"))>>)),
     B("Ax\nQ\nSa\nc\nSb\nE\n", Named("x", Arr(<<Str("a"), Str("b")>>))),
     B("T!p/^b\nQ\nT!^c\nSa\nE\n", Of("p/b", Arr(<<Of("p/c", Str("a"))>>))),
     B("T!\nSa\nP\nSb\n", Str("a")), B("Tt:u\nQ\nE\n", Of("t:u", Arr(<<>>))),
     B("SaZ\nZ\nZb\nN\nP\n", Str("aZ" \o Zero \o Zero \o "b\n")), B("Sa\nD\nSb\n", Str("a")),
     B("M\nQ\nSa\nE\nSb\nE\n", Wrong), B("E\n", Wrong), B("xy\n", Of("null", Str(""))), B("T\nSab\n", Lose),
     [B("Q\nS~\nSy\nZ\nT!\nS1\nE\n",
        Arr(<<Of("null", Str("~")), Of("bool#yes", Str("y" \o Zero)), Of("int", Str("1"))>>))
        EXCEPT !.mode.implicit = TRUE],
     [B("Q\nT!a\nSb\nE\n", Arr(<<Of("tag:yaml.org,2002:a", Str("b"))>>)) EXCEPT !.mode.uris = TRUE]}

X(text, means) == [text |-> text, mode |-> Expanding, means |-> means]
TagDocuments ==
    {X("- !a u\n- !p/b {}\n- !d.e,2005-12/f []\n- !!g v\n- !tag:d.e,2005-12:f w\n- !x-private:g \"x\"\n- !-/h y\n",
       Arr(<<Of("tag:yaml.org,2002:a", Str("u")), Of("tag:p.yaml.org,2002:b", Hash(<<>>)),
             Of("tag:d.e,2005-12:f", Arr(<<>>)), Of("x-private:g", Str("v")), Of("tag:d.e,2005-12:f", Str("w")),
             Of("x-private:g", Str("x")), Of("tag:yaml.org,2002:-/h", Str("y"))>>)),
     X("--- !p/^b\n- !^c d\n- !e\\\"\\x01 f\n- 'g'\n",
       Of("tag:p.yaml.org,2002:b", Arr(<<Of("tag:p.yaml.org,2002:c", Str("d")), Of("tag:yaml.org,2002:e\"" \o Control, Str("f")),
                                         Of("tag:yaml.org,2002:str", Str("g"))>>))),
     D("--- !perl/^hash:F\nk: !^array:B\n  - v\n", Blessed("hash:F", Hash(<<Str("k"), Blessed("array:B", Arr(<<Str("v")>>))>>)))}

MCDocuments ==
    ByteDocuments \cup TagDocuments \cup
    {D("k:\n- a\n- b\n", Hash(<<Str("k"), Arr(<<Str("a"), Str("b")>>)>>)),
     D("k:\n- a\nl: b\nm:\n- c\n", Hash(<<Str("k"), Arr(<<Str("a")>>), Str("l"), Str("b"), Str("m"), Arr(<<Str("c")>>)>>)),
     D("? a\n: b\n", Hash(<<Str("a"), Str("b")>>)),
     D("\n\n- a\n", Arr(<<Str("a")>>)),
     D("  - a\n  - b\n", Arr(<<Str("a"), Str("b")>>)),
     D("--- [a, b: c, , d]\n", Arr(<<Str("a"), Hash(<<Str("b"), Str("c")>>), Str("d")>>)),
     D("--- [a, b: c, d, ]\n", Arr(<<Str("a"), Hash(<<Str("b"), Str("c")>>), Str("d")>>)),
     D("--- {a: b, c, d: }\n", Hash(<<Str("a"), Str("b"), Str("c"), Undef, Str("d"), Undef>>)),
     D("--- ! a\n", Str("a")),
     D("--- &1\n- a\n- &2 [b]\n- *2\n", Named("1", Arr(<<Str("a"), Named("2", Arr(<<Str("b")>>)), Named("2", Arr(<<Str("b")>>))>>))),
     D("--- !perl/hash:F\nk: v\n", Blessed("hash:F", Hash(<<Str("k"), Str("v")>>))),
     D("- \n- a\n-\n- b\n", Arr(<<Undef, Str("a"), Undef, Str("b")>>)),
     D("- - a\n  - b\n- c: d\n  e: f\n", Arr(<<Arr(<<Str("a"), Str("b")>>), Hash(<<Str("c"), Str("d"), Str("e"), Str("f")>>)>>)),
     D("a:\n  b: c\n  d:\n    - e\nf: g\n",
       Hash(<<Str("a"), Hash(<<Str("b"), Str("c"), Str("d"), Arr(<<Str("e")>>)>>), Str("f"), Str("g")>>)),
     D("a: b\n  c\n\n  d\ne: f\n", Hash(<<Str("a"), Str("b c\nd"), Str("e"), Str("f")>>)),
     D("- \"b\n  c\"\n- 'd\n\n  e'\n", Arr(<<Str("b c"), Str("d\ne")>>)),
     D("--- a\n--- b\n", Str("a")),
     D("[a,\n b]\n", Arr(<<Str("a"), Str("b")>>)),
     D("--- yes\n", Str("yes")),
     D("- \"\\uD83d\\ude00\"\n", Arr(<<Str("?")>>)), D("- \"\\ud83da\"\n", Arr(<<Str("?a")>>)),
     D("- \"\\ud83d\\uD83D\"\n", Arr(<<Str("??")>>)), D("- \"\\uDE00\\u0001\"\n", Arr(<<Str("?" \o Control)>>)),
     [D("- &a {u: p, v: q}\n- u: r\n  <<: *a\n  u: s\n",
        Arr(<<Named("a", Hash(<<Str("u"), Str("p"), Str("v"), Str("q")>>)),
              Hash(<<Str("u"), Str("s"), Str("v"), Str("q")>>)>>)) EXCEPT !.mode = Typed],
     D("k: |\n  x\n   y\n\n  z\n\nl: m\n", Hash(<<Str("k"), Str("x\n y\n\nz\n"), Str("l"), Str("m")>>)),
     D("- |-\n  x\n\n- |+\n  y\n\n- >\n  a\n  b\n\n  c\n   d\n  e\n",
       Arr(<<Str("x"), Str("y\n\n"), Str("a b\nc\n d\ne\n")>>)),
     D("- \ta\n", Arr(<<Str("a")>>)),
     D("- |1\n   a\n- > # c\n  b\n- |\n", Arr(<<Str("  a\n"), Str("b\n"), Str("")>>)),
     D("--- >\na\nb\n--- c\n", Str("a b\n")), D("--- |\n  a", Str("a")),
     D("# c\n%x\n--- a # b\n", Str("a")), D("--- %YAML:1.0 a\n", Str("a")), D("", Undef),
     D("k: # c\n  - a\n# d\n  - # e\n    b\n", Hash(<<Str("k"), Arr(<<Str("a"), Str("b")>>)>>)),
     D("... \n- a\n- b\n...\nc\n", Arr(<<Str("a"), Str("b")>>)),
     [D("--- ! yes\n", Str("1")) EXCEPT !.mode = Typed],
     [D("- 1,000\n- ~\n- no\n- 1_0\n", Arr(<<Str("1000"), Undef, Str(""), Str("1_0")>>)) EXCEPT !.mode = Typed],
     [D("- 1,000.50\n- -012\n- 0x1,F\n- -1,0:30:05\n- +1:30.50\n- 01.5\n- 1.\n- -0\n- 1,,000\n- 1,,0.5\n- 1,,0:30\n- -0x1f\n- -0.0\n",
        Arr(<<Str("1000.5"), Str("-10"), Str("31"), Str("-37805"), Str("90.5"), Str("1.5"), Str("1"), Str("0"), Str("1"),
              Str("1"), Str("90"), Str("-31"), Str("0")>>)) EXCEPT !.mode = Typed],
     D("- \"a\\xZZ\\ c\\q\"\n- \"d \\ \n  e \\\n\n f\"\n", Arr(<<Str("a ZZ c\\q"), Str("d e f")>>)),
     D("a: b: c\n", Wrong), D("- a\n b\n- c\n", Arr(<<Str("a b"), Str("c")>>)), D("- a\nk: b\n", Wrong),
     [D("{ \"a\" : [ 1, null ,\"it's\"],\n\"b\":{} }", Hash(<<Str("a"), Arr(<<Str("1"), Undef, Str("it's")>>), Str("b"), Hash(<<>>)>>))
        EXCEPT !.mode = Json],
     [D("['a',\"b'\\\"\",'c\\'\"']", Arr(<<Str("a"), Str("b'\""), Str("c'\"")>>)) EXCEPT !.mode = JsonSingle]}

(* Every short text of a few characters, whatever it means, and some longer. *)
Text3(chars) == {a \o b \o c : a \in chars, b \in chars, c \in chars}
MCTexts == Text3({"-", " ", "\n", "a", "[", "]"}) \cup {"- 'a", "- |", "- a\n - \"b\n c", "{- a, b}\n"}
=============================================================================
