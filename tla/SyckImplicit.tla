---------------------------- MODULE SyckImplicit ----------------------------
(***************************************************************************)
(* Implicit typing (implicit.c): the type a plain scalar gets from its     *)
(* text alone, and the URI a type's name stands for.  The source is two    *)
(* generated automata over the whole text; each definition below is the    *)
(* set of texts a part of one accepts.                                     *)
(***************************************************************************)
EXTENDS SyckText

\* [0-9][0-9,]*
Grouped(s) == At(s, 1) \in Digits /\ Chars(s) \subseteq Digits \cup {","}

\* [-+]?("0" | [1-9][0-9,]*)
IsInt(s) == LET u == Unsigned(s) IN u = "0" \/ (Grouped(u) /\ At(u, 1) # "0")

\* [-+]?0x[0-9a-fA-F,]+ and [-+]?0[0-7,]+
IsHex(s) ==
    LET u == Unsigned(s)
    IN  /\ StartsAt(u, 1, "0x") /\ Len(u) > 2
        /\ Chars(From(u, 3)) \subseteq
             Digits \cup {"a", "b", "c", "d", "e", "f", "A", "B", "C", "D", "E", "F", ","}
IsOct(s) ==
    LET u == Unsigned(s)
    IN  At(u, 1) = "0" /\ Len(u) > 1 /\ Chars(From(u, 2)) \subseteq (Digits \ {"8", "9"}) \cup {","}

\* [0-9][0-9,]*(":"[0-5]?[0-9])+, unsigned
IsSexagesimal(u) ==
    LET colons  == {i \in 1..Len(u) : At(u, i) = ":"}
        Group(i) == LET ends == {j \in colons : j > i} \cup {Len(u) + 1}
                    IN  SubSeq(u, i + 1, (CHOOSE j \in ends : \A k \in ends : j <= k) - 1)
    IN  /\ colons # {}
        /\ Grouped(SubSeq(u, 1, (CHOOSE j \in colons : \A k \in colons : j <= k) - 1))
        /\ \A i \in colons :
             LET g == Group(i)
             IN  \/ Len(g) = 1 /\ g \in Digits
                 \/ Len(g) = 2 /\ At(g, 1) \in {"0", "1", "2", "3", "4", "5"} /\ At(g, 2) \in Digits
IsIntBase60(s) == IsSexagesimal(Unsigned(s))

\* The forms with a point: [0-9][0-9,]*"."[0-9,]*, the same with an exponent
\* ([0-9.]*[eE][-+][0-9]+ after the point), and base 60 before the point; what
\* is before and what behind a point.
Parts(s) ==
    LET u == Unsigned(s)
    IN  {<<SubSeq(u, 1, i - 1), From(u, i + 1)>> : i \in {j \in 2..Len(u) : At(u, j) = "."}}
Fraction(t) == Chars(t) \subseteq Digits \cup {","}
Exponent(t) ==
    \E i \in 1..Len(t) :
      /\ At(t, i) \in {"e", "E"} /\ At(t, i + 1) \in {"+", "-"}
      /\ Chars(SubSeq(t, 1, i - 1)) \subseteq Digits \cup {"."}
      /\ From(t, i + 2) # "" /\ Chars(From(t, i + 2)) \subseteq Digits
IsFix(s) == \E p \in Parts(s) : Grouped(p[1]) /\ Fraction(p[2])
IsExp(s) == \E p \in Parts(s) : Grouped(p[1]) /\ Exponent(p[2])
IsFloatBase60(s) == \E p \in Parts(s) : IsSexagesimal(p[1]) /\ Fraction(p[2])

\* Timestamps: a date, and a time of day behind `T' or behind blanks.
Digital(s, pattern) ==
    /\ Len(s) = Len(pattern)
    /\ \A i \in 1..Len(s) : IF At(pattern, i) = "9" THEN At(s, i) \in Digits ELSE At(s, i) = At(pattern, i)
IsYmd(s) == Digital(s, "9999-99-99")
SecondsPast(t) == IF At(t, 1) = "." THEN TrimStart(From(t, 2), Digits) ELSE t
Zone(t) ==
    \/ t = "Z"
    \/ At(t, 1) \in {"+", "-"} /\ (Digital(From(t, 2), "99") \/ Digital(From(t, 2), "99:99"))
IsIso8601(s) ==
    /\ IsYmd(SubSeq(s, 1, Least(Len(s), 10))) /\ At(s, 11) \in {"T", "t"}
    /\ Len(s) > 19 /\ Digital(SubSeq(s, 12, 19), "99:99:99") /\ Zone(SecondsPast(From(s, 20)))
IsSpaced(s) ==
    LET blank == {" ", "\t"}
        time  == TrimStart(From(s, 11), blank)
        rest  == SecondsPast(From(time, 9))
    IN  /\ IsYmd(SubSeq(s, 1, Least(Len(s), 10))) /\ At(s, 11) \in blank
        /\ Len(time) > 8 /\ Digital(SubSeq(time, 1, 8), "99:99:99")
        /\ At(rest, 1) \in blank /\ Zone(TrimStart(rest, blank))

Nulls == {"", "~", "null", "Null", "NULL"}
Yes == {"y", "yes", "Y", "Yes", "YES", "true", "True", "TRUE", "on", "On", "ON"}
No == {"n", "no", "N", "No", "NO", "false", "False", "FALSE", "off", "Off", "OFF"}
Infs == {".inf", ".Inf", ".INF", "+.inf", "+.Inf", "+.INF"}
NegInfs == {"-.inf", "-.Inf", "-.INF"}
NaNs == {".nan", ".NaN", ".NAN"}

\* syck_match_implicit: the texts of the types are disjoint.
MatchImplicit(text) ==
  LET s == CString(text) IN
    CASE s \in Nulls      -> "null"
      [] s \in Yes        -> "bool#yes"
      [] s \in No         -> "bool#no"
      [] s \in Infs       -> "float#inf"
      [] s \in NegInfs    -> "float#neginf"
      [] s \in NaNs       -> "float#nan"
      [] s = "="          -> "default"
      [] s = "<<"         -> "merge"
      [] IsInt(s)         -> "int"
      [] IsHex(s)         -> "int#hex"
      [] IsOct(s)         -> "int#oct"
      [] IsIntBase60(s)   -> "int#base60"
      [] IsFix(s)         -> "float#fix"
      [] IsExp(s)         -> "float#exp"
      [] IsFloatBase60(s) -> "float#base60"
      [] IsYmd(s)         -> "timestamp#ymd"
      [] IsIso8601(s)     -> "timestamp#iso8601"
      [] IsSpaced(s)      -> "timestamp#spaced"
      [] OTHER            -> "str"

(***************************************************************************)
(* syck_type_id_to_uri.                                                    *)
(***************************************************************************)
Domain == "yaml.org,2002"
TagUri(domain, name) == "tag:" \o domain \o ":" \o name

\* What is before the first place of a character, and what is behind.
Before(s, c) ==
    SubSeq(s, 1, CHOOSE n \in 0..Len(s) : At(s, n + 1) \in {c, NUL} /\ \A i \in 1..n : At(s, i) # c)
Behind(s, c) == From(s, Len(Before(s, c)) + 2)

\* A host: components of letters, digits, `_' and inner `-', with points between.
UriLetters == Chars("ABCDEFGHIJKLMNOPQRSTUVWXYZabcdefghijklmnopqrstuvwxyz_") \cup Digits
IsComponent(s) ==
    Chars(s) \subseteq UriLetters \cup {"-"} /\ At(s, 1) \in UriLetters /\ At(s, Len(s)) \in UriLetters
IsDns(s) ==
    LET Bounds(i, j) == At(s, i - 1) \in {".", NUL} /\ At(s, j + 1) \in {".", NUL}
    IN  \A i \in 1..Len(s) + 1, j \in 0..Len(s) :
          i <= j + 1 /\ Bounds(i, j) /\ (\A k \in i..j : At(s, k) # ".") => IsComponent(SubSeq(s, i, j))
\* A year, a month, or a day; and a host that had a name at one.
IsDate(s) == \E form \in {"9999", "9999-99", "9999-99-99"} : Digital(s, form)
IsAuthority(s) == IsDns(Before(s, ",")) /\ IsDate(Behind(s, ","))

IsTagUri(s) ==
    StartsAt(s, 1, "tag:") /\ Occurs(":", From(s, 5)) /\ IsAuthority(Before(From(s, 5), ":"))
IsPrivate(s) == StartsAt(s, 1, "x-private:")

\* A URI is kept; `!' is for private types; a domain before a `/' is the
\* authority itself if it has a date.
TypeUri(s) ==
    IF IsTagUri(s) \/ IsPrivate(s) THEN s
    ELSE IF At(s, 1) = "!" THEN "x-private:" \o From(s, 2)
    ELSE IF Occurs("/", s) /\ IsDns(Before(s, "/"))
         THEN TagUri(Before(s, "/") \o "." \o Domain, Behind(s, "/"))
    ELSE IF Occurs("/", s) /\ IsAuthority(Before(s, "/")) THEN TagUri(Before(s, "/"), Behind(s, "/"))
    ELSE TagUri(Domain, s)
=============================================================================
