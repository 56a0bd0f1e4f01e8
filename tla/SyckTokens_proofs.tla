------------------------- MODULE SyckTokens_proofs -------------------------
(***************************************************************************)
(* Proofs about the tokenizer, for every text and every size of the input  *)
(* buffer.  The invariant TokInv says                                      *)
(*   - Buffered: where the buffer, the token and the cursor are;           *)
(*   - Ahead: the cursor is before its line's start only by line ends and  *)
(*     blanks, so that a column is never taken from the wrong line;        *)
(*   - Levelled: the shape of the stack, and that it deepens;              *)
(*   - Forcing: a token is forced between two calls only;                  *)
(*   - Placed: what holds at each label of the scanner, in particular that *)
(*     the level of a quoted or block scalar is there in that scalar only; *)
(*   - Balanced: the levels are those of the tokens given, the one to be   *)
(*     forced and the one that waits for the parser.                       *)
(* The lemmas follow the code from the inside out: the buffer and the      *)
(* operators that move the cursor, the stack, the labels, then the rules   *)
(* of each section, and last the entry of a call and the caller's Take.    *)
(***************************************************************************)
EXTENDS SyckTokens, FiniteSetTheorems, WellFoundedInduction, SequenceTheorems, TLAPS

(***************************************************************************)
(* The cursor and the buffer.                                              *)
(***************************************************************************)
LexFields == {"src", "cur", "token", "line", "limit", "base", "force", "section", "after", "doc",
              "text", "indent", "block", "out", "most", "quirks", "levels"}

\* CursorInBuffer, with the types it needs.
Buffered(l) ==
    /\ DOMAIN l = LexFields /\ l.src \in Texts
    /\ l.base \in Nat \ {0} /\ l.token \in Nat /\ l.cur \in Nat /\ l.limit \in Nat
    /\ l.line \in Nat /\ l.doc \in Int
    /\ l.base <= l.token /\ l.token <= l.cur /\ l.cur <= l.limit + 1
    /\ l.limit = Least(Len(l.src), l.base + Window - 1)

\* f is l but for the cursor, the token and what the buffer holds.
Moved(l, f) ==
    /\ DOMAIN f = LexFields
    /\ f.src = l.src /\ f.line = l.line /\ f.force = l.force /\ f.section = l.section
    /\ f.after = l.after /\ f.doc = l.doc /\ f.text = l.text /\ f.indent = l.indent
    /\ f.block = l.block /\ f.out = l.out /\ f.most = l.most /\ f.quirks = l.quirks
    /\ f.levels = l.levels

\* The least of some numbers.
LEMMA Smallest ==
  ASSUME NEW S \in SUBSET Nat, S # {}
  PROVE  Min(S) \in S /\ \A i \in S : Min(S) <= i
  <1>1. PICK x \in S : \A y \in S : ~(<<y, x>> \in OpToRel(<, Nat))
    BY NatLessThanWellFounded, WFMin
  <1>2. ASSUME NEW y \in S PROVE x <= y
    <2>1. ~(y < x)
      BY <1>1 DEF OpToRel
    <2>2. QED
      BY <2>1
  <1>3. QED
    BY <1>2 DEF Min

\* The greatest of some bounded numbers.
LEMMA Greatest ==
  ASSUME NEW n \in Nat, NEW S \in SUBSET (0..n), S # {}
  PROVE  Max(S) \in S /\ \A i \in S : i <= Max(S)
  <1> DEFINE T == {n - i : i \in S}
  <1>1. T \in SUBSET Nat /\ T # {}
    <2>1. \A i \in S : i \in 0..n
      OBVIOUS
    <2>2. \A i \in S : n - i \in Nat
      BY <2>1
    <2>3. QED
      BY <2>2
  <1> HIDE DEF T
  <1>2. Min(T) \in T /\ \A j \in T : Min(T) <= j
    BY <1>1, Smallest
  <1>3. PICK x \in S : n - x = Min(T)
    BY <1>2 DEF T
  <1>4. ASSUME NEW i \in S PROVE i <= x
    <2>1. n - i \in T
      BY DEF T
    <2>2. n - x <= n - i
      BY <1>2, <1>3, <2>1
    <2>3. QED
      BY <2>2
  <1>5. QED
    BY <1>4 DEF Max

\* The buffer holds a part of the text.
LEMMA TextFacts ==
  ASSUME NEW l, Buffered(l)
  PROVE  /\ Len(l.src) \in Nat /\ l.limit <= Len(l.src) /\ l.limit <= l.base + Window - 1
         /\ Window \in Nat \ {0}
  BY TextsAssumption, WindowAssumption DEF Buffered, Least

\* However much a rule asks for, what the buffer holds only grows.
LEMMA NeedFacts ==
  ASSUME NEW l, Buffered(l), NEW n \in Nat
  PROVE  LET f == Need(l, n) IN
         /\ Moved(l, f) /\ Buffered(f) /\ f.cur = l.cur /\ f.token = l.token /\ f.limit >= l.limit
         /\ f.base >= l.base
  <1> DEFINE f == Need(l, n)
  <1>1. Moved(l, f) /\ f.cur = l.cur /\ f.token = l.token
    BY DEF Buffered, LexFields, Need, Moved
  <1>2. CASE l.limit - l.cur + 1 >= n
    BY <1>1, <1>2 DEF Need, Buffered
  <1>3. CASE ~(l.limit - l.cur + 1 >= n)
    <2>1. f.limit = Least(Len(l.src), l.token + Window - 1) /\ f.base = l.token
      BY <1>3 DEF Buffered, LexFields, Need
    <2> HIDE DEF f
    <2>2. f.limit \in Nat /\ f.limit >= l.limit
      <3>1. /\ l.token \in Nat /\ l.base \in Nat \ {0} /\ l.base <= l.token
            /\ l.limit = Least(Len(l.src), l.base + Window - 1)
        BY DEF Buffered
      <3>2. QED
        BY <2>1, <3>1, TextFacts DEF Least
    <2>3. f.base <= f.token /\ f.token <= f.cur /\ f.cur <= f.limit + 1 /\ f.base \in Nat \ {0}
      BY <1>1, <2>1, <2>2 DEF Buffered
    <2>4. QED
      <3>1. /\ f.src \in Texts /\ DOMAIN f = LexFields /\ f.token \in Nat /\ f.cur \in Nat /\ f.line \in Nat
            /\ f.doc \in Int
            /\ f.limit = Least(Len(f.src), f.base + Window - 1)
        BY <1>1, <2>1 DEF Buffered, Moved
      <3>2. Buffered(f)
        BY <2>2, <2>3, <3>1 DEF Buffered
      <3>3. QED
        BY <1>1, <2>1, <2>2, <2>3, <3>2 DEF Buffered, f
  <1>4. QED
    BY <1>1, <1>2, <1>3

\* The cursor may be anywhere up to the end of what the buffer holds.
LEMMA AtCursor ==
  ASSUME NEW l, Buffered(l), NEW i \in Nat, l.token <= i, i <= l.limit + 1
  PROVE  LET f == [l EXCEPT !.cur = i] IN
         Moved(l, f) /\ Buffered(f) /\ f.cur = i /\ f.token = l.token /\ f.limit = l.limit
  BY DEF Buffered, Moved, LexFields

\* A repeated part of a rule passes characters of chars and no others, and stays
\* inside the buffer however often it is refilled on the way.
LEMMA OverFacts ==
  ASSUME NEW l, Buffered(l), NEW chars, NEW n \in Nat
  PROVE  LET f == Over(l, chars, n) IN
         /\ Moved(l, f) /\ Buffered(f) /\ f.token = l.token /\ f.cur >= l.cur /\ f.limit >= l.limit
         /\ \A i \in l.cur..f.cur - 1 : At(l.src, i) \in chars \ {NUL}
         /\ Here(l) \in chars \ {NUL} => f.cur > l.cur
  <1> DEFINE from(i) == Need([l EXCEPT !.cur = i], n)
             stops   == {i \in l.cur..Len(l.src) + 1 : Here(from(i)) \notin chars \ {NUL}}
             m       == Min(stops)
             full    == Least(Len(l.src), l.token + Window - 1)
             held(i) == IF l.limit - i + 1 >= n THEN l.limit ELSE full
  <1>1. /\ l.cur \in Nat /\ l.limit \in Nat /\ l.cur <= l.limit + 1 /\ Len(l.src) \in Nat
        /\ l.limit <= Len(l.src) /\ l.token \in Nat /\ l.token <= l.cur
    BY TextFacts DEF Buffered
  <1>2. full \in Nat /\ full <= Len(l.src) /\ full >= l.limit
    <2>1. /\ l.token \in Nat /\ l.base \in Nat \ {0} /\ l.base <= l.token
          /\ l.limit = Least(Len(l.src), l.base + Window - 1)
      BY DEF Buffered
    <2>2. QED
      BY <2>1, TextFacts DEF Least
  <1>3. ASSUME NEW i \in Nat
        PROVE  from(i).cur = i /\ from(i).limit = held(i) /\ Here(from(i)) = IF i > held(i) THEN NUL ELSE At(l.src, i)
    <2>1. from(i).cur = i /\ from(i).limit = held(i) /\ from(i).src = l.src
      BY DEF Buffered, LexFields, Need
    <2>2. QED
      BY <2>1 DEF Here, Peek
  <1> HIDE DEF full
  <1>4. \A i \in Nat : /\ held(i) \in Nat /\ held(i) <= full /\ held(i) >= l.limit
                       /\ held(i) = full \/ i <= l.limit + 1
    BY <1>1, <1>2
  <1> HIDE DEF from, held
  <1>5. stops \in SUBSET Nat /\ Len(l.src) + 1 \in stops
    <2>1. Len(l.src) + 1 \in Nat /\ Len(l.src) + 1 \in l.cur..Len(l.src) + 1
      BY <1>1
    <2>2. Len(l.src) + 1 > held(Len(l.src) + 1)
      BY <1>1, <1>2, <1>4, <2>1
    <2>3. Here(from(Len(l.src) + 1)) = NUL
      BY <1>3, <2>1, <2>2
    <2>4. QED
      BY <1>1, <2>1, <2>3
  <1>6. m \in stops /\ \A i \in stops : m <= i
    BY <1>5, Smallest
  <1> HIDE DEF m
  <1>7. m \in Nat /\ l.cur <= m
    BY <1>1, <1>6
  <1>8. ASSUME NEW i \in l.cur..m - 1
        PROVE  At(l.src, i) \in chars \ {NUL} /\ i <= held(i)
    <2>1. i \in Nat /\ i \in l.cur..Len(l.src) + 1 /\ i \notin stops
      BY <1>1, <1>6, <1>7
    <2>2. Here(from(i)) \in chars \ {NUL}
      BY <2>1
    <2>3. i <= held(i)
      BY <1>3, <1>4, <2>1, <2>2
    <2>4. QED
      BY <1>3, <1>4, <2>1, <2>2, <2>3
  <1>9. m <= held(m) + 1
    <2>1. CASE m = l.cur
      <3>1. held(m) \in Nat /\ held(m) >= l.limit
        BY <1>4, <1>7
      <3>2. QED
        BY <1>1, <2>1, <3>1
    <2>2. CASE m # l.cur
      <3>1. m - 1 \in l.cur..m - 1 /\ m - 1 \in Nat
        BY <1>1, <1>7, <2>2
      <3>2. m - 1 <= held(m - 1)
        BY <1>8, <3>1
      <3>3. held(m - 1) <= full /\ held(m) \in Nat /\ held(m - 1) \in Nat
        BY <1>4, <1>7, <3>1
      <3>4. held(m) = full \/ m <= held(m) + 1
        <4>1. held(m) \in Nat /\ held(m) >= l.limit /\ (held(m) = full \/ m <= l.limit + 1)
          BY <1>4, <1>7
        <4>2. QED
          BY <1>1, <1>7, <4>1
      <3>5. m - 1 <= full
        BY <1>2, <1>7, <3>1, <3>2, <3>3
      <3>6. m <= full + 1
        BY <1>2, <1>7, <3>5
      <3>7. QED
        BY <3>4, <3>6
    <2>3. QED
      BY <2>1, <2>2
  <1> DEFINE f == from(m)
  <1>10. Over(l, chars, n) = f
    BY DEF Over, from, m
  <1>11. f.cur = m /\ f.limit = held(m)
    BY <1>3, <1>7
  <1>12. Moved(l, f) /\ f.token = l.token /\ (f.base = l.base \/ f.base = l.token)
    BY DEF Buffered, LexFields, Need, Moved, from
  <1>13. f.limit = Least(Len(l.src), f.base + Window - 1)
    <2>1. CASE l.limit - m + 1 >= n
      <3>1. f.limit = l.limit /\ f.base = l.base
        BY <2>1 DEF Buffered, LexFields, Need, from
      <3>2. QED
        BY <3>1 DEF Buffered
    <2>2. CASE ~(l.limit - m + 1 >= n)
      BY <2>2 DEF Buffered, LexFields, Need, from
    <2>3. QED
      BY <2>1, <2>2
  <1> HIDE DEF f
  <1>14. Buffered(f)
    <2>1. f.base \in Nat \ {0} /\ f.base <= f.token /\ f.token \in Nat /\ f.line \in Nat /\ f.doc \in Int
      BY <1>12 DEF Buffered, Moved
    <2>2. /\ DOMAIN f = LexFields /\ f.src = l.src /\ f.src \in Texts
      BY <1>12 DEF Buffered, Moved
    <2>3. f.cur \in Nat /\ f.limit \in Nat /\ f.cur <= f.limit + 1
      BY <1>4, <1>7, <1>9, <1>11
    <2>4. f.token <= f.cur
      BY <1>1, <1>7, <1>11, <1>12
    <2>5. QED
      BY <1>13, <2>1, <2>2, <2>3, <2>4 DEF Buffered
  <1>15. ASSUME Here(l) \in chars \ {NUL} PROVE m > l.cur
    <2>1. l.cur <= l.limit /\ Here(l) = At(l.src, l.cur)
      BY <1>1, <1>15 DEF Here, Peek
    <2>2. l.cur <= held(l.cur) /\ held(l.cur) \in Nat
      <3>1. held(l.cur) \in Nat /\ held(l.cur) >= l.limit
        BY <1>1, <1>4
      <3>2. QED
        BY <1>1, <2>1, <3>1
    <2>3. Here(from(l.cur)) = At(l.src, l.cur)
      BY <1>1, <1>3, <2>2
    <2>4. Here(from(l.cur)) \in chars \ {NUL}
      BY <1>15, <2>1, <2>3
    <2>5. l.cur \notin stops
      BY <2>4
    <2>6. QED
      BY <1>1, <1>6, <1>7, <2>5
  <1>16. QED
    BY <1>4, <1>7, <1>8, <1>10, <1>11, <1>12, <1>14, <1>15
(***************************************************************************)
(* The level stack.                                                        *)
(***************************************************************************)
LevelFields == {"spaces", "status", "ncount", "domain"}
Apart == {"str", "block"}

\* A stack of levels: the outermost is the document's, and the level of a scalar
\* is on top or nowhere.
IsLevel(level) ==
    /\ DOMAIN level = LevelFields /\ level.spaces \in Int /\ level.spaces >= -1
    /\ level.status # "open" /\ (level.status = "block" => level.spaces >= 0)
Stack(s) ==
    /\ \E S : s \in Seq(S)
    /\ Len(s) >= 1 /\ s[1].spaces = -1 /\ s[1].status \in {"header", "doc", "map"}
    /\ \A i \in 1..Len(s) : IsLevel(s[i])
    /\ \A i \in 1..Len(s) - 1 : s[i].status \notin Apart
Deepens(s) == \A i \in 2..Len(s) : s[i].status \notin Apart => s[i].spaces > s[i - 1].spaces

\* t is s but for what does not matter: the status and domain of levels of nodes.
SameStack(s, t) ==
    /\ Stack(t) /\ Len(t) = Len(s) /\ (Deepens(s) => Deepens(t))
    /\ Last(t).spaces = Last(s).spaces
    /\ Last(s).status \in Apart \/ Last(t).status \in Apart => Last(t).status = Last(s).status

\* The level on top is one of the levels.
LEMMA StackTop ==
  ASSUME NEW s, Stack(s)
  PROVE  /\ Len(s) \in Nat /\ Len(s) >= 1 /\ Last(s) = s[Len(s)] /\ IsLevel(Last(s))
         /\ Last(s).spaces \in Int /\ Last(s).spaces >= -1
         /\ Last(s).status = "block" => Last(s).spaces >= 0
  <1>1. PICK S : s \in Seq(S)
    BY DEF Stack
  <1>2. Len(s) \in Nat /\ Len(s) >= 1 /\ Len(s) \in 1..Len(s)
    BY <1>1 DEF Stack
  <1>3. IsLevel(s[Len(s)]) /\ Last(s) = s[Len(s)]
    BY <1>2 DEF Stack, Last
  <1>4. QED
    BY <1>2, <1>3 DEF IsLevel

\* A stack is itself.
LEMMA SameIsSame ==
  ASSUME NEW s, Stack(s)
  PROVE  SameStack(s, s)
  BY DEF SameStack

\* A level more on top.
LEMMA Pushed ==
  ASSUME NEW s, Stack(s), NEW level, IsLevel(level), Last(s).status \notin Apart
  PROVE  LET t == Append(s, level) IN
         /\ Stack(t) /\ Len(t) = Len(s) + 1 /\ Last(t) = level
         /\ Deepens(s) /\ (level.status \in Apart \/ level.spaces > Last(s).spaces) => Deepens(t)
  <1> DEFINE t == Append(s, level)
  <1>1. PICK S : s \in Seq(S)
    BY DEF Stack
  <1>2. s \in Seq(S \cup {level}) /\ t \in Seq(S \cup {level})
    BY <1>1
  <1>3. /\ Len(s) \in Nat /\ Len(s) >= 1 /\ Len(t) = Len(s) + 1
        /\ t[Len(t)] = level /\ \A i \in 1..Len(s) : t[i] = s[i]
    BY <1>2 DEF Stack
  <1> HIDE DEF t
  <1>4. Last(t) = level /\ Last(s) = s[Len(s)]
    BY <1>3 DEF Last
  <1>5. \A i \in 1..Len(t) : IsLevel(t[i])
    <2>1. \A i \in 1..Len(s) : IsLevel(s[i])
      BY DEF Stack
    <2>2. QED
      BY <1>3, <2>1
  <1>6. \A i \in 1..Len(t) - 1 : t[i].status \notin Apart
    <2>1. \A i \in 1..Len(s) - 1 : s[i].status \notin Apart
      BY DEF Stack
    <2>2. s[Len(s)].status \notin Apart
      BY <1>4
    <2>3. QED
      BY <1>3, <2>1, <2>2
  <1>7. t[1] = s[1]
    BY <1>3
  <1>8. Stack(t)
    <2>1. s[1].spaces = -1 /\ s[1].status \in {"header", "doc", "map"}
      BY DEF Stack
    <2>2. Len(t) >= 1 /\ \E T : t \in Seq(T)
      BY <1>2, <1>3 DEF t
    <2>3. QED
      BY <1>5, <1>6, <1>7, <2>1, <2>2 DEF Stack
  <1>9. ASSUME Deepens(s), level.status \in Apart \/ level.spaces > Last(s).spaces
        PROVE  Deepens(t)
    <2> SUFFICES ASSUME NEW i \in 2..Len(t), t[i].status \notin Apart
                 PROVE  t[i].spaces > t[i - 1].spaces
      BY DEF Deepens
    <2>1. CASE i = Len(t)
      <3>1. t[i] = level /\ t[i - 1] = s[Len(s)]
        BY <1>3, <2>1
      <3>2. QED
        BY <1>4, <1>9, <3>1
    <2>2. CASE i # Len(t)
      <3>1. i \in 2..Len(s) /\ t[i] = s[i] /\ t[i - 1] = s[i - 1]
        BY <1>3, <2>2
      <3>2. QED
        BY <1>9, <3>1 DEF Deepens
    <2>3. QED
      BY <2>1, <2>2
  <1>10. QED
    BY <1>3, <1>4, <1>8, <1>9 DEF t

\* A level less.
LEMMA Popped ==
  ASSUME NEW s, Stack(s), Len(s) # 1
  PROVE  LET t == Front(s) IN
         /\ Stack(t) /\ Len(t) = Len(s) - 1 /\ Last(t).status \notin Apart
         /\ Deepens(s) => Deepens(t)
  <1> DEFINE t == Front(s)
  <1>1. PICK S : s \in Seq(S)
    BY DEF Stack
  <1>2. Len(s) \in Nat /\ Len(s) > 1
    <2>1. Len(s) \in Nat /\ Len(s) >= 1
      BY <1>1 DEF Stack
    <2>2. QED
      BY <2>1
  <1>3. \A i \in 1..Len(s) : s[i] \in S
    BY <1>1
  <1>4. t \in Seq(S) /\ Len(t) = Len(s) - 1 /\ \A i \in 1..Len(s) - 1 : t[i] = s[i]
    <2>1. t = [i \in 1..Len(s) - 1 |-> s[i]]
      BY DEF Front
    <2>2. QED
      BY <1>2, <1>3, <2>1
  <1> HIDE DEF t
  <1>5. Stack(t)
    <2>1. /\ s[1].spaces = -1 /\ s[1].status \in {"header", "doc", "map"}
          /\ \A i \in 1..Len(s) : IsLevel(s[i])
          /\ \A i \in 1..Len(s) - 1 : s[i].status \notin Apart
      BY DEF Stack
    <2>2. t[1] = s[1] /\ Len(t) >= 1
      BY <1>2, <1>4
    <2>3. \A i \in 1..Len(t) : IsLevel(t[i])
      BY <1>2, <1>4, <2>1
    <2>4. \A i \in 1..Len(t) - 1 : t[i].status \notin Apart
      BY <1>2, <1>4, <2>1
    <2>5. QED
      BY <1>4, <2>1, <2>2, <2>3, <2>4 DEF Stack
  <1>6. Last(t).status \notin Apart
    <2>1. Last(t) = s[Len(s) - 1] /\ Len(s) - 1 \in 1..Len(s) - 1
      BY <1>2, <1>4 DEF Last
    <2>2. QED
      BY <2>1 DEF Stack
  <1>7. ASSUME Deepens(s) PROVE Deepens(t)
    <2> SUFFICES ASSUME NEW i \in 2..Len(t), t[i].status \notin Apart
                 PROVE  t[i].spaces > t[i - 1].spaces
      BY DEF Deepens
    <2>1. i \in 2..Len(s) /\ t[i] = s[i] /\ t[i - 1] = s[i - 1]
      BY <1>2, <1>4
    <2>2. QED
      BY <1>7, <2>1 DEF Deepens
  <1>8. QED
    BY <1>4, <1>5, <1>6, <1>7 DEF t

\* What is changed of a level of a node leaves the stack as it is.
LEMMA Changed ==
  ASSUME NEW s, Stack(s), NEW level, IsLevel(level), level.spaces = Last(s).spaces,
         level.status = Last(s).status
           \/ (Last(s).status \notin Apart /\ level.status \in {"doc", "map"})
  PROVE  SameStack(s, [s EXCEPT ![Len(s)] = level])
  <1> DEFINE t == [s EXCEPT ![Len(s)] = level]
  <1>1. PICK S : s \in Seq(S)
    BY DEF Stack
  <1>2. s \in Seq(S \cup {level}) /\ Len(s) \in Nat /\ Len(s) >= 1 /\ Len(s) \in 1..Len(s)
    BY <1>1 DEF Stack
  <1>3. t \in Seq(S \cup {level}) /\ Len(t) = Len(s)
    BY <1>2
  <1>4. t[Len(s)] = level /\ \A i \in 1..Len(s) : i # Len(s) => t[i] = s[i]
    BY <1>2
  <1> HIDE DEF t
  <1>5. Last(t) = level /\ Last(s) = s[Len(s)]
    BY <1>3, <1>4 DEF Last
  <1>6. \A i \in 1..Len(s) : t[i].spaces = s[i].spaces
    BY <1>4, <1>5
  <1>7. \A i \in 1..Len(s) : t[i].status \in Apart <=> s[i].status \in Apart
    BY <1>4, <1>5 DEF Apart
  <1>8. Stack(t)
    <2>1. /\ s[1].spaces = -1 /\ s[1].status \in {"header", "doc", "map"}
          /\ \A i \in 1..Len(s) : IsLevel(s[i])
          /\ \A i \in 1..Len(s) - 1 : s[i].status \notin Apart
      BY DEF Stack
    <2>2. t[1].spaces = -1 /\ t[1].status \in {"header", "doc", "map"}
      <3>1. CASE Len(s) = 1
        <4>1. t[1] = level /\ Last(s) = s[1]
          BY <1>4, <1>5, <3>1
        <4>2. QED
          BY <2>1, <4>1 DEF Apart
      <3>2. CASE Len(s) # 1
        <4>1. 1 \in 1..Len(s)
          BY <1>2
        <4>2. t[1] = s[1]
          BY <1>4, <3>2, <4>1
        <4>3. QED
          BY <2>1, <4>2
      <3>3. QED
        BY <3>1, <3>2
    <2>3. \A i \in 1..Len(t) : IsLevel(t[i])
      BY <1>3, <1>4, <2>1
    <2>4. \A i \in 1..Len(t) - 1 : t[i].status \notin Apart
      BY <1>2, <1>3, <1>7, <2>1
    <2>5. QED
      BY <1>2, <1>3, <2>2, <2>3, <2>4 DEF Stack
  <1>9. ASSUME Deepens(s) PROVE Deepens(t)
    <2> SUFFICES ASSUME NEW i \in 2..Len(s), t[i].status \notin Apart
                 PROVE  t[i].spaces > t[i - 1].spaces
      BY <1>3 DEF Deepens
    <2>1. i \in 1..Len(s) /\ i - 1 \in 1..Len(s)
      BY <1>2
    <2>2. s[i].spaces > s[i - 1].spaces
      BY <1>7, <1>9, <2>1 DEF Deepens
    <2>3. QED
      BY <1>6, <2>1, <2>2
  <1>10. QED
    BY <1>3, <1>5, <1>8, <1>9 DEF SameStack, t, Apart
(***************************************************************************)
(* Moves and labels.                                                       *)
(***************************************************************************)
LEMMA Seen ==
  ASSUME NEW l, Buffered(l), NEW i \in Nat, Peek(l, i) # NUL
  PROVE  i <= l.limit /\ i <= Len(l.src) /\ Peek(l, i) = At(l.src, i)
  <1>1. l.limit \in Nat /\ l.limit <= Len(l.src) /\ Len(l.src) \in Nat
    BY TextFacts DEF Buffered
  <1>2. i <= l.limit /\ Peek(l, i) = At(l.src, i)
    BY <1>1 DEF Peek
  <1>3. QED
    BY <1>1, <1>2

\* The cursor goes on over what the buffer holds.
LEMMA ForwardFacts ==
  ASSUME NEW l, Buffered(l), NEW n \in Nat, l.cur + n <= l.limit + 1
  PROVE  LET f == Forward(l, n) IN
         /\ Moved(l, f) /\ Buffered(f) /\ f.cur = l.cur + n /\ f.token = l.token
         /\ f.limit = l.limit
  <1>1. l.cur + n \in Nat /\ l.token <= l.cur + n
    BY DEF Buffered
  <1>2. QED
    BY <1>1, AtCursor DEF Forward

\* A rule starts where the cursor is.
LEMMA MarkFacts ==
  ASSUME NEW l, Buffered(l), NEW n \in Nat
  PROVE  LET f == Mark(l, n) IN
         /\ Moved(l, f) /\ Buffered(f) /\ f.cur = l.cur /\ f.token = l.cur /\ f.limit >= l.limit
  <1> DEFINE m == [l EXCEPT !.token = l.cur]
  <1>1. Moved(l, m) /\ m.cur = l.cur /\ m.token = l.cur /\ m.limit = l.limit /\ m.base = l.base
    BY DEF Buffered, LexFields, Moved
  <1> HIDE DEF m
  <1>2. Buffered(m)
    BY <1>1 DEF Buffered, Moved
  <1>3. Mark(l, n) = Need(m, n)
    BY DEF Mark, m
  <1> DEFINE f == Need(m, n)
  <1>4. Moved(m, f) /\ Buffered(f) /\ f.cur = m.cur /\ f.token = m.token /\ f.limit >= m.limit
    BY <1>2, NeedFacts
  <1> HIDE DEF f
  <1>5. Moved(l, f)
    BY <1>1, <1>4 DEF Moved
  <1>6. QED
    BY <1>1, <1>3, <1>4, <1>5 DEF f

\* Asking for more does not change what is seen.
LEMMA StillSeen ==
  ASSUME NEW l, Buffered(l), NEW f, Buffered(f), f.src = l.src, f.limit >= l.limit,
         NEW i \in Nat, Peek(l, i) # NUL
  PROVE  Peek(f, i) = Peek(l, i)
  <1>1. l.limit \in Nat /\ f.limit \in Nat
    BY DEF Buffered
  <1>2. i <= l.limit /\ Peek(l, i) = At(l.src, i)
    BY <1>1 DEF Peek
  <1>3. QED
    BY <1>1, <1>2 DEF Peek

\* g is l, elsewhere: what the text and the levels say is kept.
Carried(l, g) ==
    /\ g.src = l.src /\ g.line = l.line /\ g.force = l.force /\ g.quirks = l.quirks
    /\ SameStack(l.levels, g.levels)

Labelled(l, g, section) ==
    Buffered(g) /\ Carried(l, g) /\ g.cur = l.cur /\ g.section = section

\* What the labels of the scanner change.
LEMMA LabelFacts ==
  ASSUME NEW l, Buffered(l), Stack(l.levels)
  PROVE  /\ Labelled(l, ToHeader(l), "header") /\ ToHeader(l).token = l.cur
         /\ Labelled(l, ToDirective(l), "directive")
         /\ \A after : /\ Labelled(l, ToComment(l, after), "comment")
                       /\ ToComment(l, after).token = l.cur /\ ToComment(l, after).after = after
         /\ \A text : Labelled(l, ToPlain(l, text), "plain") /\ ToPlain(l, text).token = l.cur
         /\ \A text : Labelled(l, ToQuote(l, text), l.section) /\ ToQuote(l, text).token = l.cur
         /\ \A text : Labelled(l, ToBlock(l, text), "block") /\ ToBlock(l, text).token = l.cur
         /\ \A text : Labelled(l, ToTag(l, text), "tag")
  <1>1. SameStack(l.levels, l.levels)
    BY SameIsSame
  <1>2. ASSUME NEW f, Moved(l, f), Buffered(f), f.cur = l.cur,
               NEW g, DOMAIN g = LexFields,
               \A x \in {"src", "cur", "token", "line", "limit", "base", "force", "levels", "quirks", "doc"} : g[x] = f[x]
        PROVE  Buffered(g) /\ Carried(l, g) /\ g.cur = l.cur /\ g.token = f.token
    <2>1. /\ g.src = f.src /\ g.cur = f.cur /\ g.token = f.token /\ g.line = f.line
          /\ g.limit = f.limit /\ g.base = f.base /\ g.force = f.force /\ g.levels = f.levels
          /\ g.quirks = f.quirks /\ g.doc = f.doc
      BY <1>2
    <2>2. Buffered(g)
      BY <1>2, <2>1 DEF Buffered
    <2>3. Carried(l, g)
      BY <1>1, <1>2, <2>1 DEF Moved, Carried
    <2>4. QED
      BY <1>2, <2>1, <2>2, <2>3
  <1>3. ASSUME NEW n \in Nat
        PROVE  /\ Moved(l, Mark(l, n)) /\ Buffered(Mark(l, n)) /\ Mark(l, n).cur = l.cur
               /\ Mark(l, n).token = l.cur
    BY MarkFacts
  <1>4. ASSUME NEW n \in Nat
        PROVE  Moved(l, Need(l, n)) /\ Buffered(Need(l, n)) /\ Need(l, n).cur = l.cur
    BY NeedFacts
  <1>5. Labelled(l, ToHeader(l), "header") /\ ToHeader(l).token = l.cur
    <2> DEFINE f == Mark(l, 5)
               g == ToHeader(l)
    <2>1. Moved(l, f) /\ Buffered(f) /\ f.cur = l.cur /\ f.token = l.cur
      BY <1>3
    <2>2. g = [f EXCEPT !.section = "header"]
      BY DEF ToHeader
    <2> HIDE DEF f, g
    <2>3. /\ DOMAIN g = LexFields /\ g.section = "header"
          /\ \A x \in {"src", "cur", "token", "line", "limit", "base", "force", "levels", "quirks", "doc"} : g[x] = f[x]
      BY <2>1, <2>2 DEF Moved, LexFields
    <2>4. Buffered(g) /\ Carried(l, g) /\ g.cur = l.cur /\ g.token = f.token
      BY <1>2, <2>1, <2>3
    <2>5. QED
      BY <2>1, <2>3, <2>4 DEF Labelled, g
  <1>6. Labelled(l, ToDirective(l), "directive")
    <2> DEFINE f == Need(l, 2)
               g == ToDirective(l)
    <2>1. Moved(l, f) /\ Buffered(f) /\ f.cur = l.cur
      BY <1>4
    <2>2. g = [f EXCEPT !.section = "directive"]
      BY DEF ToDirective
    <2> HIDE DEF f, g
    <2>3. /\ DOMAIN g = LexFields /\ g.section = "directive"
          /\ \A x \in {"src", "cur", "token", "line", "limit", "base", "force", "levels", "quirks", "doc"} : g[x] = f[x]
      BY <2>1, <2>2 DEF Moved, LexFields
    <2>4. Buffered(g) /\ Carried(l, g) /\ g.cur = l.cur /\ g.token = f.token
      BY <1>2, <2>1, <2>3
    <2>5. QED
      BY <2>1, <2>3, <2>4 DEF Labelled, g
  <1>7. ASSUME NEW after
        PROVE  /\ Labelled(l, ToComment(l, after), "comment")
               /\ ToComment(l, after).token = l.cur /\ ToComment(l, after).after = after
    <2> DEFINE f == Mark(l, 2)
               g == ToComment(l, after)
    <2>1. Moved(l, f) /\ Buffered(f) /\ f.cur = l.cur /\ f.token = l.cur
      BY <1>3
    <2>2. g = [f EXCEPT !.section = "comment", !.after = after]
      BY DEF ToComment
    <2> HIDE DEF f, g
    <2>3. /\ DOMAIN g = LexFields /\ g.section = "comment" /\ g.after = after
          /\ \A x \in {"src", "cur", "token", "line", "limit", "base", "force", "levels", "quirks", "doc"} : g[x] = f[x]
      BY <2>1, <2>2 DEF Moved, LexFields
    <2>4. Buffered(g) /\ Carried(l, g) /\ g.cur = l.cur /\ g.token = f.token
      BY <1>2, <2>1, <2>3
    <2>5. QED
      BY <2>1, <2>3, <2>4 DEF Labelled, g
  <1>8. ASSUME NEW text
        PROVE  Labelled(l, ToPlain(l, text), "plain") /\ ToPlain(l, text).token = l.cur
    <2> DEFINE f == Mark(l, 3)
               g == ToPlain(l, text)
    <2>1. Moved(l, f) /\ Buffered(f) /\ f.cur = l.cur /\ f.token = l.cur
      BY <1>3
    <2>2. g = [f EXCEPT !.section = "plain", !.text = text]
      BY DEF ToPlain
    <2> HIDE DEF f, g
    <2>3. /\ DOMAIN g = LexFields /\ g.section = "plain"
          /\ \A x \in {"src", "cur", "token", "line", "limit", "base", "force", "levels", "quirks", "doc"} : g[x] = f[x]
      BY <2>1, <2>2 DEF Moved, LexFields
    <2>4. Buffered(g) /\ Carried(l, g) /\ g.cur = l.cur /\ g.token = f.token
      BY <1>2, <2>1, <2>3
    <2>5. QED
      BY <2>1, <2>3, <2>4 DEF Labelled, g
  <1>9. ASSUME NEW text
        PROVE  Labelled(l, ToQuote(l, text), l.section) /\ ToQuote(l, text).token = l.cur
    <2> DEFINE f == Mark(l, IF l.section = "1quote" THEN 2 ELSE 4)
               g == ToQuote(l, text)
    <2>0. (IF l.section = "1quote" THEN 2 ELSE 4) \in Nat
      OBVIOUS
    <2>1. Moved(l, f) /\ Buffered(f) /\ f.cur = l.cur /\ f.token = l.cur
      BY <1>3, <2>0
    <2>2. g = [f EXCEPT !.text = text]
      BY DEF ToQuote
    <2> HIDE DEF f, g
    <2>3. /\ DOMAIN g = LexFields /\ g.section = l.section
          /\ \A x \in {"src", "cur", "token", "line", "limit", "base", "force", "levels", "quirks", "doc"} : g[x] = f[x]
      BY <2>1, <2>2 DEF Moved, LexFields
    <2>4. Buffered(g) /\ Carried(l, g) /\ g.cur = l.cur /\ g.token = f.token
      BY <1>2, <2>1, <2>3
    <2>5. QED
      BY <2>1, <2>3, <2>4 DEF Labelled, g
  <1>10. ASSUME NEW text
        PROVE  Labelled(l, ToBlock(l, text), "block") /\ ToBlock(l, text).token = l.cur
    <2> DEFINE f == Mark(l, 5)
               g == ToBlock(l, text)
    <2>1. Moved(l, f) /\ Buffered(f) /\ f.cur = l.cur /\ f.token = l.cur
      BY <1>3
    <2>2. g = [f EXCEPT !.section = "block", !.text = text]
      BY DEF ToBlock
    <2> HIDE DEF f, g
    <2>3. /\ DOMAIN g = LexFields /\ g.section = "block"
          /\ \A x \in {"src", "cur", "token", "line", "limit", "base", "force", "levels", "quirks", "doc"} : g[x] = f[x]
      BY <2>1, <2>2 DEF Moved, LexFields
    <2>4. Buffered(g) /\ Carried(l, g) /\ g.cur = l.cur /\ g.token = f.token
      BY <1>2, <2>1, <2>3
    <2>5. QED
      BY <2>1, <2>3, <2>4 DEF Labelled, g
  <1>11. ASSUME NEW text
        PROVE  Labelled(l, ToTag(l, text), "tag")
    <2> DEFINE f == Need(l, 4)
               g == ToTag(l, text)
    <2>1. Moved(l, f) /\ Buffered(f) /\ f.cur = l.cur
      BY <1>4
    <2>2. g = [f EXCEPT !.section = "tag", !.text = text]
      BY DEF ToTag
    <2> HIDE DEF f, g
    <2>3. /\ DOMAIN g = LexFields /\ g.section = "tag"
          /\ \A x \in {"src", "cur", "token", "line", "limit", "base", "force", "levels", "quirks", "doc"} : g[x] = f[x]
      BY <2>1, <2>2 DEF Moved, LexFields
    <2>4. Buffered(g) /\ Carried(l, g) /\ g.cur = l.cur /\ g.token = f.token
      BY <1>2, <2>1, <2>3
    <2>5. QED
      BY <2>1, <2>3, <2>4 DEF Labelled, g
  <1>12. QED
    BY <1>5, <1>6, <1>7, <1>8, <1>9, <1>10, <1>11

\* The document's label renames the level of the header.
LEMMA DocumentLabel ==
  ASSUME NEW l, Buffered(l), Stack(l.levels)
  PROVE  Labelled(l, ToDocument(l), "document") /\ ToDocument(l).token = l.cur
  <1> DEFINE f == Mark(l, 3)
             h == IF LexLevel(f).status = "header" THEN SetStatus(f, "doc") ELSE f
             g == ToDocument(l)
  <1>1. Moved(l, f) /\ Buffered(f) /\ f.cur = l.cur /\ f.token = l.cur
    BY MarkFacts
  <1>2. g = [h EXCEPT !.section = "document"]
    BY DEF ToDocument
  <1> HIDE DEF f
  <1>3. f.levels = l.levels /\ Stack(f.levels)
    BY <1>1 DEF Moved
  <1>4. SameStack(f.levels, f.levels)
    BY <1>3, SameIsSame
  <1>5. CASE LexLevel(f).status = "header"
    <2>1. h = [f EXCEPT !.levels[Len(f.levels)].status = "doc"]
      BY <1>5 DEF SetStatus
    <2> DEFINE s == f.levels
               level == [s[Len(s)] EXCEPT !.status = "doc"]
    <2>2. IsLevel(Last(s)) /\ Last(s) = s[Len(s)] /\ Last(s).status = "header"
      BY <1>3, <1>5, StackTop DEF LexLevel
    <2>3. IsLevel(level) /\ level.spaces = Last(s).spaces /\ level.status = "doc"
      BY <2>2 DEF IsLevel, LevelFields
    <2>4. DOMAIN h = LexFields /\ h.levels = [s EXCEPT ![Len(s)] = level]
      BY <1>1, <2>1 DEF Moved, LexFields
    <2>5. \A x \in LexFields \ {"levels"} : h[x] = f[x]
      BY <1>1, <2>1 DEF Moved, LexFields
    <2> HIDE DEF level, h
    <2>6. SameStack(f.levels, h.levels)
      BY <1>3, <2>2, <2>3, <2>4, Changed DEF Apart
    <2>7. /\ DOMAIN g = LexFields /\ g.section = "document" /\ g.levels = h.levels
          /\ g.src = f.src /\ g.cur = f.cur /\ g.token = f.token /\ g.line = f.line
          /\ g.limit = f.limit /\ g.base = f.base /\ g.force = f.force /\ g.quirks = f.quirks /\ g.doc = f.doc
      BY <1>2, <2>4, <2>5 DEF LexFields
    <2> HIDE DEF g
    <2>8. Buffered(g)
      BY <1>1, <2>7 DEF Buffered
    <2>9. Carried(l, g)
      BY <1>1, <2>6, <2>7 DEF Carried, Moved
    <2>10. QED
      BY <1>1, <2>7, <2>8, <2>9 DEF Labelled, g
  <1>6. CASE LexLevel(f).status # "header"
    <2>1. g = [f EXCEPT !.section = "document"]
      BY <1>2, <1>6
    <2>2. /\ DOMAIN g = LexFields /\ g.section = "document" /\ g.levels = f.levels
          /\ g.src = f.src /\ g.cur = f.cur /\ g.token = f.token /\ g.line = f.line
          /\ g.limit = f.limit /\ g.base = f.base /\ g.force = f.force /\ g.quirks = f.quirks /\ g.doc = f.doc
      BY <1>1, <2>1 DEF Moved, LexFields
    <2> HIDE DEF g
    <2>3. Buffered(g)
      BY <1>1, <2>2 DEF Buffered
    <2>4. Carried(l, g)
      BY <1>1, <1>4, <2>2 DEF Carried, Moved
    <2>5. QED
      BY <1>1, <2>2, <2>3, <2>4 DEF Labelled, g
  <1>7. QED
    BY <1>5, <1>6

\* Behind a newline the line starts behind the last newline passed, and only
\* blanks are between; the indentation is as deep as those are long.
LEMMA GobbledFacts ==
  ASSUME NEW l, Buffered(l), Here(l) = "\n"
  PROVE  LET f == Gobbled(l) IN
         /\ DOMAIN f = LexFields /\ Buffered(f)
         /\ f.src = l.src /\ f.token = l.token /\ f.section = l.section /\ f.force = l.force
         /\ f.quirks = l.quirks /\ f.levels = l.levels /\ f.limit >= l.limit /\ f.block = l.block
         /\ l.cur < f.line /\ f.line <= f.cur
         /\ \A i \in l.cur..f.cur - 1 : At(l.src, i) \in {" ", "\n"}
         /\ Indent(f) = IF Here(f) = NUL THEN -1 ELSE f.cur - f.line
  <1> DEFINE s == Skip(l, {" ", "\n"})
             f == Gobbled(l)
  <1>1. /\ Moved(l, s) /\ Buffered(s) /\ s.token = l.token /\ s.cur >= l.cur /\ s.limit >= l.limit
        /\ \A i \in l.cur..s.cur - 1 : At(l.src, i) \in {" ", "\n"} \ {NUL}
        /\ s.cur > l.cur
    BY OverFacts DEF Skip, NUL
  <1>2. f = [s EXCEPT !.line = 1 + Max(Breaks(s))]
    BY DEF Gobbled
  <1> HIDE DEF s, f
  <1>3. /\ l.cur \in Nat /\ s.cur \in Nat /\ s.token \in Nat /\ s.token <= l.cur /\ l.src = s.src
        /\ l.limit \in Nat /\ s.limit \in Nat /\ s.cur <= s.limit + 1
        /\ l.cur < s.cur
    BY <1>1 DEF Buffered, Moved
  <1>4. At(l.src, l.cur) = "\n"
    <2>1. Peek(l, l.cur) # NUL /\ Peek(l, l.cur) = "\n"
      BY DEF Here, NUL
    <2>2. QED
      BY <1>3, <2>1, Seen
  <1>5. l.cur \in Breaks(s)
    <2>1. l.cur \in s.token..s.cur - 1
      BY <1>3
    <2>2. QED
      BY <1>3, <1>4, <2>1 DEF Breaks
  <1>6. Breaks(s) \in SUBSET (0..s.cur - 1) /\ s.cur - 1 \in Nat /\ Breaks(s) # {}
    <2>1. s.cur - 1 \in Nat /\ s.token..s.cur - 1 \in SUBSET (0..s.cur - 1)
      BY <1>3
    <2>2. Breaks(s) \in SUBSET (s.token..s.cur - 1)
      BY DEF Breaks
    <2>3. QED
      BY <1>5, <2>1, <2>2
  <1> DEFINE m == Max(Breaks(s))
  <1>7. m \in Breaks(s) /\ \A i \in Breaks(s) : i <= m
    BY <1>6, Greatest
  <1> HIDE DEF m
  <1>8. m \in s.token..s.cur - 1 /\ l.cur <= m
    BY <1>5, <1>7 DEF Breaks
  <1>9. /\ DOMAIN f = LexFields /\ f.line = 1 + m
        /\ \A x \in LexFields \ {"line"} : f[x] = s[x]
    BY <1>1, <1>2 DEF Moved, LexFields, m
  <1>10. /\ f.src = s.src /\ f.token = s.token /\ f.cur = s.cur /\ f.limit = s.limit /\ f.base = s.base
         /\ f.section = s.section /\ f.force = s.force /\ f.quirks = s.quirks /\ f.levels = s.levels
         /\ f.block = s.block /\ f.doc = s.doc
    BY <1>9 DEF LexFields
  <1>11. f.line \in Nat /\ l.cur < f.line /\ f.line <= f.cur
    BY <1>3, <1>8, <1>9, <1>10
  <1>12. Buffered(f)
    BY <1>1, <1>9, <1>10, <1>11 DEF Buffered
  <1>13. \A i \in f.line..f.cur - 1 : At(l.src, i) = " "
    <2> SUFFICES ASSUME NEW i \in f.line..f.cur - 1 PROVE At(l.src, i) = " "
      OBVIOUS
    <2>1. i \in l.cur..s.cur - 1 /\ i \in s.token..s.cur - 1 /\ i > m
      BY <1>3, <1>8, <1>9, <1>10, <1>11
    <2>2. i \notin Breaks(s)
      BY <1>7, <1>8, <2>1
    <2>3. At(l.src, i) # "\n"
      BY <1>3, <2>1, <2>2 DEF Breaks
    <2>4. QED
      BY <1>1, <2>1, <2>3
  <1>14. Indent(f) = IF Here(f) = NUL THEN -1 ELSE f.cur - f.line
    <2>1. CASE f.line = f.cur
      <3>1. f.cur - f.line = 0
        BY <1>3, <1>10, <2>1
      <3>2. QED
        BY <3>1 DEF Indent
    <2>2. CASE f.line # f.cur
      <3>1. f.line \in f.line..f.cur - 1 /\ f.line <= f.limit
        BY <1>3, <1>10, <1>11, <2>2
      <3>2. Peek(f, f.line) = " "
        <4>1. At(l.src, f.line) = " "
          BY <1>13, <3>1
        <4>2. f.limit \in Nat /\ f.line \in Nat /\ ~(f.line > f.limit) /\ f.src = l.src
          BY <1>3, <1>10, <1>11, <3>1
        <4>3. QED
          BY <4>1, <4>2 DEF Peek
      <3>3. QED
        BY <3>2 DEF Indent
    <2>3. QED
      BY <2>1, <2>2
  <1>15. QED
    <2>1. /\ f.src = l.src /\ f.token = l.token /\ f.section = l.section /\ f.force = l.force
          /\ f.quirks = l.quirks /\ f.levels = l.levels /\ f.limit >= l.limit /\ f.block = l.block
      BY <1>1, <1>10 DEF Moved
    <2>2. \A i \in l.cur..f.cur - 1 : At(l.src, i) \in {" ", "\n"}
      BY <1>1, <1>10
    <2>3. QED
      BY <1>9, <1>11, <1>12, <1>14, <2>1, <2>2 DEF f

\* f is l but for its levels.
Beside(l, f) ==
    /\ DOMAIN f = LexFields
    /\ f.src = l.src /\ f.cur = l.cur /\ f.token = l.token /\ f.line = l.line
    /\ f.limit = l.limit /\ f.base = l.base /\ f.force = l.force /\ f.section = l.section
    /\ f.quirks = l.quirks /\ f.block = l.block /\ f.out = l.out /\ f.after = l.after
    /\ f.doc = l.doc

\* The levels are beside the buffer.
LEMMA BesideIsBuffered ==
  ASSUME NEW l, Buffered(l), NEW f, Beside(l, f)
  PROVE  Buffered(f)
  BY DEF Buffered, Beside

\* syck_parser_add_level, at a column of the text.
LEMMA AddFacts ==
  ASSUME NEW l, Buffered(l), Stack(l.levels), LexLevel(l).status \notin Apart,
         NEW spaces \in Int, spaces >= -1, NEW status, status # "open",
         status = "block" => spaces >= 0
  PROVE  LET f == AddLexLevel(l, spaces, status) IN
         /\ Beside(l, f) /\ Buffered(f) /\ Stack(f.levels) /\ Len(f.levels) = Len(l.levels) + 1
         /\ LexLevel(f).status = status /\ LexLevel(f).spaces = spaces
         /\ Deepens(l.levels) /\ (status \in Apart \/ spaces > LexLevel(l).spaces) => Deepens(f.levels)
  <1> DEFINE level == [spaces |-> spaces, status |-> status, ncount |-> 0, domain |-> LexLevel(l).domain]
             f == AddLexLevel(l, spaces, status)
  <1>1. IsLevel(level) /\ level.status = status /\ level.spaces = spaces
    BY DEF IsLevel, LevelFields
  <1>2. Beside(l, f) /\ f.levels = Append(l.levels, level)
    BY DEF Buffered, LexFields, Beside, AddLexLevel
  <1>3. Buffered(f)
    BY <1>2, BesideIsBuffered
  <1> HIDE DEF level, f
  <1>4. /\ Stack(f.levels) /\ Len(f.levels) = Len(l.levels) + 1 /\ Last(f.levels) = level
        /\ Deepens(l.levels) /\ (level.status \in Apart \/ level.spaces > Last(l.levels).spaces)
             => Deepens(f.levels)
    BY <1>1, <1>2, Pushed DEF LexLevel
  <1>5. QED
    BY <1>1, <1>2, <1>3, <1>4 DEF LexLevel, f

\* syck_parser_pop_level keeps the outermost level.
LEMMA PopFacts ==
  ASSUME NEW l, Buffered(l), Stack(l.levels)
  PROVE  LET f == PopLexLevel(l) IN
         /\ Beside(l, f) /\ Buffered(f) /\ Stack(f.levels)
         /\ Deepens(l.levels) => Deepens(f.levels)
         /\ Len(l.levels) # 1 => Len(f.levels) = Len(l.levels) - 1 /\ LexLevel(f).status \notin Apart
         /\ Len(l.levels) = 1 => f = l
  <1> DEFINE f == PopLexLevel(l)
  <1>1. CASE Len(l.levels) = 1
    <2>1. f = l
      BY <1>1 DEF PopLexLevel
    <2>2. QED
      BY <1>1, <2>1 DEF Beside, Buffered
  <1>2. CASE Len(l.levels) # 1
    <2>1. Beside(l, f) /\ f.levels = Front(l.levels)
      BY <1>2 DEF Buffered, LexFields, Beside, PopLexLevel
    <2>2. Buffered(f)
      BY <2>1, BesideIsBuffered
    <2> HIDE DEF f
    <2>3. /\ Stack(f.levels) /\ Len(f.levels) = Len(l.levels) - 1 /\ Last(f.levels).status \notin Apart
          /\ Deepens(l.levels) => Deepens(f.levels)
      BY <1>2, <2>1, Popped
    <2>4. QED
      BY <1>2, <2>1, <2>2, <2>3 DEF LexLevel, f
  <1>3. QED
    BY <1>1, <1>2

\* The outermost level is the only one at -1 below another, and no scalar's.
LEMMA Outermost ==
  ASSUME NEW l, Stack(l.levels)
  PROVE  /\ Len(l.levels) \in Nat /\ Len(l.levels) >= 1
         /\ LexLevel(l).spaces \in Int /\ LexLevel(l).spaces >= -1 /\ LexLevel(l).status # "open"
         /\ LexLevel(l).status = "block" => LexLevel(l).spaces >= 0
         /\ Len(l.levels) = 1 =>
              LexLevel(l).spaces = -1 /\ LexLevel(l).status \in {"header", "doc", "map"}
  <1>1. /\ Len(l.levels) \in Nat /\ Len(l.levels) >= 1 /\ Last(l.levels) = l.levels[Len(l.levels)]
        /\ IsLevel(Last(l.levels))
    BY StackTop
  <1>2. l.levels[1].spaces = -1 /\ l.levels[1].status \in {"header", "doc", "map"}
    BY DEF Stack
  <1>3. QED
    BY <1>1, <1>2 DEF IsLevel, LexLevel

(***************************************************************************)
(* The invariant.                                                          *)
(***************************************************************************)
\* Behind the cursor and before the line there is nothing but blanks and line
\* ends: a token that is not content leaves the cursor before them.
Ahead(l) == \A i \in l.cur..l.line - 1 : At(l.src, i) \in {" ", "\t", "\n"}

Levelled(l) == Stack(l.levels) /\ ("left" \notin l.quirks => Deepens(l.levels))

Extra(l) == IF LexLevel(l).status \in Apart THEN 1 ELSE 0
Due(l) == Change(l.force) + IF l.section = "done" THEN Change(l.out.type) ELSE 0
Balanced(l, o) ==
    "cut" \notin l.quirks =>
      \/ Len(l.levels) - 1 - Extra(l) = o + Due(l)
      \/ l.section = "done" /\ l.out.type \in Closers /\ o = 0

Forcing(l) ==
    /\ l.force \in {"none", "IOPEN"}
    /\ l.force # "none" => l.section \in {"entry", "done"}

\* What holds at each label.
Fresh == {"header", "document", "1quote", "2quote", "block", "comment"}
Placed(l) ==
    /\ l.section \in Fresh => l.token = l.cur
    /\ LexLevel(l).status = "str" => l.section \in {"1quote", "2quote", "lost"}
    /\ LexLevel(l).status = "block" => l.section = "block"
    /\ l.section = "block" /\ LexLevel(l).status # "block" => l.line < l.cur
    /\ l.section = "comment" /\ l.after = "block" => l.line < l.cur
    /\ l.section = "plain" => \A i \in l.token..l.cur - 1 : At(l.src, i) \in {" ", "\t"}

TokInv(l, o) ==
    /\ Buffered(l) /\ Ahead(l) /\ Levelled(l) /\ Forcing(l) /\ Placed(l)
    /\ o \in Nat /\ Balanced(l, o)

\* How each type of token changes what is open.
LEMMA Changing ==
  /\ \A type : Change(type) \in {-1, 0, 1}
  /\ Change("none") = 0 /\ Change("IOPEN") = 1 /\ Change("[") = 1 /\ Change("{") = 1
  /\ Change("IEND") = -1 /\ Change("]") = -1 /\ Change("}") = -1
  /\ \A type : type \notin Closers \cup {"IOPEN", "[", "{"} => Change(type) = 0
  BY DEF Change, Closers

\* A call under way.
LEMMA InCall ==
  ASSUME NEW l, NEW o, TokInv(l, o), l.section \notin {"entry", "done"}
  PROVE  /\ Buffered(l) /\ Ahead(l) /\ Levelled(l) /\ Stack(l.levels) /\ l.force = "none" /\ o \in Nat
         /\ l.cur \in Nat /\ l.token \in Nat /\ l.line \in Nat /\ l.limit \in Nat
         /\ l.token <= l.cur /\ l.cur <= l.limit + 1
         /\ l.section \in Fresh => l.token = l.cur
         /\ l.section \notin {"1quote", "2quote", "block", "lost"} => LexLevel(l).status \notin Apart
         /\ "cut" \notin l.quirks => Len(l.levels) - 1 - Extra(l) = o
  <1>1. Buffered(l) /\ Ahead(l) /\ Levelled(l) /\ Forcing(l) /\ Placed(l) /\ o \in Nat /\ Balanced(l, o)
    BY DEF TokInv
  <1>2. l.force = "none"
    BY <1>1 DEF Forcing
  <1>3. Due(l) = 0
    <2>1. Change(l.force) = 0
      BY <1>2, Changing
    <2>2. QED
      BY <2>1 DEF Due
  <1>4. "cut" \notin l.quirks => Len(l.levels) - 1 - Extra(l) = o
    BY <1>1, <1>3 DEF Balanced
  <1>5. /\ l.section \in Fresh => l.token = l.cur
        /\ l.section \notin {"1quote", "2quote", "block", "lost"} => LexLevel(l).status \notin Apart
    BY <1>1 DEF Placed, Apart
  <1>6. QED
    BY <1>1, <1>2, <1>4, <1>5 DEF Buffered, Levelled

\* A step inside a call that leaves the levels as they are.
LEMMA Goes ==
  ASSUME NEW l, NEW o, TokInv(l, o), l.section # "done", l.force = "none",
         NEW g, Buffered(g), g.section # "done", g.src = l.src, g.force = l.force,
         g.quirks = l.quirks, SameStack(l.levels, g.levels),
         g.line <= g.cur \/ (g.line = l.line /\ g.cur >= l.cur), Placed(g)
  PROVE  TokInv(g, o)
  <1>1. Buffered(l) /\ Ahead(l) /\ Levelled(l) /\ o \in Nat /\ Balanced(l, o)
    BY DEF TokInv
  <1>2. Levelled(g)
    BY <1>1 DEF Levelled, SameStack
  <1>3. Ahead(g)
    <2>1. l.cur \in Nat /\ g.cur \in Nat /\ g.line \in Nat
      BY <1>1 DEF Buffered
    <2> SUFFICES ASSUME NEW i \in g.cur..g.line - 1
                 PROVE  At(g.src, i) \in {" ", "\t", "\n"}
      BY DEF Ahead
    <2>2. ~(g.line <= g.cur)
      BY <2>1
    <2>3. i \in l.cur..l.line - 1
      BY <2>1, <2>2
    <2>4. QED
      BY <1>1, <2>3 DEF Ahead
  <1>4. Extra(g) = Extra(l) /\ Len(g.levels) = Len(l.levels)
    <2>1. LexLevel(g).status \in Apart <=> LexLevel(l).status \in Apart
      BY DEF LexLevel, SameStack
    <2>2. Len(g.levels) = Len(l.levels)
      BY DEF SameStack
    <2>3. QED
      BY <2>1, <2>2 DEF Extra
  <1>5. Due(l) = 0 /\ Due(g) = 0
    <2>1. Change(l.force) = 0
      BY Changing
    <2>2. QED
      BY <2>1 DEF Due
  <1>6. Balanced(g, o)
    BY <1>1, <1>4, <1>5 DEF Balanced
  <1>7. QED
    BY <1>1, <1>2, <1>3, <1>6 DEF TokInv, Forcing

\* The same, where no scalar has a level.
LEMMA GoesOn ==
  ASSUME NEW l, NEW o, TokInv(l, o),
         l.section \notin {"1quote", "2quote", "block", "lost", "done"}, l.force = "none",
         NEW g, Buffered(g), g.section # "done", Carried(l, g), g.cur >= l.cur,
         g.section \in Fresh => g.token = g.cur,
         g.section = "block" \/ (g.section = "comment" /\ g.after = "block") => g.line < g.cur,
         g.section = "plain" => \A i \in g.token..g.cur - 1 : At(g.src, i) \in {" ", "\t"}
  PROVE  TokInv(g, o)
  <1>1. LexLevel(l).status \notin Apart
    BY DEF TokInv, Placed, Apart
  <1>2. LexLevel(g).status \notin Apart
    BY <1>1 DEF LexLevel, Carried, SameStack
  <1>3. Placed(g)
    BY <1>2 DEF Placed, Apart
  <1>4. QED
    BY <1>3, Goes DEF Carried

\* A step that returns a token.
LEMMA Returned ==
  ASSUME NEW f, NEW o \in Nat, Buffered(f), Ahead(f), Levelled(f), LexLevel(f).status \notin Apart,
         f.force \in {"none", "IOPEN"}, NEW token,
         "cut" \notin f.quirks =>
           \/ Len(f.levels) - 1 = o + Change(f.force) + Change(token.type)
           \/ token.type \in Closers /\ o = 0
  PROVE  TokInv([f EXCEPT !.section = "done", !.out = token], o)
  <1> DEFINE g == [f EXCEPT !.section = "done", !.out = token]
  <1>1. /\ DOMAIN g = LexFields /\ g.section = "done" /\ g.out = token
        /\ \A x \in LexFields \ {"section", "out"} : g[x] = f[x]
    BY DEF Buffered, LexFields
  <1> HIDE DEF g
  <1>2. /\ g.src = f.src /\ g.cur = f.cur /\ g.token = f.token /\ g.line = f.line
        /\ g.limit = f.limit /\ g.base = f.base /\ g.force = f.force /\ g.quirks = f.quirks /\ g.doc = f.doc
        /\ g.levels = f.levels
    BY <1>1 DEF LexFields
  <1>3. Buffered(g) /\ Ahead(g) /\ Levelled(g) /\ Forcing(g)
    BY <1>1, <1>2 DEF Buffered, Ahead, Levelled, Forcing
  <1>4. LexLevel(g) = LexLevel(f)
    BY <1>2 DEF LexLevel
  <1>5. Placed(g)
    BY <1>1, <1>4 DEF Placed, Fresh, Apart
  <1>6. Balanced(g, o)
    <2>1. Extra(g) = 0 /\ Due(g) = Change(f.force) + Change(token.type)
      BY <1>1, <1>2, <1>4 DEF Extra, Due
    <2>2. /\ Len(f.levels) \in Nat /\ Change(f.force) \in Int /\ Change(token.type) \in Int
      <3>1. Len(f.levels) \in Nat
        BY StackTop DEF Levelled
      <3>2. Change(f.force) \in {-1, 0, 1} /\ Change(token.type) \in {-1, 0, 1}
        BY Changing
      <3>3. QED
        BY <3>1, <3>2
    <2> HIDE DEF g
    <2>3. Len(g.levels) - 1 - Extra(g) = Len(f.levels) - 1
      BY <1>2, <2>1, <2>2
    <2>4. o + Due(g) = o + Change(f.force) + Change(token.type)
      BY <2>1, <2>2
    <2>5. QED
      BY <1>1, <1>2, <2>3, <2>4 DEF Balanced
  <1>7. QED
    BY <1>3, <1>5, <1>6 DEF TokInv, g

\* A token that says nothing of the levels.
LEMMA ReturnedHere ==
  ASSUME NEW l, NEW o, TokInv(l, o), l.section \notin {"entry", "done", "1quote", "2quote", "block", "lost"},
         NEW f, Buffered(f), f.force = l.force, f.quirks = l.quirks, SameStack(l.levels, f.levels),
         Ahead(f), NEW token, Change(token.type) = 0
  PROVE  TokInv([f EXCEPT !.section = "done", !.out = token], o)
  <1>1. /\ l.force = "none" /\ o \in Nat /\ LexLevel(l).status \notin Apart /\ Levelled(l)
        /\ "cut" \notin l.quirks => Len(l.levels) - 1 - Extra(l) = o
    BY InCall
  <1>2. Levelled(f) /\ LexLevel(f).status \notin Apart /\ Len(f.levels) = Len(l.levels)
    BY <1>1 DEF Levelled, SameStack, LexLevel
  <1>3. Extra(l) = 0 /\ Len(l.levels) \in Nat
    <2>1. Len(l.levels) \in Nat
      BY <1>1, StackTop DEF Levelled
    <2>2. QED
      BY <1>1, <2>1 DEF Extra
  <1>4. "cut" \notin f.quirks => Len(f.levels) - 1 = o + Change(f.force) + Change(token.type)
    <2>1. Change(f.force) = 0
      BY <1>1, Changing
    <2>2. o \in Nat /\ Len(l.levels) \in Nat /\ Extra(l) = 0
      BY <1>1, <1>3
    <2>3. "cut" \notin f.quirks => Len(l.levels) - 1 - Extra(l) = o
      BY <1>1
    <2>4. QED
      BY <1>2, <2>1, <2>2, <2>3
  <1>5. QED
    BY <1>1, <1>2, <1>4, Returned

(***************************************************************************)
(* Steps.                                                                  *)
(***************************************************************************)
\* f is l further on in the text.
Onto(l, f) ==
    /\ Buffered(f) /\ f.src = l.src /\ f.force = l.force /\ f.quirks = l.quirks
    /\ f.levels = l.levels /\ f.cur >= l.cur /\ (f.line = l.line \/ f.line <= f.cur)

\* The cursor moved on.
LEMMA MovedOnto ==
  ASSUME NEW l, NEW f, Moved(l, f), Buffered(f), f.cur >= l.cur
  PROVE  Onto(l, f)
  BY DEF Moved, Onto

\* Each label, from where no scalar has a level.
LEMMA Jumps ==
  ASSUME NEW l, NEW o, TokInv(l, o), l.force = "none",
         l.section \notin {"1quote", "2quote", "block", "lost", "done"}, NEW f, Onto(l, f)
  PROVE  /\ TokInv(ToHeader(f), o) /\ TokInv(ToDocument(f), o) /\ TokInv(ToDirective(f), o)
         /\ \A text : /\ TokInv(ToPlain(f, text), o) /\ TokInv(ToTag(f, text), o)
                      /\ f.section \in {"1quote", "2quote"} => TokInv(ToQuote(f, text), o)
                      /\ f.line < f.cur => TokInv(ToBlock(f, text), o)
         /\ \A after : (after = "block" => f.line < f.cur) => TokInv(ToComment(f, after), o)
  <1>1. LexLevel(l).status \notin Apart /\ Stack(l.levels)
    BY DEF TokInv, Placed, Apart, Levelled
  <1>2. Buffered(f) /\ f.levels = l.levels /\ f.cur \in Nat /\ f.line \in Nat /\ Stack(f.levels)
    BY <1>1 DEF Onto, Buffered
  <1>3. ASSUME NEW g, NEW section, Labelled(f, g, section), section # "done",
               section \in Fresh => g.token = f.cur,
               section = "block" \/ (section = "comment" /\ g.after = "block") => f.line < f.cur,
               section = "plain" => g.token = f.cur
        PROVE  TokInv(g, o)
    <2>1. /\ Buffered(g) /\ g.section = section /\ g.cur = f.cur /\ g.src = l.src /\ g.line = f.line
          /\ g.force = l.force /\ g.quirks = l.quirks /\ SameStack(l.levels, g.levels)
      BY <1>2, <1>3 DEF Labelled, Carried, Onto
    <2>2. LexLevel(g).status \notin Apart
      BY <1>1, <2>1 DEF LexLevel, SameStack
    <2>3. section = "plain" => \A i \in g.token..g.cur - 1 : At(g.src, i) \in {" ", "\t"}
      <3>1. CASE section = "plain"
        <4>1. g.token = g.cur /\ g.cur \in Nat
          BY <1>2, <1>3, <2>1, <3>1
        <4>2. \A i : i \notin g.token..g.cur - 1
          BY <4>1
        <4>3. QED
          BY <4>2
      <3>2. QED
        BY <3>1
    <2>4. Placed(g)
      BY <1>3, <2>1, <2>2, <2>3 DEF Placed, Apart
    <2>5. g.line <= g.cur \/ (g.line = l.line /\ g.cur >= l.cur)
      BY <2>1 DEF Onto
    <2>6. QED
      BY <1>3, <2>1, <2>4, <2>5, Goes
  <1>4. /\ Labelled(f, ToHeader(f), "header") /\ ToHeader(f).token = f.cur
        /\ Labelled(f, ToDirective(f), "directive")
        /\ \A after : /\ Labelled(f, ToComment(f, after), "comment")
                      /\ ToComment(f, after).token = f.cur /\ ToComment(f, after).after = after
        /\ \A text : Labelled(f, ToPlain(f, text), "plain") /\ ToPlain(f, text).token = f.cur
        /\ \A text : Labelled(f, ToQuote(f, text), f.section) /\ ToQuote(f, text).token = f.cur
        /\ \A text : Labelled(f, ToBlock(f, text), "block") /\ ToBlock(f, text).token = f.cur
        /\ \A text : Labelled(f, ToTag(f, text), "tag")
    BY <1>2, LabelFacts
  <1>5. TokInv(ToHeader(f), o)
    BY <1>3, <1>4
  <1>6. TokInv(ToDocument(f), o)
    <2>1. Labelled(f, ToDocument(f), "document") /\ ToDocument(f).token = f.cur
      BY <1>2, DocumentLabel
    <2>2. QED
      BY <1>3, <2>1
  <1>7. TokInv(ToDirective(f), o)
    BY <1>3, <1>4 DEF Fresh
  <1>8. ASSUME NEW text
        PROVE  /\ TokInv(ToPlain(f, text), o) /\ TokInv(ToTag(f, text), o)
               /\ f.section \in {"1quote", "2quote"} => TokInv(ToQuote(f, text), o)
               /\ f.line < f.cur => TokInv(ToBlock(f, text), o)
    <2>1. TokInv(ToPlain(f, text), o)
      BY <1>3, <1>4
    <2>2. TokInv(ToTag(f, text), o)
      BY <1>3, <1>4 DEF Fresh
    <2>3. f.section \in {"1quote", "2quote"} => TokInv(ToQuote(f, text), o)
      BY <1>3, <1>4
    <2>4. f.line < f.cur => TokInv(ToBlock(f, text), o)
      BY <1>3, <1>4
    <2>5. QED
      BY <2>1, <2>2, <2>3, <2>4
  <1>9. ASSUME NEW after, after = "block" => f.line < f.cur
        PROVE  TokInv(ToComment(f, after), o)
    BY <1>3, <1>4, <1>9
  <1>10. QED
    BY <1>5, <1>6, <1>7, <1>8, <1>9

\* Where a label is.
LEMMA LabelPlaces ==
  ASSUME NEW f, Buffered(f), Stack(f.levels)
  PROVE  /\ ToHeader(f).cur = f.cur /\ ToHeader(f).section = "header"
         /\ ToDocument(f).cur = f.cur /\ ToDocument(f).section = "document"
         /\ ToDirective(f).cur = f.cur /\ ToDirective(f).section = "directive"
         /\ \A text : /\ ToPlain(f, text).cur = f.cur /\ ToPlain(f, text).section = "plain"
                      /\ ToTag(f, text).cur = f.cur /\ ToTag(f, text).section = "tag"
                      /\ ToQuote(f, text).cur = f.cur /\ ToQuote(f, text).section = f.section
                      /\ ToBlock(f, text).cur = f.cur /\ ToBlock(f, text).section = "block"
         /\ \A after : ToComment(f, after).cur = f.cur /\ ToComment(f, after).section = "comment"
  BY LabelFacts, DocumentLabel DEF Labelled

\* What the invariant does not look at.
LEMMA Alike ==
  ASSUME NEW l, NEW o, TokInv(l, o), NEW g, DOMAIN g = LexFields, g.doc \in Int,
         \A x \in LexFields \ {"doc", "text", "indent", "block", "most"} : g[x] = l[x]
  PROVE  TokInv(g, o)
  <1>1. /\ g.src = l.src /\ g.cur = l.cur /\ g.token = l.token /\ g.line = l.line
        /\ g.limit = l.limit /\ g.base = l.base /\ g.force = l.force /\ g.section = l.section
        /\ g.quirks = l.quirks /\ g.out = l.out /\ g.after = l.after /\ g.levels = l.levels
    BY DEF LexFields
  <1>2. Buffered(g) /\ Ahead(g) /\ Levelled(g) /\ Forcing(g)
    BY <1>1 DEF TokInv, Buffered, Ahead, Levelled, Forcing
  <1>3. LexLevel(g) = LexLevel(l)
    BY <1>1 DEF LexLevel
  <1>4. Placed(g)
    <2>1. Placed(l)
      BY DEF TokInv
    <2>2. QED
      BY <1>1, <1>3, <2>1 DEF Placed
  <1>5. Balanced(g, o)
    <2>1. Balanced(l, o)
      BY DEF TokInv
    <2>2. Extra(g) = Extra(l) /\ Due(g) = Due(l)
      BY <1>1, <1>3 DEF Extra, Due
    <2>3. QED
      BY <1>1, <2>1, <2>2 DEF Balanced
  <1>6. o \in Nat
    BY DEF TokInv
  <1>7. QED
    BY <1>2, <1>4, <1>5, <1>6 DEF TokInv

\* A step that reads.
LEMMA Onwards ==
  ASSUME lx'.section \in {"done", "lost"} \/ lx'.cur > lx.cur
  PROVE  Reads
  BY DEF Reads

\* A character is seen: the cursor may pass it.
LEMMA Next1 ==
  ASSUME NEW l, Buffered(l), NEW n \in Nat, Peek(l, l.cur + n) # NUL
  PROVE  LET f == Forward(l, n + 1) IN
         Moved(l, f) /\ Buffered(f) /\ f.cur = l.cur + n + 1 /\ f.token = l.token /\ f.limit = l.limit
  <1>1. l.cur + n \in Nat /\ l.cur \in Nat /\ l.limit \in Nat
    BY DEF Buffered
  <1>2. l.cur + n <= l.limit
    BY <1>1, Seen
  <1>3. n + 1 \in Nat /\ l.cur + (n + 1) <= l.limit + 1 /\ l.cur + (n + 1) = l.cur + n + 1
    BY <1>1, <1>2
  <1>4. QED
    BY <1>3, ForwardFacts

\* A character of none of these: the line is not ahead.
LEMMA LineReached ==
  ASSUME NEW l, Buffered(l), Ahead(l)
  PROVE  Here(l) \notin {NUL, " ", "\t", "\n"} => l.line <= l.cur
  <1>1. l.cur \in Nat /\ l.line \in Nat
    BY DEF Buffered
  <1>2. Here(l) # NUL => At(l.src, l.cur) = Here(l)
    BY <1>1, Seen DEF Here
  <1>3. l.cur < l.line => l.cur \in l.cur..l.line - 1
    BY <1>1
  <1>4. l.cur < l.line => At(l.src, l.cur) \in {" ", "\t", "\n"}
    BY <1>3 DEF Ahead
  <1>5. l.cur < l.line \/ l.line <= l.cur
    BY <1>1
  <1>6. QED
    BY <1>2, <1>4, <1>5

\* Back to where the rule started.
LEMMA BackFacts ==
  ASSUME NEW l, Buffered(l)
  PROVE  LET f == Back(l) IN
         Moved(l, f) /\ Buffered(f) /\ f.cur = l.token /\ f.token = l.token /\ f.limit = l.limit
  <1>1. l.token \in Nat /\ l.token <= l.limit + 1
    BY DEF Buffered
  <1>2. QED
    BY <1>1, AtCursor DEF Back

\* The end of a document closes a level, or is the end of the text.
LEMMA EndsFacts ==
  ASSUME TokInv(lx, open), lx.section \in {"header", "document"}, Ends(lx)
  PROVE  TokInv(lx', open) /\ Reads
  <1>1. /\ Buffered(lx) /\ Ahead(lx) /\ Levelled(lx) /\ Stack(lx.levels) /\ lx.force = "none" /\ open \in Nat
        /\ lx.token = lx.cur /\ LexLevel(lx).status \notin Apart
        /\ "cut" \notin lx.quirks => Len(lx.levels) - 1 - Extra(lx) = open
    BY InCall DEF Fresh
  <1>2. /\ Len(lx.levels) \in Nat /\ LexLevel(lx).status # "open"
        /\ Len(lx.levels) = 1 => LexLevel(lx).spaces = -1
    BY <1>1, Outermost
  <1>3. Extra(lx) = 0
    BY <1>1 DEF Extra
  <1>4. CASE LexLevel(lx).spaces > -1
    <2> DEFINE p == PopLexLevel(lx)
               f == Back(p)
    <2>1. lx' = [f EXCEPT !.section = "done", !.out = Token("IEND")]
      BY <1>2, <1>4 DEF Ends, Returns
    <2>2. Len(lx.levels) # 1
      BY <1>2, <1>4
    <2>3. /\ Beside(lx, p) /\ Buffered(p) /\ Stack(p.levels) /\ (Deepens(lx.levels) => Deepens(p.levels))
          /\ Len(p.levels) = Len(lx.levels) - 1 /\ LexLevel(p).status \notin Apart
      BY <1>1, <2>2, PopFacts
    <2> HIDE DEF p
    <2>4. /\ DOMAIN f = LexFields /\ Buffered(f) /\ f.levels = p.levels /\ f.quirks = lx.quirks
          /\ f.cur = lx.cur /\ f.line = lx.line /\ f.src = lx.src /\ f.force = "none"
      <3>1. p.token = lx.cur /\ p.quirks = lx.quirks /\ p.line = lx.line /\ p.src = lx.src /\ p.force = "none"
        BY <1>1, <2>3 DEF Beside
      <3>2. Moved(p, f) /\ Buffered(f) /\ f.cur = p.token
        BY <2>3, BackFacts
      <3>3. QED
        BY <3>1, <3>2 DEF Moved
    <2>5. Levelled(f) /\ Ahead(f) /\ LexLevel(f).status \notin Apart
      BY <1>1, <2>3, <2>4 DEF Levelled, Ahead, LexLevel
    <2> HIDE DEF f
    <2>6. Token("IEND").type = "IEND" /\ Change("IEND") = -1 /\ Change("none") = 0
      BY Changing DEF Token, NoToken
    <2>7. "cut" \notin f.quirks => Len(f.levels) - 1 = open + Change(f.force) + Change(Token("IEND").type)
      BY <1>1, <1>2, <1>3, <2>3, <2>4, <2>6
    <2>8. TokInv(lx', open)
      BY <1>1, <2>1, <2>4, <2>5, <2>7, Returned
    <2>9. lx'.section = "done"
      BY <2>1, <2>4 DEF LexFields
    <2>10. QED
      BY <2>8, <2>9, Onwards
  <1>5. CASE ~(LexLevel(lx).spaces > -1)
    <2>1. lx' = [Back(lx) EXCEPT !.section = "done", !.out = Token("END")]
      BY <1>5 DEF Ends, Returns
    <2> DEFINE f == Back(lx)
    <2>2. Moved(lx, f) /\ Buffered(f) /\ f.cur = lx.cur
      BY <1>1, BackFacts
    <2> HIDE DEF f
    <2>8. Ahead(f)
      BY <1>1, <2>2 DEF Ahead, Moved
    <2>3. Change(Token("END").type) = 0
      BY DEF Token, NoToken, Change, Closers
    <2>4. SameStack(lx.levels, lx.levels)
      BY <1>1, SameIsSame
    <2>5. TokInv(lx', open)
      BY <2>1, <2>2, <2>3, <2>4, <2>8, ReturnedHere DEF Moved, f
    <2>6. lx'.section = "done"
      BY <2>1, <2>2 DEF Moved, LexFields, f
    <2>7. QED
      BY <2>5, <2>6, Onwards
  <1>6. QED
    BY <1>4, <1>5

\* The three characters of a separator are in the buffer, and the one behind.
LEMMA SeparatorFacts ==
  ASSUME NEW l, Buffered(l), NEW c, c # NUL, Separator(l, c)
  PROVE  /\ LET f == Forward(l, 3) IN
              Moved(l, f) /\ Buffered(f) /\ f.cur = l.cur + 3 /\ f.token = l.token /\ f.limit = l.limit
         /\ Peek(l, l.cur + 3) = "\n" =>
              LET f == Forward(l, 4) IN Moved(l, f) /\ Buffered(f) /\ f.cur = l.cur + 4
  <1>1. Peek(l, l.cur + 2) # NUL
    <2>1. \A i \in 0..2 : Peek(l, l.cur + i) = c
      BY DEF Separator
    <2>2. 2 \in 0..2
      OBVIOUS
    <2>3. Peek(l, l.cur + 2) = c
      BY <2>1, <2>2
    <2>4. QED
      BY <2>3
  <1>2. Peek(l, l.cur + 3) = "\n" => Peek(l, l.cur + 3) # NUL
    BY DEF NUL
  <1>3. LET f == Forward(l, 3) IN
          Moved(l, f) /\ Buffered(f) /\ f.cur = l.cur + 3 /\ f.token = l.token /\ f.limit = l.limit
    <2>1. 2 \in Nat /\ 2 + 1 = 3 /\ l.cur + 2 + 1 = l.cur + 3
      BY DEF Buffered
    <2>2. QED
      BY <1>1, <2>1, Next1
  <1>4. Peek(l, l.cur + 3) # NUL =>
          LET f == Forward(l, 4) IN Moved(l, f) /\ Buffered(f) /\ f.cur = l.cur + 4
    <2>1. 3 \in Nat /\ 3 + 1 = 4 /\ l.cur + 3 + 1 = l.cur + 4
      BY DEF Buffered
    <2>2. QED
      BY <2>1, Next1
  <1>5. QED
    BY <1>2, <1>3, <1>4

\* A character, seen and passed.
LEMMA One ==
  ASSUME NEW l, Buffered(l)
  PROVE  Here(l) # NUL =>
           LET f == Forward(l, 1) IN
           /\ Moved(l, f) /\ Buffered(f) /\ Onto(l, f) /\ f.cur = l.cur + 1 /\ f.cur > l.cur
           /\ f.token = l.token /\ f.limit = l.limit
  <1> SUFFICES ASSUME Peek(l, l.cur) # NUL
               PROVE  LET f == Forward(l, 1) IN
                      /\ Moved(l, f) /\ Buffered(f) /\ Onto(l, f) /\ f.cur = l.cur + 1 /\ f.cur > l.cur
                      /\ f.token = l.token /\ f.limit = l.limit
    BY DEF Here
  <1> DEFINE f == Forward(l, 1)
  <1>1. l.cur \in Nat /\ 0 \in Nat /\ 0 + 1 = 1 /\ l.cur + 0 = l.cur /\ l.cur + 0 + 1 = l.cur + 1
    BY DEF Buffered
  <1>2. Moved(l, f) /\ Buffered(f) /\ f.cur = l.cur + 1 /\ f.token = l.token /\ f.limit = l.limit
    BY <1>1, Next1
  <1>3. f.cur > l.cur /\ f.cur >= l.cur
    BY <1>1, <1>2
  <1>4. QED
    BY <1>2, <1>3, MovedOnto

\* A run of characters, the first of them seen.
LEMMA Run ==
  ASSUME NEW l, Buffered(l), NEW chars
  PROVE  LET f == Skip(l, chars) IN
         /\ Moved(l, f) /\ Buffered(f) /\ Onto(l, f) /\ f.token = l.token /\ f.cur >= l.cur
         /\ f.limit >= l.limit
         /\ \A i \in l.cur..f.cur - 1 : At(l.src, i) \in chars \ {NUL}
         /\ Here(l) \in chars \ {NUL} => f.cur > l.cur
  BY OverFacts, MovedOnto DEF Skip

\* Further on from further on.
LEMMA OntoTwice ==
  ASSUME NEW l, NEW f, NEW g, Buffered(l), Onto(l, f), Onto(f, g)
  PROVE  Onto(l, g) /\ (f.cur > l.cur => g.cur > l.cur)
  <1>1. l.cur \in Nat /\ f.cur \in Nat /\ g.cur \in Nat /\ f.line \in Nat /\ l.line \in Nat
    BY DEF Onto, Buffered
  <1>2. QED
    BY <1>1 DEF Onto

\* A step to a label.
LEMMA Headers ==
  ASSUME TokInv(lx, open), lx.section \in {"header", "directive"}, NEW f, Onto(lx, f), f.cur > lx.cur
  PROVE  /\ lx' = ToHeader(f) => TokInv(lx', open) /\ Reads
         /\ lx' = ToDirective(f) => TokInv(lx', open) /\ Reads
  <1>1. lx.force = "none" /\ Stack(lx.levels)
    BY InCall
  <1>2. TokInv(ToHeader(f), open) /\ TokInv(ToDirective(f), open)
    BY <1>1, Jumps
  <1>3. ToHeader(f).cur = f.cur /\ ToDirective(f).cur = f.cur
    BY <1>1, LabelPlaces DEF Onto
  <1>4. QED
    BY <1>2, <1>3, Onwards

\* The rules of the header and of its directives.
LEMMA HeaderStep ==
  ASSUME TokInv(lx, open), HeaderNext
  PROVE  TokInv(lx', open) /\ Reads
  <1>1. lx.section \in {"header", "directive"}
    BY DEF HeaderNext, HeaderSeparator, HeaderPoints, HeaderComment, HeaderEnd, HeaderNewline,
           HeaderSpaces, HeaderOther, DirectiveSpaces, DirectiveWord, DirectiveOther, In
  <1>2. /\ Buffered(lx) /\ Ahead(lx) /\ Levelled(lx) /\ Stack(lx.levels) /\ lx.force = "none"
        /\ open \in Nat /\ LexLevel(lx).status \notin Apart
    BY <1>1, InCall
  <1>3. SameStack(lx.levels, lx.levels)
    BY <1>2, SameIsSame
  <1>4. CASE HeaderSeparator
    <2> DEFINE f == Forward(lx, 3)
    <2>1. Separator(lx, "-") /\ lx.section = "header"
      BY <1>4 DEF HeaderSeparator, In
    <2>2. "-" # NUL
      BY DEF NUL
    <2>3. Moved(lx, f) /\ Buffered(f) /\ f.cur = lx.cur + 3
      BY <1>2, <2>1, <2>2, SeparatorFacts
    <2> HIDE DEF f
    <2>8. lx.cur \in Nat
      BY <1>2 DEF Buffered
    <2>4. f.cur > lx.cur /\ f.cur >= lx.cur
      BY <2>3, <2>8
    <2>5. Onto(lx, f)
      BY <2>3, <2>4, MovedOnto
    <2>6. lx' = ToDirective(f) \/ Ends(lx)
      BY <1>4 DEF HeaderSeparator, f
    <2>7. QED
      BY <1>1, <2>1, <2>4, <2>5, <2>6, Headers, EndsFacts
  <1>5. CASE HeaderPoints
    <2> DEFINE f == Forward(lx, 3)
               g == Forward(lx, 4)
               h == Skip(f, {" "})
    <2>1. Separator(lx, ".") /\ lx.section = "header"
      BY <1>5 DEF HeaderPoints, In
    <2>2. "." # NUL
      BY DEF NUL
    <2>3. /\ Moved(lx, f) /\ Buffered(f) /\ f.cur = lx.cur + 3
          /\ Peek(lx, lx.cur + 3) = "\n" => Moved(lx, g) /\ Buffered(g) /\ g.cur = lx.cur + 4
      BY <1>2, <2>1, <2>2, SeparatorFacts
    <2> HIDE DEF f, g
    <2>4. lx.cur \in Nat
      BY <1>2 DEF Buffered
    <2>5. f.cur > lx.cur /\ Onto(lx, f)
      <3>1. f.cur > lx.cur /\ f.cur >= lx.cur
        BY <2>3, <2>4
      <3>2. QED
        BY <2>3, <3>1, MovedOnto
    <2>6. Onto(f, h)
      BY <2>3, Run
    <2> HIDE DEF h
    <2>7. Onto(lx, h) /\ h.cur > lx.cur
      BY <1>2, <2>5, <2>6, OntoTwice
    <2>8. Peek(lx, lx.cur + 3) = "\n" => g.cur > lx.cur /\ Onto(lx, g)
      <3>1. g.cur = lx.cur + 4 => g.cur > lx.cur /\ g.cur >= lx.cur
        BY <2>4
      <3>2. QED
        BY <2>3, <3>1, MovedOnto
    <2>9. (Peek(lx, lx.cur + 3) = "\n" /\ lx' = ToHeader(g)) \/ lx' = ToHeader(h) \/ Ends(lx)
      BY <1>5 DEF HeaderPoints, f, g, h
    <2>10. QED
      BY <1>1, <2>1, <2>7, <2>8, <2>9, Headers, EndsFacts
  <1>6. CASE HeaderComment
    <2>1. Here(lx) # NUL /\ lx' = ToComment(Forward(lx, 1), "header")
      BY <1>6 DEF HeaderComment, NUL, Char
    <2> DEFINE f == Forward(lx, 1)
    <2>2. Onto(lx, f) /\ f.cur > lx.cur
      BY <1>2, <2>1, One
    <2> HIDE DEF f
    <2>3. TokInv(ToComment(f, "header"), open)
      BY <1>1, <1>2, <2>2, Jumps
    <2>4. ToComment(f, "header").cur = f.cur
      BY <1>2, <2>2, LabelPlaces DEF Onto
    <2>5. QED
      BY <2>1, <2>2, <2>3, <2>4, Onwards DEF f
  <1>7. CASE HeaderEnd
    BY <1>7, EndsFacts DEF HeaderEnd, In
  <1>8. CASE HeaderNewline
    <2> DEFINE f == Gobbled(lx)
               h == ToHeader(f)
    <2>1. Here(lx) = "\n" /\ lx' = [h EXCEPT !.doc = Indent(f)]
      BY <1>8 DEF HeaderNewline, Char
    <2>2. /\ DOMAIN f = LexFields /\ Buffered(f) /\ f.src = lx.src /\ f.force = lx.force
          /\ f.quirks = lx.quirks /\ f.levels = lx.levels
          /\ lx.cur < f.line /\ f.line <= f.cur
      BY <1>2, <2>1, GobbledFacts
    <2> HIDE DEF f
    <2>3. lx.cur \in Nat /\ f.cur \in Nat /\ f.line \in Nat
      BY <1>2, <2>2 DEF Buffered
    <2>4. f.cur > lx.cur /\ Onto(lx, f)
      BY <2>2, <2>3 DEF Onto
    <2>5. TokInv(h, open)
      BY <1>1, <1>2, <2>4, Jumps
    <2>6. h.cur = f.cur
      BY <1>2, <2>2, LabelPlaces
    <2> HIDE DEF h
    <2>7. DOMAIN h = LexFields
      BY <2>5 DEF TokInv, Buffered
    <2>8. /\ DOMAIN lx' = LexFields /\ lx'.cur = f.cur /\ lx'.doc = Indent(f)
          /\ \A x \in LexFields \ {"doc", "text", "indent", "block", "most"} : lx'[x] = h[x]
      BY <2>1, <2>6, <2>7 DEF LexFields
    <2>11. Indent(f) \in Int
      <3>1. Indent(f) = IF Here(f) = NUL THEN -1 ELSE f.cur - f.line
        BY <1>2, <2>1, GobbledFacts DEF f
      <3>2. f.cur - f.line \in Int
        BY <2>3
      <3>3. QED
        BY <3>1, <3>2
    <2>9. TokInv(lx', open)
      BY <2>5, <2>8, <2>11, Alike
    <2>10. QED
      BY <2>4, <2>8, <2>9, Onwards
  <1>9. CASE HeaderSpaces
    <2> DEFINE f == Skip(lx, HeaderBlank)
               h == ToHeader(f)
    <2>1. Here(lx) \in HeaderBlank \ {NUL} /\ lx' = [h EXCEPT !.doc = f.cur - f.line]
      BY <1>9 DEF HeaderSpaces, Char, HeaderBlank, NUL
    <2>2. Onto(lx, f) /\ f.cur > lx.cur
      BY <1>2, <2>1, Run
    <2> HIDE DEF f
    <2>3. TokInv(h, open)
      BY <1>1, <1>2, <2>2, Jumps
    <2>4. h.cur = f.cur
      BY <1>2, <2>2, LabelPlaces DEF Onto
    <2> HIDE DEF h
    <2>5. DOMAIN h = LexFields
      BY <2>3 DEF TokInv, Buffered
    <2>6. /\ DOMAIN lx' = LexFields /\ lx'.cur = f.cur /\ lx'.doc = f.cur - f.line
          /\ \A x \in LexFields \ {"doc", "text", "indent", "block", "most"} : lx'[x] = h[x]
      BY <2>1, <2>4, <2>5 DEF LexFields
    <2>9. f.cur - f.line \in Int
      BY <2>2 DEF Onto, Buffered
    <2>7. TokInv(lx', open)
      BY <2>3, <2>6, <2>9, Alike
    <2>8. QED
      BY <2>2, <2>6, <2>7, Onwards
  <1>10. CASE HeaderOther
    <2>1. lx' = ToDocument(lx) /\ lx.section = "header"
      BY <1>10 DEF HeaderOther, In
    <2>2. Onto(lx, lx)
      BY <1>2 DEF Onto, Buffered
    <2>3. TokInv(lx', open)
      BY <1>1, <1>2, <2>1, <2>2, Jumps
    <2>4. lx'.cur = lx.cur /\ lx'.section = "document"
      BY <1>2, <2>1, LabelPlaces
    <2>5. QED
      BY <2>1, <2>3, <2>4 DEF Reads, Rank
  <1>11. CASE DirectiveSpaces
    <2> DEFINE f == Skip(lx, HeaderBlank)
    <2>1. Here(lx) \in HeaderBlank \ {NUL} /\ lx' = ToDirective(f)
      BY <1>11 DEF DirectiveSpaces, Char, HeaderBlank, NUL
    <2>2. Onto(lx, f) /\ f.cur > lx.cur
      BY <1>2, <2>1, Run
    <2> HIDE DEF f
    <2>3. QED
      BY <1>1, <2>1, <2>2, Headers
  <1>12. ASSUME Here(lx) = "%"
         PROVE  LET f == DirectiveEnd(lx) IN
                Onto(lx, f) /\ f.cur > lx.cur /\ Moved(lx, f) /\ f.token = lx.token
    <2> DEFINE p == Forward(lx, 1)
               f == Over(p, DirectiveChars, 2)
    <2>1. Here(lx) # NUL
      BY <1>12 DEF NUL
    <2>2. Onto(lx, p) /\ Buffered(p) /\ p.cur > lx.cur /\ Moved(lx, p) /\ p.token = lx.token
      BY <1>2, <2>1, One
    <2> HIDE DEF p
    <2>3. Moved(p, f) /\ Buffered(f) /\ f.cur >= p.cur /\ f.token = p.token
      BY <2>2, OverFacts
    <2> HIDE DEF f
    <2>4. Onto(p, f)
      BY <2>3, MovedOnto
    <2>5. Onto(lx, f) /\ f.cur > lx.cur
      BY <1>2, <2>2, <2>4, OntoTwice
    <2>6. Moved(lx, f)
      BY <2>2, <2>3 DEF Moved
    <2>7. QED
      BY <2>2, <2>3, <2>5, <2>6 DEF DirectiveEnd, p, f
  <1>13. CASE DirectiveWord
    <2>1. Here(lx) = "%" /\ lx' = ToDirective(DirectiveEnd(lx))
      BY <1>13 DEF DirectiveWord, IsDirectiveAt
    <2>2. QED
      BY <1>1, <1>12, <2>1, Headers
  <1>14. CASE DirectiveOther
    <2> DEFINE f == IF Char = "%" THEN [DirectiveEnd(lx) EXCEPT !.cur = lx.cur] ELSE lx
    <2>1. lx' = [f EXCEPT !.section = "done", !.out = Token("DOCSEP")] /\ lx.section = "directive"
      BY <1>14 DEF DirectiveOther, Returns, In
    <2>2. Moved(lx, f) /\ Buffered(f) /\ f.cur = lx.cur
      <3>1. CASE Char = "%"
        <4> DEFINE d == DirectiveEnd(lx)
        <4>1. Onto(lx, d) /\ d.cur > lx.cur /\ Moved(lx, d) /\ d.token = lx.token
          BY <1>12, <3>1 DEF Char
        <4> HIDE DEF d
        <4>2. Buffered(d) /\ lx.cur \in Nat /\ d.token <= lx.cur /\ lx.cur <= d.limit + 1
          BY <1>2, <4>1 DEF Onto, Buffered
        <4> DEFINE e == [d EXCEPT !.cur = lx.cur]
        <4>3. Moved(d, e) /\ Buffered(e) /\ e.cur = lx.cur
          BY <4>2, AtCursor
        <4> HIDE DEF e
        <4>4. Moved(lx, e)
          BY <4>1, <4>3 DEF Moved
        <4>5. f = e
          BY <3>1 DEF d, e
        <4>6. QED
          BY <4>3, <4>4, <4>5
      <3>2. CASE Char # "%"
        <4>1. f = lx
          BY <3>2
        <4>2. QED
          BY <1>2, <4>1 DEF Moved, Buffered
      <3>3. QED
        BY <3>1, <3>2
    <2> HIDE DEF f
    <2>3. Ahead(f) /\ f.force = lx.force /\ f.quirks = lx.quirks /\ SameStack(lx.levels, f.levels)
      BY <1>2, <1>3, <2>2 DEF Ahead, Moved
    <2>4. Change(Token("DOCSEP").type) = 0
      BY DEF Token, NoToken, Change, Closers
    <2>5. TokInv(lx', open)
      BY <2>1, <2>2, <2>3, <2>4, ReturnedHere
    <2>6. lx'.section = "done"
      BY <2>1, <2>2 DEF Moved, LexFields
    <2>7. QED
      BY <2>5, <2>6, Onwards
  <1>15. QED
    BY <1>4, <1>5, <1>6, <1>7, <1>8, <1>9, <1>10, <1>11, <1>13, <1>14 DEF HeaderNext

\* Further on there are still only blanks up to the line.
LEMMA OntoAhead ==
  ASSUME NEW l, NEW f, Buffered(l), Ahead(l), Onto(l, f)
  PROVE  Ahead(f)
  <1>1. l.cur \in Nat /\ l.line \in Nat /\ f.cur \in Nat /\ f.line \in Nat /\ f.src = l.src
    BY DEF Onto, Buffered
  <1>2. SUFFICES ASSUME NEW i \in f.cur..f.line - 1
                 PROVE  At(f.src, i) \in {" ", "\t", "\n"}
    BY DEF Ahead
  <1>3. i \in l.cur..l.line - 1
    <2>1. f.cur >= l.cur /\ (f.line = l.line \/ f.line <= f.cur)
      BY DEF Onto
    <2>2. QED
      BY <1>1, <2>1
  <1>4. \A j \in l.cur..l.line - 1 : At(l.src, j) \in {" ", "\t", "\n"}
    BY DEF Ahead
  <1>5. QED
    BY <1>1, <1>3, <1>4

\* Where nothing was read.
LEMMA OntoItself ==
  ASSUME NEW l, Buffered(l)
  PROVE  Onto(l, l)
  BY DEF Onto, Buffered

\* A colon makes its level a map.
LEMMA StatusFacts ==
  ASSUME NEW l, Buffered(l), Stack(l.levels), LexLevel(l).status \notin Apart
  PROVE  LET f == SetStatus(l, "map") IN
         Beside(l, f) /\ Buffered(f) /\ SameStack(l.levels, f.levels)
  <1> DEFINE f == SetStatus(l, "map")
             s == l.levels
             level == [s[Len(s)] EXCEPT !.status = "map"]
  <1>1. IsLevel(Last(s)) /\ Last(s) = s[Len(s)] /\ Last(s).status \notin Apart
    BY StackTop DEF LexLevel
  <1>2. IsLevel(level) /\ level.spaces = Last(s).spaces /\ level.status = "map"
    BY <1>1 DEF IsLevel, LevelFields
  <1>3. Beside(l, f) /\ f.levels = [s EXCEPT ![Len(s)] = level]
    BY DEF SetStatus, Buffered, LexFields, Beside
  <1> HIDE DEF f, level
  <1>4. Buffered(f)
    BY <1>3, BesideIsBuffered
  <1>5. SameStack(s, f.levels)
    BY <1>1, <1>2, <1>3, Changed
  <1>6. QED
    BY <1>3, <1>4, <1>5 DEF f

\* A token that opens a level.
LEMMA Opens ==
  ASSUME NEW l, NEW o, TokInv(l, o), l.section = "document", NEW m, Onto(l, m),
         NEW spaces \in Int, spaces > LexLevel(l).spaces, NEW status, status \notin Apart \cup {"open"},
         NEW token, Change(token.type) = 1
  PROVE  TokInv([AddLexLevel(m, spaces, status) EXCEPT !.section = "done", !.out = token], o)
  <1>1. /\ Buffered(l) /\ Ahead(l) /\ Levelled(l) /\ Stack(l.levels) /\ l.force = "none"
        /\ o \in Nat /\ LexLevel(l).status \notin Apart
        /\ "cut" \notin l.quirks => Len(l.levels) - 1 - Extra(l) = o
    BY InCall
  <1>2. Buffered(m) /\ m.levels = l.levels /\ m.quirks = l.quirks /\ m.force = l.force /\ Ahead(m)
    BY <1>1, OntoAhead DEF Onto
  <1>3. LexLevel(m) = LexLevel(l)
    BY <1>2 DEF LexLevel
  <1>4. Extra(l) = 0
    BY <1>1 DEF Extra
  <1>5. Len(l.levels) \in Nat /\ LexLevel(l).spaces \in Int /\ LexLevel(l).spaces >= -1
    BY <1>1, Outermost
  <1>6. spaces >= -1
    BY <1>5
  <1>7. status # "open" /\ status # "block" /\ status \notin Apart
    BY DEF Apart
  <1> DEFINE f == AddLexLevel(m, spaces, status)
  <1>8. /\ Beside(m, f) /\ Buffered(f) /\ Stack(f.levels) /\ Len(f.levels) = Len(m.levels) + 1
        /\ LexLevel(f).status = status
        /\ Deepens(m.levels) /\ (status \in Apart \/ spaces > LexLevel(m).spaces) => Deepens(f.levels)
    BY <1>1, <1>2, <1>3, <1>6, <1>7, AddFacts
  <1> HIDE DEF f
  <1>9. Levelled(f) /\ Ahead(f) /\ f.quirks = l.quirks /\ f.force = "none" /\ Len(f.levels) = Len(l.levels) + 1
    BY <1>1, <1>2, <1>3, <1>8 DEF Levelled, Beside, Ahead
  <1>10. "cut" \notin f.quirks => Len(f.levels) - 1 = o + Change(f.force) + Change(token.type)
    <2>1. Change(f.force) = 0
      BY <1>9, Changing
    <2>2. QED
      BY <1>1, <1>4, <1>5, <1>9, <2>1
  <1>11. QED
    BY <1>1, <1>7, <1>8, <1>9, <1>10, Returned DEF f

\* A token that closes one, from the level m is in; what was closed before the
\* outermost level was the parser's to refuse.
LEMMA Closes ==
  ASSUME NEW l, NEW o, TokInv(l, o), l.section = "document",
         NEW m, Buffered(m), m.levels = l.levels, m.quirks = l.quirks, m.force = l.force,
         NEW f, Beside(PopLexLevel(m), f) \/ Moved(PopLexLevel(m), f), f.levels = PopLexLevel(m).levels,
         Buffered(f), Ahead(f), NEW token, token.type \in Closers
  PROVE  TokInv([f EXCEPT !.section = "done", !.out = token], o)
  <1>1. /\ Levelled(l) /\ Stack(l.levels) /\ l.force = "none"
        /\ o \in Nat /\ LexLevel(l).status \notin Apart
        /\ "cut" \notin l.quirks => Len(l.levels) - 1 - Extra(l) = o
    BY InCall
  <1>2. Extra(l) = 0
    BY <1>1 DEF Extra
  <1>3. Len(l.levels) \in Nat /\ LexLevel(m) = LexLevel(l)
    BY <1>1, Outermost DEF LexLevel
  <1> DEFINE p == PopLexLevel(m)
  <1>4. /\ Beside(m, p) /\ Buffered(p) /\ Stack(p.levels)
        /\ Deepens(m.levels) => Deepens(p.levels)
        /\ Len(m.levels) # 1 => Len(p.levels) = Len(m.levels) - 1 /\ LexLevel(p).status \notin Apart
        /\ Len(m.levels) = 1 => p = m
    BY <1>1, PopFacts
  <1> HIDE DEF p
  <1>5. f.quirks = p.quirks /\ f.force = p.force /\ f.levels = p.levels
    BY DEF Beside, Moved, p
  <1>6. Levelled(f) /\ f.quirks = l.quirks /\ f.force = "none"
    BY <1>1, <1>4, <1>5 DEF Levelled, Beside
  <1>7. LexLevel(f).status \notin Apart
    BY <1>1, <1>3, <1>4, <1>5 DEF LexLevel
  <1>8. Change(f.force) = 0 /\ Change(token.type) = -1
    BY <1>6 DEF Change, Closers
  <1>9. "cut" \notin f.quirks =>
          Len(f.levels) - 1 = o + Change(f.force) + Change(token.type) \/ (token.type \in Closers /\ o = 0)
    <2>1. CASE Len(l.levels) = 1
      BY <1>1, <1>2, <1>3, <1>6, <2>1
    <2>2. CASE Len(l.levels) # 1
      <3>1. Len(f.levels) = Len(l.levels) - 1
        BY <1>4, <1>5, <2>2
      <3>2. QED
        BY <1>1, <1>2, <1>3, <1>6, <1>8, <3>1
    <2>3. QED
      BY <2>1, <2>2
  <1>10. QED
    BY <1>1, <1>6, <1>7, <1>9, Returned

\* What a step of the document section starts from.
LEMMA AtDocument ==
  ASSUME TokInv(lx, open), lx.section = "document"
  PROVE  /\ Buffered(lx) /\ Ahead(lx) /\ Levelled(lx) /\ Stack(lx.levels) /\ lx.force = "none"
         /\ open \in Nat /\ LexLevel(lx).status \notin Apart /\ lx.token = lx.cur
         /\ lx.cur \in Nat /\ lx.line \in Nat /\ lx.limit \in Nat /\ lx.doc \in Int
         /\ Onto(lx, lx) /\ SameStack(lx.levels, lx.levels)
         /\ Len(lx.levels) \in Nat /\ LexLevel(lx).spaces \in Int /\ LexLevel(lx).spaces >= -1
         /\ "cut" \notin lx.quirks => Len(lx.levels) - 1 = open
  <1>1. /\ Buffered(lx) /\ Ahead(lx) /\ Levelled(lx) /\ Stack(lx.levels) /\ lx.force = "none"
        /\ open \in Nat /\ LexLevel(lx).status \notin Apart /\ lx.token = lx.cur
        /\ "cut" \notin lx.quirks => Len(lx.levels) - 1 - Extra(lx) = open
    BY InCall DEF Fresh
  <1>2. Len(lx.levels) \in Nat /\ LexLevel(lx).spaces \in Int /\ LexLevel(lx).spaces >= -1
    BY <1>1, Outermost
  <1>3. Extra(lx) = 0
    BY <1>1 DEF Extra
  <1>4. "cut" \notin lx.quirks => Len(lx.levels) - 1 = open
    BY <1>1, <1>2, <1>3
  <1>5. /\ lx.cur \in Nat /\ lx.line \in Nat /\ lx.limit \in Nat /\ lx.doc \in Int
        /\ Onto(lx, lx) /\ SameStack(lx.levels, lx.levels)
    BY <1>1, OntoItself, SameIsSame DEF Buffered
  <1>6. QED
    BY <1>1, <1>2, <1>4, <1>5

\* The section of what a rule returns.
LEMMA IsDone ==
  ASSUME NEW f, Buffered(f), NEW token, lx' = [f EXCEPT !.section = "done", !.out = token]
  PROVE  Reads
  <1>1. lx'.section = "done"
    BY DEF Buffered, LexFields
  <1>2. QED
    BY <1>1, Onwards

\* A token that is only read.
LEMMA Yielded ==
  ASSUME TokInv(lx, open), lx.section = "document", NEW f, Onto(lx, f),
         NEW token, Change(token.type) = 0, lx' = [f EXCEPT !.section = "done", !.out = token]
  PROVE  TokInv(lx', open) /\ Reads
  <1>1. Ahead(f) /\ Buffered(f) /\ SameStack(lx.levels, f.levels)
    BY AtDocument, OntoAhead DEF Onto
  <1>2. TokInv(lx', open)
    BY <1>1, ReturnedHere DEF Onto
  <1>3. QED
    BY <1>1, <1>2, IsDone

\* A label further on.
LEMMA Documents ==
  ASSUME TokInv(lx, open), lx.section = "document", NEW f, Onto(lx, f), f.cur > lx.cur, NEW text
  PROVE  /\ lx' = ToDocument(f) => TokInv(lx', open) /\ Reads
         /\ lx' = ToTag(f, text) => TokInv(lx', open) /\ Reads
         /\ lx' = ToComment(f, "document") => TokInv(lx', open) /\ Reads
         /\ lx' = ToQuote(f, text) /\ f.section \in {"1quote", "2quote"} => TokInv(lx', open) /\ Reads
         /\ lx' = ToBlock(f, text) /\ f.line < f.cur => TokInv(lx', open) /\ Reads
  <1>1. lx.force = "none" /\ Stack(f.levels) /\ Buffered(f)
    BY AtDocument DEF Onto
  <1>2. /\ TokInv(ToDocument(f), open) /\ TokInv(ToTag(f, text), open)
        /\ TokInv(ToComment(f, "document"), open)
        /\ f.section \in {"1quote", "2quote"} => TokInv(ToQuote(f, text), open)
        /\ f.line < f.cur => TokInv(ToBlock(f, text), open)
    BY <1>1, Jumps
  <1>3. /\ ToDocument(f).cur = f.cur /\ ToTag(f, text).cur = f.cur
        /\ ToComment(f, "document").cur = f.cur /\ ToQuote(f, text).cur = f.cur
        /\ ToBlock(f, text).cur = f.cur
    BY <1>1, LabelPlaces
  <1>4. QED
    BY <1>2, <1>3, Onwards

\* ENSURE_YAML_IOPEN.
LEMMA OpenStep ==
  ASSUME TokInv(lx, open), DocumentOpen
  PROVE  TokInv(lx', open) /\ Reads
  <1>1. lx.section = "document" /\ LexLevel(lx).spaces < lx.doc
    BY DEF DocumentOpen, In
  <1> DEFINE f == AddLexLevel(lx, lx.doc, "doc")
  <1>2. lx' = [f EXCEPT !.section = "done", !.out = Token("IOPEN")]
    BY DEF DocumentOpen, Returns
  <1>3. /\ Buffered(lx) /\ Stack(lx.levels) /\ LexLevel(lx).status \notin Apart /\ Onto(lx, lx)
        /\ lx.doc \in Int /\ LexLevel(lx).spaces \in Int /\ LexLevel(lx).spaces >= -1
    BY <1>1, AtDocument
  <1>4. lx.doc > LexLevel(lx).spaces /\ lx.doc >= -1
    BY <1>1, <1>3
  <1>5. Change(Token("IOPEN").type) = 1 /\ "doc" \notin Apart \cup {"open"}
    BY DEF Token, NoToken, Change, Apart
  <1>6. TokInv(lx', open)
    BY <1>1, <1>2, <1>3, <1>4, <1>5, Opens
  <1>7. Buffered(f)
    BY <1>3, <1>4, <1>5, AddFacts
  <1>8. QED
    BY <1>2, <1>6, <1>7, IsDone

\* A newline closes a level, opens one, or begins an entry of the one that is open.
LEMMA NewlineStep ==
  ASSUME TokInv(lx, open), DocumentNewline
  PROVE  TokInv(lx', open) /\ Reads
  <1>1. lx.section = "document" /\ Here(lx) = "\n"
    BY DEF DocumentNewline, In, Char
  <1>2. /\ Buffered(lx) /\ Stack(lx.levels) /\ LexLevel(lx).status \notin Apart
        /\ lx.token = lx.cur /\ lx.cur \in Nat /\ LexLevel(lx).spaces \in Int
        /\ LexLevel(lx).spaces >= -1 /\ SameStack(lx.levels, lx.levels) /\ Len(lx.levels) \in Nat
    BY <1>1, AtDocument
  <1> DEFINE e      == Gobbled(lx)
             f      == [e EXCEPT !.doc = 0]
             indent == Indent(f)
             l      == IF indent = -1 THEN [f EXCEPT !.token = f.cur - 1] ELSE f
  <1>3. \/ lx' = ToDocument(l)
        \/ /\ LexLevel(l).spaces > indent
           /\ lx' = [Back(PopLexLevel(l)) EXCEPT !.section = "done", !.out = Token("IEND")]
        \/ /\ LexLevel(l).spaces < indent
           /\ lx' = [AddLexLevel(l, indent, "doc") EXCEPT !.section = "done", !.out = Token("IOPEN")]
        \/ lx' = [l EXCEPT !.section = "done", !.out = Token("END")]
        \/ lx' = [l EXCEPT !.section = "done", !.out = Token("INDENT")]
    BY DEF DocumentNewline, Returns
  <1>4. /\ DOMAIN e = LexFields /\ Buffered(e) /\ e.src = lx.src /\ e.token = lx.token
        /\ e.force = lx.force /\ e.quirks = lx.quirks /\ e.levels = lx.levels
        /\ lx.cur < e.line /\ e.line <= e.cur
    BY <1>1, <1>2, GobbledFacts
  <1>18. \A i \in lx.cur..e.cur - 1 : At(lx.src, i) \in {" ", "\n"}
    BY <1>1, <1>2, GobbledFacts
  <1>19. Indent(e) = -1 \/ Indent(e) = e.cur - e.line
    BY <1>1, <1>2, GobbledFacts
  <1> HIDE DEF e
  <1>6. e.cur \in Nat /\ e.line \in Nat /\ e.cur > lx.cur /\ lx.cur <= e.cur - 1
    <2>1. e.cur \in Nat /\ e.line \in Nat
      BY <1>4 DEF Buffered
    <2>2. QED
      BY <1>2, <1>4, <2>1
  <1>20. f.doc = 0 /\ DOMAIN f = LexFields /\ \A x \in LexFields \ {"doc"} : f[x] = e[x]
    BY <1>4 DEF LexFields
  <1>21. /\ f.src = e.src /\ f.cur = e.cur /\ f.token = e.token /\ f.line = e.line
         /\ f.limit = e.limit /\ f.base = e.base /\ f.force = e.force /\ f.levels = e.levels
         /\ f.quirks = e.quirks
    BY <1>20 DEF LexFields
  <1> HIDE DEF f
  <1>5. indent = Indent(e)
    BY <1>21 DEF Indent, Here, Peek
  <1>7. indent \in Int /\ indent >= -1
    <2>1. e.cur - e.line \in Int /\ e.cur - e.line >= -1
      BY <1>4, <1>6
    <2>2. QED
      BY <1>5, <1>19, <2>1
  <1>8. /\ DOMAIN f = LexFields /\ Buffered(f) /\ f.src = lx.src /\ f.token = lx.token
        /\ f.force = lx.force /\ f.quirks = lx.quirks /\ f.levels = lx.levels
        /\ f.cur = e.cur /\ f.line = e.line
    BY <1>4, <1>20, <1>21 DEF Buffered
  <1> HIDE DEF indent
  <1>9. /\ DOMAIN l = LexFields /\ Buffered(l) /\ l.src = lx.src
        /\ l.force = lx.force /\ l.quirks = lx.quirks /\ l.levels = lx.levels
        /\ l.cur = e.cur /\ l.line = e.line /\ l.token \in Nat /\ lx.cur <= l.token
    <2>1. CASE indent = -1
      <3>1. l = [f EXCEPT !.token = f.cur - 1]
        BY <2>1
      <3>2. /\ DOMAIN l = LexFields /\ l.token = e.cur - 1
            /\ \A x \in LexFields \ {"token"} : l[x] = f[x]
        BY <1>8, <3>1 DEF LexFields
      <3> HIDE DEF l
      <3>3. /\ l.src = lx.src /\ l.force = lx.force /\ l.quirks = lx.quirks /\ l.levels = lx.levels
            /\ l.cur = e.cur /\ l.line = e.line
            /\ l.base = f.base /\ l.limit = f.limit /\ l.doc = f.doc
        BY <1>8, <3>2 DEF LexFields
      <3>4. f.base \in Nat /\ f.token \in Nat /\ f.base <= f.token
        BY <1>8 DEF Buffered
      <3>5. l.token \in Nat /\ lx.cur <= l.token /\ l.token <= l.cur /\ l.base <= l.token
        BY <1>2, <1>6, <1>8, <3>2, <3>3, <3>4
      <3>6. Buffered(l)
        BY <1>8, <3>2, <3>3, <3>5 DEF Buffered
      <3>7. QED
        BY <3>2, <3>3, <3>5, <3>6
    <2>2. CASE indent # -1
      <3>1. l = f
        BY <2>2
      <3>2. f.token \in Nat /\ lx.cur <= f.token
        BY <1>2, <1>8
      <3>3. QED
        BY <1>8, <3>1, <3>2
    <2>3. QED
      BY <2>1, <2>2
  <1> HIDE DEF l
  <1>10. Onto(lx, l) /\ l.cur > lx.cur
    <2>1. l.cur > lx.cur /\ l.cur >= lx.cur /\ l.line <= l.cur
      BY <1>2, <1>4, <1>6, <1>9
    <2>2. QED
      BY <1>9, <2>1 DEF Onto
  <1>11. LexLevel(l) = LexLevel(lx)
    BY <1>9 DEF LexLevel
  <1>12. CASE lx' = ToDocument(l)
    BY <1>1, <1>10, <1>12, Documents
  <1>13. CASE /\ LexLevel(l).spaces > indent
              /\ lx' = [Back(PopLexLevel(l)) EXCEPT !.section = "done", !.out = Token("IEND")]
    <2> DEFINE p == PopLexLevel(l)
               b == Back(p)
    <2>1. Beside(l, p) /\ Buffered(p)
      BY <1>2, <1>9, PopFacts
    <2> HIDE DEF p
    <2>2. Moved(p, b) /\ Buffered(b) /\ b.cur = p.token
      BY <2>1, BackFacts
    <2> HIDE DEF b
    <2>3. b.src = lx.src /\ b.cur = l.token /\ b.line = e.line /\ b.levels = p.levels
      BY <1>9, <2>1, <2>2 DEF Beside, Moved
    <2>4. Ahead(b)
      <3> SUFFICES ASSUME NEW i \in b.cur..b.line - 1
                   PROVE  At(b.src, i) \in {" ", "\t", "\n"}
        BY DEF Ahead
      <3>1. i \in lx.cur..e.cur - 1
        BY <1>2, <1>4, <1>6, <1>9, <2>3
      <3>2. QED
        BY <1>18, <2>3, <3>1
    <2>5. Token("IEND").type \in Closers
      BY DEF Token, NoToken, Closers
    <2>6. TokInv(lx', open)
      BY <1>1, <1>9, <1>13, <2>2, <2>3, <2>4, <2>5, Closes DEF p, b
    <2>7. QED
      BY <1>13, <2>2, <2>6, IsDone DEF p, b
  <1>14. CASE /\ LexLevel(l).spaces < indent
              /\ lx' = [AddLexLevel(l, indent, "doc") EXCEPT !.section = "done", !.out = Token("IOPEN")]
    <2>1. indent > LexLevel(lx).spaces
      BY <1>2, <1>7, <1>11, <1>14
    <2>2. Change(Token("IOPEN").type) = 1 /\ "doc" \notin Apart \cup {"open"}
      BY DEF Token, NoToken, Change, Apart
    <2>3. TokInv(lx', open)
      BY <1>1, <1>7, <1>10, <1>14, <2>1, <2>2, Opens
    <2>4. Buffered(AddLexLevel(l, indent, "doc"))
      BY <1>2, <1>7, <1>9, <1>11, <2>2, AddFacts
    <2>5. QED
      BY <1>14, <2>3, <2>4, IsDone
  <1>15. CASE lx' = [l EXCEPT !.section = "done", !.out = Token("END")]
    <2>1. Change(Token("END").type) = 0
      BY DEF Token, NoToken, Change, Closers
    <2>2. QED
      BY <1>1, <1>10, <1>15, <2>1, Yielded
  <1>16. CASE lx' = [l EXCEPT !.section = "done", !.out = Token("INDENT")]
    <2>1. Change(Token("INDENT").type) = 0
      BY DEF Token, NoToken, Change, Closers
    <2>2. QED
      BY <1>1, <1>10, <1>16, <2>1, Yielded
  <1>17. QED
    BY <1>3, <1>12, <1>13, <1>14, <1>15, <1>16

\* Brackets and braces.
LEMMA CollectionStep ==
  ASSUME TokInv(lx, open), FlowOpen \/ FlowClose
  PROVE  TokInv(lx', open) /\ Reads
  <1>1. lx.section = "document"
    BY DEF FlowOpen, FlowClose, Content, In
  <1>2. /\ Buffered(lx) /\ Ahead(lx) /\ Stack(lx.levels) /\ LexLevel(lx).status \notin Apart
        /\ LexLevel(lx).spaces \in Int /\ LexLevel(lx).spaces >= -1
    BY <1>1, AtDocument
  <1> DEFINE m == Forward(lx, 1)
             brackets == {"[", "{", "]", "}"}
  <1>3. Here(lx) \in brackets
    BY DEF FlowOpen, FlowClose, Char
  <1>4. Here(lx) # NUL
    BY <1>3 DEF NUL
  <1>5. Moved(lx, m) /\ Buffered(m) /\ Onto(lx, m)
    BY <1>2, <1>4, One
  <1> HIDE DEF m
  <1>6. m.levels = lx.levels /\ m.quirks = lx.quirks /\ m.force = lx.force
    BY <1>5 DEF Moved
  <1>7. LexLevel(m) = LexLevel(lx)
    BY <1>6 DEF LexLevel
  <1>8. CASE FlowOpen
    <2> DEFINE status == IF Here(lx) = "[" THEN "iseq" ELSE "imap"
               spaces == LexLevel(lx).spaces + 1
               f      == AddLexLevel(m, spaces, status)
               token  == Token(Here(lx))
    <2>1. lx' = [f EXCEPT !.section = "done", !.out = token]
      BY <1>8 DEF FlowOpen, Returns, Char, m
    <2>2. status \notin Apart \cup {"open"} /\ status # "open" /\ status # "block" /\ status \notin Apart
      BY DEF Apart
    <2>3. Change(token.type) = 1
      BY <1>8 DEF FlowOpen, Char, Token, NoToken, Change
    <2> HIDE DEF status, token
    <2>4. spaces \in Int /\ spaces > LexLevel(lx).spaces /\ spaces >= -1
      BY <1>2
    <2> HIDE DEF spaces
    <2>5. TokInv(lx', open)
      BY <1>1, <1>5, <2>1, <2>2, <2>3, <2>4, Opens
    <2>6. Buffered(f)
      BY <1>2, <1>5, <1>6, <1>7, <2>2, <2>4, AddFacts
    <2>7. QED
      BY <2>1, <2>5, <2>6, IsDone
  <1>9. CASE FlowClose
    <2> DEFINE f     == PopLexLevel(m)
               token == Token(Here(lx))
    <2>1. lx' = [f EXCEPT !.section = "done", !.out = token]
      BY <1>9 DEF FlowClose, Returns, Char, m
    <2>2. token.type \in Closers
      BY <1>9 DEF FlowClose, Char, Token, NoToken, Closers
    <2> HIDE DEF token
    <2>3. Beside(m, f) /\ Buffered(f)
      BY <1>2, <1>5, <1>6, PopFacts
    <2>4. Ahead(m)
      BY <1>2, <1>5, OntoAhead
    <2>5. Ahead(f) /\ Beside(f, f)
      BY <2>3, <2>4 DEF Ahead, Beside
    <2>6. TokInv(lx', open)
      BY <1>1, <1>5, <1>6, <2>1, <2>2, <2>3, <2>5, Closes
    <2>7. QED
      BY <2>1, <2>3, <2>6, IsDone
  <1>10. QED
    BY <1>8, <1>9

\* Commas and colons.
LEMMA SeparateStep ==
  ASSUME TokInv(lx, open), Separate
  PROVE  TokInv(lx', open) /\ Reads
  <1>1. lx.section = "document"
    BY DEF Separate, In
  <1>2. Buffered(lx) /\ Ahead(lx) /\ Stack(lx.levels) /\ LexLevel(lx).status \notin Apart
    BY <1>1, AtDocument
  <1> DEFINE m     == Forward(lx, 1)
             token == Token(Here(lx))
  <1>3. Here(lx) \in {",", ":"}
    BY DEF Separate, IsSeparator
  <1>4. Here(lx) # NUL /\ Change(token.type) = 0
    BY <1>3 DEF NUL, Token, NoToken, Change, Closers
  <1>5. Moved(lx, m) /\ Buffered(m) /\ Onto(lx, m)
    BY <1>2, <1>4, One
  <1>6. \/ lx' = [m EXCEPT !.section = "done", !.out = token]
        \/ lx' = [SetStatus(m, "map") EXCEPT !.section = "done", !.out = token]
    BY DEF Separate, Returns, Char
  <1> HIDE DEF token, m
  <1>7. CASE lx' = [m EXCEPT !.section = "done", !.out = token]
    BY <1>1, <1>4, <1>5, <1>7, Yielded
  <1>8. CASE lx' = [SetStatus(m, "map") EXCEPT !.section = "done", !.out = token]
    <2> DEFINE f == SetStatus(m, "map")
    <2>1. m.levels = lx.levels /\ LexLevel(m) = LexLevel(lx)
      BY <1>5 DEF Moved, LexLevel
    <2>2. Beside(m, f) /\ Buffered(f) /\ SameStack(lx.levels, f.levels)
      BY <1>2, <1>5, <2>1, StatusFacts
    <2> HIDE DEF f
    <2>3. Ahead(m)
      BY <1>2, <1>5, OntoAhead
    <2>4. Ahead(f) /\ f.force = lx.force /\ f.quirks = lx.quirks
      BY <1>5, <2>2, <2>3 DEF Ahead, Beside, Moved
    <2>5. TokInv(lx', open)
      BY <1>1, <1>4, <1>8, <2>2, <2>4, ReturnedHere DEF f
    <2>6. QED
      BY <1>8, <2>2, <2>5, IsDone DEF f
  <1>9. QED
    BY <1>6, <1>7, <1>8

\* A name is a character and what may follow it.
LEMMA NameStep ==
  ASSUME TokInv(lx, open), Anchor \/ Alias
  PROVE  TokInv(lx', open) /\ Reads
  <1>1. lx.section = "document"
    BY DEF Anchor, Alias, Content, In
  <1>2. Buffered(lx)
    BY <1>1, AtDocument
  <1> DEFINE p == Forward(lx, 2)
             f == Skip(p, WordChars)
  <1>3. PICK token : /\ lx' = [f EXCEPT !.section = "done", !.out = token]
                     /\ token.type \in {"ANCHOR", "ALIAS"}
    <2>1. CASE Anchor
      <3> DEFINE token == [Token("ANCHOR") EXCEPT !.name = Name(f)]
      <3>1. lx' = [f EXCEPT !.section = "done", !.out = token]
        BY <2>1 DEF Anchor, Returns
      <3>2. token.type = "ANCHOR"
        BY DEF Token, NoToken
      <3>3. QED
        BY <3>1, <3>2
    <2>2. CASE Alias
      <3> DEFINE token == [Token("ALIAS") EXCEPT !.name = Name(f)]
      <3>1. lx' = [f EXCEPT !.section = "done", !.out = token]
        BY <2>2 DEF Alias, Returns
      <3>2. token.type = "ALIAS"
        BY DEF Token, NoToken
      <3>3. QED
        BY <3>1, <3>2
    <2>3. QED
      BY <2>1, <2>2
  <1>4. Peek(lx, lx.cur + 1) # NUL
    <2>1. Peek(lx, lx.cur + 1) \in WordChars
      BY DEF Anchor, Alias, IsName
    <2>2. NUL \notin WordChars
      BY DEF WordChars, Chars, Digits, NUL
    <2>3. QED
      BY <2>1, <2>2
  <1>5. Moved(lx, p) /\ Buffered(p) /\ p.cur = lx.cur + 1 + 1
    <2>1. 1 \in Nat /\ 1 + 1 = 2
      OBVIOUS
    <2>2. QED
      BY <1>2, <1>4, <2>1, Next1
  <1> HIDE DEF p
  <1>6. Onto(lx, p)
    <2>1. p.cur >= lx.cur
      BY <1>2, <1>5 DEF Buffered
    <2>2. QED
      BY <1>5, <2>1, MovedOnto
  <1>7. Onto(p, f)
    BY <1>5, Run
  <1>8. Onto(lx, f)
    BY <1>2, <1>6, <1>7, OntoTwice
  <1> HIDE DEF f
  <1>9. Change(token.type) = 0
    BY <1>3 DEF Change, Closers
  <1>10. QED
    BY <1>1, <1>3, <1>8, <1>9, Yielded

\* The rules that lead to a scalar, a tag or a comment.
LEMMA BeginStep ==
  ASSUME TokInv(lx, open),
         DocumentEnd \/ DocumentSpaces \/ DocumentComment \/ PlainScalar \/ Quoted \/ BlockScalar \/ Transfer
  PROVE  TokInv(lx', open) /\ Reads
  <1>1. lx.section = "document"
    BY DEF DocumentEnd, DocumentSpaces, DocumentComment, PlainScalar, Quoted, BlockScalar, Transfer,
           Content, In
  <1>2. /\ Buffered(lx) /\ Ahead(lx) /\ Stack(lx.levels) /\ lx.force = "none" /\ Onto(lx, lx)
        /\ lx.cur \in Nat /\ lx.line \in Nat
    BY <1>1, AtDocument
  <1>3. CASE DocumentEnd
    BY <1>1, <1>3, EndsFacts DEF DocumentEnd
  <1>4. CASE DocumentSpaces
    <2> DEFINE f == Skip(lx, HeaderBlank)
    <2>1. Here(lx) \in HeaderBlank \ {NUL} /\ lx' = ToDocument(f)
      BY <1>4 DEF DocumentSpaces, Char, HeaderBlank, NUL
    <2>2. Onto(lx, f) /\ f.cur > lx.cur
      BY <1>2, <2>1, Run
    <2> HIDE DEF f
    <2>3. QED
      BY <1>1, <2>1, <2>2, Documents
  <1> DEFINE p == Forward(lx, 1)
  <1>5. CASE DocumentComment
    <2>1. Here(lx) # NUL /\ lx' = ToComment(p, "document")
      BY <1>5 DEF DocumentComment, Char, NUL
    <2>2. Onto(lx, p) /\ p.cur > lx.cur
      BY <1>2, <2>1, One
    <2> HIDE DEF p
    <2>3. QED
      BY <1>1, <2>1, <2>2, Documents
  <1>6. CASE PlainScalar
    <2> DEFINE f == [lx EXCEPT !.indent = TrueIndent(lx)]
    <2>1. lx' = ToPlain(f, "")
      BY <1>6 DEF PlainScalar
    <2>2. DOMAIN f = LexFields /\ \A x \in LexFields \ {"indent"} : f[x] = lx[x]
      BY <1>2 DEF Buffered, LexFields
    <2> HIDE DEF f
    <2>3. /\ f.cur = lx.cur /\ f.src = lx.src /\ f.token = lx.token
          /\ f.line = lx.line /\ f.limit = lx.limit /\ f.base = lx.base /\ f.force = lx.force
          /\ f.levels = lx.levels /\ f.quirks = lx.quirks /\ f.doc = lx.doc
      BY <2>2 DEF LexFields
    <2>4. Buffered(f)
      BY <1>2, <2>2, <2>3 DEF Buffered
    <2>5. Onto(lx, f)
      BY <1>2, <2>3, <2>4 DEF Onto
    <2>6. TokInv(lx', open)
      BY <1>1, <1>2, <2>1, <2>5, Jumps
    <2>7. lx'.cur = f.cur /\ lx'.section = "plain"
      <3>1. Stack(f.levels)
        BY <1>2, <2>3
      <3>2. \A text : ToPlain(f, text).cur = f.cur /\ ToPlain(f, text).section = "plain"
        BY <2>4, <3>1, LabelPlaces
      <3>3. QED
        BY <2>1, <3>2
    <2>8. QED
      BY <1>1, <2>3, <2>6, <2>7 DEF Reads, Rank
  <1>7. CASE Quoted
    <2> DEFINE section == IF Here(lx) = "'" THEN "1quote" ELSE "2quote"
               f       == [p EXCEPT !.section = section]
    <2>1. Here(lx) # NUL /\ lx' = ToQuote(f, "")
      BY <1>7 DEF Quoted, Char, NUL
    <2>2. Moved(lx, p) /\ Onto(lx, p) /\ p.cur > lx.cur
      BY <1>2, <2>1, One
    <2> HIDE DEF p
    <2>3. section \in {"1quote", "2quote"}
      OBVIOUS
    <2> HIDE DEF section
    <2>4. f.section = section /\ DOMAIN f = LexFields /\ \A x \in LexFields \ {"section"} : f[x] = p[x]
      BY <2>2 DEF Moved, LexFields
    <2> HIDE DEF f
    <2>5. /\ f.cur = p.cur /\ f.src = p.src /\ f.token = p.token
          /\ f.line = p.line /\ f.limit = p.limit /\ f.base = p.base /\ f.force = p.force
          /\ f.levels = p.levels /\ f.quirks = p.quirks /\ f.doc = p.doc
      BY <2>4 DEF LexFields
    <2>6. Buffered(f)
      BY <2>2, <2>4, <2>5 DEF Buffered, Onto
    <2>7. Onto(lx, f) /\ f.cur > lx.cur
      BY <2>2, <2>5, <2>6 DEF Onto
    <2>8. QED
      BY <1>1, <2>1, <2>3, <2>4, <2>7, Documents
  <1>8. CASE BlockScalar
    <2> DEFINE g == Skip(p, Hints)
               h == Skip(g, {" "})
               block == [fold |-> Char = ">", keep |-> Latest(h, lx.cur + 1, {"-", "+"}),
                         force |-> Latest(h, lx.cur + 1, Digits), last |-> 0]
               f == [h EXCEPT !.block = block]
    <2>1. Here(lx) \in {"|", ">"} /\ lx' = ToBlock(f, "")
      BY <1>8 DEF BlockScalar, IsBlock
    <2>2. Here(lx) # NUL /\ Here(lx) \notin {NUL, " ", "\t", "\n"}
      BY <2>1 DEF NUL
    <2>3. Onto(lx, p) /\ p.cur > lx.cur /\ Moved(lx, p) /\ Buffered(p)
      BY <1>2, <2>2, One
    <2> HIDE DEF p
    <2>4. Onto(p, g) /\ Moved(p, g) /\ Buffered(g)
      BY <2>3, Run
    <2> HIDE DEF g
    <2>5. Onto(g, h) /\ Moved(g, h) /\ Buffered(h)
      BY <2>4, Run
    <2> HIDE DEF h, block
    <2>6. Onto(lx, h) /\ h.cur > lx.cur
      BY <1>2, <2>3, <2>4, <2>5, OntoTwice
    <2>7. DOMAIN f = LexFields /\ \A x \in LexFields \ {"block"} : f[x] = h[x]
      BY <2>5 DEF Moved, LexFields
    <2> HIDE DEF f
    <2>8. /\ f.cur = h.cur /\ f.src = h.src /\ f.token = h.token
          /\ f.line = h.line /\ f.limit = h.limit /\ f.base = h.base /\ f.force = h.force
          /\ f.levels = h.levels /\ f.quirks = h.quirks /\ f.doc = h.doc
      BY <2>7 DEF LexFields
    <2>9. Buffered(f)
      BY <2>5, <2>7, <2>8 DEF Buffered
    <2>10. Onto(lx, f) /\ f.cur > lx.cur
      BY <2>6, <2>8, <2>9 DEF Onto
    <2>11. f.line = lx.line
      BY <2>3, <2>4, <2>5, <2>8 DEF Moved
    <2>12. lx.line <= lx.cur
      BY <1>2, <2>2, LineReached
    <2>13. f.line < f.cur
      <3>1. f.cur \in Nat
        BY <2>9 DEF Buffered
      <3>2. QED
        BY <1>2, <2>10, <2>11, <2>12, <3>1
    <2>14. QED
      BY <1>1, <2>1, <2>10, <2>13, Documents
  <1>9. CASE Transfer
    <2>1. Here(lx) # NUL /\ lx' = ToTag(p, "")
      BY <1>9 DEF Transfer, Char, NUL
    <2>2. Onto(lx, p) /\ p.cur > lx.cur
      BY <1>2, <2>1, One
    <2> HIDE DEF p
    <2>3. QED
      BY <1>1, <2>1, <2>2, Documents
  <1>10. QED
    BY <1>3, <1>4, <1>5, <1>6, <1>7, <1>8, <1>9

\* The level behind an entry is deeper than the entry's column.
LEMMA EntryLevelFacts ==
  ASSUME NEW l, Buffered(l), Stack(l.levels), LexLevel(l).status \notin Apart,
         NEW column \in Nat, l.cur > l.token + 1, l.cur - l.line > column
  PROVE  LET f == EntryLevel(l, column) IN
         /\ DOMAIN f = LexFields /\ Buffered(f) /\ f.src = l.src /\ f.line = l.line /\ f.force = l.force
         /\ f.quirks = l.quirks /\ f.cur >= l.cur - 1
         /\ Stack(f.levels) /\ Len(f.levels) = Len(l.levels) + 1 /\ LexLevel(f).status = "seq"
         /\ Deepens(l.levels) /\ LexLevel(l).spaces <= column => Deepens(f.levels)
  <1>1. /\ l.cur \in Nat /\ l.token \in Nat /\ l.line \in Nat /\ l.limit \in Nat /\ l.cur <= l.limit + 1
        /\ LexLevel(l).spaces \in Int
    BY Outermost DEF Buffered
  <1>9. PICK m : \E spaces \in Int :
                   /\ EntryLevel(l, column) = AddLexLevel(m, spaces, "seq")
                   /\ spaces > column /\ Moved(l, m) /\ Buffered(m) /\ m.cur >= l.cur - 1
    <2>1. CASE IsBare(l)
      <3> DEFINE m == Forward(l, -1)
      <3>1. l.cur - 1 \in Nat /\ l.token <= l.cur - 1 /\ l.cur - 1 <= l.limit + 1 /\ l.cur + -1 = l.cur - 1
        BY <1>1
      <3>2. Moved(l, m) /\ Buffered(m) /\ m.cur = l.cur - 1
        BY <3>1, AtCursor DEF Forward
      <3>3. EntryLevel(l, column) = AddLexLevel(m, column + 1, "seq")
        BY <2>1 DEF EntryLevel
      <3> HIDE DEF m
      <3>4. column + 1 \in Int /\ column + 1 > column /\ m.cur >= l.cur - 1
        BY <1>1, <3>2
      <3>5. QED
        BY <3>2, <3>3, <3>4
    <2>2. CASE ~IsBare(l)
      <3>1. EntryLevel(l, column) = AddLexLevel(l, l.cur - l.line, "seq")
        BY <2>2 DEF EntryLevel
      <3>2. l.cur - l.line \in Int /\ l.cur >= l.cur - 1
        BY <1>1
      <3>3. Moved(l, l)
        BY DEF Moved, Buffered
      <3>4. QED
        BY <3>1, <3>2, <3>3
    <2>3. QED
      BY <2>1, <2>2
  <1>2. PICK spaces \in Int : /\ EntryLevel(l, column) = AddLexLevel(m, spaces, "seq")
                              /\ spaces > column /\ Moved(l, m) /\ Buffered(m) /\ m.cur >= l.cur - 1
    BY <1>9
  <1> DEFINE f == EntryLevel(l, column)
  <1>3. m.levels = l.levels /\ LexLevel(m) = LexLevel(l)
    BY <1>2 DEF Moved, LexLevel
  <1>4. spaces >= -1 /\ "seq" # "open" /\ "seq" # "block" /\ "seq" \notin Apart
    BY <1>2 DEF Apart
  <1>5. /\ Beside(m, f) /\ Buffered(f) /\ Stack(f.levels) /\ Len(f.levels) = Len(m.levels) + 1
        /\ LexLevel(f).status = "seq"
        /\ Deepens(m.levels) /\ ("seq" \in Apart \/ spaces > LexLevel(m).spaces) => Deepens(f.levels)
    BY <1>2, <1>3, <1>4, AddFacts
  <1> HIDE DEF f
  <1>6. LexLevel(l).spaces <= column => spaces > LexLevel(m).spaces
    BY <1>1, <1>2, <1>3
  <1>7. /\ DOMAIN f = LexFields /\ f.src = l.src /\ f.line = l.line /\ f.force = l.force
        /\ f.quirks = l.quirks /\ f.cur = m.cur
    BY <1>2, <1>5 DEF Beside, Moved
  <1>8. QED
    BY <1>2, <1>3, <1>5, <1>6, <1>7 DEF f

\* Dashes and question marks, with the level they announce.
LEMMA EntryStep ==
  ASSUME TokInv(lx, open), Entry
  PROVE  TokInv(lx', open) /\ Reads
  <1>1. lx.section = "document" /\ IsEntry(lx)
    BY DEF Entry, In
  <1>2. /\ Buffered(lx) /\ Ahead(lx) /\ Levelled(lx) /\ Stack(lx.levels) /\ lx.force = "none"
        /\ open \in Nat /\ LexLevel(lx).status \notin Apart /\ lx.token = lx.cur
        /\ lx.cur \in Nat /\ lx.line \in Nat /\ Onto(lx, lx)
        /\ Len(lx.levels) \in Nat /\ LexLevel(lx).spaces \in Int /\ LexLevel(lx).spaces >= -1
        /\ "cut" \notin lx.quirks => Len(lx.levels) - 1 = open
    BY <1>1, AtDocument
  <1> DEFINE column == lx.token - lx.line
             p      == Forward(lx, 1)
             past   == IF Following = " " THEN Skip(p, {" "}) ELSE Forward(lx, 2)
             level  == EntryLevel(past, column)
             opened == [level EXCEPT !.force = "IOPEN"]
             token  == Token(Char)
  <1>3. \/ /\ LexLevel(lx).spaces < column /\ lx' = ToDocument(past)
        \/ /\ LexLevel(lx).spaces < column
           /\ lx' = [AddLexLevel(lx, column, "doc") EXCEPT !.section = "done", !.out = Token("IOPEN")]
        \/ /\ ~(LexLevel(lx).spaces < column)
           /\ lx' = [IF LexLevel(lx).spaces > column THEN Quirk(opened, "left") ELSE opened
                       EXCEPT !.section = "done", !.out = token]
    BY DEF Entry, Returns
  <1>4. Here(lx) \in {"-", "?"} /\ Following \in {" ", "\n"}
    BY <1>1 DEF IsEntry, EndSpace, Following
  <1>5. Here(lx) # NUL /\ Following # NUL /\ Here(lx) \notin {NUL, " ", "\t", "\n"}
    BY <1>4 DEF NUL
  <1>15. Peek(lx, lx.cur + 1) # NUL
    BY <1>5 DEF Following
  <1>6. Change(token.type) = 0
    BY <1>4 DEF Char, Token, NoToken, Change, Closers
  <1> HIDE DEF token
  <1>7. lx.line <= lx.cur
    BY <1>2, <1>5, LineReached
  <1>8. column \in Nat
    BY <1>2, <1>7
  <1>9. /\ Moved(lx, past) /\ Buffered(past) /\ past.token = lx.token /\ past.cur > lx.cur + 1
        /\ Onto(lx, past)
    <2>1. /\ Moved(lx, p) /\ Buffered(p) /\ p.cur = lx.cur + 1 /\ p.token = lx.token /\ p.limit = lx.limit
      BY <1>2, <1>5, One
    <2>2. lx.cur + 1 + 1 > lx.cur + 1 /\ lx.cur + 1 + 1 >= lx.cur
      BY <1>2
    <2>3. CASE Following = " "
      <3> DEFINE s == Skip(p, {" "})
      <3>1. Here(p) = " "
        <4>1. lx.cur + 1 \in Nat /\ Peek(lx, lx.cur + 1) # NUL
          BY <1>2, <1>15
        <4>2. p.src = lx.src /\ p.limit >= lx.limit
          BY <1>2, <2>1 DEF Moved, Buffered
        <4>3. Peek(p, lx.cur + 1) = Peek(lx, lx.cur + 1)
          BY <1>2, <2>1, <4>1, <4>2, StillSeen
        <4>4. QED
          BY <2>1, <2>3, <4>3 DEF Here, Following
      <3>2. Here(p) \in {" "} \ {NUL}
        BY <3>1 DEF NUL
      <3> HIDE DEF p
      <3>3. Moved(p, s) /\ Buffered(s) /\ s.token = p.token /\ s.cur > p.cur
        BY <2>1, <3>2, Run
      <3>4. past = s
        BY <2>3
      <3> HIDE DEF s, past
      <3>5. Moved(lx, past) /\ Buffered(past) /\ past.token = lx.token
        BY <2>1, <3>3, <3>4 DEF Moved
      <3>6. past.cur \in Nat /\ past.cur > lx.cur + 1
        BY <2>1, <3>3, <3>4 DEF Buffered
      <3>7. past.cur >= lx.cur
        BY <1>2, <3>6
      <3>8. QED
        BY <3>5, <3>6, <3>7, MovedOnto
    <2>4. CASE Following # " "
      <3>1. past = Forward(lx, 2)
        BY <2>4
      <3>2. 1 \in Nat /\ 1 + 1 = 2
        OBVIOUS
      <3>3. LET f == Forward(lx, 2) IN
              Moved(lx, f) /\ Buffered(f) /\ f.cur = lx.cur + 1 + 1 /\ f.token = lx.token
        BY <1>2, <1>15, <3>2, Next1
      <3> HIDE DEF past
      <3>4. /\ Moved(lx, past) /\ Buffered(past) /\ past.cur = lx.cur + 1 + 1
            /\ past.token = lx.token
        BY <3>1, <3>3
      <3>5. past.cur > lx.cur + 1 /\ past.cur >= lx.cur
        BY <2>2, <3>4
      <3>6. QED
        BY <3>4, <3>5, MovedOnto
    <2>5. QED
      BY <2>3, <2>4
  <1> HIDE DEF past
  <1>10. past.cur \in Nat /\ past.cur > lx.cur
    <2>1. past.cur \in Nat
      BY <1>9 DEF Buffered
    <2>2. QED
      BY <1>2, <1>9, <2>1
  <1>11. CASE LexLevel(lx).spaces < column /\ lx' = ToDocument(past)
    BY <1>1, <1>9, <1>10, <1>11, Documents
  <1>12. CASE /\ LexLevel(lx).spaces < column
              /\ lx' = [AddLexLevel(lx, column, "doc") EXCEPT !.section = "done", !.out = Token("IOPEN")]
    <2>1. Change(Token("IOPEN").type) = 1 /\ "doc" \notin Apart \cup {"open"}
      BY DEF Token, NoToken, Change, Apart
    <2>2. column \in Int /\ column > LexLevel(lx).spaces /\ column >= -1
      BY <1>2, <1>8, <1>12
    <2> HIDE DEF column
    <2>3. TokInv(lx', open)
      BY <1>1, <1>2, <1>12, <2>1, <2>2, Opens
    <2>4. Buffered(AddLexLevel(lx, column, "doc"))
      BY <1>2, <2>1, <2>2, AddFacts
    <2>5. QED
      BY <1>12, <2>3, <2>4, IsDone
  <1>13. CASE /\ ~(LexLevel(lx).spaces < column)
              /\ lx' = [IF LexLevel(lx).spaces > column THEN Quirk(opened, "left") ELSE opened
                          EXCEPT !.section = "done", !.out = token]
    <2>1. /\ past.levels = lx.levels /\ LexLevel(past) = LexLevel(lx) /\ past.line = lx.line
          /\ past.src = lx.src /\ past.quirks = lx.quirks
      BY <1>9 DEF Moved, LexLevel
    <2>2. past.cur > past.token + 1 /\ past.cur - past.line > column
      BY <1>2, <1>9, <1>10, <2>1
    <2>10. Stack(past.levels) /\ LexLevel(past).status \notin Apart
      BY <1>2, <2>1
    <2>3. /\ DOMAIN level = LexFields /\ Buffered(level) /\ level.src = past.src /\ level.line = past.line
          /\ level.quirks = past.quirks /\ level.cur >= past.cur - 1
          /\ Stack(level.levels) /\ Len(level.levels) = Len(past.levels) + 1
          /\ LexLevel(level).status = "seq"
          /\ Deepens(past.levels) /\ LexLevel(past).spaces <= column => Deepens(level.levels)
      BY <1>8, <1>9, <2>2, <2>10, EntryLevelFacts
    <2> HIDE DEF level, column
    <2> DEFINE f == IF LexLevel(lx).spaces > column THEN Quirk(opened, "left") ELSE opened
    <2>4. /\ DOMAIN f = LexFields /\ f.src = level.src /\ f.cur = level.cur /\ f.token = level.token
          /\ f.line = level.line /\ f.limit = level.limit /\ f.base = level.base /\ f.doc = level.doc
          /\ f.levels = level.levels /\ f.force = "IOPEN"
          /\ f.quirks = IF LexLevel(lx).spaces > column THEN level.quirks \cup {"left"} ELSE level.quirks
      <3>1. CASE LexLevel(lx).spaces > column
        BY <2>3, <3>1 DEF LexFields, Quirk
      <3>2. CASE ~(LexLevel(lx).spaces > column)
        BY <2>3, <3>2 DEF LexFields
      <3>3. QED
        BY <3>1, <3>2
    <2>5. lx' = [f EXCEPT !.section = "done", !.out = token]
      BY <1>13
    <2> HIDE DEF f
    <2>6. Buffered(f)
      BY <2>3, <2>4 DEF Buffered
    <2>7. Levelled(f)
      <3>1. CASE LexLevel(lx).spaces > column
        BY <2>3, <2>4, <3>1 DEF Levelled
      <3>2. CASE ~(LexLevel(lx).spaces > column)
        <4>1. LexLevel(past).spaces <= column
          BY <1>2, <1>8, <2>1, <3>2
        <4>2. f.quirks = lx.quirks /\ f.levels = level.levels /\ past.levels = lx.levels
          BY <2>1, <2>3, <2>4, <3>2
        <4>3. "left" \notin lx.quirks => Deepens(lx.levels)
          BY <1>2 DEF Levelled
        <4>4. QED
          BY <2>3, <4>1, <4>2, <4>3 DEF Levelled
      <3>3. QED
        BY <3>1, <3>2
    <2>8. Ahead(f)
      <3>1. f.cur \in Nat /\ f.line \in Nat
        BY <2>6 DEF Buffered
      <3>2. f.cur >= lx.cur /\ f.line = lx.line /\ f.line <= f.cur
        BY <1>2, <1>7, <1>10, <2>1, <2>3, <2>4, <3>1
      <3>3. \A i : i \notin f.cur..f.line - 1
        BY <3>1, <3>2
      <3>4. QED
        BY <3>3 DEF Ahead
    <2>9. LexLevel(f).status \notin Apart
      BY <2>3, <2>4 DEF LexLevel, Apart
    <2>11. "cut" \notin f.quirks => Len(f.levels) - 1 = open + Change(f.force) + Change(token.type)
      <3>1. "cut" \notin f.quirks => "cut" \notin lx.quirks
        BY <2>1, <2>3, <2>4
      <3>2. Change(f.force) = 1
        BY <2>4 DEF Change
      <3>3. Len(f.levels) = Len(lx.levels) + 1
        BY <2>1, <2>3, <2>4
      <3>4. QED
        BY <1>2, <1>6, <3>1, <3>2, <3>3
    <2>12. f.force \in {"none", "IOPEN"}
      BY <2>4
    <2>13. TokInv(lx', open)
      BY <1>2, <2>5, <2>6, <2>7, <2>8, <2>9, <2>11, <2>12, Returned
    <2>14. QED
      BY <2>5, <2>6, <2>13, IsDone
  <1>14. QED
    BY <1>3, <1>11, <1>12, <1>13

\* The rules of the document.
LEMMA DocumentStep ==
  ASSUME TokInv(lx, open), DocumentNext
  PROVE  TokInv(lx', open) /\ Reads
  BY OpenStep, NewlineStep, CollectionStep, SeparateStep, NameStep, BeginStep, EntryStep DEF DocumentNext

(***************************************************************************)
(* Plain scalars, tags and comments.                                       *)
(***************************************************************************)
Loose == {"plain", "tag", "comment"}

\* What a step in a plain scalar, a tag or a comment starts from.
LEMMA AtLoose ==
  ASSUME TokInv(lx, open), lx.section \in Loose
  PROVE  /\ Buffered(lx) /\ Ahead(lx) /\ Levelled(lx) /\ Stack(lx.levels) /\ lx.force = "none"
         /\ open \in Nat /\ LexLevel(lx).status \notin Apart
         /\ lx.cur \in Nat /\ lx.line \in Nat /\ lx.token \in Nat /\ lx.token <= lx.cur
         /\ Onto(lx, lx) /\ SameStack(lx.levels, lx.levels)
  <1>1. lx.section \notin {"entry", "done", "1quote", "2quote", "block", "lost"}
    BY DEF Loose
  <1>2. /\ Buffered(lx) /\ Ahead(lx) /\ Levelled(lx) /\ Stack(lx.levels) /\ lx.force = "none"
        /\ open \in Nat /\ LexLevel(lx).status \notin Apart
        /\ lx.cur \in Nat /\ lx.line \in Nat /\ lx.token \in Nat /\ lx.token <= lx.cur
    BY <1>1, InCall
  <1>3. QED
    BY <1>2, OntoItself, SameIsSame

\* Labels further on.
LEMMA Further ==
  ASSUME TokInv(lx, open), lx.section \in Loose, NEW f, Onto(lx, f), f.cur > lx.cur, NEW text
  PROVE  /\ lx' = ToPlain(f, text) => TokInv(lx', open) /\ Reads
         /\ lx' = ToTag(f, text) => TokInv(lx', open) /\ Reads
         /\ lx' = ToComment(f, "plain") => TokInv(lx', open) /\ Reads
  <1>1. lx.force = "none" /\ Stack(f.levels) /\ Buffered(f)
    BY AtLoose DEF Onto
  <1>2. TokInv(ToPlain(f, text), open) /\ TokInv(ToTag(f, text), open) /\ TokInv(ToComment(f, "plain"), open)
    BY <1>1, Jumps DEF Loose
  <1>3. ToPlain(f, text).cur = f.cur /\ ToTag(f, text).cur = f.cur /\ ToComment(f, "plain").cur = f.cur
    BY <1>1, LabelPlaces
  <1>4. QED
    BY <1>2, <1>3, Onwards

\* Tokens that say nothing of the levels.
LEMMA Told ==
  ASSUME TokInv(lx, open), lx.section \in Loose, NEW f, Buffered(f), f.force = lx.force,
         f.quirks = lx.quirks, SameStack(lx.levels, f.levels), Ahead(f),
         NEW token, Change(token.type) = 0, lx' = [f EXCEPT !.section = "done", !.out = token]
  PROVE  TokInv(lx', open) /\ Reads
  <1>1. TokInv(lx', open)
    BY ReturnedHere DEF Loose
  <1>2. QED
    BY <1>1, IsDone

\* A scalar neither opens nor closes a level.
LEMMA WordToken ==
  ASSUME NEW text, NEW style
  PROVE  Change(Word(text, style).type) = 0
  BY DEF Word, NoToken, Change, Closers

\* Two characters that are seen are read.
LEMMA Two ==
  ASSUME NEW l, Buffered(l)
  PROVE  Peek(l, l.cur + 1) # NUL =>
           LET f == Forward(l, 2) IN
           Moved(l, f) /\ Buffered(f) /\ Onto(l, f) /\ f.cur > l.cur /\ f.token = l.token
  <1> SUFFICES ASSUME Peek(l, l.cur + 1) # NUL
               PROVE  LET f == Forward(l, 2) IN
                      Moved(l, f) /\ Buffered(f) /\ Onto(l, f) /\ f.cur > l.cur /\ f.token = l.token
    OBVIOUS
  <1> DEFINE f == Forward(l, 2)
  <1>1. 1 \in Nat /\ 1 + 1 = 2 /\ l.cur \in Nat
    BY DEF Buffered
  <1>2. Moved(l, f) /\ Buffered(f) /\ f.cur = l.cur + 1 + 1 /\ f.token = l.token
    BY <1>1, Next1
  <1> HIDE DEF f
  <1>3. f.cur > l.cur /\ f.cur >= l.cur
    BY <1>1, <1>2
  <1>4. Onto(l, f)
    BY <1>2, <1>3, MovedOnto
  <1>5. QED
    BY <1>2, <1>3, <1>4 DEF f

\* Both halves of a pair are seen.
LEMMA PairDigits ==
  ASSUME NEW l, Buffered(l), IsPair(l)
  PROVE  LET f == Forward(l, 12) IN Moved(l, f) /\ Buffered(f) /\ Onto(l, f) /\ f.cur > l.cur
  <1> DEFINE f == Forward(l, 12)
             low == Forward(l, 6)
  <1>1. l.cur \in Nat /\ 5 \in 2..5 /\ 11 \in Nat /\ 11 + 1 = 12 /\ 4 + 1 = 5
    BY DEF Buffered
  <1>2. /\ low.cur = l.cur + 6 /\ low.src = l.src /\ low.limit = l.limit
    BY DEF Forward, Buffered, LexFields
  <1>3. IsHexEscape(low, "u", 4)
    BY DEF IsPair, IsHalf
  <1> HIDE DEF low
  <1>4. IsHexChar(Peek(low, low.cur + 5))
    BY <1>1, <1>3 DEF IsHexEscape
  <1>5. low.cur + 5 = l.cur + 11
    BY <1>1, <1>2
  <1>6. IsHexChar(Peek(l, l.cur + 11))
    BY <1>2, <1>4, <1>5 DEF Peek
  <1>7. ~IsHexChar(NUL)
    BY DEF IsHexChar, Digits, NUL
  <1>8. Peek(l, l.cur + 11) # NUL
    BY <1>6, <1>7
  <1>9. Moved(l, f) /\ Buffered(f) /\ f.cur = l.cur + 11 + 1
    BY <1>1, <1>8, Next1
  <1> HIDE DEF f
  <1>10. f.cur > l.cur /\ f.cur >= l.cur
    BY <1>1, <1>9
  <1>11. Onto(l, f)
    BY <1>9, <1>10, MovedOnto
  <1>12. QED
    BY <1>9, <1>10, <1>11 DEF f

\* The digits of a code are seen, and its letter.
LEMMA HexDigits ==
  ASSUME NEW l, Buffered(l), NEW letter, NEW n \in Nat, n >= 2, IsHexEscape(l, letter, n)
  PROVE  LET f == Forward(l, n + 1 + 1) IN Moved(l, f) /\ Buffered(f) /\ Onto(l, f) /\ f.cur > l.cur
  <1> DEFINE f == Forward(l, n + 1 + 1)
  <1>1. \A i \in 2..n + 1 : IsHexChar(Peek(l, l.cur + i))
    BY DEF IsHexEscape
  <1>2. n + 1 \in 2..n + 1 /\ n + 1 \in Nat /\ l.cur \in Nat
    BY DEF Buffered
  <1>3. IsHexChar(Peek(l, l.cur + (n + 1)))
    BY <1>1, <1>2
  <1>4. ~IsHexChar(NUL)
    BY DEF IsHexChar, Digits, NUL
  <1>5. Peek(l, l.cur + (n + 1)) # NUL
    BY <1>3, <1>4
  <1>6. Moved(l, f) /\ Buffered(f) /\ f.cur = l.cur + (n + 1) + 1
    BY <1>2, <1>5, Next1
  <1> HIDE DEF f
  <1>7. f.cur > l.cur /\ f.cur >= l.cur
    BY <1>2, <1>6
  <1>8. QED
    BY <1>6, <1>7, MovedOnto DEF f

\* The cursor of l, from where f is.
LEMMA Returning ==
  ASSUME NEW l, Buffered(l), NEW f, Moved(l, f), Buffered(f), f.token = l.token, f.limit >= l.limit
  PROVE  LET g == [f EXCEPT !.cur = l.cur] IN
         Moved(l, g) /\ Buffered(g) /\ g.cur = l.cur /\ g.token = l.token
  <1> DEFINE g == [f EXCEPT !.cur = l.cur]
  <1>1. l.cur \in Nat /\ f.token <= l.cur /\ l.cur <= f.limit + 1
    <2>1. l.cur \in Nat /\ l.limit \in Nat /\ f.limit \in Nat /\ l.token <= l.cur /\ l.cur <= l.limit + 1
      BY DEF Buffered
    <2>2. QED
      BY <2>1
  <1>2. Moved(f, g) /\ Buffered(g) /\ g.cur = l.cur /\ g.token = f.token
    BY <1>1, AtCursor
  <1>3. QED
    BY <1>2 DEF Moved

\* The rules of plain scalars.
LEMMA PlainStep ==
  ASSUME TokInv(lx, open), PlainNext
  PROVE  TokInv(lx', open) /\ Reads
  <1>1. lx.section = "plain"
    BY DEF PlainNext, PlainEnd, PlainFlowEnd, PlainNewline, PlainComment, PlainBlank, PlainComma,
           PlainOther, In
  <1>2. /\ Buffered(lx) /\ Ahead(lx) /\ Stack(lx.levels) /\ lx.force = "none"
        /\ LexLevel(lx).status \notin Apart
        /\ lx.cur \in Nat /\ lx.line \in Nat /\ lx.token \in Nat /\ lx.token <= lx.cur
        /\ SameStack(lx.levels, lx.levels) /\ lx.section \in Loose
    BY <1>1, AtLoose DEF Loose
  <1>3. \A i \in lx.token..lx.cur - 1 : At(lx.src, i) \in {" ", "\t"}
    BY <1>1 DEF TokInv, Placed
  <1> DEFINE p == Forward(lx, 1)
  <1>4. CASE PlainEnd \/ PlainFlowEnd
    <2> DEFINE b == Back(lx)
    <2>1. PICK text : lx' = [b EXCEPT !.section = "done", !.out = Word(text, "plain")]
      BY <1>4 DEF PlainEnd, PlainFlowEnd, Returns
    <2>2. Moved(lx, b) /\ Buffered(b) /\ b.cur = lx.token
      BY <1>2, BackFacts
    <2> HIDE DEF b
    <2>3. b.src = lx.src /\ b.line = lx.line /\ b.levels = lx.levels /\ b.force = lx.force /\ b.quirks = lx.quirks
      BY <2>2 DEF Moved
    <2>4. Ahead(b)
      <3> SUFFICES ASSUME NEW i \in lx.token..lx.line - 1
                   PROVE  At(lx.src, i) \in {" ", "\t", "\n"}
        BY <2>2, <2>3 DEF Ahead
      <3>1. i \in lx.token..lx.cur - 1 \/ i \in lx.cur..lx.line - 1
        BY <1>2
      <3>2. \A j \in lx.cur..lx.line - 1 : At(lx.src, j) \in {" ", "\t", "\n"}
        BY <1>2 DEF Ahead
      <3>3. QED
        BY <1>3, <3>1, <3>2
    <2>5. SameStack(lx.levels, b.levels)
      BY <1>2, <2>3
    <2>6. Change(Word(text, "plain").type) = 0
      BY WordToken
    <2>7. QED
      BY <1>2, <2>1, <2>2, <2>3, <2>4, <2>5, <2>6, Told
  <1>5. CASE PlainNewline
    <2> DEFINE f == Gobbled(lx)
               b == Back(f)
    <2>1. Here(lx) = "\n"
      BY <1>5 DEF PlainNewline, Char
    <2>2. /\ lx' = [b EXCEPT !.section = "done", !.out = Word(lx.text, "plain")]
          \/ lx' = ToPlain(f, lx.text \o Fold(f))
      BY <1>5 DEF PlainNewline, Returns
    <2>3. /\ DOMAIN f = LexFields /\ Buffered(f) /\ f.src = lx.src /\ f.token = lx.token
          /\ f.force = lx.force /\ f.quirks = lx.quirks /\ f.levels = lx.levels
          /\ lx.cur < f.line /\ f.line <= f.cur
      BY <1>2, <2>1, GobbledFacts
    <2>4. \A i \in lx.cur..f.cur - 1 : At(lx.src, i) \in {" ", "\n"}
      BY <1>2, <2>1, GobbledFacts
    <2> DEFINE text == lx.text \o Fold(f)
    <2> HIDE DEF text
    <2>5. CASE lx' = ToPlain(f, text)
      <3> HIDE DEF f
      <3>1. f.cur \in Nat /\ f.line \in Nat
        BY <2>3 DEF Buffered
      <3>2. f.cur > lx.cur /\ f.cur >= lx.cur
        BY <1>2, <2>3, <3>1
      <3>3. Onto(lx, f)
        BY <2>3, <3>2 DEF Onto
      <3>4. QED
        BY <1>2, <2>5, <3>2, <3>3, Further
    <2>6. CASE lx' = [b EXCEPT !.section = "done", !.out = Word(lx.text, "plain")]
      <3> HIDE DEF f
      <3>1. Moved(f, b) /\ Buffered(b) /\ b.cur = f.token
        BY <2>3, BackFacts
      <3> HIDE DEF b
      <3>2. b.src = lx.src /\ b.line = f.line /\ b.levels = lx.levels /\ b.force = lx.force /\ b.quirks = lx.quirks
        BY <2>3, <3>1 DEF Moved
      <3>3. Ahead(b)
        <4> SUFFICES ASSUME NEW i \in lx.token..f.line - 1
                     PROVE  At(lx.src, i) \in {" ", "\t", "\n"}
          BY <2>3, <3>1, <3>2 DEF Ahead
        <4>1. f.cur \in Nat /\ f.line \in Nat /\ f.line <= f.cur
          BY <2>3 DEF Buffered
        <4>2. i \in lx.token..lx.cur - 1 \/ i \in lx.cur..f.cur - 1
          BY <1>2, <4>1
        <4>3. QED
          BY <1>3, <2>4, <4>2
      <3>4. SameStack(lx.levels, b.levels)
        BY <1>2, <3>2
      <3>5. Change(Word(lx.text, "plain").type) = 0
        BY WordToken
      <3>6. QED
        BY <1>2, <2>6, <3>1, <3>2, <3>3, <3>4, <3>5, Told
    <2>7. QED
      BY <2>2, <2>5, <2>6 DEF text
  <1>6. CASE PlainComment
    <2> DEFINE f == Forward(lx, 2)
    <2>1. lx' = ToComment(f, "plain") /\ Peek(lx, lx.cur + 1) # NUL
      BY <1>6 DEF PlainComment, Following, NUL
    <2>2. 1 \in Nat /\ 1 + 1 = 2
      OBVIOUS
    <2>3. Moved(lx, f) /\ Buffered(f) /\ f.cur = lx.cur + 1 + 1
      BY <1>2, <2>1, <2>2, Next1
    <2> HIDE DEF f
    <2>4. f.cur > lx.cur /\ f.cur >= lx.cur
      BY <1>2, <2>3
    <2>5. Onto(lx, f)
      BY <2>3, <2>4, MovedOnto
    <2>6. QED
      BY <1>2, <2>1, <2>4, <2>5, Further
  <1>7. CASE PlainBlank
    <2> DEFINE g == Need(p, 3)
               text == ""
    <2>1. Here(lx) \in {" ", "\t"} /\ (lx' = ToPlain(p, text) \/ lx' = g)
      BY <1>7 DEF PlainBlank, Char
    <2> HIDE DEF text
    <2>2. Here(lx) # NUL
      BY <2>1 DEF NUL
    <2>3. Moved(lx, p) /\ Buffered(p) /\ Onto(lx, p) /\ p.cur = lx.cur + 1 /\ p.cur > lx.cur /\ p.token = lx.token
      BY <1>2, <2>2, One
    <2>4. At(lx.src, lx.cur) = Here(lx)
      BY <1>2, <2>2, Seen DEF Here
    <2> HIDE DEF p
    <2>5. CASE lx' = ToPlain(p, text)
      BY <1>2, <2>3, <2>5, Further
    <2>6. CASE lx' = g
      <3>1. Moved(p, g) /\ Buffered(g) /\ g.cur = p.cur /\ g.token = p.token
        BY <2>3, NeedFacts
      <3> HIDE DEF g
      <3>8. g.section = "plain"
        BY <1>1, <2>3, <3>1 DEF Moved
      <3>2. /\ g.src = lx.src /\ g.line = lx.line /\ g.force = lx.force /\ g.quirks = lx.quirks
            /\ g.levels = lx.levels /\ g.cur = lx.cur + 1 /\ g.token = lx.token
        BY <2>3, <3>1 DEF Moved
      <3>3. Carried(lx, g)
        BY <1>2, <3>2 DEF Carried
      <3>4. \A i \in g.token..g.cur - 1 : At(g.src, i) \in {" ", "\t"}
        <4>3. g.cur - 1 = lx.cur /\ g.token = lx.token /\ g.src = lx.src
          BY <1>2, <3>2
        <4> SUFFICES ASSUME NEW i \in lx.token..lx.cur
                     PROVE  At(lx.src, i) \in {" ", "\t"}
          BY <4>3
        <4>1. i \in lx.token..lx.cur - 1 \/ i = lx.cur
          BY <1>2
        <4>2. QED
          BY <1>3, <2>1, <2>4, <4>1
      <3>5. g.cur >= lx.cur /\ g.cur > lx.cur
        BY <1>2, <3>2
      <3>6. TokInv(g, open)
        BY <1>1, <1>2, <3>1, <3>3, <3>4, <3>5, <3>8, GoesOn DEF Fresh
      <3>7. QED
        BY <2>6, <3>5, <3>6, Onwards
    <2>7. QED
      BY <2>1, <2>5, <2>6
  <1>8. CASE PlainComma
    <2> DEFINE s == Skip(p, {" "})
               f == [s EXCEPT !.cur = s.cur - 1]
               text == s.text \o SubSeq(s.src, s.token, s.cur - 2)
    <2>1. PICK word : lx' = ToPlain(f, word)
      BY <1>8 DEF PlainComma, Keeping
    <2>2. Here(lx) # NUL /\ Peek(lx, lx.cur + 1) # NUL
      BY <1>8 DEF PlainComma, Char, Following, NUL
    <2>3. /\ Moved(lx, p) /\ Buffered(p) /\ p.cur = lx.cur + 1 /\ p.token = lx.token /\ p.limit = lx.limit
      BY <1>2, <2>2, One
    <2>4. Here(p) = Following
      <3>1. lx.cur + 1 \in Nat /\ p.limit >= lx.limit /\ p.src = lx.src
        BY <1>2, <2>3 DEF Moved, Buffered
      <3>2. Peek(p, lx.cur + 1) = Peek(lx, lx.cur + 1)
        BY <1>2, <2>2, <2>3, <3>1, StillSeen
      <3>3. QED
        BY <2>3, <3>2 DEF Here, Following
    <2>5. Here(p) \in {" "} \ {NUL}
      BY <1>8, <2>4 DEF PlainComma, NUL
    <2> HIDE DEF p
    <2>6. Moved(p, s) /\ Buffered(s) /\ s.token = p.token /\ s.cur > p.cur
      BY <2>3, <2>5, Run
    <2> HIDE DEF s
    <2>7. /\ s.cur \in Nat /\ s.cur - 1 \in Nat /\ s.cur - 1 > lx.cur /\ s.cur - 1 >= lx.cur
          /\ s.token <= s.cur - 1 /\ s.cur - 1 <= s.limit + 1
      <3>1. s.cur \in Nat /\ s.limit \in Nat /\ s.cur <= s.limit + 1 /\ s.token = lx.token
        BY <2>3, <2>6 DEF Buffered
      <3>2. QED
        BY <1>2, <2>3, <2>6, <3>1
    <2>8. Moved(s, f) /\ Buffered(f) /\ f.cur = s.cur - 1
      BY <2>6, <2>7, AtCursor
    <2> HIDE DEF f
    <2>9. Moved(lx, f)
      BY <2>3, <2>6, <2>8 DEF Moved
    <2>10. Onto(lx, f) /\ f.cur > lx.cur
      BY <2>7, <2>8, <2>9, MovedOnto
    <2>11. QED
      BY <1>2, <2>1, <2>10, Further
  <1>9. CASE PlainOther
    <2> DEFINE f == [lx EXCEPT !.cur = lx.cur + 1]
    <2>1. PICK word : lx' = ToPlain(f, word)
      BY <1>9 DEF PlainOther, Keeping
    <2>2. Here(lx) # NUL
      BY <1>9 DEF PlainOther, Ended
    <2>3. f = p
      BY DEF Forward
    <2>4. Onto(lx, f) /\ f.cur > lx.cur
      BY <1>2, <2>2, <2>3, One
    <2> HIDE DEF f
    <2>5. QED
      BY <1>2, <2>1, <2>4, Further
  <1>10. QED
    BY <1>4, <1>5, <1>6, <1>7, <1>8, <1>9 DEF PlainNext

\* The rules of tags.
LEMMA TagStep ==
  ASSUME TokInv(lx, open), TagNext
  PROVE  TokInv(lx', open) /\ Reads
  <1>1. lx.section = "tag"
    BY DEF TagNext, TagEnd, TagLetter, TagByte, TagOther, In
  <1>2. /\ Buffered(lx) /\ Ahead(lx) /\ Stack(lx.levels) /\ lx.force = "none"
        /\ lx.cur \in Nat /\ lx.token \in Nat /\ lx.line \in Nat
        /\ SameStack(lx.levels, lx.levels) /\ lx.section \in Loose
    BY <1>1, AtLoose DEF Loose
  <1>3. CASE TagEnd
    <2> DEFINE p == Forward(lx, 1)
               s == Skip(p, {" "})
               b == [s EXCEPT !.cur = lx.cur]
               f == IF Char = " " THEN b ELSE lx
               g == Prefixed(f, lx.text)
    <2>1. \/ lx' = [f EXCEPT !.section = "done", !.out = Token("ITRANSFER")]
          \/ lx' = [g EXCEPT !.section = "done", !.out = [Token("TRANSFER") EXCEPT !.name = g.out.name]]
      BY <1>3 DEF TagEnd, Returns
    <2>2. Moved(lx, f) /\ Buffered(f) /\ f.cur = lx.cur
      <3>1. CASE Char = " "
        <4>1. Here(lx) # NUL
          BY <3>1 DEF Char, NUL
        <4>2. /\ Moved(lx, p) /\ Buffered(p) /\ p.cur = lx.cur + 1
              /\ p.token = lx.token /\ p.limit = lx.limit
          BY <1>2, <4>1, One
        <4> HIDE DEF p
        <4>3. Moved(p, s) /\ Buffered(s) /\ s.token = p.token /\ s.limit >= p.limit
          BY <4>2, Run
        <4> HIDE DEF s
        <4>4. Moved(lx, s) /\ s.token = lx.token /\ s.limit >= lx.limit
          BY <4>2, <4>3 DEF Moved
        <4>5. Moved(lx, b) /\ Buffered(b) /\ b.cur = lx.cur
          BY <1>2, <4>3, <4>4, Returning
        <4>6. f = b
          BY <3>1
        <4>7. QED
          BY <4>5, <4>6
      <3>2. CASE Char # " "
        <4>1. f = lx
          BY <3>2
        <4>2. Moved(lx, lx)
          BY <1>2 DEF Moved, Buffered
        <4>3. QED
          BY <1>2, <4>1, <4>2
      <3>3. QED
        BY <3>1, <3>2
    <2> HIDE DEF f
    <2>3. /\ f.force = lx.force /\ f.quirks = lx.quirks /\ f.levels = lx.levels
          /\ f.src = lx.src /\ f.line = lx.line
      BY <2>2 DEF Moved
    <2>4. Ahead(f)
      BY <1>2, <2>2, <2>3 DEF Ahead
    <2>5. CASE lx' = [f EXCEPT !.section = "done", !.out = Token("ITRANSFER")]
      <3>1. Change(Token("ITRANSFER").type) = 0
        BY DEF Token, NoToken, Change, Closers
      <3>2. QED
        BY <1>2, <2>2, <2>3, <2>4, <2>5, <3>1, Told
    <2>6. CASE lx' = [g EXCEPT !.section = "done", !.out = [Token("TRANSFER") EXCEPT !.name = g.out.name]]
      <3> DEFINE name == lx.text
      <3>1. PICK word, domain :
              \/ g = [f EXCEPT !.out.name = word]
              \/ g = [[f EXCEPT !.levels[Len(f.levels)].domain = domain] EXCEPT !.out.name = word]
        BY DEF Prefixed, Spelt
      <3> HIDE DEF g
      <3>2. DOMAIN f = LexFields
        BY <2>2 DEF Buffered
      <3> DEFINE m == [f EXCEPT !.levels[Len(f.levels)].domain = domain]
                 top == [f.levels[Len(f.levels)] EXCEPT !.domain = domain]
      <3>3. /\ DOMAIN m = LexFields /\ m.levels = [f.levels EXCEPT ![Len(f.levels)] = top]
            /\ \A x \in LexFields \ {"levels"} : m[x] = f[x]
        BY <3>2 DEF LexFields
      <3>4. SameStack(lx.levels, m.levels)
        <4>1. /\ Last(lx.levels) = lx.levels[Len(lx.levels)] /\ IsLevel(Last(lx.levels))
          BY <1>2, StackTop
        <4>2. /\ DOMAIN top = LevelFields /\ top.spaces = Last(lx.levels).spaces
              /\ top.status = Last(lx.levels).status
          BY <2>3, <4>1 DEF IsLevel, LevelFields
        <4>3. IsLevel(top)
          BY <4>1, <4>2 DEF IsLevel
        <4> HIDE DEF top
        <4>4. SameStack(lx.levels, [lx.levels EXCEPT ![Len(lx.levels)] = top])
          BY <1>2, <4>2, <4>3, Changed
        <4>5. QED
          BY <2>3, <3>3, <4>4
      <3> HIDE DEF m
      <3>5. /\ DOMAIN g = LexFields /\ \A x \in LexFields \ {"levels", "out"} : g[x] = f[x]
            /\ g.levels \in {f.levels, m.levels}
        BY <3>1, <3>2, <3>3 DEF LexFields, m
      <3>6. /\ g.src = f.src /\ g.cur = f.cur /\ g.token = f.token /\ g.line = f.line
            /\ g.limit = f.limit /\ g.base = f.base /\ g.doc = f.doc
            /\ g.force = f.force /\ g.quirks = f.quirks
        BY <3>5 DEF LexFields
      <3>7. Buffered(g)
        BY <2>2, <3>5, <3>6 DEF Buffered
      <3>8. SameStack(lx.levels, g.levels)
        BY <1>2, <2>3, <3>4, <3>5
      <3>9. Ahead(g)
        BY <2>4, <3>6 DEF Ahead
      <3>10. Change([Token("TRANSFER") EXCEPT !.name = g.out.name].type) = 0
        BY DEF Token, NoToken, Change, Closers
      <3>11. QED
        BY <1>2, <2>3, <2>6, <3>6, <3>7, <3>8, <3>9, <3>10, Told
    <2>7. QED
      BY <2>1, <2>5, <2>6
  <1>4. CASE TagLetter
    <2> DEFINE f == Forward(lx, 2)
    <2>1. PICK text : lx' = ToTag(f, text)
      BY <1>4 DEF TagLetter
    <2>2. Peek(lx, lx.cur + 1) # NUL
      BY <1>4 DEF TagLetter, IsLetter, TagLetters, NUL
    <2>3. Onto(lx, f) /\ f.cur > lx.cur
      BY <1>2, <2>2, Two
    <2> HIDE DEF f
    <2>4. QED
      BY <1>2, <2>1, <2>3, Further
  <1>5. CASE TagByte
    <2> DEFINE f == Forward(lx, 4)
    <2>1. PICK text : lx' = ToTag(f, text)
      BY <1>5 DEF TagByte
    <2>2. 2 \in Nat /\ 2 >= 2 /\ 2 + 1 + 1 = 4
      OBVIOUS
    <2>3. IsHexEscape(lx, "x", 2)
      BY <1>5 DEF TagByte
    <2>4. Onto(lx, f) /\ f.cur > lx.cur
      BY <1>2, <2>2, <2>3, HexDigits
    <2> HIDE DEF f
    <2>5. QED
      BY <1>2, <2>1, <2>4, Further
  <1>6. CASE TagOther
    <2> DEFINE f == Forward(lx, 1)
    <2>1. PICK text : lx' = ToTag(f, text)
      BY <1>6 DEF TagOther
    <2>2. Here(lx) # NUL
      BY <1>6 DEF TagOther, Char
    <2>3. Onto(lx, f) /\ f.cur > lx.cur
      BY <1>2, <2>2, One
    <2> HIDE DEF f
    <2>4. QED
      BY <1>2, <2>1, <2>3, Further
  <1>7. QED
    BY <1>3, <1>4, <1>5, <1>6 DEF TagNext

\* The rules of comments.
LEMMA CommentStep ==
  ASSUME TokInv(lx, open), CommentNext
  PROVE  TokInv(lx', open) /\ Reads
  <1>1. lx.section = "comment"
    BY DEF CommentNext, CommentChar, CommentEnd, In
  <1>2. /\ Buffered(lx) /\ Ahead(lx) /\ Stack(lx.levels) /\ lx.force = "none"
        /\ lx.cur \in Nat /\ lx.token \in Nat /\ lx.line \in Nat
        /\ Onto(lx, lx) /\ SameStack(lx.levels, lx.levels) /\ lx.section \in Loose
    BY <1>1, AtLoose DEF Loose
  <1>3. lx.section \notin {"1quote", "2quote", "block", "lost", "done"}
    BY <1>1
  <1>4. lx.after = "block" => lx.line < lx.cur
    BY <1>1 DEF TokInv, Placed
  <1>5. CASE CommentChar
    <2> DEFINE f == Forward(lx, 1)
    <2>1. lx' = ToComment(f, lx.after) /\ Here(lx) # NUL
      BY <1>5 DEF CommentChar, Char
    <2>2. Moved(lx, f) /\ Onto(lx, f) /\ f.cur > lx.cur /\ Stack(f.levels) /\ Buffered(f)
      BY <1>2, <2>1, One DEF Onto
    <2> HIDE DEF f
    <2>3. f.line = lx.line /\ f.cur \in Nat
      BY <2>2 DEF Moved, Buffered
    <2>4. lx.after = "block" => f.line < f.cur
      BY <1>2, <1>4, <2>2, <2>3
    <2>5. TokInv(ToComment(f, lx.after), open)
      BY <1>2, <1>3, <2>2, <2>4, Jumps
    <2>6. ToComment(f, lx.after).cur = f.cur
      BY <2>2, LabelPlaces
    <2>7. QED
      BY <2>1, <2>2, <2>5, <2>6, Onwards
  <1>6. CASE CommentEnd
    <2>1. \/ lx' = ToHeader(lx) \/ lx' = ToDocument(lx)
          \/ lx.after = "block" /\ lx' = ToBlock(lx, lx.text)
          \/ lx' = [lx EXCEPT !.section = "done", !.out = Word(lx.text, "plain")]
      BY <1>6 DEF CommentEnd, Returns
    <2>2. CASE lx' = [lx EXCEPT !.section = "done", !.out = Word(lx.text, "plain")]
      <3>1. Change(Word(lx.text, "plain").type) = 0
        BY WordToken
      <3>2. QED
        BY <1>2, <2>2, <3>1, Told
    <2>3. CASE \/ lx' = ToHeader(lx) \/ lx' = ToDocument(lx)
               \/ lx.after = "block" /\ lx' = ToBlock(lx, lx.text)
      <3>1. TokInv(lx', open)
        BY <1>2, <1>3, <1>4, <2>3, Jumps
      <3>2. lx'.cur = lx.cur /\ lx'.section \in {"header", "document", "block"}
        BY <1>2, <2>3, LabelPlaces
      <3>3. Rank(lx'.section) > Rank("comment")
        BY <3>2 DEF Rank
      <3>4. QED
        BY <1>1, <3>1, <3>2, <3>3 DEF Reads
    <2>4. QED
      BY <2>1, <2>2, <2>3
  <1>7. QED
    BY <1>5, <1>6 DEF CommentNext

(***************************************************************************)
(* Quoted scalars.                                                         *)
(***************************************************************************)
Quotes == {"1quote", "2quote"}

\* What a step inside quotes starts from.
LEMMA AtQuote ==
  ASSUME TokInv(lx, open), lx.section \in Quotes
  PROVE  /\ Buffered(lx) /\ Ahead(lx) /\ Levelled(lx) /\ Stack(lx.levels) /\ lx.force = "none"
         /\ open \in Nat /\ LexLevel(lx).status # "block" /\ lx.token = lx.cur
         /\ lx.cur \in Nat /\ lx.line \in Nat /\ Onto(lx, lx) /\ SameStack(lx.levels, lx.levels)
         /\ "cut" \notin lx.quirks => Len(lx.levels) - 1 - Extra(lx) = open
  <1>1. lx.section \notin {"entry", "done", "block"} /\ lx.section \in Fresh
    BY DEF Quotes, Fresh
  <1>2. /\ Buffered(lx) /\ Ahead(lx) /\ Levelled(lx) /\ Stack(lx.levels) /\ lx.force = "none"
        /\ open \in Nat /\ lx.token = lx.cur /\ lx.cur \in Nat /\ lx.line \in Nat
        /\ "cut" \notin lx.quirks => Len(lx.levels) - 1 - Extra(lx) = open
    BY <1>1, InCall
  <1>3. LexLevel(lx).status # "block"
    BY <1>1 DEF TokInv, Placed
  <1>4. QED
    BY <1>2, <1>3, OntoItself, SameIsSame

\* What goes on inside the quotes.
LEMMA Quoting ==
  ASSUME TokInv(lx, open), lx.section \in Quotes,
         NEW f, Onto(lx, f), f.section = lx.section, f.cur > lx.cur, NEW text
  PROVE  lx' = ToQuote(f, text) => TokInv(lx', open) /\ Reads
  <1> DEFINE g == ToQuote(f, text)
  <1>1. /\ Buffered(lx) /\ lx.force = "none" /\ LexLevel(lx).status # "block"
        /\ lx.cur \in Nat /\ lx.line \in Nat /\ Stack(lx.levels)
    BY AtQuote
  <1>2. Buffered(f) /\ Stack(f.levels)
    BY <1>1 DEF Onto
  <1>3. Buffered(g) /\ Carried(f, g) /\ g.cur = f.cur /\ g.section = f.section /\ g.token = f.cur
    BY <1>2, LabelFacts DEF Labelled
  <1> HIDE DEF g
  <1>4. /\ g.src = lx.src /\ g.force = lx.force /\ g.quirks = lx.quirks /\ g.section = lx.section
        /\ SameStack(lx.levels, g.levels) /\ g.line = f.line /\ g.token = g.cur
    BY <1>3 DEF Carried, Onto
  <1>5. g.cur > lx.cur /\ g.cur >= lx.cur
    BY <1>1, <1>2, <1>3 DEF Buffered
  <1>6. g.line <= g.cur \/ (g.line = lx.line /\ g.cur >= lx.cur)
    BY <1>3, <1>4, <1>5 DEF Onto
  <1>7. LexLevel(g).status # "block"
    BY <1>1, <1>4 DEF SameStack, LexLevel, Apart
  <1>8. g.section \in Quotes
    BY <1>4
  <1>9. Placed(g)
    BY <1>4, <1>7, <1>8 DEF Placed, Quotes, Fresh
  <1>10. lx.section # "done" /\ g.section # "done"
    BY <1>8, <1>4 DEF Quotes
  <1>11. TokInv(g, open)
    BY <1>1, <1>3, <1>4, <1>6, <1>9, <1>10, Goes
  <1>12. QED
    BY <1>5, <1>11, Onwards DEF g

\* The break of a line opens the level of the later lines, unless it is open.
LEMMA Continuing ==
  ASSUME TokInv(lx, open), lx.section \in Quotes,
         NEW m, Onto(lx, m), m.section = lx.section, NEW text
  PROVE  Here(m) = "\n" /\ lx' = ToQuote(Continued(m), text) => TokInv(lx', open) /\ Reads
  <1> SUFFICES ASSUME Here(m) = "\n", lx' = ToQuote(Continued(m), text)
               PROVE  TokInv(lx', open) /\ Reads
    OBVIOUS
  <1> DEFINE f == Gobbled(m)
             indent == Indent(f)
             c == AddLexLevel(f, indent, "str")
             g == ToQuote(c, text)
  <1>1. /\ Buffered(lx) /\ Levelled(lx) /\ lx.force = "none" /\ LexLevel(lx).status # "block"
        /\ open \in Nat /\ lx.cur \in Nat /\ lx.line \in Nat /\ Stack(lx.levels)
        /\ "cut" \notin lx.quirks => Len(lx.levels) - 1 - Extra(lx) = open
    BY AtQuote
  <1>2. /\ Buffered(m) /\ m.src = lx.src /\ m.force = lx.force /\ m.quirks = lx.quirks
        /\ m.levels = lx.levels /\ m.cur >= lx.cur
    BY DEF Onto
  <1>3. /\ DOMAIN f = LexFields /\ Buffered(f) /\ f.src = m.src /\ f.section = m.section
        /\ f.force = m.force /\ f.quirks = m.quirks /\ f.levels = m.levels
        /\ m.cur < f.line /\ f.line <= f.cur
        /\ Indent(f) = IF Here(f) = NUL THEN -1 ELSE f.cur - f.line
    BY <1>2, GobbledFacts
  <1>4. Continued(m) = IF LexLevel(f).status = "str" THEN f ELSE c
    BY DEF Continued
  <1> HIDE DEF f
  <1>5. f.cur \in Nat /\ f.line \in Nat /\ m.cur \in Nat
    BY <1>2, <1>3 DEF Buffered
  <1>6. f.cur > lx.cur /\ f.cur >= lx.cur
    BY <1>1, <1>2, <1>3, <1>5
  <1>7. CASE LexLevel(f).status = "str"
    <2>1. lx' = ToQuote(f, text)
      BY <1>4, <1>7
    <2>2. Onto(lx, f)
      BY <1>2, <1>3, <1>6 DEF Onto
    <2>3. QED
      BY <1>3, <1>6, <2>1, <2>2, Quoting
  <1>8. CASE LexLevel(f).status # "str"
    <2>1. lx' = g
      BY <1>4, <1>8
    <2>2. indent \in Int /\ indent >= -1
      <3>1. f.cur - f.line \in Int /\ f.cur - f.line >= -1
        BY <1>3, <1>5
      <3>2. indent = -1 \/ indent = f.cur - f.line
        BY <1>3
      <3>3. QED
        BY <3>1, <3>2
    <2> HIDE DEF indent
    <2>3. Stack(f.levels) /\ LexLevel(f) = LexLevel(lx)
      BY <1>1, <1>2, <1>3 DEF LexLevel
    <2>4. LexLevel(f).status \notin Apart
      BY <1>1, <1>8, <2>3 DEF Apart
    <2>5. /\ Beside(f, c) /\ Buffered(c) /\ Stack(c.levels) /\ Len(c.levels) = Len(f.levels) + 1
          /\ LexLevel(c).status = "str"
          /\ Deepens(f.levels) => Deepens(c.levels)
      BY <1>3, <2>2, <2>3, <2>4, AddFacts DEF Apart
    <2> HIDE DEF c
    <2>6. /\ c.cur = f.cur /\ c.line = f.line /\ c.force = f.force /\ c.quirks = f.quirks
          /\ c.section = f.section
      BY <2>5 DEF Beside
    <2>7. Buffered(g) /\ Carried(c, g) /\ g.cur = c.cur /\ g.section = c.section /\ g.token = c.cur
      BY <2>5, LabelFacts DEF Labelled
    <2> HIDE DEF g
    <2>8. /\ g.force = lx.force /\ g.quirks = lx.quirks /\ g.section = lx.section
          /\ g.line = f.line /\ g.cur = f.cur /\ g.token = g.cur
          /\ SameStack(c.levels, g.levels)
      BY <1>2, <1>3, <2>6, <2>7 DEF Carried
    <2>9. LexLevel(g).status = "str"
      BY <2>5, <2>8 DEF SameStack, LexLevel, Apart
    <2>10. g.section \in Quotes
      BY <2>8
    <2>11. Placed(g)
      BY <2>8, <2>9, <2>10 DEF Placed, Quotes, Fresh
    <2>12. Forcing(g)
      BY <1>1, <2>8 DEF Forcing
    <2>13. Levelled(g)
      <3>1. Stack(g.levels) /\ (Deepens(lx.levels) => Deepens(g.levels))
        BY <1>2, <1>3, <2>5, <2>8 DEF SameStack
      <3>2. QED
        BY <1>1, <2>8, <3>1 DEF Levelled
    <2>14. Ahead(g)
      <3>1. g.cur..g.line - 1 = {}
        BY <1>3, <1>5, <2>8
      <3>2. QED
        BY <3>1 DEF Ahead
    <2>15. Balanced(g, open)
      <3>1. Len(g.levels) = Len(lx.levels) + 1 /\ Len(lx.levels) \in Nat
        BY <1>1, <1>2, <1>3, <2>5, <2>8, StackTop DEF SameStack
      <3>2. Extra(g) = 1 /\ Extra(lx) = 0
        BY <2>3, <2>4, <2>9 DEF Extra, Apart
      <3>3. Due(g) = 0
        <4>1. g.section # "done" /\ g.force = "none"
          BY <1>1, <2>8, <2>10 DEF Quotes
        <4>2. Due(g) = Change("none") + 0
          BY <4>1 DEF Due
        <4>3. Change("none") = 0
          BY Changing
        <4>4. QED
          BY <4>2, <4>3
      <3>4. "cut" \notin g.quirks => Len(g.levels) - 1 - Extra(g) = open + Due(g)
        BY <1>1, <2>8, <3>1, <3>2, <3>3
      <3>5. QED
        BY <3>4 DEF Balanced
    <2>16. TokInv(g, open)
      BY <1>1, <2>7, <2>11, <2>12, <2>13, <2>14, <2>15 DEF TokInv
    <2>17. g.cur > lx.cur
      BY <1>6, <2>8
    <2>18. QED
      BY <2>1, <2>16, <2>17, Onwards
  <1>9. QED
    BY <1>7, <1>8

\* The closing quote closes the level of the later lines.
LEMMA QuoteEndStep ==
  ASSUME TokInv(lx, open), QuoteEnd
  PROVE  TokInv(lx', open) /\ Reads
  <1> DEFINE f == IF LexLevel(lx).status = "str" THEN PopLexLevel(lx) ELSE lx
             g == Forward(f, 1)
             word == Word(lx.text, lx.section)
  <1>1. lx' = [g EXCEPT !.section = "done", !.out = word] /\ Here(lx) # NUL
    BY DEF QuoteEnd, Returns, IsQuoteEnd, NUL
  <1>2. lx.section \in Quotes
    BY DEF QuoteEnd, InQuote, Quotes
  <1>3. /\ Buffered(lx) /\ Ahead(lx) /\ Levelled(lx) /\ lx.force = "none" /\ LexLevel(lx).status # "block"
        /\ open \in Nat /\ lx.cur \in Nat /\ lx.line \in Nat /\ Stack(lx.levels)
        /\ "cut" \notin lx.quirks => Len(lx.levels) - 1 - Extra(lx) = open
    BY <1>2, AtQuote
  <1>4. Change(word.type) = 0
    BY WordToken
  <1> HIDE DEF word
  <1>5. /\ Beside(lx, f) /\ Buffered(f) /\ Stack(f.levels) /\ (Deepens(lx.levels) => Deepens(f.levels))
        /\ LexLevel(f).status \notin Apart /\ Len(f.levels) = Len(lx.levels) - Extra(lx)
    <2>1. CASE LexLevel(lx).status = "str"
      <3>1. f = PopLexLevel(lx)
        BY <2>1
      <3>2. Len(lx.levels) # 1 /\ Len(lx.levels) \in Nat
        BY <1>3, <2>1, Outermost
      <3>3. Extra(lx) = 1
        BY <2>1 DEF Extra, Apart
      <3>4. QED
        BY <1>3, <3>1, <3>2, <3>3, PopFacts
    <2>2. CASE LexLevel(lx).status # "str"
      <3>1. f = lx
        BY <2>2
      <3>2. Extra(lx) = 0 /\ LexLevel(lx).status \notin Apart /\ Len(lx.levels) \in Nat
        BY <1>3, <2>2, StackTop DEF Extra, Apart
      <3>3. Beside(lx, lx)
        BY <1>3 DEF Beside, Buffered
      <3>4. QED
        BY <1>3, <3>1, <3>2, <3>3
    <2>3. QED
      BY <2>1, <2>2
  <1> HIDE DEF f
  <1>6. /\ f.cur = lx.cur /\ f.line = lx.line /\ f.src = lx.src /\ f.limit = lx.limit
        /\ f.force = lx.force /\ f.quirks = lx.quirks
    BY <1>5 DEF Beside
  <1>7. Here(f) # NUL
    BY <1>1, <1>6 DEF Here, Peek
  <1>8. Moved(f, g) /\ Buffered(g) /\ g.cur = f.cur + 1
    BY <1>5, <1>7, One
  <1> HIDE DEF g
  <1>9. /\ g.levels = f.levels /\ g.force = lx.force /\ g.quirks = lx.quirks
        /\ g.line = lx.line /\ g.src = lx.src /\ g.cur = lx.cur + 1
    BY <1>6, <1>8 DEF Moved
  <1>10. Ahead(g)
    <2> SUFFICES ASSUME NEW i \in g.cur..g.line - 1
                 PROVE  At(lx.src, i) \in {" ", "\t", "\n"}
      BY <1>9 DEF Ahead
    <2>1. i \in lx.cur..lx.line - 1
      BY <1>3, <1>9
    <2>2. QED
      BY <1>3, <2>1 DEF Ahead
  <1>11. Levelled(g)
    BY <1>3, <1>5, <1>9 DEF Levelled
  <1>12. LexLevel(g).status \notin Apart
    BY <1>5, <1>9 DEF LexLevel
  <1>13. "cut" \notin g.quirks => Len(g.levels) - 1 = open + Change(g.force) + Change(word.type)
    <2>1. Change(g.force) = 0
      BY <1>3, <1>9, Changing
    <2>2. Len(lx.levels) \in Nat /\ Extra(lx) \in {0, 1}
      BY <1>3, StackTop DEF Extra
    <2>3. "cut" \notin lx.quirks => Len(f.levels) - 1 = open + 0 + 0
      BY <1>3, <1>5, <2>2
    <2>4. QED
      BY <1>4, <1>9, <2>1, <2>3
  <1>14. g.force \in {"none", "IOPEN"}
    BY <1>3, <1>9
  <1>15. TokInv(lx', open)
    BY <1>1, <1>3, <1>8, <1>10, <1>11, <1>12, <1>13, <1>14, Returned
  <1>16. QED
    BY <1>1, <1>8, <1>15, IsDone

\* The rules of quoted scalars.
LEMMA QuoteStep ==
  ASSUME TokInv(lx, open), QuoteNext
  PROVE  TokInv(lx', open) /\ Reads
  <1>1. lx.section \in Quotes
    BY DEF QuoteNext, QuoteEnd, QuoteLost, QuoteNewline, QuoteDoubled, QuoteLetter, QuoteByte,
           QuoteCode, QuoteBreak, QuoteBlank, QuoteOther, In, InQuote, Quotes
  <1>2. /\ Buffered(lx) /\ lx.force = "none" /\ LexLevel(lx).status # "block"
        /\ open \in Nat /\ lx.cur \in Nat /\ lx.line \in Nat /\ Stack(lx.levels)
        /\ Onto(lx, lx) /\ SameStack(lx.levels, lx.levels) /\ lx.token = lx.cur
    BY <1>1, AtQuote
  <1>3. CASE QuoteEnd
    BY <1>3, QuoteEndStep
  <1>4. CASE QuoteLost
    <2> DEFINE g == [lx EXCEPT !.section = "lost"]
    <2>1. lx' = g
      BY <1>4 DEF QuoteLost, Losing
    <2>2. /\ DOMAIN g = LexFields /\ g.section = "lost"
          /\ \A x \in LexFields \ {"section"} : g[x] = lx[x]
      BY <1>2 DEF Buffered, LexFields
    <2> HIDE DEF g
    <2>3. /\ g.src = lx.src /\ g.cur = lx.cur /\ g.token = lx.token /\ g.line = lx.line
          /\ g.limit = lx.limit /\ g.base = lx.base /\ g.doc = lx.doc /\ g.levels = lx.levels
          /\ g.force = lx.force /\ g.quirks = lx.quirks
      BY <2>2 DEF LexFields
    <2>4. Buffered(g)
      BY <1>2, <2>2, <2>3 DEF Buffered
    <2>5. Placed(g)
      BY <1>2, <2>2, <2>3 DEF Placed, Fresh, LexLevel
    <2>6. g.cur >= lx.cur
      BY <1>2, <2>3
    <2>7. lx.section # "done" /\ g.section # "done"
      BY <1>1, <2>2 DEF Quotes
    <2>8. TokInv(g, open)
      BY <1>2, <2>3, <2>4, <2>5, <2>6, <2>7, Goes
    <2>9. QED
      BY <2>1, <2>2, <2>8, Onwards
  <1>5. CASE QuoteNewline
    <2>1. PICK text : Here(lx) = "\n" /\ lx' = ToQuote(Continued(lx), text)
      BY <1>5 DEF QuoteNewline, Char
    <2>2. QED
      BY <1>1, <1>2, <2>1, Continuing
  <1>6. CASE QuoteDoubled \/ QuoteLetter \/ QuoteBlank
    <2> DEFINE f == Forward(lx, 2)
    <2>1. PICK text : lx' = ToQuote(f, text)
      BY <1>6 DEF QuoteDoubled, QuoteLetter, QuoteBlank
    <2>2. Peek(lx, lx.cur + 1) # NUL
      BY <1>6 DEF QuoteDoubled, QuoteLetter, QuoteBlank, IsBlankEscape, IsLetter, QuoteLetters,
                  Following, NUL
    <2>3. Moved(lx, f) /\ Onto(lx, f) /\ f.cur > lx.cur
      BY <1>2, <2>2, Two
    <2> HIDE DEF f
    <2>4. f.section = lx.section
      BY <2>3 DEF Moved
    <2>5. QED
      BY <1>1, <2>1, <2>3, <2>4, Quoting
  <1>7. CASE QuoteCode /\ IsPair(lx)
    <2> DEFINE f == Forward(lx, 12)
    <2>1. PICK text : lx' = ToQuote(f, text)
      BY <1>7 DEF QuoteCode
    <2>2. Moved(lx, f) /\ Onto(lx, f) /\ f.cur > lx.cur
      BY <1>2, <1>7, PairDigits
    <2> HIDE DEF f
    <2>3. f.section = lx.section
      BY <2>2 DEF Moved
    <2>4. QED
      BY <1>1, <2>1, <2>2, <2>3, Quoting
  <1>8. CASE QuoteByte \/ (QuoteCode /\ ~IsPair(lx))
    <2>1. PICK n \in {2, 4} : \E letter, text :
            IsHexEscape(lx, letter, n) /\ lx' = ToQuote(Forward(lx, n + 2), text)
      <3>1. 2 \in {2, 4} /\ 4 \in {2, 4} /\ 2 + 2 = 4 /\ 4 + 2 = 6
        OBVIOUS
      <3>2. CASE QuoteByte
        <4>1. PICK text : lx' = ToQuote(Forward(lx, 4), text)
          BY <3>2 DEF QuoteByte
        <4>2. IsHexEscape(lx, "x", 2) /\ lx' = ToQuote(Forward(lx, 2 + 2), text)
          BY <3>1, <3>2, <4>1 DEF QuoteByte
        <4>3. QED
          BY <3>1, <4>2
      <3>3. CASE QuoteCode /\ ~IsPair(lx)
        <4>1. PICK text : lx' = ToQuote(Forward(lx, 6), text)
          BY <3>3 DEF QuoteCode
        <4>2. IsHexEscape(lx, "u", 4) /\ lx' = ToQuote(Forward(lx, 4 + 2), text)
          BY <3>1, <3>3, <4>1 DEF QuoteCode
        <4>3. QED
          BY <3>1, <4>2
      <3>4. QED
        BY <1>8, <3>2, <3>3
    <2>6. PICK letter, text : IsHexEscape(lx, letter, n) /\ lx' = ToQuote(Forward(lx, n + 2), text)
      BY <2>1
    <2> DEFINE f == Forward(lx, n + 2)
    <2>2. n \in Nat /\ n >= 2 /\ n + 1 + 1 = n + 2
      OBVIOUS
    <2>3. Moved(lx, f) /\ Onto(lx, f) /\ f.cur > lx.cur
      BY <1>2, <2>2, <2>6, HexDigits
    <2> HIDE DEF f
    <2>4. f.section = lx.section
      BY <2>3 DEF Moved
    <2>5. QED
      BY <1>1, <2>3, <2>4, <2>6, Quoting DEF f
  <1>9. CASE QuoteBreak
    <2> DEFINE p == Forward(lx, 1)
               s == Over(p, {" "}, 2)
               m == Mark(s, 4)
    <2>1. PICK text : lx' = ToQuote(Continued(m), text)
      BY <1>9 DEF QuoteBreak, EscapedBlanks
    <2>2. Here(s) = "\n"
      BY <1>9 DEF QuoteBreak, IsBreak, EscapedBlanks
    <2>3. Here(lx) # NUL
      BY <1>9 DEF QuoteBreak, IsBreak, IsLetter, NUL
    <2>4. Moved(lx, p) /\ Buffered(p) /\ p.cur = lx.cur + 1
      BY <1>2, <2>3, One
    <2> HIDE DEF p
    <2>5. Moved(p, s) /\ Buffered(s) /\ s.cur >= p.cur
      <3>1. 2 \in Nat
        OBVIOUS
      <3>2. QED
        BY <2>4, <3>1, OverFacts
    <2> HIDE DEF s
    <2>6. Moved(s, m) /\ Buffered(m) /\ m.cur = s.cur /\ m.limit >= s.limit
      <3>1. 4 \in Nat
        OBVIOUS
      <3>2. QED
        BY <2>5, <3>1, MarkFacts
    <2> HIDE DEF m
    <2>7. Here(m) = "\n"
      <3>1. m.src = s.src /\ s.cur \in Nat
        BY <2>5, <2>6 DEF Moved, Buffered
      <3>2. Peek(s, s.cur) # NUL
        BY <2>2 DEF Here, NUL
      <3>3. Peek(m, s.cur) = Peek(s, s.cur)
        BY <2>5, <2>6, <3>1, <3>2, StillSeen
      <3>4. QED
        BY <2>2, <2>6, <3>3 DEF Here
    <2>8. Moved(lx, m)
      BY <2>4, <2>5, <2>6 DEF Moved
    <2>9. m.cur >= lx.cur
      <3>1. s.cur \in Nat
        BY <2>5 DEF Buffered
      <3>2. QED
        BY <1>2, <2>4, <2>5, <2>6, <3>1
    <2>10. Onto(lx, m) /\ m.section = lx.section
      BY <2>6, <2>8, <2>9, MovedOnto DEF Moved
    <2>11. QED
      BY <1>1, <2>1, <2>7, <2>10, Continuing
  <1>10. CASE QuoteOther
    <2> DEFINE f == Forward(lx, 1)
    <2>1. PICK text : lx' = ToQuote(f, text)
      BY <1>10 DEF QuoteOther
    <2>2. Here(lx) # NUL
      BY <1>10 DEF QuoteOther, Char
    <2>3. Moved(lx, f) /\ Onto(lx, f) /\ f.cur > lx.cur
      BY <1>2, <2>2, One
    <2> HIDE DEF f
    <2>4. f.section = lx.section
      BY <2>3 DEF Moved
    <2>5. QED
      BY <1>1, <2>1, <2>3, <2>4, Quoting
  <1>11. QED
    BY <1>3, <1>4, <1>5, <1>6, <1>7, <1>8, <1>9, <1>10 DEF QuoteNext

(***************************************************************************)
(* Block scalars.                                                          *)
(***************************************************************************)
LEMMA AtBlock ==
  ASSUME TokInv(lx, open), lx.section = "block"
  PROVE  /\ Buffered(lx) /\ Ahead(lx) /\ Levelled(lx) /\ Stack(lx.levels) /\ lx.force = "none"
         /\ open \in Nat /\ lx.token = lx.cur /\ lx.cur \in Nat /\ lx.line \in Nat
         /\ Onto(lx, lx) /\ SameStack(lx.levels, lx.levels) /\ Len(lx.levels) \in Nat
         /\ Inside(lx) /\ "cut" \notin lx.quirks => Len(lx.levels) - 2 = open
         /\ ~Inside(lx) => /\ LexLevel(lx).status \notin Apart /\ lx.line < lx.cur
                           /\ "cut" \notin lx.quirks => Len(lx.levels) - 1 = open
  <1>1. lx.section \notin {"entry", "done"} /\ lx.section \in Fresh
    BY DEF Fresh
  <1>2. /\ Buffered(lx) /\ Ahead(lx) /\ Levelled(lx) /\ Stack(lx.levels) /\ lx.force = "none"
        /\ open \in Nat /\ lx.token = lx.cur /\ lx.cur \in Nat /\ lx.line \in Nat
        /\ "cut" \notin lx.quirks => Len(lx.levels) - 1 - Extra(lx) = open
    BY <1>1, InCall
  <1>3. LexLevel(lx).status # "str" /\ (~Inside(lx) => lx.line < lx.cur)
    BY DEF TokInv, Placed, Inside
  <1>4. Inside(lx) => Extra(lx) = 1
    BY DEF Inside, Extra, Apart
  <1>5. ~Inside(lx) => LexLevel(lx).status \notin Apart /\ Extra(lx) = 0
    BY <1>3 DEF Inside, Extra, Apart
  <1>6. Len(lx.levels) \in Nat
    BY <1>2, StackTop
  <1>7. QED
    BY <1>2, <1>3, <1>4, <1>5, <1>6, OntoItself, SameIsSame

\* The scalar is returned, from a level that is not its own.
LEMMA BlockReturned ==
  ASSUME open \in Nat, NEW f, Buffered(f), Ahead(f), Levelled(f), LexLevel(f).status \notin Apart,
         f.force = "none", "cut" \notin f.quirks => Len(f.levels) - 1 = open, NEW text
  PROVE  BlockReturns(f, text) => TokInv(lx', open) /\ Reads
  <1> SUFFICES ASSUME BlockReturns(f, text)
               PROVE  TokInv(lx', open) /\ Reads
    OBVIOUS
  <1>1. PICK word, style :
          lx' = [f EXCEPT !.section = "done",
                          !.out = [NoToken EXCEPT !.type = "BLOCK", !.text = word, !.style = style]]
    BY DEF BlockReturns, Returns
  <1> DEFINE token == [NoToken EXCEPT !.type = "BLOCK", !.text = word, !.style = style]
  <1>2. Change(token.type) = 0
    BY DEF NoToken, Change, Closers
  <1>3. Change(f.force) = 0 /\ f.force \in {"none", "IOPEN"}
    BY Changing
  <1> HIDE DEF token
  <1>4. Len(f.levels) \in Nat
    BY StackTop DEF Levelled
  <1>5. "cut" \notin f.quirks => Len(f.levels) - 1 = open + Change(f.force) + Change(token.type)
    BY <1>2, <1>3, <1>4
  <1>6. TokInv([f EXCEPT !.section = "done", !.out = token], open)
    BY <1>3, <1>5, Returned
  <1>7. QED
    BY <1>1, <1>6, IsDone DEF token

\* Its level is closed with it.
LEMMA BlockClosed ==
  ASSUME NEW m, Buffered(m), Levelled(m), Inside(m),
         "cut" \notin m.quirks => Len(m.levels) - 2 = open
  PROVE  LET f == PopLexLevel(m) IN
         /\ Beside(m, f) /\ Buffered(f) /\ Levelled(f) /\ LexLevel(f).status \notin Apart
         /\ f.cur = m.cur /\ f.line = m.line /\ f.src = m.src /\ f.token = m.token
         /\ f.force = m.force /\ f.quirks = m.quirks
         /\ "cut" \notin f.quirks => Len(f.levels) - 1 = open
  <1> DEFINE f == PopLexLevel(m)
  <1>1. Stack(m.levels) /\ Len(m.levels) \in Nat
    BY StackTop DEF Levelled
  <1>2. Len(m.levels) # 1
    BY <1>1, Outermost DEF Inside
  <1>3. /\ Beside(m, f) /\ Buffered(f) /\ Stack(f.levels) /\ (Deepens(m.levels) => Deepens(f.levels))
        /\ Len(f.levels) = Len(m.levels) - 1 /\ LexLevel(f).status \notin Apart
    BY <1>1, <1>2, PopFacts
  <1> HIDE DEF f
  <1>4. /\ f.cur = m.cur /\ f.line = m.line /\ f.src = m.src /\ f.token = m.token
        /\ f.force = m.force /\ f.quirks = m.quirks
    BY <1>3 DEF Beside
  <1>5. Levelled(f)
    BY <1>3, <1>4 DEF Levelled
  <1>6. "cut" \notin f.quirks => Len(f.levels) - 1 = open
    BY <1>1, <1>3, <1>4
  <1>7. QED
    BY <1>3, <1>4, <1>5, <1>6 DEF f

\* What goes on in the scalar, or in the comment behind its indicators.
LEMMA Blocking ==
  ASSUME TokInv(lx, open), lx.section = "block", NEW f, Moved(lx, f), Onto(lx, f), f.cur > lx.cur, NEW text
  PROVE  /\ lx' = ToBlock(f, text) => TokInv(lx', open) /\ Reads
         /\ ~Inside(lx) /\ lx' = ToComment(f, "block") => TokInv(lx', open) /\ Reads
  <1>1. /\ Buffered(lx) /\ lx.force = "none" /\ lx.cur \in Nat /\ lx.line \in Nat /\ Stack(lx.levels)
        /\ Stack(f.levels) /\ Buffered(f) /\ f.cur \in Nat /\ f.line = lx.line
        /\ ~Inside(lx) => LexLevel(lx).status \notin Apart /\ lx.line < lx.cur
    BY AtBlock DEF Onto, Buffered, Moved
  <1>2. LexLevel(lx).status # "str"
    BY DEF TokInv, Placed
  <1>3. ASSUME NEW g, Buffered(g), Carried(f, g), g.cur = f.cur, g.token = f.cur,
               g.section = "block" \/ (g.section = "comment" /\ g.after = "block" /\ ~Inside(lx))
        PROVE  TokInv(g, open) /\ (lx' = g => Reads)
    <2>1. /\ g.src = lx.src /\ g.force = lx.force /\ g.quirks = lx.quirks
          /\ SameStack(lx.levels, g.levels) /\ g.line = lx.line /\ g.token = g.cur
      BY <1>1, <1>3 DEF Carried, Onto
    <2>2. g.cur > lx.cur /\ g.cur >= lx.cur
      BY <1>1, <1>3
    <2>3. /\ LexLevel(g).status # "str"
          /\ ~Inside(lx) => LexLevel(g).status # "block" /\ g.line < g.cur
          /\ Inside(lx) => LexLevel(g).status = "block"
      <3>3. ~Inside(lx) => lx.line < lx.cur
        BY <1>1
      <3>4. lx.line \in Nat /\ lx.cur \in Nat /\ g.cur \in Nat /\ g.line = lx.line
        BY <1>1, <1>3, <2>1
      <3>1. ~Inside(lx) => g.line < g.cur
        BY <2>2, <3>3, <3>4
      <3>2. QED
        BY <1>1, <1>2, <2>1, <3>1 DEF SameStack, LexLevel, Apart, Inside
    <2>4. Placed(g)
      BY <1>3, <2>1, <2>3 DEF Placed, Fresh
    <2>5. lx.section # "done" /\ g.section # "done"
      BY <1>3
    <2>6. TokInv(g, open)
      BY <1>1, <1>3, <2>1, <2>2, <2>4, <2>5, Goes
    <2>7. QED
      BY <2>2, <2>6, Onwards
  <1>4. /\ Buffered(ToBlock(f, text)) /\ Carried(f, ToBlock(f, text)) /\ ToBlock(f, text).cur = f.cur
        /\ ToBlock(f, text).section = "block" /\ ToBlock(f, text).token = f.cur
    BY <1>1, LabelFacts DEF Labelled
  <1>5. /\ Buffered(ToComment(f, "block")) /\ Carried(f, ToComment(f, "block"))
        /\ ToComment(f, "block").cur = f.cur /\ ToComment(f, "block").section = "comment"
        /\ ToComment(f, "block").token = f.cur /\ ToComment(f, "block").after = "block"
    BY <1>1, LabelFacts DEF Labelled
  <1>6. QED
    BY <1>3, <1>4, <1>5

\* The line breaks are passed, and the indentation of the line behind them.
Passed(l, a) ==
    /\ DOMAIN a = LexFields /\ Buffered(a)
    /\ a.src = l.src /\ a.force = l.force /\ a.quirks = l.quirks /\ a.section = l.section
    /\ a.token = l.cur /\ l.cur < a.line /\ a.line <= a.cur
    /\ \A i \in l.cur..a.cur - 1 : At(l.src, i) \in {" ", "\n"}
    /\ Indent(a) \in {-1, a.cur - a.line}

\* The line breaks in a block scalar.
LEMMA PassedFacts ==
  ASSUME TokInv(lx, open), lx.section = "block"
  PROVE  Here(lx) = "\n" => Passed(lx, Gobbled(lx)) /\ Gobbled(lx).levels = lx.levels
  <1> DEFINE f == Gobbled(lx)
  <1>1. Buffered(lx) /\ lx.token = lx.cur
    BY AtBlock
  <1>2. Here(lx) = "\n" =>
         /\ DOMAIN f = LexFields /\ Buffered(f)
         /\ f.src = lx.src /\ f.token = lx.token /\ f.section = lx.section /\ f.force = lx.force
         /\ f.quirks = lx.quirks /\ f.levels = lx.levels
         /\ lx.cur < f.line /\ f.line <= f.cur
         /\ \A i \in lx.cur..f.cur - 1 : At(lx.src, i) \in {" ", "\n"}
         /\ Indent(f) = IF Here(f) = NUL THEN -1 ELSE f.cur - f.line
    BY <1>1, GobbledFacts
  <1> HIDE DEF f
  <1>3. QED
    BY <1>1, <1>2 DEF Passed, f

\* Back from the line breaks there are only blanks up to the line.
LEMMA PassedAhead ==
  ASSUME TokInv(lx, open), lx.section = "block", NEW a, Passed(lx, a),
         NEW f, f.src = lx.src, f.cur = lx.cur, f.line = a.line
  PROVE  Ahead(f)
  <1>1. a.cur \in Nat /\ a.line \in Nat /\ a.line <= a.cur /\ lx.cur \in Nat
    BY AtBlock DEF Passed, Buffered
  <1> SUFFICES ASSUME NEW i \in lx.cur..a.line - 1
               PROVE  At(lx.src, i) \in {" ", "\t", "\n"}
    BY DEF Ahead
  <1>2. i \in lx.cur..a.cur - 1
    BY <1>1
  <1>3. QED
    BY <1>2 DEF Passed

\* The level of a block scalar is at the margin or right of it.
LEMMA Margin ==
  ASSUME NEW l, Stack(l.levels), l.cur \in Nat, l.line \in Nat, l.line <= l.cur
  PROVE  TrueIndent(l) \in Int /\ TrueIndent(l) >= -1
  <1> DEFINE deep == LexLevel(l)
  <1>1. /\ Len(l.levels) \in Nat /\ Len(l.levels) >= 1 /\ deep.spaces \in Int /\ deep.spaces >= -1
        /\ Len(l.levels) = 1 => deep.spaces = -1 /\ deep.status \in {"header", "doc", "map"}
    BY Outermost
  <1> HIDE DEF deep
  <1>2. CASE deep.status = "seq" \/ (deep.spaces = l.cur - l.line /\ deep.status # "map")
    <2>1. TrueIndent(l) = l.levels[Len(l.levels) - 1].spaces
      BY <1>2 DEF TrueIndent, deep
    <2>2. l.cur - l.line # -1
      OBVIOUS
    <2>3. Len(l.levels) # 1
      <3> SUFFICES ASSUME Len(l.levels) = 1
                   PROVE  FALSE
        OBVIOUS
      <3>1. deep.spaces = -1
        BY <1>1
      <3>2. deep.status # "seq"
        BY <1>1
      <3>3. deep.spaces = l.cur - l.line
        BY <1>2, <3>2
      <3>4. QED
        BY <2>2, <3>1, <3>3
    <2>4. Len(l.levels) - 1 \in 1..Len(l.levels)
      <3>1. Len(l.levels) \in Nat /\ Len(l.levels) >= 1
        BY <1>1
      <3>2. \A n \in Nat : n >= 1 /\ n # 1 => n - 1 \in 1..n
        OBVIOUS
      <3>3. QED
        BY <2>3, <3>1, <3>2
    <2>5. IsLevel(l.levels[Len(l.levels) - 1])
      BY <2>4 DEF Stack
    <2>6. QED
      BY <2>1, <2>5 DEF IsLevel
  <1>3. CASE ~(deep.status = "seq" \/ (deep.spaces = l.cur - l.line /\ deep.status # "map"))
    <2>1. TrueIndent(l) = deep.spaces
      BY <1>3 DEF TrueIndent, deep
    <2>2. QED
      BY <1>1, <2>1
  <1>4. QED
    BY <1>2, <1>3

\* The level of a block scalar has a column of the text.
LEMMA BlockSpacesFacts ==
  ASSUME NEW l, TrueIndent(l) \in Int, TrueIndent(l) >= -1, Indent(l) \in Int, Indent(l) > TrueIndent(l)
  PROVE  BlockSpaces(l) \in Int /\ BlockSpaces(l) >= 0
  <1> DEFINE parent == TrueIndent(l)
             forced == Forced(l, parent)
  <1>1. CASE forced = {}
    <2>1. BlockSpaces(l) = Indent(l)
      BY <1>1 DEF BlockSpaces
    <2>2. QED
      BY <2>1
  <1>2. CASE forced # {}
    <2>1. PICK n \in forced : BlockSpaces(l) = parent + n
      <3>1. (CHOOSE n \in forced : TRUE) \in forced
        BY <1>2
      <3>2. BlockSpaces(l) = parent + CHOOSE n \in forced : TRUE
        BY <1>2 DEF BlockSpaces
      <3>3. QED
        BY <3>1, <3>2
    <2>2. n \in 1..9 /\ parent + n > 0
      BY DEF Forced
    <2>3. QED
      BY <2>1, <2>2
  <1>3. QED
    BY <1>1, <1>2

\* A line behind line breaks belongs to the block or ends it.
LEMMA LineStep ==
  ASSUME TokInv(lx, open), lx.section = "block", NEW a, Passed(lx, a), Levelled(a), Inside(a),
         "cut" \notin a.quirks => Len(a.levels) - 2 = open, NEW spaces \in Int, spaces >= 0, NEW text
  PROVE  BlockLine(a, spaces, text) => TokInv(lx', open) /\ Reads
  <1> SUFFICES ASSUME BlockLine(a, spaces, text)
               PROVE  TokInv(lx', open) /\ Reads
    OBVIOUS
  <1>1. /\ Buffered(lx) /\ lx.force = "none" /\ open \in Nat /\ lx.cur \in Nat /\ lx.token = lx.cur
    BY AtBlock
  <1>2. /\ DOMAIN a = LexFields /\ Buffered(a) /\ a.src = lx.src /\ a.force = "none"
        /\ a.quirks = lx.quirks /\ a.section = "block"
        /\ a.token = lx.cur /\ lx.cur < a.line /\ a.line <= a.cur
        /\ a.cur \in Nat /\ a.line \in Nat /\ a.limit \in Nat /\ a.cur <= a.limit + 1
    BY <1>1 DEF Passed, Buffered
  <1>3. CASE Indent(a) < spaces
    <2> DEFINE p == PopLexLevel(a)
               b == Back(p)
    <2>1. BlockReturns(b, text)
      BY <1>3 DEF BlockLine
    <2>2. /\ Beside(a, p) /\ Buffered(p) /\ Levelled(p) /\ LexLevel(p).status \notin Apart
          /\ p.cur = a.cur /\ p.line = a.line /\ p.src = a.src /\ p.token = a.token
          /\ p.force = a.force /\ p.quirks = a.quirks
          /\ "cut" \notin p.quirks => Len(p.levels) - 1 = open
      BY <1>2, BlockClosed
    <2> HIDE DEF p
    <2>3. Moved(p, b) /\ Buffered(b) /\ b.cur = p.token
      BY <2>2, BackFacts
    <2> HIDE DEF b
    <2>4. /\ b.src = lx.src /\ b.line = a.line /\ b.cur = lx.cur /\ b.force = "none"
          /\ b.levels = p.levels /\ b.quirks = p.quirks
      BY <1>2, <2>2, <2>3 DEF Moved
    <2>5. Ahead(b)
      BY <2>4, PassedAhead
    <2>6. Levelled(b) /\ LexLevel(b).status \notin Apart
      BY <2>2, <2>4 DEF Levelled, LexLevel
    <2>7. "cut" \notin b.quirks => Len(b.levels) - 1 = open
      BY <2>2, <2>4
    <2>8. QED
      BY <1>1, <2>1, <2>3, <2>4, <2>5, <2>6, <2>7, BlockReturned
  <1>4. CASE ~(Indent(a) < spaces)
    <2> DEFINE i == a.cur - (Indent(a) - spaces)
               last == Indent(a) - spaces
               c == [a EXCEPT !.cur = i]
               m == [a EXCEPT !.cur = i, !.block.last = last]
               g == ToBlock(m, text)
    <2>1. lx' = g
      BY <1>4 DEF BlockLine
    <2>2. i = a.line + spaces /\ i <= a.cur
      <3>1. Indent(a) = -1 \/ Indent(a) = a.cur - a.line
        BY DEF Passed
      <3>5. a.cur - a.line \in Int
        BY <1>2
      <3>2. Indent(a) = a.cur - a.line
        BY <1>4, <3>1, <3>5
      <3> DEFINE indent == Indent(a)
      <3>3. indent = a.cur - a.line /\ ~(indent < spaces) /\ i = a.cur - (indent - spaces)
        BY <1>4, <3>2
      <3> HIDE DEF indent, i
      <3>4. QED
        BY <1>2, <3>3
    <2> HIDE DEF i
    <2>3. i \in Nat /\ a.token <= i /\ i <= a.limit + 1 /\ i > lx.cur /\ a.line <= i
      BY <1>1, <1>2, <2>2
    <2>4. Moved(a, c) /\ Buffered(c) /\ c.cur = i
      BY <1>2, <2>3, AtCursor
    <2>5. /\ DOMAIN m = LexFields /\ m.cur = i
          /\ \A x \in LexFields \ {"block", "cur"} : m[x] = a[x]
      BY <1>2 DEF LexFields
    <2> HIDE DEF m, last
    <2>6. /\ m.src = a.src /\ m.token = a.token /\ m.line = a.line /\ m.limit = a.limit
          /\ m.base = a.base /\ m.doc = a.doc /\ m.force = a.force /\ m.quirks = a.quirks
          /\ m.levels = a.levels
      BY <2>5 DEF LexFields
    <2>7. Buffered(m)
      BY <1>2, <2>3, <2>5, <2>6 DEF Buffered
    <2>8. Stack(m.levels)
      BY <2>6 DEF Levelled
    <2>9. /\ Buffered(g) /\ Carried(m, g) /\ g.cur = i /\ g.section = "block" /\ g.token = i
      BY <2>5, <2>7, <2>8, LabelFacts DEF Labelled
    <2> HIDE DEF g, c
    <2>10. /\ SameStack(a.levels, g.levels) /\ g.line = a.line /\ g.force = "none"
           /\ g.quirks = a.quirks
      BY <1>2, <2>6, <2>9 DEF Carried
    <2>11. LexLevel(g).status = "block"
      BY <2>10 DEF SameStack, LexLevel, Apart, Inside
    <2>12. Placed(g)
      BY <2>9, <2>11 DEF Placed, Fresh
    <2>13. Ahead(g)
      <3>1. g.cur..g.line - 1 = {}
        BY <1>2, <2>3, <2>9, <2>10
      <3>2. QED
        BY <3>1 DEF Ahead
    <2>14. Levelled(g) /\ Forcing(g)
      BY <2>10 DEF Levelled, Forcing, SameStack
    <2>15. Balanced(g, open)
      <3>1. Extra(g) = 1
        BY <2>11 DEF Extra, Apart
      <3>2. Due(g) = Change("none") + 0
        BY <2>9, <2>10 DEF Due
      <3>3. Change("none") = 0
        BY Changing
      <3>4. Len(g.levels) = Len(a.levels) /\ Len(a.levels) \in Nat
        BY <2>10, StackTop DEF SameStack, Levelled
      <3>5. "cut" \notin g.quirks => Len(g.levels) - 1 - Extra(g) = open + Due(g)
        BY <1>1, <2>10, <3>1, <3>2, <3>3, <3>4
      <3>6. QED
        BY <3>5 DEF Balanced
    <2>16. TokInv(g, open)
      BY <1>1, <2>9, <2>12, <2>13, <2>14, <2>15 DEF TokInv
    <2>17. g.cur > lx.cur
      BY <2>3, <2>9
    <2>18. QED
      BY <2>1, <2>16, <2>17, Onwards
  <1>5. QED
    BY <1>3, <1>4

\* The rules of block scalars.
LEMMA BlockStep ==
  ASSUME TokInv(lx, open), BlockNext
  PROVE  TokInv(lx', open) /\ Reads
  <1>1. lx.section = "block"
    BY DEF BlockNext, BlockFirst, BlockNewline, BlockComment, BlockSeparator, BlockEnd, BlockOther, In
  <1>2. /\ Buffered(lx) /\ Ahead(lx) /\ Levelled(lx) /\ Stack(lx.levels) /\ lx.force = "none"
        /\ open \in Nat /\ lx.token = lx.cur /\ lx.cur \in Nat /\ lx.line \in Nat
        /\ Len(lx.levels) \in Nat
        /\ Inside(lx) /\ "cut" \notin lx.quirks => Len(lx.levels) - 2 = open
        /\ ~Inside(lx) => /\ LexLevel(lx).status \notin Apart /\ lx.line < lx.cur
                          /\ "cut" \notin lx.quirks => Len(lx.levels) - 1 = open
    BY <1>1, AtBlock
  <1>3. CASE BlockFirst
    <2> DEFINE f == Gobbled(lx)
               spaces == BlockSpaces(f)
               a == AddLexLevel(f, spaces, "block")
               b == Back(f)
    <2>1. ~Inside(lx) /\ Here(lx) = "\n"
      BY <1>3 DEF BlockFirst, Char
    <2>2. \/ Indent(f) <= TrueIndent(f) /\ BlockReturns(b, lx.text)
          \/ ~(Indent(f) <= TrueIndent(f)) /\ \E text : BlockLine(a, spaces, text)
      BY <1>3 DEF BlockFirst
    <2>3. Passed(lx, f) /\ f.levels = lx.levels
      BY <1>1, <2>1, PassedFacts
    <2> HIDE DEF f
    <2>4. /\ Buffered(f) /\ f.src = lx.src /\ f.force = "none" /\ f.quirks = lx.quirks
          /\ f.section = lx.section /\ f.token = lx.cur
          /\ f.cur \in Nat /\ f.line \in Nat /\ f.line <= f.cur
      BY <1>2, <2>3 DEF Passed, Buffered
    <2>5. LexLevel(f).status \notin Apart /\ Stack(f.levels) /\ Levelled(f)
      BY <1>2, <2>1, <2>3, <2>4 DEF LexLevel, Levelled
    <2>6. CASE BlockReturns(b, lx.text)
      <3>1. Moved(f, b) /\ Buffered(b) /\ b.cur = f.token
        BY <2>4, BackFacts
      <3> HIDE DEF b
      <3>2. /\ b.src = lx.src /\ b.line = f.line /\ b.cur = lx.cur /\ b.force = "none"
            /\ b.levels = f.levels /\ b.quirks = f.quirks
        BY <2>4, <3>1 DEF Moved
      <3>3. Ahead(b)
        BY <1>1, <2>3, <3>2, PassedAhead
      <3>4. Levelled(b) /\ LexLevel(b).status \notin Apart
        BY <2>5, <3>2 DEF Levelled, LexLevel
      <3>5. "cut" \notin b.quirks => Len(b.levels) - 1 = open
        BY <1>2, <2>1, <2>3, <2>4, <3>2
      <3>6. QED
        BY <1>2, <2>6, <3>1, <3>2, <3>3, <3>4, <3>5, BlockReturned
    <2>7. CASE ~(Indent(f) <= TrueIndent(f)) /\ \E text : BlockLine(a, spaces, text)
      <3>1. TrueIndent(f) \in Int /\ TrueIndent(f) >= -1
        BY <2>4, <2>5, Margin
      <3>2. Indent(f) \in Int
        <4>1. f.cur - f.line \in Int /\ -1 \in Int
          BY <2>4
        <4>2. QED
          BY <2>3, <4>1 DEF Passed
      <3>3. Indent(f) > TrueIndent(f)
        BY <2>7, <3>1, <3>2
      <3>4. spaces \in Int /\ spaces >= 0
        BY <3>1, <3>2, <3>3, BlockSpacesFacts
      <3> HIDE DEF spaces
      <3>5. spaces >= -1
        BY <3>4
      <3>6. /\ Beside(f, a) /\ Buffered(a) /\ Stack(a.levels) /\ Len(a.levels) = Len(f.levels) + 1
            /\ LexLevel(a).status = "block" /\ (Deepens(f.levels) => Deepens(a.levels))
        BY <2>4, <2>5, <3>4, <3>5, AddFacts DEF Apart
      <3> HIDE DEF a
      <3>7. /\ a.src = f.src /\ a.cur = f.cur /\ a.token = f.token /\ a.line = f.line
            /\ a.limit = f.limit /\ a.force = f.force /\ a.section = f.section /\ a.quirks = f.quirks
        BY <3>6 DEF Beside
      <3>8. Indent(a) = Indent(f)
        BY <3>7 DEF Indent, Here, Peek
      <3>9. Passed(lx, a)
        BY <2>3, <3>6, <3>7, <3>8 DEF Passed, Buffered
      <3>10. Levelled(a) /\ Inside(a)
        BY <2>5, <3>6, <3>7 DEF Levelled, Inside
      <3>11. "cut" \notin a.quirks => Len(a.levels) - 2 = open
        BY <1>2, <2>1, <2>3, <2>4, <3>6, <3>7
      <3>12. QED
        BY <1>1, <2>7, <3>4, <3>9, <3>10, <3>11, LineStep
    <2>8. QED
      BY <2>2, <2>6, <2>7
  <1>4. CASE BlockNewline
    <2> DEFINE f == Gobbled(lx)
               spaces == LexLevel(lx).spaces
    <2>1. Inside(lx) /\ Here(lx) = "\n" /\ \E text : BlockLine(f, spaces, text)
      BY <1>4 DEF BlockNewline, Char
    <2>2. Passed(lx, f) /\ f.levels = lx.levels
      BY <1>1, <2>1, PassedFacts
    <2> HIDE DEF f
    <2>3. spaces \in Int /\ spaces >= 0
      BY <1>2, <2>1, Outermost DEF Inside
    <2> HIDE DEF spaces
    <2>4. f.quirks = lx.quirks
      BY <2>2 DEF Passed
    <2>5. Levelled(f) /\ Inside(f)
      BY <1>2, <2>1, <2>2, <2>4 DEF Levelled, Inside, LexLevel
    <2>6. "cut" \notin f.quirks => Len(f.levels) - 2 = open
      BY <1>2, <2>1, <2>2, <2>4
    <2>7. QED
      BY <1>1, <2>1, <2>2, <2>3, <2>5, <2>6, LineStep
  <1>5. CASE BlockComment \/ BlockOther
    <2> DEFINE f == Forward(lx, 1)
    <2>1. \/ ~Inside(lx) /\ lx' = ToComment(f, "block")
          \/ \E text : lx' = ToBlock(f, text)
      BY <1>5 DEF BlockComment, BlockOther
    <2>2. Here(lx) # NUL
      BY <1>5 DEF BlockComment, BlockOther, Char, NUL
    <2>3. Moved(lx, f) /\ Onto(lx, f) /\ f.cur > lx.cur
      BY <1>2, <2>2, One
    <2> HIDE DEF f
    <2>4. QED
      BY <1>1, <2>1, <2>3, Blocking
  <1>6. CASE (BlockSeparator \/ BlockEnd) /\ Inside(lx)
    <2> DEFINE p == PopLexLevel(lx)
    <2>1. \E text : BlockReturns(p, text)
      BY <1>6 DEF BlockSeparator, BlockEnd
    <2>2. /\ Buffered(p) /\ Levelled(p) /\ LexLevel(p).status \notin Apart
          /\ p.cur = lx.cur /\ p.line = lx.line /\ p.src = lx.src /\ p.force = lx.force
          /\ "cut" \notin p.quirks => Len(p.levels) - 1 = open
      BY <1>2, <1>6, BlockClosed
    <2> HIDE DEF p
    <2>3. Ahead(p) /\ p.force = "none"
      BY <1>2, <2>2 DEF Ahead
    <2>4. QED
      BY <1>2, <2>1, <2>2, <2>3, BlockReturned
  <1>7. CASE BlockEnd /\ ~Inside(lx)
    <2> DEFINE q == Quirk(lx, "cut")
               p == PopLexLevel(q)
    <2>1. \E text : BlockReturns(p, text)
      BY <1>7 DEF BlockEnd
    <2>2. /\ DOMAIN q = LexFields /\ q.quirks = lx.quirks \cup {"cut"}
          /\ \A x \in LexFields \ {"quirks"} : q[x] = lx[x]
      BY <1>2 DEF Quirk, Buffered, LexFields
    <2> HIDE DEF q
    <2>3. /\ q.src = lx.src /\ q.cur = lx.cur /\ q.token = lx.token /\ q.line = lx.line
          /\ q.limit = lx.limit /\ q.base = lx.base /\ q.doc = lx.doc /\ q.force = lx.force
          /\ q.levels = lx.levels
      BY <2>2 DEF LexFields
    <2>4. Buffered(q) /\ Stack(q.levels) /\ LexLevel(q).status \notin Apart
      BY <1>2, <1>7, <2>2, <2>3 DEF Buffered, LexLevel
    <2>5. /\ Beside(q, p) /\ Buffered(p) /\ Stack(p.levels) /\ (Deepens(q.levels) => Deepens(p.levels))
          /\ LexLevel(p).status \notin Apart
      BY <2>4, PopFacts
    <2> HIDE DEF p
    <2>6. /\ p.cur = lx.cur /\ p.line = lx.line /\ p.src = lx.src /\ p.force = "none"
          /\ p.quirks = lx.quirks \cup {"cut"}
      BY <1>2, <2>2, <2>3, <2>5 DEF Beside
    <2>7. Ahead(p)
      BY <1>2, <2>6 DEF Ahead
    <2>8. Levelled(p) /\ "cut" \in p.quirks
      BY <1>2, <2>3, <2>5, <2>6 DEF Levelled
    <2>9. QED
      BY <1>2, <2>1, <2>5, <2>6, <2>7, <2>8, BlockReturned
  <1>8. BlockSeparator => Inside(lx)
    <2>1. BlockSeparator => lx.cur = lx.line
      BY DEF BlockSeparator
    <2>2. ~Inside(lx) => lx.line < lx.cur
      BY <1>2
    <2>3. lx.cur \in Nat /\ lx.line \in Nat
      BY <1>2
    <2>4. QED
      BY <2>1, <2>2, <2>3
  <1>9. QED
    BY <1>3, <1>4, <1>5, <1>6, <1>7, <1>8 DEF BlockNext

(***************************************************************************)
(* Between the calls.                                                      *)
(***************************************************************************)
LEMMA AtEdge ==
  ASSUME TokInv(lx, open), lx.section \in {"entry", "done"}
  PROVE  /\ Buffered(lx) /\ Ahead(lx) /\ Levelled(lx) /\ Stack(lx.levels) /\ open \in Nat
         /\ LexLevel(lx).status \notin Apart /\ lx.force \in {"none", "IOPEN"}
         /\ lx.cur \in Nat /\ Len(lx.levels) \in Nat /\ Len(lx.levels) >= 1 /\ Extra(lx) = 0
  <1>1. Buffered(lx) /\ Ahead(lx) /\ Levelled(lx) /\ open \in Nat /\ lx.force \in {"none", "IOPEN"}
    BY DEF TokInv, Forcing
  <1>2. LexLevel(lx).status \notin Apart
    BY DEF TokInv, Placed, Apart
  <1>3. Stack(lx.levels) /\ lx.cur \in Nat
    BY <1>1 DEF Levelled, Buffered
  <1>4. Len(lx.levels) \in Nat /\ Len(lx.levels) >= 1
    BY <1>3, StackTop
  <1>5. Extra(lx) = 0
    BY <1>2 DEF Extra
  <1>6. QED
    BY <1>1, <1>2, <1>3, <1>4, <1>5

\* For arithmetic.
LEMMA ChangeIsInt == \A type : Change(type) \in Int
  <1> SUFFICES ASSUME NEW type
               PROVE  Change(type) \in Int
    OBVIOUS
  <1>1. Change(type) \in {-1, 0, 1}
    BY Changing
  <1>2. {-1, 0, 1} \subseteq Int
    OBVIOUS
  <1>3. QED
    BY <1>1, <1>2

\* sycklex is called.
LEMMA EntranceStep ==
  ASSUME TokInv(lx, open), ForcedToken \/ EnterLexer
  PROVE  TokInv(lx', open) /\ Reads
  <1>1. lx.section = "entry"
    BY DEF ForcedToken, EnterLexer, In
  <1>2. /\ Buffered(lx) /\ Ahead(lx) /\ Levelled(lx) /\ Stack(lx.levels) /\ open \in Nat
        /\ LexLevel(lx).status \notin Apart /\ lx.force \in {"none", "IOPEN"}
        /\ lx.cur \in Nat /\ Len(lx.levels) \in Nat /\ Extra(lx) = 0
    BY <1>1, AtEdge
  <1>3. CASE ForcedToken
    <2> DEFINE f == [lx EXCEPT !.force = "none"]
               token == Token("IOPEN")
    <2>1. lx.force = "IOPEN" /\ lx' = [f EXCEPT !.section = "done", !.out = token]
      BY <1>2, <1>3 DEF ForcedToken, Returns
    <2>2. /\ DOMAIN f = LexFields /\ f.force = "none"
          /\ \A x \in LexFields \ {"force"} : f[x] = lx[x]
      BY <1>2 DEF Buffered, LexFields
    <2> HIDE DEF f
    <2>3. /\ f.src = lx.src /\ f.cur = lx.cur /\ f.token = lx.token /\ f.line = lx.line
          /\ f.limit = lx.limit /\ f.base = lx.base /\ f.doc = lx.doc
          /\ f.quirks = lx.quirks /\ f.levels = lx.levels
      BY <2>2 DEF LexFields
    <2>4. Buffered(f)
      BY <1>2, <2>2, <2>3 DEF Buffered
    <2>5. Ahead(f) /\ Levelled(f) /\ LexLevel(f).status \notin Apart
      BY <1>2, <2>3 DEF Ahead, Levelled, LexLevel
    <2>6. token.type = "IOPEN"
      BY DEF Token, NoToken
    <2> HIDE DEF token
    <2>7. Change("IOPEN") = 1 /\ Change("none") = 0
      BY Changing
    <2>8. Due(lx) = 1
      <3>1. Due(lx) = Change("IOPEN") + 0
        BY <1>1, <2>1 DEF Due
      <3>2. QED
        BY <2>7, <3>1
    <2>9. "cut" \notin lx.quirks => Len(lx.levels) - 1 - Extra(lx) = open + Due(lx)
      BY <1>1 DEF TokInv, Balanced
    <2>10. Change(f.force) = 0 /\ Change(token.type) = 1
      BY <2>2, <2>6, <2>7
    <2>11. "cut" \notin f.quirks => Len(f.levels) - 1 = open + Change(f.force) + Change(token.type)
      BY <1>2, <2>3, <2>8, <2>9, <2>10
    <2>12. f.force \in {"none", "IOPEN"}
      BY <2>2
    <2>13. TokInv(lx', open)
      BY <1>2, <2>1, <2>4, <2>5, <2>11, <2>12, Returned
    <2>14. QED
      BY <2>1, <2>4, <2>13, IsDone
  <1>4. CASE EnterLexer
    <2>1. PICK f : /\ f = ToDocument(lx) \/ f = ToHeader(lx)
                   /\ lx' = [f EXCEPT !.doc = 0]
      BY <1>4 DEF EnterLexer
    <2>2. lx.force = "none"
      BY <1>4 DEF EnterLexer
    <2>3. lx.section \notin {"1quote", "2quote", "block", "lost", "done"}
      BY <1>1
    <2>4. Onto(lx, lx)
      BY <1>2, OntoItself
    <2>5. TokInv(f, open)
      BY <2>1, <2>2, <2>3, <2>4, Jumps
    <2>6. f.cur = lx.cur /\ f.section \in {"header", "document"}
      BY <1>2, <2>1, LabelPlaces
    <2> DEFINE g == [f EXCEPT !.doc = 0]
    <2>7. DOMAIN f = LexFields
      BY <2>5 DEF TokInv, Buffered
    <2>8. /\ DOMAIN g = LexFields /\ g.doc = 0
          /\ \A x \in LexFields \ {"doc"} : g[x] = f[x]
      BY <2>7 DEF LexFields
    <2>9. lx' = g
      BY <2>1
    <2> HIDE DEF g
    <2>10. g.doc \in Int
      BY <2>8
    <2>11. \A x \in LexFields \ {"doc", "text", "indent", "block", "most"} : g[x] = f[x]
      BY <2>8
    <2>12. TokInv(g, open)
      BY <2>5, <2>8, <2>10, <2>11, Alike
    <2>13. g.cur = lx.cur /\ g.section \in {"header", "document"}
      BY <2>6, <2>8 DEF LexFields
    <2>14. Rank(g.section) > Rank("entry")
      BY <2>13 DEF Rank
    <2>15. QED
      BY <1>1, <2>9, <2>12, <2>13, <2>14 DEF Reads
  <1>5. QED
    BY <1>3, <1>4

\* yyparse takes the token.
LEMMA TakeStep ==
  ASSUME TokInv(lx, open), Take
  PROVE  TokInv(lx', open') /\ Reads
  <1> DEFINE g == [lx EXCEPT !.section = "entry"]
             type == lx.out.type
             o == open + Change(type)
  <1>1. lx.section = "done" /\ (type \in Closers => open > 0) /\ open' = o /\ lx' = g
    BY DEF Take, In
  <1>2. /\ Buffered(lx) /\ Ahead(lx) /\ Levelled(lx) /\ Stack(lx.levels) /\ open \in Nat
        /\ LexLevel(lx).status \notin Apart /\ lx.force \in {"none", "IOPEN"}
        /\ lx.cur \in Nat /\ Len(lx.levels) \in Nat /\ Extra(lx) = 0
    BY <1>1, AtEdge
  <1>3. o \in Nat
    <2>1. Change(type) = -1 => type \in Closers
      <3>1. type \notin Closers => Change(type) = 0 \/ Change(type) = 1
        BY DEF Change
      <3>2. 0 # -1 /\ 1 # -1
        OBVIOUS
      <3>3. QED
        BY <3>1, <3>2
    <2>2. Change(type) \in {-1, 0, 1}
      BY Changing
    <2> HIDE DEF type
    <2>3. Change(type) = -1 => open > 0
      BY <1>1, <2>1
    <2>4. QED
      BY <1>2, <2>2, <2>3
  <1>4. /\ DOMAIN g = LexFields /\ g.section = "entry"
        /\ \A x \in LexFields \ {"section"} : g[x] = lx[x]
    BY <1>2 DEF Buffered, LexFields
  <1> HIDE DEF g
  <1>5. /\ g.src = lx.src /\ g.cur = lx.cur /\ g.token = lx.token /\ g.line = lx.line
        /\ g.limit = lx.limit /\ g.base = lx.base /\ g.doc = lx.doc
        /\ g.quirks = lx.quirks /\ g.levels = lx.levels /\ g.force = lx.force
    BY <1>4 DEF LexFields
  <1>6. Buffered(g)
    BY <1>2, <1>4, <1>5 DEF Buffered
  <1>7. Ahead(g) /\ Levelled(g) /\ LexLevel(g).status \notin Apart
    BY <1>2, <1>5 DEF Ahead, Levelled, LexLevel
  <1>8. Placed(g)
    BY <1>4, <1>7 DEF Placed, Fresh, Apart
  <1>9. Forcing(g)
    BY <1>2, <1>4, <1>5 DEF Forcing
  <1>10. Balanced(g, o)
    <2>1. Extra(g) = 0
      BY <1>7 DEF Extra
    <2>2. Due(g) = Change(lx.force) + 0
      BY <1>4, <1>5 DEF Due
    <2>3. Due(lx) = Change(lx.force) + Change(type)
      BY <1>1 DEF Due
    <2>4. "cut" \notin lx.quirks =>
            \/ Len(lx.levels) - 1 - Extra(lx) = open + Due(lx)
            \/ type \in Closers /\ open = 0
      BY DEF TokInv, Balanced
    <2>5. ~(type \in Closers /\ open = 0)
      BY <1>1, <1>2
    <2>6. Change(type) \in Int /\ Change(lx.force) \in Int
      BY ChangeIsInt
    <2> HIDE DEF type
    <2>7. "cut" \notin lx.quirks => Len(lx.levels) - 1 - Extra(lx) = open + Due(lx)
      BY <2>4, <2>5
    <2>8. "cut" \notin lx.quirks => Len(lx.levels) - 1 - 0 = o + Change(lx.force)
      BY <1>2, <2>3, <2>6, <2>7
    <2>9. "cut" \notin g.quirks => Len(g.levels) - 1 - Extra(g) = o + Due(g)
      BY <1>5, <2>1, <2>2, <2>6, <2>8
    <2>10. QED
      BY <2>9 DEF Balanced
  <1>11. TokInv(g, o)
    BY <1>3, <1>6, <1>7, <1>8, <1>9, <1>10 DEF TokInv
  <1>12. Reads
    BY <1>1, <1>4 DEF Reads
  <1>13. QED
    BY <1>1, <1>11, <1>12

\* Every step keeps the invariant, and reads on or returns.
LEMMA NextStep ==
  ASSUME TokInv(lx, open), TokNext
  PROVE  TokInv(lx', open') /\ Reads
  <1>1. CASE LexNext /\ UNCHANGED open
    <2>1. TokInv(lx', open) /\ Reads
      BY <1>1, EntranceStep, HeaderStep, DocumentStep, PlainStep, QuoteStep, BlockStep, TagStep,
         CommentStep DEF LexNext
    <2>2. QED
      BY <1>1, <2>1
  <1>2. CASE Take
    BY <1>2, TakeStep
  <1>3. QED
    BY <1>1, <1>2 DEF TokNext

\* The parser of any text starts in it.
LEMMA StartStep == TokInit => TokInv(lx, open)
  <1> SUFFICES ASSUME NEW text \in Texts, open = 0, lx = NewLexer(text)
               PROVE  TokInv(lx, open)
    BY DEF TokInit
  <1> DEFINE outermost == [spaces |-> -1, status |-> "header", ncount |-> 0, domain |-> ""]
  <1>1. /\ DOMAIN lx = LexFields
        /\ lx.src = text /\ lx.cur = 1 /\ lx.token = 1 /\ lx.line = 1 /\ lx.base = 1
        /\ lx.limit = Least(Len(text), Window) /\ lx.force = "none" /\ lx.section = "entry"
        /\ lx.doc = 0 /\ lx.levels = <<outermost>>
    BY DEF NewLexer, LexFields
  <1>2. /\ DOMAIN outermost = LevelFields /\ outermost.spaces = -1 /\ outermost.status = "header"
    BY DEF LevelFields
  <1> HIDE DEF outermost
  <1>3. Len(lx.levels) = 1 /\ lx.levels[1] = outermost /\ lx.levels \in Seq({outermost})
    BY <1>1
  <1>4. Buffered(lx)
    <2>1. Len(text) \in Nat /\ Window \in Nat \ {0}
      BY TextsAssumption, WindowAssumption
    <2>2. lx.limit \in Nat /\ 1 + Window - 1 = Window
      BY <1>1, <2>1 DEF Least
    <2>3. /\ lx.base \in Nat \ {0} /\ lx.token \in Nat /\ lx.cur \in Nat
          /\ lx.line \in Nat /\ lx.doc \in Int
          /\ lx.base <= lx.token /\ lx.token <= lx.cur /\ lx.cur <= lx.limit + 1
      BY <1>1, <2>2
    <2>4. lx.limit = Least(Len(lx.src), lx.base + Window - 1)
      BY <1>1, <2>2
    <2>5. QED
      BY <1>1, <2>2, <2>3, <2>4 DEF Buffered
  <1>5. IsLevel(outermost)
    BY <1>2 DEF IsLevel
  <1>6. Stack(lx.levels)
    <2>1. \A i \in 1..Len(lx.levels) : IsLevel(lx.levels[i])
      BY <1>3, <1>5
    <2>2. 1..Len(lx.levels) - 1 = {} /\ Len(lx.levels) >= 1
      BY <1>3
    <2>3. QED
      BY <1>2, <1>3, <2>1, <2>2 DEF Stack
  <1>7. Deepens(lx.levels)
    <2>1. 2..Len(lx.levels) = {}
      BY <1>3
    <2>2. QED
      BY <2>1 DEF Deepens
  <1>8. LexLevel(lx).status = "header"
    BY <1>2, <1>3, <1>6, StackTop DEF LexLevel
  <1>9. Ahead(lx)
    <2>1. lx.cur..lx.line - 1 = {}
      BY <1>1
    <2>2. QED
      BY <2>1 DEF Ahead
  <1>10. Placed(lx)
    BY <1>1, <1>8 DEF Placed, Fresh
  <1>11. Balanced(lx, 0)
    <2>1. Extra(lx) = 0
      BY <1>8 DEF Extra, Apart
    <2>2. Due(lx) = Change("none") + 0
      BY <1>1 DEF Due
    <2>3. Change("none") = 0
      BY Changing
    <2>4. Len(lx.levels) - 1 - Extra(lx) = 0 + Due(lx)
      BY <1>3, <2>1, <2>2, <2>3
    <2>5. QED
      BY <2>4 DEF Balanced
  <1>12. QED
    BY <1>1, <1>4, <1>6, <1>7, <1>9, <1>10, <1>11 DEF TokInv, Levelled, Forcing

(***************************************************************************)
(* The theorems.                                                           *)
(***************************************************************************)
\* The invariant of the tokenizer and its caller.
THEOREM TokInvariant == TokSpec => []TokInv(lx, open)
  <1> DEFINE Inv == TokInv(lx, open)
  <1>1. TokInit => Inv
    BY StartStep
  <1>2. Inv /\ [TokNext]_tokVars => Inv'
    <2>1. ASSUME Inv, TokNext
          PROVE  Inv'
      BY <2>1, NextStep
    <2>2. ASSUME Inv, UNCHANGED tokVars
          PROVE  Inv'
      BY <2>2 DEF tokVars
    <2>3. QED
      BY <2>1, <2>2
  <1> HIDE DEF Inv
  <1>3. TokSpec => []Inv
    BY <1>1, <1>2, PTL DEF TokSpec
  <1>4. QED
    BY <1>3 DEF Inv

\* The cursor never leaves the text the buffer holds, whatever the text and
\* however small the buffer (YYFILL, syckparser_read in token.c and syck_.c).
THEOREM CursorStays == TokSpec => []CursorInBuffer
  <1>1. TokInv(lx, open) => CursorInBuffer
    BY DEF TokInv, Buffered, CursorInBuffer
  <1>2. QED
    BY <1>1, TokInvariant, PTL

\* The levels deepen from the outermost in, whatever is read.
THEOREM LevelsAlwaysDeepen == TokSpec => []LevelsDeepen
  <1>1. TokInv(lx, open) => LevelsDeepen
    BY DEF TokInv, Levelled, Deepens, Apart, LevelsDeepen
  <1>2. QED
    BY <1>1, TokInvariant, PTL

\* What the tokens opened is what is open: the levels and the parser agree.
THEOREM LevelsAlwaysMatch == TokSpec => []LevelsMatchTokens
  <1>1. TokInv(lx, open) => LevelsMatchTokens
    <2> SUFFICES ASSUME TokInv(lx, open), lx.section = "entry", "cut" \notin lx.quirks
                 PROVE  Cardinality({i \in 2..Len(lx.levels) :
                                       lx.levels[i].status \notin {"open", "str", "block"}})
                          = open + Change(lx.force)
      BY DEF LevelsMatchTokens, In
    <2> DEFINE n == Len(lx.levels)
               told == {i \in 2..n : lx.levels[i].status \notin {"open", "str", "block"}}
    <2>1. /\ Stack(lx.levels) /\ open \in Nat /\ LexLevel(lx).status \notin Apart
          /\ n \in Nat /\ n >= 1 /\ Extra(lx) = 0
      BY AtEdge
    <2>2. told = 2..n
      <3> SUFFICES ASSUME NEW i \in 2..n
                   PROVE  lx.levels[i].status \notin {"open", "str", "block"}
        OBVIOUS
      <3>1. i \in 1..n /\ (i \in 1..n - 1 \/ i = n)
        BY <2>1
      <3>2. IsLevel(lx.levels[i])
        BY <2>1, <3>1 DEF Stack
      <3>3. Last(lx.levels) = lx.levels[n]
        BY <2>1, StackTop
      <3>4. lx.levels[i].status \notin Apart
        BY <2>1, <3>1, <3>3 DEF Stack, LexLevel
      <3>5. QED
        BY <3>2, <3>4 DEF IsLevel, Apart
    <2>3. Cardinality(2..n) = n - 1
      <3>1. 2 \in Int /\ n \in Int
        BY <2>1
      <3>2. Cardinality(2..n) = IF 2 > n THEN 0 ELSE n - 2 + 1
        BY <3>1, FS_Interval
      <3> HIDE DEF n
      <3>3. QED
        BY <2>1, <3>2
    <2>4. n - 1 - Extra(lx) = open + Due(lx)
      BY DEF TokInv, Balanced
    <2>5. Due(lx) = Change(lx.force) + 0
      BY DEF Due
    <2>8. Change(lx.force) \in Int
      BY ChangeIsInt
    <2> HIDE DEF n, told
    <2>6. Cardinality(told) = open + Change(lx.force)
      BY <2>1, <2>2, <2>3, <2>4, <2>5, <2>8
    <2>7. QED
      BY <2>6 DEF told, n
  <1>2. QED
    BY <1>1, TokInvariant, PTL

\* No call goes round without reading on (token.c:564).
THEOREM CallsAlwaysAdvance == TokSpec => []CallsAdvance
  <1>1. TokInit => CallsAdvance
    BY DEF TokInit, CallsAdvance
  <1>2. TokInv(lx, open) /\ CallsAdvance /\ [TokNext]_tokVars => CallsAdvance'
    <2>1. ASSUME TokInv(lx, open), CallsAdvance, TokNext
          PROVE  CallsAdvance'
      <3>1. Reads
        BY <2>1, NextStep
      <3>2. idle = FALSE
        BY <2>1 DEF CallsAdvance
      <3>3. idle' = ~Reads \/ idle' = idle
        BY <2>1 DEF TokNext
      <3>4. QED
        BY <2>1, <3>1, <3>3 DEF CallsAdvance
    <2>2. ASSUME CallsAdvance, UNCHANGED tokVars
          PROVE  CallsAdvance'
      BY <2>2 DEF tokVars, CallsAdvance
    <2>3. QED
      BY <2>1, <2>2
  <1>3. QED
    BY <1>1, <1>2, TokInvariant, PTL DEF TokSpec
=============================================================================
