--------------------------- MODULE SyckSt_proofs ----------------------------
(***************************************************************************)
(* Proofs about SyckSt: the bins stay sound and the count right, and the   *)
(* table implements the map of StMap, for every hash function, every list  *)
(* of sizes and every density.                                             *)
(***************************************************************************)
EXTENDS SyckSt, TLAPS, FiniteSetTheorems, WellFoundedInduction

(* No two entries have one text.                                           *)
Keyed(E) == \A e, f \in E : Text(e) = Text(f) => e = f

-----------------------------------------------------------------------------
(* First, and new_size.                                                    *)

LEMMA FirstIs ==
  ASSUME NEW S \in SUBSET Nat, S # {}
  PROVE  First(S) \in S /\ \A j \in S : First(S) <= j
<1>1. PICK i \in S : \A j \in S : ~ (<<j, i>> \in OpToRel(<, Nat))
  BY NatLessThanWellFounded, WFMin
<1>2. ASSUME NEW j \in S
      PROVE  i <= j
  <2>1. ~ (j < i)
    BY <1>1 DEF OpToRel
  <2>2. QED
    BY <2>1
<1>3. QED
  BY <1>2 DEF First

LEMMA NewSizeGrows ==
  ASSUME NEW size \in Nat
  PROVE  /\ NewSize(size + 1) > size \/ NewSize(size + 1) = Primes[Len(Primes)]
         /\ NewSize(size) <= Primes[Len(Primes)]
<1> DEFINE fits(n) == {i \in DOMAIN Primes : MinSize * 2^(i - 1) > n}
<1>1. Len(Primes) \in DOMAIN Primes /\ \A i \in DOMAIN Primes : Primes[i] \in Nat
  BY StAssumption
<1>2. ASSUME NEW n \in Nat, fits(n) # {}
      PROVE  First(fits(n)) \in fits(n)
  <2>1. fits(n) \in SUBSET Nat
    BY StAssumption
  <2>2. QED
    BY <2>1, <1>2, FirstIs
<1>3. ASSUME NEW i \in DOMAIN Primes, MinSize * 2^(i - 1) > size + 1
      PROVE  Primes[i] > size
  <2>1. 2^(i - 1) \in Int /\ MinSize * 2^(i - 1) \in Int
    <3>1. i \in Int
      BY StAssumption
    <3>2. QED
      BY <3>1, StAssumption
  <2>2. MinSize * 2^(i - 1) <= Primes[i] + 1
    BY PrimesAssumption
  <2> DEFINE p == MinSize * 2^(i - 1)
  <2> HIDE DEF p
  <2>3. p \in Int /\ p <= Primes[i] + 1 /\ p > size + 1
    BY <2>1, <2>2, <1>3 DEF p
  <2>4. QED
    BY <2>3, <1>1
<1>4. NewSize(size + 1) > size \/ NewSize(size + 1) = Primes[Len(Primes)]
  BY <1>2, <1>3, size + 1 \in Nat DEF NewSize
<1>5. NewSize(size) <= Primes[Len(Primes)]
  BY <1>1, <1>2, PrimesAssumption DEF NewSize
<1>6. QED
  BY <1>4, <1>5

LEMMA NewSizeType ==
  ASSUME NEW size \in Nat
  PROVE  NewSize(size) \in Nat \ {0}
<1> DEFINE fits == {i \in DOMAIN Primes : MinSize * 2^(i - 1) > size}
<1>1. fits \in SUBSET Nat /\ fits \subseteq DOMAIN Primes
  BY StAssumption
<1>2. fits # {} => First(fits) \in DOMAIN Primes
  BY <1>1, FirstIs
<1>3. Len(Primes) \in DOMAIN Primes
  BY StAssumption
<1>4. QED
  BY <1>2, <1>3, StAssumption DEF NewSize

-----------------------------------------------------------------------------
(* Bins: what changing one chain does to the entries.                      *)

LEMMA HashType ==
  ASSUME NEW k \in Keys
  PROVE  Spell[k] \in Texts /\ HashOf(k) \in Nat
BY StAssumption DEF HashOf

LEMMA BinOf ==
  ASSUME NEW n \in Nat \ {0}, NEW h \in Nat
  PROVE  h % n \in 0..(n - 1)
OBVIOUS

LEMMA EntriesIn ==
  ASSUME NEW B, NEW e
  PROVE  e \in EntriesOf(B) <=> \E b \in DOMAIN B : \E i \in DOMAIN B[b] : B[b][i] = e
BY DEF EntriesOf

LEMMA EntriesTyped ==
  ASSUME NEW n \in Nat, NEW B \in Tables(n), NEW e \in EntriesOf(B)
  PROVE  e \in Entry
BY EntriesIn DEF Tables

LEMMA SoundKeyed ==
  ASSUME NEW n \in Nat \ {0}, NEW B \in Tables(n), Sound(B, n)
  PROVE  Keyed(EntriesOf(B))
<1> SUFFICES ASSUME NEW e \in EntriesOf(B), NEW f \in EntriesOf(B), Text(e) = Text(f)
             PROVE  e = f
  BY DEF Keyed
<1>1. PICK b \in DOMAIN B : \E i \in DOMAIN B[b] : B[b][i] = e
  BY EntriesIn
<1>2. PICK c \in DOMAIN B : \E j \in DOMAIN B[c] : B[c][j] = f
  BY EntriesIn
<1>3. e.hash = f.hash
  BY <1>1, <1>2 DEF Sound, Text, HashOf
<1>4. b = c
  BY <1>1, <1>2, <1>3 DEF Sound
<1>5. QED
  BY <1>1, <1>2, <1>4 DEF Sound

LEMMA EmptySound ==
  ASSUME NEW n \in Nat \ {0}
  PROVE  Empty(n) \in Tables(n) /\ Sound(Empty(n), n) /\ EntriesOf(Empty(n)) = {}
<1>1. Empty(n) \in Tables(n) /\ \A b \in DOMAIN Empty(n) : DOMAIN Empty(n)[b] = {}
  BY DEF Empty, Tables
<1>2. QED
  BY <1>1, EntriesIn DEF Sound

LEMMA PushSound ==
  ASSUME NEW n \in Nat \ {0}, NEW B \in Tables(n), NEW e \in Entry
  PROVE  /\ Push(B, e, n) \in Tables(n)
         /\ EntriesOf(Push(B, e, n)) = EntriesOf(B) \cup {e}
         /\ Sound(B, n) /\ e.hash = HashOf(e.key)
            /\ (\A f \in EntriesOf(B) : Text(f) # Text(e))
              => Sound(Push(B, e, n), n)
<1> DEFINE a == e.hash % n
           C == Push(B, e, n)
           old == B[a]
<1>1. a \in 0..(n - 1) /\ old \in Seq(Entry)
  BY BinOf DEF Tables, Entry
<1>2. /\ C = [B EXCEPT ![a] = <<e>> \o old] /\ DOMAIN B = 0..(n - 1) /\ DOMAIN C = 0..(n - 1)
  BY DEF Push, Tables
<1>3. /\ C[a] = <<e>> \o old
      /\ \A b \in DOMAIN B \ {a} : C[b] = B[b]
  BY <1>1, <1>2
<1>4. /\ C[a] \in Seq(Entry)
      /\ DOMAIN C[a] = 1..(Len(old) + 1)
      /\ C[a][1] = e
      /\ \A i \in 2..(Len(old) + 1) : C[a][i] = old[i - 1]
  BY <1>1, <1>3
<1>5. C \in Tables(n)
  BY <1>2, <1>3, <1>4 DEF Tables
<1>6. Len(old) \in Nat /\ DOMAIN old = 1..Len(old)
  BY <1>1
<1>7. DOMAIN B = 0..(n - 1) /\ DOMAIN C = 0..(n - 1)
  BY <1>2
<1> HIDE DEF a, C, old
<1>8. \A x : x \in EntriesOf(C) => x \in EntriesOf(B) \cup {e}
  <2> SUFFICES ASSUME NEW x, x \in EntriesOf(C), x # e
               PROVE  x \in EntriesOf(B)
    OBVIOUS
  <2>1. PICK b \in 0..(n - 1) : \E i \in DOMAIN C[b] : C[b][i] = x
    BY <1>7, EntriesIn
  <2>2. PICK i \in DOMAIN C[b] : C[b][i] = x
    BY <2>1
  <2>3. CASE b = a
    <3>1. i \in 2..(Len(old) + 1) /\ i - 1 \in DOMAIN old
      BY <2>3, <2>2, <1>4, <1>6
    <3>2. QED
      BY <2>3, <2>2, <3>1, <1>1, <1>7, <1>4, EntriesIn DEF old
  <2>4. CASE b # a
    BY <2>4, <2>2, <1>7, <1>3, EntriesIn
  <2>5. QED
    BY <2>3, <2>4
<1>9. \A x : x \in EntriesOf(B) \cup {e} => x \in EntriesOf(C)
  <2>1. e \in EntriesOf(C)
    BY <1>1, <1>7, <1>4, <1>6, EntriesIn
  <2>2. ASSUME NEW b \in 0..(n - 1), NEW i \in DOMAIN B[b]
        PROVE  B[b][i] \in EntriesOf(C)
    <3>1. CASE b = a
      <4>1. i + 1 \in 2..(Len(old) + 1) /\ (i + 1) - 1 = i
        BY <3>1, <1>6 DEF old
      <4>2. C[a][i + 1] = old[i] /\ i + 1 \in DOMAIN C[a]
        BY <4>1, <1>4, <1>6
      <4>3. QED
        BY <3>1, <4>2, <1>1, <1>7, EntriesIn DEF old
    <3>2. CASE b # a
      BY <3>2, <1>7, <1>3, EntriesIn
    <3>3. QED
      BY <3>1, <3>2
  <2>3. QED
    BY <2>1, <2>2, <1>7, EntriesIn
<1>10. ASSUME Sound(B, n), e.hash = HashOf(e.key), \A f \in EntriesOf(B) : Text(f) # Text(e)
      PROVE  Sound(C, n)
  <2>1. ASSUME NEW i \in DOMAIN old
        PROVE  old[i] \in EntriesOf(B) /\ Text(old[i]) # Text(e)
    BY <1>1, <1>7, <1>10, EntriesIn DEF old
  <2>2. ASSUME NEW i \in DOMAIN C[a]
        PROVE  /\ i = 1 => C[a][i] = e
               /\ i # 1 => i - 1 \in DOMAIN old /\ C[a][i] = old[i - 1]
    BY <1>4, <1>6
  <2>3. \A i \in DOMAIN C[a] : C[a][i].hash = HashOf(C[a][i].key) /\ a = C[a][i].hash % n
    BY <2>2, <1>1, <1>7, <1>10 DEF Sound, a, old
  <2>4. \A i, j \in DOMAIN C[a] : Text(C[a][i]) = Text(C[a][j]) => i = j
    <3> SUFFICES ASSUME NEW i \in DOMAIN C[a], NEW j \in DOMAIN C[a],
                        Text(C[a][i]) = Text(C[a][j])
                 PROVE  i = j
      OBVIOUS
    <3>1. CASE i = 1 \/ j = 1
      BY <3>1, <2>1, <2>2
    <3>2. CASE i # 1 /\ j # 1
      <4>1. i - 1 = j - 1
        BY <3>2, <2>2, <1>1, <1>7, <1>10 DEF Sound, old
      <4>2. QED
        BY <4>1, <1>4, <1>6
    <3>3. QED
      BY <3>1, <3>2
  <2>5. QED
    BY <2>3, <2>4, <1>2, <1>3, <1>10 DEF Sound
<1>11. QED
  BY <1>5, <1>8, <1>9, <1>10 DEF C

(* A chain without its entry i: what Unlink and Tail leave.                *)
LEMMA DropSound ==
  ASSUME NEW n \in Nat \ {0}, NEW B \in Tables(n), Sound(B, n),
         NEW b \in 0..(n - 1), NEW i \in DOMAIN B[b],
         NEW C \in Tables(n),
         \A c \in 0..(n - 1) : c # b => C[c] = B[c],
         Len(C[b]) = Len(B[b]) - 1,
         \A j \in DOMAIN C[b] : C[b][j] = B[b][IF j < i THEN j ELSE j + 1]
  PROVE  /\ Sound(C, n)
         /\ EntriesOf(C) = EntriesOf(B) \ {B[b][i]}
<1> DEFINE d == C[b]
           old == B[b]
           from(j) == IF j < i THEN j ELSE j + 1
<1>1. DOMAIN B = 0..(n - 1) /\ DOMAIN C = 0..(n - 1)
  BY DEF Tables
<1>2. C[b] = d /\ \A c \in 0..(n - 1) : c # b => C[c] = B[c]
  OBVIOUS
<1>3. /\ old \in Seq(Entry) /\ DOMAIN old = 1..Len(old) /\ Len(old) \in Nat
      /\ DOMAIN d = 1..(Len(old) - 1)
      /\ i \in 1..Len(old)
  BY DEF Tables
<1>4. \A j \in DOMAIN d : from(j) \in DOMAIN old /\ from(j) # i /\ d[j] = old[from(j)]
  BY <1>3
<1>5. \A j, k \in DOMAIN d : from(j) = from(k) => j = k
  BY <1>3
<1>6. \A k \in DOMAIN old \ {i} : \E j \in DOMAIN d : from(j) = k
  <2> TAKE k \in DOMAIN old \ {i}
  <2>1. CASE k < i
    BY <2>1, <1>3
  <2>2. CASE i < k
    <3>1. k - 1 \in DOMAIN d /\ from(k - 1) = k
      BY <2>2, <1>3
    <3>2. QED
      BY <3>1
  <2>3. QED
    BY <2>1, <2>2, <1>3
<1>7. DOMAIN B = 0..(n - 1) /\ DOMAIN C = 0..(n - 1)
  BY <1>1
<1> HIDE DEF from, old, d
<1>8. Sound(C, n)
  <2>1. \A c \in DOMAIN C : \A j \in DOMAIN C[c] :
          C[c][j].hash = HashOf(C[c][j].key) /\ c = C[c][j].hash % n
    <3> SUFFICES ASSUME NEW c \in DOMAIN C, NEW j \in DOMAIN C[c]
                 PROVE  \E k \in DOMAIN B[c] : C[c][j] = B[c][k]
      BY <1>1 DEF Sound
    <3>1. QED
      BY <1>1, <1>2, <1>4 DEF old
  <2>2. \A c \in DOMAIN C : \A j, k \in DOMAIN C[c] :
          Text(C[c][j]) = Text(C[c][k]) => j = k
    <3> SUFFICES ASSUME NEW c \in 0..(n - 1), NEW j \in DOMAIN C[c], NEW k \in DOMAIN C[c],
                        Text(C[c][j]) = Text(C[c][k])
                 PROVE  j = k
      BY <1>1
    <3>1. CASE c = b
      <4>1. from(j) = from(k)
        BY <3>1, <1>1, <1>2, <1>4 DEF Sound, old
      <4>2. QED
        BY <4>1, <3>1, <1>2, <1>5
    <3>2. CASE c # b
      BY <3>2, <1>1, <1>2 DEF Sound
    <3>3. QED
      BY <3>1, <3>2
  <2>3. QED
    BY <2>1, <2>2 DEF Sound
<1>9. ASSUME NEW x \in EntriesOf(C)
      PROVE  x \in EntriesOf(B) \ {old[i]}
  <2>1. PICK c \in 0..(n - 1) : \E j \in DOMAIN C[c] : C[c][j] = x
    BY <1>7, EntriesIn
  <2>2. PICK j \in DOMAIN C[c] : C[c][j] = x
    BY <2>1
  <2>3. CASE c = b
    <3>1. from(j) \in DOMAIN old /\ from(j) # i /\ old[from(j)] = x
      BY <2>2, <2>3, <1>2, <1>4
    <3>2. x # old[i]
      BY <3>1, <1>1 DEF Sound, old
    <3>3. QED
      BY <3>1, <3>2, <1>1, EntriesIn DEF old
  <2>4. CASE c # b
    <3>1. j \in DOMAIN B[c] /\ B[c][j] = x
      BY <2>2, <2>4, <1>2
    <3>2. c = x.hash % n /\ b = old[i].hash % n
      BY <3>1, <1>1 DEF Sound, old
    <3>3. QED
      BY <3>1, <3>2, <2>4, <1>1, EntriesIn
  <2>5. QED
    BY <2>3, <2>4
<1>10. ASSUME NEW x \in EntriesOf(B), x # old[i]
      PROVE  x \in EntriesOf(C)
  <2>1. PICK c \in 0..(n - 1) : \E j \in DOMAIN B[c] : B[c][j] = x
    BY <1>7, EntriesIn
  <2>2. PICK j \in DOMAIN B[c] : B[c][j] = x
    BY <2>1
  <2>3. CASE c = b
    <3>1. PICK k \in DOMAIN d : from(k) = j
      BY <2>2, <2>3, <1>6, <1>10 DEF old
    <3>2. C[b][k] = x
      BY <3>1, <2>2, <2>3, <1>2, <1>4 DEF old
    <3>3. QED
      BY <3>1, <3>2, <1>1, <1>2, EntriesIn
  <2>4. CASE c # b
    BY <2>2, <2>4, <1>1, <1>2, EntriesIn
  <2>5. QED
    BY <2>3, <2>4
<1>11. QED
  BY <1>1, <1>8, <1>9, <1>10 DEF old

LEMMA UnlinkType ==
  ASSUME NEW chain \in Seq(Entry), NEW i \in DOMAIN chain
  PROVE  /\ Unlink(chain, i) \in Seq(Entry)
         /\ Len(Unlink(chain, i)) = Len(chain) - 1
         /\ DOMAIN Unlink(chain, i) = 1..(Len(chain) - 1)
         /\ \A j \in 1..(Len(chain) - 1) :
              Unlink(chain, i)[j] = chain[IF j < i THEN j ELSE j + 1]
<1> DEFINE d == Unlink(chain, i)
<1>1. Len(chain) \in Nat \ {0} /\ DOMAIN chain = 1..Len(chain)
  OBVIOUS
<1>2. \A j \in 1..(Len(chain) - 1) : chain[IF j < i THEN j ELSE j + 1] \in Entry
  BY <1>1
<1>3. d \in [1..(Len(chain) - 1) -> Entry] /\ Len(chain) - 1 \in Nat
  BY <1>1, <1>2 DEF Unlink
<1>4. \A j \in 1..(Len(chain) - 1) : d[j] = chain[IF j < i THEN j ELSE j + 1]
  BY DEF Unlink
<1> HIDE DEF d
<1>5. d \in Seq(Entry) /\ Len(d) = Len(chain) - 1 /\ DOMAIN d = 1..(Len(chain) - 1)
  BY <1>3
<1>6. QED
  BY <1>4, <1>5 DEF d

LEMMA TailSound ==
  ASSUME NEW n \in Nat \ {0}, NEW B \in Tables(n), Sound(B, n),
         NEW b \in 0..(n - 1), B[b] # <<>>
  PROVE  /\ [B EXCEPT ![b] = Tail(@)] \in Tables(n)
         /\ Sound([B EXCEPT ![b] = Tail(@)], n)
         /\ EntriesOf([B EXCEPT ![b] = Tail(@)]) = EntriesOf(B) \ {Head(B[b])}
         /\ Head(B[b]) \in EntriesOf(B)
<1> DEFINE d == Tail(B[b])
           C == [B EXCEPT ![b] = Tail(@)]
<1>1. B[b] \in Seq(Entry) /\ DOMAIN B = 0..(n - 1)
  BY DEF Tables
<1>2. 1 \in DOMAIN B[b] /\ Head(B[b]) = B[b][1]
  BY <1>1
<1>3. /\ d \in Seq(Entry) /\ Len(d) = Len(B[b]) - 1
      /\ \A j \in DOMAIN d : d[j] = B[b][IF j < 1 THEN j ELSE j + 1]
  BY <1>1
<1>4. C = [B EXCEPT ![b] = d]
  OBVIOUS
<1>5. Head(B[b]) \in EntriesOf(B)
  BY <1>1, <1>2, EntriesIn
<1> HIDE DEF d
<1>6. /\ C \in Tables(n) /\ C[b] = d
      /\ \A c \in 0..(n - 1) : c # b => C[c] = B[c]
  BY <1>1, <1>3, <1>4 DEF Tables
<1> HIDE DEF C
<1>7. /\ Len(C[b]) = Len(B[b]) - 1
      /\ \A j \in DOMAIN C[b] : C[b][j] = B[b][IF j < 1 THEN j ELSE j + 1]
  BY <1>3, <1>6
<1>8. Sound(C, n) /\ EntriesOf(C) = EntriesOf(B) \ {B[b][1]}
  BY <1>2, <1>6, <1>7, DropSound
<1>9. QED
  BY <1>2, <1>5, <1>6, <1>8 DEF C

LEMMA OverwriteSound ==
  ASSUME NEW n \in Nat \ {0}, NEW B \in Tables(n), Sound(B, n),
         NEW b \in 0..(n - 1), NEW i \in DOMAIN B[b],
         NEW e \in Entry, e.hash = B[b][i].hash, e.key = B[b][i].key,
         NEW C \in Tables(n),
         \A c \in 0..(n - 1) : c # b => C[c] = B[c],
         DOMAIN C[b] = DOMAIN B[b], C[b][i] = e,
         \A j \in DOMAIN B[b] : j # i => C[b][j] = B[b][j]
  PROVE  Sound(C, n) /\ EntriesOf(C) = (EntriesOf(B) \ {B[b][i]}) \cup {e}
<1>1. DOMAIN B = 0..(n - 1) /\ DOMAIN C = 0..(n - 1)
  BY DEF Tables
<1>2. \A c \in 0..(n - 1) :
        /\ DOMAIN C[c] = DOMAIN B[c]
        /\ \A j \in DOMAIN B[c] :
             /\ ~(c = b /\ j = i) => C[c][j] = B[c][j]
             /\ C[c][j].hash = B[c][j].hash
             /\ C[c][j].key = B[c][j].key
  OBVIOUS
<1>3. Sound(C, n)
  <2>1. \A c \in 0..(n - 1) : \A j \in DOMAIN B[c] :
          Text(C[c][j]) = Text(B[c][j])
    BY <1>2 DEF Text
  <2>2. \A c \in DOMAIN C : \A j \in DOMAIN C[c] :
          C[c][j].hash = HashOf(C[c][j].key) /\ c = C[c][j].hash % n
    BY <1>1, <1>2 DEF Sound
  <2>3. \A c \in DOMAIN C : \A j, k \in DOMAIN C[c] :
          Text(C[c][j]) = Text(C[c][k]) => j = k
    BY <2>1, <1>1, <1>2 DEF Sound
  <2>4. QED
    BY <2>2, <2>3 DEF Sound
<1>4. ASSUME NEW x \in EntriesOf(C)
      PROVE  x \in (EntriesOf(B) \ {B[b][i]}) \cup {e}
  <2>1. PICK c \in 0..(n - 1) : \E j \in DOMAIN C[c] : C[c][j] = x
    BY <1>1, EntriesIn
  <2>2. PICK j \in DOMAIN C[c] : C[c][j] = x
    BY <2>1
  <2>3. CASE c = b /\ j = i
    BY <2>2, <2>3
  <2>4. CASE ~(c = b /\ j = i)
    <3>1. j \in DOMAIN B[c] /\ B[c][j] = x
      BY <2>2, <2>4, <1>2
    <3>2. x # B[b][i]
      <4>1. c = x.hash % n /\ b = B[b][i].hash % n
        BY <3>1, <1>1 DEF Sound
      <4>2. QED
        BY <4>1, <3>1, <2>4, <1>1 DEF Sound
    <3>3. QED
      BY <3>1, <3>2, <1>1, EntriesIn
  <2>5. QED
    BY <2>3, <2>4
<1>5. e \in EntriesOf(C)
  BY <1>1, EntriesIn
<1>6. ASSUME NEW x \in EntriesOf(B), x # B[b][i]
       PROVE  x \in EntriesOf(C)
  <2>1. PICK c \in 0..(n - 1) : \E j \in DOMAIN B[c] : B[c][j] = x
    BY <1>1, EntriesIn
  <2>2. PICK j \in DOMAIN B[c] : B[c][j] = x
    BY <2>1
  <2>3. C[c][j] = x /\ j \in DOMAIN C[c]
    BY <2>2, <1>6, <1>2
  <2>4. QED
    BY <2>3, <1>1, EntriesIn
<1>7. QED
  BY <1>3, <1>4, <1>5, <1>6

-----------------------------------------------------------------------------
(* Entries, their texts and their number.                                  *)

LEMMA TextType ==
  ASSUME NEW e \in Entry
  PROVE  Text(e) \in Texts
BY StAssumption DEF Text, Entry

LEMMA TextsFinite ==
  ASSUME NEW E \in SUBSET Entry
  PROVE  IsFiniteSet(TextsOf(E)) /\ Cardinality(TextsOf(E)) \in Nat
<1>1. TextsOf(E) \in SUBSET Texts
  BY TextType DEF TextsOf
<1>2. IsFiniteSet(TextsOf(E))
  BY <1>1, FS_Subset, StAssumption
<1>3. QED
  BY <1>2, FS_CardinalityType

LEMMA CountAdd ==
  ASSUME NEW E \in SUBSET Entry, NEW e \in Entry, \A f \in E : Text(f) # Text(e)
  PROVE  Cardinality(TextsOf(E \cup {e})) = Cardinality(TextsOf(E)) + 1
<1>1. TextsOf(E \cup {e}) = TextsOf(E) \cup {Text(e)} /\ Text(e) \notin TextsOf(E)
  BY DEF TextsOf
<1>2. QED
  BY <1>1, TextsFinite, FS_AddElement

LEMMA CountDrop ==
  ASSUME NEW E \in SUBSET Entry, Keyed(E), NEW e \in E
  PROVE  /\ Cardinality(TextsOf(E \ {e})) = Cardinality(TextsOf(E)) - 1
         /\ Cardinality(TextsOf(E)) - 1 \in Nat
<1>1. TextsOf(E \ {e}) = TextsOf(E) \ {Text(e)} /\ Text(e) \in TextsOf(E)
  BY DEF TextsOf, Keyed
<1>2. IsFiniteSet(TextsOf(E))
  BY TextsFinite
<1>3. Cardinality(TextsOf(E) \ {Text(e)}) = Cardinality(TextsOf(E)) - 1
  BY <1>1, <1>2, FS_RemoveElement
<1>4. Cardinality(TextsOf(E \ {e})) = Cardinality(TextsOf(E)) - 1
  BY <1>1, <1>3
<1>5. E \ {e} \in SUBSET Entry
  OBVIOUS
<1>6. Cardinality(TextsOf(E \ {e})) \in Nat
  BY <1>5, TextsFinite
<1>7. QED
  BY <1>4, <1>6

(* What the entries mean as a map.                                         *)
LEMMA ItemsAt ==
  ASSUME NEW E \in SUBSET Entry, Keyed(E)
  PROVE  /\ DOMAIN ItemsOf(E) = Texts
         /\ \A e \in E : ItemsOf(E)[Text(e)] = ItemOf(e)
         /\ \A t \in Texts : (\A e \in E : Text(e) # t) => ItemsOf(E)[t] = NONE
<1> DEFINE At(t) == {e \in E : Text(e) = t}
<1>1. \A t \in Texts : ItemsOf(E)[t] =
        IF At(t) = {} THEN NONE ELSE ItemOf(CHOOSE e \in At(t) : TRUE)
  BY DEF ItemsOf
<1>2. ASSUME NEW e \in E
      PROVE  At(Text(e)) = {e}
  BY DEF Keyed
<1>3. ASSUME NEW e \in E
      PROVE  (CHOOSE f \in At(Text(e)) : TRUE) = e
  BY <1>2
<1> HIDE DEF At
<1>4. \A e \in E : ItemsOf(E)[Text(e)] = ItemOf(e)
  BY <1>1, <1>2, <1>3, TextType
<1>5. \A t \in Texts : (\A e \in E : Text(e) # t) => At(t) = {}
  BY DEF At
<1>6. QED
  BY <1>1, <1>4, <1>5 DEF ItemsOf

LEMMA ItemsType ==
  ASSUME NEW E \in SUBSET Entry, Keyed(E), NEW e \in E
  PROVE  ItemsOf(E)[Text(e)] # NONE /\ ItemOf(e) # NONE
<1>1. ItemOf(e) \in [key : Keys, record : Records]
  BY DEF ItemOf, Entry
<1>2. ItemOf(e) # NONE
  BY <1>1, StAssumption
<1>3. QED
  BY <1>2, ItemsAt

LEMMA ItemsAdd ==
  ASSUME NEW E \in SUBSET Entry, Keyed(E), NEW e \in Entry, \A f \in E : Text(f) # Text(e)
  PROVE  /\ Keyed(E \cup {e})
         /\ ItemsOf(E \cup {e}) = [ItemsOf(E) EXCEPT ![Text(e)] = ItemOf(e)]
<1> DEFINE F == E \cup {e}
<1>1. Keyed(F) /\ F \in SUBSET Entry
  BY DEF Keyed
<1>2. ASSUME NEW t \in Texts
      PROVE  ItemsOf(F)[t] = IF t = Text(e) THEN ItemOf(e) ELSE ItemsOf(E)[t]
  <2>1. CASE t = Text(e)
    BY <2>1, <1>1, ItemsAt
  <2>2. CASE t # Text(e) /\ \E f \in E : Text(f) = t
    BY <2>2, <1>1, ItemsAt
  <2>3. CASE t # Text(e) /\ \A f \in E : Text(f) # t
    <3>1. \A f \in F : Text(f) # t
      BY <2>3
    <3>2. QED
      BY <3>1, <2>3, <1>1, ItemsAt
  <2>4. QED
    BY <2>1, <2>2, <2>3
<1> HIDE DEF F
<1>3. ItemsOf(F) = [ItemsOf(E) EXCEPT ![Text(e)] = ItemOf(e)]
  BY <1>2 DEF ItemsOf
<1>4. QED
  BY <1>1, <1>3 DEF F

LEMMA ItemsDrop ==
  ASSUME NEW E \in SUBSET Entry, Keyed(E), NEW e \in E
  PROVE  /\ Keyed(E \ {e})
         /\ ItemsOf(E \ {e}) = [ItemsOf(E) EXCEPT ![Text(e)] = NONE]
<1> DEFINE F == E \ {e}
<1>1. Keyed(F) /\ F \in SUBSET Entry
  BY DEF Keyed
<1>2. ASSUME NEW t \in Texts
      PROVE  ItemsOf(F)[t] = IF t = Text(e) THEN NONE ELSE ItemsOf(E)[t]
  <2>1. CASE t = Text(e)
    <3>1. \A f \in F : Text(f) # t
      BY <2>1 DEF Keyed
    <3>2. QED
      BY <3>1, <2>1, <1>1, ItemsAt
  <2>2. CASE t # Text(e) /\ \E f \in E : Text(f) = t
    <3>1. PICK f \in F : Text(f) = t
      BY <2>2
    <3>2. QED
      BY <3>1, <2>2, <1>1, ItemsAt
  <2>3. CASE t # Text(e) /\ \A f \in E : Text(f) # t
    BY <2>3, <1>1, ItemsAt
  <2>4. QED
    BY <2>1, <2>2, <2>3
<1> HIDE DEF F
<1>3. ItemsOf(F) = [ItemsOf(E) EXCEPT ![Text(e)] = NONE]
  BY <1>2 DEF ItemsOf
<1>4. QED
  BY <1>1, <1>3 DEF F

-----------------------------------------------------------------------------
(* The table's entries, and where FIND_ENTRY finds them.                   *)

LEMMA StKeyed ==
  ASSUME StInv
  PROVE  /\ Entries \in SUBSET Entry /\ Keyed(Entries)
         /\ EntriesOf(bins) \in SUBSET Entry /\ Keyed(EntriesOf(bins))
         /\ phase # "rehash" => Entries = EntriesOf(bins)
<1>1. EntriesOf(bins) \in SUBSET Entry /\ Keyed(EntriesOf(bins))
  BY EntriesTyped, SoundKeyed DEF StInv, TypeOK, BinsSound
<1>2. CASE phase # "rehash"
  BY <1>1, <1>2 DEF Entries
<1>3. CASE phase = "rehash"
  <2>1. EntriesOf(moving.bins) \in SUBSET Entry /\ Keyed(EntriesOf(moving.bins))
    BY <1>3, EntriesTyped, SoundKeyed DEF StInv, TypeOK, BinsSound
  <2>2. Entries = EntriesOf(bins) \cup EntriesOf(moving.bins)
    BY <1>3 DEF Entries
  <2>3. \A e \in EntriesOf(bins), f \in EntriesOf(moving.bins) : Text(e) # Text(f)
    BY <1>3 DEF StInv, BinsSound
  <2>4. QED
    BY <1>1, <1>3, <2>1, <2>2, <2>3 DEF Keyed
<1>4. QED
  BY <1>2, <1>3

LEMMA Binned ==
  ASSUME StInv, NEW k \in Keys
  PROVE  /\ HashOf(k) % numBins \in 0..(numBins - 1)
         /\ bins[HashOf(k) % numBins] \in Seq(Entry)
         /\ \A e \in EntriesOf(bins) : Text(e) = Spell[k] =>
              \E i \in DOMAIN bins[HashOf(k) % numBins] :
                bins[HashOf(k) % numBins][i] = e /\ e.hash = HashOf(k)
<1>1. numBins \in Nat \ {0} /\ bins \in Tables(numBins) /\ Sound(bins, numBins)
  BY DEF StInv, TypeOK, BinsSound
<1>2. HashOf(k) % numBins \in 0..(numBins - 1)
  BY <1>1, HashType, BinOf
<1>3. ASSUME NEW e \in EntriesOf(bins), Text(e) = Spell[k]
      PROVE  \E i \in DOMAIN bins[HashOf(k) % numBins] :
               bins[HashOf(k) % numBins][i] = e /\ e.hash = HashOf(k)
  <2>1. PICK b \in DOMAIN bins : \E i \in DOMAIN bins[b] : bins[b][i] = e
    BY EntriesIn
  <2>2. e.hash = HashOf(k)
    BY <2>1, <1>1, <1>3 DEF Sound, Text, HashOf
  <2>3. b = HashOf(k) % numBins
    BY <2>1, <2>2, <1>1 DEF Sound
  <2>4. QED
    BY <2>1, <2>2, <2>3
<1>4. QED
  BY <1>1, <1>2, <1>3 DEF Tables

LEMMA FindIs ==
  ASSUME StInv, NEW k \in Keys
  PROVE  /\ Find(k) = 0 => \A e \in EntriesOf(bins) : Text(e) # Spell[k]
         /\ Find(k) # 0 => /\ Find(k) \in DOMAIN bins[HashOf(k) % numBins]
                           /\ Text(bins[HashOf(k) % numBins][Find(k)]) = Spell[k]
                           /\ bins[HashOf(k) % numBins][Find(k)] \in EntriesOf(bins)
<1> DEFINE chain == bins[HashOf(k) % numBins]
           hits == {i \in DOMAIN chain : /\ chain[i].hash = HashOf(k)
                                         /\ Spell[chain[i].key] = Spell[k]}
<1>1. HashOf(k) % numBins \in DOMAIN bins /\ chain \in Seq(Entry)
  BY Binned DEF StInv, TypeOK, Tables
<1>2. hits \in SUBSET Nat /\ 0 \notin hits
  BY <1>1
<1>3. hits # {} => First(hits) \in hits
  BY <1>2, FirstIs
<1>4. Find(k) = IF hits = {} THEN 0 ELSE First(hits)
  BY DEF Find
<1>5. ASSUME NEW e \in EntriesOf(bins), Text(e) = Spell[k]
      PROVE  hits # {}
  BY <1>5, Binned DEF Text
<1>6. \A i \in DOMAIN chain : chain[i] \in EntriesOf(bins)
  BY <1>1, EntriesIn
<1> HIDE DEF chain
<1>7. QED
  BY <1>2, <1>3, <1>4, <1>5, <1>6 DEF Text, chain

-----------------------------------------------------------------------------
(* The steps that change the table: the invariant, and the entries.        *)

LEMMA InitInv == Init => StInv /\ Entries = {}
<1> SUFFICES ASSUME Init PROVE StInv /\ Entries = {}
  OBVIOUS
<1>1. numBins \in Nat \ {0}
  BY NewSizeType DEF Init
<1>2. bins \in Tables(numBins) /\ Sound(bins, numBins) /\ EntriesOf(bins) = {}
  BY <1>1, EmptySound DEF Init
<1>3. Entries = {}
  BY <1>2 DEF Init, Entries
<1>4. TypeOK /\ BinsSound
  BY <1>1, <1>2 DEF Init, TypeOK, BinsSound, Nothing
<1>5. TextsOf(Entries) = {}
  BY <1>3 DEF TextsOf
<1>6. CountRight
  BY <1>5, FS_EmptySet DEF CountRight, Init
<1>7. QED
  BY <1>3, <1>4, <1>6 DEF StInv

LEMMA NewEntry ==
  ASSUME NEW k \in Keys, NEW r \in Records, NEW e,
         e = [hash |-> HashOf(k), key |-> k, record |-> r]
  PROVE  /\ e \in Entry /\ e.hash = HashOf(e.key) /\ Text(e) = Spell[k]
         /\ ItemOf(e) = [key |-> k, record |-> r]
BY HashType DEF Entry, Text, ItemOf

LEMMA InsertNewStep ==
  ASSUME StInv, NEW k \in Keys, NEW r \in Records, InsertNew(k, r)
  PROVE  /\ StInv'
         /\ \E e \in Entry : /\ Entries' = Entries \cup {e} /\ Text(e) = Spell[k]
                             /\ ItemOf(e) = [key |-> k, record |-> r]
                             /\ \A f \in Entries : Text(f) # Text(e)
<1> DEFINE e == [hash |-> HashOf(k), key |-> k, record |-> r]
<1>1. /\ e \in Entry /\ e.hash = HashOf(e.key) /\ Text(e) = Spell[k]
      /\ ItemOf(e) = [key |-> k, record |-> r]
  BY NewEntry
<1>2. /\ phase = "idle" /\ phase' = "idle" /\ numBins' = numBins
      /\ bins' = Push(bins, e, numBins) /\ numEntries' = numEntries + 1
      /\ reply' = Nothing /\ Find(k) = 0
  BY DEF InsertNew, Idle
<1>3. /\ numBins \in Nat \ {0} /\ bins \in Tables(numBins) /\ numEntries \in Nat
      /\ Sound(bins, numBins)
  BY DEF StInv, TypeOK, BinsSound
<1> HIDE DEF e
<1>4. \A f \in EntriesOf(bins) : Text(f) # Text(e)
  BY <1>1, <1>2, FindIs
<1>5. /\ bins' \in Tables(numBins) /\ Sound(bins', numBins)
      /\ EntriesOf(bins') = EntriesOf(bins) \cup {e}
  BY <1>1, <1>2, <1>3, <1>4, PushSound
<1>6. Entries = EntriesOf(bins) /\ Entries' = Entries \cup {e}
  BY <1>2, <1>5 DEF Entries
<1>7. TypeOK' /\ BinsSound'
  BY <1>2, <1>3, <1>5 DEF TypeOK, BinsSound, Nothing
<1>8. CountRight'
  BY <1>1, <1>2, <1>4, <1>6, CountAdd, StKeyed DEF StInv, CountRight
<1>9. QED
  BY <1>1, <1>4, <1>6, <1>7, <1>8 DEF StInv

LEMMA InsertOverStep ==
  ASSUME StInv, NEW k \in Keys, NEW r \in Records, InsertOver(k, r)
  PROVE  /\ StInv'
         /\ \E e \in Entries, f \in Entry :
              /\ Entries' = (Entries \ {e}) \cup {f}
              /\ Text(e) = Spell[k] /\ Text(f) = Spell[k]
              /\ ItemOf(f) = [key |-> e.key, record |-> r]
<1> DEFINE b == HashOf(k) % numBins
           i == Find(k)
           e == bins[b][i]
           f == [e EXCEPT !.record = r]
<1>1. /\ phase = "idle" /\ phase' = "idle" /\ numBins' = numBins
      /\ bins' = [bins EXCEPT ![b][i].record = r] /\ numEntries' = numEntries
      /\ reply' = [found |-> TRUE, key |-> NONE, record |-> NONE] /\ Find(k) # 0
  BY DEF InsertOver, Idle, Answer
<1>2. /\ numBins \in Nat \ {0} /\ bins \in Tables(numBins) /\ numEntries \in Nat
      /\ Sound(bins, numBins)
  BY DEF StInv, TypeOK, BinsSound
<1>3. b \in 0..(numBins - 1) /\ i \in DOMAIN bins[b] /\ Text(e) = Spell[k]
      /\ e \in EntriesOf(bins)
  BY <1>1, FindIs, Binned
<1>4. e \in Entry
  BY <1>2, <1>3, EntriesTyped
<1>5. f \in Entry /\ f.hash = e.hash /\ f.key = e.key
  BY <1>4 DEF Entry
<1>6. /\ bins' \in Tables(numBins) /\ DOMAIN bins'[b] = DOMAIN bins[b] /\ bins'[b][i] = f
      /\ \A c \in 0..(numBins - 1) : c # b => bins'[c] = bins[c]
      /\ \A j \in DOMAIN bins[b] : j # i => bins'[b][j] = bins[b][j]
  <2> HIDE DEF b, i, f
  <2>1. bins[b] \in Seq(Entry) /\ DOMAIN bins = 0..(numBins - 1)
    BY <1>2, <1>3 DEF Tables
  <2>2. bins' = [bins EXCEPT ![b] = [bins[b] EXCEPT ![i] = f]]
    BY <1>1 DEF f
  <2>3. [bins[b] EXCEPT ![i] = f] \in Seq(Entry)
    BY <2>1, <1>3, <1>5
  <2>4. QED
    BY <2>1, <2>2, <2>3, <1>2, <1>3 DEF Tables
<1>7. Sound(bins', numBins) /\ EntriesOf(bins') = (EntriesOf(bins) \ {e}) \cup {f}
  <2> HIDE DEF b, i, f
  <2>1. QED
    BY <1>2, <1>3, <1>5, <1>6, OverwriteSound
<1>8. Entries = EntriesOf(bins) /\ Entries' = (Entries \ {e}) \cup {f} /\ e \in Entry
  BY <1>1, <1>3, <1>7, StKeyed DEF Entries
<1>9. /\ f \in Entry /\ Text(f) = Text(e) /\ ItemOf(f) = [key |-> e.key, record |-> r]
  BY <1>8 DEF Entry, Text, ItemOf
<1> HIDE DEF b, i, e, f
<1>10. TypeOK' /\ BinsSound'
  BY <1>1, <1>2, <1>7, <1>6 DEF TypeOK, BinsSound
<1>11. TextsOf(Entries') = TextsOf(Entries)
  BY <1>3, <1>8, <1>9 DEF TextsOf
<1>12. CountRight'
  BY <1>1, <1>11 DEF StInv, CountRight
<1>13. QED
  BY <1>3, <1>8, <1>9, <1>10, <1>12 DEF StInv

LEMMA InsertCrowdedStep ==
  ASSUME StInv, NEW k \in Keys, NEW r \in Records, InsertCrowded(k, r)
  PROVE  StInv' /\ Entries' = Entries
<1> DEFINE n == NewSize(numBins + 1)
<1>1. /\ phase = "idle" /\ phase' = "rehash" /\ numBins' = numBins /\ bins' = bins
      /\ numEntries' = numEntries /\ reply' = reply /\ Find(k) = 0
      /\ moving' = [size |-> n, bins |-> Empty(n), key |-> k, record |-> r]
  BY DEF InsertCrowded, Idle
<1>2. n \in Nat \ {0}
  BY NewSizeType DEF StInv, TypeOK
<1> HIDE DEF n
<1>3. /\ Empty(n) \in Tables(n) /\ Sound(Empty(n), n) /\ EntriesOf(Empty(n)) = {}
  BY <1>2, EmptySound
<1>4. /\ moving'.size = n /\ moving'.bins = Empty(n) /\ moving'.key = k
      /\ moving'.record = r
  BY <1>1
<1>5. Entries' = Entries /\ Entries = EntriesOf(bins)
  BY <1>1, <1>3, <1>4 DEF Entries
<1>6. \A e \in Entries : Text(e) # Spell[k]
  BY <1>1, <1>5, FindIs
<1>7. TypeOK'
  BY <1>1, <1>2, <1>3, <1>4 DEF StInv, TypeOK
<1>8. BinsSound'
  BY <1>1, <1>3, <1>4, <1>5, <1>6 DEF StInv, BinsSound
<1>9. CountRight'
  BY <1>1, <1>5 DEF StInv, CountRight
<1>10. QED
  BY <1>5, <1>7, <1>8, <1>9 DEF StInv

LEMMA MoveEntryStep ==
  ASSUME StInv, MoveEntry
  PROVE  StInv' /\ Entries' = Entries
<1>1. PICK b \in DOMAIN bins :
        /\ bins[b] # <<>>
        /\ bins' = [bins EXCEPT ![b] = Tail(@)]
        /\ moving' = [moving EXCEPT !.bins = Push(@, Head(bins[b]), moving.size)]
  BY DEF MoveEntry
<1> DEFINE e == Head(bins[b])
           n == moving.size
           P == Push(moving.bins, e, n)
<1>2. /\ phase = "rehash" /\ phase' = phase /\ numBins' = numBins
      /\ numEntries' = numEntries /\ reply' = reply
  BY DEF MoveEntry
<1>3. /\ numBins \in Nat \ {0} /\ bins \in Tables(numBins) /\ Sound(bins, numBins)
      /\ n \in Nat \ {0} /\ moving.bins \in Tables(n) /\ Sound(moving.bins, n)
      /\ b \in 0..(numBins - 1)
  BY <1>2 DEF StInv, TypeOK, BinsSound, Tables
<1>4. /\ bins' \in Tables(numBins) /\ Sound(bins', numBins)
      /\ EntriesOf(bins') = EntriesOf(bins) \ {e} /\ e \in EntriesOf(bins)
  BY <1>1, <1>3, TailSound
<1>5. e \in Entry /\ e.hash = HashOf(e.key)
      /\ \A f \in EntriesOf(moving.bins) : Text(f) # Text(e)
  <2>1. e \in Entry
    BY <1>3, <1>4, EntriesTyped
  <2>2. e.hash = HashOf(e.key)
    BY <1>3, <1>4, EntriesIn DEF Sound
  <2>3. \A f \in EntriesOf(moving.bins) : Text(f) # Text(e)
    BY <1>2, <1>4 DEF StInv, BinsSound
  <2>4. QED
    BY <2>1, <2>2, <2>3
<1>6. /\ moving'.size = n /\ moving'.bins = P /\ moving'.key = moving.key
      /\ moving'.record = moving.record
      /\ moving' = [size |-> n, bins |-> P, key |-> moving.key, record |-> moving.record]
  <2>1. moving = [size |-> n, bins |-> moving.bins,
                  key |-> moving.key, record |-> moving.record]
    BY <1>2 DEF StInv, TypeOK
  <2>2. QED
    BY <1>1, <2>1
<1> HIDE DEF e, n, P
<1>7. P \in Tables(n) /\ Sound(P, n) /\ EntriesOf(P) = EntriesOf(moving.bins) \cup {e}
  BY <1>3, <1>5, PushSound DEF P
<1>8. /\ Entries = EntriesOf(bins) \cup EntriesOf(moving.bins)
      /\ Entries' = EntriesOf(bins') \cup EntriesOf(P)
  BY <1>2, <1>6 DEF Entries
<1>9. Entries' = Entries
  BY <1>4, <1>7, <1>8
<1>10. TypeOK'
  BY <1>2, <1>3, <1>4, <1>6, <1>7 DEF StInv, TypeOK
<1>11. \A f \in EntriesOf(bins'), g \in EntriesOf(P) : Text(f) # Text(g)
  <2>1. \A f \in EntriesOf(bins') : f \in EntriesOf(bins) /\ Text(f) # Text(e)
    BY <1>4, StKeyed DEF Keyed
  <2>2. \A f \in EntriesOf(bins), g \in EntriesOf(moving.bins) : Text(f) # Text(g)
    BY <1>2 DEF StInv, BinsSound
  <2>3. QED
    BY <2>1, <2>2, <1>7
<1>12. \A f \in Entries : Text(f) # Spell[moving.key]
  BY <1>2 DEF StInv, BinsSound
<1>13. BinsSound'
  BY <1>2, <1>4, <1>6, <1>7, <1>9, <1>11, <1>12 DEF BinsSound
<1>14. CountRight'
  BY <1>2, <1>9 DEF StInv, CountRight
<1>15. QED
  BY <1>9, <1>10, <1>13, <1>14 DEF StInv

LEMMA FinishInsertStep ==
  ASSUME StInv, FinishInsert
  PROVE  /\ StInv'
         /\ moving.key \in Keys /\ moving.record \in Records
         /\ \E e \in Entry : /\ Entries' = Entries \cup {e} /\ Text(e) = Spell[moving.key]
                             /\ ItemOf(e) = [key |-> moving.key, record |-> moving.record]
                             /\ \A f \in Entries : Text(f) # Text(e)
<1> DEFINE n == moving.size
           e == [hash |-> HashOf(moving.key), key |-> moving.key,
                 record |-> moving.record]
<1>1. /\ phase = "rehash" /\ phase' = "idle" /\ numBins' = n
      /\ bins' = Push(moving.bins, e, n) /\ numEntries' = numEntries + 1
      /\ reply' = Nothing /\ \A b \in DOMAIN bins : bins[b] = <<>>
  BY DEF FinishInsert
<1>2. /\ n \in Nat \ {0} /\ moving.bins \in Tables(n) /\ Sound(moving.bins, n)
      /\ moving.key \in Keys /\ moving.record \in Records /\ numEntries \in Nat
  BY <1>1 DEF StInv, TypeOK, BinsSound
<1>3. /\ e \in Entry /\ e.hash = HashOf(e.key) /\ Text(e) = Spell[moving.key]
      /\ ItemOf(e) = [key |-> moving.key, record |-> moving.record]
  BY <1>2, NewEntry
<1> HIDE DEF e, n
<1>4. EntriesOf(bins) = {} /\ Entries = EntriesOf(moving.bins)
  <2>1. EntriesOf(bins) = {}
    BY <1>1, EntriesIn
  <2>2. QED
    BY <2>1, <1>1 DEF Entries
<1>5. \A f \in Entries : Text(f) # Text(e)
  BY <1>1, <1>3 DEF StInv, BinsSound
<1>6. /\ bins' \in Tables(n) /\ Sound(bins', n)
      /\ EntriesOf(bins') = EntriesOf(moving.bins) \cup {e}
  BY <1>1, <1>2, <1>3, <1>4, <1>5, PushSound
<1>7. Entries' = Entries \cup {e}
  BY <1>1, <1>4, <1>6 DEF Entries
<1>8. TypeOK' /\ BinsSound'
  BY <1>1, <1>2, <1>6 DEF TypeOK, BinsSound, Nothing
<1>9. CountRight'
  BY <1>1, <1>3, <1>5, <1>7, CountAdd, StKeyed DEF StInv, CountRight
<1>10. QED
  BY <1>2, <1>3, <1>5, <1>7, <1>8, <1>9 DEF StInv

(* What st_delete and a callback's ST_DELETE both do.                      *)
Unlinks(b, i) == bins' = [bins EXCEPT ![b] = Unlink(@, i)]

LEMMA DropStep ==
  ASSUME StInv, NEW b \in 0..(numBins - 1), NEW i \in DOMAIN bins[b],
         phase # "rehash", phase' \in {"idle", "foreach"},
         phase' = "foreach" => cursor' \in [bin : 0..numBins, pos : Nat \ {0}],
         numBins' = numBins, Unlinks(b, i),
         numEntries' = numEntries - 1,
         reply' = [found |-> TRUE, key |-> bins[b][i].key, record |-> bins[b][i].record]
  PROVE  /\ StInv' /\ bins[b][i] \in Entries /\ Entries' = Entries \ {bins[b][i]}
         /\ Entries' = EntriesOf(bins')
<1> DEFINE e == bins[b][i]
<1>1. /\ numBins \in Nat \ {0} /\ bins \in Tables(numBins) /\ numEntries \in Nat
      /\ Sound(bins, numBins) /\ DOMAIN bins = 0..(numBins - 1)
  BY DEF StInv, TypeOK, BinsSound, Tables
<1>2. /\ bins' \in Tables(numBins) /\ bins'[b] = Unlink(bins[b], i)
      /\ \A c \in 0..(numBins - 1) : c # b => bins'[c] = bins[c]
      /\ bins[b] \in Seq(Entry)
  BY <1>1, UnlinkType DEF Tables, Unlinks
<1>3. /\ Len(Unlink(bins[b], i)) = Len(bins[b]) - 1
      /\ DOMAIN Unlink(bins[b], i) = 1..(Len(bins[b]) - 1)
      /\ \A j \in 1..(Len(bins[b]) - 1) :
           Unlink(bins[b], i)[j] = bins[b][IF j < i THEN j ELSE j + 1]
  BY <1>2, UnlinkType
<1>4. /\ Len(bins'[b]) = Len(bins[b]) - 1
      /\ \A j \in DOMAIN bins'[b] : bins'[b][j] = bins[b][IF j < i THEN j ELSE j + 1]
  BY <1>2, <1>3
<1>5. Sound(bins', numBins) /\ EntriesOf(bins') = EntriesOf(bins) \ {e}
  <2>1. /\ numBins \in Nat \ {0} /\ bins \in Tables(numBins) /\ Sound(bins, numBins)
        /\ b \in 0..(numBins - 1) /\ i \in DOMAIN bins[b]
        /\ bins' \in Tables(numBins)
        /\ \A c \in 0..(numBins - 1) : c # b => bins'[c] = bins[c]
    BY <1>1, <1>2
  <2>2. QED
    BY <2>1, <1>4, DropSound
<1>6. e \in EntriesOf(bins)
  BY <1>1, EntriesIn
<1>7. e \in Entry
  BY <1>1, <1>6, EntriesTyped
<1> HIDE DEF e
<1>8. /\ Entries = EntriesOf(bins) /\ Entries' = Entries \ {e}
      /\ Entries' = EntriesOf(bins')
  BY <1>5 DEF Entries
<1>9. reply' \in [found : BOOLEAN, key : Keys \cup {NONE}, record : Records \cup {NONE}]
  BY <1>7 DEF Entry, e
<1>10. CountRight' /\ numEntries' \in Nat
  BY <1>6, <1>8, CountDrop, StKeyed DEF StInv, CountRight
<1>11. TypeOK' /\ BinsSound'
  BY <1>1, <1>2, <1>5, <1>9, <1>10 DEF TypeOK, BinsSound
<1>12. QED
  BY <1>6, <1>8, <1>10, <1>11 DEF StInv, e

LEMMA DeleteStep ==
  ASSUME StInv, NEW k \in Keys, Delete(k)
  PROVE  /\ StInv'
         /\ \/ /\ Entries' = Entries /\ reply' = Nothing
               /\ \A e \in Entries : Text(e) # Spell[k]
            \/ \E e \in Entries :
                 /\ Entries' = Entries \ {e} /\ Text(e) = Spell[k]
                 /\ reply' = [found |-> TRUE, key |-> e.key, record |-> e.record]
<1> DEFINE b == HashOf(k) % numBins
           hits == {i \in DOMAIN bins[b] : Spell[bins[b][i].key] = Spell[k]}
           i == First(hits)
<1>1. /\ phase = "idle" /\ phase' = "idle" /\ numBins' = numBins
      /\ Entries = EntriesOf(bins)
  BY DEF Delete, Idle, Entries
<1>2. b \in 0..(numBins - 1) /\ bins[b] \in Seq(Entry)
  BY Binned
<1>3. CASE hits = {}
  <2>1. reply' = Nothing /\ bins' = bins /\ numEntries' = numEntries
    BY <1>3 DEF Delete
  <2>2. Entries' = Entries
    BY <1>1, <2>1 DEF Entries
  <2>3. \A e \in Entries : Text(e) # Spell[k]
    <3> SUFFICES ASSUME NEW e \in EntriesOf(bins), Text(e) = Spell[k] PROVE FALSE
      BY <1>1
    <3>1. PICK j \in DOMAIN bins[b] : bins[b][j] = e
      BY Binned
    <3>2. j \in hits
      BY <3>1 DEF Text
    <3>3. QED
      BY <3>2, <1>3
  <2>4. StInv'
    BY <1>1, <2>1, <2>2 DEF StInv, TypeOK, BinsSound, CountRight, Nothing
  <2>5. QED
    BY <2>1, <2>2, <2>3, <2>4
<1>4. CASE hits # {}
  <2>1. /\ reply' = [found |-> TRUE, key |-> bins[b][i].key, record |-> bins[b][i].record]
        /\ Unlinks(b, i) /\ numEntries' = numEntries - 1
    BY <1>4 DEF Delete, Answer, Unlinks
  <2>2. hits \in SUBSET Nat
    BY <1>2
  <2>3. i \in DOMAIN bins[b] /\ Text(bins[b][i]) = Spell[k]
    BY <1>4, <2>2, FirstIs DEF Text
  <2> HIDE DEF b, hits, i
  <2>4. /\ StInv' /\ bins[b][i] \in Entries /\ Entries' = Entries \ {bins[b][i]}
    BY <1>1, <1>2, <2>1, <2>3, DropStep
  <2>5. QED
    BY <2>1, <2>3, <2>4
<1>5. QED
  BY <1>3, <1>4

LEMMA FreeStep ==
  ASSUME StInv, Free
  PROVE  StInv' /\ Entries' = {}
<1>1. /\ phase' = "idle" /\ numEntries' = 0 /\ reply' = reply
      /\ numBins' = NewSize(0) /\ bins' = Empty(NewSize(0))
  BY DEF Free, Idle
<1>2. numBins' \in Nat \ {0}
  BY <1>1, NewSizeType
<1>3. bins' \in Tables(numBins') /\ Sound(bins', numBins') /\ EntriesOf(bins') = {}
  BY <1>1, <1>2, EmptySound
<1>4. Entries' = {}
  BY <1>1, <1>3 DEF Entries
<1>5. TypeOK' /\ BinsSound'
  BY <1>1, <1>2, <1>3 DEF StInv, TypeOK, BinsSound
<1>6. TextsOf(Entries') = {}
  BY <1>4 DEF TextsOf
<1>7. CountRight'
  BY <1>1, <1>6, FS_EmptySet DEF CountRight
<1>8. QED
  BY <1>4, <1>5, <1>7 DEF StInv

(* The steps that leave the table alone.                                   *)
LEMMA OtherStep ==
  ASSUME StInv, UNCHANGED <<numBins, bins, numEntries>>, phase # "rehash",
         phase' \in {"idle", "foreach"},
         phase' = "foreach" => cursor' \in [bin : 0..numBins, pos : Nat \ {0}],
         reply' \in [found : BOOLEAN, key : Keys \cup {NONE}, record : Records \cup {NONE}]
  PROVE  StInv' /\ Entries' = Entries
<1>1. Entries' = Entries
  BY DEF Entries
<1>2. QED
  BY <1>1 DEF StInv, TypeOK, BinsSound, CountRight

LEMMA LookupStep ==
  ASSUME StInv, NEW k \in Keys, Lookup(k)
  PROVE  /\ StInv' /\ Entries' = Entries
         /\ \/ /\ reply' = Nothing
               /\ \A e \in Entries : Text(e) # Spell[k]
            \/ \E e \in Entries :
                 /\ Text(e) = Spell[k]
                 /\ reply' = [found |-> TRUE, key |-> NONE, record |-> e.record]
<1>1. phase = "idle" /\ phase' = "idle" /\ UNCHANGED <<numBins, bins, numEntries>>
  BY DEF Lookup, Idle
<1>2. CASE Find(k) = 0
  <2>1. reply' = Nothing /\ \A e \in Entries : Text(e) # Spell[k]
    BY <1>1, <1>2, FindIs, StKeyed DEF Lookup
  <2>2. StInv' /\ Entries' = Entries
    BY <1>1, <2>1, OtherStep DEF Nothing
  <2>3. QED
    BY <2>1, <2>2
<1>3. CASE Find(k) # 0
  <2>1. PICK e \in EntriesOf(bins) :
          /\ Text(e) = Spell[k]
          /\ reply' = [found |-> TRUE, key |-> NONE, record |-> e.record]
    BY <1>3, FindIs DEF Lookup, Answer
  <2>2. e \in Entries /\ e.record \in Records
    BY <1>1, <2>1, StKeyed DEF Entry
  <2>3. StInv' /\ Entries' = Entries
    BY <1>1, <2>1, <2>2, OtherStep
  <2>4. QED
    BY <2>1, <2>2, <2>3
<1>4. QED
  BY <1>2, <1>3

-----------------------------------------------------------------------------
(* Traversals.                                                             *)

(* A text has one place.                                                   *)
LEMMA OnePlace ==
  ASSUME StInv, NEW b \in DOMAIN bins, NEW i \in DOMAIN bins[b],
         NEW c \in DOMAIN bins, NEW j \in DOMAIN bins[c],
         Text(bins[b][i]) = Text(bins[c][j])
  PROVE  b = c /\ i = j
<1>1. Sound(bins, numBins)
  BY DEF StInv, BinsSound
<1>2. bins[b][i].hash = bins[c][j].hash
  BY <1>1 DEF Sound, Text, HashOf
<1>3. b = c
  BY <1>1, <1>2 DEF Sound
<1>4. QED
  BY <1>1, <1>3 DEF Sound

LEMMA AheadIs ==
  ASSUME NEW t
  PROVE  t \in Ahead <=> /\ t \in Texts
                         /\ \E b \in DOMAIN bins : \E i \in DOMAIN bins[b] :
                              /\ Text(bins[b][i]) = t
                              /\ b > cursor.bin \/ (b = cursor.bin /\ i >= cursor.pos)
BY DEF Ahead

LEMMA ForeachStep ==
  ASSUME StInv, Foreach
  PROVE  StInv' /\ Entries' = Entries /\ Ahead' = TextsOf(Entries)
<1>1. /\ phase = "idle" /\ phase' = "foreach" /\ cursor' = [bin |-> 0, pos |-> 1]
      /\ UNCHANGED <<numBins, bins, numEntries>> /\ reply' = reply
  BY DEF Foreach, Idle
<1>2. numBins \in Nat \ {0} /\ bins \in Tables(numBins)
  BY DEF StInv, TypeOK
<1>3. StInv' /\ Entries' = Entries
  BY <1>1, <1>2, OtherStep DEF StInv, TypeOK
<1>4. Entries = EntriesOf(bins) /\ \A e \in Entries : Text(e) \in Texts
  BY <1>1, StKeyed, TextType
<1>5. \A b \in DOMAIN bins : \A i \in DOMAIN bins[b] :
        b > cursor'.bin \/ (b = cursor'.bin /\ i >= cursor'.pos)
  BY <1>1, <1>2 DEF Tables
<1>6. \A t : t \in Ahead' <=> /\ t \in Texts
                              /\ \E b \in DOMAIN bins : \E i \in DOMAIN bins[b] :
                                   Text(bins[b][i]) = t
  BY <1>1, <1>5 DEF Ahead
<1>7. \A t : t \in TextsOf(Entries) <=> \E b \in DOMAIN bins : \E i \in DOMAIN bins[b] :
                                         Text(bins[b][i]) = t
  BY <1>4, EntriesIn DEF TextsOf
<1>8. \A t : t \in TextsOf(Entries) => t \in Texts
  BY <1>4 DEF TextsOf
<1>9. QED
  BY <1>3, <1>6, <1>7, <1>8

LEMMA NextBinStep ==
  ASSUME StInv, NextBin
  PROVE  StInv' /\ Entries' = Entries /\ Ahead' = Ahead
<1>1. /\ phase = "foreach" /\ phase' = "foreach"
      /\ cursor' = [bin |-> cursor.bin + 1, pos |-> 1]
      /\ UNCHANGED <<numBins, bins, numEntries>> /\ reply' = reply
      /\ cursor.bin < numBins /\ cursor.pos > Len(bins[cursor.bin])
  BY DEF NextBin, Walking, Chain
<1>2. /\ numBins \in Nat \ {0} /\ bins \in Tables(numBins)
      /\ cursor.bin \in 0..numBins /\ cursor.pos \in Nat \ {0}
  BY <1>1 DEF StInv, TypeOK
<1>3. StInv' /\ Entries' = Entries
  BY <1>1, <1>2, OtherStep DEF StInv, TypeOK
<1>4. \A b \in DOMAIN bins : \A i \in DOMAIN bins[b] :
        (b > cursor'.bin \/ (b = cursor'.bin /\ i >= cursor'.pos))
          <=> (b > cursor.bin \/ (b = cursor.bin /\ i >= cursor.pos))
  <2> TAKE b \in DOMAIN bins
  <2> TAKE i \in DOMAIN bins[b]
  <2>1. b \in 0..(numBins - 1) /\ i \in 1..Len(bins[b]) /\ Len(bins[b]) \in Nat
    BY <1>2 DEF Tables
  <2>2. cursor'.bin = cursor.bin + 1 /\ cursor'.pos = 1
    BY <1>1
  <2>3. QED
    BY <1>1, <1>2, <2>1, <2>2
<1>5. \A t : t \in Ahead' <=> t \in Ahead
  BY <1>1, <1>4 DEF Ahead
<1>6. QED
  BY <1>3, <1>5

LEMMA VisitStep ==
  ASSUME StInv, NEW verdict \in {"continue", "stop", "delete"}, Visit(verdict)
  PROVE  /\ StInv'
         /\ \E e \in Entries :
              /\ Text(e) \in Ahead
              /\ reply' = [found |-> TRUE, key |-> e.key, record |-> e.record]
              /\ Entries' = IF verdict = "delete" THEN Entries \ {e} ELSE Entries
              /\ verdict # "stop" => phase' = "foreach" /\ Ahead' = Ahead \ {Text(e)}
              /\ verdict = "stop" => phase' = "idle"
<1> DEFINE c == cursor.bin
           p == cursor.pos
           e == bins[c][p]
<1>1. /\ phase = "foreach" /\ numBins' = numBins /\ c < numBins /\ p <= Len(bins[c])
      /\ reply' = [found |-> TRUE, key |-> e.key, record |-> e.record]
      /\ phase' = IF verdict = "stop" THEN "idle" ELSE phase
  BY DEF Visit, Walking, Chain, Answer
<1>2. /\ numBins \in Nat \ {0} /\ bins \in Tables(numBins)
      /\ cursor \in [bin : 0..numBins, pos : Nat \ {0}]
  BY <1>1 DEF StInv, TypeOK
<1>3. /\ DOMAIN bins = 0..(numBins - 1) /\ c \in 0..(numBins - 1)
      /\ bins[c] \in Seq(Entry) /\ p \in 1..Len(bins[c]) /\ p \in DOMAIN bins[c]
      /\ p \in Nat \ {0}
  BY <1>1, <1>2 DEF Tables
<1>4. e \in Entries /\ e \in Entry /\ Text(e) \in Ahead
  <2>1. e \in EntriesOf(bins)
    BY <1>3, EntriesIn
  <2>2. e \in Entries /\ e \in Entry
    BY <1>1, <2>1, StKeyed
  <2>3. Text(e) \in Texts
    BY <2>2, TextType
  <2>4. QED
    BY <1>3, <2>2, <2>3, AheadIs
<1>5. ASSUME NEW t \in Ahead, t # Text(e)
      PROVE  \E b \in DOMAIN bins : \E i \in DOMAIN bins[b] :
               /\ Text(bins[b][i]) = t /\ t \in Texts
               /\ b > c \/ (b = c /\ i > p)
  <2>1. PICK b \in DOMAIN bins : \E i \in DOMAIN bins[b] :
          Text(bins[b][i]) = t /\ (b > c \/ (b = c /\ i >= p))
    BY AheadIs
  <2>2. PICK i \in DOMAIN bins[b] :
          Text(bins[b][i]) = t /\ (b > c \/ (b = c /\ i >= p))
    BY <2>1
  <2>3. ~(b = c /\ i = p)
    BY <2>2, <1>5
  <2>4. b \in Int /\ i \in Int
    BY <1>2, <1>3 DEF Tables
  <2>5. QED
    BY <2>2, <2>3, <2>4, <1>3, AheadIs
<1>6. CASE verdict # "delete"
  <2>1. /\ UNCHANGED <<numBins, bins, numEntries>>
        /\ verdict = "continue" => cursor' = [bin |-> c, pos |-> p + 1]
    BY <1>2, <1>6 DEF Visit
  <2>2. verdict = "continue" => cursor' \in [bin : 0..numBins, pos : Nat \ {0}]
    BY <2>1, <1>2, <1>3
  <2>3. reply' \in [found : BOOLEAN, key : Keys \cup {NONE}, record : Records \cup {NONE}]
    BY <1>1, <1>4 DEF Entry
  <2>4. StInv' /\ Entries' = Entries
    BY <1>1, <1>6, <2>1, <2>2, <2>3, OtherStep
  <2>5. ASSUME verdict = "continue"
        PROVE  Ahead' = Ahead \ {Text(e)}
    <3>1. cursor'.bin = c /\ cursor'.pos = p + 1 /\ bins' = bins
      BY <2>1, <2>5
    <3>2. ASSUME NEW t \in Ahead'
          PROVE  t \in Ahead /\ t # Text(e)
      <4>1. t \in Texts /\ \E b \in DOMAIN bins : \E i \in DOMAIN bins[b] :
              Text(bins[b][i]) = t /\ (b > c \/ (b = c /\ i >= p + 1))
        BY <3>1 DEF Ahead
      <4>2. PICK b \in DOMAIN bins : \E i \in DOMAIN bins[b] :
              Text(bins[b][i]) = t /\ (b > c \/ (b = c /\ i >= p + 1))
        BY <4>1
      <4>3. PICK i \in DOMAIN bins[b] :
              Text(bins[b][i]) = t /\ (b > c \/ (b = c /\ i >= p + 1))
        BY <4>2
      <4>4. b \in Int /\ i \in Int
        BY <1>2, <1>3 DEF Tables
      <4>5. ~(b = c /\ i = p) /\ (b > c \/ (b = c /\ i >= p))
        BY <4>3, <4>4, <1>3
      <4>6. QED
        BY <4>1, <4>3, <4>5, <1>3, OnePlace, AheadIs
    <3>3. ASSUME NEW t \in Ahead, t # Text(e)
          PROVE  t \in Ahead'
      <4>1. PICK b \in DOMAIN bins : \E i \in DOMAIN bins[b] :
              /\ Text(bins[b][i]) = t /\ t \in Texts
              /\ b > c \/ (b = c /\ i > p)
        BY <3>3, <1>5
      <4>2. PICK i \in DOMAIN bins[b] :
              /\ Text(bins[b][i]) = t /\ t \in Texts
              /\ b > c \/ (b = c /\ i > p)
        BY <4>1
      <4>3. b > c \/ (b = c /\ i >= p + 1)
        BY <4>2, <1>2, <1>3 DEF Tables
      <4>4. QED
        BY <3>1, <4>2, <4>3 DEF Ahead
    <3>4. QED
      BY <3>2, <3>3
  <2>6. QED
    BY <1>1, <1>4, <1>6, <2>4, <2>5
<1>7. CASE verdict = "delete"
  <2>1. /\ Unlinks(c, p) /\ numEntries' = numEntries - 1 /\ cursor' = cursor
    BY <1>7 DEF Visit, Unlinks
  <2>2. /\ StInv' /\ Entries' = Entries \ {e}
    BY <1>1, <1>2, <1>3, <1>7, <2>1, DropStep
  <2>3. /\ \A b \in DOMAIN bins : b # c => bins'[b] = bins[b]
        /\ bins'[c] = Unlink(bins[c], p) /\ DOMAIN bins' = DOMAIN bins
    BY <1>3, <2>1 DEF Unlinks
  <2>4. /\ DOMAIN bins'[c] = 1..(Len(bins[c]) - 1)
        /\ \A j \in 1..(Len(bins[c]) - 1) :
             bins'[c][j] = bins[c][IF j < p THEN j ELSE j + 1]
    BY <1>3, <2>3, UnlinkType
  <2>5. ASSUME NEW t \in Ahead'
        PROVE  t \in Ahead /\ t # Text(e)
    <3>1. t \in Texts /\ \E b \in DOMAIN bins : \E i \in DOMAIN bins'[b] :
            Text(bins'[b][i]) = t /\ (b > c \/ (b = c /\ i >= p))
      BY <2>1, <2>3 DEF Ahead
    <3>2. PICK b \in DOMAIN bins : \E i \in DOMAIN bins'[b] :
            Text(bins'[b][i]) = t /\ (b > c \/ (b = c /\ i >= p))
      BY <3>1
    <3>3. PICK i \in DOMAIN bins'[b] :
            Text(bins'[b][i]) = t /\ (b > c \/ (b = c /\ i >= p))
      BY <3>2
    <3>4. CASE b = c
      <4>1. i >= p /\ i \in 1..(Len(bins[c]) - 1)
        BY <3>3, <3>4, <1>3, <2>4
      <4>2. i + 1 \in DOMAIN bins[c] /\ bins'[c][i] = bins[c][i + 1] /\ i + 1 # p
        BY <4>1, <1>3, <2>4
      <4>3. i + 1 >= p
        BY <4>1, <1>3
      <4>4. QED
        BY <3>1, <3>3, <3>4, <4>2, <4>3, <1>3, OnePlace, AheadIs
    <3>5. CASE b # c
      <4>1. i \in DOMAIN bins[b] /\ Text(bins[b][i]) = t /\ b > c
        BY <3>3, <3>5, <2>3
      <4>2. QED
        BY <3>1, <3>5, <4>1, <1>3, OnePlace, AheadIs
    <3>6. QED
      BY <3>4, <3>5
  <2>6. ASSUME NEW t \in Ahead, t # Text(e)
        PROVE  t \in Ahead'
    <3>1. PICK b \in DOMAIN bins : \E i \in DOMAIN bins[b] :
            /\ Text(bins[b][i]) = t /\ t \in Texts
            /\ b > c \/ (b = c /\ i > p)
      BY <2>6, <1>5
    <3>2. PICK i \in DOMAIN bins[b] :
            /\ Text(bins[b][i]) = t /\ t \in Texts
            /\ b > c \/ (b = c /\ i > p)
      BY <3>1
    <3>3. CASE b = c
      <4>1. i > p /\ i \in 1..Len(bins[c])
        BY <3>2, <3>3, <1>3
      <4>2. /\ i - 1 \in DOMAIN bins'[c] /\ bins'[c][i - 1] = bins[c][i]
            /\ i - 1 >= p
        BY <4>1, <1>3, <2>4
      <4>3. QED
        BY <3>2, <3>3, <4>2, <1>3, <2>1, <2>3 DEF Ahead
    <3>4. CASE b # c
      BY <3>2, <3>4, <2>1, <2>3 DEF Ahead
    <3>5. QED
      BY <3>3, <3>4
  <2>7. Ahead' = Ahead \ {Text(e)}
    BY <2>5, <2>6
  <2> HIDE DEF e
  <2>8. QED
    BY <1>1, <1>4, <1>7, <2>2, <2>7
<1>8. QED
  BY <1>6, <1>7

LEMMA EndForeachStep ==
  ASSUME StInv, EndForeach
  PROVE  StInv' /\ Entries' = Entries /\ Ahead = {}
<1>1. /\ phase = "foreach" /\ phase' = "idle" /\ ~(cursor.bin < numBins)
      /\ UNCHANGED <<numBins, bins, numEntries>> /\ reply' = reply
  BY DEF EndForeach, Walking
<1>2. /\ numBins \in Nat \ {0} /\ DOMAIN bins = 0..(numBins - 1)
      /\ cursor.bin \in 0..numBins
  BY <1>1 DEF StInv, TypeOK, Tables
<1>3. \A b \in DOMAIN bins : ~(b > cursor.bin) /\ b # cursor.bin
  BY <1>1, <1>2
<1>4. Ahead = {}
  BY <1>3 DEF Ahead
<1>5. StInv' /\ Entries' = Entries
  BY <1>1, OtherStep DEF StInv, TypeOK
<1>6. QED
  BY <1>4, <1>5

-----------------------------------------------------------------------------
(* The table stays sound: in every reachable state each entry is in the    *)
(* bin its hash says and in no other place, and num_entries is their       *)
(* number.                                                                 *)
THEOREM TableSound == Spec => []StInv
<1>1. Init => StInv
  BY InitInv
<1>2. StInv /\ [Next]_vars => StInv'
  <2> SUFFICES ASSUME StInv, [Next]_vars PROVE StInv'
    OBVIOUS
  <2>1. ASSUME NEW k \in Keys, Lookup(k) \/ Delete(k) PROVE StInv'
    BY <2>1, LookupStep, DeleteStep
  <2>2. ASSUME NEW k \in Keys, NEW r \in Records,
               InsertOver(k, r) \/ InsertNew(k, r) \/ InsertCrowded(k, r)
        PROVE  StInv'
    BY <2>2, InsertOverStep, InsertNewStep, InsertCrowdedStep
  <2>3. CASE MoveEntry \/ FinishInsert \/ Free
    BY <2>3, MoveEntryStep, FinishInsertStep, FreeStep
  <2>4. CASE Foreach \/ NextBin \/ EndForeach
    BY <2>4, ForeachStep, NextBinStep, EndForeachStep
  <2>5. ASSUME NEW verdict \in {"continue", "stop", "delete"}, Visit(verdict) PROVE StInv'
    BY <2>5, VisitStep
  <2>6. CASE UNCHANGED vars
    BY <2>6 DEF vars, StInv, TypeOK, BinsSound, CountRight, Entries
  <2>7. QED
    BY <2>1, <2>2, <2>3, <2>4, <2>5, <2>6 DEF Next
<1>3. QED
  BY <1>1, <1>2, PTL DEF Spec

(* Each entry is where FIND_ENTRY looks, in the middle of a rehash too.    *)
THEOREM BinsStaySound == Spec => []BinsSound
BY TableSound, PTL DEF StInv

(* The number handler.c takes for a new key of p->retired is right.        *)
THEOREM CountStaysRight == Spec => []CountRight
BY TableSound, PTL DEF StInv

(* The sizes, numbers and sequences of the table are what they should be.  *)
THEOREM TypesStayRight == Spec => []TypeOK
BY TableSound, PTL DEF StInv

-----------------------------------------------------------------------------
(* The chains stay short.                                                  *)

Last == Primes[Len(Primes)]

(* A rehash is under way to more bins, unless the primes have run out.     *)
Roomy ==
  /\ numEntries <= (Density + 1) * numBins \/ numBins = Last
  /\ numBins <= Last
  /\ phase = "rehash" => /\ moving.size > numBins \/ moving.size = Last
                         /\ moving.size <= Last

LEMMA LastType == Last \in Nat
BY StAssumption DEF Last

LEMMA FreshRoomy == 0 <= (Density + 1) * NewSize(0) /\ NewSize(0) <= Last
<1>1. NewSize(0) \in Nat /\ NewSize(0) <= Last
  BY NewSizeType, NewSizeGrows DEF Last
<1>2. QED
  BY <1>1, StAssumption

LEMMA CrowdedIs ==
  ASSUME StInv
  PROVE  ~Crowded <=> numEntries < (Density + 1) * numBins
<1> DEFINE q == numEntries \div numBins
           r == numEntries % numBins
<1>1. numEntries \in Nat /\ numBins \in Nat \ {0} /\ Density \in Nat
  BY StAssumption DEF StInv, TypeOK
<1>2. q \in Nat /\ r \in 0..(numBins - 1) /\ numEntries = numBins * q + r
  BY <1>1
<1>3. ~Crowded <=> q <= Density
  BY <1>1, <1>2 DEF Crowded
<1> HIDE DEF q, r
<1>4. q <= Density => numEntries < (Density + 1) * numBins
  BY <1>1, <1>2
<1>5. q > Density => ~(numEntries < (Density + 1) * numBins)
  BY <1>1, <1>2
<1>6. QED
  BY <1>1, <1>2, <1>3, <1>4, <1>5

LEMMA StepRoomy ==
  ASSUME StInv, StInv', Roomy, [Next]_vars
  PROVE  Roomy'
<1> DEFINE room(e, n) == e <= (Density + 1) * n
<1>1. /\ numEntries \in Nat /\ numBins \in Nat \ {0} /\ Density \in Nat
      /\ numEntries' \in Nat /\ numBins' \in Nat /\ Last \in Nat /\ Last' = Last
  BY StAssumption, LastType DEF StInv, TypeOK, Last
<1>2. CASE /\ numEntries' <= numEntries /\ UNCHANGED numBins
           /\ phase' # "rehash"
  <2>1. room(numEntries, numBins) => room(numEntries', numBins)
    BY <1>1, <1>2
  <2>2. QED
    BY <1>1, <1>2, <2>1 DEF Roomy
<1>3. ASSUME NEW k \in Keys, NEW r \in Records, InsertNew(k, r)
      PROVE  Roomy'
  <2>1. numEntries' = numEntries + 1 /\ numBins' = numBins /\ phase' = "idle"
    BY <1>3 DEF InsertNew, Idle
  <2>2. numEntries < (Density + 1) * numBins
    BY <1>3, CrowdedIs DEF InsertNew
  <2>3. room(numEntries', numBins)
    BY <1>1, <2>1, <2>2
  <2>4. QED
    BY <1>1, <2>1, <2>3 DEF Roomy
<1>4. ASSUME NEW k \in Keys, NEW r \in Records, InsertCrowded(k, r)
      PROVE  Roomy'
  <2>1. /\ UNCHANGED <<numBins, numEntries>>
        /\ moving'.size = NewSize(numBins + 1)
    BY <1>4 DEF InsertCrowded
  <2>2. /\ NewSize(numBins + 1) > numBins \/ NewSize(numBins + 1) = Last
        /\ NewSize(numBins + 1) <= Last
    BY <1>1, NewSizeGrows DEF Last
  <2>3. QED
    BY <1>1, <2>1, <2>2 DEF Roomy
<1>5. CASE MoveEntry
  <2>1. UNCHANGED <<phase, numBins, numEntries>> /\ phase = "rehash"
    BY <1>5 DEF MoveEntry
  <2>2. moving = [size |-> moving.size, bins |-> moving.bins,
                  key |-> moving.key, record |-> moving.record]
    BY <2>1 DEF StInv, TypeOK
  <2>3. moving'.size = moving.size
    BY <1>5, <2>2 DEF MoveEntry
  <2>4. QED
    BY <1>1, <2>1, <2>3 DEF Roomy
<1>6. CASE FinishInsert
  <2>1. /\ phase = "rehash" /\ phase' = "idle" /\ numEntries' = numEntries + 1
        /\ numBins' = moving.size
    BY <1>6 DEF FinishInsert
  <2>2. CASE moving.size = Last
    BY <1>1, <2>1, <2>2 DEF Roomy
  <2>3. CASE moving.size # Last
    <3>1. /\ moving.size > numBins /\ moving.size <= Last /\ numBins # Last
          /\ room(numEntries, numBins)
      BY <1>1, <2>1, <2>3 DEF Roomy
    <3>2. (Density + 1) * moving.size >= (Density + 1) * numBins + (Density + 1)
      <4>1. moving.size >= numBins + 1 /\ moving.size \in Nat
        BY <1>1, <2>1, <3>1
      <4>2. QED
        BY <4>1, <1>1
    <3>3. room(numEntries', moving.size)
      BY <1>1, <2>1, <3>1, <3>2
    <3>4. QED
      BY <1>1, <2>1, <3>1, <3>3 DEF Roomy
  <2>4. QED
    BY <2>2, <2>3
<1>7. CASE Free
  BY <1>7, FreshRoomy, LastType DEF Free, Idle, Roomy, Last
<1>8. ASSUME NEW k \in Keys, Lookup(k) \/ Delete(k) \/ \E r \in Records : InsertOver(k, r)
      PROVE  /\ numEntries' <= numEntries /\ UNCHANGED numBins
             /\ phase' # "rehash"
  <2>1. CASE Delete(k)
    <3>1. numEntries' \in {numEntries, numEntries - 1}
      BY <2>1 DEF Delete
    <3>2. numEntries' <= numEntries
      BY <3>1, <1>1
    <3>3. QED
      BY <2>1, <3>2 DEF Delete, Idle
  <2>2. CASE Lookup(k)
    BY <2>2, <1>1 DEF Lookup, Idle
  <2>3. ASSUME NEW r \in Records, InsertOver(k, r)
        PROVE  /\ numEntries' <= numEntries /\ UNCHANGED numBins
               /\ phase' # "rehash"
    BY <2>3, <1>1 DEF InsertOver, Idle
  <2>4. QED
    BY <1>8, <2>1, <2>2, <2>3
<1>9. ASSUME NEW verdict \in {"continue", "stop", "delete"}, Visit(verdict)
      PROVE  /\ numEntries' <= numEntries /\ UNCHANGED numBins
             /\ phase' # "rehash"
  BY <1>9, <1>1 DEF Visit, Walking
<1>10. ASSUME Foreach \/ NextBin \/ EndForeach
       PROVE  /\ numEntries' <= numEntries /\ UNCHANGED numBins
              /\ phase' # "rehash"
  BY <1>10, <1>1 DEF Foreach, NextBin, EndForeach, Walking, Idle
<1>11. CASE UNCHANGED vars
  BY <1>1, <1>11 DEF vars, Roomy
<1>12. QED
  BY <1>2, <1>3, <1>4, <1>5, <1>6, <1>7, <1>8, <1>9, <1>10, <1>11 DEF Next

(* ADD_DIRECT keeps the chains short for every load: there are more than   *)
(* Density + 1 entries to a bin only once the primes have run out.         *)
THEOREM ChainsStayShort == Spec => []DensityKept
<1>1. Init => Roomy
  BY FreshRoomy, LastType DEF Init, Roomy
<1>2. StInv /\ StInv' /\ Roomy /\ [Next]_vars => Roomy'
  BY StepRoomy
<1>3. Roomy => DensityKept
  BY DEF Roomy, DensityKept, Last
<1>4. QED
  BY <1>1, <1>2, <1>3, TableSound, PTL DEF Spec

-----------------------------------------------------------------------------
(* The table implements the map.                                           *)

LEMMA HasIs ==
  ASSUME StInv, NEW k \in Keys
  PROVE  /\ Spell[k] \in Texts /\ ItemsOf(Entries) \in [Texts -> {ItemsOf(Entries)[t] : t \in Texts}]
         /\ (\A e \in Entries : Text(e) # Spell[k]) => ItemsOf(Entries)[Spell[k]] = NONE
         /\ \A e \in Entries : Text(e) = Spell[k] =>
              /\ ItemsOf(Entries)[Spell[k]] = ItemOf(e) /\ ItemOf(e) # NONE
              /\ ItemOf(e).key = e.key /\ ItemOf(e).record = e.record
<1>1. Entries \in SUBSET Entry /\ Keyed(Entries) /\ Spell[k] \in Texts
  BY StKeyed, HashType
<1>2. DOMAIN ItemsOf(Entries) = Texts /\ ItemsOf(Entries) \in [Texts -> {ItemsOf(Entries)[t] : t \in Texts}]
  BY DEF ItemsOf
<1>3. (\A e \in Entries : Text(e) # Spell[k]) => ItemsOf(Entries)[Spell[k]] = NONE
  BY <1>1, ItemsAt
<1>4. \A e \in Entries : ItemsOf(Entries)[Text(e)] = ItemOf(e) /\ ItemOf(e) # NONE
  BY <1>1, ItemsAt, ItemsType
<1>5. \A e \in Entries : ItemOf(e).key = e.key /\ ItemOf(e).record = e.record
  BY DEF ItemOf
<1>6. QED
  BY <1>1, <1>2, <1>3, <1>4, <1>5

LEMMA InsertedIs ==
  ASSUME StInv, NEW k \in Keys, NEW r \in Records, NEW e \in Entry,
         Entries' = Entries \cup {e}, Text(e) = Spell[k],
         ItemOf(e) = [key |-> k, record |-> r],
         \A f \in Entries : Text(f) # Text(e),
         phase # "foreach", phase' # "foreach", reply' = Nothing
  PROVE  Map!MapInsert(k, r)
<1>1. ItemsOf(Entries)[Spell[k]] = NONE
  BY HasIs
<1>2. ItemsOf(Entries') = [ItemsOf(Entries) EXCEPT ![Spell[k]] = [key |-> k, record |-> r]]
  BY StKeyed, ItemsAdd
<1>3. Unvisited = NONE /\ Unvisited' = NONE
  BY DEF Unvisited
<1>4. QED
  BY <1>1, <1>2, <1>3 DEF Map!MapInsert, Map!Has, Map!Answer, Nothing

LEMMA StepImplements ==
  ASSUME StInv, [Next]_vars
  PROVE  [Map!MapNext]_<<ItemsOf(Entries), reply, Unvisited>>
<1> USE DEF Map!MapNext
<1>1. ASSUME NEW k \in Keys, Lookup(k) PROVE Map!MapLookup(k)
  <2>1. Unvisited = NONE /\ Unvisited' = NONE
    BY <1>1 DEF Lookup, Idle, Unvisited
  <2>2. Entries' = Entries
    BY <1>1, LookupStep
  <2>3. CASE reply' = Nothing /\ \A e \in Entries : Text(e) # Spell[k]
    BY <2>1, <2>2, <2>3, HasIs DEF Map!MapLookup, Map!Has, Map!Nothing, Nothing
  <2>4. ASSUME NEW e \in Entries, Text(e) = Spell[k],
               reply' = [found |-> TRUE, key |-> NONE, record |-> e.record]
        PROVE  Map!MapLookup(k)
    BY <2>1, <2>2, <2>4, HasIs DEF Map!MapLookup, Map!Has, Map!Answer
  <2>5. QED
    BY <1>1, <2>3, <2>4, LookupStep
<1>2. ASSUME NEW k \in Keys, Delete(k) PROVE Map!MapDelete(k)
  <2>1. Unvisited = NONE /\ Unvisited' = NONE
    BY <1>2 DEF Delete, Idle, Unvisited
  <2>2. CASE Entries' = Entries /\ reply' = Nothing /\ \A e \in Entries : Text(e) # Spell[k]
    BY <2>1, <2>2, HasIs DEF Map!MapDelete, Map!Has, Map!Nothing, Nothing
  <2>3. ASSUME NEW e \in Entries, Entries' = Entries \ {e}, Text(e) = Spell[k],
               reply' = [found |-> TRUE, key |-> e.key, record |-> e.record]
        PROVE  Map!MapDelete(k)
    <3>1. ItemsOf(Entries') = [ItemsOf(Entries) EXCEPT ![Spell[k]] = NONE]
      BY <2>3, StKeyed, ItemsDrop
    <3>2. /\ ItemsOf(Entries)[Spell[k]] # NONE
          /\ ItemsOf(Entries)[Spell[k]].key = e.key
          /\ ItemsOf(Entries)[Spell[k]].record = e.record
      BY <2>3, HasIs
    <3>3. QED
      BY <2>1, <2>3, <3>1, <3>2 DEF Map!MapDelete, Map!Has, Map!Answer
  <2>4. QED
    BY <1>2, <2>2, <2>3, DeleteStep
<1>3. ASSUME NEW k \in Keys, NEW r \in Records, InsertOver(k, r) PROVE Map!MapInsert(k, r)
  <2>1. Unvisited = NONE /\ Unvisited' = NONE /\ reply' = [found |-> TRUE, key |-> NONE, record |-> NONE]
    BY <1>3 DEF InsertOver, Idle, Unvisited, Answer
  <2>2. PICK e \in Entries, f \in Entry :
          /\ Entries' = (Entries \ {e}) \cup {f}
          /\ Text(e) = Spell[k] /\ Text(f) = Spell[k]
          /\ ItemOf(f) = [key |-> e.key, record |-> r]
    BY <1>3, InsertOverStep
  <2>3. /\ Entries \in SUBSET Entry /\ Keyed(Entries)
        /\ Keyed(Entries \ {e}) /\ Entries \ {e} \in SUBSET Entry
        /\ ItemsOf(Entries \ {e}) = [ItemsOf(Entries) EXCEPT ![Spell[k]] = NONE]
    BY <2>2, StKeyed, ItemsDrop
  <2>4. \A g \in Entries \ {e} : Text(g) # Text(f)
    BY <2>2, <2>3 DEF Keyed
  <2>5. ItemsOf(Entries') = [ItemsOf(Entries \ {e}) EXCEPT ![Spell[k]] = ItemOf(f)]
    BY <2>2, <2>3, <2>4, ItemsAdd
  <2>6. ItemsOf(Entries') = [ItemsOf(Entries) EXCEPT ![Spell[k]] = ItemOf(f)]
    BY <2>3, <2>5
  <2>7. ItemsOf(Entries)[Spell[k]] = ItemOf(e) /\ ItemOf(e) # NONE /\ ItemOf(e).key = e.key
    BY <2>2, HasIs DEF ItemOf
  <2>8. QED
    BY <2>1, <2>2, <2>6, <2>7 DEF Map!MapInsert, Map!Has, Map!Answer
<1>4. ASSUME NEW k \in Keys, NEW r \in Records, InsertNew(k, r) PROVE Map!MapInsert(k, r)
  BY <1>4, InsertNewStep, InsertedIs DEF InsertNew, Idle
<1>5. CASE FinishInsert
  <2>1. moving.key \in Keys /\ moving.record \in Records
    BY <1>5, FinishInsertStep
  <2>2. Map!MapInsert(moving.key, moving.record)
    BY <1>5, <2>1, FinishInsertStep, InsertedIs DEF FinishInsert
  <2>3. QED
    BY <2>1, <2>2
<1>6. ASSUME MoveEntry \/ \E k \in Keys, r \in Records : InsertCrowded(k, r)
      PROVE  UNCHANGED <<ItemsOf(Entries), reply, Unvisited>>
  <2>1. Entries' = Entries
    BY <1>6, MoveEntryStep, InsertCrowdedStep
  <2>2. QED
    BY <1>6, <2>1 DEF MoveEntry, InsertCrowded, Idle, Unvisited
<1>7. CASE Free
  <2>1. Entries' = {} /\ Unvisited = NONE /\ Unvisited' = NONE /\ reply' = reply
    BY <1>7, FreeStep DEF Free, Idle, Unvisited
  <2>2. ItemsOf({}) = [t \in Texts |-> NONE]
    BY DEF ItemsOf
  <2>3. Map!MapFree
    BY <2>1, <2>2 DEF Map!MapFree
  <2>4. QED
    BY <2>3
<1>8. CASE Foreach
  <2>1. /\ Entries' = Entries /\ Unvisited = NONE /\ Unvisited' = TextsOf(Entries)
        /\ reply' = reply
    BY <1>8, ForeachStep DEF Foreach, Idle, Unvisited
  <2>2. TextsOf(Entries) = {t \in Texts : ItemsOf(Entries)[t] # NONE}
    <3>1. Entries \in SUBSET Entry /\ Keyed(Entries)
      BY StKeyed
    <3>2. \A e \in Entries : Text(e) \in Texts /\ ItemsOf(Entries)[Text(e)] # NONE
      BY <3>1, TextType, ItemsType
    <3>3. \A t \in Texts : ItemsOf(Entries)[t] # NONE => \E e \in Entries : Text(e) = t
      BY <3>1, ItemsAt
    <3>4. QED
      BY <3>2, <3>3 DEF TextsOf
  <2>3. Map!MapForeach
    BY <2>1, <2>2 DEF Map!MapForeach, Map!Stored
  <2>4. QED
    BY <2>3
<1>9. ASSUME NEW verdict \in {"continue", "stop", "delete"}, Visit(verdict)
      PROVE  \E t \in Texts : Map!MapVisit(t, verdict)
  <2>1. PICK e \in Entries :
          /\ Text(e) \in Ahead
          /\ reply' = [found |-> TRUE, key |-> e.key, record |-> e.record]
          /\ Entries' = IF verdict = "delete" THEN Entries \ {e} ELSE Entries
          /\ verdict # "stop" => phase' = "foreach" /\ Ahead' = Ahead \ {Text(e)}
          /\ verdict = "stop" => phase' = "idle"
    BY <1>9, VisitStep
  <2>2. /\ Unvisited = Ahead /\ Ahead \in SUBSET Texts /\ Unvisited # NONE
        /\ Unvisited' = IF verdict = "stop" THEN NONE ELSE Ahead \ {Text(e)}
    BY <1>9, <2>1, StAssumption DEF Visit, Walking, Unvisited, Ahead
  <2>3. Entries \in SUBSET Entry /\ Keyed(Entries) /\ Text(e) \in Texts
    BY <2>1, <2>2, StKeyed
  <2>4. ItemsOf(Entries)[Text(e)] = ItemOf(e)
    BY <2>1, <2>3, ItemsAt
  <2>5. /\ ItemsOf(Entries)[Text(e)].key = e.key
        /\ ItemsOf(Entries)[Text(e)].record = e.record
    BY <2>4 DEF ItemOf
  <2>6. ItemsOf(Entries') = IF verdict = "delete"
          THEN [ItemsOf(Entries) EXCEPT ![Text(e)] = NONE] ELSE ItemsOf(Entries)
    BY <2>1, <2>3, ItemsDrop
  <2>7. Map!MapVisit(Text(e), verdict)
    BY <2>1, <2>2, <2>5, <2>6 DEF Map!MapVisit, Map!Answer
  <2>8. QED
    BY <2>3, <2>7
<1>10. ASSUME NextBin PROVE UNCHANGED <<ItemsOf(Entries), reply, Unvisited>>
  BY <1>10, NextBinStep DEF NextBin, Walking, Unvisited
<1>11. CASE EndForeach
  <2>1. /\ Entries' = Entries /\ Unvisited = {} /\ Unvisited' = NONE /\ reply' = reply
    BY <1>11, EndForeachStep DEF EndForeach, Unvisited
  <2>2. Map!MapEnd
    BY <2>1 DEF Map!MapEnd
  <2>3. QED
    BY <2>2
<1>12. ASSUME UNCHANGED vars PROVE UNCHANGED <<ItemsOf(Entries), reply, Unvisited>>
  BY <1>12 DEF vars, Entries, Unvisited, Ahead
<1>13. QED
  BY <1>1, <1>2, <1>3, <1>4, <1>5, <1>6, <1>7, <1>8, <1>9, <1>10, <1>11, <1>12 DEF Next

(* The hash table implements the map: through collisions, growth and       *)
(* deletions every call answers as StMap says, and a traversal visits      *)
(* every entry once.                                                       *)
THEOREM TableImplements == Spec => ImplementsMap
<1>1. Init => Map!MapInit
  <2> SUFFICES ASSUME Init PROVE Map!MapInit
    OBVIOUS
  <2>1. Entries = {} /\ Unvisited = NONE /\ reply = Nothing
    BY InitInv DEF Init, Unvisited
  <2>2. ItemsOf({}) = [t \in Texts |-> NONE]
    BY DEF ItemsOf
  <2>3. QED
    BY <2>1, <2>2 DEF Map!MapInit, Map!Nothing, Nothing
<1>2. StInv /\ [Next]_vars => [Map!MapNext]_<<ItemsOf(Entries), reply, Unvisited>>
  BY StepImplements
<1>3. QED
  BY <1>1, <1>2, TableSound, PTL DEF Spec, ImplementsMap, Map!MapSpec
=============================================================================
