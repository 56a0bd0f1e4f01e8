------------------------------- MODULE SyckSt -------------------------------
(***************************************************************************)
(* syck_st.c, the hash table under every table of the parser and of the    *)
(* emitter: an array of chains, grown by a rehash when the chains get      *)
(* long.  A chain is the sequence of its entries, from the head; an entry  *)
(* keeps the pointer of its key, which belongs to the caller.              *)
(*                                                                         *)
(* A rehash moves one entry per step, a traversal makes one callback per   *)
(* step.  No callback of the program calls the table it walks.             *)
(***************************************************************************)
EXTENDS Naturals, Sequences, FiniteSets

CONSTANTS Keys,     \* addresses of key strings
          Texts,    \* what key strings spell (for numbers: the number itself)
          Spell,    \* the text at each address
          Hash,     \* hash value of each text
          Records,  \* what is stored
          Primes,   \* the sizes an array of bins may have
          MinSize,  \* MINSIZE, what the first of them is for
          Density,  \* ST_DEFAULT_MAX_DENSITY
          NONE      \* the NULL pointer

ASSUME StAssumption ==
  /\ IsFiniteSet(Texts)
  /\ Spell \in [Keys -> Texts]
  /\ Hash \in [Texts -> Nat]
  /\ Primes \in Seq(Nat \ {0}) /\ Primes # <<>>
  /\ MinSize \in Nat
  /\ Density \in Nat
  /\ \A item \in [key : Keys, record : Records] : item # NONE
  /\ \A S \in SUBSET Texts : S # NONE

(* The list: a prime is about as large as the power of two it is for, and  *)
(* none is larger than the last.                                           *)
ASSUME PrimesAssumption ==
  \A i \in DOMAIN Primes : /\ MinSize * 2^(i - 1) <= Primes[i] + 1
                           /\ Primes[i] <= Primes[Len(Primes)]

VARIABLES phase,      \* "idle", or the loop that runs: "rehash" or "foreach"
          numBins,    \* table->num_bins
          bins,       \* table->bins; in a rehash, what is not yet moved
          numEntries, \* table->num_entries
          moving,     \* rehash's new_bins and new_num_bins, and the insert it is for
          cursor,     \* st_foreach's i, and the place of ptr in its chain
          reply       \* what the last call returned, or gave its callback

vars == <<phase, numBins, bins, numEntries, moving, cursor, reply>>

-----------------------------------------------------------------------------
HashOf(k) == Hash[Spell[k]]
Entry == [hash : Nat, key : Keys, record : Records]
Empty(n) == [b \in 0..(n - 1) |-> <<>>]
Idle == phase = "idle"

First(S) == CHOOSE i \in S : \A j \in S : i <= j

(* new_size: the first prime whose power of two exceeds size.  When the    *)
(* polynomials run out it is the last one.                                 *)
NewSize(size) ==
  LET fits == {i \in DOMAIN Primes : MinSize * 2^(i - 1) > size}
  IN  IF fits = {} THEN Primes[Len(Primes)] ELSE Primes[First(fits)]

(* FIND_ENTRY: the place in its chain of the entry for k, or 0.            *)
Find(k) ==
  LET chain == bins[HashOf(k) % numBins]
      hits == {i \in DOMAIN chain : /\ chain[i].hash = HashOf(k)
                                    /\ Spell[chain[i].key] = Spell[k]}
  IN  IF hits = {} THEN 0 ELSE First(hits)

Unlink(chain, i) ==
  [j \in 1..(Len(chain) - 1) |-> chain[IF j < i THEN j ELSE j + 1]]
Push(B, e, n) == [B EXCEPT ![e.hash % n] = <<e>> \o @]

(* Mutant of Crowded: the average is allowed to exceed the limit by one.   *)
Crowded_Late == numEntries \div numBins > Density + 1
Crowded == numEntries \div numBins > Density

Answer(found, key, record) ==
  reply' = [found |-> found, key |-> key, record |-> record]
Nothing == [found |-> FALSE, key |-> NONE, record |-> NONE]

-----------------------------------------------------------------------------
Init ==
  /\ phase = "idle"
  /\ numBins = NewSize(0)
  /\ bins = Empty(numBins)
  /\ numEntries = 0
  /\ moving = NONE
  /\ cursor = NONE
  /\ reply = Nothing

Lookup(k) ==
  /\ Idle
  /\ IF Find(k) = 0 THEN reply' = Nothing
       ELSE Answer(TRUE, NONE, bins[HashOf(k) % numBins][Find(k)].record)
  /\ UNCHANGED <<phase, numBins, bins, numEntries, moving, cursor>>

InsertOver(k, r) ==
  /\ Idle
  /\ Find(k) # 0
  /\ bins' = [bins EXCEPT ![HashOf(k) % numBins][Find(k)].record = r]
  /\ Answer(TRUE, NONE, NONE)
  /\ UNCHANGED <<phase, numBins, numEntries, moving, cursor>>

InsertNew(k, r) ==
  /\ Idle
  /\ Find(k) = 0
  /\ ~Crowded
  /\ bins' = Push(bins, [hash |-> HashOf(k), key |-> k, record |-> r], numBins)
  /\ numEntries' = numEntries + 1
  /\ reply' = Nothing
  /\ UNCHANGED <<phase, numBins, moving, cursor>>

(* The chains are long: rehash before the entry is added.                  *)
InsertCrowded(k, r) ==
  /\ Idle
  /\ Find(k) = 0
  /\ Crowded
  /\ phase' = "rehash"
  /\ moving' = [size |-> NewSize(numBins + 1), bins |-> Empty(NewSize(numBins + 1)),
                key |-> k, record |-> r]
  /\ UNCHANGED <<numBins, bins, numEntries, cursor, reply>>

(* One turn of rehash's inner loop: the head of the first chain left.      *)
MoveEntry ==
  /\ phase = "rehash"
  /\ \E b \in DOMAIN bins :
       /\ bins[b] # <<>> /\ \A c \in DOMAIN bins : c < b => bins[c] = <<>>
       /\ bins' = [bins EXCEPT ![b] = Tail(@)]
       /\ moving' = [moving EXCEPT !.bins = Push(@, Head(bins[b]), moving.size)]
  /\ UNCHANGED <<phase, numBins, numEntries, cursor, reply>>

(* Mutant of FinishInsert: the bin is the one found before the rehash.     *)
FinishInsert_StaleBin ==
  /\ phase = "rehash"
  /\ \A b \in DOMAIN bins : bins[b] = <<>>
  /\ numBins' = moving.size
  /\ bins' = [moving.bins EXCEPT ![HashOf(moving.key) % numBins] =
                <<[hash |-> HashOf(moving.key), key |-> moving.key,
                   record |-> moving.record]>> \o @]
  /\ numEntries' = numEntries + 1
  /\ phase' = "idle" /\ moving' = NONE
  /\ reply' = Nothing
  /\ UNCHANGED cursor

(* The end of rehash, and of the insert that asked for it.                 *)
FinishInsert ==
  /\ phase = "rehash"
  /\ \A b \in DOMAIN bins : bins[b] = <<>>
  /\ numBins' = moving.size
  /\ bins' = Push(moving.bins, [hash |-> HashOf(moving.key), key |-> moving.key,
                                record |-> moving.record], moving.size)
  /\ numEntries' = numEntries + 1
  /\ phase' = "idle" /\ moving' = NONE
  /\ reply' = Nothing
  /\ UNCHANGED cursor

(* Mutant of Delete: the count is lowered before the search.               *)
Delete_CountsAbsent(k) ==
  LET b == HashOf(k) % numBins
      hits == {i \in DOMAIN bins[b] : Spell[bins[b][i].key] = Spell[k]}
      i == First(hits)
  IN  /\ Idle
      /\ numEntries' = numEntries - 1
      /\ IF hits = {}
           THEN reply' = Nothing /\ UNCHANGED bins
           ELSE /\ Answer(TRUE, bins[b][i].key, bins[b][i].record)
                /\ bins' = [bins EXCEPT ![b] = Unlink(@, i)]
      /\ UNCHANGED <<phase, numBins, moving, cursor>>

(* st_delete compares the texts of the keys of the bin, not their hashes.  *)
Delete(k) ==
  LET b == HashOf(k) % numBins
      hits == {i \in DOMAIN bins[b] : Spell[bins[b][i].key] = Spell[k]}
      i == First(hits)
  IN  /\ Idle
      /\ IF hits = {}
           THEN reply' = Nothing /\ UNCHANGED <<bins, numEntries>>
           ELSE /\ Answer(TRUE, bins[b][i].key, bins[b][i].record)
                /\ bins' = [bins EXCEPT ![b] = Unlink(@, i)]
                /\ numEntries' = numEntries - 1
      /\ UNCHANGED <<phase, numBins, moving, cursor>>

(* st_free_table, and the st_init_table that makes the table anew.         *)
Free ==
  /\ Idle
  /\ numBins' = NewSize(0)
  /\ bins' = Empty(NewSize(0))
  /\ numEntries' = 0
  /\ UNCHANGED <<phase, moving, cursor, reply>>

-----------------------------------------------------------------------------
(* st_foreach.                                                             *)

Foreach ==
  /\ Idle
  /\ phase' = "foreach"
  /\ cursor' = [bin |-> 0, pos |-> 1]
  /\ UNCHANGED <<numBins, bins, numEntries, moving, reply>>

Walking == phase = "foreach" /\ cursor.bin < numBins
Chain == bins[cursor.bin]

(* Mutants of Visit: the count is left alone by a deletion; the entry after *)
(* a deleted one is passed over.                                            *)
Visit_KeepsCount(verdict) ==
  /\ Walking /\ cursor.pos <= Len(Chain)
  /\ Answer(TRUE, Chain[cursor.pos].key, Chain[cursor.pos].record)
  /\ bins' = IF verdict = "delete"
               THEN [bins EXCEPT ![cursor.bin] = Unlink(@, cursor.pos)] ELSE bins
  /\ UNCHANGED numEntries
  /\ cursor' = CASE verdict = "continue" -> [cursor EXCEPT !.pos = @ + 1]
                 [] verdict = "stop"     -> NONE
                 [] verdict = "delete"   -> cursor
  /\ phase' = IF verdict = "stop" THEN "idle" ELSE phase
  /\ UNCHANGED <<numBins, moving>>
Visit_SkipsNext(verdict) ==
  /\ Walking /\ cursor.pos <= Len(Chain)
  /\ Answer(TRUE, Chain[cursor.pos].key, Chain[cursor.pos].record)
  /\ bins' = IF verdict = "delete"
               THEN [bins EXCEPT ![cursor.bin] = Unlink(@, cursor.pos)] ELSE bins
  /\ numEntries' = IF verdict = "delete" THEN numEntries - 1 ELSE numEntries
  /\ cursor' = IF verdict = "stop" THEN NONE ELSE [cursor EXCEPT !.pos = @ + 1]
  /\ phase' = IF verdict = "stop" THEN "idle" ELSE phase
  /\ UNCHANGED <<numBins, moving>>

(* The callback is given the entry at the cursor and says what comes next. *)
Visit(verdict) ==
  /\ Walking /\ cursor.pos <= Len(Chain)
  /\ Answer(TRUE, Chain[cursor.pos].key, Chain[cursor.pos].record)
  /\ bins' = IF verdict = "delete"
               THEN [bins EXCEPT ![cursor.bin] = Unlink(@, cursor.pos)] ELSE bins
  /\ numEntries' = IF verdict = "delete" THEN numEntries - 1 ELSE numEntries
  /\ cursor' = CASE verdict = "continue" -> [cursor EXCEPT !.pos = @ + 1]
                 [] verdict = "stop"     -> NONE
                 [] verdict = "delete"   -> cursor
  /\ phase' = IF verdict = "stop" THEN "idle" ELSE phase
  /\ UNCHANGED <<numBins, moving>>

NextBin ==
  /\ Walking /\ cursor.pos > Len(Chain)
  /\ cursor' = [bin |-> cursor.bin + 1, pos |-> 1]
  /\ UNCHANGED <<phase, numBins, bins, numEntries, moving, reply>>

EndForeach ==
  /\ phase = "foreach" /\ ~Walking
  /\ phase' = "idle" /\ cursor' = NONE
  /\ UNCHANGED <<numBins, bins, numEntries, moving, reply>>

Next ==
  \/ \E k \in Keys : Lookup(k) \/ Delete(k)
  \/ \E k \in Keys, r \in Records :
       InsertOver(k, r) \/ InsertNew(k, r) \/ InsertCrowded(k, r)
  \/ MoveEntry \/ FinishInsert \/ Free
  \/ Foreach \/ (\E verdict \in {"continue", "stop", "delete"} : Visit(verdict))
  \/ NextBin \/ EndForeach

Spec == Init /\ [][Next]_vars

-----------------------------------------------------------------------------
(* Properties.                                                             *)

Tables(n) == [0..(n - 1) -> Seq(Entry)]
TypeOK ==
  /\ phase \in {"idle", "rehash", "foreach"}
  /\ numBins \in Nat \ {0}
  /\ bins \in Tables(numBins)
  /\ numEntries \in Nat
  /\ phase = "rehash" =>
       /\ moving.size \in Nat \ {0}
       /\ moving.bins \in Tables(moving.size)
       /\ moving.key \in Keys /\ moving.record \in Records
       /\ moving = [size |-> moving.size, bins |-> moving.bins,
                    key |-> moving.key, record |-> moving.record]
  /\ phase = "foreach" => cursor \in [bin : 0..numBins, pos : Nat \ {0}]
  /\ reply \in [found : BOOLEAN, key : Keys \cup {NONE}, record : Records \cup {NONE}]

(* The entries of bins B, and of the table: in a rehash some are moved.    *)
EntriesOf(B) == UNION {{B[b][i] : i \in DOMAIN B[b]} : b \in DOMAIN B}
Entries == EntriesOf(bins) \cup (IF phase = "rehash" THEN EntriesOf(moving.bins) ELSE {})
Text(e) == Spell[e.key]
TextsOf(E) == {Text(e) : e \in E}

(* Every entry is where its key's hash says, and no text is there twice.   *)
Sound(B, n) ==
  /\ \A b \in DOMAIN B : \A i \in DOMAIN B[b] :
       B[b][i].hash = HashOf(B[b][i].key) /\ b = B[b][i].hash % n
  /\ \A b \in DOMAIN B : \A i, j \in DOMAIN B[b] :
       Text(B[b][i]) = Text(B[b][j]) => i = j

(* Whatever inserts, deletes and rehashes came before, an entry is in the  *)
(* bin where a lookup of its text goes, once, and the entries a rehash has *)
(* moved and those it has not are different ones (FIND_ENTRY, ADD_DIRECT,  *)
(* rehash).                                                                *)
BinsSound ==
  /\ Sound(bins, numBins)
  /\ phase = "rehash" =>
       /\ Sound(moving.bins, moving.size)
       /\ \A e \in EntriesOf(bins), f \in EntriesOf(moving.bins) : Text(e) # Text(f)
       /\ \A e \in Entries : Text(e) # Spell[moving.key]

(* num_entries counts the entries.  The parser takes it plus one for a key *)
(* that is not in p->retired yet (handler.c), the rehash for the density.  *)
CountRight == numEntries = Cardinality(TextsOf(Entries))

(* A chain has at most one entry more than Density on average, as long as  *)
(* there is a bigger prime to grow to.                                     *)
DensityKept ==
  phase # "rehash" => \/ numEntries <= (Density + 1) * numBins
                      \/ numBins = Primes[Len(Primes)]

StInv == TypeOK /\ BinsSound /\ CountRight

-----------------------------------------------------------------------------
(* The table implements the map.                                           *)

ItemOf(e) == [key |-> e.key, record |-> e.record]
ItemsOf(E) ==
  LET At(t) == {e \in E : Text(e) = t}
  IN  [t \in Texts |-> IF At(t) = {} THEN NONE ELSE ItemOf(CHOOSE e \in At(t) : TRUE)]

(* The texts at or after the cursor.                                       *)
Ahead ==
  {t \in Texts : \E b \in DOMAIN bins : \E i \in DOMAIN bins[b] :
     /\ Text(bins[b][i]) = t
     /\ b > cursor.bin \/ (b = cursor.bin /\ i >= cursor.pos)}

Unvisited == IF phase = "foreach" THEN Ahead ELSE NONE

Map == INSTANCE StMap WITH map <- ItemsOf(Entries), unvisited <- Unvisited

(* Every call answers as a map from texts would, through collisions and    *)
(* rehashes; a traversal gives its callback every entry once, also when    *)
(* the callback has it delete the one it is at.                            *)
ImplementsMap == Map!MapSpec
=============================================================================
