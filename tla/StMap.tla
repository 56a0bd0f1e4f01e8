------------------------------- MODULE StMap --------------------------------
(***************************************************************************)
(* What syck_st.h promises of a table: a map from the text of a key to the *)
(* pointer stored for it and its record, and a traversal that hands every  *)
(* item to a callback once.  SyckSt implements it with chained buckets.    *)
(***************************************************************************)
EXTENDS Naturals

CONSTANTS Keys,     \* addresses of key strings
          Texts,    \* what key strings spell
          Spell,    \* the text at each address
          Records,  \* what is stored
          NONE      \* the NULL pointer

VARIABLES map,        \* text to the item stored for it, or NONE
          reply,      \* what the last call, or callback, was given
          unvisited   \* what a traversal under way has still to visit, or NONE

Answer(found, key, record) ==
  reply' = [found |-> found, key |-> key, record |-> record]
Nothing == [found |-> FALSE, key |-> NONE, record |-> NONE]
Has(k) == map[Spell[k]] # NONE
Stored == {t \in Texts : map[t] # NONE}

MapInit ==
  /\ map = [t \in Texts |-> NONE]
  /\ reply = Nothing
  /\ unvisited = NONE

MapLookup(k) ==
  /\ unvisited = NONE
  /\ IF Has(k) THEN Answer(TRUE, NONE, map[Spell[k]].record)
                            ELSE reply' = Nothing
  /\ UNCHANGED <<map, unvisited>>

(* The pointer stored first stays: a second insert only replaces the record. *)
MapInsert(k, r) ==
  /\ unvisited = NONE
  /\ Answer(Has(k), NONE, NONE)
  /\ map' = [map EXCEPT ![Spell[k]] =
               [key |-> IF @ = NONE THEN k ELSE @.key, record |-> r]]
  /\ UNCHANGED unvisited

(* The caller gets the stored pointer back, which it may free.             *)
MapDelete(k) ==
  /\ unvisited = NONE
  /\ IF Has(k)
       THEN /\ Answer(TRUE, map[Spell[k]].key, map[Spell[k]].record)
            /\ map' = [map EXCEPT ![Spell[k]] = NONE]
       ELSE reply' = Nothing /\ UNCHANGED map
  /\ UNCHANGED unvisited

MapFree ==
  /\ unvisited = NONE
  /\ UNCHANGED <<reply, unvisited>>
  /\ map' = [t \in Texts |-> NONE]

MapForeach ==
  /\ unvisited = NONE
  /\ unvisited' = Stored
  /\ UNCHANGED <<map, reply>>

MapVisit(t, verdict) ==
  /\ unvisited # NONE /\ t \in unvisited
  /\ Answer(TRUE, map[t].key, map[t].record)
  /\ map' = IF verdict = "delete" THEN [map EXCEPT ![t] = NONE] ELSE map
  /\ unvisited' = IF verdict = "stop" THEN NONE ELSE unvisited \ {t}

MapEnd ==
  /\ unvisited = {}
  /\ unvisited' = NONE
  /\ UNCHANGED <<map, reply>>

MapNext ==
  \/ \E k \in Keys : MapLookup(k) \/ MapDelete(k)
  \/ \E k \in Keys, r \in Records : MapInsert(k, r)
  \/ \E t \in Texts, verdict \in {"continue", "stop", "delete"} : MapVisit(t, verdict)
  \/ MapForeach \/ MapEnd \/ MapFree

MapSpec == MapInit /\ [][MapNext]_<<map, reply, unvisited>>
=============================================================================
