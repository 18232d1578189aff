------------------------------- MODULE Table -------------------------------
(***************************************************************************)
(* What lhash.h promises its callers: a table with one item per key, whose *)
(* calls happen at once and answer for that moment.                        *)
(***************************************************************************)
CONSTANTS Key, Item, Caller, None

VARIABLES
  map,     \* the item of each key, or None
  answer   \* what a call has returned, as long as the caller may use it

tableVars == <<map, answer>>

Answer(t, x) == answer' = [answer EXCEPT ![t] = x]

(* lh_retrieve: the item, or NULL.                                         *)
Look(t, k) == Answer(t, map[k]) /\ UNCHANGED map

(* lh_insert: the new item, or the one it has replaced.                    *)
Put(t, k, x) ==
  /\ map' = [map EXCEPT ![k] = x]
  /\ Answer(t, IF map[k] = None THEN x ELSE map[k])

(* lh_insert without memory: NULL, and a new key is not there.             *)
PutFails(t, k) == map[k] = None /\ Answer(t, None) /\ UNCHANGED map

(* lh_delete: the item, which is the caller's now, or NULL.                *)
Take(t, k) == map' = [map EXCEPT ![k] = None] /\ Answer(t, map[k])

(* The caller is through with the item.                                    *)
Leave(t) == Answer(t, None) /\ UNCHANGED map

TableInit == map = [k \in Key |-> None] /\ answer = [t \in Caller |-> None]

TableNext ==
  \E t \in Caller, k \in Key :
    \/ Leave(t) \/ Look(t, k) \/ PutFails(t, k) \/ Take(t, k)
    \/ \E x \in Item : Put(t, k, x)

TableSpec == TableInit /\ [][TableNext]_tableVars
=============================================================================
