-------------------------- MODULE MC_SnatRelations --------------------------
(* Small instances of SnatRelations for TLC.                               *)
EXTENDS SnatRelations, TLC

CONSTANTS f1, f2, r1, r2, m1, m2, m3

(* Two flows of the first user; the second user's ports come next.         *)
TwoFlows == (f1 :> 0) @@ (f2 :> 0)

Same == Permutations({f1, f2}) \cup Permutations({r1, r2}) \cup Permutations({m1, m2, m3})

(* What a thread between jobs remembers is written before it is read.      *)
LiveJob(t) ==
  CASE pc[t] = "idle" -> <<>>
    [] pc[t] = "assign" -> <<job[t].flow, job[t].tries>>
    [] pc[t] = "claim" -> <<job[t].flow, job[t].tries, job[t].pub>>
    [] OTHER -> <<job[t].flow, job[t].pub, job[t].rel>>

(* The age of a relation is only read through the public hash, and nothing *)
(* of one that hangs in neither hash is.                                   *)
LiveRel(r) ==
  CASE rel[r] \in {Freed, Blank} -> <<rel[r]>>
    [] rel[r] \notin {Freed, Blank} /\ pubHash[rel[r].pub] = r -> <<rel[r].prv, rel[r].pub, rel[r].age>>
    [] rel[r] \notin {Freed, Blank} /\ pubHash[rel[r].pub] # r /\ prvHash[rel[r].prv] = r ->
         <<rel[r].prv, rel[r].pub>>
    [] OTHER -> <<>>

LiveSnat ==
  <<endpoint, prvHash, pubHash, pc, raced, [r \in Rel |-> LiveRel(r)],
    [t \in Thread |-> LiveJob(t)]>>
=============================================================================
