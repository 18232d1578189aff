-------------------------- MODULE MC_DnatRelations --------------------------
(* A small instance of DnatRelations for TLC.                              *)
EXTENDS DnatRelations

CONSTANTS u, d1, d2, n

(* Two destinations of a user redirected to one target: two flows that     *)
(* share the key of the way back.                                          *)
Redirected == {[src |-> u, dst |-> d1, nat |-> n], [src |-> u, dst |-> d2, nat |-> n]}
=============================================================================
