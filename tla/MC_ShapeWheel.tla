--------------------------- MODULE MC_ShapeWheel ---------------------------
(* Small instances of ShapeWheel for TLC. *)
EXTENDS ShapeWheel, TLC

CONSTANTS b1, b2, b3, r1, r2
=============================================================================
