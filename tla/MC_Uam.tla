-------------------------------- MODULE MC_Uam --------------------------------
(* A small instance of Uam for TLC, and every short message of UamMsg.     *)
EXTENDS Uam, UamMsg, TLC

CONSTANTS ip1, c1, c2, s1, s2

(* Callers run the same client, and choose serials at random.              *)
Alike == Permutations({c1, c2}) \cup Permutations({s1, s2})
-----------------------------------------------------------------------------
Argument == {[i \in 1 .. n |-> "a"] : n \in 0 .. 3} \cup {<<"b">>}

Arguments == UNION {[1 .. n -> Argument] : n \in 0 .. ArgMax}

Blank == [i \in 1 .. MsgSize |-> Zero]

(* What a long message leaves in the buffer.                               *)
Worn == [i \in 1 .. MsgSize |-> IF i < MsgSize - 1 THEN "b" ELSE Zero]

(* The server reads what a client built, whatever it read before, except   *)
(* that one that takes all but a byte of the buffer is refused.            *)
ASSUME MessagesRead ==
  \A args \in Arguments, buffer \in {Blank, Worn} :
    LET msg == Built(args) IN
    msg # Refusal =>
      Parsed(buffer, msg) = IF Len(msg) = MsgSize - 1 THEN Refusal ELSE args

(* What is built has fewer arguments than ArgMax and fewer characters than *)
(* the buffer.                                                             *)
ASSUME MessagesFit ==
  \A args \in Arguments :
    Built(args) # Refusal => Len(args) < ArgMax /\ Len(Built(args)) < MsgSize

(* A message that no zero ends is read on into what an earlier one left,   *)
(* beyond the eight bytes that are cleared.                                *)
ASSUME MessagesUnended ==
  LET msg(n) == [i \in 1 .. n |-> "a"] IN
  /\ Parsed(Blank, msg(8)) = <<msg(8)>>
  /\ Parsed(Worn, msg(7)) = <<msg(7)>>
  /\ Parsed(Worn, msg(8)) = <<msg(8) \o [i \in 1 .. MsgSize - 10 |-> "b"]>>
=============================================================================
