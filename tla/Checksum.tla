------------------------------ MODULE Checksum ------------------------------
(***************************************************************************)
(* Internet checksums, kept right without reading the packet again         *)
(* (tuple_checksum.c): the words that go are subtracted from the old sum   *)
(* and the words that come are added, in one's complement arithmetic.      *)
(* Words are what the code reads two bytes at a time; Base is 2^16 there.  *)
(***************************************************************************)
EXTENDS Integers

CONSTANT Base

ASSUME BaseOK == Base \in Nat /\ Base > 2

Word == 0 .. Base - 1

Complement(x) == Base - 1 - x

(* One round of the loop of sw_tuple_checksum_decrement; the mask adds the *)
(* base to what is negative.                                               *)
Less(x, old) == IF x - old <= 0 THEN x - old - 1 + Base ELSE x - old

(* Mutant of More: the carry is lost.                                      *)
MoreLost(x, new) == IF x + new >= Base THEN x + new - Base ELSE x + new

(* One round of the loop of sw_tuple_checksum_increment.                   *)
More(x, new) == IF x + new >= Base THEN x + new + 1 - Base ELSE x + new

(* The functions on two words, the only lengths but one they are used on.  *)
Decrement(csum, initial, a, b) ==
  Less(Less(IF initial THEN Complement(csum) ELSE csum, a), b)

Increment(partial, final, a, b) ==
  LET x == More(More(partial, a), b) IN IF final THEN Complement(x) ELSE x
-----------------------------------------------------------------------------
(* What a receiver accepts: the words and the checksum make minus zero.    *)
Accepts(sum) == sum \in {Base - 1, 2 * (Base - 1), 3 * (Base - 1), 4 * (Base - 1),
                         5 * (Base - 1), 6 * (Base - 1)}

(* The checksum a sender computes over words of this sum.                  *)
SenderSum(sum) == CHOOSE c \in 0 .. Base - 2 : Accepts(sum + c)
=============================================================================
