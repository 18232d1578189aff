-------------------------------- MODULE UamMsg --------------------------------
(***************************************************************************)
(* The messages of the user authentication protocol (uammsg.c): arguments, *)
(* each ended by a zero, in a buffer of the thread.  The cipher is the     *)
(* copy and its checks of size that the code has in its place.             *)
(*                                                                         *)
(* An argument is the sequence of its characters, which are not Zero; a    *)
(* message is a sequence of characters.  A buffer is a function from its   *)
(* places, counted from 1, to characters.                                  *)
(***************************************************************************)
EXTENDS Naturals, Sequences

CONSTANTS
  Zero,     \* the character '\0'
  MsgSize,  \* SW_UAM_MSG_SIZE
  ArgMax,   \* SW_UAM_ARG_MAX
  Refusal   \* -1

ASSUME UamMsgAssumption == MsgSize \in Nat \ {0, 1} /\ ArgMax \in Nat \ {0}

(* encrypt_message: what fills the buffer does not fit.                    *)
Encrypted(plain) == IF Len(plain) >= MsgSize THEN Refusal ELSE plain

(* sw_uam_build_msg *)
Built(args) ==
  LET Text[i \in 0 .. Len(args)] ==
        IF i = 0 THEN <<>> ELSE (Text[i - 1] \o args[i]) \o <<Zero>>
      plain == Text[Len(args)]
  IN IF Len(args) > ArgMax - 1 \/ Len(plain) > MsgSize - 1 THEN Refusal ELSE Encrypted(plain)

(* decrypt_message: the message over what the buffer held.  Only the size  *)
(* of a pointer is cleared at its start, and what lies behind stays.       *)
Decrypted(buffer, cypher) ==
  IF Len(cypher) >= MsgSize - 1 THEN Refusal
  ELSE [i \in DOMAIN buffer |->
          IF i <= Len(cypher) THEN cypher[i] ELSE IF i <= 8 THEN Zero ELSE buffer[i]]

(* sw_uam_parse_msg: arguments begin within the message and end with a     *)
(* zero, which may be one an earlier message has left.                     *)
Parsed(buffer, cypher) ==
  LET plain == Decrypted(buffer, cypher)
      End(from) == CHOOSE i \in DOMAIN plain :
                     /\ i >= from /\ plain[i] = Zero
                     /\ \A j \in from .. i - 1 : plain[j] # Zero
      ArgsFrom[from \in 1 .. MsgSize + 1] ==
        IF from > Len(cypher) THEN <<>>
        ELSE <<SubSeq(plain, from, End(from) - 1)>> \o ArgsFrom[End(from) + 1]
      args == IF plain = Refusal THEN <<>> ELSE ArgsFrom[1]
  IN IF plain = Refusal \/ Len(args) > ArgMax - 1 THEN Refusal ELSE args
=============================================================================
