--------------------------------- MODULE Link ---------------------------------
(***************************************************************************)
(* The interfaces of the daemon at work (if.c): what of a packet is sent,  *)
(* and what is made of a frame that arrives.  Opening and closing them is  *)
(* in Parts.                                                               *)
(*                                                                         *)
(* A packet is the length its header says, and where it goes.  What the    *)
(* kernel answers is "sent", "denied" (EACCES, for broadcasts) or "fails". *)
(***************************************************************************)
EXTENDS Naturals, Integers

CONSTANTS
  Station,      \* addresses
  Local,     \* those in local-networks
  Anywhere   \* 0.0.0.0, what the zeroed address of the socket is

ASSUME LinkAssumption == Local \subseteq Station /\ Anywhere \notin Station

Failed == -1

(* The kernel is asked to send a packet to its destination, but one for    *)
(* the local networks to no address.                                       *)
Hop(dst) == IF dst \in Local THEN Anywhere ELSE dst

(* sw_if_send of length octets: what is sent, if anything, and the result. *)
(* Padding behind the packet is left out; a part of a packet is not sent.  *)
Send(packet, length, answer) ==
  IF packet.total > length THEN [frames |-> {}, rc |-> Failed]
  ELSE [frames |-> IF answer = "sent" THEN {[length |-> packet.total, to |-> Hop(packet.dst)]}
                   ELSE {},
        rc |-> IF answer = "fails" THEN Failed ELSE 0]

(* sw_if_recv: the octets of a frame, none for one that the daemon itself  *)
(* sent and that is to be ignored.                                         *)
Recv(frame, ignored) ==
  CASE frame.octets < 0                              -> Failed
    [] frame.octets >= 0 /\ ignored /\ frame.outgoing -> 0
    [] OTHER                                         -> frame.octets
=============================================================================
