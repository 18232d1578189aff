-------------------------------- MODULE Netset --------------------------------
(***************************************************************************)
(* Sets of networks (netset.c): how user-networks and snat-public-networks *)
(* are read, and the numbering of their addresses that SnatEndpoints       *)
(* divides ports by.                                                       *)
(*                                                                         *)
(* An entry of the option is an address and a number of bits; an address   *)
(* that inet_aton refuses is BadAddress.  A set is the sequence of its     *)
(* networks, [min, max], in the order of the list.  Addresses are AddrBits *)
(* wide, and sizes and positions are as wide and wrap.                     *)
(***************************************************************************)
EXTENDS Integers, Sequences

CONSTANTS
  AddrBits,    \* 32
  BadAddress,  \* what is not an address
  Refused      \* -1

ASSUME NetsetAssumption == AddrBits \in Nat \ {0}

Address == 0 .. 2 ^ AddrBits - 1

(* How many addresses a number of bits leaves.  Without bits the shift is  *)
(* as wide as the word, undefined: it gives no mask, or a full one.        *)
BlockOutcomes(bits) == IF bits = 0 THEN {Refused, 1} ELSE {2 ^ (AddrBits - bits)}

(* The first address of a network is the one written, masked or not.       *)
Network(address, block) ==
  [min |-> address, max |-> (address - (address % block)) + block - 1]

(* sw_netset_create: every network goes in front of those before it, and   *)
(* one that cannot be read refuses them all.                               *)
CreateOutcomes(cidrs) ==
  LET n == Len(cidrs)
      Blocks == {b \in [1 .. n -> UNION {BlockOutcomes(cidrs[i].bits) : i \in 1 .. n}] :
                   \A i \in 1 .. n : b[i] \in BlockOutcomes(cidrs[i].bits)}
      Readable(b) == \A i \in 1 .. n : cidrs[i].address # BadAddress /\ b[i] # Refused
      Listed(b) ==
        [i \in 1 .. n |-> Network(cidrs[(n + 1) - i].address, b[(n + 1) - i])]
  IN {IF Readable(b) THEN Listed(b) ELSE Refused : b \in Blocks}

(* sw_netset_destroy frees the networks one by one.                        *)
Destroy(nets) == [nets |-> <<>>, freed |-> {nets[i] : i \in DOMAIN nets}]

Within(net, ip) == net.min <= ip /\ ip <= net.max

(* Addresses in the networks before the i-th.                              *)
Offset(nets) ==
  LET Sum[i \in 1 .. Len(nets) + 1] ==
        IF i = 1 THEN 0
        ELSE (Sum[i - 1] + (nets[i - 1].max - nets[i - 1].min) + 1) % (2 ^ AddrBits)
  IN Sum

(* sw_netset_size *)
Size(nets) == Offset(nets)[Len(nets) + 1]

(* sw_netset_idx: an address of no network gets the number of all.         *)
Idx(nets, ip) ==
  IF \E i \in DOMAIN nets : Within(nets[i], ip)
  THEN LET i == CHOOSE i \in DOMAIN nets :
                  Within(nets[i], ip) /\ \A j \in 1 .. i - 1 : ~Within(nets[j], ip)
       IN (Offset(nets)[i] + (ip - nets[i].min)) % (2 ^ AddrBits)
  ELSE Size(nets)

(* sw_check_ip *)
CheckIp(nets, ip) == \E i \in DOMAIN nets : Within(nets[i], ip)

(* sw_netset_ip: an index beyond the last address gives 0.                 *)
IpAt(nets, idx) ==
  LET Rest[i \in 1 .. Len(nets) + 1] ==
        IF i = 1 THEN idx ELSE Rest[i - 1] - (nets[i - 1].max - nets[i - 1].min) - 1
      Holds(i) == Rest[i] <= nets[i].max - nets[i].min
  IN IF \E i \in DOMAIN nets : Holds(i)
     THEN LET i == CHOOSE i \in DOMAIN nets :
                     Holds(i) /\ \A j \in 1 .. i - 1 : ~Holds(j)
          IN nets[i].min + Rest[i]
     ELSE 0
=============================================================================
