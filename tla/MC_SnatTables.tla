---------------------------- MODULE MC_SnatTables ----------------------------
(* A small instance of SnatTables for TLC: two users share a public        *)
(* address and a chain.  And Netset for every pair of networks.            *)
EXTENDS SnatTables, Netset, TLC

CONSTANTS s1, s2, r1, r2

Both == <<"udp", "tcp">>
OneChain == [n \in User |-> n \div 2]

Alike == Permutations({r1, r2})
-----------------------------------------------------------------------------
Cidrs == [address : Address \cup {BadAddress}, bits : 0 .. AddrBits]

Options == UNION {[1 .. n -> Cidrs] : n \in 1 .. 2}

Sets == UNION {CreateOutcomes(o) : o \in Options} \ {Refused}

Disjoint(nets) ==
  \A i, j \in DOMAIN nets, a \in Address :
    Within(nets[i], a) /\ Within(nets[j], a) => i = j

Members(nets) == {a \in Address : CheckIp(nets, a)}

(* An option is refused for one bad address, and may be for an empty mask. *)
ASSUME OptionsRead ==
  \A o \in Options :
    /\ (\E i \in DOMAIN o : o[i].address = BadAddress) => CreateOutcomes(o) = {Refused}
    /\ Refused \in CreateOutcomes(o) =>
         \E i \in DOMAIN o : o[i].address = BadAddress \/ o[i].bits = 0

(* The number of an address leads back to it.                              *)
ASSUME NumbersLeadBack ==
  \A nets \in Sets : \A a \in Members(nets) :
    Size(nets) # 0 => IpAt(nets, Idx(nets, a)) = a

(* In networks that do not overlap the addresses have the numbers below    *)
(* the size, each its own, as SnatEndpoints has it; the whole address      *)
(* space has the size 0.                                                   *)
ASSUME NumbersOwn ==
  \A nets \in Sets : Disjoint(nets) =>
    IF Members(nets) = Address THEN Size(nets) = 0
    ELSE {Idx(nets, a) : a \in Members(nets)} = 0 .. Size(nets) - 1

(* An address outside has the number of all, and that leads to 0.          *)
ASSUME OutsideHasSize ==
  \A nets \in Sets : Disjoint(nets) => \A a \in Address \ Members(nets) :
    Idx(nets, a) = Size(nets) /\ IpAt(nets, Size(nets)) = 0

(* A network that is not written with its first address begins late.       *)
ASSUME NetworksUnmasked ==
  /\ CreateOutcomes(<<[address |-> 5, bits |-> 1]>>) = {<<[min |-> 5, max |-> 7]>>}
  /\ CreateOutcomes(<<[address |-> 0, bits |-> 2], [address |-> 4, bits |-> 2]>>)
       = {<<[min |-> 4, max |-> 5], [min |-> 0, max |-> 1]>>}

(* Every network is freed.                                                 *)
ASSUME NetworksFreed ==
  \A nets \in Sets :
    Destroy(nets).nets = <<>> /\ Destroy(nets).freed = {nets[i] : i \in DOMAIN nets}
=============================================================================
