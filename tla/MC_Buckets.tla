----------------------------- MODULE MC_Buckets -----------------------------
(* A small instance of Buckets for TLC: a table of relations under the     *)
(* tuple chains of packets that users send.                                *)
EXTENDS Buckets, Tuples, TLC

CONSTANTS t1, t2, seg1, seg2, ping, err1, err2

Ip(src, id, frag) ==
  [proto |-> "ip", src |-> src, dst |-> "web", id |-> id, frag |-> frag]
Tcp == [proto |-> "tcp", src |-> 1, dst |-> 1]
Icmp(type) == [proto |-> "icmp", type |-> type, id |-> "i1", seq |-> 1]

(* That a host is unreachable, to the sender of a segment with this id.    *)
Error(id) == <<Ip("u1", "i1", "whole"), Icmp("unreachable"),
               [Ip("web", id, "whole") EXCEPT !.dst = "u1"], Tcp>>

(* Two segments of a connection, an echo, and two messages of an           *)
(* unreachable host, about two segments.                                   *)
Packet(k) ==
  CASE k = seg1 -> <<Ip("u1", "i1", "whole"), Tcp>>
    [] k = seg2 -> <<Ip("u1", "i2", "whole"), Tcp>>
    [] k = ping -> <<Ip("u1", "i1", "whole"), Icmp("request")>>
    [] k = err1 -> Error("i1")
    [] k = err2 -> Error("i2")

ChainOf(p) == CHOOSE c \in Fetched(p, "src") : TRUE
Chain(k) == ChainOf(Packet(k))

(* Numbers for the hashes and classes of the chains, of which those of the *)
(* segments and of the echo are in one bucket, those of the errors, which  *)
(* compare equal under two hashes, in the other.                           *)
Hashes == [k \in Key |->
  CASE k \in {seg1, seg2} -> 0 [] k = ping -> 2 [] k = err1 -> 1 [] k = err2 -> 3]

SameToNat == [k \in Key |->
  CASE k = seg2 -> seg1 [] k = err2 -> err1 [] OTHER -> k]

ASSUME AsTuples ==
  \A k, l \in Key :
    /\ (HashOf[k] = HashOf[l]) = (NatHash(Chain(k)) = NatHash(Chain(l)))
    /\ (ClassOf[k] = ClassOf[l]) = NatCmp(Chain(k), Chain(l))

(* A reply to the echo is of its flow, and a later fragment of none.       *)
ASSUME OtherPackets ==
  LET reply == ChainOf(<<Ip("u1", "i2", "whole"), Icmp("reply")>>)
      rest == ChainOf(<<Ip("u1", "i1", "later"), Tcp>>)
  IN  /\ NatCmp(reply, Chain(ping)) /\ NatHash(reply) = NatHash(Chain(ping))
      /\ ~Cmp(reply, Chain(ping))
      /\ \A k \in Key : ~NatCmp(rest, Chain(k))

(* A copy is complete if there is memory for it, is the chain then, and    *)
(* costs nothing once it is freed, complete or not.                        *)
ASSUME Copied ==
  \A k \in Key, m \in 0 .. 5 :
    LET copy == Clone(Chain(k), m) IN
    /\ copy.ok = (m >= 2 * Len(Chain(k)))
    /\ copy.ok => Cmp(copy.chain, Chain(k))
    /\ Free(copy) = m

(* What is read from a packet is charged to the address it is from.        *)
ASSUME ChargedToSender ==
  \A k \in Key : \A c \in Fetched(Packet(k), "src") : Charged(c) = {"u1"}

(* Threads run the same code, and items are only compared.                 *)
Alike == Permutations(Thread) \cup Permutations(Item)
=============================================================================
