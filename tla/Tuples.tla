------------------------------- MODULE Tuples -------------------------------
(***************************************************************************)
(* Tuple chains: what the headers of a packet say of its source and of its *)
(* destination (tuple.c and its handlers), and the two ways to hash and to *)
(* compare them: strictly, and as NAT does, which keeps its relations      *)
(* under them (nat_tuple.c).                                               *)
(*                                                                         *)
(* A packet is the sequence of its headers and a chain a sequence of       *)
(* tuples, so that a chain that a handler reads "and the rest of it" is    *)
(* read from the first tuple to the last.  A hash is taken for what goes   *)
(* into it: chains that give the hash function the same bytes have the     *)
(* same hash, and others may.                                              *)
(***************************************************************************)
EXTENDS Integers, Sequences

CONSTANTS
  Addr, Port, Id, Seqno,  \* addresses, ports, ids, ICMP sequence numbers
  Frag,      \* fragment words of IP headers,
  Later,     \* those of fragments but the first,
  Type,      \* types of ICMP,
  Echo,      \* echo and its reply,
  Exceeded,  \* time exceeded,
  Bare       \* timestamps and redirects: they have no number that is read

ASSUME TuplesOK ==
  /\ Later \subseteq Frag
  /\ Echo \subseteq Type /\ Bare \subseteq Type /\ Exceeded \in Type
  /\ Exceeded \notin Echo \cup Bare /\ Echo \cap Bare = {}

(* The headers.  Of time exceeded, id and seq are what is at their place   *)
(* in the packet that it is about.  Anything that is short, of another     *)
(* version or of a protocol without a handler is "unknown".                *)
Header ==
  [proto : {"ip"}, src : Addr, dst : Addr, id : Id, frag : Frag]
    \cup [proto : {"tcp", "udp"}, src : Port, dst : Port]
    \cup [proto : {"icmp"}, type : Type, id : Id, seq : Seqno]
    \cup [proto : {"unknown"}]

IpTuple == [proto : {"ip"}, ip : Addr, id : Id, frag : Frag]
PortTuple == [proto : {"tcp", "udp"}, port : Port]
IcmpTuple == [proto : {"icmp"}, type : Type, id : Id, seq : Seqno]
Tuple == IpTuple \cup PortTuple \cup IcmpTuple
-----------------------------------------------------------------------------
(* Reading a packet                                                        *)

(* A header after which no more are read.                                  *)
Ends(h) ==
  \/ h.proto = "ip" /\ h.frag \in Later
  \/ h.proto \in {"tcp", "udp"}
  \/ h.proto = "icmp" /\ h.type \in Echo \cup Bare \cup {Exceeded}

(* The tuples of a header.  Those of ICMP messages without numbers keep    *)
(* what is in the memory they are in.                                      *)
IpTuples(h, end) ==
  {[proto |-> "ip", ip |-> IF end = "src" THEN h.src ELSE h.dst, id |-> h.id, frag |-> h.frag]}

PortTuples(h, end) ==
  {[proto |-> h.proto, port |-> IF end = "src" THEN h.src ELSE h.dst]}

IcmpTuples(h) ==
  IF h.type \in Echo \cup {Exceeded}
  THEN {[proto |-> "icmp", type |-> h.type, id |-> h.id, seq |-> h.seq]}
  ELSE {[proto |-> "icmp", type |-> h.type, id |-> i, seq |-> n] : i \in Id, n \in Seqno}

TuplesOf(h, end) ==
  CASE h.proto = "ip"             -> IpTuples(h, end)
    [] h.proto \in {"tcp", "udp"} -> PortTuples(h, end)
    [] h.proto = "icmp"           -> IcmpTuples(h)

(* sw_tuple_fetch reads the first n headers of a packet ...                *)
Read(p, n) ==
  /\ n \in DOMAIN p /\ Ends(p[n])
  /\ \A i \in 1 .. n : p[i].proto # "unknown"
  /\ \A i \in 1 .. n - 1 : ~Ends(p[i])

(* ... and makes one of these chains of them, or refuses the packet.       *)
Fetched(p, end) ==
  UNION {{c \in [1 .. n -> UNION {TuplesOf(p[i], end) : i \in 1 .. n}] :
            \A i \in 1 .. n : c[i] \in TuplesOf(p[i], end)} : n \in {n \in DOMAIN p : Read(p, n)}}
-----------------------------------------------------------------------------
(* The strict functions (tuple_*.c)                                        *)

HashIp(t) == <<t.proto, t.id, t.frag, t.ip>>
HashTcp(t) == <<t.proto, t.port>>
HashUdp(t) == <<t.proto, t.port>>
HashIcmp(t) == <<t.proto, t.type, t.id, t.seq>>

HashOne(t) ==
  CASE t.proto = "ip"   -> HashIp(t)
    [] t.proto = "tcp"  -> HashTcp(t)
    [] t.proto = "udp"  -> HashUdp(t)
    [] t.proto = "icmp" -> HashIcmp(t)

Hash(c) == [i \in DOMAIN c |-> HashOne(c[i])]

SameIp(s, t) == s.ip = t.ip /\ s.id = t.id /\ s.frag = t.frag
SameTcp(s, t) == s.port = t.port
SameUdp(s, t) == s.port = t.port
SameIcmp(s, t) == s.type = t.type /\ s.id = t.id /\ s.seq = t.seq

SameOne(s, t) ==
  /\ s.proto = t.proto
  /\ CASE s.proto = "ip"   -> SameIp(s, t)
       [] s.proto = "tcp"  -> SameTcp(s, t)
       [] s.proto = "udp"  -> SameUdp(s, t)
       [] s.proto = "icmp" -> SameIcmp(s, t)

(* sw_tuple_cmp gives zero.                                                *)
Cmp(c, d) == Len(c) = Len(d) /\ \A i \in DOMAIN c : SameOne(c[i], d[i])
-----------------------------------------------------------------------------
(* The functions of NAT: an address is compared without what identifies    *)
(* the packet, an ICMP message without its type.                           *)

NatHashIcmp(t) == <<t.proto, t.id, t.seq>>

NatHashIp(t) == <<t.proto, t.ip>>

NatHashOne(t) ==
  CASE t.proto = "ip"   -> NatHashIp(t)
    [] t.proto = "icmp" -> NatHashIcmp(t)
    [] OTHER            -> HashOne(t)

(* Only the handler of addresses goes on with the functions of NAT.        *)
NatHash(c) ==
  [i \in DOMAIN c |->
     IF \A j \in 1 .. i - 1 : c[j].proto = "ip" THEN NatHashOne(c[i]) ELSE HashOne(c[i])]

NatSameIp(s, t) == s.ip = t.ip
NatSameIcmp(s, t) == s.id = t.id /\ s.seq = t.seq

NatSameOne(s, t) ==
  /\ s.proto = t.proto
  /\ CASE s.proto = "ip"   -> NatSameIp(s, t)
       [] s.proto = "icmp" -> NatSameIcmp(s, t)
       [] OTHER            -> SameOne(s, t)

(* sw_nat_tuple_cmp gives zero: here the handler of ICMP goes on, too.     *)
NatCmp(c, d) ==
  /\ Len(c) = Len(d)
  /\ \A i \in DOMAIN c :
       IF \A j \in 1 .. i - 1 : c[j].proto \in {"ip", "icmp"}
       THEN NatSameOne(c[i], d[i]) ELSE SameOne(c[i], d[i])
-----------------------------------------------------------------------------
(* Copies.  A tuple is two allocations, itself and what its protocol knows *)
(* of it, and a copy that runs out of memory is left as far as it got.     *)

(* A handler copies a tuple; half is a last tuple without its second part. *)
CopyOne(copy, t) ==
  CASE copy.left = 0 -> [copy EXCEPT !.ok = FALSE]
    [] copy.left = 1 -> [copy EXCEPT !.ok = FALSE, !.half = TRUE, !.left = 0]
    [] OTHER         -> [copy EXCEPT !.chain = Append(@, t), !.left = @ - 2]

(* sw_tuple_clone with memory for so many allocations.                     *)
Clone(c, memory) ==
  LET Copy[i \in 0 .. Len(c)] ==
        CASE i = 0 -> [chain |-> <<>>, half |-> FALSE, left |-> memory, ok |-> TRUE]
          [] i > 0 /\ ~Copy[i - 1].ok -> Copy[i - 1]
          [] OTHER -> CopyOne(Copy[i - 1], c[i])
  IN Copy[Len(c)]

(* sw_tuple_free: the memory there is after a copy is given back.          *)
Free(copy) == (copy.left + (2 * Len(copy.chain))) + (IF copy.half THEN 1 ELSE 0)

(* The address a chain is charged to (sw_gauge_index), none for an empty   *)
(* chain; one that does not begin with an address leaves it unset.         *)
Charged(c) ==
  CASE c = <<>> -> {}
    [] c # <<>> /\ c[1].proto = "ip" -> {c[1].ip}
    [] OTHER -> Addr
=============================================================================
