---------------------------- MODULE SnatEndpoints ----------------------------
(***************************************************************************)
(* The division of the public ports among the private addresses            *)
(* (nat_src_endpoint_ip.c, _udp.c, _tcp.c).  Addresses are named by their  *)
(* position in their set of networks (sw_netset_idx, sw_netset_ip), so     *)
(* that the sets may have gaps and any order.                              *)
(*                                                                         *)
(* The code divides in floating point.  Positions below 2^24 are exact in  *)
(* a float and their quotients by K do not round up to the next integer,   *)
(* so that integer division is what it computes.                           *)
(***************************************************************************)
EXTENDS Integers

CONSTANTS
  NPrv,       \* addresses in user-networks
  NPub,       \* addresses in snat-public-networks
  FirstPort,  \* 1024
  PortCount,  \* 65536 - 1024
  ChunkMin    \* SW_NAT_SRC_ENDPOINT_CHUNK_SIZE_MIN

ASSUME AddressesOK ==
  /\ NPrv \in Nat \ {0} /\ NPub \in Nat \ {0} /\ NPub <= NPrv
  /\ FirstPort \in Nat /\ PortCount \in Nat /\ ChunkMin \in Nat \ {0}

(* Private addresses that share a public one: the quotient, rounded up.    *)
K == (NPrv + NPub - 1) \div NPub

(* Ports of each of them.                                                  *)
Chunk == PortCount \div K

(* What __create checks.                                                   *)
ASSUME ChunkOK == Chunk >= ChunkMin

User == 0 .. NPrv - 1

PubIp(n) == n \div K

Lport(n) == (n % K) * Chunk + FirstPort

Hport(n) == Lport(n) + Chunk - 1

Ports(n) == Lport(n) .. Hport(n)

Id(n) == (Hport(n) - FirstPort) \div Chunk

(* The id under which the owner of a public port is looked up; the ports   *)
(* below FirstPort are not asked for here.                                 *)
PortId(port) == (port - FirstPort) \div Chunk

Public == [ip : 0 .. NPub - 1, port : FirstPort .. FirstPort + PortCount - 1]

(* Mutant of NextPort: the cursor turns round one port late.               *)
NextPortLate(n, port) == IF port > Hport(n) THEN Lport(n) ELSE port + 1

(* The port after the one just assigned.                                   *)
NextPort(n, port) == IF port >= Hport(n) THEN Lport(n) ELSE port + 1
=============================================================================
