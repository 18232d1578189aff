----------------------------- MODULE Snat_proofs -----------------------------
(* Theorems about source NAT, for any number of users, addresses, ports,   *)
(* flows, relations and threads: the division of the ports (SnatEndpoints),*)
(* the relations of flows (SnatRelations), and the tables of endpoints     *)
(* they take their ports from (SnatTables).                                *)
EXTENDS SnatRelations, SnatTables, TLAPS
-----------------------------------------------------------------------------
(* SnatEndpoints *)

(* The quotient and the remainder of a number written as such.             *)
LEMMA DivMod ==
  ASSUME NEW a \in Nat, NEW c \in Nat \ {0}, NEW d \in 0 .. c - 1
  PROVE  ((a * c) + d) \div c = a /\ ((a * c) + d) % c = d
  OBVIOUS

(* Every number is its quotient times the divisor plus the remainder.      *)
LEMMA Recompose ==
  ASSUME NEW n \in Nat, NEW c \in Nat \ {0}
  PROVE  /\ n \div c \in Nat /\ n % c \in 0 .. c - 1
         /\ n = ((n \div c) * c) + (n % c)
  OBVIOUS

(* A product grows with its first factor.                                  *)
LEMMA TimesMonotone ==
  ASSUME NEW a \in Nat, NEW b \in Nat, NEW c \in Nat, a <= b
  PROVE  a * c <= b * c /\ a * c \in Nat /\ b * c \in Nat
  OBVIOUS

(* The two divisors are numbers to divide by; the ranges of K users fit in *)
(* the ports, and the users of NPub addresses cover all users.             *)
LEMMA Divisors ==
  /\ K \in Nat \ {0} /\ Chunk \in Nat \ {0}
  /\ K * Chunk <= PortCount
  /\ NPrv <= NPub * K
<1> DEFINE total == NPrv + NPub - 1
<1>1. total \in Nat /\ NPub \in Nat \ {0} /\ total >= NPub /\ NPrv \in Nat
  BY AddressesOK
<1>2. K \in Nat /\ total = (K * NPub) + (total % NPub) /\ total % NPub \in 0 .. NPub - 1
  BY <1>1, Recompose DEF K
<1>3. K # 0
  BY <1>1, <1>2
<1>4. PortCount \in Nat /\ ChunkMin \in Nat \ {0}
  BY AddressesOK
<1>5. /\ Chunk \in Nat
      /\ PortCount = (Chunk * K) + (PortCount % K) /\ PortCount % K \in 0 .. K - 1
  BY <1>2, <1>3, <1>4, Recompose DEF Chunk
<1>6. Chunk # 0
  BY <1>4, <1>5, ChunkOK
<1>7. K * Chunk <= PortCount
  BY <1>2, <1>4, <1>5
<1>8. NPrv <= NPub * K
  BY <1>1, <1>2
<1> QED
  BY <1>2, <1>3, <1>5, <1>6, <1>7, <1>8

(* The place of a user among those who share his public address.           *)
LEMMA Place ==
  ASSUME NEW n \in User
  PROVE  /\ n % K \in 0 .. K - 1
         /\ PubIp(n) \in 0 .. NPub - 1
         /\ n = (PubIp(n) * K) + (n % K)
<1>1. n \in Nat /\ n < NPrv
  BY AddressesOK DEF User
<1>2. PubIp(n) \in Nat /\ n % K \in 0 .. K - 1 /\ n = (PubIp(n) * K) + (n % K)
  BY <1>1, Divisors, Recompose DEF PubIp
<1>3. NPub \in Nat /\ K \in Nat
  BY AddressesOK, Divisors
<1>4. ~(NPub <= PubIp(n))
  <2>1. SUFFICES ASSUME NPub <= PubIp(n) PROVE FALSE
    OBVIOUS
  <2>2. NPub * K <= PubIp(n) * K /\ NPub * K \in Nat /\ PubIp(n) * K \in Nat
    BY <2>1, <1>2, <1>3, TimesMonotone
  <2> QED
    BY <2>2, <1>1, <1>2, AddressesOK, Divisors
<1> QED
  BY <1>2, <1>3, <1>4

(* A range in numbers: the ports of the user at place j of his address.    *)
LEMMA RangeOfPlace ==
  ASSUME NEW n \in User
  PROVE  /\ Lport(n) \in Nat /\ Hport(n) \in Nat
         /\ Lport(n) = ((n % K) * Chunk) + FirstPort
         /\ Hport(n) = Lport(n) + Chunk - 1
         /\ (n % K) * Chunk \in Nat
<1>1. n % K \in Nat /\ Chunk \in Nat \ {0} /\ FirstPort \in Nat
  BY Place, Divisors, AddressesOK
<1>2. (n % K) * Chunk \in Nat
  BY <1>1
<1> QED
  BY <1>1, <1>2 DEF Lport, Hport

(* The division of a port by the size of the ranges gives the place of     *)
(* its owner.                                                              *)
LEMMA PortIdIsPlace ==
  ASSUME NEW n \in User, NEW p \in Ports(n)
  PROVE  p \in Nat /\ PortId(p) = n % K
<1> DEFINE d == p - FirstPort - ((n % K) * Chunk)
<1>1. /\ n % K \in Nat /\ Chunk \in Nat \ {0} /\ FirstPort \in Nat
      /\ (n % K) * Chunk \in Nat
  BY Place, RangeOfPlace, Divisors, AddressesOK
<1>2. p \in Nat /\ Lport(n) <= p /\ p <= Hport(n)
  BY RangeOfPlace DEF Ports
<1>3. d \in 0 .. Chunk - 1 /\ p - FirstPort = ((n % K) * Chunk) + d
  BY <1>1, <1>2, RangeOfPlace
<1> HIDE DEF d
<1>4. (((n % K) * Chunk) + d) \div Chunk = n % K
  BY <1>1, <1>3, DivMod
<1> QED
  BY <1>2, <1>3, <1>4 DEF PortId

LEMMA EndsInRange ==
  ASSUME NEW n \in User
  PROVE  Lport(n) \in Ports(n) /\ Hport(n) \in Ports(n)
  BY RangeOfPlace, Divisors DEF Ports

(* The id of a user is his place.                                          *)
LEMMA IdIsPlace ==
  ASSUME NEW n \in User
  PROVE  Id(n) = n % K
<1>1. PortId(Hport(n)) = n % K
  BY EndsInRange, PortIdIsPlace
<1> QED
  BY <1>1 DEF Id, PortId

(* Users with the same address and the same place are the same.            *)
LEMMA SamePlace ==
  ASSUME NEW n \in User, NEW m \in User, PubIp(n) = PubIp(m), n % K = m % K
  PROVE  n = m
<1>1. n = (PubIp(n) * K) + (n % K) /\ m = (PubIp(m) * K) + (m % K)
  BY Place
<1> QED
  BY <1>1

(* A public port belongs to one user: two users of a public address have   *)
(* no port in common (__create of the endpoints).                          *)
THEOREM RangesDisjoint ==
  \A n, m \in User : n # m /\ PubIp(n) = PubIp(m) => Ports(n) \cap Ports(m) = {}
<1> SUFFICES ASSUME NEW n \in User, NEW m \in User, n # m, PubIp(n) = PubIp(m),
                    NEW p \in Ports(n), p \in Ports(m)
             PROVE  FALSE
  OBVIOUS
<1>1. PortId(p) = n % K /\ PortId(p) = m % K
  BY PortIdIsPlace
<1> QED
  BY <1>1, SamePlace

(* The lookup by division (sw_nat_src_endpoint_udp_getprv) names the owner *)
(* of a port, whoever he is and whichever of his ports it is.              *)
THEOREM OwnerFound ==
  \A n \in User : \A p \in Ports(n) :
    {m \in User : PubIp(m) = PubIp(n) /\ Id(m) = PortId(p)} = {n}
<1> SUFFICES ASSUME NEW n \in User, NEW p \in Ports(n)
             PROVE  \A m \in User : PubIp(m) = PubIp(n) /\ Id(m) = PortId(p) <=> m = n
  OBVIOUS
<1>1. Id(n) = PortId(p)
  BY IdIsPlace, PortIdIsPlace
<1>2. ASSUME NEW m \in User, PubIp(m) = PubIp(n), Id(m) = PortId(p)
      PROVE  m = n
  BY <1>2, IdIsPlace, PortIdIsPlace, SamePlace
<1> QED
  BY <1>1, <1>2

(* All ports of a user exist: the last range ends below the last port.     *)
LEMMA PortsExist ==
  ASSUME NEW n \in User, NEW p \in Ports(n)
  PROVE  [ip |-> PubIp(n), port |-> p] \in Public
<1>1. /\ n % K \in Nat /\ (n % K) + 1 <= K /\ K \in Nat /\ Chunk \in Nat
      /\ K * Chunk <= PortCount /\ FirstPort \in Nat /\ PortCount \in Nat
  BY Place, Divisors, AddressesOK
<1>2. ((n % K) + 1) * Chunk <= K * Chunk
  BY <1>1, TimesMonotone
<1>3. ((n % K) + 1) * Chunk = ((n % K) * Chunk) + Chunk
  BY <1>1
<1>4. Hport(n) <= FirstPort + PortCount - 1
  BY <1>1, <1>2, <1>3, RangeOfPlace
<1>5. p \in FirstPort .. FirstPort + PortCount - 1
  BY <1>1, <1>4, RangeOfPlace DEF Ports
<1> QED
  BY <1>5, Place DEF Public

(* The cursor of a user stays among his ports.                             *)
LEMMA NextPortInRange ==
  ASSUME NEW n \in User, NEW p \in Ports(n)
  PROVE  NextPort(n, p) \in Ports(n)
<1>1. p \in Nat /\ Lport(n) <= p /\ p <= Hport(n) /\ Lport(n) \in Nat /\ Hport(n) \in Nat
  BY RangeOfPlace DEF Ports
<1>2. CASE p >= Hport(n)
  BY <1>2, EndsInRange DEF NextPort
<1>3. CASE ~(p >= Hport(n))
  BY <1>1, <1>3 DEF NextPort, Ports
<1> QED
  BY <1>2, <1>3
-----------------------------------------------------------------------------
(* SnatRelations *)

(* The inductive invariant.  What the properties need besides themselves:  *)
(* a relation in hand is what its thread thinks it is, until the thread    *)
(* lets go of it, and ports are only taken from the range of the flow.     *)

Own(f, k) == k.ip = PubIp(UserOf[f]) /\ k.port \in Ports(UserOf[f])

Locking == {"preempt", "collect"}

Places ==
  /\ pc[Collector] \in {"idle", "collect"}
  /\ \A t \in Relay : pc[t] # "collect"

TriesLeft == \A t \in Thread : pc[t] \in {"assign", "claim"} => job[t].tries < MaxRetry

(* New relations are in the hands of one thread and in no hash.            *)
NewInHand ==
  /\ \A t \in Thread : pc[t] = "insert" => job[t].rel \in Rel /\ rel[job[t].rel] = Blank
  /\ \A t, u \in Thread :
       pc[t] = "insert" /\ pc[u] = "insert" /\ t # u => job[t].rel # job[u].rel

(* Under its locked bucket, a relation stays what it was found to be.      *)
OldInHand ==
  /\ \A t \in Thread : pc[t] \in Locking =>
       job[t].rel \in Rel /\ pubHash[job[t].pub] = job[t].rel
  /\ \A t, u \in Thread : pc[t] \in Locking /\ pc[u] \in Locking /\ t # u =>
       job[t].pub # job[u].pub

OwnPorts ==
  /\ \A n \in User : endpoint[n] # NoEndpoint => endpoint[n] \in Ports(n)
  /\ \A t \in Relay : pc[t] \in {"claim", "preempt", "insert"} => Own(job[t].flow, job[t].pub)
  /\ \A r \in Rel : rel[r] \in Relation => Own(rel[r].prv, rel[r].pub)

SnatInv ==
  /\ SnatTypeOK /\ Places /\ TriesLeft
  /\ NewInHand /\ OldInHand /\ NoDangling
  /\ OwnPorts /\ AgreeUnlessRaced
-----------------------------------------------------------------------------
(* What the types say of the parts.                                        *)
LEMMA Typed ==
  ASSUME SnatTypeOK
  PROVE  /\ Relay \subseteq Thread /\ Collector \in Thread
         /\ \A t \in Thread : /\ job[t].flow \in Flow /\ job[t].pub \in Public
                              /\ UserOf[job[t].flow] \in User
                              /\ job[t].rel \in Rel \cup {NoRel} /\ job[t].tries \in 0 .. MaxRetry
         /\ \A r \in Rel : rel[r] \in Relation =>
              /\ rel[r].prv \in Flow /\ rel[r].pub \in Public /\ rel[r].age \in Age
              /\ rel[r] \notin {Freed, Blank}
  BY RelationsOK DEF SnatTypeOK, Thread, Job, Relation

(* A relation hangs in at most one public and one private bucket.          *)
LEMMA Hanging ==
  ASSUME SnatTypeOK, NoDangling
  PROVE  /\ \A k \in Public : pubHash[k] # NoRel =>
              /\ pubHash[k] \in Rel /\ rel[pubHash[k]] \in Relation
              /\ rel[pubHash[k]].pub = k /\ rel[pubHash[k]].prv \in Flow
         /\ \A f \in Flow : prvHash[f] # NoRel =>
              /\ prvHash[f] \in Rel /\ rel[prvHash[f]] \in Relation
              /\ rel[prvHash[f]].prv = f /\ rel[prvHash[f]].pub \in Public
         /\ \A k, l \in Public : pubHash[k] = pubHash[l] /\ pubHash[k] # NoRel => k = l
  BY Typed DEF SnatTypeOK, NoDangling

LEMMA InvInit == SnatInit => SnatInv
<1> SUFFICES ASSUME SnatInit PROVE SnatInv
  OBVIOUS
<1>1. (CHOOSE f \in Flow : TRUE) \in Flow
  BY RelationsOK
<1>2. [ip |-> 0, port |-> FirstPort] \in Public
  <2>1. 0 \in User
    BY AddressesOK DEF User
  <2>2. PubIp(0) = 0 /\ Lport(0) = FirstPort
    BY Divisors, AddressesOK DEF PubIp, Lport
  <2> QED
    BY <2>1, <2>2, EndsInRange, PortsExist
<1>3. \A t \in Thread : pc[t] = "idle" /\ job[t] \in Job
  BY <1>1, <1>2, RelationsOK DEF SnatInit, Job
<1>4. SnatTypeOK
  BY <1>3, RelationsOK DEF SnatInit, SnatTypeOK, PC
<1>5. Places /\ TriesLeft /\ NewInHand /\ OldInHand
  BY <1>3, RelationsOK DEF Places, TriesLeft, NewInHand, OldInHand, Locking, Thread
<1>6. NoDangling /\ AgreeUnlessRaced
  BY DEF SnatInit, NoDangling, AgreeUnlessRaced
<1>7. OwnPorts
  BY <1>3, RelationsOK DEF SnatInit, OwnPorts, Thread
<1> QED
  BY <1>4, <1>5, <1>6, <1>7 DEF SnatInv

LEMMA EndpointStep ==
  ASSUME SnatInv, NEW n \in User, NewEndpoint(n) \/ DelEndpoint(n)
  PROVE  SnatInv'
<1>1. Lport(n) \in Nat /\ Lport(n) \in Ports(n)
  BY RangeOfPlace, EndsInRange
<1>2. UNCHANGED <<prvHash, pubHash, rel, pc, job, raced>>
  BY DEF NewEndpoint, DelEndpoint
<1>3. SnatTypeOK'
  BY <1>1, <1>2 DEF SnatInv, SnatTypeOK, NewEndpoint, DelEndpoint
<1>4. (Places /\ TriesLeft /\ NewInHand /\ OldInHand /\ NoDangling /\ AgreeUnlessRaced)'
  BY <1>2 DEF SnatInv, Places, TriesLeft, NewInHand, OldInHand, NoDangling, AgreeUnlessRaced
<1>5. OwnPorts'
  BY <1>1, <1>2 DEF SnatInv, SnatTypeOK, OwnPorts, NewEndpoint, DelEndpoint
<1> QED
  BY <1>3, <1>4, <1>5 DEF SnatInv

(* The age of a relation matters to none of this.                          *)
LEMMA AgeStep ==
  ASSUME SnatInv, NEW r \in Rel, rel[r] \in Relation, NEW a \in Age,
         rel' = [rel EXCEPT ![r].age = a],
         UNCHANGED <<endpoint, prvHash, pubHash, pc, job, raced>>
  PROVE  SnatInv'
<1>1. SnatTypeOK /\ NoDangling
  BY DEF SnatInv
<1>2. [rel[r] EXCEPT !.age = a] \in Relation
  BY DEF Relation
<1>3. rel' \in [Rel -> Relation \cup {Freed, Blank}]
  BY <1>1, <1>2 DEF SnatTypeOK
<1>4. ASSUME NEW m \in Rel
      PROVE  /\ rel'[m] \in Relation <=> rel[m] \in Relation
             /\ rel[m] \in Relation => rel'[m].prv = rel[m].prv /\ rel'[m].pub = rel[m].pub
             /\ rel[m] \notin Relation => rel'[m] = rel[m]
  <2>1. CASE m = r
    BY <1>1, <1>2, <2>1 DEF SnatTypeOK, Relation
  <2>2. CASE m # r
    BY <1>1, <2>2 DEF SnatTypeOK
  <2> QED
    BY <2>1, <2>2
<1>5. SnatTypeOK'
  BY <1>1, <1>3 DEF SnatTypeOK
<1>6. (Places /\ TriesLeft /\ OldInHand)'
  BY DEF SnatInv, Places, TriesLeft, OldInHand
<1>7. NewInHand'
  BY <1>4, RelationsOK DEF SnatInv, NewInHand
<1>8. NoDangling'
  BY <1>1, <1>4, Hanging DEF NoDangling
<1>9. OwnPorts'
  BY <1>4 DEF SnatInv, OwnPorts
<1>10. AgreeUnlessRaced'
  BY <1>1, <1>4, Hanging DEF SnatInv, AgreeUnlessRaced
<1> QED
  BY <1>5, <1>6, <1>7, <1>8, <1>9, <1>10 DEF SnatInv

LEMMA FadesStep ==
  ASSUME SnatInv, NEW r \in Rel, Fades(r)
  PROVE  SnatInv'
<1>1. rel[r] \in Relation
  BY DEF SnatInv, SnatTypeOK, Fades
<1>2. PICK a \in Age : rel' = [rel EXCEPT ![r].age = a]
  BY DEF Fades, Age
<1> QED
  BY <1>1, <1>2, AgeStep DEF Fades

(* A thread that moves on and leaves the relations alone.                  *)
LEMMA ThreadMoves ==
  ASSUME SnatInv, NEW t \in Thread, UNCHANGED <<prvHash, pubHash, rel, raced>>,
         pc \in [Thread -> PC], pc'[t] \notin {"preempt", "insert", "collect"},
         \A u \in Thread : u # t => pc'[u] = pc[u] /\ job'[u] = job[u]
  PROVE  (NewInHand /\ OldInHand /\ NoDangling /\ AgreeUnlessRaced)'
<1>1. NewInHand'
  BY DEF SnatInv, NewInHand
<1>2. OldInHand'
  BY DEF SnatInv, OldInHand, Locking
<1>3. (NoDangling /\ AgreeUnlessRaced)'
  BY DEF SnatInv, NoDangling, AgreeUnlessRaced
<1> QED
  BY <1>1, <1>2, <1>3

LEMMA LookupStep ==
  ASSUME SnatInv, NEW t \in Relay, NEW f \in Flow, Lookup(t, f)
  PROVE  SnatInv'
<1>1. SnatTypeOK /\ NoDangling /\ t \in Thread
  BY Typed DEF SnatInv
<1>2. CASE prvHash[f] # NoRel /\ rel' = [rel EXCEPT ![prvHash[f]].age = "active"] /\ UNCHANGED <<pc, job>>
  BY <1>1, <1>2, Hanging, AgeStep DEF Lookup, Age
<1>3. CASE /\ job' = [job EXCEPT ![t].flow = f, ![t].rel = NoRel, ![t].tries = 0]
           /\ Goto(t, "assign") /\ UNCHANGED rel
  <2>1. /\ pc' = [pc EXCEPT ![t] = "assign"] /\ pc \in [Thread -> PC]
        /\ job' = [job EXCEPT ![t] = [job[t] EXCEPT !.flow = f, !.rel = NoRel, !.tries = 0]]
    BY <1>1, <1>3 DEF Goto, SnatTypeOK
  <2>2. [job[t] EXCEPT !.flow = f, !.rel = NoRel, !.tries = 0] \in Job
    <3>1. job[t] \in Job
      BY <1>1 DEF SnatTypeOK
    <3>2. 0 \in 0 .. MaxRetry
      BY RelationsOK
    <3> QED
      BY <3>1, <3>2 DEF Job
  <2>3. job' \in [Thread -> Job] /\ job'[t].tries = 0
    BY <1>1, <2>1, <2>2 DEF SnatTypeOK, Job
  <2>4. \A u \in Thread : u # t => pc'[u] = pc[u] /\ job'[u] = job[u]
    BY <1>1, <2>1 DEF SnatTypeOK
  <2>5. SnatTypeOK'
    BY <1>1, <1>3, <2>1, <2>3 DEF Lookup, SnatTypeOK, PC
  <2>6. (NewInHand /\ OldInHand /\ NoDangling /\ AgreeUnlessRaced)'
    BY <1>1, <1>3, <2>1, <2>4, ThreadMoves DEF Lookup
  <2>7. (Places /\ TriesLeft)'
    BY <1>1, <2>1, <2>3, <2>4, RelationsOK DEF SnatInv, Places, TriesLeft, Thread
  <2>8. OwnPorts'
    BY <1>1, <1>3, <2>1, <2>4 DEF SnatInv, OwnPorts, Own, Lookup, Thread
  <2> QED
    BY <2>5, <2>6, <2>7, <2>8 DEF SnatInv
<1> QED
  BY <1>2, <1>3 DEF Lookup

LEMMA AssignStep ==
  ASSUME SnatInv, NEW t \in Relay, Assign(t)
  PROVE  SnatInv'
<1> DEFINE n == UserOf[job[t].flow]
<1>1. /\ SnatTypeOK /\ t \in Thread /\ n \in User /\ job[t] \in Job
      /\ pc \in [Thread -> PC] /\ pc[t] = "assign"
  BY Typed DEF SnatInv, SnatTypeOK, Assign
<1>2. CASE Goto(t, "idle") /\ UNCHANGED <<endpoint, job>>
  <2>1. pc' = [pc EXCEPT ![t] = "idle"]
    BY <1>2 DEF Goto
  <2>2. SnatTypeOK'
    BY <1>1, <1>2, <2>1 DEF Assign, SnatTypeOK, PC
  <2>3. (Places /\ TriesLeft)'
    BY <1>1, <1>2, <2>1, RelationsOK DEF SnatInv, Places, TriesLeft, Thread
  <2>4. (NewInHand /\ OldInHand /\ NoDangling /\ AgreeUnlessRaced)'
    BY <1>1, <1>2, <2>1, ThreadMoves DEF Assign
  <2>5. OwnPorts'
    BY <1>1, <1>2, <2>1 DEF SnatInv, OwnPorts, Own, Assign, Thread
  <2> QED
    BY <2>2, <2>3, <2>4, <2>5 DEF SnatInv
<1>3. CASE /\ endpoint[n] # NoEndpoint
           /\ job' = [job EXCEPT ![t].pub = [ip |-> PubIp(n), port |-> endpoint[n]]]
           /\ endpoint' = [endpoint EXCEPT ![n] = NextPort(n, @)]
           /\ Goto(t, "claim")
  <2> DEFINE k == [ip |-> PubIp(n), port |-> endpoint[n]]
  <2>1. endpoint[n] \in Ports(n)
    BY <1>1, <1>3 DEF SnatInv, OwnPorts
  <2>2. NextPort(n, endpoint[n]) \in Ports(n) /\ k \in Public
    BY <1>1, <2>1, NextPortInRange, PortsExist
  <2>3. NextPort(n, endpoint[n]) \in Nat
    BY <1>1, <2>2, PortIdIsPlace
  <2>4. /\ endpoint' \in [User -> Nat \cup {NoEndpoint}]
        /\ \A m \in User : endpoint'[m] # NoEndpoint => endpoint'[m] \in Ports(m)
    BY <1>1, <1>3, <2>2, <2>3 DEF SnatInv, SnatTypeOK, OwnPorts
  <2>5. pc' = [pc EXCEPT ![t] = "claim"]
    BY <1>3 DEF Goto
  <2>6. [job[t] EXCEPT !.pub = k] \in Job
    BY <1>1, <2>2 DEF Job
  <2>7. job' = [job EXCEPT ![t] = [job[t] EXCEPT !.pub = k]]
    BY <1>1, <1>3 DEF SnatTypeOK
  <2>8. /\ job'[t].pub = k /\ job'[t].flow = job[t].flow /\ job'[t].tries = job[t].tries
        /\ \A u \in Thread : u # t => pc'[u] = pc[u] /\ job'[u] = job[u]
    BY <1>1, <2>5, <2>7 DEF SnatTypeOK, Job
  <2>9. SnatTypeOK'
    BY <1>1, <2>4, <2>5, <2>6, <2>7 DEF Assign, SnatTypeOK, PC
  <2>10. (Places /\ TriesLeft)'
    BY <1>1, <2>5, <2>8, RelationsOK DEF SnatInv, Places, TriesLeft, Thread
  <2>11. (NewInHand /\ OldInHand /\ NoDangling /\ AgreeUnlessRaced)'
    BY <1>1, <2>5, <2>8, ThreadMoves DEF Assign
  <2>12. Own(job'[t].flow, job'[t].pub)
    BY <2>1, <2>8 DEF Own
  <2>13. OwnPorts'
    BY <1>1, <2>4, <2>5, <2>8, <2>12 DEF SnatInv, OwnPorts, Own, Assign, Thread
  <2> QED
    BY <2>9, <2>10, <2>11, <2>13 DEF SnatInv
<1> QED
  BY <1>2, <1>3 DEF Assign

LEMMA ClaimBusyStep ==
  ASSUME SnatInv, NEW t \in Relay, ClaimBusy(t)
  PROVE  SnatInv'
<1>1. /\ SnatTypeOK /\ t \in Thread /\ job[t] \in Job
      /\ pc \in [Thread -> PC] /\ pc[t] = "claim"
  BY Typed DEF SnatInv, SnatTypeOK, ClaimBusy
<1>2. job[t].tries \in Nat /\ job[t].tries < MaxRetry /\ MaxRetry \in Nat
  BY <1>1, RelationsOK DEF SnatInv, TriesLeft, Job
<1>3. PICK label \in {"idle", "assign"} :
        /\ pc' = [pc EXCEPT ![t] = label]
        /\ label = "assign" => job[t].tries + 1 # MaxRetry
  BY DEF ClaimBusy, Goto
<1>4. job' = [job EXCEPT ![t] = [job[t] EXCEPT !.tries = job[t].tries + 1]]
  BY <1>1 DEF ClaimBusy, SnatTypeOK
<1>5. job[t].tries + 1 \in 0 .. MaxRetry
  BY <1>2
<1>6. [job[t] EXCEPT !.tries = job[t].tries + 1] \in Job
  BY <1>1, <1>5 DEF Job
<1>7. /\ job'[t].flow = job[t].flow /\ job'[t].tries = job[t].tries + 1
      /\ \A u \in Thread : u # t => pc'[u] = pc[u] /\ job'[u] = job[u]
  BY <1>1, <1>3, <1>4 DEF SnatTypeOK, Job
<1>8. SnatTypeOK'
  BY <1>1, <1>3, <1>4, <1>6 DEF ClaimBusy, SnatTypeOK, PC
<1>9. (Places /\ TriesLeft)'
  BY <1>1, <1>2, <1>3, <1>7, RelationsOK DEF SnatInv, Places, TriesLeft, Thread
<1>10. (NewInHand /\ OldInHand /\ NoDangling /\ AgreeUnlessRaced)'
  BY <1>1, <1>3, <1>7, ThreadMoves DEF ClaimBusy
<1>11. OwnPorts'
  BY <1>1, <1>3, <1>7 DEF SnatInv, OwnPorts, Own, ClaimBusy, Thread
<1> QED
  BY <1>8, <1>9, <1>10, <1>11 DEF SnatInv

(* A thread that finds an old relation in a bucket, and keeps the lock.    *)
LEMMA Taken ==
  ASSUME SnatInv, NEW t \in Thread, NEW k \in Public, ~PubLocked(k), pubHash[k] # NoRel,
         UNCHANGED <<prvHash, pubHash, rel, raced>>,
         pc'[t] \in Locking, job'[t].pub = k, job'[t].rel = pubHash[k],
         \A u \in Thread : u # t => pc'[u] = pc[u] /\ job'[u] = job[u]
  PROVE  (NewInHand /\ OldInHand /\ NoDangling /\ AgreeUnlessRaced)'
<1>1. pubHash[k] \in Rel
  BY Hanging DEF SnatInv
<1>2. \A u \in Thread : pc[u] \in Locking => job[u].pub # k
  BY DEF PubLocked, Locking
<1>3. NewInHand'
  BY DEF SnatInv, NewInHand, Locking
<1>4. OldInHand'
  <2>1. ASSUME NEW u \in Thread, pc'[u] \in Locking
        PROVE  job'[u].rel \in Rel /\ pubHash'[job'[u].pub] = job'[u].rel
    <3>1. CASE u = t
      BY <1>1, <3>1
    <3>2. CASE u # t
      BY <2>1, <3>2 DEF SnatInv, OldInHand
    <3> QED
      BY <3>1, <3>2
  <2>2. ASSUME NEW u \in Thread, NEW v \in Thread, pc'[u] \in Locking, pc'[v] \in Locking, u # v
        PROVE  job'[u].pub # job'[v].pub
    <3>1. CASE u = t
      BY <1>2, <2>2, <3>1
    <3>2. CASE v = t
      BY <1>2, <2>2, <3>2
    <3>3. CASE u # t /\ v # t
      BY <2>2, <3>3 DEF SnatInv, OldInHand
    <3> QED
      BY <3>1, <3>2, <3>3
  <2> QED
    BY <2>1, <2>2 DEF OldInHand
<1>5. (NoDangling /\ AgreeUnlessRaced)'
  BY DEF SnatInv, NoDangling, AgreeUnlessRaced
<1> QED
  BY <1>3, <1>4, <1>5

LEMMA ClaimIdleStep ==
  ASSUME SnatInv, NEW t \in Relay, ClaimIdle(t)
  PROVE  SnatInv'
<1> DEFINE k == job[t].pub
<1>1. /\ SnatTypeOK /\ NoDangling /\ t \in Thread /\ job[t] \in Job /\ k \in Public
      /\ pc \in [Thread -> PC] /\ pc[t] = "claim"
  BY Typed DEF SnatInv, SnatTypeOK, ClaimIdle
<1>2. pubHash[k] \in Rel
  BY <1>1, Hanging DEF ClaimIdle
<1>3. pc' = [pc EXCEPT ![t] = "preempt"]
  BY DEF ClaimIdle, Goto
<1>4. job' = [job EXCEPT ![t] = [job[t] EXCEPT !.rel = pubHash[k]]]
  BY <1>1 DEF ClaimIdle, SnatTypeOK
<1>5. [job[t] EXCEPT !.rel = pubHash[k]] \in Job
  BY <1>1, <1>2 DEF Job
<1>6. /\ job'[t].flow = job[t].flow /\ job'[t].pub = k /\ job'[t].rel = pubHash[k]
      /\ \A u \in Thread : u # t => pc'[u] = pc[u] /\ job'[u] = job[u]
  BY <1>1, <1>3, <1>4 DEF SnatTypeOK, Job
<1>7. SnatTypeOK'
  BY <1>1, <1>3, <1>4, <1>5 DEF ClaimIdle, SnatTypeOK, PC
<1>8. (Places /\ TriesLeft)'
  BY <1>1, <1>3, <1>6, RelationsOK DEF SnatInv, Places, TriesLeft, Thread
<1>9. (NewInHand /\ OldInHand /\ NoDangling /\ AgreeUnlessRaced)'
  BY <1>1, <1>3, <1>6, Taken DEF ClaimIdle, Locking
<1>10. OwnPorts'
  BY <1>1, <1>3, <1>6 DEF SnatInv, OwnPorts, Own, ClaimIdle, Thread
<1> QED
  BY <1>7, <1>8, <1>9, <1>10 DEF SnatInv

LEMMA VisitStep ==
  ASSUME SnatInv, NEW k \in Public, Visit(k)
  PROVE  SnatInv'
<1> DEFINE c == Collector
<1>1. /\ SnatTypeOK /\ NoDangling /\ c \in Thread /\ job[c] \in Job /\ c \notin Relay
      /\ pc \in [Thread -> PC] /\ pc[c] = "idle"
  BY Typed, RelationsOK DEF SnatInv, SnatTypeOK, Visit
<1>2. pubHash[k] \in Rel
  BY <1>1, Hanging DEF Visit
<1>3. pc' = [pc EXCEPT ![c] = "collect"]
  BY DEF Visit, Goto
<1>4. job' = [job EXCEPT ![c] = [job[c] EXCEPT !.pub = k, !.rel = pubHash[k]]]
  BY <1>1 DEF Visit, SnatTypeOK
<1>5. [job[c] EXCEPT !.pub = k, !.rel = pubHash[k]] \in Job
  BY <1>1, <1>2 DEF Job
<1>6. /\ job'[c].pub = k /\ job'[c].rel = pubHash[k]
      /\ \A u \in Thread : u # c => pc'[u] = pc[u] /\ job'[u] = job[u]
  BY <1>1, <1>3, <1>4 DEF SnatTypeOK, Job
<1>7. SnatTypeOK'
  BY <1>1, <1>3, <1>4, <1>5 DEF Visit, SnatTypeOK, PC
<1>8. (Places /\ TriesLeft)'
  BY <1>1, <1>3, <1>6 DEF SnatInv, Places, TriesLeft, Thread
<1>9. (NewInHand /\ OldInHand /\ NoDangling /\ AgreeUnlessRaced)'
  BY <1>1, <1>3, <1>6, Taken DEF Visit, Locking
<1>10. OwnPorts'
  BY <1>1, <1>3, <1>6 DEF SnatInv, OwnPorts, Own, Visit, Thread
<1> QED
  BY <1>7, <1>8, <1>9, <1>10 DEF SnatInv

LEMMA ClaimFreeStep ==
  ASSUME SnatInv, NEW t \in Relay, ClaimFree(t)
  PROVE  SnatInv'
<1>1. /\ SnatTypeOK /\ NoDangling /\ t \in Thread /\ job[t] \in Job
      /\ pc \in [Thread -> PC] /\ pc[t] = "claim"
  BY Typed DEF SnatInv, SnatTypeOK, ClaimFree
<1>2. CASE Goto(t, "idle") /\ UNCHANGED <<rel, job>>
  <2>1. pc' = [pc EXCEPT ![t] = "idle"]
    BY <1>2 DEF Goto
  <2>2. SnatTypeOK'
    BY <1>1, <1>2, <2>1 DEF ClaimFree, SnatTypeOK, PC
  <2>3. (Places /\ TriesLeft)'
    BY <1>1, <1>2, <2>1, RelationsOK DEF SnatInv, Places, TriesLeft, Thread
  <2>4. (NewInHand /\ OldInHand /\ NoDangling /\ AgreeUnlessRaced)'
    BY <1>1, <1>2, <2>1, ThreadMoves DEF ClaimFree
  <2>5. OwnPorts'
    BY <1>1, <1>2, <2>1 DEF SnatInv, OwnPorts, Own, ClaimFree, Thread
  <2> QED
    BY <2>2, <2>3, <2>4, <2>5 DEF SnatInv
<1>3. ASSUME NEW r \in Rel, rel[r] = Freed, rel' = [rel EXCEPT ![r] = Blank],
             job' = [job EXCEPT ![t].rel = r], Goto(t, "insert")
      PROVE  SnatInv'
  <2>1. /\ pc' = [pc EXCEPT ![t] = "insert"]
        /\ job' = [job EXCEPT ![t] = [job[t] EXCEPT !.rel = r]]
    BY <1>1, <1>3 DEF Goto, SnatTypeOK
  <2>2. [job[t] EXCEPT !.rel = r] \in Job
    BY <1>1 DEF Job
  <2>3. /\ job'[t].flow = job[t].flow /\ job'[t].pub = job[t].pub /\ job'[t].rel = r
        /\ \A u \in Thread : u # t => pc'[u] = pc[u] /\ job'[u] = job[u]
    BY <1>1, <2>1 DEF SnatTypeOK, Job
  <2>4. SnatTypeOK'
    BY <1>1, <1>3, <2>1, <2>2 DEF ClaimFree, SnatTypeOK, PC
  <2>5. (Places /\ TriesLeft)'
    BY <1>1, <2>1, <2>3, RelationsOK DEF SnatInv, Places, TriesLeft, Thread
  <2>6. rel'[r] = Blank /\ \A m \in Rel : m # r => rel'[m] = rel[m]
    BY <1>1, <1>3 DEF SnatTypeOK
  <2>7. \A u \in Thread : pc[u] = "insert" => job[u].rel # r
    BY <1>3, RelationsOK DEF SnatInv, NewInHand
  <2>8. NewInHand'
    BY <1>1, <2>1, <2>3, <2>6, <2>7 DEF SnatInv, NewInHand
  <2>9. OldInHand'
    BY <1>1, <1>3, <2>1, <2>3 DEF SnatInv, OldInHand, Locking, ClaimFree
  <2>10. /\ \A f \in Flow : prvHash[f] # NoRel => prvHash[f] # r
         /\ \A k \in Public : pubHash[k] # NoRel => pubHash[k] # r
    BY <1>1, <1>3, Hanging, RelationsOK
  <2>11. NoDangling'
    BY <1>1, <2>6, <2>10, Hanging DEF NoDangling, ClaimFree
  <2>12. AgreeUnlessRaced'
    BY <1>1, <2>6, <2>10, Hanging DEF SnatInv, AgreeUnlessRaced, ClaimFree
  <2>13. OwnPorts'
    BY <1>1, <2>1, <2>3, <2>6, RelationsOK DEF SnatInv, OwnPorts, Own, ClaimFree, Thread
  <2> QED
    BY <2>4, <2>5, <2>8, <2>9, <2>11, <2>12, <2>13 DEF SnatInv
<1> QED
  BY <1>2, <1>3 DEF ClaimFree

(* The relation in hand leaves both hashes, and only that one does.        *)
LEMMA Unlinked ==
  ASSUME SnatInv, NEW t \in Thread, pc[t] \in Locking, Unlink(t), NEW x \in {Freed, Blank},
         rel' = [rel EXCEPT ![job[t].rel] = x], UNCHANGED raced
  PROVE  /\ job[t].rel \in Rel /\ rel[job[t].rel] \in Relation
         /\ rel' \in [Rel -> Relation \cup {Freed, Blank}]
         /\ prvHash' \in [Flow -> Rel \cup {NoRel}] /\ pubHash' \in [Public -> Rel \cup {NoRel}]
         /\ \A k \in Public : k # job[t].pub => pubHash'[k] = pubHash[k]
         /\ NoDangling' /\ AgreeUnlessRaced'
<1> DEFINE r == job[t].rel
           p == rel[r].prv
           k == rel[r].pub
<1>1. SnatTypeOK /\ NoDangling /\ job[t].pub \in Public
  BY Typed DEF SnatInv
<1>2. r \in Rel /\ pubHash[job[t].pub] = r /\ r # NoRel
  BY RelationsOK DEF SnatInv, OldInHand
<1>3. rel[r] \in Relation /\ k = job[t].pub /\ p \in Flow /\ k \in Public
  BY <1>1, <1>2, Hanging
<1>4. /\ rel'[r] = x /\ \A m \in Rel : m # r => rel'[m] = rel[m]
      /\ rel' \in [Rel -> Relation \cup {Freed, Blank}]
  BY <1>1, <1>2 DEF SnatTypeOK
<1>5. /\ prvHash' \in [Flow -> Rel \cup {NoRel}] /\ pubHash' \in [Public -> Rel \cup {NoRel}]
      /\ prvHash'[p] = NoRel /\ \A f \in Flow : f # p => prvHash'[f] = prvHash[f]
      /\ pubHash'[k] = NoRel /\ \A l \in Public : l # k => pubHash'[l] = pubHash[l]
  BY <1>1, <1>3 DEF Unlink, SnatTypeOK
<1>6. /\ \A f \in Flow : f # p /\ prvHash[f] # NoRel => prvHash[f] \in Rel \ {r}
      /\ \A l \in Public : l # k /\ pubHash[l] # NoRel => pubHash[l] \in Rel \ {r}
  BY <1>1, <1>3, Hanging
<1> HIDE DEF r, p, k
<1>7. NoDangling'
  BY <1>1, <1>4, <1>5, <1>6 DEF NoDangling
<1>8. AgreeUnlessRaced'
  <2>1. ASSUME NEW f \in Flow \ raced, prvHash'[f] # NoRel
        PROVE  pubHash'[rel'[prvHash'[f]].pub] = prvHash'[f]
    <3>1. f # p /\ prvHash'[f] = prvHash[f] /\ prvHash[f] \in Rel \ {r}
      BY <2>1, <1>5, <1>6
    <3>2. rel'[prvHash[f]] = rel[prvHash[f]] /\ rel[prvHash[f]].pub \in Public
          /\ pubHash[rel[prvHash[f]].pub] = prvHash[f]
      BY <2>1, <3>1, <1>1, <1>4, <1>5, Hanging DEF SnatInv, AgreeUnlessRaced
    <3>3. rel[prvHash[f]].pub # k
      BY <3>1, <3>2, <1>2, <1>3
    <3> QED
      BY <3>1, <3>2, <3>3, <1>5
  <2>2. ASSUME NEW l \in Public, pubHash'[l] # NoRel, rel'[pubHash'[l]].prv \notin raced
        PROVE  prvHash'[rel'[pubHash'[l]].prv] = pubHash'[l]
    <3>1. l # k /\ pubHash'[l] = pubHash[l] /\ pubHash[l] \in Rel \ {r}
      BY <2>2, <1>5, <1>6
    <3>2. rel'[pubHash[l]] = rel[pubHash[l]] /\ rel[pubHash[l]].prv \in Flow
          /\ prvHash[rel[pubHash[l]].prv] = pubHash[l]
      BY <2>2, <3>1, <1>1, <1>4, <1>5, Hanging DEF SnatInv, AgreeUnlessRaced
    <3>3. rel[pubHash[l]].prv # p
      <4>1. SUFFICES ASSUME rel[pubHash[l]].prv = p PROVE FALSE
        OBVIOUS
      <4>2. p \notin raced /\ pubHash[k] = r
        BY <2>2, <3>1, <3>2, <4>1, <1>2, <1>3
      <4>3. prvHash[p] = r
        BY <4>2, <1>2, <1>3 DEF SnatInv, AgreeUnlessRaced, p
      <4> QED
        BY <3>1, <3>2, <4>1, <4>3
    <3> QED
      BY <3>1, <3>2, <3>3, <1>5
  <2> QED
    BY <2>1, <2>2 DEF AgreeUnlessRaced
<1> QED
  BY <1>2, <1>3, <1>4, <1>5, <1>7, <1>8 DEF r

(* Threads that hold a bucket hold different ones, and so their relations  *)
(* differ from each other and from new ones.                               *)
LEMMA OthersInHand ==
  ASSUME SnatInv, NEW t \in Thread, pc[t] \in Locking, NEW u \in Thread, u # t
  PROVE  pc[u] \in Locking \cup {"insert"} => job[u].rel # job[t].rel
<1>1. SnatTypeOK /\ NoDangling /\ job[t].pub \in Public /\ job[u].pub \in Public
  BY Typed DEF SnatInv
<1>2. job[t].rel \in Rel /\ rel[job[t].rel] \in Relation /\ pubHash[job[t].pub] = job[t].rel
  BY <1>1, Hanging, RelationsOK DEF SnatInv, OldInHand
<1>3. CASE pc[u] = "insert"
  BY <1>2, <1>3, RelationsOK DEF SnatInv, NewInHand
<1>4. CASE pc[u] \in Locking
  <2>1. pubHash[job[u].pub] = job[u].rel /\ job[u].pub # job[t].pub
    BY <1>4 DEF SnatInv, OldInHand
  <2> QED
    BY <1>1, <1>2, <2>1, Hanging, RelationsOK
<1> QED
  BY <1>3, <1>4

LEMMA PreemptStep ==
  ASSUME SnatInv, NEW t \in Relay, Preempt(t)
  PROVE  SnatInv'
<1> DEFINE r == job[t].rel
<1>1. SnatTypeOK /\ t \in Thread /\ pc[t] = "preempt" /\ pc[t] \in Locking /\ pc \in [Thread -> PC]
  BY Typed DEF SnatInv, SnatTypeOK, Preempt, Locking
<1>2. /\ r \in Rel /\ rel[r] \in Relation
      /\ rel' \in [Rel -> Relation \cup {Freed, Blank}]
      /\ prvHash' \in [Flow -> Rel \cup {NoRel}] /\ pubHash' \in [Public -> Rel \cup {NoRel}]
      /\ \A k \in Public : k # job[t].pub => pubHash'[k] = pubHash[k]
      /\ NoDangling' /\ AgreeUnlessRaced'
  BY <1>1, Unlinked DEF Preempt
<1>3. rel'[r] = Blank /\ \A m \in Rel : m # r => rel'[m] = rel[m]
  BY <1>1, <1>2 DEF Preempt, SnatTypeOK
<1>4. /\ pc' = [pc EXCEPT ![t] = "insert"] /\ UNCHANGED <<endpoint, job, raced>>
      /\ \A u \in Thread : u # t => pc'[u] = pc[u]
  BY <1>1 DEF Preempt, Goto, SnatTypeOK
<1>5. SnatTypeOK'
  BY <1>1, <1>2, <1>4 DEF SnatTypeOK, PC
<1>6. (Places /\ TriesLeft)'
  BY <1>1, <1>4, RelationsOK DEF SnatInv, Places, TriesLeft, Thread
<1>7. \A u \in Thread : u # t /\ pc[u] \in Locking \cup {"insert"} => job[u].rel # r
  BY <1>1, OthersInHand
<1>8. NewInHand'
  BY <1>1, <1>2, <1>3, <1>4, <1>7 DEF SnatInv, NewInHand
<1>9. OldInHand'
  <2>1. \A u \in Thread : pc'[u] \in Locking => u # t /\ pc[u] \in Locking
    BY <1>1, <1>4 DEF Locking
  <2>2. \A u \in Thread : pc'[u] \in Locking => job[u].pub # job[t].pub /\ job[u].pub \in Public
    BY <1>1, <2>1, Typed DEF SnatInv, OldInHand
  <2> QED
    BY <1>2, <1>4, <2>1, <2>2 DEF SnatInv, OldInHand
<1>10. OwnPorts'
  BY <1>1, <1>3, <1>4, RelationsOK DEF SnatInv, OwnPorts, Own, Thread
<1> QED
  BY <1>2, <1>5, <1>6, <1>8, <1>9, <1>10 DEF SnatInv

LEMMA CollectStep ==
  ASSUME SnatInv, Collect
  PROVE  SnatInv'
<1> DEFINE c == Collector
           r == job[c].rel
<1>1. /\ SnatTypeOK /\ c \in Thread /\ c \notin Relay
      /\ pc[c] = "collect" /\ pc[c] \in Locking /\ pc \in [Thread -> PC]
  BY Typed, RelationsOK DEF SnatInv, SnatTypeOK, Collect, Locking
<1>2. /\ r \in Rel /\ rel[r] \in Relation
      /\ rel' \in [Rel -> Relation \cup {Freed, Blank}]
      /\ prvHash' \in [Flow -> Rel \cup {NoRel}] /\ pubHash' \in [Public -> Rel \cup {NoRel}]
      /\ \A k \in Public : k # job[c].pub => pubHash'[k] = pubHash[k]
      /\ NoDangling' /\ AgreeUnlessRaced'
  BY <1>1, Unlinked DEF Collect
<1>3. rel'[r] = Freed /\ \A m \in Rel : m # r => rel'[m] = rel[m]
  BY <1>1, <1>2 DEF Collect, SnatTypeOK
<1>4. /\ pc' = [pc EXCEPT ![c] = "idle"] /\ UNCHANGED <<endpoint, job, raced>>
      /\ \A u \in Thread : u # c => pc'[u] = pc[u]
  BY <1>1 DEF Collect, Goto, SnatTypeOK
<1>5. SnatTypeOK'
  BY <1>1, <1>2, <1>4 DEF SnatTypeOK, PC
<1>6. (Places /\ TriesLeft)'
  BY <1>1, <1>4 DEF SnatInv, Places, TriesLeft, Thread
<1>7. \A u \in Thread : u # c /\ pc[u] \in Locking \cup {"insert"} => job[u].rel # r
  BY <1>1, OthersInHand
<1>8. NewInHand'
  BY <1>1, <1>3, <1>4, <1>7 DEF SnatInv, NewInHand
<1>9. OldInHand'
  <2>1. \A u \in Thread : pc'[u] \in Locking => u # c /\ pc[u] \in Locking
    BY <1>1, <1>4 DEF Locking
  <2>2. \A u \in Thread : pc'[u] \in Locking => job[u].pub # job[c].pub /\ job[u].pub \in Public
    BY <1>1, <2>1, Typed DEF SnatInv, OldInHand
  <2> QED
    BY <1>2, <1>4, <2>1, <2>2 DEF SnatInv, OldInHand
<1>10. OwnPorts'
  BY <1>1, <1>3, <1>4, RelationsOK DEF SnatInv, OwnPorts, Own, Thread
<1> QED
  BY <1>2, <1>5, <1>6, <1>8, <1>9, <1>10 DEF SnatInv

LEMMA InsertStep ==
  ASSUME SnatInv, NEW t \in Relay, Insert(t)
  PROVE  SnatInv'
<1> DEFINE f == job[t].flow
           k == job[t].pub
           r == job[t].rel
           new == [prv |-> f, pub |-> k, age |-> "active"]
<1>1. /\ SnatTypeOK /\ NoDangling /\ t \in Thread /\ f \in Flow /\ k \in Public
      /\ pc[t] = "insert" /\ pc \in [Thread -> PC]
  BY Typed DEF SnatInv, SnatTypeOK, Insert
<1>2. r \in Rel /\ rel[r] = Blank /\ new \in Relation
  BY <1>1 DEF SnatInv, NewInHand, Relation, Age
<1>3. /\ rel'[r] = new /\ \A m \in Rel : m # r => rel'[m] = rel[m]
      /\ rel' \in [Rel -> Relation \cup {Freed, Blank}]
  BY <1>1, <1>2 DEF Insert, SnatTypeOK
<1>4. /\ prvHash'[f] = r /\ \A g \in Flow : g # f => prvHash'[g] = prvHash[g]
      /\ pubHash'[k] = r /\ \A l \in Public : l # k => pubHash'[l] = pubHash[l]
      /\ prvHash' \in [Flow -> Rel \cup {NoRel}] /\ pubHash' \in [Public -> Rel \cup {NoRel}]
  BY <1>1, <1>2 DEF Insert, SnatTypeOK
<1>5. /\ pc' = [pc EXCEPT ![t] = "idle"] /\ UNCHANGED <<endpoint, job>>
      /\ \A u \in Thread : u # t => pc'[u] = pc[u]
  BY <1>1 DEF Insert, Goto, SnatTypeOK
<1>6. /\ \A g \in Flow : prvHash[g] # NoRel => prvHash[g] \in Rel \ {r}
      /\ \A l \in Public : pubHash[l] # NoRel => pubHash[l] \in Rel \ {r}
  BY <1>1, <1>2, Hanging, RelationsOK
<1>7. /\ raced \subseteq raced' /\ raced' \subseteq Flow
      /\ prvHash[f] # NoRel => f \in raced'
      /\ pubHash[k] # NoRel => rel[pubHash[k]].prv \in raced'
  BY <1>1, Hanging DEF Insert, SnatTypeOK
<1>8. SnatTypeOK'
  BY <1>1, <1>3, <1>4, <1>5, <1>7 DEF SnatTypeOK, PC
<1>9. (Places /\ TriesLeft)'
  BY <1>1, <1>5, RelationsOK DEF SnatInv, Places, TriesLeft, Thread
<1>10. NewInHand'
  BY <1>1, <1>3, <1>5 DEF SnatInv, NewInHand
<1>11. OldInHand'
  <2>1. \A u \in Thread : pc'[u] \in Locking =>
          pc[u] \in Locking /\ job[u].pub # k /\ job[u].pub \in Public
    BY <1>1, <1>5, Typed DEF Insert, PubLocked, Locking
  <2> QED
    BY <1>4, <1>5, <2>1 DEF SnatInv, OldInHand
<1>12. OwnPorts'
  <2>1. Own(f, k)
    BY <1>1 DEF SnatInv, OwnPorts
  <2>2. \A m \in Rel : rel'[m] \in Relation => Own(rel'[m].prv, rel'[m].pub)
    BY <1>2, <1>3, <2>1 DEF SnatInv, OwnPorts
  <2> QED
    BY <1>1, <1>5, <2>2 DEF SnatInv, OwnPorts, Thread
<1> HIDE DEF f, k, r
<1>13. NoDangling'
  <2>1. new.prv = f /\ new.pub = k
    OBVIOUS
  <2> QED
    BY <1>1, <1>2, <1>3, <1>4, <1>6, <2>1 DEF NoDangling
<1>14. AgreeUnlessRaced'
  <2>1. ASSUME NEW g \in Flow \ raced', prvHash'[g] # NoRel
        PROVE  pubHash'[rel'[prvHash'[g]].pub] = prvHash'[g]
    <3>1. CASE g = f
      BY <3>1, <1>3, <1>4
    <3>2. CASE g # f
      <4>1. prvHash'[g] = prvHash[g] /\ prvHash[g] \in Rel \ {r}
        BY <2>1, <3>2, <1>4, <1>6
      <4>2. /\ rel'[prvHash[g]] = rel[prvHash[g]] /\ rel[prvHash[g]].pub \in Public
            /\ rel[prvHash[g]].prv = g /\ pubHash[rel[prvHash[g]].pub] = prvHash[g]
        BY <2>1, <4>1, <1>1, <1>3, <1>7, Hanging DEF SnatInv, AgreeUnlessRaced
      <4>3. rel[prvHash[g]].pub # k
        BY <2>1, <4>1, <4>2, <1>7
      <4> QED
        BY <4>1, <4>2, <4>3, <1>4
    <3> QED
      BY <3>1, <3>2
  <2>2. ASSUME NEW l \in Public, pubHash'[l] # NoRel, rel'[pubHash'[l]].prv \notin raced'
        PROVE  prvHash'[rel'[pubHash'[l]].prv] = pubHash'[l]
    <3>1. CASE l = k
      BY <3>1, <1>3, <1>4
    <3>2. CASE l # k
      <4>1. pubHash'[l] = pubHash[l] /\ pubHash[l] \in Rel \ {r}
        BY <2>2, <3>2, <1>4, <1>6
      <4>2. /\ rel'[pubHash[l]] = rel[pubHash[l]] /\ rel[pubHash[l]].prv \in Flow
            /\ prvHash[rel[pubHash[l]].prv] = pubHash[l]
        BY <2>2, <4>1, <1>1, <1>3, <1>7, Hanging DEF SnatInv, AgreeUnlessRaced
      <4>3. rel[pubHash[l]].prv # f
        BY <2>2, <4>1, <4>2, <1>7
      <4> QED
        BY <4>1, <4>2, <4>3, <1>4
    <3> QED
      BY <3>1, <3>2
  <2> QED
    BY <2>1, <2>2 DEF AgreeUnlessRaced
<1> QED
  BY <1>8, <1>9, <1>10, <1>11, <1>12, <1>13, <1>14 DEF SnatInv
-----------------------------------------------------------------------------
LEMMA InvNext == SnatInv /\ [SnatNext]_snat => SnatInv'
<1> SUFFICES ASSUME SnatInv, [SnatNext]_snat PROVE SnatInv'
  OBVIOUS
<1>1. CASE UNCHANGED snat
  BY <1>1 DEF snat, SnatInv, SnatTypeOK, Places, TriesLeft, NewInHand, OldInHand,
              NoDangling, OwnPorts, AgreeUnlessRaced
<1>2. ASSUME NEW f \in Flow, NewEndpoint(UserOf[f]) \/ DelEndpoint(UserOf[f])
      PROVE  SnatInv'
  <2>1. UserOf[f] \in User
    BY RelationsOK
  <2> QED
    BY <1>2, <2>1, EndpointStep
<1>3. ASSUME NEW t \in Relay, RelayStep(t)
      PROVE  SnatInv'
  BY <1>3, LookupStep, AssignStep, ClaimFreeStep, ClaimBusyStep, ClaimIdleStep,
     PreemptStep, InsertStep DEF RelayStep
<1>4. ASSUME NEW k \in Public, Visit(k)
      PROVE  SnatInv'
  BY <1>4, VisitStep
<1>5. CASE Collect
  BY <1>5, CollectStep
<1>6. ASSUME NEW r \in Rel, Fades(r)
      PROVE  SnatInv'
  BY <1>6, FadesStep
<1> QED
  BY <1>1, <1>2, <1>3, <1>4, <1>5, <1>6 DEF SnatNext

LEMMA InvAlways == SnatSpec => []SnatInv
  BY InvInit, InvNext, PTL DEF SnatSpec

(* The types of the relations hold for any number of everything.           *)
THEOREM SnatTypeCorrect == SnatSpec => []SnatTypeOK
<1>1. SnatInv => SnatTypeOK
  BY DEF SnatInv
<1> QED
  BY <1>1, InvAlways, PTL

(* However many relays and the collector work at once, what hangs in a     *)
(* hash is in use and under its own key (lh_delete by key in nat_src.c).   *)
THEOREM NothingDangles == SnatSpec => []NoDangling
<1>1. SnatInv => NoDangling
  BY DEF SnatInv
<1> QED
  BY <1>1, InvAlways, PTL

(* A public endpoint in use is found to be its user's, whatever the        *)
(* numbers of addresses and ports (sw_nat_src_endpoint_udp_getprv).        *)
THEOREM UsersStayApart == SnatSpec => []UsersApart
<1>1. ASSUME SnatInv PROVE UsersApart
  <2> SUFFICES ASSUME NEW k \in Public, pubHash[k] # NoRel
               PROVE  {n \in User : PubIp(n) = k.ip /\ Id(n) = PortId(k.port)}
                        = {UserOf[rel[pubHash[k]].prv]}
    BY DEF UsersApart
  <2> DEFINE f == rel[pubHash[k]].prv
  <2>1. /\ pubHash[k] \in Rel /\ rel[pubHash[k]] \in Relation
        /\ rel[pubHash[k]].pub = k /\ f \in Flow
    BY <1>1, Hanging DEF SnatInv
  <2>2. UserOf[f] \in User /\ k.ip = PubIp(UserOf[f]) /\ k.port \in Ports(UserOf[f])
    BY <1>1, <2>1, RelationsOK DEF SnatInv, OwnPorts, Own
  <2> QED
    BY <2>2, OwnerFound
<1>2. SnatInv => UsersApart
  BY <1>1
<1> QED
  BY <1>2, InvAlways, PTL

(* Takeover and collection never part the two hashes, in whatever order    *)
(* they meet; only two insertions for one key do (nat_src.c).              *)
THEOREM HashesAgree == SnatSpec => []AgreeUnlessRaced
<1>1. SnatInv => AgreeUnlessRaced
  BY DEF SnatInv
<1> QED
  BY <1>1, InvAlways, PTL
-----------------------------------------------------------------------------
(* SnatTables *)

(* The inductive invariant of TablesAgree and AllOrNone.  Between the two  *)
(* hashes of a protocol a thread has the lock of the first, and no other   *)
(* lock; what it has gone through is all made, or all gone; and no two     *)
(* threads work on the endpoints of one user.                              *)

HasUser(t) == work[t].user \in User

Jobs ==
  /\ \A s \in Owner : \/ work[s] = Idle
                      \/ work[s].doing \in {"new", "del"} /\ HasUser(s) /\ work[s].step # 0
  /\ \A r \in Taker : \/ work[r] = Idle
                      \/ work[r].doing = "assign" /\ HasUser(r)
  /\ \A s, t \in Owner : HasUser(s) /\ work[s].user = work[t].user => s = t

Between(s) == At(s, {"new", "del"}, "id")

Locks ==
  /\ \A c \in Chains :
       /\ lock[c] \in Owner =>
            Between(lock[c]) /\ c = ByPort(ProtoOf(lock[c]), work[lock[c]].user)
       /\ lock[c] \in Taker => work[lock[c]].doing = "assign"
  /\ \A s \in Owner : Between(s) =>
       /\ lock[ByPort(ProtoOf(s), work[s].user)] = s
       /\ port[ProtoOf(s)][work[s].user] # None <=> work[s].doing = "new"

Made(n, i) ==
  /\ Handlers[i].at = "ip" => n \in ip
  /\ Handlers[i].at = "port" => port[Handlers[i].proto][n] # None
  /\ Handlers[i].at = "icmp" => seq[n] # None

Gone(n, i) ==
  /\ Handlers[i].at = "ip" => n \notin ip
  /\ Handlers[i].at = "port" => port[Handlers[i].proto][n] = None
  /\ Handlers[i].at = "icmp" => seq[n] = None

Progress ==
  \A s \in Owner, n \in User, i \in DOMAIN Handlers : work[s].user = n =>
    /\ work[s].doing = "new" => n \in known /\ (i < work[s].step => Made(n, i))
    /\ work[s].doing = "del" => (i < work[s].step => Gone(n, i))

PortsOwn == \A p \in Ported, n \in User : port[p][n] # None => port[p][n] \in Ports(n)

(* What TablesAgree says of the hashes, and AllOrNone of users and answers.*)
Agree ==
  \A p \in Ported :
    /\ \A key \in IdKey : byId[p][key] # None => KeyOf(byId[p][key]) = key
    /\ \A n \in User :
         \/ port[p][n] # None <=> byId[p][KeyOf(n)] = n
         \/ \E s \in Owner : work[s].user = n /\ Between(s) /\ ProtoOf(s) = p

Settled ==
  \A n \in User : ~Busy(n) =>
    /\ n \in ip <=> n \in known
    /\ \A p \in Ported : port[p][n] # None <=> n \in known
    /\ seq[n] # None <=> n \in known

GivenOwn ==
  given # None /\ given.port >= FirstPort =>
    given.ip = PubIp(given.user) /\ given.port \in Ports(given.user)

TablesInv ==
  /\ TablesTypeOK /\ Jobs /\ Locks /\ Progress /\ PortsOwn
  /\ Agree /\ Settled /\ GivenOwn
-----------------------------------------------------------------------------
(* The handlers: that of addresses is the first, those of a protocol come  *)
(* one behind the other, and every protocol has them.                      *)
LEMMA HandlerOrder ==
  /\ Len(Handlers) \in Nat /\ DOMAIN Handlers = 1 .. Len(Handlers) /\ 1 \in DOMAIN Handlers
  /\ Handlers[1].at = "ip"
  /\ \A i \in DOMAIN Handlers :
       /\ Handlers[i].at \in {"port", "id"} => Handlers[i].proto \in Ported
       /\ Handlers[i].at = "port" =>
            /\ i + 1 \in DOMAIN Handlers /\ Handlers[i + 1].at = "id"
            /\ Handlers[i + 1].proto = Handlers[i].proto
       /\ Handlers[i].at # "port" /\ i + 1 \in DOMAIN Handlers => Handlers[i + 1].at # "id"
  /\ \A p \in Ported : \E i \in DOMAIN Handlers : Handlers[i].at = "port" /\ Handlers[i].proto = p
  /\ \E i \in DOMAIN Handlers : Handlers[i].at = "icmp"
  /\ \A i, j \in DOMAIN Handlers :
       /\ Handlers[i].at = Handlers[j].at /\ Handlers[i].at # "id"
       /\ Handlers[i].at = "port" => Handlers[i].proto = Handlers[j].proto
       => i = j
<1> DEFINE N == Len(PortProto)
           mid == [i \in 1 .. 2 * N |->
                     [at |-> IF i % 2 = 1 THEN "port" ELSE "id", proto |-> PortProto[(i + 1) \div 2]]]
           a == [at |-> "ip", proto |-> None]
           z == [at |-> "icmp", proto |-> None]
           S == [at : {"ip", "port", "id", "icmp"}, proto : Ported \cup {None}]
<1>1. N \in {1, 2} /\ PortProto \in Seq(Ported) /\ \A j \in 1 .. N : PortProto[j] \in Ported
  BY TablesOK DEF Ported
<1>2. /\ \A p \in Ported : \E j \in 1 .. N : PortProto[j] = p
      /\ N = 2 => PortProto[1] # PortProto[2]
  BY <1>1, TablesOK DEF Ported
<1>3. \A i \in 1 .. 2 * N : (i + 1) \div 2 \in 1 .. N
  BY <1>1
<1>4. \A i \in 1 .. 2 * N : mid[i] \in S
  BY <1>1, <1>3
<1>5. mid \in Seq(S) /\ Len(mid) = 2 * N
  <2>1. mid \in [1 .. 2 * N -> S]
    BY <1>4
  <2>2. 2 * N \in Nat
    BY <1>1
  <2> QED
    BY <2>1, <2>2
<1>6. Handlers = (<<a>> \o mid) \o <<z>>
  BY DEF Handlers
<1>7. <<a>> \in Seq(S) /\ <<z>> \in Seq(S) /\ Len(<<a>>) = 1 /\ Len(<<z>>) = 1
      /\ <<a>>[1] = a /\ <<z>>[1] = z
  OBVIOUS
<1> HIDE DEF mid, a, z, S
<1>8. /\ <<a>> \o mid \in Seq(S) /\ Len(<<a>> \o mid) = 1 + Len(mid)
      /\ (<<a>> \o mid)[1] = a
      /\ \A i \in 1 .. Len(mid) : (<<a>> \o mid)[i + 1] = mid[i]
  BY <1>5, <1>7
<1>9. /\ Len(Handlers) = 2 * N + 2 /\ DOMAIN Handlers = 1 .. 2 * N + 2
      /\ Handlers[1] = a /\ Handlers[2 * N + 2] = z
      /\ \A i \in 1 .. 2 * N : Handlers[i + 1] = mid[i]
  <2> DEFINE front == <<a>> \o mid
  <2>1. front \in Seq(S) /\ Len(front) = 2 * N + 1 /\ 2 * N + 1 \in Nat
    BY <1>1, <1>5, <1>8
  <2> HIDE DEF front
  <2>2. /\ Len(front \o <<z>>) = 2 * N + 2
        /\ \A i \in 1 .. 2 * N + 1 : (front \o <<z>>)[i] = front[i]
        /\ (front \o <<z>>)[2 * N + 2] = z /\ front \o <<z>> \in Seq(S)
    BY <1>7, <2>1
  <2>3. /\ Len(Handlers) = 2 * N + 2 /\ Handlers \in Seq(S) /\ Handlers[2 * N + 2] = z
        /\ \A i \in 1 .. 2 * N + 1 : Handlers[i] = front[i]
    BY <1>6, <2>2 DEF front
  <2>4. 1 \in 1 .. 2 * N + 1 /\ \A i \in 1 .. 2 * N : i + 1 \in 1 .. 2 * N + 1
    BY <1>1
  <2>5. front[1] = a /\ \A i \in 1 .. 2 * N : front[i + 1] = mid[i]
    BY <1>5, <1>8 DEF front
  <2> QED
    BY <1>1, <2>3, <2>4, <2>5
<1>10. \A i \in 1 .. 2 * N :
         /\ mid[i].at = IF i % 2 = 1 THEN "port" ELSE "id"
         /\ mid[i].proto = PortProto[(i + 1) \div 2]
  BY DEF mid
<1>11. a.at = "ip" /\ z.at = "icmp"
  BY DEF a, z
<1>12. CASE N = 1
  <2>1. /\ Handlers[2].at = "port" /\ Handlers[3].at = "id"
        /\ Handlers[2].proto = PortProto[1] /\ Handlers[3].proto = PortProto[1]
    BY <1>9, <1>10, <1>12
  <2> QED
    BY <1>1, <1>2, <1>9, <1>11, <1>12, <2>1
<1>13. CASE N = 2
  <2>1. /\ Handlers[2].at = "port" /\ Handlers[3].at = "id"
        /\ Handlers[4].at = "port" /\ Handlers[5].at = "id"
        /\ Handlers[2].proto = PortProto[1] /\ Handlers[3].proto = PortProto[1]
        /\ Handlers[4].proto = PortProto[2] /\ Handlers[5].proto = PortProto[2]
    BY <1>9, <1>10, <1>13
  <2> QED
    BY <1>1, <1>2, <1>9, <1>11, <1>13, <2>1
<1> QED
  BY <1>1, <1>12, <1>13

(* The chains, and which of them are different.                            *)
LEMMA ChainsApart ==
  ASSUME NEW n \in User, NEW p \in Ported
  PROVE  /\ ByIp(n) \in Chains /\ BySeq(n) \in Chains /\ ByPort(p, n) \in Chains /\ ById(p) \in Chains
         /\ \A q \in Ported, m \in User :
              /\ ByIp(m) # ByPort(p, n) /\ BySeq(m) # ByPort(p, n) /\ ById(q) # ByPort(p, n)
              /\ q # p => ByPort(q, m) # ByPort(p, n)
<1>1. p \in {"udp", "tcp"}
  BY TablesOK DEF Ported
<1>2. ASSUME NEW q \in Ported, NEW m \in User
      PROVE  /\ ByIp(m) # ByPort(p, n) /\ BySeq(m) # ByPort(p, n) /\ ById(q) # ByPort(p, n)
             /\ q # p => ByPort(q, m) # ByPort(p, n)
  BY <1>1 DEF ByIp, BySeq, ByPort, ById, Chain
<1> QED
  BY <1>2 DEF Chains

(* A user has the number of one part only.                                 *)
LEMMA KeysApart ==
  ASSUME NEW n \in User, NEW m \in User
  PROVE  KeyOf(n) \in IdKey /\ (KeyOf(n) = KeyOf(m) => n = m)
<1>1. Id(n) = n % K /\ Id(m) = m % K /\ n % K \in 0 .. K - 1 /\ PubIp(n) \in 0 .. NPub - 1
  BY IdIsPlace, Place
<1>2. KeyOf(n) \in IdKey
  BY <1>1 DEF KeyOf, IdKey
<1>3. KeyOf(n) = KeyOf(m) => PubIp(n) = PubIp(m) /\ Id(n) = Id(m)
  BY DEF KeyOf
<1> QED
  BY <1>1, <1>2, <1>3, SamePlace

(* Users, threads and what is missing are not the same.                    *)
LEMMA NoneApart ==
  /\ None \notin User /\ None \notin Actor /\ None \notin Nat /\ User \subseteq Nat
  /\ \A s \in Owner : s \in Actor /\ s \notin Taker
  /\ \A r \in Taker : r \in Actor /\ r \notin Owner
  BY TablesOK, AddressesOK DEF User, Actor
-----------------------------------------------------------------------------
LEMMA InvImplies == TablesInv => TablesAgree /\ AllOrNone
<1> SUFFICES ASSUME TablesInv PROVE TablesAgree /\ AllOrNone
  OBVIOUS
<1>1. \A c \in Chains : ~Free(c) => work[lock[c]] # Idle
  <2> SUFFICES ASSUME NEW c \in Chains, lock[c] # None PROVE work[lock[c]] # Idle
    BY DEF Free
  <2>1. lock[c] \in Owner \/ lock[c] \in Taker
    BY DEF TablesInv, TablesTypeOK, Actor
  <2> QED
    BY <2>1 DEF TablesInv, Locks, Between, At, Idle
<1>2. \A p \in Ported, n \in User, s \in Owner :
        work[s].user = n /\ Between(s) /\ ProtoOf(s) = p => lock[ByPort(p, n)] = s
  BY DEF TablesInv, Locks
<1>3. TablesAgree
  BY <1>1, <1>2 DEF TablesInv, TablesAgree, Agree, Between
<1> QED
  BY <1>3 DEF TablesInv, AllOrNone, Settled, GivenOwn

LEMMA TablesInvInit == TablesInit => TablesInv
<1> SUFFICES ASSUME TablesInit PROVE TablesInv
  OBVIOUS
<1>1. 0 \in 0 .. Len(Handlers) + 1
  BY HandlerOrder
<1>2. TablesTypeOK
  BY <1>1 DEF TablesInit, TablesTypeOK, Idle
<1>3. \A t \in Actor : work[t] = Idle
  BY DEF TablesInit
<1>4. \A s \in Owner : ~Between(s)
  BY <1>3, NoneApart DEF Between, At, Idle
<1>5. Jobs /\ Progress
  <2>1. \A t \in Actor : work[t].doing = "nothing" /\ work[t].user \notin User
    BY <1>3, NoneApart DEF Idle
  <2>2. Jobs
    BY <1>3, <2>1, NoneApart DEF Jobs, HasUser
  <2>3. Progress
    BY <2>1, NoneApart DEF Progress
  <2> QED
    BY <2>2, <2>3
<1>6. Locks
  BY <1>4, NoneApart DEF TablesInit, Locks
<1>7. PortsOwn /\ Settled /\ GivenOwn
  BY DEF TablesInit, PortsOwn, Settled, GivenOwn
<1>8. Agree
  BY KeysApart, NoneApart DEF TablesInit, Agree
<1> QED
  BY <1>2, <1>5, <1>6, <1>7, <1>8 DEF TablesInv

(* A thread that goes somewhere leaves the others where they are.          *)
LEMMA Going ==
  ASSUME TablesInv, NEW t \in Actor, NEW j, work' = [work EXCEPT ![t] = j]
  PROVE  /\ work'[t] = j
         /\ \A u \in Actor : u # t =>
              work'[u] = work[u] /\ (Between(u)' <=> Between(u)) /\ ProtoOf(u)' = ProtoOf(u)
<1>1. work'[t] = j /\ \A u \in Actor : u # t => work'[u] = work[u]
  BY DEF TablesInv, TablesTypeOK
<1> QED
  BY <1>1 DEF Between, At, ProtoOf

(* The same in the handlers.                                               *)
LEMMA GoingOn ==
  ASSUME TablesInv, NEW s \in Owner, NEW where, At(s, {"new", "del"}, where), NextHandler(s)
  PROVE  /\ work'[s].doing = work[s].doing /\ work'[s].user = work[s].user
         /\ work[s].doing \in {"new", "del"} /\ work[s].user \in User
         /\ work[s].step \in DOMAIN Handlers /\ work'[s].step = work[s].step + 1
         /\ work' \in [Actor -> [doing : {"nothing", "new", "del", "assign"},
                                 user : User \cup {None}, step : 0 .. Len(Handlers) + 1]]
         /\ \A u \in Actor : u # s =>
              work'[u] = work[u] /\ (Between(u)' <=> Between(u)) /\ ProtoOf(u)' = ProtoOf(u)
         /\ Between(s)' <=> where = "port"
         /\ where = "port" => ProtoOf(s)' = ProtoOf(s)
         /\ where \in {"port", "id"} => ProtoOf(s) \in Ported
<1>1. s \in Actor /\ work[s].doing \in {"new", "del"} /\ work[s].step \in DOMAIN Handlers
      /\ Handlers[work[s].step].at = where
  BY NoneApart DEF At
<1>2. work[s].user \in User
  BY <1>1 DEF TablesInv, Jobs, Idle, HasUser
<1>3. /\ work'[s].doing = work[s].doing /\ work'[s].user = work[s].user
      /\ work'[s].step = work[s].step + 1
      /\ \A u \in Actor : u # s => work'[u] = work[u]
  BY <1>1 DEF TablesInv, TablesTypeOK, NextHandler
<1>4. work[s].step + 1 \in 0 .. Len(Handlers) + 1
  BY <1>1, HandlerOrder
<1>5. work' \in [Actor -> [doing : {"nothing", "new", "del", "assign"},
                           user : User \cup {None}, step : 0 .. Len(Handlers) + 1]]
  BY <1>1, <1>4 DEF TablesInv, TablesTypeOK, NextHandler
<1>6. \A u \in Actor : u # s => (Between(u)' <=> Between(u)) /\ ProtoOf(u)' = ProtoOf(u)
  BY <1>3 DEF Between, At, ProtoOf
<1>7. /\ Between(s)' <=> where = "port"
      /\ where = "port" => ProtoOf(s)' = ProtoOf(s)
      /\ where \in {"port", "id"} => ProtoOf(s) \in Ported
  BY <1>1, <1>3, HandlerOrder DEF Between, At, ProtoOf
<1> QED
  BY <1>1, <1>2, <1>3, <1>5, <1>6, <1>7

LEMMA BeginStep ==
  ASSUME TablesInv, NEW s \in Owner, NEW doing \in {"new", "del"}, NEW n \in User,
         Begin(s, doing, n)
  PROVE  TablesInv'
<1> DEFINE j == [doing |-> doing, user |-> n, step |-> 1]
<1>1. /\ s \in Actor /\ work[s] = Idle /\ ~Busy(n) /\ work' = [work EXCEPT ![s] = j]
      /\ doing = "del" => n \in known
      /\ known' = IF doing = "new" THEN known \cup {n} ELSE known
      /\ given' = None
      /\ UNCHANGED <<ip, port, byId, seq, lock>>
  BY NoneApart DEF Begin, Goes, NoneGiven
<1>2. /\ work'[s] = j
      /\ \A u \in Actor : u # s =>
           work'[u] = work[u] /\ (Between(u)' <=> Between(u)) /\ ProtoOf(u)' = ProtoOf(u)
  BY <1>1, Going
<1>3. ~Between(s) /\ ~Between(s)'
  BY <1>1, <1>2, HandlerOrder DEF Between, At, Idle
<1>4. TablesTypeOK'
  <2>1. j \in [doing : {"nothing", "new", "del", "assign"}, user : User \cup {None},
               step : 0 .. Len(Handlers) + 1]
    BY HandlerOrder
  <2> QED
    BY <1>1, <2>1 DEF TablesInv, TablesTypeOK
<1>5. Jobs'
  BY <1>1, <1>2, NoneApart DEF TablesInv, Jobs, HasUser, Busy
<1>6. Locks'
  BY <1>1, <1>2, <1>3, NoneApart DEF TablesInv, Locks, TablesTypeOK, ByPort, Actor
<1>7. Progress'
  <2>1. \A i \in DOMAIN Handlers : ~(i < 1)
    BY HandlerOrder
  <2> QED
    BY <1>1, <1>2, <2>1, NoneApart DEF TablesInv, Progress, Made, Gone
<1>8. PortsOwn' /\ GivenOwn'
  BY <1>1 DEF TablesInv, PortsOwn, GivenOwn
<1>9. Agree'
  BY <1>1, <1>2, <1>3, NoneApart DEF TablesInv, Agree
<1>10. Settled'
  <2>1. \A m \in User : ~Busy(m)' => m # n /\ ~Busy(m)
    BY <1>1, <1>2, NoneApart DEF Busy, Idle
  <2> QED
    BY <1>1, <2>1 DEF TablesInv, Settled
<1> QED
  BY <1>4, <1>5, <1>6, <1>7, <1>8, <1>9, <1>10 DEF TablesInv

LEMMA FailsStep ==
  ASSUME TablesInv, NEW s \in Owner, Fails(s) PROVE TablesInv'
<1> DEFINE j == [doing |-> "del", user |-> work[s].user, step |-> 1]
<1>1. /\ s \in Actor /\ work[s].doing = "new" /\ work[s].step \in DOMAIN Handlers
      /\ Handlers[work[s].step].at # "id" /\ work' = [work EXCEPT ![s] = j]
      /\ given' = None
      /\ UNCHANGED <<known, ip, port, byId, seq, lock>>
  BY NoneApart DEF Fails, Goes, NoneGiven
<1>2. /\ work'[s] = j
      /\ \A u \in Actor : u # s =>
           work'[u] = work[u] /\ (Between(u)' <=> Between(u)) /\ ProtoOf(u)' = ProtoOf(u)
  BY <1>1, Going
<1>3. ~Between(s) /\ ~Between(s)'
  BY <1>1, <1>2, HandlerOrder DEF Between, At
<1>4. work[s].user \in User
  BY <1>1 DEF TablesInv, Jobs, HasUser, Idle
<1>5. TablesTypeOK'
  <2>1. j \in [doing : {"nothing", "new", "del", "assign"}, user : User \cup {None},
               step : 0 .. Len(Handlers) + 1]
    BY <1>4, HandlerOrder
  <2> QED
    BY <1>1, <2>1 DEF TablesInv, TablesTypeOK
<1>6. Jobs'
  BY <1>1, <1>2, <1>4, NoneApart DEF TablesInv, Jobs, HasUser
<1>7. Locks'
  BY <1>1, <1>2, <1>3, NoneApart DEF TablesInv, Locks, TablesTypeOK, ByPort, Actor
<1>8. Progress'
  <2>1. \A i \in DOMAIN Handlers : ~(i < 1)
    BY HandlerOrder
  <2> QED
    BY <1>1, <1>2, <2>1, NoneApart DEF TablesInv, Progress, Made, Gone
<1>9. PortsOwn' /\ GivenOwn'
  BY <1>1 DEF TablesInv, PortsOwn, GivenOwn
<1>10. Agree'
  BY <1>1, <1>2, <1>3, NoneApart DEF TablesInv, Agree
<1>11. Settled'
  <2>1. \A m \in User : ~Busy(m)' => ~Busy(m)
    BY <1>1, <1>2, NoneApart DEF Busy
  <2> QED
    BY <1>1, <2>1 DEF TablesInv, Settled
<1> QED
  BY <1>5, <1>6, <1>7, <1>8, <1>9, <1>10, <1>11 DEF TablesInv

LEMMA EndStep ==
  ASSUME TablesInv, NEW s \in Owner, End(s) PROVE TablesInv'
<1> DEFINE n == work[s].user
<1>1. /\ s \in Actor /\ work[s] # Idle /\ work[s].step = Len(Handlers) + 1
      /\ known' = IF work[s].doing = "del" THEN known \ {n} ELSE known
      /\ work' = [work EXCEPT ![s] = Idle]
      /\ given' = None
      /\ UNCHANGED <<ip, port, byId, seq, lock>>
  BY NoneApart DEF End, NoneGiven
<1>2. /\ work'[s] = Idle
      /\ \A u \in Actor : u # s =>
           work'[u] = work[u] /\ (Between(u)' <=> Between(u)) /\ ProtoOf(u)' = ProtoOf(u)
  BY <1>1, Going
<1>3. ~Between(s) /\ ~Between(s)'
  BY <1>1, <1>2, HandlerOrder DEF Between, At, Idle
<1>4. n \in User /\ work[s].doing \in {"new", "del"}
  BY <1>1 DEF TablesInv, Jobs, HasUser
<1>5. \A u \in Owner : u # s => work[u].user # n
  BY <1>4 DEF TablesInv, Jobs, HasUser
<1>6. TablesTypeOK'
  <2>1. Idle \in [doing : {"nothing", "new", "del", "assign"}, user : User \cup {None},
                  step : 0 .. Len(Handlers) + 1]
    BY HandlerOrder DEF Idle
  <2> QED
    BY <1>1, <2>1 DEF TablesInv, TablesTypeOK
<1>7. Jobs'
  BY <1>1, <1>2, NoneApart DEF TablesInv, Jobs, HasUser, Idle
<1>8. Locks'
  BY <1>1, <1>2, <1>3, NoneApart DEF TablesInv, Locks, TablesTypeOK, ByPort, Actor
<1>9. Progress'
  <2>1. Idle.doing = "nothing"
    BY DEF Idle
  <2> QED
    BY <1>1, <1>2, <1>5, <2>1, NoneApart DEF TablesInv, Progress, Made, Gone
<1>10. PortsOwn' /\ GivenOwn'
  BY <1>1 DEF TablesInv, PortsOwn, GivenOwn
<1>11. Agree'
  BY <1>1, <1>2, <1>3, NoneApart DEF TablesInv, Agree
<1>12. Settled'
  <2>1. \A m \in User : m # n /\ ~Busy(m)' => ~Busy(m)
    BY <1>1, <1>2, NoneApart DEF Busy
  <2>2. \A i \in DOMAIN Handlers : i < work[s].step
    BY <1>1, HandlerOrder
  <2>3. CASE work[s].doing = "new"
    <3>1. n \in known' /\ \A i \in DOMAIN Handlers : Made(n, i)
      BY <1>1, <1>4, <2>2, <2>3, HandlerOrder DEF TablesInv, Progress
    <3>2. n \in ip /\ (\A p \in Ported : port[p][n] # None) /\ seq[n] # None
      BY <3>1, HandlerOrder DEF Made
    <3> QED
      BY <1>1, <2>1, <2>3, <3>1, <3>2 DEF TablesInv, Settled
  <2>4. CASE work[s].doing = "del"
    <3>1. n \notin known' /\ \A i \in DOMAIN Handlers : Gone(n, i)
      BY <1>1, <1>4, <2>2, <2>4, HandlerOrder DEF TablesInv, Progress
    <3>2. n \notin ip /\ (\A p \in Ported : port[p][n] = None) /\ seq[n] = None
      BY <3>1, HandlerOrder DEF Gone
    <3> QED
      BY <1>1, <2>1, <2>4, <3>1, <3>2 DEF TablesInv, Settled
  <2> QED
    BY <1>4, <2>3, <2>4
<1> QED
  BY <1>6, <1>7, <1>8, <1>9, <1>10, <1>11, <1>12 DEF TablesInv

(* Jobs after a step of one handler, and Locks when none were had or left. *)
LEMMA JobsGoOn ==
  ASSUME TablesInv, NEW s \in Owner, NEW where, At(s, {"new", "del"}, where), NextHandler(s)
  PROVE  Jobs'
<1>1. /\ work'[s].doing = work[s].doing /\ work'[s].user = work[s].user
      /\ work[s].doing \in {"new", "del"} /\ work[s].user \in User
      /\ work[s].step \in DOMAIN Handlers /\ work'[s].step = work[s].step + 1
      /\ \A u \in Actor : u # s => work'[u] = work[u]
  BY GoingOn
<1>2. work'[s].step # 0
  BY <1>1, HandlerOrder
<1>3. \A u \in Owner : u # s => work'[u] = work[u]
  BY <1>1, NoneApart
<1>4. ASSUME NEW u \in Owner
      PROVE  \/ work'[u] = Idle
             \/ work'[u].doing \in {"new", "del"} /\ work'[u].user \in User /\ work'[u].step # 0
  BY <1>1, <1>2, <1>3 DEF TablesInv, Jobs, HasUser
<1>5. ASSUME NEW r \in Taker
      PROVE  \/ work'[r] = Idle
             \/ work'[r].doing = "assign" /\ work'[r].user \in User
  <2>1. r # s /\ r \in Actor
    BY NoneApart
  <2> QED
    BY <1>1, <2>1 DEF TablesInv, Jobs, HasUser
<1>6. ASSUME NEW u \in Owner, NEW v \in Owner, work'[u].user \in User, work'[u].user = work'[v].user
      PROVE  u = v
  BY <1>1, <1>3, <1>6 DEF TablesInv, Jobs, HasUser
<1> QED
  BY <1>4, <1>5, <1>6 DEF Jobs, HasUser, Idle

LEMMA LocksKept ==
  ASSUME TablesInv, NEW s \in Owner, UNCHANGED <<port, lock>>, ~Between(s), ~Between(s)',
         \A u \in Actor : u # s =>
           work'[u] = work[u] /\ (Between(u)' <=> Between(u)) /\ ProtoOf(u)' = ProtoOf(u)
  PROVE  Locks'
<1>1. ASSUME NEW c \in Chains, lock[c] \in Owner
      PROVE  Between(lock[c])' /\ c = ByPort(ProtoOf(lock[c])', work'[lock[c]].user)
  <2>1. lock[c] # s /\ lock[c] \in Actor
    BY <1>1, NoneApart DEF TablesInv, Locks
  <2> QED
    BY <1>1, <2>1 DEF TablesInv, Locks
<1>2. ASSUME NEW c \in Chains, lock[c] \in Taker PROVE work'[lock[c]].doing = "assign"
  <2>1. lock[c] # s /\ lock[c] \in Actor
    BY <1>2, NoneApart
  <2> QED
    BY <1>2, <2>1 DEF TablesInv, Locks
<1>3. ASSUME NEW u \in Owner, Between(u)'
      PROVE  /\ lock[ByPort(ProtoOf(u)', work'[u].user)] = u
             /\ port[ProtoOf(u)'][work'[u].user] # None <=> work'[u].doing = "new"
  <2>1. u # s /\ u \in Actor
    BY <1>3, NoneApart
  <2> QED
    BY <1>3, <2>1 DEF TablesInv, Locks
<1> QED
  BY <1>1, <1>2, <1>3 DEF Locks, ByPort, Chains

(* What a locked chain says of the owner that has it.                      *)
LEMMA LockOfOwner ==
  ASSUME TablesInv, NEW c \in Chains, NEW u \in Owner, u = lock[c]
  PROVE  Between(u) /\ c = ByPort(ProtoOf(u), work[u].user)
  BY DEF TablesInv, Locks

(* Locks after a step, chain by chain and owner by owner.                  *)
LEMMA LocksAfter ==
  ASSUME \A c \in Chains : lock'[c] \in Owner =>
           Between(lock[c])' /\ c = ByPort(ProtoOf(lock[c])', work'[lock'[c]].user),
         \A c \in Chains : lock'[c] \in Taker => work'[lock'[c]].doing = "assign",
         \A u \in Owner : Between(u)' =>
           /\ lock'[ByPort(ProtoOf(u)', work'[u].user)] = u
           /\ port'[ProtoOf(u)'][work'[u].user] # None <=> work'[u].doing = "new"
  PROVE  Locks'
  BY DEF Locks, Chains, ByPort

(* Progress after a step of the handler k of user n: its entry is made or  *)
(* gone, and no other entry changes.                                       *)
LEMMA ProgressGoesOn ==
  ASSUME TablesInv, NEW s \in Owner, NEW where, At(s, {"new", "del"}, where), NextHandler(s),
         UNCHANGED known, NEW n \in User, n = work[s].user, NEW k \in DOMAIN Handlers, k = work[s].step,
         work[s].doing = "new" => Made(n, k)',
         work[s].doing = "del" => Gone(n, k)',
         \A m \in User, i \in DOMAIN Handlers :
           m # n \/ i # k => (Made(m, i)' <=> Made(m, i)) /\ (Gone(m, i)' <=> Gone(m, i))
  PROVE  Progress'
<1>1. /\ work'[s].doing = work[s].doing /\ work'[s].user = n /\ work'[s].step = k + 1
      /\ \A u \in Actor : u # s => work'[u] = work[u]
  BY GoingOn
<1>2. \A i \in DOMAIN Handlers : i < k + 1 <=> i < k \/ i = k
  BY HandlerOrder
<1>3. ASSUME NEW u \in Owner, NEW m \in User, NEW i \in DOMAIN Handlers, work'[u].user = m
      PROVE  /\ work'[u].doing = "new" => m \in known /\ (i < work'[u].step => Made(m, i)')
             /\ work'[u].doing = "del" => (i < work'[u].step => Gone(m, i)')
  <2>1. CASE u = s
    <3>1. /\ work[s].doing = "new" => n \in known /\ (i < k => Made(n, i))
          /\ work[s].doing = "del" => (i < k => Gone(n, i))
      BY DEF TablesInv, Progress
    <3>2. (i < k => i # k) /\ m = n
      BY <1>1, <1>3, <2>1, HandlerOrder
    <3>3. CASE i = k
      BY <1>1, <2>1, <3>1, <3>2, <3>3
    <3>4. CASE i # k
      BY <1>1, <1>2, <2>1, <3>1, <3>2, <3>4
    <3> QED
      BY <3>3, <3>4
  <2>2. CASE u # s
    <3>1. work'[u] = work[u]
      BY <1>1, <2>2, NoneApart
    <3>2. m # n
      BY <1>3, <2>2, <3>1 DEF TablesInv, Jobs, HasUser
    <3>3. /\ work[u].doing = "new" => m \in known /\ (i < work[u].step => Made(m, i))
          /\ work[u].doing = "del" => (i < work[u].step => Gone(m, i))
      BY <1>3, <3>1 DEF TablesInv, Progress
    <3> QED
      BY <3>1, <3>2, <3>3
  <2> QED
    BY <2>1, <2>2
<1> QED
  BY <1>3 DEF Progress
-----------------------------------------------------------------------------
LEMMA IpStep ==
  ASSUME TablesInv, NEW s \in Owner, IpHandler(s) PROVE TablesInv'
<1>1. /\ s \in Actor /\ At(s, {"new", "del"}, "ip") /\ NextHandler(s) /\ given' = None
      /\ UNCHANGED <<known, port, byId, seq, lock>>
  BY NoneApart DEF IpHandler, NoneGiven
<1>2. /\ work'[s].doing = work[s].doing /\ work'[s].user = work[s].user
      /\ work[s].doing \in {"new", "del"} /\ work[s].user \in User
      /\ work[s].step \in DOMAIN Handlers
      /\ work' \in [Actor -> [doing : {"nothing", "new", "del", "assign"},
                              user : User \cup {None}, step : 0 .. Len(Handlers) + 1]]
      /\ \A u \in Actor : u # s =>
           work'[u] = work[u] /\ (Between(u)' <=> Between(u)) /\ ProtoOf(u)' = ProtoOf(u)
      /\ ~Between(s)' /\ ~Between(s)
  BY <1>1, GoingOn DEF Between, At
<1>3. PICK n \in User, k \in DOMAIN Handlers : n = work[s].user /\ k = work[s].step
  BY <1>2
<1>4. Handlers[k].at = "ip"
  BY <1>1, <1>3 DEF At
<1>5. /\ ip' \subseteq User /\ \A m \in User : m # n => (m \in ip' <=> m \in ip)
      /\ n \in ip' <=> work[s].doing = "new"
  BY <1>3 DEF IpHandler, TablesInv, TablesTypeOK
<1>6. TablesTypeOK'
  BY <1>1, <1>2, <1>3, <1>5 DEF TablesInv, TablesTypeOK
<1>7. Jobs' /\ Locks'
  BY <1>1, <1>2, JobsGoOn, LocksKept
<1>8. Progress'
  <2>1. /\ work[s].doing = "new" => Made(n, k)'
        /\ work[s].doing = "del" => Gone(n, k)'
    BY <1>2, <1>4, <1>5 DEF Made, Gone
  <2>2. ASSUME NEW m \in User, NEW i \in DOMAIN Handlers, m # n \/ i # k
        PROVE  (Made(m, i)' <=> Made(m, i)) /\ (Gone(m, i)' <=> Gone(m, i))
    BY <1>1, <1>4, <1>5, <2>2, HandlerOrder DEF Made, Gone
  <2> QED
    BY <1>1, <1>3, <2>1, <2>2, ProgressGoesOn
<1>9. PortsOwn' /\ GivenOwn'
  BY <1>1 DEF TablesInv, PortsOwn, GivenOwn
<1>10. Agree'
  <2>1. \A u \in Owner : Between(u) => u # s /\ u \in Actor
    BY <1>2, NoneApart
  <2> QED
    BY <1>1, <1>2, <2>1 DEF TablesInv, Agree
<1>11. Settled'
  <2>1. \A m \in User : ~Busy(m)' => m # n /\ ~Busy(m)
    BY <1>2, <1>3, NoneApart DEF Busy
  <2> QED
    BY <1>1, <1>5, <2>1 DEF TablesInv, Settled
<1> QED
  BY <1>6, <1>7, <1>8, <1>9, <1>10, <1>11 DEF TablesInv

LEMMA IcmpStep ==
  ASSUME TablesInv, NEW s \in Owner, IcmpHandler(s) PROVE TablesInv'
<1>1. /\ s \in Actor /\ At(s, {"new", "del"}, "icmp") /\ NextHandler(s) /\ given' = None
      /\ UNCHANGED <<known, ip, port, byId, lock>>
  BY NoneApart DEF IcmpHandler, NoneGiven
<1>2. /\ work'[s].doing = work[s].doing /\ work'[s].user = work[s].user
      /\ work[s].doing \in {"new", "del"} /\ work[s].user \in User
      /\ work[s].step \in DOMAIN Handlers
      /\ work' \in [Actor -> [doing : {"nothing", "new", "del", "assign"},
                              user : User \cup {None}, step : 0 .. Len(Handlers) + 1]]
      /\ \A u \in Actor : u # s =>
           work'[u] = work[u] /\ (Between(u)' <=> Between(u)) /\ ProtoOf(u)' = ProtoOf(u)
      /\ ~Between(s)' /\ ~Between(s)
  BY <1>1, GoingOn DEF Between, At
<1>3. PICK n \in User, k \in DOMAIN Handlers : n = work[s].user /\ k = work[s].step
  BY <1>2
<1>4. Handlers[k].at = "icmp"
  BY <1>1, <1>3 DEF At
<1>5. /\ seq' \in [User -> Nat \cup {None}] /\ \A m \in User : m # n => seq'[m] = seq[m]
      /\ seq'[n] # None <=> work[s].doing = "new"
  <2>1. n % K \in Nat /\ K \in Nat \ {0}
    BY Place, Divisors
  <2>2. SeqChunk \in Nat
    BY <2>1, TablesOK DEF SeqChunk
  <2>3. (n % K) * SeqChunk \in Nat /\ (n % K) * SeqChunk # None
    BY <2>1, <2>2, NoneApart
  <2> QED
    BY <1>2, <1>3, <2>3 DEF IcmpHandler, TablesInv, TablesTypeOK
<1>6. TablesTypeOK'
  BY <1>1, <1>2, <1>3, <1>5 DEF TablesInv, TablesTypeOK
<1>7. Jobs' /\ Locks'
  BY <1>1, <1>2, JobsGoOn, LocksKept
<1>8. Progress'
  <2>1. /\ work[s].doing = "new" => Made(n, k)'
        /\ work[s].doing = "del" => Gone(n, k)'
    BY <1>2, <1>4, <1>5 DEF Made, Gone
  <2>2. ASSUME NEW m \in User, NEW i \in DOMAIN Handlers, m # n \/ i # k
        PROVE  (Made(m, i)' <=> Made(m, i)) /\ (Gone(m, i)' <=> Gone(m, i))
    BY <1>1, <1>4, <1>5, <2>2, HandlerOrder DEF Made, Gone
  <2> QED
    BY <1>1, <1>3, <2>1, <2>2, ProgressGoesOn
<1>9. PortsOwn' /\ GivenOwn'
  BY <1>1 DEF TablesInv, PortsOwn, GivenOwn
<1>10. Agree'
  <2>1. \A u \in Owner : Between(u) => u # s /\ u \in Actor
    BY <1>2, NoneApart
  <2> QED
    BY <1>1, <1>2, <2>1 DEF TablesInv, Agree
<1>11. Settled'
  <2>1. \A m \in User : ~Busy(m)' => m # n /\ ~Busy(m)
    BY <1>2, <1>3, NoneApart DEF Busy
  <2> QED
    BY <1>1, <1>5, <2>1 DEF TablesInv, Settled
<1> QED
  BY <1>6, <1>7, <1>8, <1>9, <1>10, <1>11 DEF TablesInv

LEMMA PortStep ==
  ASSUME TablesInv, NEW s \in Owner, PortHandler(s) PROVE TablesInv'
<1>1. /\ s \in Actor /\ At(s, {"new", "del"}, "port") /\ NextHandler(s) /\ given' = None
      /\ UNCHANGED <<known, ip, byId, seq>>
  BY NoneApart DEF PortHandler, NoneGiven
<1>2. /\ work'[s].doing = work[s].doing /\ work'[s].user = work[s].user
      /\ work[s].doing \in {"new", "del"} /\ work[s].user \in User
      /\ work[s].step \in DOMAIN Handlers
      /\ work' \in [Actor -> [doing : {"nothing", "new", "del", "assign"},
                              user : User \cup {None}, step : 0 .. Len(Handlers) + 1]]
      /\ \A u \in Actor : u # s =>
           work'[u] = work[u] /\ (Between(u)' <=> Between(u)) /\ ProtoOf(u)' = ProtoOf(u)
      /\ ~Between(s) /\ Between(s)' /\ ProtoOf(s)' = ProtoOf(s)
      /\ ProtoOf(s) \in Ported
  BY <1>1, GoingOn DEF Between, At
<1>3. PICK n \in User, k \in DOMAIN Handlers, p \in Ported :
        n = work[s].user /\ k = work[s].step /\ p = ProtoOf(s)
  BY <1>2
<1>4. Handlers[k].at = "port" /\ Handlers[k].proto = p
  BY <1>1, <1>3 DEF At, ProtoOf
<1>5. \A u \in Owner : u # s => u \in Actor /\ (work[u].user \in User => work[u].user # n)
  BY <1>3, NoneApart DEF TablesInv, Jobs, HasUser
<1>6. \A u \in Owner : Between(u) => work[u].user \in User /\ work[u].doing \in {"new", "del"}
  BY DEF TablesInv, Jobs, HasUser, Between, At, Idle
<1> DEFINE c == ByPort(p, n)
<1>7. c \in Chains /\ lock[c] = None /\ lock'[c] = s /\ lock' \in [Chains -> Actor \cup {None}]
      /\ \A d \in Chains : d # c => lock'[d] = lock[d]
  BY <1>1, <1>3, ChainsApart DEF PortHandler, Takes, Free, TablesInv, TablesTypeOK
<1>8. /\ port' \in [Ported -> [User -> Nat \cup {None}]]
      /\ port'[p][n] = IF work[s].doing = "new" THEN Lport(n) ELSE None
      /\ \A q \in Ported, m \in User : q # p \/ m # n => port'[q][m] = port[q][m]
      /\ Lport(n) # None /\ Lport(n) \in Ports(n)
  BY <1>3, RangeOfPlace, EndsInRange, NoneApart DEF PortHandler, TablesInv, TablesTypeOK
<1> HIDE DEF c
<1>9. TablesTypeOK'
  BY <1>1, <1>2, <1>7, <1>8 DEF TablesInv, TablesTypeOK
<1>10. Locks'
  <2>1. ASSUME NEW d \in Chains, lock'[d] \in Owner
        PROVE  Between(lock[d])' /\ d = ByPort(ProtoOf(lock[d])', work'[lock'[d]].user)
    <3>1. CASE d = c
      BY <1>2, <1>3, <1>7, <3>1 DEF c
    <3>2. CASE d # c
      <4>1. lock'[d] = lock[d] /\ Between(lock[d]) /\ lock[d] # s /\ lock[d] \in Actor
        BY <1>2, <1>7, <2>1, <3>2, NoneApart DEF TablesInv, Locks
      <4>2. PICK u \in Owner : u = lock[d] /\ u = lock'[d]
        BY <2>1, <4>1
      <4>3. Between(u)' /\ d = ByPort(ProtoOf(u)', work'[u].user)
        BY <1>2, <4>1, <4>2 DEF TablesInv, Locks
      <4> QED
        BY <4>2, <4>3 DEF Between, At, ProtoOf
    <3> QED
      BY <3>1, <3>2
  <2>2. ASSUME NEW d \in Chains, lock'[d] \in Taker PROVE work'[lock'[d]].doing = "assign"
    <3>1. lock'[d] = lock[d] /\ lock[d] # s /\ lock[d] \in Actor
      BY <1>7, <2>2, NoneApart
    <3> QED
      BY <1>2, <2>2, <3>1 DEF TablesInv, Locks
  <2>3. ASSUME NEW u \in Owner, Between(u)'
        PROVE  /\ lock'[ByPort(ProtoOf(u)', work'[u].user)] = u
               /\ port'[ProtoOf(u)'][work'[u].user] # None <=> work'[u].doing = "new"
    <3>1. CASE u = s
      BY <1>2, <1>3, <1>7, <1>8, <3>1 DEF c
    <3>2. CASE u # s
      <4>1. /\ Between(u) /\ work'[u] = work[u] /\ ProtoOf(u)' = ProtoOf(u)
            /\ work[u].user \in User /\ work[u].user # n
        BY <1>2, <1>5, <1>6, <2>3, <3>2
      <4>2. ProtoOf(u) \in Ported
        BY <4>1, HandlerOrder DEF Between, At, ProtoOf
      <4>3. /\ lock[ByPort(ProtoOf(u), work[u].user)] = u
            /\ port[ProtoOf(u)][work[u].user] # None <=> work[u].doing = "new"
        BY <4>1 DEF TablesInv, Locks
      <4>4. ByPort(ProtoOf(u), work[u].user) \in Chains /\ ByPort(ProtoOf(u), work[u].user) # c
        BY <1>7, <4>1, <4>2, <4>3, ChainsApart, NoneApart
      <4> QED
        BY <1>7, <1>8, <4>1, <4>2, <4>3, <4>4
    <3> QED
      BY <3>1, <3>2
  <2> QED
    BY <2>1, <2>2, <2>3, LocksAfter
<1>11. Jobs' /\ Progress'
  <2>1. /\ work[s].doing = "new" => Made(n, k)'
        /\ work[s].doing = "del" => Gone(n, k)'
    BY <1>2, <1>4, <1>8 DEF Made, Gone
  <2>2. ASSUME NEW m \in User, NEW i \in DOMAIN Handlers, m # n \/ i # k
        PROVE  (Made(m, i)' <=> Made(m, i)) /\ (Gone(m, i)' <=> Gone(m, i))
    <3>1. Handlers[i].at = "port" =>
            Handlers[i].proto \in Ported /\ (m # n \/ Handlers[i].proto # p)
      BY <1>4, <2>2, HandlerOrder
    <3>2. Handlers[i].at = "port" => port'[Handlers[i].proto][m] = port[Handlers[i].proto][m]
      BY <1>8, <3>1
    <3> QED
      BY <1>1, <3>2 DEF Made, Gone
  <2> QED
    BY <1>1, <1>3, <2>1, <2>2, ProgressGoesOn, JobsGoOn
<1>12. PortsOwn' /\ GivenOwn'
  <2>1. ASSUME NEW q \in Ported, NEW m \in User, port'[q][m] # None PROVE port'[q][m] \in Ports(m)
    BY <1>8, <2>1 DEF TablesInv, PortsOwn
  <2> QED
    BY <1>1, <2>1 DEF PortsOwn, GivenOwn
<1>13. Agree'
  <2>1. ASSUME NEW q \in Ported, NEW m \in User
        PROVE  \/ port'[q][m] # None <=> byId[q][KeyOf(m)] = m
               \/ \E u \in Owner : work'[u].user = m /\ Between(u)' /\ ProtoOf(u)' = q
    <3>1. CASE q = p /\ m = n
      BY <1>2, <1>3, <3>1
    <3>2. CASE ~(q = p /\ m = n)
      <4>1. port'[q][m] = port[q][m]
        BY <1>8, <3>2
      <4>2. \A u \in Owner : Between(u) => u # s
        BY <1>2
      <4> QED
        BY <1>2, <1>5, <4>1, <4>2 DEF TablesInv, Agree
    <3> QED
      BY <3>1, <3>2
  <2> QED
    BY <1>1, <2>1 DEF TablesInv, Agree
<1>14. Settled'
  <2>1. \A m \in User : ~Busy(m)' => m # n /\ ~Busy(m)
    BY <1>2, <1>3, NoneApart DEF Busy
  <2> QED
    BY <1>1, <1>8, <2>1 DEF TablesInv, Settled
<1> QED
  BY <1>9, <1>10, <1>11, <1>12, <1>13, <1>14 DEF TablesInv

LEMMA IdStep ==
  ASSUME TablesInv, NEW s \in Owner, IdHandler(s) PROVE TablesInv'
<1>1. /\ s \in Actor /\ At(s, {"new", "del"}, "id") /\ NextHandler(s) /\ given' = None
      /\ UNCHANGED <<known, ip, port, seq>>
  BY NoneApart DEF IdHandler, NoneGiven
<1>2. /\ work'[s].doing = work[s].doing /\ work'[s].user = work[s].user
      /\ work[s].doing \in {"new", "del"} /\ work[s].user \in User
      /\ work[s].step \in DOMAIN Handlers
      /\ work' \in [Actor -> [doing : {"nothing", "new", "del", "assign"},
                              user : User \cup {None}, step : 0 .. Len(Handlers) + 1]]
      /\ \A u \in Actor : u # s =>
           work'[u] = work[u] /\ (Between(u)' <=> Between(u)) /\ ProtoOf(u)' = ProtoOf(u)
      /\ Between(s) /\ ~Between(s)'
      /\ ProtoOf(s) \in Ported
  BY <1>1, GoingOn DEF Between, At
<1>3. PICK n \in User, k \in DOMAIN Handlers, p \in Ported :
        n = work[s].user /\ k = work[s].step /\ p = ProtoOf(s)
  BY <1>2
<1>4. Handlers[k].at = "id" /\ Handlers[k].proto = p
  BY <1>1, <1>3 DEF At, ProtoOf
<1>5. \A u \in Owner : u # s => u \in Actor /\ (work[u].user \in User => work[u].user # n)
  BY <1>3, NoneApart DEF TablesInv, Jobs, HasUser
<1>6. \A u \in Owner : Between(u) => work[u].user \in User /\ work[u].doing \in {"new", "del"}
  BY DEF TablesInv, Jobs, HasUser, Between, At, Idle
<1>7. /\ lock' \in [Chains -> Actor \cup {None}]
      /\ \A d \in Chains : lock'[d] # s /\ (lock[d] # s => lock'[d] = lock[d])
      /\ \A d \in Chains : lock'[d] # None => lock'[d] = lock[d]
  BY <1>1, NoneApart DEF IdHandler, Leaves, TablesInv, TablesTypeOK
<1>8. /\ byId' \in [Ported -> [IdKey -> User \cup {None}]]
      /\ byId'[p][KeyOf(n)] = IF work[s].doing = "new" THEN n ELSE None
      /\ \A q \in Ported, key \in IdKey : q # p \/ key # KeyOf(n) => byId'[q][key] = byId[q][key]
  BY <1>3, KeysApart DEF IdHandler, TablesInv, TablesTypeOK
<1>9. TablesTypeOK'
  BY <1>1, <1>2, <1>7, <1>8 DEF TablesInv, TablesTypeOK
<1>10. Locks'
  <2>1. ASSUME NEW d \in Chains, lock'[d] \in Owner
        PROVE  Between(lock[d])' /\ d = ByPort(ProtoOf(lock[d])', work'[lock'[d]].user)
    <3>1. lock'[d] = lock[d] /\ lock[d] # s /\ lock[d] \in Actor /\ Between(lock[d])
      BY <1>7, <2>1, NoneApart DEF TablesInv, Locks
    <3>2. PICK u \in Owner : u = lock[d] /\ u = lock'[d]
      BY <2>1, <3>1
    <3>3. Between(u)' /\ d = ByPort(ProtoOf(u)', work'[u].user)
      BY <1>2, <3>1, <3>2 DEF TablesInv, Locks
    <3> QED
      BY <3>2, <3>3 DEF Between, At, ProtoOf
  <2>2. ASSUME NEW d \in Chains, lock'[d] \in Taker PROVE work'[lock'[d]].doing = "assign"
    <3>1. lock'[d] = lock[d] /\ lock[d] # s /\ lock[d] \in Actor
      BY <1>7, <2>2, NoneApart
    <3> QED
      BY <1>2, <2>2, <3>1 DEF TablesInv, Locks
  <2>3. ASSUME NEW u \in Owner, Between(u)'
        PROVE  /\ lock'[ByPort(ProtoOf(u)', work'[u].user)] = u
               /\ port[ProtoOf(u)'][work'[u].user] # None <=> work'[u].doing = "new"
    <3>1. /\ u # s /\ Between(u) /\ work'[u] = work[u] /\ ProtoOf(u)' = ProtoOf(u)
          /\ work[u].user \in User
      BY <1>2, <1>5, <1>6, <2>3
    <3>2. ProtoOf(u) \in Ported
      BY <3>1, HandlerOrder DEF Between, At, ProtoOf
    <3>3. /\ lock[ByPort(ProtoOf(u), work[u].user)] = u
          /\ port[ProtoOf(u)][work[u].user] # None <=> work[u].doing = "new"
      BY <3>1 DEF TablesInv, Locks
    <3>4. ByPort(ProtoOf(u), work[u].user) \in Chains
      BY <3>1, <3>2, ChainsApart
    <3> QED
      BY <1>7, <3>1, <3>3, <3>4
  <2> QED
    BY <1>1, <2>1, <2>2, <2>3 DEF Locks, Chains, ByPort
<1>11. Jobs' /\ Progress'
  <2>1. Made(n, k)' /\ Gone(n, k)'
    BY <1>4 DEF Made, Gone
  <2>2. ASSUME NEW m \in User, NEW i \in DOMAIN Handlers, m # n \/ i # k
        PROVE  (Made(m, i)' <=> Made(m, i)) /\ (Gone(m, i)' <=> Gone(m, i))
    BY <1>1 DEF Made, Gone
  <2> QED
    BY <1>1, <1>3, <2>1, <2>2, ProgressGoesOn, JobsGoOn
<1>12. PortsOwn' /\ GivenOwn'
  BY <1>1 DEF TablesInv, PortsOwn, GivenOwn
<1>13. Agree'
  <2>1. ASSUME NEW q \in Ported, NEW key \in IdKey, byId'[q][key] # None
        PROVE  KeyOf(byId'[q][key]) = key
    BY <1>8, <2>1 DEF TablesInv, Agree
  <2>2. ASSUME NEW q \in Ported, NEW m \in User
        PROVE  \/ port[q][m] # None <=> byId'[q][KeyOf(m)] = m
               \/ \E u \in Owner : work'[u].user = m /\ Between(u)' /\ ProtoOf(u)' = q
    <3>1. CASE q = p /\ m = n
      <4>1. port[p][n] # None <=> work[s].doing = "new"
        BY <1>2, <1>3 DEF TablesInv, Locks
      <4> QED
        BY <1>8, <3>1, <4>1, NoneApart
    <3>2. CASE ~(q = p /\ m = n)
      <4>1. byId'[q][KeyOf(m)] = byId[q][KeyOf(m)]
        BY <1>8, <3>2, KeysApart
      <4>2. \A u \in Owner : work[u].user = m /\ ProtoOf(u) = q => u # s
        BY <1>3, <3>2
      <4> QED
        BY <1>2, <1>5, <4>1, <4>2 DEF TablesInv, Agree
    <3> QED
      BY <3>1, <3>2
  <2> QED
    BY <1>1, <2>1, <2>2 DEF Agree
<1>14. Settled'
  <2>1. \A m \in User : ~Busy(m)' => ~Busy(m)
    BY <1>2, <1>3, NoneApart DEF Busy
  <2> QED
    BY <1>1, <2>1 DEF TablesInv, Settled
<1> QED
  BY <1>9, <1>10, <1>11, <1>12, <1>13, <1>14 DEF TablesInv
-----------------------------------------------------------------------------
(* A step of a relay has and leaves only locks of its own, gives ports of  *)
(* the user's range, and makes or deletes no endpoint.                     *)
LEMMA RelaySteps ==
  ASSUME TablesInv, NEW r \in Taker, NEW j, work' = [work EXCEPT ![r] = j],
         j \in [doing : {"nothing", "new", "del", "assign"}, user : User \cup {None},
                step : 0 .. Len(Handlers) + 1],
         j = Idle \/ (j.doing = "assign" /\ j.user \in User),
         UNCHANGED <<known, ip, byId>>,
         port' \in [Ported -> [User -> Nat \cup {None}]],
         seq' \in [User -> Nat \cup {None}],
         lock' \in [Chains -> Actor \cup {None}],
         \A c \in Chains :
           /\ lock'[c] = lock[c] \/ {lock[c], lock'[c]} = {r, None}
           /\ lock'[c] = r => j.doing = "assign",
         \A p \in Ported, n \in User :
           /\ port'[p][n] # None <=> port[p][n] # None
           /\ port'[p][n] # None => port'[p][n] \in Ports(n),
         \A n \in User : seq'[n] # None <=> seq[n] # None,
         GivenOwn'
  PROVE  TablesInv'
<1>1. /\ r \in Actor /\ work'[r] = j
      /\ \A u \in Actor : u # r =>
           work'[u] = work[u] /\ (Between(u)' <=> Between(u)) /\ ProtoOf(u)' = ProtoOf(u)
  BY Going, NoneApart
<1>2. \A s \in Owner : /\ s \in Actor /\ s # r
                       /\ work'[s] = work[s] /\ (Between(s)' <=> Between(s)) /\ ProtoOf(s)' = ProtoOf(s)
  BY <1>1, NoneApart
<1>3. TablesTypeOK'
  BY <1>1 DEF TablesInv, TablesTypeOK
<1>4. Jobs'
  <2>1. ASSUME NEW u \in Taker PROVE work'[u] = Idle \/ (work'[u].doing = "assign" /\ work'[u].user \in User)
    <3>1. CASE u = r
      BY <1>1, <3>1
    <3>2. CASE u # r
      BY <1>1, <3>2, NoneApart DEF TablesInv, Jobs, HasUser
    <3> QED
      BY <3>1, <3>2
  <2> QED
    BY <1>2, <2>1 DEF TablesInv, Jobs, HasUser, Idle
<1>5. Locks'
  <2>1. ASSUME NEW c \in Chains, lock'[c] \in Owner
        PROVE  Between(lock[c])' /\ c = ByPort(ProtoOf(lock[c])', work'[lock'[c]].user)
    <3>1. lock'[c] = lock[c]
      <4>1. lock'[c] \notin {r, None}
        BY <2>1, NoneApart
      <4> QED
        BY <4>1
    <3>2. lock[c] \in Owner
      BY <2>1, <3>1
    <3>3. PICK u \in Owner : u = lock[c] /\ u = lock'[c]
      BY <3>1, <3>2
    <3>4. Between(u) /\ c = ByPort(ProtoOf(u), work[u].user)
      BY <3>3, LockOfOwner
    <3>5. Between(u)' /\ c = ByPort(ProtoOf(u)', work'[u].user)
      BY <1>2, <3>4
    <3> QED
      BY <3>3, <3>5 DEF Between, At, ProtoOf
  <2>2. ASSUME NEW c \in Chains, lock'[c] \in Taker PROVE work'[lock'[c]].doing = "assign"
    <3>1. CASE lock'[c] = r
      BY <1>1, <3>1
    <3>2. CASE lock'[c] # r
      <4>1. lock'[c] \notin {r, None}
        BY <2>2, <3>2, NoneApart
      <4>2. lock'[c] = lock[c]
        BY <4>1
      <4>3. lock[c] \in Taker
        BY <2>2, <4>2
      <4>4. work[lock[c]].doing = "assign"
        BY <4>3 DEF TablesInv, Locks
      <4>5. lock'[c] # r /\ work'[lock'[c]] = work[lock[c]]
        BY <1>1, <2>2, <3>2, <4>2
      <4> QED
        BY <4>4, <4>5
    <3> QED
      BY <3>1, <3>2
  <2>3. ASSUME NEW u \in Owner, Between(u)'
        PROVE  /\ lock'[ByPort(ProtoOf(u)', work'[u].user)] = u
               /\ port'[ProtoOf(u)'][work'[u].user] # None <=> work'[u].doing = "new"
    <3>1. Between(u) /\ work'[u] = work[u] /\ ProtoOf(u)' = ProtoOf(u) /\ u # r /\ u # None
      BY <1>2, <2>3, NoneApart
    <3>2. ProtoOf(u) \in Ported /\ work[u].user \in User
      BY <3>1, HandlerOrder DEF Between, At, ProtoOf, TablesInv, Jobs, HasUser, Idle
    <3>3. /\ lock[ByPort(ProtoOf(u), work[u].user)] = u
          /\ port[ProtoOf(u)][work[u].user] # None <=> work[u].doing = "new"
      BY <3>1 DEF TablesInv, Locks
    <3>4. ByPort(ProtoOf(u), work[u].user) \in Chains
      BY <3>2, ChainsApart
    <3>5. lock'[ByPort(ProtoOf(u), work[u].user)] = u
      <4>1. PICK c \in Chains : c = ByPort(ProtoOf(u), work[u].user)
        BY <3>4
      <4>2. lock[c] = u /\ lock[c] \notin {r, None}
        BY <3>1, <3>3, <4>1
      <4>3. lock'[c] = lock[c]
        BY <4>2
      <4> QED
        BY <4>1, <4>2, <4>3
    <3>6. port'[ProtoOf(u)][work[u].user] # None <=> work[u].doing = "new"
      BY <3>2, <3>3
    <3> QED
      BY <3>1, <3>5, <3>6
  <2> QED
    BY <2>1, <2>2, <2>3, LocksAfter
<1>6. Progress'
  <2>1. ASSUME NEW n \in User, NEW i \in DOMAIN Handlers
        PROVE  (Made(n, i)' <=> Made(n, i)) /\ (Gone(n, i)' <=> Gone(n, i))
    <3>1. Handlers[i].at = "port" => Handlers[i].proto \in Ported
      BY HandlerOrder
    <3> QED
      BY <3>1 DEF Made, Gone
  <2> QED
    BY <1>2, <2>1 DEF TablesInv, Progress
<1>7. PortsOwn'
  BY DEF PortsOwn
<1>8. Agree'
  BY <1>2 DEF TablesInv, Agree
<1>9. Settled'
  <2>1. \A n \in User : Busy(n)' <=> Busy(n)
    BY <1>2 DEF Busy
  <2> QED
    BY <2>1 DEF TablesInv, Settled
<1> QED
  BY <1>3, <1>4, <1>5, <1>6, <1>7, <1>8, <1>9 DEF TablesInv

(* The locks of a thread after it took a free one, or left its own.        *)
LEMMA LockTaken ==
  ASSUME TablesInv, NEW r \in Taker
  PROVE  /\ \A c \in Chains : Takes(r, c) =>
              /\ lock' \in [Chains -> Actor \cup {None}]
              /\ \A d \in Chains : lock'[d] = lock[d] \/ {lock[d], lock'[d]} = {r, None}
         /\ Leaves(r) =>
              /\ lock' \in [Chains -> Actor \cup {None}]
              /\ \A d \in Chains : /\ lock'[d] = lock[d] \/ {lock[d], lock'[d]} = {r, None}
                                   /\ lock'[d] # r
<1>1. r \in Actor /\ r # None
  BY NoneApart
<1>2. ASSUME NEW c \in Chains, Takes(r, c)
      PROVE  /\ lock' \in [Chains -> Actor \cup {None}]
             /\ \A d \in Chains : lock'[d] = lock[d] \/ {lock[d], lock'[d]} = {r, None}
  BY <1>1, <1>2 DEF Takes, Free, TablesInv, TablesTypeOK
<1>3. ASSUME Leaves(r)
      PROVE  /\ lock' \in [Chains -> Actor \cup {None}]
             /\ \A d \in Chains : /\ lock'[d] = lock[d] \/ {lock[d], lock'[d]} = {r, None}
                                  /\ lock'[d] # r
  BY <1>1, <1>3 DEF Leaves, TablesInv, TablesTypeOK
<1> QED
  BY <1>2, <1>3

LEMMA AssignIpStep ==
  ASSUME TablesInv, NEW r \in Taker, NEW n \in User, AssignIp(r, n) PROVE TablesInv'
<1> DEFINE j == [doing |-> "assign", user |-> n, step |-> 1]
<1>1. /\ Takes(r, ByIp(n)) /\ work' = [work EXCEPT ![r] = j] /\ given' = None
      /\ UNCHANGED <<known, ip, port, byId, seq>>
  BY DEF AssignIp, Goes, NoneGiven
<1>2. j \in [doing : {"nothing", "new", "del", "assign"}, user : User \cup {None},
             step : 0 .. Len(Handlers) + 1]
  BY HandlerOrder
<1>3. ByIp(n) \in Chains
  BY DEF Chains
<1>4. /\ lock' \in [Chains -> Actor \cup {None}]
      /\ \A d \in Chains : lock'[d] = lock[d] \/ {lock[d], lock'[d]} = {r, None}
  BY <1>1, <1>3, LockTaken
<1>5. port' \in [Ported -> [User -> Nat \cup {None}]] /\ seq' \in [User -> Nat \cup {None}]
  BY <1>1 DEF TablesInv, TablesTypeOK
<1>6. \A p \in Ported, m \in User : port'[p][m] # None => port'[p][m] \in Ports(m)
  BY <1>1 DEF TablesInv, PortsOwn
<1>7. GivenOwn'
  BY <1>1 DEF GivenOwn
<1>8. j.doing = "assign" /\ j.user \in User
  OBVIOUS
<1> HIDE DEF j
<1> QED
  BY <1>1, <1>2, <1>4, <1>5, <1>6, <1>7, <1>8, RelaySteps

LEMMA AssignPortStep ==
  ASSUME TablesInv, NEW r \in Taker, NEW p \in Ported, AssignPort(r, p) PROVE TablesInv'
<1>1. work[r].doing = "assign" /\ work[r].user \in User
  BY DEF AssignPort, TablesInv, Jobs, HasUser, Idle
<1>2. PICK n \in User : n = work[r].user
  BY <1>1
<1> DEFINE j == [doing |-> "assign", user |-> n, step |-> 2]
<1>3. /\ Takes(r, ByPort(p, n)) /\ work' = [work EXCEPT ![r] = j]
      /\ port[p][n] # None
      /\ given' = [user |-> n, ip |-> PubIp(n), port |-> port[p][n]]
      /\ port' = [port EXCEPT ![p][n] = NextPort(n, @)]
      /\ UNCHANGED <<known, ip, byId, seq>>
  BY <1>2 DEF AssignPort, Goes
<1>4. j \in [doing : {"nothing", "new", "del", "assign"}, user : User \cup {None},
             step : 0 .. Len(Handlers) + 1]
  <2>1. 2 \in 0 .. Len(Handlers) + 1
    BY HandlerOrder
  <2> QED
    BY <2>1
<1>5. /\ lock' \in [Chains -> Actor \cup {None}]
      /\ \A d \in Chains : lock'[d] = lock[d] \/ {lock[d], lock'[d]} = {r, None}
  BY <1>3, ChainsApart, LockTaken
<1>6. port[p][n] \in Ports(n)
  BY <1>3 DEF TablesInv, PortsOwn
<1>7. /\ NextPort(n, port[p][n]) \in Ports(n)
      /\ NextPort(n, port[p][n]) \in Nat /\ NextPort(n, port[p][n]) # None
  BY <1>6, NextPortInRange, PortIdIsPlace, NoneApart
<1>8. /\ port' \in [Ported -> [User -> Nat \cup {None}]]
      /\ port'[p][n] = NextPort(n, port[p][n])
      /\ \A q \in Ported, m \in User : q # p \/ m # n => port'[q][m] = port[q][m]
  BY <1>3, <1>7 DEF TablesInv, TablesTypeOK
<1>9. ASSUME NEW q \in Ported, NEW m \in User
      PROVE  /\ port'[q][m] # None <=> port[q][m] # None
             /\ port'[q][m] # None => port'[q][m] \in Ports(m)
  <2>1. CASE q = p /\ m = n
    BY <1>3, <1>7, <1>8, <2>1
  <2>2. CASE ~(q = p /\ m = n)
    BY <1>8, <2>2 DEF TablesInv, PortsOwn
  <2> QED
    BY <2>1, <2>2
<1>10. GivenOwn'
  BY <1>3, <1>6 DEF GivenOwn
<1>11. seq' \in [User -> Nat \cup {None}]
  BY <1>3 DEF TablesInv, TablesTypeOK
<1>12. j.doing = "assign" /\ j.user \in User
  OBVIOUS
<1> HIDE DEF j
<1>13. work' = [work EXCEPT ![r] = j] /\ UNCHANGED <<known, ip, byId>> /\ seq' = seq
  BY <1>3
<1>14. port' \in [Ported -> [User -> Nat \cup {None}]]
  BY <1>8
<1> QED
  BY <1>4, <1>5, <1>9, <1>10, <1>11, <1>12, <1>13, <1>14, RelaySteps

LEMMA AssignSeqStep ==
  ASSUME TablesInv, NEW r \in Taker, AssignSeq(r) PROVE TablesInv'
<1>1. work[r].doing = "assign" /\ work[r].user \in User
  BY DEF AssignSeq, TablesInv, Jobs, HasUser, Idle
<1>2. PICK n \in User : n = work[r].user
  BY <1>1
<1> DEFINE j == [doing |-> "assign", user |-> n, step |-> 2]
           next == IF seq[n] >= (n % K) * SeqChunk + SeqChunk - 1
                   THEN (n % K) * SeqChunk ELSE seq[n] + 1
<1>3. /\ Takes(r, BySeq(n)) /\ work' = [work EXCEPT ![r] = j]
      /\ seq[n] # None /\ seq' = [seq EXCEPT ![n] = next] /\ given' = None
      /\ UNCHANGED <<known, ip, port, byId>>
  BY <1>2 DEF AssignSeq, Goes, NoneGiven, TablesInv, TablesTypeOK
<1>4. j \in [doing : {"nothing", "new", "del", "assign"}, user : User \cup {None},
             step : 0 .. Len(Handlers) + 1]
  <2>1. 2 \in 0 .. Len(Handlers) + 1
    BY HandlerOrder
  <2> QED
    BY <2>1
<1>5. /\ lock' \in [Chains -> Actor \cup {None}]
      /\ \A d \in Chains : lock'[d] = lock[d] \/ {lock[d], lock'[d]} = {r, None}
  <2>1. BySeq(n) \in Chains
    BY DEF Chains
  <2> QED
    BY <1>3, <2>1, LockTaken
<1>6. next \in Nat /\ next # None
  <2>1. n % K \in Nat /\ K \in Nat \ {0}
    BY Place, Divisors
  <2>2. SeqChunk \in Nat
    BY <2>1, TablesOK DEF SeqChunk
  <2>3. (n % K) * SeqChunk \in Nat
    BY <2>1, <2>2
  <2>4. seq[n] \in Nat
    BY <1>3 DEF TablesInv, TablesTypeOK
  <2> QED
    BY <2>3, <2>4, NoneApart
<1> HIDE DEF next
<1>7. /\ seq' \in [User -> Nat \cup {None}]
      /\ \A m \in User : seq'[m] # None <=> seq[m] # None
  BY <1>3, <1>6 DEF TablesInv, TablesTypeOK
<1>8. /\ port' \in [Ported -> [User -> Nat \cup {None}]]
      /\ \A p \in Ported, m \in User : port'[p][m] # None => port'[p][m] \in Ports(m)
  BY <1>3 DEF TablesInv, TablesTypeOK, PortsOwn
<1>9. GivenOwn'
  BY <1>3 DEF GivenOwn
<1>10. j.doing = "assign" /\ j.user \in User
  OBVIOUS
<1> HIDE DEF j
<1> QED
  BY <1>3, <1>4, <1>5, <1>7, <1>8, <1>9, <1>10, RelaySteps

(* The two ends of an assignment.                                          *)
LEMMA LeavingStep ==
  ASSUME TablesInv, NEW r \in Taker, Missing(r) \/ AssignEnds(r) PROVE TablesInv'
<1>1. /\ Leaves(r) /\ work' = [work EXCEPT ![r] = Idle] /\ given' = None
      /\ UNCHANGED <<known, ip, port, byId, seq>>
  BY DEF Missing, AssignEnds, NoneGiven
<1>2. Idle \in [doing : {"nothing", "new", "del", "assign"}, user : User \cup {None},
                step : 0 .. Len(Handlers) + 1]
  BY HandlerOrder DEF Idle
<1>3. /\ lock' \in [Chains -> Actor \cup {None}]
      /\ \A d \in Chains : /\ lock'[d] = lock[d] \/ {lock[d], lock'[d]} = {r, None}
                           /\ lock'[d] # r
  BY <1>1, LockTaken
<1>4. port' \in [Ported -> [User -> Nat \cup {None}]] /\ seq' \in [User -> Nat \cup {None}]
  BY <1>1 DEF TablesInv, TablesTypeOK
<1>5. \A p \in Ported, m \in User : port'[p][m] # None => port'[p][m] \in Ports(m)
  BY <1>1 DEF TablesInv, PortsOwn
<1>6. GivenOwn'
  BY <1>1 DEF GivenOwn
<1> QED
  BY <1>1, <1>2, <1>3, <1>4, <1>5, <1>6, RelaySteps

(* A port that is asked for is in the range of the user whose number it    *)
(* gives.                                                                  *)
LEMMA AskStep ==
  ASSUME TablesInv, NEW p \in Ported, NEW a \in 0 .. NPub - 1,
         NEW q \in 1 .. FirstPort + PortCount - 1, Ask(p, a, q)
  PROVE  TablesInv'
<1>1. PICK n \in User :
        /\ AskedId(q) < K /\ byId[p][[ip |-> a, id |-> AskedId(q)]] = n
        /\ given' = [user |-> n, ip |-> a, port |-> q]
  BY DEF Ask
<1>2. UNCHANGED <<known, ip, port, byId, seq, lock, work>>
  BY DEF Ask
<1>3. GivenOwn'
  <2> SUFFICES ASSUME q >= FirstPort PROVE a = PubIp(n) /\ q \in Ports(n)
    BY <1>1 DEF GivenOwn
  <2>1. /\ q - FirstPort \in Nat /\ q \in Nat /\ FirstPort \in Nat
        /\ Chunk \in Nat \ {0} /\ K \in Nat
    BY AddressesOK, Divisors
  <2>2. /\ PortId(q) \in Nat /\ (q - FirstPort) % Chunk \in 0 .. Chunk - 1
        /\ q - FirstPort = (PortId(q) * Chunk) + ((q - FirstPort) % Chunk)
    BY <2>1, Recompose DEF PortId
  <2>3. AskedId(q) = PortId(q) /\ PortId(q) \in 0 .. K - 1
    BY <1>1, <2>1, <2>2 DEF AskedId
  <2>4. [ip |-> a, id |-> PortId(q)] \in IdKey
    BY <2>3 DEF IdKey
  <2>5. KeyOf(n) = [ip |-> a, id |-> PortId(q)]
    BY <1>1, <2>3, <2>4, NoneApart DEF TablesInv, Agree
  <2>6. PubIp(n) = a /\ Id(n) = PortId(q)
    BY <2>5 DEF KeyOf
  <2>7. PortId(q) = n % K
    BY <2>6, IdIsPlace
  <2>8. /\ Lport(n) = (PortId(q) * Chunk) + FirstPort /\ Hport(n) = Lport(n) + Chunk - 1
        /\ PortId(q) * Chunk \in Nat
    BY <2>7, RangeOfPlace
  <2> QED
    BY <2>1, <2>2, <2>6, <2>8 DEF Ports
<1> QED
  BY <1>2, <1>3 DEF TablesInv, TablesTypeOK, Jobs, HasUser, Locks, Between, At, ProtoOf,
                    Progress, Made, Gone, PortsOwn, Agree, Settled, Busy

LEMMA Stutter == TablesInv /\ UNCHANGED tables => TablesInv'
  BY DEF tables, TablesInv, TablesTypeOK, Jobs, HasUser, Locks, Between, At, ProtoOf,
         Progress, Made, Gone, PortsOwn, Agree, Settled, Busy, GivenOwn

LEMMA TablesInvNext == TablesInv /\ [TablesNext]_tables => TablesInv'
<1> SUFFICES ASSUME TablesInv, [TablesNext]_tables PROVE TablesInv'
  OBVIOUS
<1>1. CASE UNCHANGED tables
  BY <1>1, Stutter
<1>2. CASE \E s \in Owner : OwnerStep(s)
  BY <1>2, BeginStep, IpStep, PortStep, IdStep, IcmpStep, FailsStep, EndStep DEF OwnerStep
<1>3. CASE \E r \in Taker : TakerStep(r)
  BY <1>3, AssignIpStep, AssignPortStep, AssignSeqStep, LeavingStep DEF TakerStep
<1>4. CASE \E p \in Ported, a \in 0 .. NPub - 1, q \in 1 .. FirstPort + PortCount - 1 : Ask(p, a, q)
  BY <1>4, AskStep
<1> QED
  BY <1>1, <1>2, <1>3, <1>4 DEF TablesNext
-----------------------------------------------------------------------------
(* Whatever the number of users and threads and the order of their steps,  *)
(* between the two hashes of a protocol a thread has the lock of the first *)
(* and no other one, the handlers it has gone through have all made or all *)
(* deleted their entry, and the next port of a user is among his ports     *)
(* (nat_src_endpoint.c, __handlers; _udp.c and _tcp.c, __new and __del).   *)
THEOREM TablesInvariant == TablesSpec => []TablesInv
<1>1. TablesInit => TablesInv
  BY TablesInvInit
<1>2. TablesInv /\ [TablesNext]_tables => TablesInv'
  BY TablesInvNext
<1> QED
  BY <1>1, <1>2, PTL DEF TablesSpec

(* An endpoint is in both hashes of its protocol or in none, but between   *)
(* two steps of the thread that has its lock, and no lock is kept by a     *)
(* thread that is not at work: no handler returns with a chain locked      *)
(* (nat_src_endpoint_udp.c and _tcp.c, __new, __del and __assign).         *)
THEOREM HashesOfEndpointsAgree == TablesSpec => []TablesAgree
<1>1. TablesInv => TablesAgree
  BY InvImplies
<1> QED
  BY <1>1, TablesInvariant, PTL

(* No session is left with a part of its endpoints, and a port that a      *)
(* relay or a status request gets is one of its user                       *)
(* (session.c, sw_session_new and sw_session_del;                          *)
(* nat_src_endpoint_udp.c:268).                                            *)
THEOREM EndpointsAllOrNone == TablesSpec => []AllOrNone
<1>1. TablesInv => AllOrNone
  BY InvImplies
<1> QED
  BY <1>1, TablesInvariant, PTL
=============================================================================
