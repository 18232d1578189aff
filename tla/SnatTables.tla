----------------------------- MODULE SnatTables -----------------------------
(***************************************************************************)
(* The tables of public endpoints (nat_src_endpoint.c, _ip.c, _udp.c,      *)
(* _tcp.c, _icmp.c): which part of the public addresses a user has, and    *)
(* the next port or ICMP sequence of it.  Each protocol has a hash by      *)
(* private address; UDP and TCP have another one, by public address and    *)
(* the number of the part, to find the user of a port.                     *)
(*                                                                         *)
(* A thread that makes or deletes a session goes through the handlers in   *)
(* their order, under the lock of the session's bucket; a relay that needs *)
(* a public endpoint keeps the bucket of each handler until the handlers   *)
(* of the rest of the tuple chain are done.  A step takes the locks that   *)
(* are named in it and does what is done before the next one is taken.     *)
(*                                                                         *)
(* Abstractions: the tables by address have the same chains, and those by  *)
(* number one chain each; the chain of a relay's tuples is an address with *)
(* a port or an ICMP echo (what an ICMP error carries has the source of    *)
(* the packet it is about, which is no user's, and fails like Missing).    *)
(***************************************************************************)
EXTENDS SnatEndpoints, Sequences

CONSTANTS
  Owner,     \* threads that make and delete sessions
  Taker,     \* relays: a packet of a user takes a port
  PortProto, \* protocols with ports, the one before the other
  SeqCount,  \* 65535
  ChainOf,   \* the chain of a user's address
  None

SeqChunk == SeqCount \div K

ASSUME TablesOK ==
  /\ Owner \cap Taker = {} /\ None \notin Owner \cup Taker \cup Nat
  /\ PortProto \in {<<"udp", "tcp">>, <<"udp">>, <<"tcp">>}
  /\ ChainOf \in [User -> Nat]
  /\ SeqCount \in Nat /\ SeqChunk >= ChunkMin

Ported == {PortProto[i] : i \in DOMAIN PortProto}

Actor == Owner \cup Taker

VARIABLES
  known,  \* users with a session
  ip,     \* users with an entry in the table of addresses
  port,   \* by protocol and user, the next port, or None
  byId,   \* by protocol, public address and number, the user
  seq,    \* by user, the next ICMP sequence
  lock,   \* who has the lock of each chain
  work,   \* what each thread is doing
  given   \* what the last step found: a user with a public port

tables == <<known, ip, port, byId, seq, lock, work, given>>

IdKey == [ip : 0 .. NPub - 1, id : 0 .. K - 1]

KeyOf(n) == [ip |-> PubIp(n), id |-> Id(n)]

Chain(table, by, i) == [table |-> table, by |-> by, chain |-> i]

ByIp(n) == Chain("ip", "ip", ChainOf[n])
ByPort(p, n) == Chain(p, "ip", ChainOf[n])
ById(p) == Chain(p, "id", 0)
BySeq(n) == Chain("icmp", "ip", ChainOf[n])

Chains == {ByIp(n) : n \in User} \cup {BySeq(n) : n \in User}
            \cup {ByPort(p, n) : p \in Ported, n \in User} \cup {ById(p) : p \in Ported}

Free(c) == lock[c] = None

Takes(t, c) == Free(c) /\ lock' = [lock EXCEPT ![c] = t]

Leaves(t) == lock' = [c \in Chains |-> IF lock[c] = t THEN None ELSE lock[c]]

(* The handlers in the order of their table.  UDP and TCP have two parts,  *)
(* as they have two hashes.                                                *)
Handlers ==
  <<[at |-> "ip", proto |-> None]>>
    \o [i \in 1 .. 2 * Len(PortProto) |->
          [at |-> IF i % 2 = 1 THEN "port" ELSE "id", proto |-> PortProto[(i + 1) \div 2]]]
    \o <<[at |-> "icmp", proto |-> None]>>

Idle == [doing |-> "nothing", user |-> None, step |-> 0]

At(s, doing, where) ==
  /\ work[s].doing \in doing
  /\ work[s].step \in DOMAIN Handlers /\ Handlers[work[s].step].at = where

ProtoOf(s) == Handlers[work[s].step].proto

Busy(n) == \E s \in Owner : work[s].user = n

Goes(t, doing, n, step) == work' = [work EXCEPT ![t] = [doing |-> doing, user |-> n, step |-> step]]

NextHandler(t) == work' = [work EXCEPT ![t].step = @ + 1]

NoneGiven == given' = None
-----------------------------------------------------------------------------
(* sw_session_new puts the session into its pool, over the one that may    *)
(* be there, then calls sw_nat_src_endpoint_new; sw_session_del begins     *)
(* with sw_nat_src_endpoint_del.                                           *)
Begin(s, doing, n) ==
  /\ work[s] = Idle /\ ~Busy(n)
  /\ doing = "del" => n \in known
  /\ known' = IF doing = "new" THEN known \cup {n} ELSE known
  /\ Goes(s, doing, n, 1)
  /\ NoneGiven
  /\ UNCHANGED <<ip, port, byId, seq, lock>>

(* The handlers are done; a session that is deleted leaves its pool.       *)
End(s) ==
  /\ work[s] # Idle /\ work[s].step = Len(Handlers) + 1
  /\ known' = IF work[s].doing = "del" THEN known \ {work[s].user} ELSE known
  /\ work' = [work EXCEPT ![s] = Idle]
  /\ NoneGiven
  /\ UNCHANGED <<ip, port, byId, seq, lock>>

(* Mutant of Fails: the endpoints that were made are kept.                 *)
FailsAndKeeps(s) ==
  /\ work[s].doing = "new" /\ work[s].step \in DOMAIN Handlers
  /\ Handlers[work[s].step].at # "id"
  /\ known' = known \ {work[s].user} /\ work' = [work EXCEPT ![s] = Idle]
  /\ NoneGiven
  /\ UNCHANGED <<ip, port, byId, seq, lock>>

(* No memory for an endpoint: sw_session_new calls sw_session_del.         *)
Fails(s) ==
  /\ work[s].doing = "new" /\ work[s].step \in DOMAIN Handlers
  /\ Handlers[work[s].step].at # "id"
  /\ Goes(s, "del", work[s].user, 1)
  /\ NoneGiven
  /\ UNCHANGED <<known, ip, port, byId, seq, lock>>

(* One lock, had and left in the step.                                     *)
IpHandler(s) ==
  /\ At(s, {"new", "del"}, "ip") /\ Free(ByIp(work[s].user))
  /\ ip' = IF work[s].doing = "new" THEN ip \cup {work[s].user} ELSE ip \ {work[s].user}
  /\ NextHandler(s) /\ NoneGiven
  /\ UNCHANGED <<known, port, byId, seq, lock>>

IcmpHandler(s) ==
  LET n == work[s].user IN
  /\ At(s, {"new", "del"}, "icmp") /\ Free(BySeq(n))
  /\ seq' = [seq EXCEPT ![n] = IF work[s].doing = "new" THEN (n % K) * SeqChunk ELSE None]
  /\ NextHandler(s) /\ NoneGiven
  /\ UNCHANGED <<known, ip, port, byId, lock>>

(* UDP and TCP: the entry by address first; its lock is kept.  (A new one  *)
(* has asked for the public address under a lock of its own; the session   *)
(* is locked, so the address does not go meanwhile.)                       *)
PortHandler(s) ==
  LET n == work[s].user IN
  /\ At(s, {"new", "del"}, "port")
  /\ work[s].doing = "new" => Free(ByIp(n)) /\ n \in ip
  /\ Takes(s, ByPort(ProtoOf(s), n))
  /\ port' = [port EXCEPT ![ProtoOf(s)][n] = IF work[s].doing = "new" THEN Lport(n) ELSE None]
  /\ NextHandler(s) /\ NoneGiven
  /\ UNCHANGED <<known, ip, byId, seq>>

(* Mutant of IdHandler: the deleted endpoint stays in the other hash.      *)
IdHandlerStays(s) ==
  LET n == work[s].user IN
  /\ At(s, {"new", "del"}, "id") /\ Free(ById(ProtoOf(s)))
  /\ byId' = IF work[s].doing = "new" THEN [byId EXCEPT ![ProtoOf(s)][KeyOf(n)] = n] ELSE byId
  /\ Leaves(s)
  /\ NextHandler(s) /\ NoneGiven
  /\ UNCHANGED <<known, ip, port, seq>>

IdHandler(s) ==
  LET n == work[s].user IN
  /\ At(s, {"new", "del"}, "id") /\ Free(ById(ProtoOf(s)))
  /\ byId' = [byId EXCEPT ![ProtoOf(s)][KeyOf(n)] = IF work[s].doing = "new" THEN n ELSE None]
  /\ Leaves(s)
  /\ NextHandler(s) /\ NoneGiven
  /\ UNCHANGED <<known, ip, port, seq>>
-----------------------------------------------------------------------------
(* sw_nat_src_endpoint_assign.  The handler of the address is the first.   *)
AssignIp(r, n) ==
  /\ work[r] = Idle
  /\ n \in ip
  /\ Takes(r, ByIp(n))
  /\ Goes(r, "assign", n, 1)
  /\ NoneGiven
  /\ UNCHANGED <<known, ip, port, byId, seq>>

(* The next port of the user, under the lock of the endpoint.              *)
AssignPort(r, p) ==
  LET n == work[r].user IN
  /\ work[r].doing = "assign" /\ work[r].step = 1
  /\ port[p][n] # None
  /\ Takes(r, ByPort(p, n))
  /\ given' = [user |-> n, ip |-> PubIp(n), port |-> port[p][n]]
  /\ port' = [port EXCEPT ![p][n] = NextPort(n, @)]
  /\ Goes(r, "assign", n, 2)
  /\ UNCHANGED <<known, ip, byId, seq>>

AssignSeq(r) ==
  LET n == work[r].user IN
  /\ work[r].doing = "assign" /\ work[r].step = 1
  /\ seq[n] # None
  /\ Takes(r, BySeq(n))
  /\ seq' = [seq EXCEPT ![n] = IF @ >= (n % K) * SeqChunk + SeqChunk - 1
                              THEN (n % K) * SeqChunk ELSE @ + 1]
  /\ Goes(r, "assign", n, 2)
  /\ NoneGiven
  /\ UNCHANGED <<known, ip, port, byId>>

(* There is no endpoint of the protocol: -1 all the way back.              *)
Missing(r) ==
  LET n == work[r].user IN
  /\ work[r].doing = "assign" /\ work[r].step = 1
  /\ \/ \E p \in Ported : Free(ByPort(p, n)) /\ port[p][n] = None
     \/ Free(BySeq(n)) /\ seq[n] = None
  /\ Leaves(r)
  /\ work' = [work EXCEPT ![r] = Idle]
  /\ NoneGiven
  /\ UNCHANGED <<known, ip, port, byId, seq>>

(* Mutant of AssignEnds: the lock of the address is not released.          *)
AssignEndsInner(r) ==
  /\ work[r].doing = "assign" /\ work[r].step = 2
  /\ lock' = [c \in Chains |-> IF lock[c] = r /\ c.table # "ip" THEN None ELSE lock[c]]
  /\ work' = [work EXCEPT ![r] = Idle]
  /\ NoneGiven
  /\ UNCHANGED <<known, ip, port, byId, seq>>

(* The chain is done; each handler releases its lock.                      *)
AssignEnds(r) ==
  /\ work[r].doing = "assign" /\ work[r].step = 2
  /\ Leaves(r)
  /\ work' = [work EXCEPT ![r] = Idle]
  /\ NoneGiven
  /\ UNCHANGED <<known, ip, port, byId, seq>>

(* sw_nat_src_endpoint_udp_getprv: a status request names a public port.   *)
(* Division rounds towards zero, and a negative id is no one's.            *)
AskedId(q) ==
  IF q >= FirstPort THEN PortId(q) ELSE IF FirstPort - q < Chunk THEN 0 ELSE K

Ask(p, a, q) ==
  /\ Free(ById(p))
  /\ \E n \in User :
       /\ AskedId(q) < K /\ byId[p][[ip |-> a, id |-> AskedId(q)]] = n
       /\ given' = [user |-> n, ip |-> a, port |-> q]
  /\ UNCHANGED <<known, ip, port, byId, seq, lock, work>>
-----------------------------------------------------------------------------
TablesInit ==
  /\ known = {} /\ ip = {}
  /\ port = [p \in Ported |-> [n \in User |-> None]]
  /\ byId = [p \in Ported |-> [key \in IdKey |-> None]]
  /\ seq = [n \in User |-> None]
  /\ lock = [c \in Chains |-> None]
  /\ work = [t \in Actor |-> Idle]
  /\ given = None

OwnerStep(s) ==
  \/ \E doing \in {"new", "del"}, n \in User : Begin(s, doing, n)
  \/ IpHandler(s) \/ PortHandler(s) \/ IdHandler(s) \/ IcmpHandler(s)
  \/ Fails(s) \/ End(s)

TakerStep(r) ==
  \/ \E n \in User : AssignIp(r, n)
  \/ \E p \in Ported : AssignPort(r, p)
  \/ AssignSeq(r) \/ Missing(r) \/ AssignEnds(r)

TablesNext ==
  \/ \E s \in Owner : OwnerStep(s)
  \/ \E r \in Taker : TakerStep(r)
  \/ \E p \in Ported, a \in 0 .. NPub - 1, q \in 1 .. FirstPort + PortCount - 1 : Ask(p, a, q)

TablesSpec == TablesInit /\ [][TablesNext]_tables
-----------------------------------------------------------------------------
TablesTypeOK ==
  /\ known \subseteq User /\ ip \subseteq User
  /\ port \in [Ported -> [User -> Nat \cup {None}]]
  /\ byId \in [Ported -> [IdKey -> User \cup {None}]]
  /\ seq \in [User -> Nat \cup {None}]
  /\ lock \in [Chains -> Actor \cup {None}]
  /\ work \in [Actor -> [doing : {"nothing", "new", "del", "assign"}, user : User \cup {None},
                         step : 0 .. Len(Handlers) + 1]]

(* An endpoint of UDP or TCP is in both hashes or in none, but for the     *)
(* thread that is between the two with the lock of the first: what is      *)
(* freed is not found by the number of a port.  And whoever has a lock is  *)
(* at work: no way out of a handler, be it an error, leaves a chain locked *)
(* (nat_src_endpoint_tcp.c, __new, __del and __assign, the same in _udp.c).*)
TablesAgree ==
  /\ TablesTypeOK
  /\ \A c \in Chains : ~Free(c) => work[lock[c]] # Idle
  /\ \A p \in Ported :
       /\ \A key \in IdKey : byId[p][key] # None => KeyOf(byId[p][key]) = key
       /\ \A n \in User :
            \/ port[p][n] # None <=> byId[p][KeyOf(n)] = n
            \/ \E s \in Owner : /\ work[s].user = n /\ lock[ByPort(p, n)] = s
                                /\ At(s, {"new", "del"}, "id") /\ ProtoOf(s) = p

(* No session is left with a part of its endpoints: not by a failure of    *)
(* one handler, not by a session made over another one                     *)
(* (session.c, sw_session_new, sw_session_del); and the port that is given *)
(* to a relay, or asked for, is in the part of its user, if it is not one  *)
(* of the ports below the first (nat_src_endpoint_udp.c:268).              *)
AllOrNone ==
  /\ \A n \in User : ~Busy(n) =>
       /\ n \in ip <=> n \in known
       /\ \A p \in Ported : port[p][n] # None <=> n \in known
       /\ seq[n] # None <=> n \in known
  /\ given # None /\ given.port >= FirstPort =>
       given.ip = PubIp(given.user) /\ given.port \in Ports(given.user)
=============================================================================
