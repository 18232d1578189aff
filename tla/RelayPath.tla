------------------------------ MODULE RelayPath ------------------------------
(***************************************************************************)
(* The path of a packet through the relays: its addresses are read into    *)
(* tuples, the filter of the user's session is matched, the destination of *)
(* a redirected packet and the source of every packet are translated, and  *)
(* the tuples are written back with the checksums; replies take the same   *)
(* way back (relay_inward.c, relay_outward.c, filter_match*.c, tuple*.c).  *)
(* SNAT is enabled (sw_nat_src_enabled_flag).                              *)
(*                                                                         *)
(* One relay of each direction: a packet is one step.  The relations among *)
(* several relays are SnatRelations and DnatRelations.                     *)
(*                                                                         *)
(* Abstractions: an address is one word; what does not change in a packet  *)
(* is a word (Rest) in its sums; an idle relation of SNAT may be taken     *)
(* over at any time, since time passes at will.  Shaping, which delays or  *)
(* drops packets, is left to the network outside, which loses, duplicates  *)
(* and reorders them.  The daemon may stop at any time and is started      *)
(* again; what is outside then stays there.                                *)
(***************************************************************************)
EXTENDS Checksum, FilterText, FiniteSets

CONSTANTS
  User,      \* addresses of users
  PubIp,     \* the public address they share
  PubPorts,  \* the public ports of each user
  Flow,      \* what users send: records with fields src and dst, endpoints
  Filter,    \* filters
  Text,      \* and what is written in them
  Segments,  \* sets of flags that TCP packets have
  MaxDnat,   \* SW_NAT_DST_RELATIONS_MAX
  MaxFlight, \* bound: packets outside
  Rest,      \* the sum of the rest of a packet
  EchoId,    \* the id of the echoes that users send
  Router,    \* who reports that an echo went too far
  Junk,      \* what may be in the unset words of a pseudo header
  Captive,   \* filters that let nothing past some addresses,
  Garden,    \* and the addresses
  Nothing    \* no relation, no session, no packet

(* An endpoint is what NAT compares of a tuple chain (see Tuples).  A      *)
(* later fragment has no ports: its chain ends with the address.  An echo  *)
(* has its sequence number at both ends, and so has a time exceeded        *)
(* message the one of the echo it is about, with the inner source address  *)
(* (inner; else zero).                                                     *)
Proto == {"tcp", "udp", "icmp", "fragment"}
Endpoint == [ip : Word, proto : Proto, port : Word]
Packet == [src : Endpoint, dst : Endpoint, ipSum : Word, sum : Word, inner : Word]

ASSUME PathAssumption ==
  /\ User \subseteq Word \ {0} /\ PubIp \in Word \ {0} /\ Rest \in Word \ {0}
  /\ EchoId \in Word /\ Router \in Word /\ Junk \subseteq Word
  /\ PubPorts \in [User -> SUBSET Word]
  /\ \A u, v \in User : u # v => PubPorts[u] \cap PubPorts[v] = {}
  /\ \A f \in Flow :
       /\ f.src \in Endpoint /\ f.dst \in Endpoint
       /\ f.src.ip \in User /\ f.src.proto = f.dst.proto
       /\ f.src.proto = "icmp" => f.src.port = f.dst.port
       /\ f.src.proto = "fragment" => f.src.port = 0 /\ f.dst.port = 0
  /\ Base = 2 ^ AddrBits /\ PortMax < Base /\ Segments \subseteq SUBSET Letters
  /\ \A x \in Filter :
       /\ Parse(Text[x]).result = "parsed"
       /\ \A i \in DOMAIN Parse(Text[x]).in : Parse(Text[x]).in[i].nat \in [ip : Word, port : Word]
  /\ MaxDnat \in Nat \ {0}
  /\ Nothing \notin Filter /\ Nothing \notin Endpoint

VARIABLES
  filter,   \* the filter of each user's session
  snat,     \* SNAT relations: the public endpoint of each private one
  redirects,\* DNAT relations in the order of their numbers
  back,     \* the destination under each source and target
  flight,   \* packets sent out, with what they were
  got       \* the packet delivered to a user by the last step

path == <<filter, snat, redirects, back, flight, got>>

Private == {f.src : f \in Flow}
-----------------------------------------------------------------------------
(* Filters (sw_filter_load_ruleset, sw_filter_match)                       *)

Rules == [x \in Filter |-> Parse(Text[x])]

Number == [tcp |-> 6, udp |-> 17, icmp |-> 1]

(* The address is compared by the outer handler, the protocol and ports by *)
(* those of the rest of the chain, if it goes on.  ICMP has no handler.    *)
MatchPorts(r, src, dst) ==
  src.proto \in {"tcp", "udp"} => MatchPort(r.src, src.port) /\ MatchPort(r.dst, dst.port)

Matches(r, src, dst, flags) ==
  /\ MatchIp(r.src, src.ip) /\ MatchIp(r.dst, dst.ip)
  /\ src.proto # "fragment" => r.proto \in {0, Number[src.proto]} /\ MatchPorts(r, src, dst)
  /\ src.proto = "tcp" => MatchFlags(r, flags)

Pass == [NewRule EXCEPT !.action = {"pass"}]

(* The first rule that matches; what no rule matches passes.               *)
Decisions(rules, src, dst, flags) ==
  LET hits == {i \in DOMAIN rules : Matches(rules[i], src, dst, flags)} IN
  IF hits = {} THEN {Pass}
  ELSE {rules[i] : i \in {i \in hits : \A j \in hits : i <= j}}
-----------------------------------------------------------------------------
(* Writing tuples into a packet.  The tuples it was read into are given    *)
(* again where they changed, or Nothing.                                   *)

Old(org, new) == IF org = Nothing THEN new ELSE org

CommitIp(p, src, dst) ==
  Increment(Decrement(p.ipSum, TRUE, p.src.ip, p.dst.ip), TRUE, src.ip, dst.ip)

(* Mutant of CommitTcp: the old addresses are taken from the new tuples.   *)
CommitTcpNew(p, src, dst, osrc, odst, junk) ==
  LET cs == Decrement(Decrement(p.sum, TRUE, p.src.port, p.dst.port), FALSE, src.ip, dst.ip) IN
  Increment(More(Increment(Less(cs, junk), FALSE, src.ip, dst.ip), junk), TRUE, src.port, dst.port)

(* The ports go, the old addresses of the pseudo header, and the new ones  *)
(* come in their place.  The rest of the pseudo header is not set: what is *)
(* in it goes and comes back.                                              *)
CommitTcp(p, src, dst, osrc, odst, junk) ==
  LET a == Old(osrc, src)
      b == Old(odst, dst)
      cs == Decrement(Decrement(p.sum, TRUE, p.src.port, p.dst.port), FALSE, a.ip, b.ip)
  IN Increment(More(Increment(Less(cs, junk), FALSE, src.ip, dst.ip), junk), TRUE,
               src.port, dst.port)

(* A datagram without a checksum is left without.                          *)
CommitUdp(p, src, dst, osrc, odst, junk) ==
  IF p.sum = 0 THEN 0 ELSE CommitTcp(p, src, dst, osrc, odst, junk)

(* The two ends of an echo have one number: the end that has changed is    *)
(* preferred.                                                              *)
NewSeq(p, src, dst) == IF p.src.port = src.port THEN dst.port ELSE src.port

(* Of a message about an echo the inner source address is replaced, too.   *)
CommitIcmp(p, src, dst) ==
  IF p.inner = 0
  THEN Increment(Decrement(p.sum, TRUE, EchoId, p.src.port), TRUE, EchoId, NewSeq(p, src, dst))
  ELSE Increment(Decrement(p.sum, TRUE, p.inner, p.src.port), TRUE, dst.ip, NewSeq(p, src, dst))

Commit(p, src, dst, osrc, odst, junk) ==
  LET Numbered(e) == IF e.proto = "icmp" THEN [e EXCEPT !.port = NewSeq(p, src, dst)] ELSE e IN
  [src |-> Numbered(src), dst |-> Numbered(dst), ipSum |-> CommitIp(p, src, dst),
   inner |-> IF p.inner = 0 THEN 0 ELSE dst.ip,
   sum |-> CASE src.proto = "tcp" -> CommitTcp(p, src, dst, osrc, odst, junk)
             [] src.proto = "udp" -> CommitUdp(p, src, dst, osrc, odst, junk)
             [] src.proto = "icmp" -> CommitIcmp(p, src, dst)
             [] OTHER -> p.sum]

(* A packet as a host makes it: of the checksums of zero, UDP sends the    *)
(* other one, and zero for none (bare).                                    *)
IpWords(src, dst) == src.ip + dst.ip + Rest

Words(p) ==
  CASE p.src.proto # "icmp" -> p.src.ip + p.dst.ip + p.src.port + p.dst.port + Rest
    [] p.src.proto = "icmp" /\ p.inner = 0 -> EchoId + p.src.port + Rest
    [] OTHER -> p.inner + p.src.port + Rest

Fresh(src, dst, inner, bare) ==
  LET p == [src |-> src, dst |-> dst, inner |-> inner,
            ipSum |-> SenderSum(IpWords(src, dst)), sum |-> 0]
      c == SenderSum(Words(p))
  IN
  [p EXCEPT !.sum = CASE src.proto \in {"tcp", "icmp"} -> c
                      [] src.proto = "udp" -> IF bare THEN 0 ELSE IF c = 0 THEN Base - 1 ELSE c
                      [] OTHER -> 0]
-----------------------------------------------------------------------------
(* Source NAT (sw_nat_src_do, _undo).  Later fragments have one public     *)
(* endpoint for all users: the address.                                    *)

(* Mutant of Publics: any port of the address is taken.                    *)
PublicsOfAll(e) ==
  {[ip |-> PubIp, proto |-> e.proto, port |-> q] : q \in UNION {PubPorts[u] : u \in User}}

Publics(e) ==
  IF e.proto = "fragment" THEN {[ip |-> PubIp, proto |-> e.proto, port |-> 0]}
  ELSE {[ip |-> PubIp, proto |-> e.proto, port |-> q] : q \in PubPorts[e.ip]}

(* The endpoint that had the public one loses it.                          *)
Take(e, q) == [x \in Private |-> IF x = e THEN q ELSE IF snat[x] = q THEN Nothing ELSE snat[x]]

Holders(q) == {e \in Private : snat[e] = q}
-----------------------------------------------------------------------------
(* Destination NAT (sw_nat_dst_endpoint_assign, sw_nat_dst_do).            *)

RedirectedIp(dst, nat) == [dst EXCEPT !.ip = nat.ip]

RedirectedPort(dst, nat) == [dst EXCEPT !.port = nat.port]

(* Mutant of Redirected: only the last handler of a chain redirects.       *)
RedirectedByLast(dst, nat) ==
  IF dst.proto \in {"tcp", "udp"} THEN RedirectedPort(dst, nat) ELSE RedirectedIp(dst, nat)

(* There are handlers for addresses and for the ports of TCP and UDP.      *)
Redirected(dst, nat) ==
  IF dst.proto \in {"tcp", "udp"} THEN RedirectedPort(RedirectedIp(dst, nat), nat)
  ELSE RedirectedIp(dst, nat)

Relation(src, dst, nat) == [src |-> src, dst |-> dst, nat |-> nat]

InUse(rel) == \E i \in DOMAIN redirects : redirects[i] = rel

(* Mutant of Forget: only the relation goes.                               *)
ForgetNone(rel) == back

Forget(rel) == [k \in DOMAIN back \ {<<rel.src, rel.nat>>} |-> back[k]]

(* A new relation takes the number of the oldest when the ring is full,    *)
(* which goes by its keys, and replaces what has its own key.              *)
RedirectDo(src, dst, nat) ==
  LET rel == Relation(src, dst, nat)
      full == Len(redirects) = MaxDnat
      left == IF full THEN Forget(redirects[1]) ELSE back
      key == <<src, nat>>
  IN
  IF InUse(rel) THEN UNCHANGED <<redirects, back>>
  ELSE /\ redirects' = Append(IF full THEN Tail(redirects) ELSE redirects, rel)
       /\ back' = [k \in DOMAIN left \cup {key} |-> IF k = key THEN dst ELSE left[k]]

(* Mutant of Undo: what was never redirected is let through.               *)
UndoOrKeep(e, target) == IF <<e, target>> \in DOMAIN back THEN back[<<e, target>>] ELSE target

(* sw_nat_dst_undo                                                         *)
Undo(e, target) == IF <<e, target>> \in DOMAIN back THEN back[<<e, target>>] ELSE Nothing
-----------------------------------------------------------------------------
(* The daemon stops, or dies, and is started again: its sessions and       *)
(* relations are gone, the packets outside are not.                        *)
Restart ==
  /\ filter' = [u \in User |-> Nothing]
  /\ snat' = [e \in Private |-> Nothing]
  /\ redirects' = <<>> /\ back' = <<>>
  /\ got' = Nothing
  /\ UNCHANGED flight

(* A rule that blocks at a rate, which the grammar admits: the handler     *)
(* knows no such decision and fails, and with it the daemon.               *)
Unexpected(d) == d.action = {"block", "shape"} /\ Restart

(* relay_inward.c: a packet of a user.  What becomes of it is decided,     *)
(* then its destination is redirected and its source translated.  (Between *)
(* the two it is charged to the user, even if no public endpoint is found: *)
(* see Session.)                                                           *)
InwardBy(f, bare, d) ==
  LET dnat == "dnat" \in d.action
      dst == IF dnat THEN Redirected(f.dst, d.nat) ELSE f.dst
      Out(q) == {[pkt |-> Commit(Fresh(f.src, f.dst, 0, bare), q, dst, f.src,
                                 IF dnat THEN f.dst ELSE Nothing, junk),
                  from |-> f.src, to |-> f.dst, by |-> filter[f.src.ip]] : junk \in Junk}
  IN
  /\ "block" \notin d.action
  /\ IF dnat THEN RedirectDo(f.src, f.dst, dst) ELSE UNCHANGED <<redirects, back>>
  /\ \/ /\ snat[f.src] # Nothing
        /\ \E s \in Out(snat[f.src]) : flight' = flight \cup {s}
        /\ UNCHANGED snat
     \/ /\ snat[f.src] = Nothing
        /\ \E q \in Publics(f.src) :
             /\ snat' = Take(f.src, q)
             /\ \E s \in Out(q) : flight' = flight \cup {s}
     \/ /\ snat[f.src] = Nothing   \* every public endpoint is active: dropped
        /\ UNCHANGED <<snat, flight>>
  /\ got' = Nothing
  /\ UNCHANGED filter

Inward(f, bare, flags) ==
  /\ Cardinality(flight) < MaxFlight
  /\ bare => f.src.proto = "udp"
  /\ filter[f.src.ip] # Nothing
  /\ \E d \in Decisions(Rules[filter[f.src.ip]].in, f.src, f.dst, flags) :
       InwardBy(f, bare, d) \/ Unexpected(d)

(* A reply to a packet outside, a later fragment of one, or the message    *)
(* that an echo went too far.                                              *)
Reply(p, kind, bare) ==
  LET Part(e) == [e EXCEPT !.proto = "fragment", !.port = 0] IN
  CASE kind = "answer"   -> Fresh(p.dst, p.src, 0, bare)
    [] kind = "fragment" -> Fresh(Part(p.dst), Part(p.src), 0, bare)
    [] kind = "exceeded" -> Fresh([p.dst EXCEPT !.ip = Router], p.src, p.src.ip, bare)

(* relay_outward.c: the user is found, the filter matched, the source of a *)
(* redirected flow put back, and the packet charged to where it goes.      *)
OutwardBy(s, r, e, d) ==
  LET dnat == "dnat" \in d.action
      src == IF dnat THEN Undo(e, r.src) ELSE r.src
  IN
  /\ "block" \notin d.action /\ src # Nothing
  /\ \E junk \in Junk :
       got' = [pkt |-> Commit(r, src, e, IF dnat THEN r.src ELSE Nothing, r.dst, junk),
               from |-> s.from, to |-> s.to, by |-> s.by, via |-> s.pkt.dst]
  /\ UNCHANGED <<filter, snat, redirects, back, flight>>

Outward(s, kind, bare, flags) ==
  LET r == Reply(s.pkt, kind, bare) IN
  /\ kind = "exceeded" => r.src.proto = "icmp"
  /\ bare => r.src.proto = "udp"
  /\ \E e \in Holders(r.dst) :
       /\ filter[e.ip] # Nothing
       /\ \E d \in Decisions(Rules[filter[e.ip]].out, r.src, e, flags) :
            OutwardBy(s, r, e, d) \/ Unexpected(d)

(* A packet outside is answered no more.                                   *)
Lose(s) ==
  /\ flight' = flight \ {s}
  /\ got' = Nothing
  /\ UNCHANGED <<filter, snat, redirects, back>>

(* A session begins, changes its filter or ends (sw_session_get_filter_id).*)
SetFilter(u, x) ==
  /\ filter[u] # x
  /\ filter' = [filter EXCEPT ![u] = x]
  /\ got' = Nothing
  /\ UNCHANGED <<snat, redirects, back, flight>>
-----------------------------------------------------------------------------
PathInit ==
  /\ filter = [u \in User |-> Nothing]
  /\ snat = [e \in Private |-> Nothing]
  /\ redirects = <<>> /\ back = <<>>
  /\ flight = {} /\ got = Nothing

PathNext ==
  \/ \E f \in Flow, bare \in BOOLEAN, flags \in Segments : Inward(f, bare, flags)
  \/ \E s \in flight, kind \in {"answer", "fragment", "exceeded"}, bare \in BOOLEAN,
       flags \in Segments : Outward(s, kind, bare, flags)
  \/ \E s \in flight : Lose(s)
  \/ \E u \in User, x \in Filter \cup {Nothing} : SetFilter(u, x)
  \/ Restart

PathSpec == PathInit /\ [][PathNext]_path
-----------------------------------------------------------------------------
(* Properties *)

(* Types of the relations and of the packets on their way.                 *)
PathTypeOK ==
  /\ filter \in [User -> Filter \cup {Nothing}]
  /\ snat \in [Private -> Endpoint \cup {Nothing}]
  /\ Len(redirects) <= MaxDnat
  /\ DOMAIN back \subseteq {<<redirects[i].src, redirects[i].nat>> : i \in DOMAIN redirects}
  /\ \A s \in flight : s.pkt \in Packet
  /\ got # Nothing => got.pkt \in Packet

(* A reply goes to the user whose packet it answers, whatever flow has its *)
(* public endpoint by now and whatever became of the sessions, and a       *)
(* message about an echo tells of one that this user has sent; this is not *)
(* so for later fragments, that are not tracked (relay_outward.c:198-225). *)
ToItsUser ==
  got # Nothing /\ got.pkt.dst.proto # "fragment" =>
    got.pkt.dst.ip = got.from.ip /\ got.pkt.inner \in {0, got.from.ip}

(* A reply to a flow whose filter has not changed comes back from the      *)
(* address the user sent to, redirected or not, unless another relation    *)
(* has its way back (relay_inward.c:272-306, relay_outward.c:309-331).     *)
AsAddressed ==
  /\ got # Nothing /\ got.pkt.inner = 0
  /\ got.pkt.dst = got.from /\ filter[got.from.ip] = got.by
  /\ \A i \in DOMAIN redirects :
       redirects[i].src = got.from /\ redirects[i].nat = got.via => redirects[i].dst = got.to
  => got.pkt.src = got.to

(* Every packet that is sent on is accepted where it goes: both checksums  *)
(* are right for the addresses and ports it has now, though each was only  *)
(* corrected for what changed (tuple_ip.c:132-163, tuple_tcp.c:141-198).   *)
Right(p) ==
  /\ Accepts(IpWords(p.src, p.dst) + p.ipSum)
  /\ \/ p.src.proto = "fragment"
     \/ p.src.proto = "udp" /\ p.sum = 0
     \/ Accepts(Words(p) + p.sum)

ChecksumsRight ==
  /\ PathTypeOK
  /\ \A s \in flight : Right(s.pkt)
  /\ got # Nothing => Right(got.pkt)

(* A captive session reaches nothing outside its garden, not even with     *)
(* later fragments, which no rule can tell the ports of                    *)
(* (filter_match_ip.c:59-108, doc/filters/anonymous).                      *)
Confined == \A s \in flight : s.by \in Captive => s.pkt.dst.ip \in Garden

(* What filters the last two suppose.  A filter that lets a packet of a    *)
(* captive session past sends it to the garden; and one that redirects a   *)
(* packet has a rule that redirects what comes back from there (an echo    *)
(* comes back with a number of its public endpoint).                       *)
Walled ==
  \A x \in Captive, f \in Flow, flags \in Segments :
    \A d \in Decisions(Rules[x].in, f.src, f.dst, flags) :
      "block" \in d.action \/ IF "dnat" \in d.action THEN d.nat.ip \in Garden ELSE f.dst.ip \in Garden

Answers(dst) == IF dst.proto = "icmp" THEN {[dst EXCEPT !.port = n] : n \in Word} ELSE {dst}

TwoWay ==
  \A x \in Filter, f \in Flow, flags, others \in Segments :
    \A d \in Decisions(Rules[x].in, f.src, f.dst, flags) :
      "dnat" \in d.action =>
        \A r \in Answers(Redirected(f.dst, d.nat)) : \A o \in Decisions(Rules[x].out, r, f.src, others) :
          {"dnat", "block"} \cap o.action # {}
=============================================================================
