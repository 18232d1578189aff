------------------------------ MODULE FilterText ------------------------------
(***************************************************************************)
(* The language of packet filters: how the text of a filter becomes its    *)
(* rules (filter_scanner.l, filter_parser.y and what is generated of them).*)
(*                                                                         *)
(* A text is a sequence of lexemes.  The grammar is regular: the parser is *)
(* a fold over the tokens, with a place for what may come next.  Of a word *)
(* only its readings matter: as an address (Nowhere if it is none), as the *)
(* name of a protocol (Unknown if it is none) and as letters of TCP flags. *)
(***************************************************************************)
EXTENDS Integers, Sequences

Seqs == INSTANCE SequencesExt

CONSTANTS
  AddrBits,  \* 32
  PortMax,   \* 65535
  ListMax,   \* SW_FILTER_PORTS_MAX
  ShiftAll   \* what the build makes of a word shifted by all its bits

Nowhere == (2 ^ AddrBits) - 1   \* INADDR_NONE, and the mask of one address
Unknown == -1
TCP == 6

ASSUME FilterTextOK ==
  /\ AddrBits \in Nat \ {0} /\ PortMax \in Nat /\ ListMax \in Nat \ {0}
  /\ ShiftAll \in {0, Nowhere}   \* undefined: nothing remains, or everything

Actions == {"block", "pass", "dnat", "shape"}
Letters == {"F", "S", "R", "P", "A", "U"}

(* The clauses of a rule, in the only order they may have.                 *)
Clauses == <<"proto", "from", "to", "flags", "redir", "rate">>

Keywords ==
  Actions \cup {"in", "out", "port", "mask", "eq", "ne", "lt", "le", "gt", "ge"}
    \cup {Clauses[i] : i \in DOMAIN Clauses}

Token(kind) == [kind |-> kind, number |-> 0, ip |-> Nowhere, proto |-> Unknown, flags |-> {"?"}]

NewTarget == [ip |-> 0, mask |-> 0, op |-> "none", ports |-> <<>>, lo |-> 0, hi |-> 0]

NewRule ==
  [num |-> 0, action |-> {}, dir |-> "none", proto |-> 0, src |-> NewTarget, dst |-> NewTarget,
   set |-> {}, mask |-> {}, nat |-> [ip |-> 0, port |-> 0], rate |-> 0]
-----------------------------------------------------------------------------
(* The scanner leaves out comments, to the end of their lines, and blanks. *)
Scan(text) ==
  Seqs!FoldLeft(LAMBDA s, x :
             CASE x.kind = "newline"                -> [s EXCEPT !.comment = FALSE]
               [] x.kind = "#"                      -> [s EXCEPT !.comment = TRUE]
               [] x.kind \notin {"newline", "#"}    ->
                    IF s.comment THEN s ELSE [s EXCEPT !.tokens = Append(@, x)],
           [comment |-> FALSE, tokens |-> <<>>], text).tokens
-----------------------------------------------------------------------------
(* The parser.  at is where in a clause it is, seen are the clauses of the *)
(* rule so far, end is the target that a clause is about, first a number   *)
(* that is kept, in and out are ruleset_in and ruleset_out.                *)

Start ==
  [at |-> "rule", seen |-> {}, rule |-> NewRule, end |-> "src", first |-> 0,
   in |-> <<>>, out |-> <<>>, result |-> "parsing"]

Goes(p, at) == [p EXCEPT !.at = at]
Refuse(p) == [p EXCEPT !.result = "refused"]
Crash(p) == [p EXCEPT !.result = "crashed"]

Expect(p, x, kind, q) == IF x.kind = kind THEN q ELSE Refuse(p)

(* portnum *)
ExpectPort(p, x, q) == IF x.kind = "NUMBER" /\ x.number <= PortMax THEN q ELSE Refuse(p)

Aim(p, target) ==
  IF p.end = "src" THEN [p EXCEPT !.rule.src = target] ELSE [p EXCEPT !.rule.dst = target]

Target(p) == IF p.end = "src" THEN p.rule.src ELSE p.rule.dst

(* rule: it goes to the end of the rules of its direction.                 *)
Rule(p) ==
  IF p.rule.dir = "in" THEN [p EXCEPT !.in = Append(@, [p.rule EXCEPT !.num = Len(p.in)])]
  ELSE [p EXCEPT !.out = Append(@, [p.rule EXCEPT !.num = Len(p.out)])]

(* ruleset, action *)
Ruleset(p, x) ==
  LET q == [p EXCEPT !.rule = NewRule, !.seen = {}] IN
  CASE x.kind = "end"   -> [p EXCEPT !.result = "parsed"]
    [] x.kind = "shape" -> Goes(q, "shape")
    [] x.kind \in Actions \ {"shape"} -> Goes([q EXCEPT !.rule.action = {x.kind}], "dir")
    [] OTHER            -> Refuse(p)

Shape(p, x) ==
  IF p.at = "shape" THEN Expect(p, x, "rate", Goes(p, "shape rate"))
  ELSE Expect(p, x, "NUMBER",
              Goes([p EXCEPT !.rule.action = {"shape"}, !.rule.rate = x.number], "dir"))

(* markin, markout *)
Mark(p, x) ==
  IF x.kind \in {"in", "out"} THEN Goes([p EXCEPT !.rule.dir = x.kind], "clause") ELSE Refuse(p)

(* A clause that may follow, or the end of the rule.  Flags need a         *)
(* protocol before them, and only packets that come in are redirected.     *)
Clause(p, x) ==
  IF x.kind \in Actions \cup {"end"} THEN Ruleset(Rule(p), x)
  ELSE IF /\ \E i \in DOMAIN Clauses :
               Clauses[i] = x.kind /\ \A j \in i .. Len(Clauses) : Clauses[j] \notin p.seen
          /\ x.kind = "flags" => "proto" \in p.seen
          /\ x.kind = "redir" => p.rule.dir = "in"
       THEN [p EXCEPT !.at = x.kind, !.seen = @ \cup {x.kind},
                      !.end = CASE x.kind = "from" -> "src" [] x.kind = "to" -> "dst"
                                [] OTHER -> @]
       ELSE Refuse(p)

(* A name that is no protocol is logged, and then used.                    *)
Protocol(p, x) ==
  CASE x.kind = "NUMBER" -> Goes([p EXCEPT !.rule.proto = x.number % 256], "clause")
    [] x.kind = "STRING" -> IF x.proto = Unknown THEN Crash(p)
                            ELSE Goes([p EXCEPT !.rule.proto = x.proto], "clause")
    [] OTHER             -> Refuse(p)

(* object, hostname: what is no address is taken for the last of them.     *)
Object(p, x) ==
  CASE x.kind = "STRING" -> Goes(Aim(p, [Target(p) EXCEPT !.ip = x.ip, !.mask = Nowhere]), "host")
    [] x.kind = "port"   -> Goes(p, "port")
    [] OTHER             -> Refuse(p)

Host(p, x) ==
  CASE x.kind = "/"                    -> Goes(p, "cidr")
    [] x.kind = "mask"                 -> Goes(p, "mask")
    [] x.kind = "port"                 -> Goes(p, "port")
    [] x.kind \notin {"/", "mask", "port"} -> Clause(p, x)

(* ipv4mask *)
Prefix(n) == IF n = 0 THEN ShiftAll ELSE 2 ^ AddrBits - 2 ^ (AddrBits - n)

Mask(p, x) ==
  LET Masked(m) == Goes(Aim(p, [Target(p) EXCEPT !.mask = m]), "network") IN
  IF p.at = "mask" THEN Expect(p, x, "STRING", Masked(x.ip))
  ELSE IF x.kind = "NUMBER" /\ x.number <= AddrBits THEN Masked(Prefix(x.number)) ELSE Refuse(p)

Network(p, x) == IF x.kind = "port" THEN Goes(p, "port") ELSE Clause(p, x)

(* port, portcomp, portrange *)
Port(p, x) ==
  LET Compared == Aim(p, [Target(p) EXCEPT !.op = x.kind]) IN
  CASE x.kind \in {"eq", "ne"}             -> Goes(Compared, "list")
    [] x.kind \in {"lt", "le", "gt", "ge"} -> Goes(Compared, "compare")
    [] x.kind = "NUMBER"                   -> ExpectPort(p, x, Goes([p EXCEPT !.first = x.number], "range"))
    [] OTHER                               -> Refuse(p)

(* portnums: the second port of a list is read into the place of the first *)
(* and the first put behind it; what is too much for a list is left out.   *)
List(p, x) ==
  LET Add(ports) == IF Len(ports) = 1 THEN <<x.number>> \o ports
                    ELSE IF Len(ports) < ListMax THEN Append(ports, x.number) ELSE ports
  IN ExpectPort(p, x, Goes(Aim(p, [Target(p) EXCEPT !.ports = Add(@)]), "listed"))

Listed(p, x) == IF x.kind = "," THEN Goes(p, "list") ELSE Clause(p, x)

(* A rule without a protocol has no comparison or range, though a list.    *)
WithProto(p, q) == IF p.rule.proto = 0 THEN Refuse(p) ELSE q

Compare(p, x) ==
  ExpectPort(p, x, WithProto(p, Goes(Aim(p, [Target(p) EXCEPT !.ports = <<x.number>>]), "clause")))

PortRange(p, x) ==
  IF p.at = "range" THEN Expect(p, x, ":", Goes(p, "upper"))
  ELSE ExpectPort(p, x, WithProto(p,
         Goes(Aim(p, [Target(p) EXCEPT !.op = "rg", !.lo = p.first, !.hi = x.number]), "clause")))

(* flagset: flags make it a rule for TCP.                                  *)
Flags(p, x) ==
  LET q == [p EXCEPT !.rule.set = x.flags, !.rule.proto = IF @ = 0 THEN TCP ELSE @] IN
  IF x.kind = "STRING" /\ x.flags \subseteq Letters THEN Goes(q, "flagged") ELSE Refuse(p)

Flagged(p, x) == IF x.kind = "/" THEN Goes(p, "flagmask") ELSE Clause(p, x)

FlagMask(p, x) ==
  IF x.kind = "STRING" /\ x.flags \subseteq Letters
  THEN Goes([p EXCEPT !.rule.mask = x.flags], "clause") ELSE Refuse(p)

Redir(p, x) ==
  CASE p.at = "redir"      -> Expect(p, x, "to", Goes(p, "redir to"))
    [] p.at = "redir to"   -> Expect(p, x, "STRING", Goes([p EXCEPT !.first = x.ip], "redir host"))
    [] p.at = "redir host" -> Expect(p, x, "port", Goes(p, "redir port"))
    [] p.at = "redir port" ->
         ExpectPort(p, x, Goes([p EXCEPT !.rule.nat = [ip |-> p.first, port |-> x.number]], "clause"))

Rate(p, x) ==
  Expect(p, x, "NUMBER",
         Goes([p EXCEPT !.rule.action = @ \cup {"shape"}, !.rule.rate = x.number], "clause"))

Step(p, x) ==
  CASE p.result # "parsing"                -> p
    [] p.at = "rule"                       -> Ruleset(p, x)
    [] p.at \in {"shape", "shape rate"}    -> Shape(p, x)
    [] p.at = "dir"                        -> Mark(p, x)
    [] p.at = "clause"                     -> Clause(p, x)
    [] p.at = "proto"                      -> Protocol(p, x)
    [] p.at \in {"from", "to"}             -> Object(p, x)
    [] p.at = "host"                       -> Host(p, x)
    [] p.at \in {"cidr", "mask"}           -> Mask(p, x)
    [] p.at = "network"                    -> Network(p, x)
    [] p.at = "port"                       -> Port(p, x)
    [] p.at = "list"                       -> List(p, x)
    [] p.at = "listed"                     -> Listed(p, x)
    [] p.at = "compare"                    -> Compare(p, x)
    [] p.at \in {"range", "upper"}         -> PortRange(p, x)
    [] p.at = "flags"                      -> Flags(p, x)
    [] p.at = "flagged"                    -> Flagged(p, x)
    [] p.at = "flagmask"                   -> FlagMask(p, x)
    [] p.at \in {"redir", "redir to", "redir host", "redir port"} -> Redir(p, x)
    [] p.at = "rate"                       -> Rate(p, x)

(* sw_filter_parse_ruleset: of a text that is refused, no rules are given. *)
Parse(text) ==
  LET p == Seqs!FoldLeft(Step, Start, Append(Scan(text), Token("end"))) IN
  IF p.result = "parsed" THEN [result |-> "parsed", in |-> p.in, out |-> p.out]
  ELSE [result |-> p.result, in |-> <<>>, out |-> <<>>]
-----------------------------------------------------------------------------
(* Matching (filter_match_ip.c, filter_match_tcp.c, filter_match_udp.c)    *)

Bits(word) == {i \in 0 .. AddrBits - 1 : (word \div 2 ^ i) % 2 = 1}

(* An address of zero is any; the address of a network is compared as it   *)
(* was written, with all its bits.                                         *)
MatchIp(target, ip) == target.ip = 0 \/ Bits(target.ip) = Bits(target.mask) \cap Bits(ip)

(* A port that differs from one of a list is not equal to the list.        *)
MatchPort(target, port) ==
  IF target.op = "rg" THEN (target.lo = 0 /\ target.hi = 0) \/ port \in target.lo .. target.hi
  ELSE \/ target.ports = <<>>
       \/ (target.op = "eq" /\ \E i \in DOMAIN target.ports : target.ports[i] = port)
       \/ (target.op = "ne" /\ \E i \in DOMAIN target.ports : target.ports[i] # port)
       \/ (target.op = "lt" /\ port < target.ports[1])
       \/ (target.op = "le" /\ port <= target.ports[1])
       \/ (target.op = "gt" /\ port > target.ports[1])
       \/ (target.op = "ge" /\ port >= target.ports[1])

(* Flags without a mask are not looked at.                                 *)
MatchFlags(r, flags) == r.mask # {} => r.set = r.mask \cap flags
=============================================================================
