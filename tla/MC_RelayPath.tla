----------------------------- MODULE MC_RelayPath -----------------------------
(* A small instance of RelayPath for TLC: a captive filter, the text of    *)
(* doc/filters/anonymous, and one that shapes and blocks a little; and     *)
(* texts that FilterText is evaluated on.                                  *)
EXTENDS RelayPath, Link

CONSTANTS captive, open

u1 == 1
u2 == 2
dns == 5
portal == 9
s1 == 13
s2 == 14

EP(ip, proto, port) == [ip |-> ip, proto |-> proto, port |-> port]

Flows ==
  {[src |-> EP(u1, "tcp", 12), dst |-> EP(s1, "tcp", 8)],
   [src |-> EP(u1, "tcp", 12), dst |-> EP(s2, "tcp", 8)],
   [src |-> EP(u2, "icmp", 12), dst |-> EP(s1, "icmp", 12)],
   [src |-> EP(u1, "icmp", 13), dst |-> EP(s1, "icmp", 13)],
   [src |-> EP(u1, "udp", 12), dst |-> EP(dns, "udp", 6)],
   [src |-> EP(u2, "fragment", 0), dst |-> EP(s1, "fragment", 0)]}

Ports == [u \in {u1, u2} |-> IF u = u1 THEN {2} ELSE {4}]

W(kind) == Token(kind)
N(n) == [Token("NUMBER") EXCEPT !.number = n]
Ip(ip) == [Token("STRING") EXCEPT !.ip = ip]
P(proto) == [Token("STRING") EXCEPT !.proto = proto]
F(flags) == [Token("STRING") EXCEPT !.flags = flags]

Newline == <<W("newline")>>

Texts ==
  [f \in {captive, open} |->
     IF f = captive
     THEN <<W("#"), W("pass"), W("newline")>>
          \o <<W("pass"), W("in"), W("proto"), P(17), W("to"), Ip(dns), W("port"), W("eq"), N(6)>>
          \o <<W("pass"), W("out"), W("proto"), P(17), W("from"), Ip(dns), W("port"), W("eq"), N(6)>>
          \o Newline
          \o <<W("dnat"), W("in"), W("proto"), P(6), W("to"), W("port"), W("eq"), N(8),
               W("redir"), W("to"), Ip(portal), W("port"), N(7)>>
          \o <<W("dnat"), W("out"), W("proto"), P(6), W("from"), Ip(portal),
               W("port"), W("eq"), N(7)>>
          \o Newline \o <<W("block"), W("in"), W("block"), W("out")>>
     ELSE <<W("shape"), W("rate"), N(4), W("in"), W("proto"), P(1), W("to"), Ip(12), W("/"), N(3)>>
          \o <<W("block"), W("in"), W("proto"), P(6), W("flags"), F({"F"}), W("/"), F({"F"}),
               W("rate"), N(3)>>
          \o <<W("block"), W("in"), W("proto"), P(6), W("to"), W("port"), W("ne"), N(8)>>]
-----------------------------------------------------------------------------
(* Every rule of a few kinds is read from the text that says it, also      *)
(* behind another rule.                                                    *)

Targets ==
  {<<<<>>, NewTarget>>,
   <<<<Ip(5)>>, [NewTarget EXCEPT !.ip = 5, !.mask = 15]>>,
   <<<<Ip(4), W("/"), N(2)>>, [NewTarget EXCEPT !.ip = 4, !.mask = 12]>>,
   <<<<Ip(4), W("mask"), Ip(14), W("port"), W("gt"), N(9)>>,
     [NewTarget EXCEPT !.ip = 4, !.mask = 14, !.op = "gt", !.ports = <<9>>]>>,
   <<<<W("port"), N(3), W(":"), N(5)>>, [NewTarget EXCEPT !.op = "rg", !.lo = 3, !.hi = 5]>>,
   <<<<W("port"), W("eq"), N(3), W(","), N(5), W(","), N(7), W(","), N(8)>>,
     [NewTarget EXCEPT !.op = "eq", !.ports = <<5, 3, 7>>]>>}

Part(words, part) == IF part[1] = <<>> THEN <<>> ELSE words \o part[1]

ASSUME RulesRead ==
  \A action \in {"block", "pass", "dnat"}, dir \in {"in", "out"}, src \in Targets, dst \in Targets,
    flags \in {{}, {"S"}}, rate \in {0, 7} :
    LET text == <<W(action), W(dir), W("proto"), P(6)>> \o Part(<<W("from")>>, src)
                \o Part(<<W("to")>>, dst)
                \o (IF flags = {} THEN <<>>
                    ELSE <<W("flags"), F(flags), W("/"), F({"S", "A"})>>)
                \o (IF rate = 0 THEN <<>> ELSE <<W("rate"), N(rate)>>)
        rule == [NewRule EXCEPT !.action = {action} \cup (IF rate = 0 THEN {} ELSE {"shape"}),
                                !.dir = dir, !.proto = 6, !.src = src[2], !.dst = dst[2],
                                !.set = flags, !.mask = IF flags = {} THEN {} ELSE {"S", "A"},
                                !.rate = rate]
        both == Parse(<<W("pass"), W("in")>> \o text)
    IN
    /\ IF dir = "in" THEN both.in[2] = [rule EXCEPT !.num = 1] ELSE both.out = <<rule>>
    /\ Parse(text)[dir] = <<rule>>

(* What is refused: clauses in another order, flags or a range without a   *)
(* protocol, a redirection of what goes out, numbers that are too large.   *)
(* An unknown protocol ends the daemon; a list needs no protocol.          *)
ASSUME TextsRefused ==
  \A t \in {<<W("pass")>>, <<W("shape"), W("in")>>,
            <<W("pass"), W("in"), W("to"), Ip(5), W("from"), Ip(4)>>,
            <<W("pass"), W("in"), W("flags"), F({"S"})>>,
            <<W("pass"), W("in"), W("proto"), N(6), W("flags"), F({"X"})>>,
            <<W("pass"), W("in"), W("from"), W("port"), N(3), W(":"), N(5)>>,
            <<W("dnat"), W("out"), W("redir"), W("to"), Ip(5), W("port"), N(7)>>,
            <<W("pass"), W("in"), W("from"), Ip(5), W("/"), N(5)>>,
            <<W("pass"), W("in"), W("from"), W("port"), W("eq"), N(16)>>} :
    Parse(<<W("block"), W("in")>> \o t) = [result |-> "refused", in |-> <<>>, out |-> <<>>]

ASSUME TextsOdd ==
  /\ Parse(<<W("pass"), W("in"), W("proto"), P(Unknown)>>).result = "crashed"
  /\ Parse(<<W("pass"), W("in"), W("to"), W("port"), W("ne"), N(3)>>).in[1].proto = 0
  /\ Parse(<<W("#"), W("pass"), W("newline")>>) = [result |-> "parsed", in |-> <<>>, out |-> <<>>]
  /\ LET net == Parse(<<W("pass"), W("in"), W("from"), Ip(5), W("/"), N(3)>>).in[1].src IN
     \A ip \in 1 .. 15 : ~MatchIp(net, ip)   \* an address with bits outside its mask
  /\ LET list == Parse(<<W("pass"), W("in"), W("to"), W("port"), W("ne"), N(3), W(","), N(4)>>)
     IN \A port \in 0 .. PortMax : MatchPort(list.in[1].dst, port)

(* The filters of the instance are what the theorems about them suppose.   *)
ASSUME FiltersAsSupposed == Walled /\ TwoWay

(* What is sent is a whole packet without the padding behind it, and what  *)
(* is for the local networks goes to no address; a broadcast the kernel    *)
(* denies counts as sent.                                                  *)
ASSUME WholePackets ==
  \A total, length \in 1 .. 3, dst \in Station, answer \in {"sent", "denied", "fails"} :
    LET it == Send([total |-> total, dst |-> dst], length, answer) IN
    /\ it.frames \subseteq {[length |-> total, to |-> IF dst \in Local THEN Anywhere ELSE dst]}
    /\ it.frames # {} <=> total <= length /\ answer = "sent"
    /\ it.rc = Failed <=> total > length \/ answer = "fails"

(* A frame the daemon sent itself is only read when nothing is ignored.    *)
ASSUME OwnFrames ==
  \A octets \in -1 .. 2, ignored, outgoing \in BOOLEAN :
    Recv([octets |-> octets, outgoing |-> outgoing], ignored) =
      IF octets > 0 /\ ignored /\ outgoing THEN 0 ELSE octets
=============================================================================
