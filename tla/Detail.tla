-------------------------------- MODULE Detail --------------------------------
(***************************************************************************)
(* What an accounting record says: the parts its scope handlers fill       *)
(* (acct_scope_*.c) from what they read of the session, the gauge and the  *)
(* SNAT endpoints, and the attributes the detail method writes of each     *)
(* part (acct_method_detail*.c).  When a record is built, and what becomes *)
(* of one that cannot be, is AcctQueue and Accounting.                     *)
(*                                                                         *)
(* Attributes are a set of <<name, value>> pairs; their wording is left    *)
(* out.  An absent entry of a hash, and a part whose handler failed, are   *)
(* Absent.  A gauge is read under its lock three times, so that the parts  *)
(* of a record may be of different moments.                                *)
(***************************************************************************)
EXTENDS Integers, Sequences

CONSTANTS
  Word,       \* 2^32
  Unlimited,  \* 0xfffffffffff70000
  Absent,     \* no entry, no part
  LastId      \* 0x7fffffff, the last session id

ASSUME DetailAssumption ==
  Word \in Nat \ {0} /\ Unlimited \in Nat /\ LastId \in Nat \ {0}

RecordType == {"start", "stop", "interim", "stop_time"}

Ending == {"stop", "stop_time"}

Given(condition, name, value) == IF condition THEN {<<name, value>>} ELSE {}

(* The id of a new session and the one after it: at LastId the counter     *)
(* starts again, but so does the session that noticed it.                  *)
SessionIds(source) ==
  IF source >= LastId THEN [id |-> 1, source |-> 1] ELSE [id |-> source, source |-> source + 1]
-----------------------------------------------------------------------------
(* The parts *)

EventPart(type, now, context) == [type |-> type, timestamp |-> now, context |-> context]

NoSlot == 2147483647    \* SW_FILTER_ID_NONE

(* What sw_filter_get_name answers: an empty name for a session without a  *)
(* filter, Absent for an emptied slot.                                     *)
FilterName(slots, idx) == IF idx = NoSlot THEN "" ELSE slots[idx]

(* What sw_session_status_nonblock reads of a session.                     *)
SessionStatus(s, slots) ==
  IF s = Absent \/ FilterName(slots, s.filter) = Absent THEN Absent
  ELSE [id |-> s.id, filter |-> FilterName(slots, s.filter), context |-> s.context,
        cause |-> s.cause]

SessionPart(ip, s, slots, type) ==
  IF SessionStatus(s, slots) = Absent THEN Absent
  ELSE [ip |-> ip, type |-> type, status |-> SessionStatus(s, slots)]

Limits(g) ==
  [octets_in |-> g.max_octets_in, octets_out |-> g.max_octets_out, bps_in |-> g.max_bps_in,
   bps_out |-> g.max_bps_out, duration |-> g.max_duration, idle |-> g.max_idle]

(* A gauge knows when it ends, not when it began.                          *)
Current(g, now) ==
  [octets_in |-> g.octets_in, octets_out |-> g.octets_out, packets_in |-> g.packets_in,
   packets_out |-> g.packets_out, duration |-> now - (g.deathday - g.max_duration),
   idle |-> now - g.idle]

Peak(g) == [bps_in |-> g.peak_bps_in, bps_out |-> g.peak_bps_out]

NoCounts ==
  [octets_in |-> 0, octets_out |-> 0, packets_in |-> 0, packets_out |-> 0, duration |-> 0,
   idle |-> 0]

(* The three readings of the gauge.  Whether the record ends a session     *)
(* that ran out of time is asked of the part that is being filled, where   *)
(* the type is not yet: its counters stay zero.                            *)
GaugePart(limits, current, peak, type, now) ==
  LET counted == type \in {"interim", "stop"}
  IN
  IF limits = Absent \/ (counted /\ Absent \in {current, peak}) THEN Absent
  ELSE [type |-> type, limits |-> Limits(limits),
        counts |-> IF counted THEN Current(current, now) ELSE NoCounts,
        peak |-> IF counted THEN Peak(peak) ELSE [bps_in |-> 0, bps_out |-> 0]]

(* What the endpoints of a user answer about his public address, ports and *)
(* sequences.                                                              *)
PublicIp(e) == IF e = Absent THEN Absent ELSE e.pub_ip

PublicPorts(e) == IF e = Absent THEN Absent ELSE <<e.lport, e.hport>>

PublicSeqs(e) == IF e = Absent THEN Absent ELSE <<e.lseq, e.hseq>>

Unread == [ip |-> Absent]

(* The part is left empty when SNAT is off.                                *)
SnatPart(enabled, ends) ==
  LET answers == [ip |-> PublicIp(ends.ip), udp |-> PublicPorts(ends.udp),
                  tcp |-> PublicPorts(ends.tcp), icmp |-> PublicSeqs(ends.icmp)]
  IN CASE ~enabled -> Unread
       [] enabled /\ \E f \in DOMAIN answers : answers[f] = Absent -> Absent
       [] OTHER -> answers
-----------------------------------------------------------------------------
(* The attributes *)

EventText(p) ==
  {<<"Acct-Status-Type", CASE p.type = "start" -> "Start"
                           [] p.type \in Ending -> "Stop"
                           [] p.type = "interim" -> "Interim-Update">>,
   <<"Event-Timestamp", p.timestamp>>}
  \cup Given(p.context # "", "Sweet-Event-Context", p.context)

CauseText(cause) ==
  CASE cause = "idle" -> "Idle-Timeout"
    [] cause = "time" -> "Session-Timeout"
    [] cause = "volume" -> "Service-Unavailable"
    [] cause = "admin" -> "Admin-Reset"
    [] cause = "user" -> "User-Request"
    [] OTHER -> "NAS-Error"

SessionText(p) ==
  {<<"Acct-Session-Id", p.status.id>>, <<"Service-Type", "Login">>,
   <<"Framed-IP-Address", p.ip>>}
  \cup Given(p.status.filter # "", "Filter-Id", p.status.filter)
  \cup Given(p.type \in Ending, "Acct-Terminate-Cause", CauseText(p.status.cause))
  \cup Given(p.type \in Ending /\ p.status.cause = "volume",
             "Sweet-Session-Terminate-Cause", "Traffic-Exhausted")
  \cup Given(p.status.context # Absent, "Sweet-Session-Context", p.status.context)

(* Octets in two words; the upper one is left out when the lower is zero.  *)
OctetsText(name, gigawords, octets) ==
  {<<name, octets % Word>>} \cup Given(octets % Word # 0, gigawords, octets \div Word)

CountsText(p) ==
  OctetsText("Acct-Input-Octets", "Acct-Input-Gigawords", p.counts.octets_in)
  \cup OctetsText("Acct-Output-Octets", "Acct-Output-Gigawords", p.counts.octets_out)
  \cup {<<"Acct-Input-Packets", p.counts.packets_in % Word>>,
        <<"Acct-Output-Packets", p.counts.packets_out % Word>>,
        <<"Bandwidth-Max-Up", p.peak.bps_in>>, <<"Bandwidth-Max-Down", p.peak.bps_out>>,
        <<"Acct-Session-Time", p.counts.duration - p.counts.idle>>}

GaugeText(p, delay) ==
  {<<"Acct-Delay-Time", delay>>, <<"Sweet-Max-Duration", p.limits.duration>>,
   <<"Sweet-Max-Idle", p.limits.idle>>}
  \cup (IF p.type = "start" THEN {} ELSE CountsText(p))
  \cup Given(p.limits.octets_in # Unlimited, "Sweet-Max-Octets-In", p.limits.octets_in)
  \cup Given(p.limits.octets_out # Unlimited, "Sweet-Max-Octets-Out", p.limits.octets_out)
  \cup Given(p.limits.bps_in # Unlimited, "Sweet-Max-Bps-Up", p.limits.bps_in)
  \cup Given(p.limits.bps_out # Unlimited, "Sweet-Max-Bps-Down", p.limits.bps_out)

SnatText(p) ==
  IF p = Unread THEN {}
  ELSE {<<"Sweet-SNAT-IP-Address", p.ip>>,
        <<"Sweet-SNAT-TCP-Port-Low", p.tcp[1]>>, <<"Sweet-SNAT-TCP-Port-High", p.tcp[2]>>,
        <<"Sweet-SNAT-UDP-Port-Low", p.udp[1]>>, <<"Sweet-SNAT-UDP-Port-High", p.udp[2]>>,
        <<"Sweet-SNAT-ICMP-Seq-Low", p.icmp[1]>>, <<"Sweet-SNAT-ICMP-Seq-High", p.icmp[2]>>}

(* The parts of a record in the order of the handlers: each writes its own *)
(* and calls the next, and a record that broke off before its last part is *)
(* written as far as it goes.                                              *)
DetailText(parts, delay) ==
  UNION {(CASE i = 1 -> EventText(parts[i])
            [] i = 2 -> SessionText(parts[i])
            [] i = 3 -> GaugeText(parts[i], delay)
            [] i = 4 -> SnatText(parts[i])) : i \in DOMAIN parts}
=============================================================================
