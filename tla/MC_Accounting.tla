--------------------------- MODULE MC_Accounting ----------------------------
(* Small instances of Accounting for TLC, and what Detail makes of the     *)
(* records for every small gauge.                                          *)
EXTENDS Accounting, Detail

(* Nothing is counted without relays.                                      *)
OneLimit == {None}

(* The job of a thread that is between jobs is written before it is read.  *)
LiveAccounting ==
  <<session, gauge, shaped, loaded, ledger, pc, todo, served, queue,
    [t \in Thread |-> IF pc[t] \in {"idle", "gauges", "sessions"} THEN "none" ELSE job[t]]>>
-----------------------------------------------------------------------------
Slots == [i \in 0 .. 1 |-> IF i = 0 THEN "anon" ELSE Absent]

Ends == [ip |-> [pub_ip |-> 5], udp |-> [lport |-> 1, hport |-> 2],
         tcp |-> [lport |-> 1, hport |-> 2], icmp |-> [lseq |-> 0, hseq |-> 3]]

MeterOf(octets, limit) ==
  [octets_in |-> octets, octets_out |-> 1, packets_in |-> 1, packets_out |-> 1,
   peak_bps_in |-> 2, peak_bps_out |-> 1, max_octets_in |-> limit, max_octets_out |-> limit,
   max_bps_in |-> limit, max_bps_out |-> limit, max_duration |-> 9, max_idle |-> 5,
   deathday |-> 12, idle |-> 6]

Meters == {MeterOf(o, l) : o \in 0 .. Word * Word - 1, l \in {1, Unlimited}}

SessionsRead ==
  [id : 1 .. LastId, filter : {0, NoSlot}, context : {Absent, "plan"},
   cause : {"idle", "time", "volume", "admin", "user"}]

Parts(type, s, g) ==
  <<EventPart(type, 7, ""), SessionPart(9, s, Slots, type), GaugePart(g, g, g, type, 7),
    SnatPart(TRUE, Ends)>>

Detailed(type, s, g) == DetailText(Parts(type, s, g), 0)

Anyone == CHOOSE s \in SessionsRead : TRUE

AnyMeter == MeterOf(5, 1)

ValueOf(text, name) == (CHOOSE a \in text : a[1] = name)[2]

Says(text, name) == \E a \in text : a[1] = name

(* The octets a collector makes of the two words of a record.              *)
Collected(text, octets, gigawords) ==
  ValueOf(text, octets)
  + (IF Says(text, gigawords) THEN Word * ValueOf(text, gigawords) ELSE 0)

(* No attribute is written twice, whatever the record and its parts.       *)
ASSUME AttributesOnce ==
  \A type \in RecordType, s \in SessionsRead, l \in {1, Unlimited} :
    LET text == Detailed(type, s, MeterOf(5, l)) IN
    \A a, b \in text : a[1] = b[1] => a = b

(* Records of a session that is up, or that a user or an operator ended,   *)
(* carry its octets, except that whole multiples of 2^32 are read as none. *)
ASSUME OctetsCollected ==
  \A type \in {"stop", "interim"}, g \in Meters :
    Collected(Detailed(type, Anyone, g), "Acct-Input-Octets", "Acct-Input-Gigawords") =
      IF g.octets_in % Word = 0 THEN 0 ELSE g.octets_in

(* A stop for lack of time or of traffic carries no octets and no time.    *)
ASSUME TimedOutEmpty ==
  \A g \in Meters :
    LET text == Detailed("stop_time", Anyone, g) IN
    /\ Collected(text, "Acct-Input-Octets", "Acct-Input-Gigawords") = 0
    /\ ValueOf(text, "Acct-Session-Time") = 0
    /\ ValueOf(text, "Acct-Status-Type") = "Stop"

(* The session time ends with the last packet: 7 - 3 less 7 - 6 seconds.   *)
ASSUME TimeUntilLastPacket ==
  ValueOf(Detailed("stop", Anyone, AnyMeter), "Acct-Session-Time") = 3

(* A start says nothing of traffic and gives no cause.                     *)
ASSUME StartsEmpty ==
  \A s \in SessionsRead :
    LET text == Detailed("start", s, AnyMeter) IN
    ~Says(text, "Acct-Input-Octets") /\ ~Says(text, "Acct-Terminate-Cause")

(* A record that broke off names the user at the most; one whose filter    *)
(* was emptied, whose gauge is gone or that lacks an endpoint breaks off.  *)
ASSUME BreaksOff ==
  /\ SessionPart(9, [Anyone EXCEPT !.filter = 1], Slots, "stop") = Absent
  /\ SessionPart(9, Absent, Slots, "stop") = Absent
  /\ GaugePart(Absent, Absent, Absent, "stop_time", 7) = Absent
  /\ GaugePart(AnyMeter, AnyMeter, Absent, "interim", 7) = Absent
  /\ GaugePart(AnyMeter, Absent, Absent, "start", 7) # Absent
  /\ \A f \in DOMAIN Ends : SnatPart(TRUE, [Ends EXCEPT ![f] = Absent]) = Absent
  /\ SnatText(SnatPart(FALSE, Ends)) = {}
  /\ LET text == DetailText(SubSeq(Parts("stop", Anyone, AnyMeter), 1, 2), 0) IN
     Says(text, "Framed-IP-Address") /\ ~Says(text, "Acct-Input-Octets")

(* Ids of sessions are different until LastId, where two running sessions  *)
(* may both have the first.                                                *)
ASSUME IdsGiven ==
  LET Source[n \in 1 .. LastId + 1] ==
        IF n = 1 THEN 1 ELSE SessionIds(Source[n - 1]).source
      Id == [n \in DOMAIN Source |-> SessionIds(Source[n]).id]
  IN
  /\ \A m, n \in 1 .. LastId - 1 : Id[m] = Id[n] => m = n
  /\ Id[LastId] = 1 /\ Id[LastId + 1] = 1
=============================================================================
