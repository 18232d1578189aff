------------------------- MODULE Accounting_proofs -------------------------
(* Theorems about Session and about Accounting, which extends it with the  *)
(* queue, for any number of addresses, threads, filters and requests.      *)
EXTENDS Accounting, FiniteSetTheorems, TLAPS

(* Assumes nothing but the types: what runs under the bucket lock leaves   *)
(* an entry behind, and at most one record to submit.                      *)
LEMMA OnEntryType ==
  ASSUME NEW t \in Thread, NEW s \in Entry, NEW first \in BOOLEAN,
         loaded \subseteq Name, job[t] \in Job
  PROVE  /\ OnEntry(t, s, first).entry \in Entry
         /\ OnEntry(t, s, first).event \in Event
<1> DEFINE name == job[t].name
<1>1. name \in Name \cup {Empty, Null}
  BY DEF Job
<1>2. StopFilter(s, name) \in Name
  BY <1>1, ConstantsOK DEF StopFilter, Entry
<1>3. /\ StartOn(s, name).entry \in Entry
      /\ StartOn(s, name).event \in Event
  BY <1>1 DEF StartOn, Entry, Event
<1>4. /\ StopOn(s, name, first).entry \in Entry
      /\ StopOn(s, name, first).event \in Event
  BY <1>1, <1>2 DEF StopOn, Entry, Event
<1> QED
  BY <1>3, <1>4 DEF OnEntry, Event

LEMMA ApplyToType ==
  ASSUME TypeOK, NEW t \in Thread, NEW s \in Entry, ApplyTo(t, s)
  PROVE  /\ session' \in [IP -> Entry \cup {NoEntry}]
         /\ job' \in [Thread -> Job]
         /\ pc' \in [Thread -> PC]
<1>1. job[t] \in Job /\ job[t].ip \in IP /\ loaded \subseteq Name
  BY DEF TypeOK, Job
<1> DEFINE r == OnEntry(t, s, pc[t] = "lookup")
<1>2. r.entry \in Entry /\ r.event \in Event
  BY <1>1, OnEntryType
<1> HIDE DEF r
<1>3. session' = [session EXCEPT ![job[t].ip] = r.entry]
  BY DEF ApplyTo, r
<1>4. session' \in [IP -> Entry \cup {NoEntry}]
  BY <1>1, <1>2, <1>3 DEF TypeOK
<1>5. job' = [job EXCEPT ![t].event = r.event]
  BY DEF ApplyTo, r
<1>6. job' \in [Thread -> Job]
  BY <1>1, <1>2, <1>5 DEF TypeOK, Job
<1>7. pc' = [pc EXCEPT ![t] = IF r.event = "none" THEN AfterSession(job[t].cmd, r.ok) ELSE "submit"]
  BY DEF ApplyTo, r, Goto
<1>8. AfterSession(job[t].cmd, r.ok) \in PC
  BY DEF AfterSession, PC
<1>9. pc' \in [Thread -> PC]
  BY <1>7, <1>8 DEF TypeOK, PC
<1> QED
  BY <1>4, <1>6, <1>9

LEMMA TypeInit == Init => TypeOK
<1> SUFFICES ASSUME Init PROVE TypeOK
  OBVIOUS
<1>1. \E ip \in IP : TRUE
  BY ConstantsOK
<1>2. (CHOOSE ip \in IP : TRUE) \in IP
  BY <1>1
<1>3. job \in [Thread -> Job]
  BY <1>2 DEF Init, Job, Event
<1>4. ledger \in [IP -> [AcctType -> Nat]]
  BY DEF Init
<1>5. session \in [IP -> Entry \cup {NoEntry}] /\ gauge \in [IP -> Gauge \cup {NoEntry}]
  BY DEF Init
<1> QED
  BY <1>3, <1>4, <1>5, ConstantsOK DEF Init, TypeOK, PC

LEMMA FreshTypes ==
  FreshEntry \in Entry /\ \A limits \in UpLimits : FreshGauge(limits) \in Gauge
  BY ConstantsOK DEF FreshEntry, FreshGauge, None, Entry, Gauge

LEMMA CountedType ==
  ASSUME NEW g \in Gauge, NEW dir \in Direction
  PROVE  AfterPacket(g, dir) \in Gauge
<1>1. g.octets \in [Direction -> Nat]
  BY DEF Gauge
<1>2. [g.octets EXCEPT ![dir] = @ + 1] \in [Direction -> Nat]
  BY <1>1
<1>3. AfterPacket(g, dir) = [g EXCEPT !.octets = [g.octets EXCEPT ![dir] = @ + 1], !.idle = FALSE]
  BY DEF AfterPacket
<1> QED
  BY <1>2, <1>3, Zenon DEF Gauge

(* What sw_gauge_new makes of a gauge that is there.                       *)
Given(g, limits, aged, idle) ==
  [octets |-> g.octets, max_octets |-> limits,
   left |-> IF Exceeds(g.octets, limits) THEN g.octets ELSE limits,
   aged |-> aged, idle |-> idle]

LEMMA GivenType ==
  ASSUME NEW g \in Gauge, NEW limits \in UpLimits, NEW aged \in BOOLEAN, NEW idle \in BOOLEAN
  PROVE  Given(g, limits, aged, idle) \in Gauge
<1>1. limits \in [Direction -> Nat]
  BY ConstantsOK
<1> QED
  BY <1>1 DEF Given, Gauge

LEMMA CallStepType ==
  ASSUME TypeOK, NEW t \in Thread, CallStep(t)
  PROVE  TypeOK'
<1>1. job[t] \in Job /\ job[t].ip \in IP
  BY DEF TypeOK, Job
<1>2. \A label \in PC : Goto(t, label) => pc' \in [Thread -> PC]
  BY DEF TypeOK, Goto
<1>3. \A cmd, ok : AfterSession(cmd, ok) \in PC
  BY DEF AfterSession, PC
<1>4. CASE SessionLookup(t)
  <2>1. CASE session[job[t].ip] # NoEntry
    <3>1. session[job[t].ip] \in Entry
      BY <1>1, <2>1 DEF TypeOK
    <3>2. ApplyTo(t, session[job[t].ip])
      BY <1>4, <2>1 DEF SessionLookup
    <3> QED
      BY <1>4, <3>1, <3>2, ApplyToType DEF SessionLookup, TypeOK
  <2>2. CASE session[job[t].ip] = NoEntry
    BY <1>4, <1>2, <2>2 DEF SessionLookup, TypeOK, PC
  <2> QED
    BY <2>1, <2>2
<1>5. CASE SessionRecheck(t)
  <2>1. CASE session[job[t].ip] # NoEntry
    <3>1. session[job[t].ip] \in Entry
      BY <1>1, <2>1 DEF TypeOK
    <3>2. ApplyTo(t, session[job[t].ip])
      BY <1>5, <2>1 DEF SessionRecheck
    <3> QED
      BY <1>5, <3>1, <3>2, ApplyToType DEF SessionRecheck, TypeOK
  <2>2. CASE session[job[t].ip] = NoEntry
    BY <1>5, <1>2, <2>2 DEF SessionRecheck, TypeOK, PC
  <2> QED
    BY <2>1, <2>2
<1>6. CASE SessionInsert(t)
  <2>1. CASE ApplyTo(t, FreshEntry) /\ UNCHANGED shaped
    BY <1>6, <2>1, FreshTypes, ApplyToType DEF SessionInsert, TypeOK
  <2>2. CASE /\ Goto(t, AfterSession(job[t].cmd, FALSE)) /\ UNCHANGED job
             /\ \/ UNCHANGED <<session, shaped>>
                \/ /\ session' = [session EXCEPT ![job[t].ip] = NoEntry]
                   /\ shaped' = shaped \ {job[t].ip}
    <3>1. pc' \in [Thread -> PC]
      BY <1>2, <1>3, <2>2
    <3>2. session' \in [IP -> Entry \cup {NoEntry}] /\ shaped' \subseteq IP
      BY <2>2 DEF TypeOK
    <3> QED
      BY <1>6, <2>2, <3>1, <3>2 DEF SessionInsert, TypeOK
  <2> QED
    BY <1>6, <2>1, <2>2 DEF SessionInsert
<1>7. CASE AcctSubmit(t)
  <2>1. pc' \in [Thread -> PC]
    BY <1>2, <1>3, <1>7 DEF AcctSubmit
  <2>2. ledger' \in [IP -> [AcctType -> Nat]]
    <3> DEFINE ip == job[t].ip
    <3>1. ledger[ip] \in [AcctType -> Nat]
      BY <1>1 DEF TypeOK
    <3>2. [ledger[ip] EXCEPT ![job[t].event] = @ + 1] \in [AcctType -> Nat]
      <4>1. job[t].event \in AcctType => ledger[ip][job[t].event] + 1 \in Nat
        BY <3>1
      <4> QED
        BY <3>1, <4>1, Zenon
    <3>3. ledger' = [ledger EXCEPT ![ip] = [ledger[ip] EXCEPT ![job[t].event] = @ + 1]]
      BY <1>7 DEF AcctSubmit
    <3> QED
      BY <1>1, <3>2, <3>3 DEF TypeOK
  <2>3. job' \in [Thread -> Job]
    BY <1>1, <1>7 DEF AcctSubmit, TypeOK, Job, Event
  <2> QED
    BY <1>7, <2>1, <2>2, <2>3 DEF AcctSubmit, TypeOK
<1>8. CASE GaugeDel(t)
  BY <1>1, <1>2, <1>8 DEF GaugeDel, TypeOK, PC
<1> QED
  BY <1>4, <1>5, <1>6, <1>7, <1>8 DEF CallStep

(* Steps of the threads outside the calls they share, and of the clock.    *)
LEMMA OtherStepType ==
  ASSUME TypeOK, Next, ~ \E t \in Thread : CallStep(t)
  PROVE  TypeOK'
<1>1. Maint \in Thread /\ Uam \subseteq Thread /\ Relay \subseteq Thread
  BY DEF Thread
<1>2. \A t \in Thread : job[t] \in Job /\ job[t].ip \in IP
  BY DEF TypeOK, Job
<1>3. \A t \in Thread, label \in PC : Goto(t, label) => pc' \in [Thread -> PC]
  BY DEF TypeOK, Goto
<1>4. \A t \in Thread, cmd \in {"U", "D", "R", "S", "packet", "throttle", "expire"},
         ip \in IP, name \in Name \cup {Empty, Null}, n \in Stateid \cup {0} :
        Do(t, cmd, ip, name, n) => job' \in [Thread -> Job]
  BY DEF TypeOK, Do, Job, Event
<1>5. ASSUME NEW u \in Uam, Receive(u) PROVE TypeOK'
  <2>1. PICK cmd \in Command, ip \in IP, name \in Name \cup {Empty}, n \in Stateid :
          /\ Do(u, cmd, ip, name, n)
          /\ Goto(u, IF cmd = "S" THEN "lookup" ELSE "verify")
    BY <1>5 DEF Receive
  <2>2. job' \in [Thread -> Job]
    BY <1>1, <1>4, <2>1, ConstantsOK
  <2>3. pc' \in [Thread -> PC]
    BY <1>1, <1>3, <2>1 DEF PC
  <2>4. served' \in 0..MaxRequest
    BY <1>5, ConstantsOK DEF Receive, TypeOK
  <2> QED
    BY <1>5, <2>2, <2>3, <2>4 DEF Receive, TypeOK
<1>6. ASSUME NEW u \in Uam, UamStep(u) PROVE TypeOK'
  <2> DEFINE ip == job[u].ip
  <2>1. ip \in IP /\ u \in Thread
    BY <1>1, <1>2
  <2>2. CASE VerifyStateid(u)
    BY <2>1, <2>2, <1>3 DEF VerifyStateid, TypeOK, PC
  <2>3. CASE Retention(u)
    <3>1. CASE session[ip] = NoEntry
      BY <2>1, <2>3, <1>3, <3>1 DEF Retention, TypeOK, PC
    <3>2. CASE session[ip] # NoEntry
      <4>1. session[ip] \in Entry
        BY <2>1, <3>2 DEF TypeOK
      <4>2. PICK passed \in BOOLEAN : session' = [session EXCEPT ![ip].stale = passed]
        BY <2>3, <3>2 DEF Retention
      <4>3. [session[ip] EXCEPT !.stale = passed] \in Entry
        BY <4>1 DEF Entry
      <4>4. session' \in [IP -> Entry \cup {NoEntry}]
        BY <2>1, <4>2, <4>3 DEF TypeOK
      <4> QED
        BY <2>1, <2>3, <1>3, <3>2, <4>4 DEF Retention, TypeOK, PC
    <3> QED
      BY <3>1, <3>2
  <2>4. CASE GaugeLookup(u)
    <3>1. CASE gauge[ip] = NoEntry
      BY <2>1, <2>4, <1>3, <3>1 DEF GaugeLookup, TypeOK, PC
    <3>2. CASE gauge[ip] # NoEntry
      <4>1. gauge[ip] \in Gauge
        BY <2>1, <3>2 DEF TypeOK
      <4>2. PICK limits \in UpLimits, aged \in BOOLEAN, idle \in BOOLEAN :
              gauge' = [gauge EXCEPT ![ip] = Given(@, limits, aged, idle)]
        BY <2>4, <3>2 DEF GaugeLookup, Given
      <4>3. Given(gauge[ip], limits, aged, idle) \in Gauge
        BY <4>1, GivenType
      <4>5. gauge' \in [IP -> Gauge \cup {NoEntry}]
        BY <2>1, <4>2, <4>3 DEF TypeOK
      <4> QED
        BY <2>1, <2>4, <1>3, <3>2, <4>5 DEF GaugeLookup, TypeOK, PC
    <3> QED
      BY <3>1, <3>2
  <2>5. CASE GaugeInsert(u)
    BY <2>1, <2>5, <1>3, FreshTypes DEF GaugeInsert, TypeOK, PC
  <2>6. CASE ShapeNew(u) \/ UndoGauge(u) \/ UndoShape(u)
    BY <2>1, <2>6, <1>3 DEF ShapeNew, UndoGauge, UndoShape, TypeOK, PC
  <2>7. CASE AcquireStateid(u)
    <3>1. pc' \in [Thread -> PC]
      BY <2>1, <2>7, <1>3 DEF AcquireStateid, PC
    <3>2. CASE session[ip] = NoEntry
      BY <2>7, <3>1, <3>2 DEF AcquireStateid, TypeOK
    <3>3. CASE session[ip] # NoEntry
      <4>1. session[ip] \in Entry
        BY <2>1, <3>3 DEF TypeOK
      <4>2. NextStateid(session[ip].stateid) \in 0..MaxStateid
        BY <4>1, ConstantsOK DEF NextStateid, Entry
      <4>3. [session[ip] EXCEPT !.stateid = NextStateid(@)] \in Entry
        BY <4>1, <4>2 DEF Entry
      <4>4. session' \in [IP -> Entry \cup {NoEntry}]
        BY <2>1, <2>7, <3>3, <4>3 DEF AcquireStateid, TypeOK
      <4> QED
        BY <2>7, <3>1, <4>4 DEF AcquireStateid, TypeOK
    <3> QED
      BY <3>2, <3>3
  <2> QED
    BY <1>6, <2>2, <2>3, <2>4, <2>5, <2>6, <2>7 DEF UamStep
<1>7. ASSUME NEW r \in Relay, Packet(r) \/ Block(r) PROVE TypeOK'
  <2>1. job' \in [Thread -> Job]
    BY <1>1, <1>4, <1>7 DEF Packet, Block, TypeOK
  <2>2. pc' \in [Thread -> PC]
    BY <1>1, <1>3, <1>7 DEF Packet, Block, PC
  <2> QED
    BY <1>7, <2>1, <2>2 DEF Packet, Block, TypeOK
<1>8. ASSUME NEW r \in Relay, RelayStep(r) PROVE TypeOK'
  <2> DEFINE ip == job[r].ip
  <2>1. ip \in IP /\ r \in Thread
    BY <1>1, <1>2
  <2>2. pc' \in [Thread -> PC]
    BY <2>1, <1>3, <1>8 DEF RelayStep, Count, PC
  <2>3. job' \in [Thread -> Job]
    BY <2>1, <1>4, <1>8 DEF RelayStep, Count, TypeOK
  <2>4. CASE gauge[ip] = NoEntry
    BY <1>8, <2>2, <2>3, <2>4 DEF RelayStep, Count, TypeOK
  <2>5. CASE gauge[ip] # NoEntry
    <3>1. gauge[ip] \in Gauge
      BY <2>1, <2>5 DEF TypeOK
    <3>2. PICK dir \in Traffic : gauge' = [gauge EXCEPT ![ip] = AfterPacket(@, dir)]
      BY <1>8, <2>5 DEF RelayStep, Count
    <3>3. AfterPacket(gauge[ip], dir) \in Gauge
      BY <3>1, CountedType, ConstantsOK
    <3>4. gauge' \in [IP -> Gauge \cup {NoEntry}]
      BY <2>1, <3>2, <3>3 DEF TypeOK
    <3> QED
      BY <1>8, <2>2, <2>3, <3>4 DEF RelayStep, Count, TypeOK
  <2> QED
    BY <2>4, <2>5
<1>9. ASSUME MaintStep PROVE TypeOK'
  <2>1. CASE BeginSweep \/ GaugesDone \/ SessionsDone
    BY <1>1, <1>3, <2>1 DEF BeginSweep, GaugesDone, SessionsDone, TypeOK, PC
  <2>2. ASSUME NEW ip \in IP, ExpireGauge(ip) PROVE TypeOK'
    <3>1. pc' \in [Thread -> PC]
      BY <1>1, <1>3, <2>2 DEF ExpireGauge, TypeOK, PC
    <3>2. job' \in [Thread -> Job]
      BY <1>1, <1>4, <2>2 DEF ExpireGauge, TypeOK
    <3> QED
      BY <2>2, <3>1, <3>2 DEF ExpireGauge, TypeOK
  <2>3. ASSUME NEW ip \in IP, ExpireSession(ip) PROVE TypeOK'
    <3>1. session' \in [IP -> Entry \cup {NoEntry}]
      <4>1. CASE InterimDue(session[ip]) /\ session' = [session EXCEPT ![ip].interim = FALSE]
        <5>1. session[ip] \in Entry
          BY <4>1 DEF TypeOK, InterimDue
        <5>2. [session[ip] EXCEPT !.interim = FALSE] \in Entry
          BY <5>1 DEF Entry
        <5> QED
          BY <4>1, <5>2 DEF TypeOK
      <4>2. CASE session' = [session EXCEPT ![ip] = NoEntry] \/ session' = session
        BY <4>2 DEF TypeOK
      <4> QED
        BY <2>3, <4>1, <4>2 DEF ExpireSession
    <3>2. ledger' \in [IP -> [AcctType -> Nat]]
      <4>1. ledger[ip] \in [AcctType -> Nat]
        BY DEF TypeOK
      <4>2. [ledger[ip] EXCEPT !["interim"] = @ + 1] \in [AcctType -> Nat]
        BY <4>1 DEF AcctType
      <4>3. ledger' = ledger \/ ledger' = [ledger EXCEPT ![ip] = [ledger[ip] EXCEPT !["interim"] = @ + 1]]
        BY <2>3 DEF ExpireSession
      <4> QED
        BY <4>2, <4>3 DEF TypeOK
    <3>3. shaped' \subseteq IP /\ todo' \subseteq IP
      BY <2>3 DEF ExpireSession, TypeOK
    <3> QED
      BY <2>3, <3>1, <3>2, <3>3 DEF ExpireSession, TypeOK
  <2> QED
    BY <1>9, <2>1, <2>2, <2>3 DEF MaintStep
<1>10. ASSUME NEW name \in Volatile, FilterReload(name) PROVE TypeOK'
  BY <1>10, ConstantsOK DEF FilterReload, TypeOK
<1>11. ASSUME NEW ip \in IP, GaugeAges(ip) PROVE TypeOK'
  <2>1. gauge[ip] \in Gauge
    BY <1>11 DEF GaugeAges, TypeOK
  <2>2. [gauge[ip] EXCEPT !.aged = TRUE] \in Gauge /\ [gauge[ip] EXCEPT !.idle = TRUE] \in Gauge
    BY <2>1 DEF Gauge
  <2>3. gauge' \in [IP -> Gauge \cup {NoEntry}]
    BY <1>11, <2>2 DEF GaugeAges, TypeOK
  <2> QED
    BY <1>11, <2>3 DEF GaugeAges, TypeOK
<1>12. ASSUME NEW ip \in IP, SessionAges(ip) PROVE TypeOK'
  <2>1. session[ip] \in Entry
    BY <1>12 DEF SessionAges, TypeOK
  <2>2. [session[ip] EXCEPT !.stale = TRUE] \in Entry /\ [session[ip] EXCEPT !.interim = TRUE] \in Entry
    BY <2>1 DEF Entry
  <2>3. session' \in [IP -> Entry \cup {NoEntry}]
    BY <1>12, <2>2 DEF SessionAges, TypeOK
  <2> QED
    BY <1>12, <2>3 DEF SessionAges, TypeOK
<1> QED
  BY <1>5, <1>6, <1>7, <1>8, <1>9, <1>10, <1>11, <1>12 DEF Next

(* The state keeps its types (TypeOK) in every behaviour of the daemon.    *)
THEOREM TypeCorrect == Spec => []TypeOK
<1>1. Init => TypeOK
  BY TypeInit
<1>2. TypeOK /\ [Next]_vars => TypeOK'
  <2> SUFFICES ASSUME TypeOK, [Next]_vars PROVE TypeOK'
    OBVIOUS
  <2>1. CASE UNCHANGED vars
    BY <2>1 DEF vars, TypeOK
  <2>2. CASE \E t \in Thread : CallStep(t)
    BY <2>2, CallStepType
  <2>3. CASE Next /\ ~ \E t \in Thread : CallStep(t)
    BY <2>3, OtherStepType
  <2> QED
    BY <2>1, <2>2, <2>3
<1> QED
  BY <1>1, <1>2, PTL DEF Spec
-----------------------------------------------------------------------------
ThrottleLabel == {"lookup", "recheck", "insert", "submit", "gauge_del"}

LEMMA ThrottlingFinite ==
  ASSUME NEW ip
  PROVE  /\ IsFiniteSet(Throttling(ip)) /\ Cardinality(Throttling(ip)) \in Nat
         /\ IsFiniteSet(Throttling(ip)') /\ Cardinality(Throttling(ip)') \in Nat
<1>1. Throttling(ip) \subseteq Relay /\ Throttling(ip)' \subseteq Relay
  BY DEF Throttling
<1> QED
  BY <1>1, ConstantsOK, FS_Subset, FS_CardinalityType

(* What a gauge was counted past its limits, and what its history says.    *)
Beyond(g) == Past(g, "in") + Past(g, "out")

LeftOK(g) == g.left = g.max_octets \/ Over(g)

LEMMA BeyondType ==
  ASSUME NEW g \in Gauge
  PROVE  Beyond(g) \in Nat
<1>1. \A dir \in Direction : g.octets[dir] \in Nat /\ g.left[dir] \in Nat
  BY DEF Gauge
<1>2. \A dir \in Direction : Past(g, dir) \in Nat
  BY <1>1 DEF Past
<1> QED
  BY <1>2 DEF Beyond, Direction

(* A gauge that is not over its limits was not counted past them, ...      *)
LEMMA NotOver ==
  ASSUME NEW g \in Gauge, LeftOK(g), ~Over(g)
  PROVE  Beyond(g) = 0
<1>1. \A dir \in Direction : g.octets[dir] \in Nat /\ g.left[dir] \in Nat
  BY DEF Gauge
<1>2. \A dir \in Direction : ~(g.octets[dir] > g.left[dir])
  BY <1>1 DEF LeftOK, Over, Exceeds
<1>3. \A dir \in Direction : Past(g, dir) = 0
  BY <1>2 DEF Past
<1> QED
  BY <1>3 DEF Beyond, Direction

(* ... nor was a new one, ...                                              *)
LEMMA FreshBeyond ==
  ASSUME NEW limits \in UpLimits
  PROVE  Beyond(FreshGauge(limits)) = 0 /\ LeftOK(FreshGauge(limits))
<1> DEFINE g == FreshGauge(limits)
<1>1. g \in Gauge /\ LeftOK(g)
  BY FreshTypes DEF FreshGauge, LeftOK
<1>2. \A dir \in Direction : g.octets[dir] = 0 /\ g.max_octets[dir] \in Nat
  BY <1>1 DEF Gauge, FreshGauge, None
<1>3. ~Over(g)
  BY <1>2 DEF Over, Exceeds
<1> QED
  BY <1>1, <1>3, NotOver

(* ... nor one that a U request has just given its limits, however low.    *)
LEMMA GivenBeyond ==
  ASSUME NEW g \in Gauge, NEW limits \in UpLimits, NEW aged \in BOOLEAN, NEW idle \in BOOLEAN
  PROVE  LET h == Given(g, limits, aged, idle) IN Beyond(h) = 0 /\ LeftOK(h)
<1> DEFINE h == Given(g, limits, aged, idle)
<1>1. h \in Gauge
  BY GivenType
<1>2. LeftOK(h)
  BY DEF LeftOK, Given, Over
<1>3. CASE Exceeds(g.octets, limits)
  <2>1. \A dir \in Direction : h.octets[dir] = h.left[dir] /\ h.octets[dir] \in Nat
    BY <1>1, <1>3 DEF Given, Gauge
  <2>2. \A dir \in Direction : Past(h, dir) = 0
    BY <2>1 DEF Past
  <2> QED
    BY <1>2, <2>2 DEF Beyond, Direction
<1>4. CASE ~Exceeds(g.octets, limits)
  BY <1>1, <1>2, <1>4, NotOver DEF Over, Given
<1> QED
  BY <1>3, <1>4

(* A packet adds one at the most.                                          *)
LEMMA CountedBeyond ==
  ASSUME NEW g \in Gauge, NEW dir \in Direction, LeftOK(g)
  PROVE  Beyond(AfterPacket(g, dir)) <= Beyond(g) + 1 /\ LeftOK(AfterPacket(g, dir))
<1> DEFINE h == AfterPacket(g, dir)
<1>1. /\ h.octets = [g.octets EXCEPT ![dir] = @ + 1]
      /\ h.left = g.left /\ h.max_octets = g.max_octets
  BY DEF AfterPacket, Gauge
<1>2. \A d \in Direction : /\ g.octets[d] \in Nat /\ g.left[d] \in Nat /\ g.max_octets[d] \in Nat
                           /\ h.octets[d] = IF d = dir THEN g.octets[d] + 1 ELSE g.octets[d]
  BY <1>1 DEF Gauge
<1>3. \A d \in Direction :
        /\ Past(h, d) <= IF d = dir THEN Past(g, d) + 1 ELSE Past(g, d)
        /\ Past(h, d) \in Nat /\ Past(g, d) \in Nat
  BY <1>1, <1>2 DEF Past
<1>4. Beyond(h) <= Beyond(g) + 1
  BY <1>3 DEF Beyond, Direction
<1>5. Over(g) => Over(h)
  BY <1>1, <1>2 DEF Over, Exceeds
<1>6. LeftOK(h)
  BY <1>1, <1>5 DEF LeftOK
<1> QED
  BY <1>4, <1>6

(* A gauge with the octets and limits of another is as far past them.      *)
LEMMA SameBeyond ==
  ASSUME NEW g \in Gauge, NEW h, h.octets = g.octets, h.left = g.left, h.max_octets = g.max_octets
  PROVE  Beyond(h) = Beyond(g) /\ (LeftOK(g) => LeftOK(h))
BY DEF Beyond, Past, LeftOK, Over

(* The inductive invariant of the bound, for one address.                  *)
BoundAt(ip) ==
  gauge[ip] # NoEntry =>
    LeftOK(gauge[ip]) /\ Beyond(gauge[ip]) <= Cardinality(Throttling(ip))

BoundInv == \A ip \in IP : BoundAt(ip)

(* The bound on one address holds on while no octet is added and no thread *)
(* leaves the throttling before the gauge is gone.                         *)
LEMMA BoundKept ==
  ASSUME TypeOK, BoundInv, NEW ip \in IP,
         gauge'[ip] # NoEntry =>
           \/ LeftOK(gauge'[ip]) /\ Beyond(gauge'[ip]) = 0
           \/ /\ gauge[ip] # NoEntry /\ Beyond(gauge'[ip]) = Beyond(gauge[ip])
              /\ LeftOK(gauge[ip]) => LeftOK(gauge'[ip])
              /\ Throttling(ip) \subseteq Throttling(ip)'
  PROVE  BoundAt(ip)'
<1> SUFFICES ASSUME gauge'[ip] # NoEntry
             PROVE  LeftOK(gauge'[ip]) /\ Beyond(gauge'[ip]) <= Cardinality(Throttling(ip)')
  BY DEF BoundAt
<1>1. CASE LeftOK(gauge'[ip]) /\ Beyond(gauge'[ip]) = 0
  BY <1>1, ThrottlingFinite
<1>2. CASE /\ gauge[ip] # NoEntry /\ Beyond(gauge'[ip]) = Beyond(gauge[ip])
           /\ LeftOK(gauge[ip]) => LeftOK(gauge'[ip])
           /\ Throttling(ip) \subseteq Throttling(ip)'
  <2>1. LeftOK(gauge[ip]) /\ Beyond(gauge[ip]) <= Cardinality(Throttling(ip))
    BY <1>2 DEF BoundInv, BoundAt
  <2>2. Cardinality(Throttling(ip)) <= Cardinality(Throttling(ip)')
    BY <1>2, ThrottlingFinite, FS_Subset
  <2>3. Beyond(gauge[ip]) \in Nat
    BY <1>2, BeyondType DEF TypeOK
  <2> QED
    BY <1>2, <2>1, <2>2, <2>3, ThrottlingFinite
<1> QED
  BY <1>1, <1>2

(* A relay that is throttling an address and takes a step other than the   *)
(* deletion of the gauge is still throttling it.                           *)
LEMMA CallKeepsThrottling ==
  ASSUME TypeOK, NEW t \in Thread, CallStep(t), ~GaugeDel(t), NEW ip \in IP
  PROVE  Throttling(ip) \subseteq Throttling(ip)' /\ gauge' = gauge
<1>1. gauge' = gauge
  BY DEF CallStep, SessionLookup, SessionRecheck, SessionInsert, AcctSubmit
<1>2. ASSUME job[t].cmd = "throttle", job[t].ip = ip
      PROVE  job'[t].cmd = "throttle" /\ job'[t].ip = ip /\ pc'[t] \in ThrottleLabel
  <2>1. /\ pc \in [Thread -> PC] /\ job \in [Thread -> Job]
    BY DEF TypeOK
  <2>2. \A ok : AfterSession(job[t].cmd, ok) = "gauge_del"
    BY <1>2 DEF AfterSession
  <2>3. ASSUME NEW s, ApplyTo(t, s)
        PROVE  job'[t].cmd = "throttle" /\ job'[t].ip = ip /\ pc'[t] \in ThrottleLabel
    <3> DEFINE event == OnEntry(t, s, pc[t] = "lookup").event
               ok == OnEntry(t, s, pc[t] = "lookup").ok
    <3> HIDE DEF event, ok
    <3>1. job' = [job EXCEPT ![t].event = event]
      BY <2>3 DEF ApplyTo, event
    <3>2. pc' = [pc EXCEPT ![t] = IF event = "none" THEN AfterSession(job[t].cmd, ok) ELSE "submit"]
      BY <2>3 DEF ApplyTo, event, ok, Goto
    <3> QED
      BY <1>2, <2>1, <2>2, <3>1, <3>2 DEF Job, ThrottleLabel
  <2>4. CASE SessionLookup(t)
    BY <1>2, <2>1, <2>3, <2>4 DEF SessionLookup, Goto, ThrottleLabel
  <2>5. CASE SessionRecheck(t)
    BY <1>2, <2>1, <2>3, <2>5 DEF SessionRecheck, Goto, ThrottleLabel
  <2>6. CASE SessionInsert(t)
    BY <1>2, <2>1, <2>2, <2>3, <2>6 DEF SessionInsert, Goto, ThrottleLabel
  <2>7. CASE AcctSubmit(t)
    BY <1>2, <2>1, <2>2, <2>7 DEF AcctSubmit, Goto, ThrottleLabel, Job
  <2> QED
    BY <2>4, <2>5, <2>6, <2>7 DEF CallStep
<1>3. \A r \in Relay : r # t => pc'[r] = pc[r] /\ job'[r] = job[r]
  <2>1. \A r \in Thread : r # t => pc'[r] = pc[r]
    BY DEF CallStep, SessionLookup, SessionRecheck, SessionInsert, AcctSubmit, ApplyTo, Goto, TypeOK
  <2>2. \A r \in Thread : r # t => job'[r] = job[r]
    BY DEF CallStep, SessionLookup, SessionRecheck, SessionInsert, AcctSubmit, ApplyTo, TypeOK
  <2> QED
    BY <2>1, <2>2 DEF Thread
<1> QED
  BY <1>1, <1>2, <1>3 DEF Throttling, ThrottleLabel

(* The steps that throttle no further and end no throttling.               *)
LEMMA OtherKeepsThrottling ==
  ASSUME TypeOK, Next,
         ~ \E t \in Thread : CallStep(t), ~ \E r \in Relay : Count(r), NEW ip \in IP
  PROVE  Throttling(ip) \subseteq Throttling(ip)'
<1>1. pc \in [Thread -> PC] /\ job \in [Thread -> Job]
  BY DEF TypeOK
<1>2. Relay \subseteq Thread /\ Uam \subseteq Thread /\ Maint \in Thread
      /\ Uam \cap Relay = {} /\ Maint \notin Relay
  BY ConstantsOK DEF Thread
<1>3. SUFFICES \A r \in Relay : \/ pc'[r] = pc[r] /\ job'[r] = job[r]
                                \/ pc[r] \notin ThrottleLabel
  BY DEF Throttling, ThrottleLabel
<1>4. CASE \E u \in Uam : Receive(u)
  BY <1>1, <1>2, <1>4 DEF Receive, Goto, Do
<1>5. CASE \E u \in Uam : UamStep(u)
  BY <1>1, <1>2, <1>5 DEF UamStep, VerifyStateid, Retention, GaugeLookup, GaugeInsert,
       ShapeNew, UndoGauge, UndoShape, AcquireStateid, Goto
<1>6. CASE \E r \in Relay : Packet(r)
  BY <1>1, <1>2, <1>6 DEF Packet, Goto, Do, ThrottleLabel
<1>7. CASE \E r \in Relay : Block(r)
  BY <1>1, <1>2, <1>7 DEF Block, Goto, ThrottleLabel
<1>8. CASE MaintStep
  BY <1>1, <1>2, <1>8 DEF MaintStep, BeginSweep, GaugesDone, SessionsDone, ExpireGauge,
       ExpireSession, Goto, Do
<1>9. CASE \/ \E name \in Volatile : FilterReload(name)
           \/ \E a \in IP : GaugeAges(a) \/ SessionAges(a)
  BY <1>9 DEF FilterReload, GaugeAges, SessionAges
<1> QED
  BY <1>4, <1>5, <1>6, <1>7, <1>8, <1>9 DEF Next, RelayStep

(* ... and what they do to a gauge.                                        *)
LEMMA OtherKeepsOctets ==
  ASSUME TypeOK, Next,
         ~ \E t \in Thread : CallStep(t), ~ \E r \in Relay : Count(r),
         NEW ip \in IP, gauge'[ip] # NoEntry
  PROVE  \/ LeftOK(gauge'[ip]) /\ Beyond(gauge'[ip]) = 0
         \/ /\ gauge[ip] # NoEntry /\ Beyond(gauge'[ip]) = Beyond(gauge[ip])
            /\ LeftOK(gauge[ip]) => LeftOK(gauge'[ip])
<1>1. gauge \in [IP -> Gauge \cup {NoEntry}]
  BY DEF TypeOK
<1>2. gauge[ip] # NoEntry => gauge[ip] \in Gauge
  BY <1>1
<1>3. CASE gauge' = gauge
  BY <1>3
<1>4. CASE \E u \in Uam : GaugeLookup(u)
  <2>1. PICK u \in Uam : GaugeLookup(u)
    BY <1>4
  <2> DEFINE a == job[u].ip
  <2>2. CASE gauge[a] = NoEntry
    BY <2>1, <2>2 DEF GaugeLookup
  <2>3. CASE gauge[a] # NoEntry
    <3>1. PICK limits \in UpLimits, aged \in BOOLEAN, idle \in BOOLEAN :
            gauge' = [gauge EXCEPT ![a] = Given(@, limits, aged, idle)]
      BY <2>1, <2>3 DEF GaugeLookup, Given
    <3>2. ip # a => gauge'[ip] = gauge[ip]
      BY <1>1, <3>1
    <3>3. ip = a => gauge'[ip] = Given(gauge[ip], limits, aged, idle) /\ gauge[ip] \in Gauge
      BY <1>1, <1>2, <2>3, <3>1
    <3> QED
      BY <3>2, <3>3, GivenBeyond
  <2> QED
    BY <2>2, <2>3
<1>5. CASE \E u \in Uam : GaugeInsert(u)
  <2>1. PICK u \in Uam, limits \in UpLimits :
          gauge' = [gauge EXCEPT ![job[u].ip] = FreshGauge(limits)]
    BY <1>5 DEF GaugeInsert
  <2>2. gauge'[ip] = gauge[ip] \/ gauge'[ip] = FreshGauge(limits)
    BY <1>1, <2>1
  <2> QED
    BY <2>2, FreshBeyond
<1>6. CASE \E u \in Uam : UndoGauge(u)
  BY <1>1, <1>2, <1>6 DEF UndoGauge
<1>7. CASE \E a \in IP : GaugeAges(a)
  <2>1. gauge[ip] # NoEntry
    BY <1>1, <1>7 DEF GaugeAges
  <2>2. /\ gauge'[ip].octets = gauge[ip].octets /\ gauge'[ip].left = gauge[ip].left
        /\ gauge'[ip].max_octets = gauge[ip].max_octets
    BY <1>1, <1>2, <1>7, <2>1 DEF GaugeAges, Gauge
  <2> QED
    BY <1>2, <2>1, <2>2, SameBeyond
<1>8. ASSUME NEW u \in Uam, Receive(u) \/ VerifyStateid(u) \/ Retention(u) \/ ShapeNew(u)
                            \/ UndoShape(u) \/ AcquireStateid(u)
      PROVE  gauge' = gauge
  BY <1>8 DEF Receive, VerifyStateid, Retention, ShapeNew, UndoShape, AcquireStateid
<1>9. ASSUME NEW r \in Relay, Packet(r) \/ Block(r) PROVE gauge' = gauge
  BY <1>9 DEF Packet, Block
<1>10. MaintStep => gauge' = gauge
  BY DEF MaintStep, BeginSweep, GaugesDone, SessionsDone, ExpireGauge, ExpireSession
<1>11. ASSUME NEW name \in Volatile, FilterReload(name) PROVE gauge' = gauge
  BY <1>11 DEF FilterReload
<1>12. ASSUME NEW a \in IP, SessionAges(a) PROVE gauge' = gauge
  BY <1>12 DEF SessionAges
<1> QED
  BY <1>3, <1>4, <1>5, <1>6, <1>7, <1>8, <1>9, <1>10, <1>11, <1>12
  DEF Next, UamStep, RelayStep

(* A packet that is counted over the limit adds its thread to those that   *)
(* throttle the address.                                                   *)
LEMMA CountBound ==
  ASSUME TypeOK, BoundInv, NEW r \in Relay, Count(r), NEW ip \in IP
  PROVE  BoundAt(ip)'
<1>1. pc \in [Thread -> PC] /\ job \in [Thread -> Job] /\ r \in Thread
      /\ gauge \in [IP -> Gauge \cup {NoEntry}]
  BY DEF TypeOK, Thread
<1>2. r \notin Throttling(ip)
  BY DEF Count, Throttling
<1>3. \A x \in Relay : x # r => pc'[x] = pc[x] /\ job'[x] = job[x]
  BY <1>1 DEF Count, Goto, Do, Thread
<1>4. Throttling(ip) \subseteq Throttling(ip)'
  BY <1>2, <1>3 DEF Throttling
<1>5. CASE ip # job[r].ip \/ gauge[ip] = NoEntry
  <2>1. gauge'[ip] = gauge[ip]
    BY <1>1, <1>5 DEF Count
  <2> QED
    BY <1>4, <2>1, BoundKept
<1>6. CASE ip = job[r].ip /\ gauge[ip] # NoEntry
  <2>1. gauge[ip] \in Gauge
    BY <1>1, <1>6
  <2>2. PICK dir \in Traffic : gauge' = [gauge EXCEPT ![ip] = AfterPacket(@, dir)]
    BY <1>6 DEF Count
  <2>3. gauge'[ip] = AfterPacket(gauge[ip], dir) /\ dir \in Direction
    BY <1>1, <2>2, ConstantsOK
  <2>4. LeftOK(gauge[ip]) /\ Beyond(gauge[ip]) <= Cardinality(Throttling(ip))
    BY <1>6 DEF BoundInv, BoundAt
  <2>5. /\ gauge'[ip] \in Gauge /\ LeftOK(gauge'[ip])
        /\ Beyond(gauge'[ip]) <= Beyond(gauge[ip]) + 1
    BY <2>1, <2>3, <2>4, CountedType, CountedBeyond
  <2>6. Beyond(gauge[ip]) \in Nat /\ Beyond(gauge'[ip]) \in Nat
    BY <2>1, <2>5, BeyondType
  <2>7. CASE Over(gauge'[ip])
    <3>1. Do(r, "throttle", ip, Null, 0) /\ Goto(r, "lookup")
      BY <1>6, <2>7 DEF Count
    <3>2. r \in Throttling(ip)'
      BY <1>1, <3>1 DEF Do, Goto, Throttling
    <3>3. Throttling(ip) \cup {r} \subseteq Throttling(ip)'
      BY <1>4, <3>2
    <3>4. Cardinality(Throttling(ip) \cup {r}) = Cardinality(Throttling(ip)) + 1
      BY <1>2, ThrottlingFinite, FS_AddElement
    <3>5. Cardinality(Throttling(ip) \cup {r}) <= Cardinality(Throttling(ip)')
      BY <3>3, ThrottlingFinite, FS_Subset
    <3>6. Beyond(gauge'[ip]) <= Cardinality(Throttling(ip)')
      BY <2>4, <2>5, <2>6, <3>4, <3>5, ThrottlingFinite
    <3> QED
      BY <2>5, <3>6 DEF BoundAt
  <2>8. CASE ~Over(gauge'[ip])
    <3>1. Beyond(gauge'[ip]) = 0
      BY <2>5, <2>8, NotOver
    <3> QED
      BY <2>5, <3>1, BoundKept
  <2> QED
    BY <2>7, <2>8
<1> QED
  BY <1>5, <1>6

(* A thread that deletes a gauge is done with that address only.           *)
LEMMA GaugeDelBound ==
  ASSUME TypeOK, BoundInv, NEW t \in Thread, GaugeDel(t),
         NEW ip \in IP, gauge'[ip] # NoEntry
  PROVE  BoundAt(ip)'
<1>1. pc \in [Thread -> PC] /\ gauge \in [IP -> Gauge \cup {NoEntry}]
  BY DEF TypeOK
<1>2. ip # job[t].ip /\ gauge'[ip] = gauge[ip]
  BY <1>1 DEF GaugeDel
<1>3. job' = job /\ \A r \in Relay : r # t => pc'[r] = pc[r]
  BY <1>1 DEF GaugeDel, Goto, Thread
<1>4. Throttling(ip) \subseteq Throttling(ip)'
  BY <1>2, <1>3 DEF Throttling
<1> QED
  BY <1>2, <1>4, BoundKept

(* OvershootBounded, for any number of relay threads and any limits that U *)
(* requests set, be they below what was counted: the packets counted past  *)
(* the limits never outnumber the threads at work on the throttling.       *)
THEOREM OvershootIsBounded == Spec => []OvershootBounded
<1>1. Init => BoundInv
  BY DEF Init, BoundInv, BoundAt
<1>2. TypeOK /\ BoundInv /\ [Next]_vars => BoundInv'
  <2> SUFFICES ASSUME TypeOK, BoundInv, [Next]_vars, NEW ip \in IP
               PROVE  BoundAt(ip)'
    BY DEF BoundInv
  <2>0. CASE gauge'[ip] = NoEntry
    BY <2>0 DEF BoundAt
  <2>1. CASE UNCHANGED vars
    <3>1. gauge' = gauge /\ Throttling(ip)' = Throttling(ip)
      BY <2>1 DEF vars, Throttling
    <3> QED
      BY <3>1, BoundKept
  <2>2. ASSUME NEW t \in Thread, CallStep(t), ~GaugeDel(t)
        PROVE  BoundAt(ip)'
    BY <2>2, CallKeepsThrottling, BoundKept
  <2>3. CASE gauge'[ip] # NoEntry /\ \E t \in Thread : GaugeDel(t)
    BY <2>3, GaugeDelBound
  <2>4. CASE \E r \in Relay : Count(r)
    BY <2>4, CountBound
  <2>5. CASE Next /\ (~ \E t \in Thread : CallStep(t)) /\ (~ \E r \in Relay : Count(r))
    BY <2>5, OtherKeepsThrottling, OtherKeepsOctets, BoundKept
  <2> QED
    BY <2>0, <2>1, <2>2, <2>3, <2>4, <2>5
<1>3. BoundInv => OvershootBounded
  BY DEF BoundInv, BoundAt, OvershootBounded, Beyond
<1> QED
  BY <1>1, <1>2, <1>3, TypeCorrect, PTL DEF Spec
-----------------------------------------------------------------------------
(* LedgerBalance is inductive with the types: what a thread takes under    *)
(* the lock of the session, it owes until it has submitted it.             *)

Owing(ip, event) == {t \in Thread : pc[t] = "submit" /\ job[t].ip = ip /\ job[t].event = event}

Balance(ip) ==
  ledger[ip]["start"] + Owed(ip, "start") >=
    ledger[ip]["stop"] + Owed(ip, "stop") + (IF Released(ip) THEN 1 ELSE 0)

LEMMA OwedFinite ==
  ASSUME NEW ip, NEW event
  PROVE  /\ IsFiniteSet(Owing(ip, event)) /\ IsFiniteSet(Owing(ip, event)')
         /\ Owed(ip, event) = Cardinality(Owing(ip, event)) /\ Owed(ip, event) \in Nat
         /\ Owed(ip, event)' = Cardinality(Owing(ip, event)') /\ Owed(ip, event)' \in Nat
<1>1. IsFiniteSet(Thread)
  <2>1. IsFiniteSet(Uam \cup Relay)
    BY ConstantsOK, FS_Union
  <2>2. IsFiniteSet((Uam \cup Relay) \cup {Maint})
    BY <2>1, FS_AddElement
  <2> QED
    BY <2>2 DEF Thread
<1>2. Owing(ip, event) \subseteq Thread /\ Owing(ip, event)' \subseteq Thread
  BY DEF Owing
<1>3. IsFiniteSet(Owing(ip, event)) /\ IsFiniteSet(Owing(ip, event)')
  BY <1>1, <1>2, FS_Subset
<1>4. Owed(ip, event) = Cardinality(Owing(ip, event))
      /\ Owed(ip, event)' = Cardinality(Owing(ip, event)')
  BY DEF Owed, Owing
<1> QED
  BY <1>3, <1>4, FS_CardinalityType

(* What runs under the lock takes a record exactly when it starts or stops *)
(* the session.                                                            *)
LEMMA OnEntryBalance ==
  ASSUME NEW t \in Thread, NEW s \in Entry, NEW first \in BOOLEAN,
         loaded \subseteq Name, job[t] \in Job
  PROVE  LET r == OnEntry(t, s, first) IN
         /\ r.event \in {"none", "start", "stop"}
         /\ r.event = "none" /\ r.entry.state = "released" => s.state = "released"
         /\ r.event = "stop" => first /\ s.state = "released" /\ r.entry.state = "captured"
         /\ r.entry \in Entry
<1> DEFINE name == job[t].name
<1>1. name \in Name \cup {Empty, Null}
  BY DEF Job
<1>2. StopFilter(s, name) \in Name /\ s.state \in {"captured", "released"}
  BY <1>1, ConstantsOK DEF StopFilter, Entry
<1>3. LET r == StartOn(s, name) IN
      /\ r.event \in {"none", "start"}
      /\ r.event = "none" /\ r.entry.state = "released" => s.state = "released"
  BY <1>1, <1>2 DEF StartOn, Entry
<1>4. LET r == StopOn(s, name, first) IN
      /\ r.event \in {"none", "stop"}
      /\ r.entry.state = (IF first THEN "captured" ELSE s.state)
      /\ r.event = "stop" => first /\ s.state = "released"
  BY <1>1, <1>2 DEF StopOn, Entry
<1>5. OnEntry(t, s, first).entry \in Entry
  BY OnEntryType
<1> QED
  BY <1>3, <1>4, <1>5 DEF OnEntry

(* Steps that take no record and start no session.                         *)
LEMMA NothingTaken ==
  ASSUME TypeOK, NEW ip \in IP, Balance(ip),
         \A e \in {"start", "stop"} : Owing(ip, e)' = Owing(ip, e) /\ ledger'[ip][e] = ledger[ip][e],
         Released(ip)' => Released(ip)
  PROVE  Balance(ip)'
<1>1. Owed(ip, "start")' = Owed(ip, "start") /\ Owed(ip, "stop")' = Owed(ip, "stop")
  BY OwedFinite
<1>2. ledger[ip]["start"] \in Nat /\ ledger[ip]["stop"] \in Nat
  BY DEF TypeOK, AcctType
<1> QED
  BY <1>1, <1>2, OwedFinite DEF Balance

(* A section under the lock, on the entry of the address or a fresh one.   *)
LEMMA SectionBalance ==
  ASSUME TypeOK, NEW ip \in IP, Balance(ip), NEW t \in Thread, NEW s \in Entry,
         pc[t] \in {"lookup", "recheck", "insert"}, ApplyTo(t, s), ledger' = ledger,
         s = session[job[t].ip] \/ s.state = "captured"
  PROVE  Balance(ip)'
<1> DEFINE r == OnEntry(t, s, pc[t] = "lookup")
<1>1. /\ pc \in [Thread -> PC] /\ job \in [Thread -> Job] /\ job[t] \in Job /\ job[t].ip \in IP
      /\ loaded \subseteq Name /\ session \in [IP -> Entry \cup {NoEntry}]
      /\ ledger[ip]["start"] \in Nat /\ ledger[ip]["stop"] \in Nat
  BY DEF TypeOK, Job, AcctType
<1>2. /\ r.event \in {"none", "start", "stop"}
      /\ r.event = "none" /\ r.entry.state = "released" => s.state = "released"
      /\ r.event = "stop" => s.state = "released" /\ r.entry.state = "captured"
      /\ r.entry \in Entry
  BY <1>1, OnEntryBalance
<1> HIDE DEF r
<1>3. /\ session' = [session EXCEPT ![job[t].ip] = r.entry]
      /\ job' = [job EXCEPT ![t].event = r.event]
      /\ pc' = [pc EXCEPT ![t] = IF r.event = "none" THEN AfterSession(job[t].cmd, r.ok) ELSE "submit"]
  BY DEF ApplyTo, Goto, r
<1>4. AfterSession(job[t].cmd, r.ok) # "submit"
  BY DEF AfterSession
<1>5. /\ \A u \in Thread : u # t => pc'[u] = pc[u] /\ job'[u] = job[u]
      /\ job'[t].ip = job[t].ip /\ job'[t].event = r.event
      /\ pc'[t] = "submit" <=> r.event # "none"
      /\ pc[t] # "submit"
  BY <1>1, <1>3, <1>4 DEF Job
<1>6. \A a \in IP : \A e : t \notin Owing(a, e)
  BY <1>5 DEF Owing
<1>7. \A e \in {"start", "stop"} :
        Owing(ip, e)' = IF ip = job[t].ip /\ e = r.event THEN Owing(ip, e) \cup {t} ELSE Owing(ip, e)
  BY <1>2, <1>5 DEF Owing
<1>8. /\ ip # job[t].ip => session'[ip] = session[ip]
      /\ ip = job[t].ip => session'[ip] = r.entry /\ r.entry # NoEntry
  BY <1>1, <1>2, <1>3, NoEntryOK
<1>9. CASE ip # job[t].ip
  BY <1>7, <1>8, <1>9, NothingTaken DEF Released
<1>10. CASE ip = job[t].ip /\ r.event = "none"
  <2>1. Released(ip)' => Released(ip)
    BY <1>2, <1>8, <1>10, NoEntryOK DEF Released
  <2> QED
    BY <1>7, <1>10, <2>1, NothingTaken
<1>11. CASE ip = job[t].ip /\ r.event # "none"
  <2>1. /\ Owed(ip, "start") = Cardinality(Owing(ip, "start"))
        /\ Owed(ip, "stop") = Cardinality(Owing(ip, "stop"))
        /\ Owed(ip, "start")' = Cardinality(Owing(ip, "start")')
        /\ Owed(ip, "stop")' = Cardinality(Owing(ip, "stop")')
        /\ Owed(ip, "start") \in Nat /\ Owed(ip, "stop") \in Nat
    BY OwedFinite
  <2>2. \A e \in {"start", "stop"} :
          Cardinality(Owing(ip, e) \cup {t}) = Cardinality(Owing(ip, e)) + 1
    BY <1>6, OwedFinite, FS_AddElement
  <2>3. CASE r.event = "start"
    <3>1. Owing(ip, "stop")' = Owing(ip, "stop") /\ Owing(ip, "start")' = Owing(ip, "start") \cup {t}
      BY <1>7, <1>11, <2>3
    <3>2. Owed(ip, "stop")' = Owed(ip, "stop") /\ Owed(ip, "start")' = Owed(ip, "start") + 1
      BY <2>1, <2>2, <3>1
    <3> QED
      BY <1>1, <2>1, <3>2 DEF Balance
  <2>4. CASE r.event = "stop"
    <3>1. Owing(ip, "start")' = Owing(ip, "start") /\ Owing(ip, "stop")' = Owing(ip, "stop") \cup {t}
      BY <1>7, <1>11, <2>4
    <3>2. Owed(ip, "start")' = Owed(ip, "start") /\ Owed(ip, "stop")' = Owed(ip, "stop") + 1
      BY <2>1, <2>2, <3>1
    <3>3. Released(ip) /\ ~Released(ip)'
      BY <1>2, <1>8, <1>11, <2>4, NoEntryOK DEF Released
    <3> QED
      BY <1>1, <2>1, <3>2, <3>3 DEF Balance
  <2> QED
    BY <1>2, <1>11, <2>3, <2>4
<1> QED
  BY <1>9, <1>10, <1>11

LEMMA CallBalance ==
  ASSUME TypeOK, NEW ip \in IP, Balance(ip), NEW t \in Thread, CallStep(t)
  PROVE  Balance(ip)'
<1>1. /\ pc \in [Thread -> PC] /\ job \in [Thread -> Job] /\ job[t] \in Job /\ job[t].ip \in IP
      /\ session \in [IP -> Entry \cup {NoEntry}] /\ ledger \in [IP -> [AcctType -> Nat]]
  BY DEF TypeOK, Job
<1>2. ASSUME UNCHANGED <<job, ledger>>, NEW label, Goto(t, label), label # "submit", pc[t] # "submit",
             \A a \in IP : session'[a] = session[a] \/ session'[a] = NoEntry
      PROVE  Balance(ip)'
  <2>1. \A e : Owing(ip, e)' = Owing(ip, e)
    BY <1>1, <1>2 DEF Owing, Goto
  <2> QED
    BY <1>2, <2>1, NothingTaken DEF Released
<1>3. \A ok : AfterSession(job[t].cmd, ok) # "submit"
  BY DEF AfterSession
<1>4. CASE SessionLookup(t)
  <2>1. CASE session[job[t].ip] # NoEntry /\ ApplyTo(t, session[job[t].ip])
    BY <1>1, <1>4, <2>1, SectionBalance DEF SessionLookup
  <2>2. CASE Goto(t, "recheck") /\ UNCHANGED <<session, job>>
    BY <1>2, <1>4, <2>2 DEF SessionLookup
  <2> QED
    BY <1>4, <2>1, <2>2 DEF SessionLookup
<1>5. CASE SessionRecheck(t)
  <2>1. CASE session[job[t].ip] # NoEntry /\ ApplyTo(t, session[job[t].ip])
    BY <1>1, <1>5, <2>1, SectionBalance DEF SessionRecheck
  <2>2. CASE Goto(t, "insert") /\ UNCHANGED <<session, job>>
    BY <1>2, <1>5, <2>2 DEF SessionRecheck
  <2> QED
    BY <1>5, <2>1, <2>2 DEF SessionRecheck
<1>6. CASE SessionInsert(t)
  <2>1. CASE ApplyTo(t, FreshEntry)
    <3>1. FreshEntry.state = "captured"
      BY DEF FreshEntry
    <3> QED
      BY <1>6, <2>1, <3>1, FreshTypes, SectionBalance DEF SessionInsert
  <2>2. CASE Goto(t, AfterSession(job[t].cmd, FALSE)) /\ UNCHANGED <<session, job>>
    BY <1>2, <1>3, <1>6, <2>2 DEF SessionInsert
  <2>3. CASE /\ session' = [session EXCEPT ![job[t].ip] = NoEntry]
             /\ Goto(t, AfterSession(job[t].cmd, FALSE)) /\ UNCHANGED job
    BY <1>1, <1>2, <1>3, <1>6, <2>3 DEF SessionInsert
  <2> QED
    BY <1>6, <2>1, <2>2, <2>3 DEF SessionInsert
<1>7. CASE AcctSubmit(t)
  <2> DEFINE a == job[t].ip
             ev == job[t].event
  <2>1. /\ pc[t] = "submit" /\ session' = session
        /\ ledger' = [ledger EXCEPT ![a][ev] = @ + 1]
        /\ pc' = [pc EXCEPT ![t] = AfterSession(job[t].cmd, TRUE)]
        /\ \A u \in Thread : u # t => job'[u] = job[u]
    BY <1>1, <1>7 DEF AcctSubmit, Goto
  <2>2. \A e : Owing(ip, e)' = IF ip = a /\ e = ev THEN Owing(ip, e) \ {t} ELSE Owing(ip, e)
    BY <1>1, <1>3, <2>1 DEF Owing
  <2>3. \A e \in {"start", "stop"} :
          ledger'[ip][e] = IF ip = a /\ e = ev THEN ledger[ip][e] + 1 ELSE ledger[ip][e]
    BY <1>1, <2>1 DEF AcctType
  <2>4. CASE ip # a \/ ev \notin {"start", "stop"}
    BY <2>1, <2>2, <2>3, <2>4, NothingTaken DEF Released
  <2>5. CASE ip = a /\ ev \in {"start", "stop"}
    <3>1. t \in Owing(ip, ev)
      BY <2>1, <2>5 DEF Owing
    <3>2. /\ Owed(ip, "start") = Cardinality(Owing(ip, "start"))
          /\ Owed(ip, "stop") = Cardinality(Owing(ip, "stop"))
          /\ Owed(ip, "start")' = Cardinality(Owing(ip, "start")')
          /\ Owed(ip, "stop")' = Cardinality(Owing(ip, "stop")')
          /\ Owed(ip, "start") \in Nat /\ Owed(ip, "stop") \in Nat
      BY OwedFinite
    <3>3. Cardinality(Owing(ip, ev) \ {t}) = Cardinality(Owing(ip, ev)) - 1
      BY <3>1, OwedFinite, FS_RemoveElement
    <3>4. ledger[ip]["start"] \in Nat /\ ledger[ip]["stop"] \in Nat
      BY <1>1 DEF AcctType
    <3>5. /\ Owed(ip, "start")' + ledger'[ip]["start"] = Owed(ip, "start") + ledger[ip]["start"]
          /\ Owed(ip, "stop")' + ledger'[ip]["stop"] = Owed(ip, "stop") + ledger[ip]["stop"]
      <4>1. CASE ev = "start"
        <5>1. /\ Owing(ip, "start")' = Owing(ip, "start") \ {t}
              /\ Owing(ip, "stop")' = Owing(ip, "stop")
              /\ ledger'[ip]["start"] = ledger[ip]["start"] + 1
              /\ ledger'[ip]["stop"] = ledger[ip]["stop"]
          BY <2>2, <2>3, <2>5, <4>1
        <5>2. Cardinality(Owing(ip, "start") \ {t}) = Cardinality(Owing(ip, "start")) - 1
          BY <3>3, <4>1
        <5>3. Owed(ip, "start")' = Owed(ip, "start") - 1
          BY <3>2, <5>1, <5>2
        <5>4. Owed(ip, "stop")' = Owed(ip, "stop")
          BY <3>2, <5>1
        <5> QED
          BY <3>2, <3>4, <5>1, <5>3, <5>4
      <4>2. CASE ev = "stop"
        <5>1. /\ Owing(ip, "stop")' = Owing(ip, "stop") \ {t}
              /\ Owing(ip, "start")' = Owing(ip, "start")
              /\ ledger'[ip]["stop"] = ledger[ip]["stop"] + 1
              /\ ledger'[ip]["start"] = ledger[ip]["start"]
          BY <2>2, <2>3, <2>5, <4>2
        <5>2. Cardinality(Owing(ip, "stop") \ {t}) = Cardinality(Owing(ip, "stop")) - 1
          BY <3>3, <4>2
        <5>3. Owed(ip, "stop")' = Owed(ip, "stop") - 1
          BY <3>2, <5>1, <5>2
        <5>4. Owed(ip, "start")' = Owed(ip, "start")
          BY <3>2, <5>1
        <5> QED
          BY <3>2, <3>4, <5>1, <5>3, <5>4
      <4> QED
        BY <2>5, <4>1, <4>2
    <3>6. \A e \in {"start", "stop"} : ledger[ip][e] \in Nat /\ ledger'[ip][e] \in Nat
      BY <1>1, <2>3 DEF AcctType
    <3> QED
      BY <2>1, <3>5, <3>6, OwedFinite DEF Balance, Released
  <2> QED
    BY <2>4, <2>5
<1>8. CASE GaugeDel(t)
  <2>1. PICK label : Goto(t, label) /\ label # "submit"
    BY <1>8 DEF GaugeDel
  <2> QED
    BY <1>2, <1>8, <2>1 DEF GaugeDel
<1> QED
  BY <1>4, <1>5, <1>6, <1>7, <1>8 DEF CallStep

(* The other steps neither take nor submit what LedgerBalance counts, and  *)
(* leave no session released that was not.                                 *)
LEMMA OtherOwes ==
  ASSUME TypeOK, Next, ~ \E t \in Thread : CallStep(t), NEW ip \in IP, NEW e
  PROVE  Owing(ip, e)' = Owing(ip, e)
<1>1. /\ pc \in [Thread -> PC] /\ job \in [Thread -> Job]
      /\ Relay \subseteq Thread /\ Uam \subseteq Thread /\ Maint \in Thread
  BY DEF TypeOK, Thread
<1>2. SUFFICES \A t \in Thread : \/ pc'[t] = pc[t] /\ job'[t] = job[t]
                                 \/ pc[t] # "submit" /\ pc'[t] # "submit"
  BY DEF Owing
<1>3. CASE \E u \in Uam : Receive(u)
  BY <1>1, <1>3 DEF Receive, Goto, Do
<1>4. ASSUME NEW u \in Uam, UamStep(u)
      PROVE  /\ job' = job /\ pc[u] # "submit" /\ pc'[u] # "submit"
             /\ \A t \in Thread : t # u => pc'[t] = pc[t]
  BY <1>1, <1>4 DEF UamStep, VerifyStateid, Retention, GaugeLookup, GaugeInsert,
       ShapeNew, UndoGauge, UndoShape, AcquireStateid, Goto
<1>5. CASE \E r \in Relay : Packet(r) \/ Block(r)
  BY <1>1, <1>5 DEF Packet, Block, Goto, Do
<1>6. CASE \E r \in Relay : RelayStep(r)
  BY <1>1, <1>6 DEF RelayStep, Count, Goto, Do
<1>7. CASE MaintStep
  BY <1>1, <1>7 DEF MaintStep, BeginSweep, GaugesDone, SessionsDone, ExpireGauge,
       ExpireSession, Goto, Do
<1>8. CASE \/ \E name \in Volatile : FilterReload(name)
           \/ \E a \in IP : GaugeAges(a) \/ SessionAges(a)
  BY <1>8 DEF FilterReload, GaugeAges, SessionAges
<1> QED
  BY <1>3, <1>4, <1>5, <1>6, <1>7, <1>8 DEF Next

LEMMA OtherReleases ==
  ASSUME TypeOK, Next, ~ \E t \in Thread : CallStep(t), NEW ip \in IP
  PROVE  /\ Released(ip)' => Released(ip)
         /\ \A e \in {"start", "stop"} : ledger'[ip][e] = ledger[ip][e]
<1>1. session \in [IP -> Entry \cup {NoEntry}] /\ ledger \in [IP -> [AcctType -> Nat]]
      /\ job \in [Thread -> Job]
  BY DEF TypeOK
<1>2. ASSUME NEW x, NEW a \in IP,
             \/ session' = [session EXCEPT ![a].stale = x]
             \/ session' = [session EXCEPT ![a].interim = x]
             \/ session' = [session EXCEPT ![a].stateid = x],
             session[a] # NoEntry
      PROVE  Released(ip)' => Released(ip)
  BY <1>1, <1>2, NoEntryOK DEF Released, Entry
<1>3. ASSUME NEW a \in IP, session' = [session EXCEPT ![a] = NoEntry]
      PROVE  Released(ip)' => Released(ip)
  BY <1>1, <1>3 DEF Released
<1>4. CASE session' = session /\ ledger' = ledger
  BY <1>4 DEF Released
<1>5. CASE \E u \in Uam : Receive(u) \/ UamStep(u)
  <2>1. PICK u \in Uam : Receive(u) \/ UamStep(u)
    BY <1>5
  <2>2. ledger' = ledger /\ job[u].ip \in IP
    BY <1>1, <2>1 DEF Receive, UamStep, VerifyStateid, Retention, GaugeLookup, GaugeInsert,
         ShapeNew, UndoGauge, UndoShape, AcquireStateid, Thread, Job
  <2>3. CASE Retention(u)
    BY <1>2, <1>4, <2>2, <2>3 DEF Retention
  <2>4. CASE AcquireStateid(u)
    <3>1. CASE session[job[u].ip] = NoEntry
      BY <1>4, <2>2, <2>4, <3>1 DEF AcquireStateid
    <3>2. CASE session[job[u].ip] # NoEntry
      <4>1. session' = [session EXCEPT ![job[u].ip].stateid = NextStateid(@)]
        BY <2>4, <3>2 DEF AcquireStateid
      <4>2. session' = [session EXCEPT ![job[u].ip].stateid = NextStateid(session[job[u].ip].stateid)]
        BY <1>1, <2>2, <4>1
      <4> QED
        BY <1>2, <2>2, <3>2, <4>2
    <3> QED
      BY <3>1, <3>2
  <2>5. CASE session' = session
    BY <1>4, <2>2, <2>5
  <2> QED
    BY <2>1, <2>2, <2>3, <2>4, <2>5
    DEF Receive, UamStep, VerifyStateid, GaugeLookup, GaugeInsert, ShapeNew, UndoGauge, UndoShape
<1>6. ASSUME NEW r \in Relay, Packet(r) \/ Block(r) \/ RelayStep(r)
      PROVE  session' = session /\ ledger' = ledger
  BY <1>6 DEF Packet, Block, RelayStep, Count
<1>7. CASE MaintStep
  <2>1. CASE BeginSweep \/ GaugesDone \/ SessionsDone \/ \E a \in IP : ExpireGauge(a)
    BY <1>4, <2>1 DEF BeginSweep, GaugesDone, SessionsDone, ExpireGauge
  <2>2. CASE \E a \in IP : ExpireSession(a)
    <3>1. PICK a \in IP : ExpireSession(a)
      BY <2>2
    <3>2. CASE session' = [session EXCEPT ![a] = NoEntry] /\ ledger' = ledger
      BY <1>3, <3>2
    <3>3. CASE /\ InterimDue(session[a]) /\ session' = [session EXCEPT ![a].interim = FALSE]
               /\ ledger' = [ledger EXCEPT ![a]["interim"] = @ + 1]
      <4>1. \A e \in {"start", "stop"} : ledger'[ip][e] = ledger[ip][e]
        BY <1>1, <3>3 DEF AcctType
      <4> QED
        BY <1>2, <3>3, <4>1 DEF InterimDue
    <3>4. CASE session' = session /\ ledger' = ledger
      BY <1>4, <3>4
    <3> QED
      BY <3>1, <3>2, <3>3, <3>4 DEF ExpireSession
  <2> QED
    BY <1>7, <2>1, <2>2 DEF MaintStep
<1>8. CASE \E name \in Volatile : FilterReload(name)
  BY <1>4, <1>8 DEF FilterReload
<1>9. CASE \E a \in IP : GaugeAges(a)
  BY <1>4, <1>9 DEF GaugeAges
<1>10. CASE \E a \in IP : SessionAges(a)
  BY <1>2, <1>10 DEF SessionAges
<1> QED
  BY <1>4, <1>5, <1>6, <1>7, <1>8, <1>9, <1>10 DEF Next

(* No address has more stops than starts, and one start more while it is   *)
(* released, for any number of threads that start and stop it.             *)
THEOREM LedgerBalances == Spec => []LedgerBalance
<1>1. Init => LedgerBalance
  <2> SUFFICES ASSUME Init, NEW ip \in IP PROVE Balance(ip)
    BY DEF LedgerBalance, Balance
  <2>1. Owing(ip, "start") = {} /\ Owing(ip, "stop") = {}
    BY DEF Init, Owing
  <2>2. Owed(ip, "start") = 0 /\ Owed(ip, "stop") = 0
    BY <2>1, OwedFinite, FS_EmptySet
  <2> QED
    BY <2>2 DEF Init, Balance, Released, AcctType
<1>2. TypeOK /\ LedgerBalance /\ [Next]_vars => LedgerBalance'
  <2> SUFFICES ASSUME TypeOK, LedgerBalance, [Next]_vars, NEW ip \in IP
               PROVE  Balance(ip)'
    BY DEF LedgerBalance, Balance
  <2>1. Balance(ip)
    BY DEF LedgerBalance, Balance
  <2>2. CASE UNCHANGED vars
    <3>1. Released(ip)' = Released(ip) /\ ledger' = ledger
          /\ \A e : Owing(ip, e)' = Owing(ip, e)
      BY <2>2 DEF vars, Released, Owing
    <3> QED
      BY <2>1, <3>1, NothingTaken
  <2>3. CASE \E t \in Thread : CallStep(t)
    BY <2>1, <2>3, CallBalance
  <2>4. CASE Next /\ ~ \E t \in Thread : CallStep(t)
    BY <2>1, <2>4, OtherOwes, OtherReleases, NothingTaken
  <2> QED
    BY <2>2, <2>3, <2>4
<1> QED
  BY <1>1, <1>2, TypeCorrect, PTL DEF Spec
-----------------------------------------------------------------------------
(* Accounting.  Its steps are steps of the sessions or leave them, and     *)
(* steps of the queue or leave it.                                         *)
LEMMA StepsOfBoth ==
  ASSUME [AccountingNext]_<<vars, queue>>
  PROVE  [Next]_vars /\ [Queue!QueueNext]_(Queue!queue)
<1>1. CASE SessionStep
  <2>1. UNCHANGED queue \/ \E rec \in Record : Queue!Submit(rec)
    BY <1>1 DEF SessionStep, Recording
  <2> QED
    BY <1>1, <2>1 DEF SessionStep, Queue!QueueNext, queue, Queue!queue
<1>2. CASE StartPass
  <2>1. Next
    BY <1>2 DEF StartPass, Next, MaintStep
  <2> QED
    BY <1>2, <2>1 DEF StartPass, Queue!QueueNext, Queue!PassStep
<1>3. CASE AcctPass
  <2>1. ASSUME NEW e, Queue!BuildScope(Found(e)) PROVE Queue!PassStep
    <3>1. Found(e) \in BOOLEAN
      BY DEF Found
    <3> QED
      BY <2>1, <3>1 DEF Queue!PassStep
  <2>2. Queue!QueueNext
    BY <1>3, <2>1 DEF AcctPass, Queue!QueueNext, Queue!PassStep
  <2> QED
    BY <1>3, <2>2 DEF AcctPass
<1>4. CASE UNCHANGED <<vars, queue>>
  BY <1>4 DEF queue, Queue!queue
<1> QED
  BY <1>1, <1>2, <1>3, <1>4 DEF AccountingNext

(* The sessions run as they do without a queue: the queue delays nothing   *)
(* and changes nothing but what the records will say.                      *)
LEMMA SessionsUnderQueue == AccountingSpec => Spec
BY StepsOfBoth, PTL DEF AccountingSpec, AccountingInit, Spec

-----------------------------------------------------------------------------
(* Where the records are: what waits and what is written, with no record   *)
(* at two places.                                                          *)
Line == [what : Record, id : Nat, scope : Nat]

UniqueIn(s) == \A i, j \in 1 .. Len(s) : s[i].id = s[j].id => i = j

ById(S) == \A e, f \in S : e.id = f.id => e = f

(* Four parts of the records: retries, those in work, new ones, the file.  *)
ApartFrom(R, B, C, W) ==
  /\ R \cap B = {} /\ R \cap C = {} /\ R \cap W = {}
  /\ B \cap C = {} /\ B \cap W = {} /\ C \cap W = {}

AllOf(R, B, C, W) == R \cup B \cup C \cup W

Kept == AllOf(Queue!Entries(retry), Queue!Entries(batch), Queue!Entries(chain), Queue!Entries(written))

PlacedOnce ==
  /\ retry \in Seq(Line) /\ batch \in Seq(Line) /\ chain \in Seq(Line) /\ written \in Seq(Line)
  /\ mode \in {"idle", "pass"} /\ (mode = "idle" => batch = <<>>)
  /\ count \in Nat /\ \A e \in Kept : e.id <= count
  /\ UniqueIn(retry) /\ UniqueIn(batch) /\ UniqueIn(chain) /\ UniqueIn(written)
  /\ ApartFrom(Queue!Entries(retry), Queue!Entries(batch), Queue!Entries(chain),
               Queue!Entries(written))
  /\ ById(Kept)

Counted ==
  \A rec \in Record :
    ledger[rec.ip][rec.type] = Cardinality({e \in Kept : e.what = rec})

(* The operations of the queue on a part of it, as sets of entries.        *)
LEMMA SeqFacts ==
  ASSUME NEW s \in Seq(Line)
  PROVE  /\ Len(s) \in Nat /\ \A i \in 1 .. Len(s) : s[i] \in Line
         /\ Queue!Entries(s) \subseteq Line /\ IsFiniteSet(Queue!Entries(s))
<1>1. Len(s) \in Nat /\ \A i \in 1 .. Len(s) : s[i] \in Line
  OBVIOUS
<1>2. IsFiniteSet(1 .. Len(s))
  <2>1. 1 \in Int /\ Len(s) \in Int
    BY <1>1
  <2> QED
    BY <2>1, FS_Interval
<1>3. PICK f : f = [i \in 1 .. Len(s) |-> s[i]]
  OBVIOUS
<1>4. f \in Surjection(1 .. Len(s), Queue!Entries(s))
  BY <1>3 DEF Surjection, Queue!Entries
<1>5. IsFiniteSet(Queue!Entries(s))
  BY <1>2, <1>4, FS_Surjection
<1>6. Queue!Entries(s) \subseteq Line
  BY <1>1 DEF Queue!Entries
<1> QED
  BY <1>1, <1>5, <1>6

LEMMA EmptyPart ==
  /\ <<>> \in Seq(Line) /\ Queue!Entries(<<>>) = {} /\ UniqueIn(<<>>)
BY DEF Queue!Entries, UniqueIn

LEMMA HeadOff ==
  ASSUME NEW s \in Seq(Line), s # <<>>, UniqueIn(s)
  PROVE  /\ Tail(s) \in Seq(Line) /\ Head(s) \in Line /\ Head(s) \in Queue!Entries(s)
         /\ Queue!Entries(Tail(s)) = Queue!Entries(s) \ {Head(s)}
         /\ UniqueIn(Tail(s))
<1>1. /\ Len(s) \in Nat /\ Len(s) >= 1 /\ Head(s) = s[1]
      /\ Tail(s) \in Seq(Line) /\ Len(Tail(s)) = Len(s) - 1
      /\ \A i \in 1 .. Len(s) - 1 : Tail(s)[i] = s[i + 1]
  OBVIOUS
<1>2. Head(s) \in Line /\ Head(s) \in Queue!Entries(s)
  BY <1>1 DEF Queue!Entries
<1>3. UniqueIn(Tail(s))
  BY <1>1 DEF UniqueIn
<1>4. ASSUME NEW e PROVE e \in Queue!Entries(Tail(s)) <=> e \in Queue!Entries(s) /\ e # Head(s)
  <2>1. ASSUME NEW i \in 1 .. Len(s) - 1, e = Tail(s)[i]
        PROVE  e \in Queue!Entries(s) /\ e # Head(s)
    <3>1. i + 1 \in 1 .. Len(s) /\ e = s[i + 1] /\ i + 1 # 1 /\ 1 \in 1 .. Len(s)
      BY <1>1, <2>1
    <3> QED
      BY <1>1, <3>1 DEF UniqueIn, Queue!Entries
  <2>2. ASSUME NEW i \in 1 .. Len(s), e = s[i], e # Head(s)
        PROVE  e \in Queue!Entries(Tail(s))
    <3>1. i - 1 \in 1 .. Len(s) - 1 /\ Tail(s)[i - 1] = e
      BY <1>1, <2>2
    <3> QED
      BY <1>1, <3>1 DEF Queue!Entries
  <2> QED
    BY <1>1, <2>1, <2>2 DEF Queue!Entries
<1> QED
  BY <1>1, <1>2, <1>3, <1>4

LEMMA OneMore ==
  ASSUME NEW s \in Seq(Line), UniqueIn(s), NEW n \in Line,
         \A e \in Queue!Entries(s) : e.id # n.id
  PROVE  /\ Append(s, n) \in Seq(Line)
         /\ Queue!Entries(Append(s, n)) = Queue!Entries(s) \cup {n}
         /\ UniqueIn(Append(s, n))
<1>1. /\ Len(s) \in Nat /\ Append(s, n) \in Seq(Line) /\ Len(Append(s, n)) = Len(s) + 1
      /\ \A i \in 1 .. Len(s) : Append(s, n)[i] = s[i]
      /\ Append(s, n)[Len(s) + 1] = n
  OBVIOUS
<1>2. 1 .. Len(s) + 1 = (1 .. Len(s)) \cup {Len(s) + 1}
  BY <1>1
<1>3. Queue!Entries(Append(s, n)) = Queue!Entries(s) \cup {n}
  BY <1>1, <1>2 DEF Queue!Entries
<1>4. UniqueIn(Append(s, n))
  BY <1>1, <1>2 DEF UniqueIn, Queue!Entries
<1> QED
  BY <1>1, <1>3, <1>4

LEMMA InARow ==
  ASSUME NEW s \in Seq(Line), NEW t \in Seq(Line), UniqueIn(s), UniqueIn(t),
         \A e \in Queue!Entries(s), f \in Queue!Entries(t) : e.id # f.id
  PROVE  /\ s \o t \in Seq(Line)
         /\ Queue!Entries(s \o t) = Queue!Entries(s) \cup Queue!Entries(t)
         /\ UniqueIn(s \o t)
<1>1. /\ Len(s) \in Nat /\ Len(t) \in Nat /\ s \o t \in Seq(Line)
      /\ Len(s \o t) = Len(s) + Len(t)
      /\ \A i \in 1 .. Len(s) : (s \o t)[i] = s[i]
      /\ \A i \in 1 .. Len(t) : (s \o t)[Len(s) + i] = t[i]
  OBVIOUS
<1>2. ASSUME NEW i \in 1 .. Len(s \o t)
      PROVE  \/ i \in 1 .. Len(s) /\ (s \o t)[i] = s[i]
             \/ i - Len(s) \in 1 .. Len(t) /\ (s \o t)[i] = t[i - Len(s)]
  <2>1. CASE i <= Len(s)
    BY <1>1, <2>1
  <2>2. CASE ~(i <= Len(s))
    <3>1. i - Len(s) \in 1 .. Len(t) /\ Len(s) + (i - Len(s)) = i
      BY <1>1, <2>2
    <3> QED
      BY <1>1, <3>1
  <2> QED
    BY <2>1, <2>2
<1>3. Queue!Entries(s \o t) = Queue!Entries(s) \cup Queue!Entries(t)
  <2>1. \A e \in Queue!Entries(s \o t) : e \in Queue!Entries(s) \cup Queue!Entries(t)
    BY <1>2 DEF Queue!Entries
  <2>2. \A i \in 1 .. Len(s) : s[i] \in Queue!Entries(s \o t)
    BY <1>1 DEF Queue!Entries
  <2>3. \A i \in 1 .. Len(t) : t[i] \in Queue!Entries(s \o t)
    <3>1. \A i \in 1 .. Len(t) : Len(s) + i \in 1 .. Len(s \o t)
      BY <1>1
    <3> QED
      BY <1>1, <3>1 DEF Queue!Entries
  <2> QED
    BY <2>1, <2>2, <2>3 DEF Queue!Entries
<1>4. UniqueIn(s \o t)
  <2> SUFFICES ASSUME NEW i \in 1 .. Len(s \o t), NEW j \in 1 .. Len(s \o t),
                      (s \o t)[i].id = (s \o t)[j].id
               PROVE  i = j
    BY DEF UniqueIn
  <2>1. \A k \in 1 .. Len(s), l \in 1 .. Len(t) : s[k].id # t[l].id
    BY DEF Queue!Entries
  <2>2. CASE i \in 1 .. Len(s) /\ (s \o t)[i] = s[i] /\ j \in 1 .. Len(s) /\ (s \o t)[j] = s[j]
    BY <2>2 DEF UniqueIn
  <2>3. CASE /\ i - Len(s) \in 1 .. Len(t) /\ (s \o t)[i] = t[i - Len(s)]
             /\ j - Len(s) \in 1 .. Len(t) /\ (s \o t)[j] = t[j - Len(s)]
    <3>1. i - Len(s) = j - Len(s)
      BY <2>3 DEF UniqueIn
    <3> QED
      BY <1>1, <3>1
  <2> QED
    BY <1>2, <2>1, <2>2, <2>3
<1> QED
  BY <1>1, <1>3, <1>4

(* A scope handler has added its scope to the head.                        *)
LEMMA HeadChanged ==
  ASSUME NEW s \in Seq(Line), s # <<>>, UniqueIn(s),
         NEW r, r = [s EXCEPT ![1].scope = @ + 1]
  PROVE  /\ r \in Seq(Line) /\ UniqueIn(r)
         /\ [Head(s) EXCEPT !.scope = @ + 1] \in Line
         /\ [Head(s) EXCEPT !.scope = @ + 1].id = Head(s).id
         /\ [Head(s) EXCEPT !.scope = @ + 1].what = Head(s).what
         /\ Queue!Entries(r) = (Queue!Entries(s) \ {Head(s)}) \cup {[Head(s) EXCEPT !.scope = @ + 1]}
<1>1. PICK h : h = [Head(s) EXCEPT !.scope = @ + 1]
  OBVIOUS
<1>2. Len(s) \in Nat /\ Len(s) >= 1 /\ Head(s) = s[1] /\ s[1] \in Line
  OBVIOUS
<1>3. h \in Line /\ h.id = Head(s).id /\ h.what = Head(s).what
  BY <1>1, <1>2 DEF Line
<1>4. r = [s EXCEPT ![1] = h]
  BY <1>1, <1>2
<1>5. /\ r \in Seq(Line) /\ Len(r) = Len(s) /\ r[1] = h
      /\ \A i \in 1 .. Len(s) : i # 1 => r[i] = s[i]
  BY <1>2, <1>3, <1>4
<1>6. \A i \in 1 .. Len(s) : r[i].id = s[i].id
  BY <1>2, <1>3, <1>5
<1>7. UniqueIn(r)
  BY <1>5, <1>6 DEF UniqueIn
<1>8. ASSUME NEW e
      PROVE  e \in Queue!Entries(r) <=> e \in (Queue!Entries(s) \ {Head(s)}) \cup {h}
  <2>1. \A i \in 1 .. Len(s) : i # 1 => s[i] # s[1]
    BY <1>2 DEF UniqueIn
  <2>2. 1 \in 1 .. Len(s)
    BY <1>2
  <2> QED
    BY <1>2, <1>5, <2>1, <2>2 DEF Queue!Entries
<1> QED
  BY <1>1, <1>3, <1>5, <1>7, <1>8

(* The records of one kind among the entries, and how their number goes.   *)
Held(S, rec) == {e \in S : e.what = rec}

LEMMA MoreHeld ==
  ASSUME NEW S, IsFiniteSet(S), NEW n, n \notin S, NEW rec
  PROVE  /\ Cardinality(Held(S, rec)) \in Nat
         /\ n.what = rec => Cardinality(Held(S \cup {n}, rec)) = Cardinality(Held(S, rec)) + 1
         /\ n.what # rec => Held(S \cup {n}, rec) = Held(S, rec)
<1>1. IsFiniteSet(Held(S, rec))
  <2>1. Held(S, rec) \subseteq S
    BY DEF Held
  <2> QED
    BY <2>1, FS_Subset
<1>2. Cardinality(Held(S, rec)) \in Nat
  BY <1>1, FS_CardinalityType
<1>3. ASSUME n.what = rec
      PROVE  Cardinality(Held(S \cup {n}, rec)) = Cardinality(Held(S, rec)) + 1
  <2>1. Held(S \cup {n}, rec) = Held(S, rec) \cup {n} /\ n \notin Held(S, rec)
    BY <1>3 DEF Held
  <2> QED
    BY <1>1, <2>1, FS_AddElement
<1>4. n.what # rec => Held(S \cup {n}, rec) = Held(S, rec)
  BY DEF Held
<1> QED
  BY <1>2, <1>3, <1>4

LEMMA SwapHeld ==
  ASSUME NEW S, IsFiniteSet(S), NEW h \in S, NEW n, n \notin S \ {h}, n.what = h.what, NEW rec
  PROVE  Cardinality(Held((S \ {h}) \cup {n}, rec)) = Cardinality(Held(S, rec))
<1>1. PICK T : T = S \ {h}
  OBVIOUS
<1>2. IsFiniteSet(T) /\ h \notin T /\ n \notin T /\ T \cup {h} = S
  BY <1>1, FS_Subset
<1>3. CASE h.what = rec
  <2>1. Cardinality(Held(T \cup {h}, rec)) = Cardinality(Held(T, rec)) + 1
    BY <1>2, <1>3, MoreHeld
  <2>2. Cardinality(Held(T \cup {n}, rec)) = Cardinality(Held(T, rec)) + 1
    BY <1>2, <1>3, MoreHeld
  <2> QED
    BY <1>1, <1>2, <2>1, <2>2
<1>4. CASE h.what # rec
  <2>1. Held(T \cup {h}, rec) = Held(T, rec)
    BY <1>2, <1>4, MoreHeld
  <2>2. Held(T \cup {n}, rec) = Held(T, rec)
    BY <1>2, <1>4, MoreHeld
  <2> QED
    BY <1>1, <1>2, <2>1, <2>2
<1> QED
  BY <1>3, <1>4

(* A record comes into the chain, and nothing else changes.                *)
LEMMA SubmitPlaces ==
  ASSUME PlacedOnce, NEW rec \in Record, Queue!Submit(rec)
  PROVE  /\ PlacedOnce'
         /\ count' = count + 1
         /\ \E n : n.what = rec /\ n.id = count' /\ n \notin Kept /\ Kept' = Kept \cup {n}
<1>1. PICK n : n = [what |-> rec, id |-> count + 1, scope |-> 0]
  OBVIOUS
<1>2. count \in Nat /\ count' = count + 1 /\ count' \in Nat /\ count < count'
  BY DEF PlacedOnce, Queue!Submit
<1>3. n \in Line /\ n.what = rec /\ n.id = count'
  BY <1>1, <1>2 DEF Line
<1>4. UNCHANGED <<batch, retry, written, mode>>
  BY DEF Queue!Submit
<1>5. chain \in Seq(Line) /\ UniqueIn(chain)
  BY DEF PlacedOnce
<1>6. chain' = Append(chain, n)
  <2>1. Queue!Renumber(<<rec>>) = <<n>>
    BY <1>1 DEF Queue!Renumber
  <2>2. chain \o <<n>> = Append(chain, n)
    BY <1>5
  <2> QED
    BY <2>1, <2>2 DEF Queue!Submit
<1>7. \A e \in Kept : e \in Line /\ e.id <= count
  <2>1. /\ Queue!Entries(retry) \subseteq Line /\ Queue!Entries(batch) \subseteq Line
        /\ Queue!Entries(chain) \subseteq Line /\ Queue!Entries(written) \subseteq Line
    BY SeqFacts DEF PlacedOnce
  <2> QED
    BY <2>1 DEF Kept, AllOf, PlacedOnce
<1>8. \A e \in Kept : e.id # n.id /\ e.id <= count'
  <2>1. \A e \in Kept : e.id \in Nat /\ e.id <= count
    BY <1>7 DEF Line
  <2> QED
    BY <1>2, <1>3, <2>1
<1>9. n \notin Kept
  BY <1>8
<1>10. \A e \in Queue!Entries(chain) : e.id # n.id
  BY <1>8 DEF Kept, AllOf
<1>11. /\ chain' \in Seq(Line) /\ UniqueIn(chain')
       /\ Queue!Entries(chain') = Queue!Entries(chain) \cup {n}
  BY <1>3, <1>5, <1>6, <1>10, OneMore
<1>12. Kept' = Kept \cup {n}
  BY <1>4, <1>11 DEF Kept, AllOf
<1>13. ApartFrom(Queue!Entries(retry), Queue!Entries(batch), Queue!Entries(chain) \cup {n},
                 Queue!Entries(written))
  BY <1>9 DEF PlacedOnce, ApartFrom, Kept, AllOf
<1>14. ById(Kept \cup {n})
  BY <1>8 DEF PlacedOnce, ById
<1>15. \A e \in Kept \cup {n} : e.id <= count'
  BY <1>2, <1>3, <1>8
<1>16. PlacedOnce'
  BY <1>2, <1>4, <1>11, <1>12, <1>13, <1>14, <1>15 DEF PlacedOnce
<1> QED
  BY <1>2, <1>3, <1>9, <1>12, <1>16

(* The pass takes the chain.                                               *)
LEMMA BeginPlaces ==
  ASSUME PlacedOnce, Queue!BeginPass
  PROVE  PlacedOnce' /\ Kept' = Kept
<1>1. /\ batch = <<>> /\ batch' = chain /\ chain' = <<>> /\ mode' = "pass"
      /\ UNCHANGED <<retry, written, count>>
  BY DEF PlacedOnce, Queue!BeginPass
<1>2. Queue!Entries(<<>>) = {} /\ <<>> \in Seq(Line) /\ UniqueIn(<<>>)
  BY EmptyPart
<1>3. Kept' = Kept
  BY <1>1, <1>2 DEF Kept, AllOf
<1>4. ApartFrom(Queue!Entries(retry'), Queue!Entries(batch'), Queue!Entries(chain'),
                Queue!Entries(written'))
  BY <1>1, <1>2 DEF PlacedOnce, ApartFrom
<1> QED
  BY <1>1, <1>2, <1>3, <1>4 DEF PlacedOnce

(* The record in work leaves the batch for another part.                   *)
LEMMA HeadMoves ==
  ASSUME NEW s \in Seq(Line), NEW t \in Seq(Line), s # <<>>, UniqueIn(s), UniqueIn(t),
         Queue!Entries(s) \cap Queue!Entries(t) = {},
         NEW All, ById(All), Queue!Entries(s) \subseteq All, Queue!Entries(t) \subseteq All
  PROVE  /\ Tail(s) \in Seq(Line) /\ UniqueIn(Tail(s))
         /\ Append(t, Head(s)) \in Seq(Line) /\ UniqueIn(Append(t, Head(s)))
         /\ Head(s) \in Queue!Entries(s)
         /\ Queue!Entries(Tail(s)) = Queue!Entries(s) \ {Head(s)}
         /\ Queue!Entries(Append(t, Head(s))) = Queue!Entries(t) \cup {Head(s)}
<1>1. /\ Tail(s) \in Seq(Line) /\ Head(s) \in Line /\ Head(s) \in Queue!Entries(s)
      /\ Queue!Entries(Tail(s)) = Queue!Entries(s) \ {Head(s)} /\ UniqueIn(Tail(s))
  BY HeadOff
<1>2. \A e \in Queue!Entries(t) : e.id # Head(s).id
  <2>1. \A e \in Queue!Entries(t) : e # Head(s) /\ e \in All /\ Head(s) \in All
    BY <1>1
  <2> QED
    BY <2>1 DEF ById
<1>3. /\ Append(t, Head(s)) \in Seq(Line) /\ UniqueIn(Append(t, Head(s)))
      /\ Queue!Entries(Append(t, Head(s))) = Queue!Entries(t) \cup {Head(s)}
  BY <1>1, <1>2, OneMore
<1> QED
  BY <1>1, <1>3

(* The record in work is written ...                                       *)
LEMMA WritePlaces ==
  ASSUME PlacedOnce, Queue!Write
  PROVE  PlacedOnce' /\ Kept' = Kept
<1>1. /\ batch # <<>> /\ written' = Append(written, Head(batch)) /\ batch' = Tail(batch)
      /\ mode = "pass" /\ UNCHANGED <<chain, retry, mode, count>>
  BY DEF Queue!Write, Queue!NextEntry, PlacedOnce
<1>2. PICK h : h = Head(batch)
  OBVIOUS
<1>3. /\ batch' \in Seq(Line) /\ UniqueIn(batch')
      /\ written' \in Seq(Line) /\ UniqueIn(written')
      /\ h \in Queue!Entries(batch)
      /\ Queue!Entries(batch') = Queue!Entries(batch) \ {h}
      /\ Queue!Entries(written') = Queue!Entries(written) \cup {h}
  <2>1. /\ Queue!Entries(batch) \cap Queue!Entries(written) = {}
        /\ Queue!Entries(batch) \subseteq Kept /\ Queue!Entries(written) \subseteq Kept
    BY DEF PlacedOnce, ApartFrom, Kept, AllOf
  <2>2. /\ batch \in Seq(Line) /\ written \in Seq(Line) /\ ById(Kept)
        /\ UniqueIn(batch) /\ UniqueIn(written)
    BY DEF PlacedOnce
  <2> QED
    BY <1>1, <1>2, <2>1, <2>2, HeadMoves
<1>4. Kept' = Kept
  BY <1>1, <1>3 DEF Kept, AllOf
<1>5. ApartFrom(Queue!Entries(retry), Queue!Entries(batch'), Queue!Entries(chain),
                Queue!Entries(written'))
  BY <1>3 DEF PlacedOnce, ApartFrom
<1> QED
  BY <1>1, <1>3, <1>4, <1>5 DEF PlacedOnce

(* ... or kept for the next pass, with the scope it has.                   *)
LEMMA RetryPlaces ==
  ASSUME PlacedOnce, mode = "pass", batch # <<>>,
         retry' = Append(retry, Head(batch)), batch' = Tail(batch),
         UNCHANGED <<chain, written, mode, count>>
  PROVE  PlacedOnce' /\ Kept' = Kept
<1>1. PICK h : h = Head(batch)
  OBVIOUS
<1>2. /\ batch' \in Seq(Line) /\ UniqueIn(batch')
      /\ retry' \in Seq(Line) /\ UniqueIn(retry')
      /\ h \in Queue!Entries(batch)
      /\ Queue!Entries(batch') = Queue!Entries(batch) \ {h}
      /\ Queue!Entries(retry') = Queue!Entries(retry) \cup {h}
  <2>1. /\ Queue!Entries(batch) \cap Queue!Entries(retry) = {}
        /\ Queue!Entries(batch) \subseteq Kept /\ Queue!Entries(retry) \subseteq Kept
    BY DEF PlacedOnce, ApartFrom, Kept, AllOf
  <2>2. /\ batch \in Seq(Line) /\ retry \in Seq(Line) /\ ById(Kept)
        /\ UniqueIn(batch) /\ UniqueIn(retry)
    BY DEF PlacedOnce
  <2> QED
    BY <1>1, <2>1, <2>2, HeadMoves
<1>3. Kept' = Kept
  BY <1>2 DEF Kept, AllOf
<1>4. ApartFrom(Queue!Entries(retry'), Queue!Entries(batch'), Queue!Entries(chain),
                Queue!Entries(written))
  BY <1>2 DEF PlacedOnce, ApartFrom
<1> QED
  BY <1>2, <1>3, <1>4 DEF PlacedOnce

(* The retries go back before what was submitted meanwhile.                *)
LEMMA EndPlaces ==
  ASSUME PlacedOnce, Queue!EndPass
  PROVE  PlacedOnce' /\ Kept' = Kept
<1>1. /\ batch = <<>> /\ batch' = <<>> /\ chain' = retry \o chain /\ retry' = <<>>
      /\ mode' = "idle" /\ UNCHANGED <<written, count>>
  BY DEF PlacedOnce, Queue!EndPass
<1>2. Queue!Entries(<<>>) = {} /\ <<>> \in Seq(Line) /\ UniqueIn(<<>>)
  BY EmptyPart
<1>3. \A e \in Queue!Entries(retry), f \in Queue!Entries(chain) : e.id # f.id
  BY DEF PlacedOnce, ApartFrom, ById, Kept, AllOf
<1>4. /\ chain' \in Seq(Line) /\ UniqueIn(chain')
      /\ Queue!Entries(chain') = Queue!Entries(retry) \cup Queue!Entries(chain)
  BY <1>1, <1>3, InARow DEF PlacedOnce
<1>5. Kept' = Kept
  BY <1>1, <1>2, <1>4 DEF Kept, AllOf
<1>6. ApartFrom({}, {}, Queue!Entries(chain'), Queue!Entries(written))
  BY <1>4 DEF PlacedOnce, ApartFrom
<1> QED
  BY <1>1, <1>2, <1>4, <1>5, <1>6 DEF PlacedOnce

(* A scope handler adds to the record in work.                             *)
LEMMA ScopePlaces ==
  ASSUME PlacedOnce, Queue!BuildScope(TRUE)
  PROVE  /\ PlacedOnce' /\ count' = count
         /\ \E h, n : /\ h \in Kept /\ n \notin Kept \ {h} /\ n.what = h.what /\ n.id = h.id
                      /\ Kept' = (Kept \ {h}) \cup {n}
<1>1. /\ batch # <<>> /\ batch' = [batch EXCEPT ![1].scope = @ + 1]
      /\ mode = "pass" /\ UNCHANGED <<chain, retry, written, mode, count>>
  BY DEF Queue!BuildScope
<1>2. PICK h : h = Head(batch)
  OBVIOUS
<1>3. PICK n : n = [h EXCEPT !.scope = @ + 1]
  OBVIOUS
<1>4. /\ batch' \in Seq(Line) /\ UniqueIn(batch') /\ n \in Line
      /\ n.id = h.id /\ n.what = h.what
      /\ Queue!Entries(batch') = (Queue!Entries(batch) \ {h}) \cup {n}
  <2>1. batch \in Seq(Line) /\ UniqueIn(batch)
    BY DEF PlacedOnce
  <2> QED
    BY <1>1, <1>2, <1>3, <2>1, HeadChanged
<1>5. h \in Queue!Entries(batch) /\ h \in Kept
  BY <1>1, <1>2, HeadOff DEF PlacedOnce, Kept, AllOf
<1>6. \A e \in Kept : e.id = n.id => e = h
  BY <1>4, <1>5 DEF PlacedOnce, ById
<1>7. n \notin Kept \ {h}
  BY <1>6
<1>8. Kept' = (Kept \ {h}) \cup {n}
  <2>1. h \notin Queue!Entries(retry) /\ h \notin Queue!Entries(chain)
        /\ h \notin Queue!Entries(written)
    BY <1>5 DEF PlacedOnce, ApartFrom
  <2> QED
    BY <1>1, <1>4, <2>1 DEF Kept, AllOf
<1>9. n \notin Queue!Entries(retry) /\ n \notin Queue!Entries(chain)
      /\ n \notin Queue!Entries(written)
  BY <1>5, <1>6 DEF PlacedOnce, ApartFrom, Kept, AllOf
<1>10. ApartFrom(Queue!Entries(retry), Queue!Entries(batch'), Queue!Entries(chain),
                 Queue!Entries(written))
  BY <1>4, <1>9 DEF PlacedOnce, ApartFrom
<1>11. ById(Kept')
  BY <1>6, <1>8 DEF PlacedOnce, ById
<1>12. \A e \in Kept' : e.id <= count
  BY <1>4, <1>5, <1>8 DEF PlacedOnce
<1>13. PlacedOnce'
  BY <1>1, <1>4, <1>10, <1>11, <1>12 DEF PlacedOnce
<1> QED
  BY <1>1, <1>4, <1>5, <1>7, <1>8, <1>13

(* What a step of the sessions with the queue does to the records: makes   *)
(* one, which comes into the queue, or moves or completes those there are. *)
LEMMA RecordsPlaced ==
  ASSUME PlacedOnce, [AccountingNext]_<<vars, queue>>
  PROVE  /\ PlacedOnce'
         /\ \/ ledger' = ledger /\ count' = count /\ Kept' = Kept
            \/ /\ ledger' = ledger /\ count' = count
               /\ \E h, n : /\ h \in Kept /\ n \notin Kept \ {h} /\ n.what = h.what /\ n.id = h.id
                            /\ Kept' = (Kept \ {h}) \cup {n}
            \/ \E rec \in Record : \E n :
                 /\ ledger' = [ledger EXCEPT ![rec.ip][rec.type] = @ + 1]
                 /\ count' = count + 1 /\ n.id = count'
                 /\ n.what = rec /\ n \notin Kept /\ Kept' = Kept \cup {n}
<1>1. CASE SessionStep
  <2>1. CASE ledger' = ledger /\ UNCHANGED queue
    BY <2>1 DEF queue, PlacedOnce, Kept
  <2>2. CASE \E rec \in Record :
               /\ ledger' = [ledger EXCEPT ![rec.ip][rec.type] = @ + 1]
               /\ Queue!Submit(rec)
    BY <2>2, SubmitPlaces
  <2> QED
    BY <1>1, <2>1, <2>2 DEF SessionStep, Recording
<1>2. CASE StartPass
  <2>1. ledger' = ledger
    BY <1>2 DEF StartPass, SessionsDone
  <2> QED
    BY <1>2, <2>1, BeginPlaces DEF StartPass, Queue!BeginPass
<1>3. CASE AcctPass
  <2>1. ledger' = ledger
    BY <1>3 DEF AcctPass, vars
  <2>2. CASE Queue!Write
    BY <2>1, <2>2, WritePlaces DEF Queue!Write
  <2>3. CASE Queue!WriteFails
    <3>1. /\ mode = "pass" /\ batch # <<>>
          /\ retry' = Append(retry, Head(batch)) /\ batch' = Tail(batch)
          /\ UNCHANGED <<chain, written, mode, count>>
      BY <2>3 DEF Queue!WriteFails, Queue!NextEntry, PlacedOnce
    <3> QED
      BY <2>1, <3>1, RetryPlaces
  <2>4. CASE Queue!EndPass
    BY <2>1, <2>4, EndPlaces DEF Queue!EndPass
  <2>5. CASE Queue!BuildScope(TRUE)
    BY <2>1, <2>5, ScopePlaces
  <2>6. CASE Queue!BuildScope(FALSE)
    <3>1. /\ mode = "pass" /\ batch # <<>>
          /\ retry' = Append(retry, Head(batch)) /\ batch' = Tail(batch)
          /\ UNCHANGED <<chain, written, mode, count>>
      BY <2>6 DEF Queue!BuildScope, Queue!NextEntry
    <3> QED
      BY <2>1, <3>1, RetryPlaces
  <2>7. Found(Head(batch)) \in BOOLEAN
    BY DEF Found
  <2> QED
    BY <1>3, <2>2, <2>3, <2>4, <2>5, <2>6, <2>7 DEF AcctPass
<1>4. CASE UNCHANGED <<vars, queue>>
  BY <1>4 DEF vars, queue, PlacedOnce, Kept
<1> QED
  BY <1>1, <1>2, <1>3, <1>4 DEF AccountingNext

LEMMA KeptFinite == ASSUME PlacedOnce PROVE IsFiniteSet(Kept)
<1>1. /\ IsFiniteSet(Queue!Entries(retry)) /\ IsFiniteSet(Queue!Entries(batch))
      /\ IsFiniteSet(Queue!Entries(chain)) /\ IsFiniteSet(Queue!Entries(written))
  BY SeqFacts DEF PlacedOnce
<1> QED
  BY <1>1, FS_Union DEF Kept, AllOf

LEMMA CountedStep ==
  ASSUME TypeOK, PlacedOnce, Counted, [AccountingNext]_<<vars, queue>>
  PROVE  Counted'
<1>1. IsFiniteSet(Kept)
  BY KeptFinite
<1>2. \A rec \in Record : ledger[rec.ip][rec.type] = Cardinality(Held(Kept, rec))
  BY DEF Counted, Held
<1>3. PICK K : K = Kept
  OBVIOUS
<1>4. PICK L : L = Kept'
  OBVIOUS
<1>5. SUFFICES ASSUME NEW rec \in Record
               PROVE  ledger'[rec.ip][rec.type] = Cardinality(Held(L, rec))
  BY <1>4 DEF Counted, Held
<1>6. CASE ledger' = ledger /\ L = K
  BY <1>2, <1>3, <1>6
<1>7. CASE /\ ledger' = ledger
           /\ \E h, n : h \in K /\ n \notin K \ {h} /\ n.what = h.what
                        /\ L = (K \ {h}) \cup {n}
  <2>1. PICK h, n : h \in K /\ n \notin K \ {h} /\ n.what = h.what /\ L = (K \ {h}) \cup {n}
    BY <1>7
  <2>2. Cardinality(Held(L, rec)) = Cardinality(Held(K, rec))
    BY <1>1, <1>3, <2>1, SwapHeld
  <2> QED
    BY <1>2, <1>3, <1>7, <2>2
<1>8. CASE \E new \in Record : \E n :
             /\ ledger' = [ledger EXCEPT ![new.ip][new.type] = @ + 1]
             /\ n.what = new /\ n \notin K /\ L = K \cup {n}
  <2> PICK new \in Record : \E n :
             /\ ledger' = [ledger EXCEPT ![new.ip][new.type] = @ + 1]
             /\ n.what = new /\ n \notin K /\ L = K \cup {n}
    BY <1>8
  <2>1. PICK n :
             /\ ledger' = [ledger EXCEPT ![new.ip][new.type] = @ + 1]
             /\ n.what = new /\ n \notin K /\ L = K \cup {n}
    OBVIOUS
  <2>2. /\ n.what = rec => Cardinality(Held(L, rec)) = Cardinality(Held(K, rec)) + 1
        /\ n.what # rec => Held(L, rec) = Held(K, rec)
    BY <1>1, <1>3, <2>1, MoreHeld
  <2>3. /\ rec.ip \in IP /\ rec.type \in AcctType /\ new.ip \in IP /\ new.type \in AcctType
        /\ (rec = new <=> rec.ip = new.ip /\ rec.type = new.type)
    BY DEF Record
  <2>4. ledger \in [IP -> [AcctType -> Nat]]
    BY DEF TypeOK
  <2>5. CASE rec = new
    <3>1. ledger'[rec.ip][rec.type] = ledger[rec.ip][rec.type] + 1
      BY <2>1, <2>3, <2>4, <2>5
    <3> QED
      BY <1>2, <1>3, <2>1, <2>2, <2>5, <3>1
  <2>6. CASE rec # new
    <3>1. ledger'[rec.ip][rec.type] = ledger[rec.ip][rec.type]
      BY <2>1, <2>3, <2>4, <2>6
    <3> QED
      BY <1>2, <1>3, <2>1, <2>2, <2>6, <3>1
  <2> QED
    BY <2>5, <2>6
<1> QED
  BY <1>3, <1>4, <1>6, <1>7, <1>8, RecordsPlaced

LEMMA SubmittedKept == ASSUME PlacedOnce PROVE Submitted = Kept
<1>1. \A e \in Queue!Entries(retry), f \in Queue!Entries(batch) : e.id # f.id
  BY DEF PlacedOnce, ApartFrom, ById, Kept, AllOf
<1>2. PICK s : s = retry \o batch
  OBVIOUS
<1>3. /\ s \in Seq(Line) /\ UniqueIn(s)
      /\ Queue!Entries(s) = Queue!Entries(retry) \cup Queue!Entries(batch)
  BY <1>1, <1>2, InARow DEF PlacedOnce
<1>4. \A e \in Queue!Entries(s), f \in Queue!Entries(chain) : e.id # f.id
  BY <1>3 DEF PlacedOnce, ApartFrom, ById, Kept, AllOf
<1>5. Queue!Entries(s \o chain) = Queue!Entries(s) \cup Queue!Entries(chain)
  BY <1>3, <1>4, InARow DEF PlacedOnce
<1>6. Queue!Pending = s \o chain
  BY <1>2 DEF Queue!Pending
<1> QED
  BY <1>3, <1>5, <1>6 DEF Kept, AllOf, Submitted

LEMMA RecordsCounted == AccountingSpec => [](TypeOK /\ PlacedOnce /\ Counted)
<1>1. AccountingInit => PlacedOnce /\ Counted
  <2> SUFFICES ASSUME AccountingInit PROVE PlacedOnce /\ Counted
    OBVIOUS
  <2>1. /\ chain = <<>> /\ batch = <<>> /\ retry = <<>> /\ written = <<>>
        /\ mode = "idle" /\ count = 0
    BY DEF AccountingInit, Queue!QueueInit
  <2>2. Kept = {}
    BY <2>1, EmptyPart DEF Kept, AllOf
  <2>3. PlacedOnce
    BY <2>1, <2>2, EmptyPart DEF PlacedOnce, ApartFrom, ById
  <2>4. ASSUME NEW rec \in Record
        PROVE  ledger[rec.ip][rec.type] = Cardinality({e \in Kept : e.what = rec})
    <3>1. {e \in Kept : e.what = rec} = {}
      BY <2>2
    <3>2. ledger[rec.ip][rec.type] = 0
      BY DEF AccountingInit, Init, Record
    <3> QED
      BY <3>1, <3>2, FS_EmptySet
  <2> QED
    BY <2>3, <2>4 DEF Counted
<1>2. TypeOK /\ PlacedOnce /\ Counted /\ [AccountingNext]_<<vars, queue>>
      => (PlacedOnce /\ Counted)'
  BY RecordsPlaced, CountedStep
<1> QED
  BY <1>1, <1>2, SessionsUnderQueue, TypeCorrect, PTL DEF AccountingSpec

(* LedgerQueued, for any number of addresses, threads, requests and passes *)
(* that fail: every start and stop record the sessions make is in the      *)
(* queue or in the file, once, whatever the pass of the maintenance thread *)
(* is at when it is made.                                                  *)
THEOREM NothingUnqueued == AccountingSpec => []LedgerQueued
<1>1. PlacedOnce /\ Counted => LedgerQueued
  BY SubmittedKept DEF LedgerQueued, Counted
<1> QED
  BY <1>1, RecordsCounted, PTL
-----------------------------------------------------------------------------
(* A worker alone owes a start.                                            *)
WorkersStart == \A t \in Thread : job[t].cmd = "U" \/ job[t].event = "start" => t \in Uam

LEMMA WorkersStartStep ==
  ASSUME TypeOK, WorkersStart, [Next]_vars
  PROVE  WorkersStart'
<1>1. job \in [Thread -> Job] /\ Relay \subseteq Thread /\ Uam \subseteq Thread /\ Maint \in Thread
  BY DEF TypeOK, Thread
<1>2. CASE job' = job
  BY <1>2 DEF WorkersStart
<1>3. ASSUME NEW t \in Thread, NEW s, ApplyTo(t, s)
      PROVE  WorkersStart'
  <2>1. PICK e : e = OnEntry(t, s, pc[t] = "lookup").event
    OBVIOUS
  <2>2. job' = [job EXCEPT ![t].event = e]
    BY <1>3, <2>1 DEF ApplyTo
  <2>3. e = "start" => job[t].cmd = "U"
    BY <2>1 DEF OnEntry, StopOn
  <2>4. \A x \in Thread : job'[x].cmd = job[x].cmd /\ job'[x].event = IF x = t THEN e ELSE job[x].event
    BY <1>1, <2>2 DEF Job
  <2> QED
    BY <2>3, <2>4 DEF WorkersStart
<1>4. ASSUME NEW t \in Thread, NEW cmd, NEW ip, NEW name, NEW n, Do(t, cmd, ip, name, n),
             cmd = "U" => t \in Uam
      PROVE  WorkersStart'
  BY <1>1, <1>4 DEF Do, WorkersStart
<1>5. ASSUME NEW t \in Thread, CallStep(t) PROVE WorkersStart'
  <2>1. CASE AcctSubmit(t)
    <3>1. \A x \in Thread : /\ job'[x].cmd = job[x].cmd
                            /\ job'[x].event = IF x = t THEN "none" ELSE job[x].event
      BY <1>1, <2>1 DEF AcctSubmit, Job
    <3> QED
      BY <3>1 DEF WorkersStart
  <2>2. job' = job \/ \E s : ApplyTo(t, s) \/ AcctSubmit(t)
    BY <1>5 DEF CallStep, SessionLookup, SessionRecheck, SessionInsert, GaugeDel
  <2> QED
    BY <1>2, <1>3, <2>1, <2>2
<1>6. CASE \E u \in Uam : Receive(u)
  BY <1>1, <1>4, <1>6 DEF Receive
<1>7. CASE \E r \in Relay : Packet(r) \/ RelayStep(r)
  BY <1>1, <1>2, <1>4, <1>7 DEF Packet, RelayStep, Count
<1>8. CASE \E ip \in IP : ExpireGauge(ip)
  BY <1>1, <1>2, <1>4, <1>8 DEF ExpireGauge
<1>9. ASSUME NEW u \in Uam, UamStep(u) PROVE job' = job
  BY <1>9 DEF UamStep, VerifyStateid, Retention, GaugeLookup, GaugeInsert, ShapeNew, UndoGauge,
       UndoShape, AcquireStateid
<1>10. ASSUME NEW r \in Relay, Block(r) PROVE job' = job
  BY <1>10 DEF Block
<1>11. CASE \/ BeginSweep \/ GaugesDone \/ SessionsDone
            \/ \E ip \in IP : ExpireSession(ip) \/ GaugeAges(ip) \/ SessionAges(ip)
            \/ \E name \in Volatile : FilterReload(name)
            \/ UNCHANGED vars
  BY <1>2, <1>11 DEF BeginSweep, GaugesDone, SessionsDone, ExpireSession, GaugeAges, SessionAges,
       FilterReload, vars
<1> QED
  BY <1>2, <1>5, <1>6, <1>7, <1>8, <1>9, <1>10, <1>11 DEF Next, MaintStep

(* The records up to the n-th submission.                                  *)
First(S, n) == {e \in S : e.id <= n}

Ahead(S, n, ip) ==
  Cardinality(Held(First(S, n), [ip |-> ip, type |-> "stop"])) <=
    Cardinality(Held(First(S, n), [ip |-> ip, type |-> "start"])) + Cardinality(Uam)

AheadInv == \A ip \in IP, n \in 0 .. count : Ahead(Kept, n, ip)

(* All that was submitted: the balance of the sessions says it.            *)
LEMMA AheadAtLast ==
  ASSUME TypeOK, PlacedOnce, Counted, LedgerBalance, WorkersStart, NEW ip \in IP
  PROVE  Ahead(Kept, count, ip)
<1> DEFINE start == [ip |-> ip, type |-> "start"]
           stop == [ip |-> ip, type |-> "stop"]
<1>1. First(Kept, count) = Kept
  BY DEF First, PlacedOnce
<1>2. start \in Record /\ stop \in Record
  BY DEF Record, AcctType
<1>3. /\ ledger[ip]["start"] = Cardinality(Held(Kept, start))
      /\ ledger[ip]["stop"] = Cardinality(Held(Kept, stop))
  BY <1>2 DEF Counted, Held
<1>4. ledger[ip]["start"] \in Nat /\ ledger[ip]["stop"] \in Nat
  BY DEF TypeOK, AcctType
<1>5. /\ Owed(ip, "start") \in Nat /\ Owed(ip, "stop") \in Nat
      /\ Owed(ip, "start") = Cardinality(Owing(ip, "start"))
  BY OwedFinite
<1>6. Owing(ip, "start") \subseteq Uam
  BY DEF Owing, WorkersStart
<1>7. Cardinality(Owing(ip, "start")) <= Cardinality(Uam) /\ Cardinality(Uam) \in Nat
  BY <1>6, ConstantsOK, FS_Subset, FS_CardinalityType
<1>8. ledger[ip]["start"] + Owed(ip, "start") >= ledger[ip]["stop"] + Owed(ip, "stop")
  <2>1. ledger[ip]["start"] + Owed(ip, "start") >=
          ledger[ip]["stop"] + Owed(ip, "stop") + (IF Released(ip) THEN 1 ELSE 0)
    BY DEF LedgerBalance
  <2> QED
    BY <1>4, <1>5, <2>1
<1>9. ledger[ip]["stop"] <= ledger[ip]["start"] + Cardinality(Uam)
  BY <1>4, <1>5, <1>7, <1>8
<1> QED
  BY <1>1, <1>3, <1>9 DEF Ahead

(* What was submitted by then does not change any more.                    *)
LEMMA AheadStep ==
  ASSUME TypeOK, PlacedOnce, AheadInv, [AccountingNext]_<<vars, queue>>,
         \A ip \in IP : Ahead(Kept, count, ip)'
  PROVE  AheadInv'
<1>1. PICK K, L, c, d : K = Kept /\ L = Kept' /\ c = count /\ d = count'
  OBVIOUS
<1>2. /\ IsFiniteSet(K) /\ c \in Nat /\ \A e \in K : e.id <= c
      /\ \A ip \in IP, n \in 0 .. c : Ahead(K, n, ip)
      /\ \A ip \in IP : Ahead(L, d, ip)
  <2>1. \A ip \in IP, n \in 0 .. c : Ahead(K, n, ip)
    BY <1>1 DEF AheadInv
  <2>2. \A ip \in IP : Ahead(L, d, ip)
    BY <1>1 DEF Ahead
  <2> QED
    BY <1>1, <2>1, <2>2, KeptFinite DEF PlacedOnce
<1>3. SUFFICES ASSUME NEW ip \in IP, NEW n \in 0 .. d PROVE Ahead(L, n, ip)
  BY <1>1 DEF AheadInv, Ahead
<1>4. CASE d = c /\ L = K
  BY <1>2, <1>4
<1>5. CASE d = c /\ \E h, x : /\ h \in K /\ x \notin K \ {h} /\ x.what = h.what /\ x.id = h.id
                             /\ L = (K \ {h}) \cup {x}
  <2>1. PICK h, x : /\ h \in K /\ x \notin K \ {h} /\ x.what = h.what /\ x.id = h.id
                    /\ L = (K \ {h}) \cup {x}
    BY <1>5
  <2>2. IsFiniteSet(First(K, n))
    <3>1. First(K, n) \subseteq K
      BY DEF First
    <3> QED
      BY <1>2, <3>1, FS_Subset
  <2>3. ASSUME NEW rec
        PROVE  Cardinality(Held(First(L, n), rec)) = Cardinality(Held(First(K, n), rec))
    <3>1. CASE h.id <= n
      <4>1. PICK S : S = First(K, n)
        OBVIOUS
      <4>2. First(L, n) = (S \ {h}) \cup {x} /\ h \in S /\ x \notin S \ {h}
        BY <2>1, <3>1, <4>1 DEF First
      <4>3. Cardinality(Held((S \ {h}) \cup {x}, rec)) = Cardinality(Held(S, rec))
        BY <2>1, <2>2, <4>1, <4>2, SwapHeld
      <4> QED
        BY <4>1, <4>2, <4>3
    <3>2. CASE ~(h.id <= n)
      <4>1. First(L, n) = First(K, n)
        BY <2>1, <3>2 DEF First
      <4> QED
        BY <4>1
    <3> QED
      BY <3>1, <3>2
  <2>4. Ahead(K, n, ip)
    BY <1>2, <1>5
  <2> QED
    BY <2>3, <2>4 DEF Ahead
<1>6. CASE d = c + 1 /\ \E x : x.id = d /\ L = K \cup {x}
  <2>1. CASE n = d
    BY <1>2, <2>1
  <2>2. CASE n # d
    <3>1. n \in 0 .. c /\ ~(d <= n)
      BY <1>2, <1>6, <2>2
    <3>2. First(L, n) = First(K, n)
      BY <1>6, <3>1 DEF First
    <3>3. Ahead(K, n, ip)
      BY <1>2, <3>1
    <3> QED
      BY <3>2, <3>3 DEF Ahead
  <2> QED
    BY <2>1, <2>2
<1> QED
  BY <1>1, <1>4, <1>5, <1>6, RecordsPlaced

(* StopsAheadBounded, for any number of addresses, threads and requests:   *)
(* the gap between the lock of a session and the submission of its record  *)
(* puts no more stops before their starts than there are workers, and      *)
(* passes, retries and partial scopes change nothing about it.             *)
THEOREM FewStopsAhead == AccountingSpec => []StopsAheadBounded
<1>1. AccountingSpec => [](TypeOK /\ PlacedOnce /\ Counted)
  BY RecordsCounted
<1>2. AccountingSpec => []LedgerBalance
  BY SessionsUnderQueue, LedgerBalances, PTL
<1>3. Spec => []WorkersStart
  <2>1. Init => WorkersStart
    BY DEF Init, WorkersStart
  <2> QED
    BY <2>1, WorkersStartStep, TypeCorrect, PTL DEF Spec
<1>4. TypeOK /\ PlacedOnce /\ Counted /\ LedgerBalance /\ WorkersStart
      => \A ip \in IP : Ahead(Kept, count, ip)
  BY AheadAtLast
<1>5. AccountingInit /\ (\A ip \in IP : Ahead(Kept, count, ip)) => AheadInv
  BY DEF AccountingInit, Queue!QueueInit, AheadInv
<1>6. /\ TypeOK /\ PlacedOnce /\ AheadInv /\ [AccountingNext]_<<vars, queue>>
      /\ (\A ip \in IP : Ahead(Kept, count, ip))'
      => AheadInv'
  BY AheadStep
<1>7. PlacedOnce /\ AheadInv => StopsAheadBounded
  <2> SUFFICES ASSUME PlacedOnce, AheadInv, NEW ip \in IP, NEW n \in 0 .. count
               PROVE  Among(n, [ip |-> ip, type |-> "stop"]) <=
                        Among(n, [ip |-> ip, type |-> "start"]) + Cardinality(Uam)
    BY DEF StopsAheadBounded
  <2>1. \A rec : Among(n, rec) = Cardinality(Held(First(Kept, n), rec))
    <3>1. \A rec : {e \in Kept : e.id <= n /\ e.what = rec} = Held(First(Kept, n), rec)
      BY DEF Held, First
    <3> QED
      BY <3>1, SubmittedKept DEF Among
  <2> QED
    BY <2>1 DEF AheadInv, Ahead
<1> QED
  BY <1>1, <1>2, <1>3, <1>4, <1>5, <1>6, <1>7, SessionsUnderQueue, PTL DEF AccountingSpec
=============================================================================
