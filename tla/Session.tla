------------------------------- MODULE Session -------------------------------
(***************************************************************************)
(* The authentication core of the Sweetspot daemon: the session pool       *)
(* (session.c), the traffic gauges (gauge.c), the UAM commands that drive  *)
(* them (uamsrv.c), the packets that are counted (relay_*.c) and the       *)
(* maintenance thread that expires both pools (sweetspot.c).               *)
(*                                                                         *)
(* Each pool is a hash with one spinlock per bucket.  A section of code    *)
(* that runs under a session bucket lock is one atomic action; everything  *)
(* the code does after the unlock is a later action of the same thread, so *)
(* the gaps between two sections are where the threads interleave.  The    *)
(* gauge bucket lock is the only one held across several sections (the     *)
(* gauge expiry callback stops the session while it holds it); it is the   *)
(* operator GaugeLocked.                                                   *)
(*                                                                         *)
(* Abstractions: time is a set of flags ("the deadline has passed") that   *)
(* may become true at any moment; a packet counts for one octet; a filter   *)
(* slot is named by the filter loaded in it; memory allocation does not    *)
(* fail.                                                                   *)
(***************************************************************************)
EXTENDS Naturals, FiniteSets

CONSTANTS
  IP,           \* addresses of the user networks
  Uam,          \* UAM server threads (uam-thread-qnty)
  Relay,        \* packet relay threads (thread_qnty)
  Maint,        \* the maintenance thread
  Name,         \* filter names that a request or the filter directory may use
  Anonymous,    \* the filter of unauthenticated sessions (filter-anonymous)
  Volatile,     \* names whose file may come and go in the filter directory
  Preloaded,    \* names loaded when the daemon starts
  Command,      \* UAM commands the clients send, a subset of {"U","D","R","S"}
  Stateid,      \* state ids the clients send, 0 asks for no verification
  SnatOutcome,  \* results of sw_nat_src_endpoint_new; {TRUE} without SNAT
  NoEntry,      \* no entry in a hash
  Traffic,      \* directions in which packets come, a subset of {"in", "out"}
  UpLimits,     \* octets a U request may allow, in each direction
  MaxStateid,   \* bound: the state id wraps from MaxStateid to 1
  MaxRequest,   \* bound: number of UAM requests in a behaviour
  MaxInterim    \* bound: number of interim records per address

NoFilter == "no filter"   \* SW_FILTER_ID_NONE
Empty    == "empty"       \* filter name "" in a request
Null     == "null"        \* a NULL filter name

Direction == {"in", "out"}

Thread == Uam \cup Relay \cup {Maint}

ASSUME ConstantsOK ==
  /\ IP # {} /\ IsFiniteSet(Relay) /\ IsFiniteSet(Uam)
  /\ Uam \cap Relay = {} /\ Maint \notin Uam \cup Relay
  /\ Anonymous \in Name /\ {Empty, Null, NoFilter} \cap Name = {}
  /\ Volatile \subseteq Name /\ Preloaded \subseteq Name
  /\ Command \subseteq {"U", "D", "R", "S"}
  /\ SnatOutcome \subseteq BOOLEAN
  /\ Traffic \subseteq Direction /\ UpLimits \subseteq [Direction -> Nat]
  /\ MaxRequest \in Nat /\ MaxInterim \in Nat
  /\ MaxStateid \in Nat \ {0} /\ Stateid \subseteq 0..MaxStateid

VARIABLES
  session,  \* global_session_hash, by address
  gauge,    \* global_gauge_hash, by address
  shaped,   \* addresses with a context in global_shape_hash
  loaded,   \* names found by sw_filter_get_id
  ledger,   \* accounting records handed to sw_acct_submit, by address
  pc,       \* where each thread is
  job,      \* what each thread is working on
  todo,     \* buckets the maintenance thread has yet to visit in this sweep
  served    \* UAM requests received so far

vars == <<session, gauge, shaped, loaded, ledger, pc, job, todo, served>>
-----------------------------------------------------------------------------
(* Entries and jobs *)

Entry == [state : {"captured", "released"}, stateid : 0..MaxStateid,
          filter : Name \cup {NoFilter}, dn : Name \cup {Null},
          stale : BOOLEAN,      \* deathday has passed
          interim : BOOLEAN]    \* the interim record is due

FreshEntry == [state |-> "captured", stateid |-> 0, filter |-> Anonymous,
               dn |-> Null, stale |-> FALSE, interim |-> FALSE]

Gauge == [octets : [Direction -> Nat],
          max_octets : [Direction -> Nat],
          left : [Direction -> Nat],  \* history: what the last U left to count
          aged : BOOLEAN,       \* deathday (session duration) has passed
          idle : BOOLEAN]       \* idle for longer than max_idle

None == [dir \in Direction |-> 0]

FreshGauge(limits) ==
  [octets |-> None, max_octets |-> limits, left |-> limits, aged |-> FALSE, idle |-> FALSE]

Exceeds(octets, limits) == \E dir \in Direction : octets[dir] > limits[dir]

Over(g) == Exceeds(g.octets, g.max_octets)

ASSUME NoEntryOK == NoEntry \notin Entry /\ NoEntry \notin Gauge

AcctType == {"start", "stop", "interim"}  \* STOP_TIME is a stop

Event == {"none", "start", "stop"}

Job == [cmd : {"none", "U", "D", "R", "S", "packet", "throttle", "expire"},
        ip : IP, name : Name \cup {Empty, Null}, stateid : Stateid \cup {0},
        event : Event]          \* record to submit after the unlock

PC == {"idle", "verify", "retention", "gauge_lookup", "gauge_insert", "shape",
       "lookup", "recheck", "insert", "submit", "undo_gauge", "undo_shape",
       "gauge_del", "acquire", "count", "gauges", "sessions"}

Released(ip) == session[ip] # NoEntry /\ session[ip].state = "released"

(* The maintenance thread holds the gauge bucket from the test of the      *)
(* gauge until it has deleted it.                                          *)
GaugeLocked(ip) ==
  job[Maint].ip = ip /\ pc[Maint] \in {"lookup", "recheck", "insert", "submit", "gauge_del"}

Goto(t, label) == pc' = [pc EXCEPT ![t] = label]

Do(t, cmd, ip, name, n) ==
  job' = [job EXCEPT ![t] = [cmd |-> cmd, ip |-> ip, name |-> name,
                             stateid |-> n, event |-> "none"]]
-----------------------------------------------------------------------------
(* What runs under the session bucket lock: the entry it leaves, whether   *)
(* it succeeded, and the record to submit once the lock is released.       *)

(* Mutant of StartOn: the empty filter name is stored as it came.          *)
StartOnVerbatim(s, name) ==
  [entry |-> [s EXCEPT !.state = "released", !.filter = name], ok |-> TRUE,
   event |-> IF s.state = "captured" THEN "start" ELSE "none"]

StartOn(s, name) ==
  LET found == name = Empty \/ name \in loaded IN
  [entry |-> IF found
             THEN [s EXCEPT !.state = "released",
                            !.filter = IF name = Empty THEN NoFilter ELSE name,
                            !.interim = s.interim /\ s.state = "released"]
             ELSE s,
   ok    |-> found,
   event |-> IF found /\ s.state = "captured" THEN "start" ELSE "none"]

(* The filter a stopped session falls back to.                             *)
StopFilter(s, name) ==
  IF name \in Name THEN name
  ELSE IF name = Null /\ s.dn # Null THEN s.dn ELSE Anonymous

(* Mutant of StopOn: a stop record for a session that was not up.          *)
StopOnAnyState(s, name, first) ==
  [entry |-> [s EXCEPT !.state = "captured", !.filter = StopFilter(s, name), !.stale = FALSE],
   ok    |-> StopFilter(s, name) \in loaded,
   event |-> IF StopFilter(s, name) \in loaded THEN "stop" ELSE "none"]

(* sw_session_stop captures the session only when its own lookup found it  *)
(* (first), and does so before it looks for the filter; when there is no   *)
(* such filter it returns with the rest undone.                            *)
StopOn(s, name, first) ==
  LET found    == StopFilter(s, name) \in loaded
      captured == [s EXCEPT !.state = IF first THEN "captured" ELSE @,
                            !.dn = IF name = Null THEN s.dn
                                   ELSE IF name = Empty THEN Null ELSE name]
  IN
  [entry |-> IF found
             THEN [captured EXCEPT !.filter = StopFilter(s, name), !.stale = FALSE]
             ELSE captured,
   ok    |-> found,
   event |-> IF found /\ first /\ s.state = "released" THEN "stop" ELSE "none"]

(* sw_session_get_filter_id fails when the session had to be created.      *)
OnEntry(t, s, first) ==
  CASE job[t].cmd = "U" -> StartOn(s, job[t].name)
    [] job[t].cmd \in {"D", "throttle", "expire"} -> StopOn(s, job[t].name, first)
    [] OTHER -> [entry |-> s, ok |-> first, event |-> "none"]

(* Where a thread goes once its session call has returned.                 *)
AfterSession(cmd, ok) ==
  CASE cmd = "U"      -> IF ok THEN "acquire" ELSE "undo_gauge"
    [] cmd = "D"      -> IF ok THEN "gauge_del" ELSE "idle"
    [] cmd = "packet" -> IF ok THEN "count" ELSE "idle"
    [] cmd \in {"throttle", "expire"} -> "gauge_del"
    [] OTHER          -> "idle"

ApplyTo(t, s) ==
  LET r == OnEntry(t, s, pc[t] = "lookup") IN
  /\ session' = [session EXCEPT ![job[t].ip] = r.entry]
  /\ job' = [job EXCEPT ![t].event = r.event]
  /\ Goto(t, IF r.event = "none" THEN AfterSession(job[t].cmd, r.ok) ELSE "submit")

(* First lookup of sw_session_start, _stop, _status and _get_filter_id.    *)
SessionLookup(t) ==
  /\ pc[t] = "lookup"
  /\ \/ /\ session[job[t].ip] # NoEntry
        /\ ApplyTo(t, session[job[t].ip])
     \/ /\ session[job[t].ip] = NoEntry
        /\ Goto(t, "recheck")
        /\ UNCHANGED <<session, job>>
  /\ UNCHANGED <<gauge, shaped, loaded, ledger, todo, served>>

(* sw_session_new looks the address up again ...                           *)
SessionRecheck(t) ==
  /\ pc[t] = "recheck"
  /\ \/ /\ session[job[t].ip] # NoEntry
        /\ ApplyTo(t, session[job[t].ip])
     \/ /\ session[job[t].ip] = NoEntry
        /\ Goto(t, "insert")
        /\ UNCHANGED <<session, job>>
  /\ UNCHANGED <<gauge, shaped, loaded, ledger, todo, served>>

(* ... releases the bucket, and inserts a fresh entry over whatever the    *)
(* bucket holds by then.                                                   *)
SessionInsert(t) ==
  LET ip == job[t].ip IN
  /\ pc[t] = "insert"
  /\ \/ /\ Anonymous \notin loaded
        /\ Goto(t, AfterSession(job[t].cmd, FALSE))
        /\ UNCHANGED <<session, shaped, job>>
     \/ /\ Anonymous \in loaded /\ TRUE \in SnatOutcome
        /\ ApplyTo(t, FreshEntry)
        /\ UNCHANGED shaped
     \/ /\ Anonymous \in loaded /\ FALSE \in SnatOutcome
        /\ session' = [session EXCEPT ![ip] = NoEntry]
        /\ shaped' = shaped \ {ip}
        /\ Goto(t, AfterSession(job[t].cmd, FALSE))
        /\ UNCHANGED job
  /\ UNCHANGED <<gauge, loaded, ledger, todo, served>>

(* sw_acct_submit, called after the session bucket is released.            *)
AcctSubmit(t) ==
  /\ pc[t] = "submit"
  /\ ledger' = [ledger EXCEPT ![job[t].ip][job[t].event] = @ + 1]
  /\ job' = [job EXCEPT ![t].event = "none"]
  /\ Goto(t, AfterSession(job[t].cmd, TRUE))
  /\ UNCHANGED <<session, gauge, shaped, loaded, todo, served>>

(* Mutant of GaugeDel: the expiry callback takes the bucket it holds.      *)
GaugeDelRelocks(t) ==
  LET ip == job[t].ip IN
  /\ pc[t] = "gauge_del" /\ ~GaugeLocked(ip)
  /\ gauge' = [gauge EXCEPT ![ip] = NoEntry]
  /\ Goto(t, IF t \in Relay THEN "idle" ELSE "acquire")
  /\ UNCHANGED <<session, shaped, loaded, ledger, job, todo, served>>

(* sw_gauge_del; the expiry callback already holds the bucket.             *)
GaugeDel(t) ==
  LET ip == job[t].ip IN
  /\ pc[t] = "gauge_del"
  /\ t = Maint \/ ~GaugeLocked(ip)
  /\ gauge' = [gauge EXCEPT ![ip] = NoEntry]
  /\ todo' = IF t = Maint THEN todo \ {ip} ELSE todo
  /\ Goto(t, IF t = Maint THEN "gauges" ELSE IF t \in Relay THEN "idle" ELSE "acquire")
  /\ UNCHANGED <<session, shaped, loaded, ledger, job, served>>
-----------------------------------------------------------------------------
(* UAM server threads *)

Receive(u) ==
  /\ pc[u] = "idle" /\ served < MaxRequest
  /\ \E cmd \in Command, ip \in IP, name \in Name \cup {Empty}, n \in Stateid :
       /\ cmd \in {"R", "S"} => name = Empty
       /\ Do(u, cmd, ip, name, n)
       /\ Goto(u, IF cmd = "S" THEN "lookup" ELSE "verify")
  /\ served' = served + 1
  /\ UNCHANGED <<session, gauge, shaped, loaded, ledger, todo>>

VerifyStateid(u) ==
  LET s == session[job[u].ip]
      n == job[u].stateid
      next == CASE job[u].cmd = "U" -> "gauge_lookup"
                [] job[u].cmd = "D" -> "lookup"
                [] OTHER            -> "retention"
  IN
  /\ pc[u] = "verify"
  /\ Goto(u, IF s # NoEntry /\ n # 0 /\ s.stateid # n THEN "idle" ELSE next)
  /\ UNCHANGED <<session, gauge, shaped, loaded, ledger, job, todo, served>>

(* sw_session_retention moves the deathday by the change of retention.     *)
Retention(u) ==
  LET ip == job[u].ip IN
  /\ pc[u] = "retention"
  /\ \/ /\ session[ip] = NoEntry
        /\ Goto(u, "idle")
        /\ UNCHANGED session
     \/ /\ session[ip] # NoEntry
        /\ \E passed \in BOOLEAN : session' = [session EXCEPT ![ip].stale = passed]
        /\ Goto(u, "acquire")
  /\ UNCHANGED <<gauge, shaped, loaded, ledger, job, todo, served>>

(* sw_gauge_new keeps the counters of a gauge that is there, replaces its  *)
(* limits, be they below the counters, and moves its deadlines by the      *)
(* change of the limits ...                                                *)
GaugeLookup(u) ==
  LET ip == job[u].ip IN
  /\ pc[u] = "gauge_lookup" /\ ~GaugeLocked(ip)
  /\ \/ /\ gauge[ip] = NoEntry
        /\ Goto(u, "gauge_insert")
        /\ UNCHANGED gauge
     \/ /\ gauge[ip] # NoEntry
        /\ \E limits \in UpLimits, aged, idle \in BOOLEAN :
             gauge' = [gauge EXCEPT ![ip] =
                         [octets |-> @.octets, max_octets |-> limits,
                          left |-> IF Exceeds(@.octets, limits) THEN @.octets ELSE limits,
                          aged |-> aged, idle |-> idle]]
        /\ Goto(u, "shape")
  /\ UNCHANGED <<session, shaped, loaded, ledger, job, todo, served>>

(* ... and inserts a new one over whatever the bucket holds by then.       *)
GaugeInsert(u) ==
  /\ pc[u] = "gauge_insert" /\ ~GaugeLocked(job[u].ip)
  /\ \E limits \in UpLimits : gauge' = [gauge EXCEPT ![job[u].ip] = FreshGauge(limits)]
  /\ Goto(u, "shape")
  /\ UNCHANGED <<session, shaped, loaded, ledger, job, todo, served>>

ShapeNew(u) ==
  /\ pc[u] = "shape"
  /\ shaped' = shaped \cup {job[u].ip}
  /\ Goto(u, "lookup")
  /\ UNCHANGED <<session, gauge, loaded, ledger, job, todo, served>>

UndoGauge(u) ==
  /\ pc[u] = "undo_gauge" /\ ~GaugeLocked(job[u].ip)
  /\ gauge' = [gauge EXCEPT ![job[u].ip] = NoEntry]
  /\ Goto(u, "undo_shape")
  /\ UNCHANGED <<session, shaped, loaded, ledger, job, todo, served>>

UndoShape(u) ==
  /\ pc[u] = "undo_shape"
  /\ shaped' = shaped \ {job[u].ip}
  /\ Goto(u, "idle")
  /\ UNCHANGED <<session, gauge, loaded, ledger, job, todo, served>>

NextStateid(n) == IF n = MaxStateid THEN 1 ELSE n + 1

AcquireStateid(u) ==
  LET ip == job[u].ip IN
  /\ pc[u] = "acquire"
  /\ session' = IF session[ip] = NoEntry THEN session
                ELSE [session EXCEPT ![ip].stateid = NextStateid(@)]
  /\ Goto(u, "idle")
  /\ UNCHANGED <<gauge, shaped, loaded, ledger, job, todo, served>>

UamStep(u) ==
  \/ VerifyStateid(u) \/ Retention(u) \/ GaugeLookup(u) \/ GaugeInsert(u)
  \/ ShapeNew(u) \/ UndoGauge(u) \/ UndoShape(u) \/ AcquireStateid(u)
-----------------------------------------------------------------------------
(* Relay threads *)

(* A packet asks for the filter of its session, then is counted unless the *)
(* filter blocked it.                                                      *)
Packet(r) ==
  /\ pc[r] = "idle"
  /\ \E ip \in IP : Do(r, "packet", ip, Empty, 0)
  /\ Goto(r, "lookup")
  /\ UNCHANGED <<session, gauge, shaped, loaded, ledger, todo, served>>

Block(r) ==
  /\ pc[r] = "count"
  /\ Goto(r, "idle")
  /\ UNCHANGED <<session, gauge, shaped, loaded, ledger, job, todo, served>>

AfterPacket(g, dir) == [g EXCEPT !.octets[dir] = @ + 1, !.idle = FALSE]

(* Mutant of Count: the limits are tested before the packet is added.      *)
CountAfterwards(r) ==
  LET ip == job[r].ip IN
  /\ pc[r] = "count" /\ ~GaugeLocked(ip)
  /\ \/ /\ gauge[ip] = NoEntry
        /\ Goto(r, "idle")
        /\ UNCHANGED <<gauge, job>>
     \/ /\ gauge[ip] # NoEntry
        /\ \E dir \in Traffic : gauge' = [gauge EXCEPT ![ip] = AfterPacket(@, dir)]
        /\ IF Over(gauge[ip])
           THEN Do(r, "throttle", ip, Null, 0) /\ Goto(r, "lookup")
           ELSE UNCHANGED job /\ Goto(r, "idle")
  /\ UNCHANGED <<session, shaped, loaded, ledger, todo, served>>

(* sw_gauge_update: over a limit it releases the bucket and goes on to     *)
(* stop the session and to delete the gauge.                               *)
Count(r) ==
  LET ip == job[r].ip IN
  /\ pc[r] = "count" /\ ~GaugeLocked(ip)
  /\ \/ /\ gauge[ip] = NoEntry
        /\ Goto(r, "idle")
        /\ UNCHANGED <<gauge, job>>
     \/ /\ gauge[ip] # NoEntry
        /\ \E dir \in Traffic : gauge' = [gauge EXCEPT ![ip] = AfterPacket(@, dir)]
        /\ IF Over(gauge'[ip])
           THEN Do(r, "throttle", ip, Null, 0) /\ Goto(r, "lookup")
           ELSE UNCHANGED job /\ Goto(r, "idle")
  /\ UNCHANGED <<session, shaped, loaded, ledger, todo, served>>

RelayStep(r) == Count(r)
-----------------------------------------------------------------------------
(* The maintenance thread: sw_gauge_expire, then sw_session_expire, then   *)
(* sw_filter_reload, again and again.                                      *)

BeginSweep ==
  /\ pc[Maint] = "idle"
  /\ todo' = IP
  /\ Goto(Maint, "gauges")
  /\ UNCHANGED <<session, gauge, shaped, loaded, ledger, job, served>>

(* Mutant of ExpireGauge: the session duration is not looked at.           *)
ExpireGaugeIdleOnly(ip) ==
  /\ pc[Maint] = "gauges" /\ ip \in todo
  /\ IF gauge[ip] # NoEntry /\ gauge[ip].idle
     THEN Do(Maint, "expire", ip, Null, 0) /\ Goto(Maint, "lookup") /\ UNCHANGED todo
     ELSE todo' = todo \ {ip} /\ UNCHANGED <<job, pc>>
  /\ UNCHANGED <<session, gauge, shaped, loaded, ledger, served>>

(* __expire_gauge_cb *)
ExpireGauge(ip) ==
  /\ pc[Maint] = "gauges" /\ ip \in todo
  /\ IF gauge[ip] # NoEntry /\ (gauge[ip].aged \/ gauge[ip].idle)
     THEN Do(Maint, "expire", ip, Null, 0) /\ Goto(Maint, "lookup") /\ UNCHANGED todo
     ELSE todo' = todo \ {ip} /\ UNCHANGED <<job, pc>>
  /\ UNCHANGED <<session, gauge, shaped, loaded, ledger, served>>

GaugesDone ==
  /\ pc[Maint] = "gauges" /\ todo = {}
  /\ todo' = IP
  /\ Goto(Maint, "sessions")
  /\ UNCHANGED <<session, gauge, shaped, loaded, ledger, job, served>>

(* __expire_session_cb, which runs under the session bucket lock.          *)
Expired(s) == s # NoEntry /\ s.state = "captured" /\ s.stale

InterimDue(s) == s # NoEntry /\ s.state = "released" /\ s.interim

ExpireSession(ip) ==
  /\ pc[Maint] = "sessions" /\ ip \in todo
  /\ \/ /\ Expired(session[ip])
        /\ session' = [session EXCEPT ![ip] = NoEntry]
        /\ shaped' = shaped \ {ip}
        /\ UNCHANGED ledger
     \/ /\ InterimDue(session[ip])
        /\ session' = [session EXCEPT ![ip].interim = FALSE]
        /\ ledger' = [ledger EXCEPT ![ip]["interim"] = @ + 1]
        /\ UNCHANGED shaped
     \/ /\ ~Expired(session[ip]) /\ ~InterimDue(session[ip])
        /\ UNCHANGED <<session, shaped, ledger>>
  /\ todo' = todo \ {ip}
  /\ UNCHANGED <<gauge, loaded, pc, job, served>>

SessionsDone ==
  /\ pc[Maint] = "sessions" /\ todo = {}
  /\ Goto(Maint, "idle")
  /\ UNCHANGED <<session, gauge, shaped, loaded, ledger, job, todo, served>>

(* A relay thread holds the lock of its socket while it looks for the      *)
(* filter of a packet.                                                     *)
Matching(r) == job[r].cmd = "packet" /\ pc[r] \in {"lookup", "recheck", "insert"}

(* sw_filter_reload finds that a filter file has appeared or disappeared,  *)
(* and takes the locks of all the sockets to load or unload the filter.    *)
FilterReload(name) ==
  /\ pc[Maint] = "idle" /\ name \in Volatile
  /\ \A r \in Relay : ~Matching(r)
  /\ loaded' = IF name \in loaded THEN loaded \ {name} ELSE loaded \cup {name}
  /\ UNCHANGED <<session, gauge, shaped, ledger, pc, job, todo, served>>

MaintStep ==
  \/ BeginSweep \/ GaugesDone \/ SessionsDone
  \/ \E ip \in IP : ExpireGauge(ip) \/ ExpireSession(ip)
-----------------------------------------------------------------------------
(* The clock passes a deadline of an entry.                                *)

GaugeAges(ip) ==
  /\ gauge[ip] # NoEntry
  /\ \/ gauge' = [gauge EXCEPT ![ip].aged = TRUE]
     \/ gauge' = [gauge EXCEPT ![ip].idle = TRUE]
  /\ UNCHANGED <<session, shaped, loaded, ledger, pc, job, todo, served>>

SessionAges(ip) ==
  /\ session[ip] # NoEntry
  /\ \/ session' = [session EXCEPT ![ip].stale = TRUE]
     \/ /\ session[ip].state = "released" /\ ledger[ip]["interim"] < MaxInterim
        /\ session' = [session EXCEPT ![ip].interim = TRUE]
  /\ UNCHANGED <<gauge, shaped, loaded, ledger, pc, job, todo, served>>
-----------------------------------------------------------------------------
Init ==
  /\ session = [ip \in IP |-> NoEntry]
  /\ gauge = [ip \in IP |-> NoEntry]
  /\ shaped = {}
  /\ loaded = Preloaded
  /\ ledger = [ip \in IP |-> [type \in AcctType |-> 0]]
  /\ pc = [t \in Thread |-> "idle"]
  /\ job \in [Thread -> {[cmd |-> "none", ip |-> CHOOSE ip \in IP : TRUE,
                          name |-> Empty, stateid |-> 0, event |-> "none"]}]
  /\ todo = {}
  /\ served = 0

(* The part of a call that is common to all callers.                       *)
CallStep(t) ==
  SessionLookup(t) \/ SessionRecheck(t) \/ SessionInsert(t) \/ AcctSubmit(t) \/ GaugeDel(t)

Next ==
  \/ \E t \in Thread : CallStep(t)
  \/ \E u \in Uam : Receive(u) \/ UamStep(u)
  \/ \E r \in Relay : Packet(r) \/ Block(r) \/ RelayStep(r)
  \/ MaintStep
  \/ \E name \in Volatile : FilterReload(name)
  \/ \E ip \in IP : GaugeAges(ip) \/ SessionAges(ip)

Spec == Init /\ [][Next]_vars

(* Every thread keeps running; requests, packets and the clock need not    *)
(* come, and a reload need not find a change.                              *)
FairSpec ==
  /\ Spec
  /\ \A u \in Uam : WF_vars(CallStep(u) \/ UamStep(u))
  /\ \A r \in Relay : WF_vars(CallStep(r) \/ RelayStep(r))
  /\ WF_vars(CallStep(Maint) \/ MaintStep)
-----------------------------------------------------------------------------
(* Properties *)

(* Types of the state, and which thread is where with which job.           *)
TypeOK ==
  /\ session \in [IP -> Entry \cup {NoEntry}]
  /\ gauge \in [IP -> Gauge \cup {NoEntry}]
  /\ shaped \subseteq IP
  /\ loaded \subseteq Name
  /\ ledger \in [IP -> [AcctType -> Nat]]
  /\ pc \in [Thread -> PC]
  /\ job \in [Thread -> Job]
  /\ todo \subseteq IP
  /\ served \in 0..MaxRequest

(* Records that a thread owes: taken under the lock, not yet submitted.    *)
Owed(ip, event) ==
  Cardinality({t \in Thread : pc[t] = "submit" /\ job[t].ip = ip /\ job[t].event = event})

(* A stop record is never created for a session that was not started, and  *)
(* a session that is up has its start record: across both pools, however   *)
(* the workers, the relays and the maintenance thread interleave, no       *)
(* release is stopped twice (session.c, sw_session_stop's test of state).  *)
LedgerBalance ==
  \A ip \in IP :
    ledger[ip]["start"] + Owed(ip, "start") >=
      ledger[ip]["stop"] + Owed(ip, "stop") + (IF Released(ip) THEN 1 ELSE 0)

(* The relay threads that have seen the address over its limit and have    *)
(* yet to delete the gauge (gauge.c, sw_gauge_update after the unlock).    *)
Throttling(ip) ==
  {r \in Relay : /\ job[r].cmd = "throttle" /\ job[r].ip = ip
                 /\ pc[r] \in {"lookup", "recheck", "insert", "submit", "gauge_del"}}

(* Octets counted past what the last U request left to the gauge: its     *)
(* limits, or nothing where one of them was reached already.               *)
Past(g, dir) == IF g.octets[dir] > g.left[dir] THEN g.octets[dir] - g.left[dir] ELSE 0

(* Traffic past the limits is bounded by the relay threads that are at     *)
(* work on the throttling, also when a U request has lowered the limits    *)
(* below what was counted: each packet that passes ties a thread up until  *)
(* the gauge is gone, although the gauge bucket is free meanwhile.         *)
OvershootBounded ==
  \A ip \in IP : gauge[ip] # NoEntry =>
    Past(gauge[ip], "in") + Past(gauge[ip], "out") <= Cardinality(Throttling(ip))

OverLimit(ip) == gauge[ip] # NoEntry /\ Over(gauge[ip])

PastLimit(ip) == gauge[ip] # NoEntry /\ \E dir \in Direction : Past(gauge[ip], dir) > 0

(* A gauge that a packet was counted in past its limits goes, unless a new *)
(* U request allows more.  One that puts a limit below what was counted    *)
(* leaves the gauge to the next packet of either direction:                *)
(* sw_gauge_update alone compares (gauge.c:293).                           *)
OverLimitEnds == \A ip \in IP : PastLimit(ip) ~> ~OverLimit(ip)

(* A gauge whose time is over is found by the sweep, unless a new UP gives *)
(* it more time.                                                           *)
AgedGaugeEnds ==
  \A ip \in IP :
    gauge[ip] # NoEntry /\ gauge[ip].aged ~> gauge[ip] = NoEntry \/ ~gauge[ip].aged

(* Every request is worked off: no worker waits for ever at a bucket that  *)
(* the maintenance thread holds, and the threads never wait in a circle.   *)
RequestsDone == \A u \in Uam : pc[u] # "idle" ~> pc[u] = "idle"
=============================================================================
