---------------------------- MODULE SnatRelations ----------------------------
(***************************************************************************)
(* Source NAT relations (nat_src.c).  A relation ties a private endpoint   *)
(* (address and port of a user: a flow) to a public one, and hangs in two  *)
(* hashes, one for each direction.  A relay that meets a new flow takes    *)
(* public ports of the user's range in turn, until it finds one that is    *)
(* free or whose relation was idle for a while, which it takes over; the   *)
(* collector deletes what was idle for long.                               *)
(*                                                                         *)
(* The sections of the code under one private bucket are single actions,   *)
(* and so is what runs under a public bucket, except where a test under    *)
(* that lock is followed by the wait for a private bucket: there the       *)
(* public bucket stays locked (PubLocked) between two actions.             *)
(*                                                                         *)
(* Abstractions: one protocol; a bucket holds one key; the age of a        *)
(* relation is one of three.  raced is a history variable.                 *)
(***************************************************************************)
EXTENDS SnatEndpoints, FiniteSets

CONSTANTS
  Relay,      \* packet relay threads
  Collector,  \* the garbage thread
  Flow,       \* private endpoints
  UserOf,     \* the private address of each of them
  Rel,        \* memory for relations
  MaxRetry,   \* ASSIGN_RETRY_MAX
  NoRel,      \* no relation in a hash
  NoEndpoint, \* the user has no port range
  Freed,      \* memory that is not in use
  Blank       \* a relation in use that has no endpoints yet

Thread == Relay \cup {Collector}

(* Not refreshed for up to ACTIVE_REL_PROTECT_SEC, for more, for more than *)
(* RELATION_EXPIRE_INTERVAL.                                               *)
Age == {"active", "idle", "expired"}

Relation == [prv : Flow, pub : Public, age : Age]

ASSUME RelationsOK ==
  /\ Collector \notin Relay
  /\ UserOf \in [Flow -> User] /\ Flow # {}
  /\ MaxRetry \in Nat \ {0}
  /\ NoRel \notin Rel /\ NoEndpoint \notin Nat
  /\ Freed \notin Relation /\ Blank \notin Relation /\ Freed # Blank

VARIABLES
  endpoint,  \* global_ip_hash: the port to be assigned next, by user
  prvHash,   \* global_nat_src_prv_hash
  pubHash,   \* global_nat_src_pub_hash
  rel,       \* the memory behind the relations
  pc,        \* where each thread is
  job,       \* what each thread is working on
  raced      \* flows whose relation was replaced in a hash by another

snat == <<endpoint, prvHash, pubHash, rel, pc, job, raced>>

Job == [flow : Flow, pub : Public, rel : Rel \cup {NoRel}, tries : 0 .. MaxRetry]

PC == {"idle", "assign", "claim", "preempt", "insert", "collect"}

(* A thread holds a public bucket and waits for the private one.           *)
PubLocked(k) == \E t \in Thread : pc[t] \in {"preempt", "collect"} /\ job[t].pub = k

Goto(t, label) == pc' = [pc EXCEPT ![t] = label]
-----------------------------------------------------------------------------
(* The port ranges come and go with the sessions; relations stay.          *)

NewEndpoint(n) ==
  /\ endpoint' = [endpoint EXCEPT ![n] = Lport(n)]
  /\ UNCHANGED <<prvHash, pubHash, rel, pc, job, raced>>

DelEndpoint(n) ==
  /\ endpoint' = [endpoint EXCEPT ![n] = NoEndpoint]
  /\ UNCHANGED <<prvHash, pubHash, rel, pc, job, raced>>
-----------------------------------------------------------------------------
(* sw_nat_src_do *)

(* A packet of a flow that has a relation refreshes it and goes out; the   *)
(* first packet of a flow goes on to make one.                             *)
Lookup(t, f) ==
  /\ pc[t] = "idle"
  /\ \/ /\ prvHash[f] # NoRel
        /\ rel' = [rel EXCEPT ![prvHash[f]].age = "active"]
        /\ UNCHANGED <<pc, job>>
     \/ /\ prvHash[f] = NoRel
        /\ job' = [job EXCEPT ![t].flow = f, ![t].rel = NoRel, ![t].tries = 0]
        /\ Goto(t, "assign")
        /\ UNCHANGED rel
  /\ UNCHANGED <<endpoint, prvHash, pubHash, raced>>

(* sw_nat_src_endpoint_assign *)
Assign(t) ==
  LET n == UserOf[job[t].flow] IN
  /\ pc[t] = "assign"
  /\ \/ /\ endpoint[n] = NoEndpoint
        /\ Goto(t, "idle")
        /\ UNCHANGED <<endpoint, job>>
     \/ /\ endpoint[n] # NoEndpoint
        /\ job' = [job EXCEPT ![t].pub = [ip |-> PubIp(n), port |-> endpoint[n]]]
        /\ endpoint' = [endpoint EXCEPT ![n] = NextPort(n, @)]
        /\ Goto(t, "claim")
  /\ UNCHANGED <<prvHash, pubHash, rel, raced>>

(* The port is free: memory for a relation, or none.                       *)
ClaimFree(t) ==
  /\ pc[t] = "claim" /\ ~PubLocked(job[t].pub)
  /\ pubHash[job[t].pub] = NoRel
  /\ \/ \E r \in Rel :
          /\ rel[r] = Freed
          /\ rel' = [rel EXCEPT ![r] = Blank]
          /\ job' = [job EXCEPT ![t].rel = r]
          /\ Goto(t, "insert")
     \/ /\ \A r \in Rel : rel[r] # Freed
        /\ Goto(t, "idle")
        /\ UNCHANGED <<rel, job>>
  /\ UNCHANGED <<endpoint, prvHash, pubHash, raced>>

(* Mutant of ClaimBusy: one attempt too many.                              *)
ClaimBusyOnce(t) ==
  LET r == pubHash[job[t].pub] IN
  /\ pc[t] = "claim" /\ ~PubLocked(job[t].pub)
  /\ r # NoRel /\ rel[r].age = "active"
  /\ job' = [job EXCEPT ![t].tries = @ + 1]
  /\ Goto(t, IF job[t].tries = MaxRetry THEN "idle" ELSE "assign")
  /\ UNCHANGED <<endpoint, prvHash, pubHash, rel, raced>>

(* The port is in use: on to the next one, or the packet is dropped.       *)
ClaimBusy(t) ==
  LET r == pubHash[job[t].pub] IN
  /\ pc[t] = "claim" /\ ~PubLocked(job[t].pub)
  /\ r # NoRel /\ rel[r].age = "active"
  /\ job' = [job EXCEPT ![t].tries = @ + 1]
  /\ Goto(t, IF job[t].tries + 1 = MaxRetry THEN "idle" ELSE "assign")
  /\ UNCHANGED <<endpoint, prvHash, pubHash, rel, raced>>

(* The relation of the port is idle; its public bucket stays locked.       *)
ClaimIdle(t) ==
  LET r == pubHash[job[t].pub] IN
  /\ pc[t] = "claim" /\ ~PubLocked(job[t].pub)
  /\ r # NoRel /\ rel[r].age # "active"
  /\ job' = [job EXCEPT ![t].rel = r]
  /\ Goto(t, "preempt")
  /\ UNCHANGED <<endpoint, prvHash, pubHash, rel, raced>>

(* Unlink the relation a thread has in hand from both hashes, by its keys. *)
Unlink(t) ==
  LET r == job[t].rel IN
  /\ prvHash' = [prvHash EXCEPT ![rel[r].prv] = NoRel]
  /\ pubHash' = [pubHash EXCEPT ![rel[r].pub] = NoRel]

(* Mutant of Preempt: the old flow keeps its way out.                      *)
PreemptPublicOnly(t) ==
  /\ pc[t] = "preempt"
  /\ pubHash' = [pubHash EXCEPT ![job[t].pub] = NoRel]
  /\ rel' = [rel EXCEPT ![job[t].rel] = Blank]
  /\ Goto(t, "insert")
  /\ UNCHANGED <<endpoint, prvHash, job, raced>>

(* The memory of the old relation becomes the new one.                     *)
Preempt(t) ==
  /\ pc[t] = "preempt"
  /\ Unlink(t)
  /\ rel' = [rel EXCEPT ![job[t].rel] = Blank]
  /\ Goto(t, "insert")
  /\ UNCHANGED <<endpoint, job, raced>>

(* Mutant of Insert: the public bucket is not taken.                       *)
InsertUnlocked(t) ==
  LET f == job[t].flow  k == job[t].pub  r == job[t].rel IN
  /\ pc[t] = "insert"
  /\ rel' = [rel EXCEPT ![r] = [prv |-> f, pub |-> k, age |-> "active"]]
  /\ pubHash' = [pubHash EXCEPT ![k] = r]
  /\ prvHash' = [prvHash EXCEPT ![f] = r]
  /\ raced' = raced \cup (IF prvHash[f] = NoRel THEN {} ELSE {f})
                    \cup (IF pubHash[k] = NoRel THEN {} ELSE {rel[pubHash[k]].prv})
  /\ Goto(t, "idle")
  /\ UNCHANGED <<endpoint, job>>

(* lh_insert replaces what it finds under the key; nothing frees that.     *)
Insert(t) ==
  LET f == job[t].flow  k == job[t].pub  r == job[t].rel IN
  /\ pc[t] = "insert" /\ ~PubLocked(k)
  /\ rel' = [rel EXCEPT ![r] = [prv |-> f, pub |-> k, age |-> "active"]]
  /\ pubHash' = [pubHash EXCEPT ![k] = r]
  /\ prvHash' = [prvHash EXCEPT ![f] = r]
  /\ raced' = raced \cup (IF prvHash[f] = NoRel THEN {} ELSE {f})
                    \cup (IF pubHash[k] = NoRel THEN {} ELSE {rel[pubHash[k]].prv})
  /\ Goto(t, "idle")
  /\ UNCHANGED <<endpoint, job>>
-----------------------------------------------------------------------------
(* The collector visits every public bucket (__expire_current_seq).        *)

Visit(k) ==
  LET r == pubHash[k] IN
  /\ pc[Collector] = "idle" /\ ~PubLocked(k)
  /\ r # NoRel /\ rel[r].age = "expired"
  /\ job' = [job EXCEPT ![Collector].pub = k, ![Collector].rel = r]
  /\ Goto(Collector, "collect")
  /\ UNCHANGED <<endpoint, prvHash, pubHash, rel, raced>>

Collect ==
  /\ pc[Collector] = "collect"
  /\ Unlink(Collector)
  /\ rel' = [rel EXCEPT ![job[Collector].rel] = Freed]
  /\ Goto(Collector, "idle")
  /\ UNCHANGED <<endpoint, job, raced>>

(* Time passes and no packet of the flow comes.                            *)
Fades(r) ==
  /\ rel[r] \notin {Freed, Blank} /\ rel[r].age # "expired"
  /\ rel' = [rel EXCEPT ![r].age = IF @ = "active" THEN "idle" ELSE "expired"]
  /\ UNCHANGED <<endpoint, prvHash, pubHash, pc, job, raced>>
-----------------------------------------------------------------------------
SnatInit ==
  /\ endpoint = [n \in User |-> NoEndpoint]
  /\ prvHash = [f \in Flow |-> NoRel]
  /\ pubHash = [k \in Public |-> NoRel]
  /\ rel = [r \in Rel |-> Freed]
  /\ pc = [t \in Thread |-> "idle"]
  /\ job \in [Thread -> {[flow |-> CHOOSE f \in Flow : TRUE, tries |-> 0, rel |-> NoRel,
                          pub |-> [ip |-> 0, port |-> FirstPort]]}]
  /\ raced = {}

RelayStep(t) ==
  \/ \E f \in Flow : Lookup(t, f)
  \/ Assign(t) \/ ClaimFree(t) \/ ClaimBusy(t) \/ ClaimIdle(t) \/ Preempt(t) \/ Insert(t)

SnatNext ==
  \/ \E f \in Flow : NewEndpoint(UserOf[f]) \/ DelEndpoint(UserOf[f])
  \/ \E t \in Relay : RelayStep(t)
  \/ \E k \in Public : Visit(k)
  \/ Collect
  \/ \E r \in Rel : Fades(r)

SnatSpec == SnatInit /\ [][SnatNext]_snat
-----------------------------------------------------------------------------
(* Properties *)

(* Types of the relations and of the threads that work on them.            *)
SnatTypeOK ==
  /\ endpoint \in [User -> Nat \cup {NoEndpoint}]
  /\ prvHash \in [Flow -> Rel \cup {NoRel}]
  /\ pubHash \in [Public -> Rel \cup {NoRel}]
  /\ rel \in [Rel -> Relation \cup {Freed, Blank}]
  /\ pc \in [Thread -> PC]
  /\ job \in [Thread -> Job]
  /\ raced \subseteq Flow

(* Whatever hangs in a hash is a relation in use, under its own key: a     *)
(* relation that was taken over, replaced or collected is never reached    *)
(* again, although relays and the collector unlink by key and reuse memory *)
(* (nat_src.c, lh_delete of relations that others may have replaced).      *)
NoDangling ==
  /\ \A f \in Flow : prvHash[f] # NoRel =>
       rel[prvHash[f]] \in Relation /\ rel[prvHash[f]].prv = f
  /\ \A k \in Public : pubHash[k] # NoRel =>
       rel[pubHash[k]] \in Relation /\ rel[pubHash[k]].pub = k

(* A public endpoint in use belongs to the range that accounting reports   *)
(* for the user of the flow, and to nobody else's: the lookup by division  *)
(* names this user (sw_nat_src_endpoint_udp_getprv), also when the range   *)
(* was withdrawn and given out again since.                                *)
UsersApart ==
  \A k \in Public : pubHash[k] # NoRel =>
    {n \in User : PubIp(n) = k.ip /\ Id(n) = PortId(k.port)} = {UserOf[rel[pubHash[k]].prv]}

(* Both hashes tell the same of a flow, unless two relays made a relation  *)
(* for it, or took the same port, at the same time: neither preemption nor *)
(* the collector, in whatever order with relays, can part them.            *)
AgreeUnlessRaced ==
  /\ \A f \in Flow \ raced : prvHash[f] # NoRel =>
       pubHash[rel[prvHash[f]].pub] = prvHash[f]
  /\ \A k \in Public : pubHash[k] # NoRel /\ rel[pubHash[k]].prv \notin raced =>
       prvHash[rel[pubHash[k]].prv] = pubHash[k]
=============================================================================
