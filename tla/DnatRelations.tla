---------------------------- MODULE DnatRelations ----------------------------
(***************************************************************************)
(* Destination NAT relations (nat_dst.c).  A relay that redirects a packet *)
(* records where it was going, so that the relay of the other direction    *)
(* can put that address back into the replies.  A relation hangs in three  *)
(* hashes; the third is a ring of numbers that bounds how many there are:  *)
(* a new relation evicts the one that has its number.                      *)
(*                                                                         *)
(* Buckets are locked in the order seq, dst, nat, and kept until the last  *)
(* of them is done with: a section is cut where it waits for a lock.       *)
(*                                                                         *)
(* Abstractions: a bucket holds one key; a flow is a source, a destination *)
(* and the target of the rule it matched.  contended and lapped are        *)
(* history variables.                                                      *)
(***************************************************************************)
EXTENDS Naturals, FiniteSets

CONSTANTS
  Relay,   \* packet relay threads of the inner interface
  Flow,    \* records with fields src, dst, nat
  Max,     \* SW_NAT_DST_RELATIONS_MAX
  Rel,     \* memory for relations
  None,    \* no relation in a hash
  Freed    \* memory that is not in use

Seq == 0 .. Max - 1
NatKey == {<<f.src, f.nat>> : f \in Flow}
KeyOf(f) == <<f.src, f.nat>>
Relation == [flow : Flow, seq : Seq]

ASSUME DnatAssumption ==
  /\ Max \in Nat \ {0} /\ Flow # {}
  /\ None \notin Rel /\ Freed \notin Relation

VARIABLES
  dstHash,   \* global_nat_dst_dst_hash
  natHash,   \* global_nat_dst_nat_hash
  seqHash,   \* global_nat_dst_seq_hash
  ticker,    \* global_seq_ticker
  rel,       \* the memory behind the relations
  pc,        \* where each relay is in sw_nat_dst_do
  job,       \* what it is working on
  contended, \* keys of natHash under which a relation was replaced
  lapped     \* relations replaced in the ring: two relays had one number

dnat == <<dstHash, natHash, seqHash, ticker, rel, pc, job, contended, lapped>>

Job == [flow : Flow, seq : Seq, rel : Rel \cup {None}]
PC == {"idle", "number", "ring", "evictDst", "evictNat", "alloc", "insertSeq", "insertDst",
       "insertNat"}

(* Mutant of SeqLocked: the eviction leaves its bucket locked.             *)
SeqLockedStill(q) ==
  \E t \in Relay : pc[t] \notin {"idle", "number", "ring"} /\ job[t].seq = q

(* Buckets kept locked between two steps.                                  *)
SeqLocked(q) ==
  \E t \in Relay : pc[t] \in {"evictDst", "evictNat", "insertDst", "insertNat"} /\ job[t].seq = q

DstLocked(f) ==
  \E t \in Relay :
    \/ pc[t] = "evictNat" /\ rel[job[t].rel].flow = f
    \/ pc[t] = "insertNat" /\ job[t].flow = f

(* A relay outside of sw_nat_dst_do holds nothing.                         *)
Idle == [flow |-> CHOOSE f \in Flow : TRUE, seq |-> 0, rel |-> None]

Goto(t, label) == pc' = [pc EXCEPT ![t] = label]
-----------------------------------------------------------------------------
(* sw_nat_dst_do *)

(* A flow that has a relation keeps it; the packet goes on.                *)
Lookup(t, f) ==
  /\ pc[t] = "idle" /\ ~DstLocked(f)
  /\ IF dstHash[f] # None
     THEN UNCHANGED <<pc, job>>
     ELSE /\ job' = [job EXCEPT ![t].flow = f, ![t].rel = None]
          /\ Goto(t, "number")
  /\ UNCHANGED <<dstHash, natHash, seqHash, ticker, rel, contended, lapped>>

(* Mutant of NextSeq: the numbers wrap one too late.                       *)
NextSeqLate(q) == IF q + 1 > Max THEN 0 ELSE q + 1

NextSeq(q) == IF q + 1 >= Max THEN 0 ELSE q + 1

TakeNumber(t) ==
  /\ pc[t] = "number"
  /\ job' = [job EXCEPT ![t].seq = ticker]
  /\ ticker' = NextSeq(ticker)
  /\ Goto(t, "ring")
  /\ UNCHANGED <<dstHash, natHash, seqHash, rel, contended, lapped>>

(* The old relation of the number, whose bucket stays locked, or none.     *)
LookRing(t) ==
  LET r == seqHash[job[t].seq] IN
  /\ pc[t] = "ring" /\ ~SeqLocked(job[t].seq)
  /\ job' = [job EXCEPT ![t].rel = r]
  /\ Goto(t, IF r = None THEN "alloc" ELSE "evictDst")
  /\ UNCHANGED <<dstHash, natHash, seqHash, ticker, rel, contended, lapped>>

(* Relations are unlinked by their keys, whatever hangs there by now.      *)
EvictDst(t) ==
  LET f == rel[job[t].rel].flow IN
  /\ pc[t] = "evictDst" /\ ~DstLocked(f)
  /\ dstHash' = [dstHash EXCEPT ![f] = None]
  /\ Goto(t, "evictNat")
  /\ UNCHANGED <<natHash, seqHash, ticker, rel, job, contended, lapped>>

(* Mutant of EvictNat: the way back is left.                               *)
EvictNatForgets(t) ==
  /\ pc[t] = "evictNat"
  /\ seqHash' = [seqHash EXCEPT ![job[t].seq] = None]
  /\ rel' = [rel EXCEPT ![job[t].rel] = Freed]
  /\ job' = [job EXCEPT ![t].rel = None]
  /\ Goto(t, "alloc")
  /\ UNCHANGED <<dstHash, natHash, ticker, contended, lapped>>

(* Mutant of EvictNat: the memory is not given back.                       *)
EvictNatLeaks(t) ==
  /\ pc[t] = "evictNat"
  /\ natHash' = [natHash EXCEPT ![KeyOf(rel[job[t].rel].flow)] = None]
  /\ seqHash' = [seqHash EXCEPT ![job[t].seq] = None]
  /\ job' = [job EXCEPT ![t].rel = None]
  /\ Goto(t, "alloc")
  /\ UNCHANGED <<dstHash, ticker, rel, contended, lapped>>

EvictNat(t) ==
  LET r == job[t].rel IN
  /\ pc[t] = "evictNat"
  /\ natHash' = [natHash EXCEPT ![KeyOf(rel[r].flow)] = None]
  /\ seqHash' = [seqHash EXCEPT ![job[t].seq] = None]
  /\ rel' = [rel EXCEPT ![r] = Freed]
  /\ job' = [job EXCEPT ![t].rel = None]
  /\ Goto(t, "alloc")
  /\ UNCHANGED <<dstHash, ticker, contended, lapped>>

(* Memory for the new relation (which does not matter, one cell is like    *)
(* another); without any, the packet is dropped.                           *)
Alloc(t) ==
  /\ pc[t] = "alloc"
  /\ \/ LET r == CHOOSE m \in Rel : rel[m] = Freed IN
          /\ \E m \in Rel : rel[m] = Freed
          /\ rel' = [rel EXCEPT ![r] = [flow |-> job[t].flow, seq |-> job[t].seq]]
          /\ job' = [job EXCEPT ![t].rel = r]
          /\ Goto(t, "insertSeq")
     \/ /\ \A m \in Rel : rel[m] # Freed
        /\ job' = [job EXCEPT ![t] = Idle]
        /\ Goto(t, "idle")
        /\ UNCHANGED rel
  /\ UNCHANGED <<dstHash, natHash, seqHash, ticker, contended, lapped>>

(* lh_insert replaces what it finds under the key; nothing frees that.     *)
InsertSeq(t) ==
  LET q == job[t].seq IN
  /\ pc[t] = "insertSeq" /\ ~SeqLocked(q)
  /\ seqHash' = [seqHash EXCEPT ![q] = job[t].rel]
  /\ lapped' = lapped \cup ({seqHash[q]} \ {None})
  /\ Goto(t, "insertDst")
  /\ UNCHANGED <<dstHash, natHash, ticker, rel, job, contended>>

InsertDst(t) ==
  LET f == job[t].flow IN
  /\ pc[t] = "insertDst" /\ ~DstLocked(f)
  /\ dstHash' = [dstHash EXCEPT ![f] = job[t].rel]
  /\ Goto(t, "insertNat")
  /\ UNCHANGED <<natHash, seqHash, ticker, rel, job, contended, lapped>>

InsertNat(t) ==
  LET k == KeyOf(job[t].flow) IN
  /\ pc[t] = "insertNat"
  /\ natHash' = [natHash EXCEPT ![k] = job[t].rel]
  /\ contended' = IF natHash[k] = None THEN contended ELSE contended \cup {k}
  /\ job' = [job EXCEPT ![t] = Idle]
  /\ Goto(t, "idle")
  /\ UNCHANGED <<dstHash, seqHash, ticker, rel, lapped>>
-----------------------------------------------------------------------------
(* sw_nat_dst_undo: the destination a reply is given back as its source,   *)
(* looked up under the bucket of its key; without one it is dropped.       *)

(* Mutant of Undo: the target itself is put back.                          *)
UndoTarget(k) == IF natHash[k] = None THEN None ELSE rel[natHash[k]].flow.nat

Undo(k) == IF natHash[k] = None THEN None ELSE rel[natHash[k]].flow.dst
-----------------------------------------------------------------------------
(* sw_nat_dst_create *)
DnatInit ==
  /\ dstHash = [f \in Flow |-> None]
  /\ natHash = [k \in NatKey |-> None]
  /\ seqHash = [q \in Seq |-> None]
  /\ ticker = 0
  /\ rel = [r \in Rel |-> Freed]
  /\ pc = [t \in Relay |-> "idle"]
  /\ job = [t \in Relay |-> Idle]
  /\ contended = {} /\ lapped = {}

DoStep(t) ==
  \/ TakeNumber(t) \/ LookRing(t) \/ EvictDst(t) \/ EvictNat(t) \/ Alloc(t)
  \/ InsertSeq(t) \/ InsertDst(t) \/ InsertNat(t)

DnatNext ==
  \E t \in Relay : DoStep(t) \/ \E f \in Flow : Lookup(t, f)

(* A relay that spins on a bucket gets it in the end.                      *)
DnatSpec == DnatInit /\ [][DnatNext]_dnat /\ \A t \in Relay : SF_dnat(DoStep(t))
-----------------------------------------------------------------------------
(* Properties *)

(* Types of the hashes, the relations and of what the relays work on.      *)
DnatTypeOK ==
  /\ dstHash \in [Flow -> Rel \cup {None}] /\ natHash \in [NatKey -> Rel \cup {None}]
  /\ seqHash \in [Seq -> Rel \cup {None}] /\ ticker \in Seq
  /\ rel \in [Rel -> Relation \cup {Freed}]
  /\ pc \in [Relay -> PC] /\ job \in [Relay -> Job]
  /\ contended \subseteq NatKey /\ lapped \subseteq Rel

(* What hangs in a hash is a relation in use, under its own key: neither   *)
(* the relays that evict by key nor those that replace what they find ever *)
(* leave memory in a hash that was freed (nat_dst.c:126-146, 171-184).     *)
Linked ==
  /\ DnatTypeOK
  /\ \A f \in Flow : dstHash[f] # None =>
       rel[dstHash[f]] # Freed /\ rel[dstHash[f]].flow = f
  /\ \A k \in NatKey : natHash[k] # None =>
       rel[natHash[k]] # Freed /\ KeyOf(rel[natHash[k]].flow) = k
  /\ \A q \in Seq : seqHash[q] # None =>
       rel[seqHash[q]] # Freed /\ rel[seqHash[q]].seq = q

(* Replies to a redirected flow come back with the address it was sent to, *)
(* from the packet that made the relation to the one that evicts it,       *)
(* unless a relation of the same source and target was ever replaced       *)
(* (nat_dst.c:112-119, 201-222).                                           *)
ComesBack ==
  \A f \in Flow :
    dstHash[f] # None /\ ~DstLocked(f) /\ KeyOf(f) \notin contended => Undo(KeyOf(f)) = f.dst

(* The ring bounds the memory: a relation that no relay works on is in the *)
(* ring and will be evicted, unless two relays that had the same number    *)
(* replaced it there (nat_dst.c:121-126, 147-171).                         *)
RingHolds ==
  \A r \in Rel \ lapped :
    rel[r] # Freed =>
      \/ seqHash[rel[r].seq] = r
      \/ \E t \in Relay : job[t].rel = r /\ pc[t] = "insertSeq"

(* A relay gets through the three locks, whatever the others wait for      *)
(* (nat_dst.c:112-146, 171-184).                                           *)
DoEnds == \A t \in Relay : pc[t] # "idle" ~> pc[t] = "idle"
=============================================================================
