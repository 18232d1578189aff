------------------------ MODULE DnatRelations_proofs ------------------------
(* Theorems about DnatRelations, for any number of relays, flows, numbers  *)
(* and relations.                                                          *)
EXTENDS DnatRelations, TLAPS

(* The inductive invariant of Linked.  Only EvictNat frees a relation.     *)
(* That it hangs nowhere then needs: the bucket of its number was kept     *)
(* since it was found there; it has left the hash of its flow and nobody   *)
(* puts another there; and nobody is still making it.                      *)

Evicting == {"evictDst", "evictNat"}
Inserting == {"insertSeq", "insertDst", "insertNat"}
HasSeq == Evicting \cup {"insertDst", "insertNat"}

(* A bucket of the ring is kept by one relay.                              *)
SeqAlone ==
  \A t, u \in Relay :
    pc[t] \in HasSeq /\ pc[u] \in HasSeq /\ job[t].seq = job[u].seq => t = u

(* The relation in hand of a relay that evicts is the one of its number.   *)
OldInHand ==
  \A t \in Relay :
    /\ pc[t] \in Evicting => job[t].rel \in Rel /\ seqHash[job[t].seq] = job[t].rel
    /\ pc[t] = "evictNat" => dstHash[rel[job[t].rel].flow] = None

(* A relation that is being inserted is what the relay made it, and is     *)
(* this relay's alone until it hangs in the ring.                          *)
NewInHand ==
  /\ \A t \in Relay : pc[t] \in Inserting =>
       /\ job[t].rel \in Rel
       /\ rel[job[t].rel] = [flow |-> job[t].flow, seq |-> job[t].seq]
  /\ \A t \in Relay : pc[t] = "insertSeq" => \A q \in Seq : seqHash[q] # job[t].rel
  /\ \A t, u \in Relay :
       pc[t] = "insertSeq" /\ pc[u] = "insertSeq" /\ job[t].rel = job[u].rel => t = u

DnatInv == Linked /\ SeqAlone /\ OldInHand /\ NewInHand
-----------------------------------------------------------------------------
(* What the types say of the parts.                                        *)
LEMMA Typed ==
  ASSUME DnatTypeOK
  PROVE  /\ \A t \in Relay : /\ job[t] \in Job /\ job[t].flow \in Flow /\ job[t].seq \in Seq
                             /\ job[t].rel \in Rel \cup {None} /\ KeyOf(job[t].flow) \in NatKey
         /\ \A r \in Rel : rel[r] # Freed =>
              rel[r] \in Relation /\ rel[r].flow \in Flow /\ rel[r].seq \in Seq
                /\ KeyOf(rel[r].flow) \in NatKey
         /\ \A f \in Flow : dstHash[f] # None => dstHash[f] \in Rel
         /\ \A k \in NatKey : natHash[k] # None => natHash[k] \in Rel
         /\ \A q \in Seq : seqHash[q] # None => seqHash[q] \in Rel
         /\ \A r \in Relation : r # Freed
  BY DnatAssumption DEF DnatTypeOK, Job, Relation, KeyOf, NatKey

LEMMA IdleIsJob == Idle \in Job
<1>1. (CHOOSE f \in Flow : TRUE) \in Flow
  BY DnatAssumption
<1>2. 0 \in Seq
  BY DnatAssumption DEF Seq
<1> QED
  BY <1>1, <1>2 DEF Idle, Job

LEMMA InvInit == DnatInit => DnatInv
<1> SUFFICES ASSUME DnatInit PROVE DnatInv
  OBVIOUS
<1>1. 0 \in Seq
  BY DnatAssumption DEF Seq
<1>2. DnatTypeOK
  BY <1>1, IdleIsJob DEF DnatInit, DnatTypeOK, PC
<1>3. Linked
  BY <1>2 DEF DnatInit, Linked
<1>4. SeqAlone /\ OldInHand /\ NewInHand
  BY DEF DnatInit, SeqAlone, OldInHand, NewInHand, HasSeq, Evicting, Inserting
<1> QED
  BY <1>3, <1>4 DEF DnatInv
-----------------------------------------------------------------------------
LEMMA LookupStep ==
  ASSUME DnatInv, NEW t \in Relay, NEW f \in Flow, Lookup(t, f) PROVE DnatInv'
<1>1. DnatTypeOK /\ pc[t] = "idle"
      /\ UNCHANGED <<dstHash, natHash, seqHash, ticker, rel, contended, lapped>>
  BY DEF DnatInv, Linked, Lookup
<1>2. CASE UNCHANGED <<pc, job>>
  BY <1>1, <1>2 DEF DnatInv, Linked, DnatTypeOK, SeqAlone, OldInHand, NewInHand
<1>3. CASE job' = [job EXCEPT ![t].flow = f, ![t].rel = None] /\ Goto(t, "number")
  <2>1. pc' \in [Relay -> PC] /\ pc'[t] = "number" /\ \A u \in Relay : u # t => pc'[u] = pc[u]
    BY <1>1, <1>3 DEF Goto, DnatTypeOK, PC
  <2>2. [job[t] EXCEPT !.flow = f, !.rel = None] \in Job
    BY <1>1, Typed DEF Job
  <2>3. job' \in [Relay -> Job] /\ \A u \in Relay : u # t => job'[u] = job[u]
    BY <1>1, <1>3, <2>2 DEF DnatTypeOK
  <2>4. Linked'
    BY <1>1, <2>1, <2>3 DEF DnatInv, Linked, DnatTypeOK
  <2>5. SeqAlone' /\ OldInHand' /\ NewInHand'
    BY <1>1, <2>1, <2>3
       DEF DnatInv, SeqAlone, OldInHand, NewInHand, HasSeq, Evicting, Inserting
  <2> QED
    BY <2>4, <2>5 DEF DnatInv
<1> QED
  BY <1>2, <1>3 DEF Lookup

LEMMA TakeNumberStep == ASSUME DnatInv, NEW t \in Relay, TakeNumber(t) PROVE DnatInv'
<1>1. DnatTypeOK /\ pc[t] = "number"
      /\ UNCHANGED <<dstHash, natHash, seqHash, rel, contended, lapped>>
  BY DEF DnatInv, Linked, TakeNumber
<1>2. ticker \in Seq /\ ticker' \in Seq
  BY <1>1, DnatAssumption DEF TakeNumber, NextSeq, DnatTypeOK, Seq
<1>3. pc' \in [Relay -> PC] /\ pc'[t] = "ring" /\ \A u \in Relay : u # t => pc'[u] = pc[u]
  BY <1>1 DEF TakeNumber, Goto, DnatTypeOK, PC
<1>4. [job[t] EXCEPT !.seq = ticker] \in Job
  BY <1>1, <1>2, Typed DEF Job
<1>5. job' \in [Relay -> Job] /\ \A u \in Relay : u # t => job'[u] = job[u]
  BY <1>1, <1>4 DEF TakeNumber, DnatTypeOK
<1>6. Linked'
  BY <1>1, <1>2, <1>3, <1>5 DEF DnatInv, Linked, DnatTypeOK
<1>7. SeqAlone' /\ OldInHand' /\ NewInHand'
  BY <1>1, <1>3, <1>5
     DEF DnatInv, SeqAlone, OldInHand, NewInHand, HasSeq, Evicting, Inserting
<1> QED
  BY <1>6, <1>7 DEF DnatInv

(* The bucket of the number is taken; what hangs there is in hand.         *)
LEMMA LookRingStep == ASSUME DnatInv, NEW t \in Relay, LookRing(t) PROVE DnatInv'
<1> DEFINE q == job[t].seq
           r == seqHash[q]
<1>1. DnatTypeOK /\ pc[t] = "ring" /\ q \in Seq /\ r \in Rel \cup {None}
      /\ UNCHANGED <<dstHash, natHash, seqHash, ticker, rel, contended, lapped>>
  BY Typed DEF DnatInv, Linked, LookRing
<1>2. \A u \in Relay : pc[u] \in HasSeq => job[u].seq # q
  BY DEF LookRing, SeqLocked, HasSeq, Evicting
<1>3. pc' \in [Relay -> PC] /\ pc'[t] = (IF r = None THEN "alloc" ELSE "evictDst")
      /\ \A u \in Relay : u # t => pc'[u] = pc[u]
  BY <1>1 DEF LookRing, Goto, DnatTypeOK, PC
<1>4. [job[t] EXCEPT !.rel = r] \in Job
  BY <1>1, Typed DEF Job
<1>5. job' \in [Relay -> Job] /\ job'[t].seq = q /\ job'[t].rel = r
      /\ \A u \in Relay : u # t => job'[u] = job[u]
  BY <1>1, <1>4, Typed DEF LookRing, DnatTypeOK, Job
<1>6. Linked'
  BY <1>1, <1>3, <1>5 DEF DnatInv, Linked, DnatTypeOK
<1>7. SeqAlone'
  BY <1>2, <1>3, <1>5 DEF DnatInv, SeqAlone, HasSeq, Evicting
<1>8. OldInHand'
  BY <1>1, <1>3, <1>5 DEF DnatInv, OldInHand, Evicting
<1>9. NewInHand'
  BY <1>1, <1>3, <1>5 DEF DnatInv, NewInHand, Inserting
<1> QED
  BY <1>6, <1>7, <1>8, <1>9 DEF DnatInv

LEMMA EvictDstStep == ASSUME DnatInv, NEW t \in Relay, EvictDst(t) PROVE DnatInv'
<1> DEFINE f == rel[job[t].rel].flow
<1>1. DnatTypeOK /\ pc[t] = "evictDst"
      /\ UNCHANGED <<natHash, seqHash, ticker, rel, job, contended, lapped>>
  BY DEF DnatInv, Linked, EvictDst
<1>2. pc' \in [Relay -> PC] /\ pc'[t] = "evictNat" /\ \A u \in Relay : u # t => pc'[u] = pc[u]
  BY <1>1 DEF EvictDst, Goto, DnatTypeOK, PC
<1>3. job[t].rel \in Rel /\ seqHash[job[t].seq] = job[t].rel /\ job[t].seq \in Seq
  BY <1>1, Typed DEF DnatInv, OldInHand, Evicting
<1>4. rel[job[t].rel] # Freed
  BY <1>3, DnatAssumption DEF DnatInv, Linked
<1>5. f \in Flow
  BY <1>1, <1>3, <1>4, Typed
<1>6. dstHash' = [dstHash EXCEPT ![f] = None] /\ dstHash' \in [Flow -> Rel \cup {None}]
  BY <1>1 DEF EvictDst, DnatTypeOK
<1>7. Linked'
  BY <1>1, <1>2, <1>5, <1>6 DEF DnatInv, Linked, DnatTypeOK
<1>8. OldInHand'
  BY <1>1, <1>2, <1>3, <1>5, <1>6 DEF DnatInv, OldInHand, Evicting, DnatTypeOK
<1>9. SeqAlone' /\ NewInHand'
  BY <1>1, <1>2 DEF DnatInv, SeqAlone, NewInHand, HasSeq, Evicting, Inserting
<1> QED
  BY <1>7, <1>8, <1>9 DEF DnatInv

(* The relation that is freed hangs in none of the hashes then, and in no  *)
(* other relay's hand.                                                     *)
LEMMA EvictNatStep == ASSUME DnatInv, NEW t \in Relay, EvictNat(t) PROVE DnatInv'
<1> DEFINE r == job[t].rel
           k == KeyOf(rel[r].flow)
           q == job[t].seq
<1>1. DnatTypeOK /\ pc[t] = "evictNat" /\ UNCHANGED <<dstHash, ticker, contended, lapped>>
  BY DEF DnatInv, Linked, EvictNat
<1>2. /\ r \in Rel /\ q \in Seq /\ seqHash[q] = r
      /\ dstHash[rel[r].flow] = None
  BY <1>1, Typed DEF DnatInv, OldInHand, Evicting
<1>3. rel[r] # Freed /\ rel[r].seq = q /\ r # None
  BY <1>2, DnatAssumption DEF DnatInv, Linked
<1>4. k \in NatKey
  BY <1>1, <1>2, <1>3, Typed
<1>5. /\ natHash' = [natHash EXCEPT ![k] = None] /\ natHash' \in [NatKey -> Rel \cup {None}]
      /\ seqHash' = [seqHash EXCEPT ![q] = None] /\ seqHash' \in [Seq -> Rel \cup {None}]
      /\ rel' = [rel EXCEPT ![r] = Freed] /\ rel' \in [Rel -> Relation \cup {Freed}]
  BY <1>1 DEF EvictNat, DnatTypeOK
<1>6. pc' \in [Relay -> PC] /\ pc'[t] = "alloc" /\ \A u \in Relay : u # t => pc'[u] = pc[u]
  BY <1>1 DEF EvictNat, Goto, DnatTypeOK, PC
<1>7. [job[t] EXCEPT !.rel = None] \in Job
  BY <1>1, Typed DEF Job
<1>8. job' \in [Relay -> Job] /\ \A u \in Relay : u # t => job'[u] = job[u]
  BY <1>1, <1>7 DEF EvictNat, DnatTypeOK
<1>9. /\ \A f \in Flow : dstHash[f] # r
      /\ \A l \in NatKey : natHash[l] = r => l = k
      /\ \A p \in Seq : seqHash[p] = r => p = q
  BY <1>2, <1>3 DEF DnatInv, Linked
<1>10. \A m \in Rel : m # r => rel'[m] = rel[m]
  BY <1>1, <1>5 DEF DnatTypeOK
<1>11. DnatTypeOK'
  BY <1>1, <1>5, <1>6, <1>8 DEF DnatTypeOK
<1>12. Linked'
  <2>1. \A f \in Flow : dstHash'[f] # None =>
          rel'[dstHash'[f]] # Freed /\ rel'[dstHash'[f]].flow = f
    BY <1>1, <1>9, <1>10, Typed DEF DnatInv, Linked
  <2>2. \A l \in NatKey : natHash'[l] # None =>
          rel'[natHash'[l]] # Freed /\ KeyOf(rel'[natHash'[l]].flow) = l
    <3>1. \A l \in NatKey : natHash'[l] = IF l = k THEN None ELSE natHash[l]
      BY <1>1, <1>5 DEF DnatTypeOK
    <3> QED
      BY <1>1, <1>9, <1>10, <3>1, Typed DEF DnatInv, Linked
  <2>3. \A p \in Seq : seqHash'[p] # None =>
          rel'[seqHash'[p]] # Freed /\ rel'[seqHash'[p]].seq = p
    <3>1. \A p \in Seq : seqHash'[p] = IF p = q THEN None ELSE seqHash[p]
      BY <1>1, <1>5 DEF DnatTypeOK
    <3> QED
      BY <1>1, <1>9, <1>10, <3>1, Typed DEF DnatInv, Linked
  <2> QED
    BY <1>11, <2>1, <2>2, <2>3 DEF Linked
<1>13. SeqAlone'
  BY <1>6, <1>8 DEF DnatInv, SeqAlone, HasSeq, Evicting
<1>14. OldInHand'
  <2>1. ASSUME NEW u \in Relay, u # t, pc[u] \in Evicting
        PROVE  job[u].seq # q /\ job[u].seq \in Seq /\ job[u].rel \in Rel
                 /\ seqHash[job[u].seq] = job[u].rel /\ job[u].rel # r
    <3>1. job[u].seq # q
      BY <1>1, <2>1 DEF DnatInv, SeqAlone, HasSeq, Evicting
    <3> QED
      BY <1>1, <1>9, <2>1, <3>1, Typed DEF DnatInv, OldInHand
  <2> QED
    BY <1>1, <1>5, <1>6, <1>8, <1>10, <2>1 DEF DnatInv, OldInHand, Evicting, DnatTypeOK
<1>15. NewInHand'
  <2>1. ASSUME NEW u \in Relay, u # t, pc[u] \in Inserting
        PROVE  job[u].rel \in Rel /\ job[u].rel # r
    <3>1. job[u].rel \in Rel /\ rel[job[u].rel].seq = job[u].seq
      <4>1. job[u].rel \in Rel /\ rel[job[u].rel] = [flow |-> job[u].flow, seq |-> job[u].seq]
        BY <2>1 DEF DnatInv, NewInHand
      <4> QED
        BY <4>1
    <3>2. CASE pc[u] = "insertSeq"
      BY <1>2, <3>1, <3>2 DEF DnatInv, NewInHand
    <3>3. CASE pc[u] \in HasSeq
      BY <1>1, <1>3, <2>1, <3>1, <3>3 DEF DnatInv, SeqAlone, HasSeq, Evicting
    <3> QED
      BY <2>1, <3>1, <3>2, <3>3 DEF Inserting, HasSeq
  <2>2. \A u \in Relay : pc'[u] \in Inserting => u # t
    BY <1>6 DEF Inserting
  <2>3. \A u \in Relay : pc'[u] \in Inserting =>
          pc[u] = pc'[u] /\ job'[u] = job[u] /\ rel'[job[u].rel] = rel[job[u].rel]
    BY <1>6, <1>8, <1>10, <2>1, <2>2
  <2>4. \A u \in Relay : pc'[u] = "insertSeq" => \A p \in Seq : seqHash'[p] # job'[u].rel
    <3>1. \A p \in Seq : seqHash'[p] = IF p = q THEN None ELSE seqHash[p]
      BY <1>1, <1>5 DEF DnatTypeOK
    <3> QED
      BY <2>1, <2>3, <2>2, <3>1, DnatAssumption DEF DnatInv, NewInHand, Inserting
  <2> QED
    BY <2>3, <2>4 DEF DnatInv, NewInHand, Inserting
<1> QED
  BY <1>12, <1>13, <1>14, <1>15 DEF DnatInv

(* The relation that is made was free, so it hangs nowhere and is in no    *)
(* other relay's hand.                                                     *)
LEMMA AllocStep == ASSUME DnatInv, NEW t \in Relay, Alloc(t) PROVE DnatInv'
<1>1. DnatTypeOK /\ pc[t] = "alloc"
      /\ UNCHANGED <<dstHash, natHash, seqHash, ticker, contended, lapped>>
  BY DEF DnatInv, Linked, Alloc
<1>2. CASE job' = [job EXCEPT ![t] = Idle] /\ Goto(t, "idle") /\ UNCHANGED rel
  <2>1. pc' \in [Relay -> PC] /\ pc'[t] = "idle" /\ \A u \in Relay : u # t => pc'[u] = pc[u]
    BY <1>1, <1>2 DEF Goto, DnatTypeOK, PC
  <2>2. job' \in [Relay -> Job] /\ \A u \in Relay : u # t => job'[u] = job[u]
    BY <1>1, <1>2, IdleIsJob DEF DnatTypeOK
  <2>3. Linked'
    BY <1>1, <1>2, <2>1, <2>2 DEF DnatInv, Linked, DnatTypeOK
  <2>4. SeqAlone' /\ OldInHand' /\ NewInHand'
    BY <1>1, <1>2, <2>1, <2>2
       DEF DnatInv, SeqAlone, OldInHand, NewInHand, HasSeq, Evicting, Inserting
  <2> QED
    BY <2>3, <2>4 DEF DnatInv
<1>3. CASE \E m \in Rel : rel[m] = Freed
  <2> DEFINE r == CHOOSE m \in Rel : rel[m] = Freed
             new == [flow |-> job[t].flow, seq |-> job[t].seq]
  <2>1. /\ r \in Rel /\ rel[r] = Freed
        /\ rel' = [rel EXCEPT ![r] = new] /\ job' = [job EXCEPT ![t].rel = r]
        /\ Goto(t, "insertSeq")
    BY <1>3 DEF Alloc
  <2>2. new \in Relation /\ new # Freed
    BY <1>1, Typed DEF Relation
  <2>3. pc' \in [Relay -> PC] /\ pc'[t] = "insertSeq" /\ \A u \in Relay : u # t => pc'[u] = pc[u]
    BY <1>1, <2>1 DEF Goto, DnatTypeOK, PC
  <2>4. [job[t] EXCEPT !.rel = r] \in Job
    BY <1>1, <2>1, Typed DEF Job
  <2>5. /\ job' \in [Relay -> Job] /\ \A u \in Relay : u # t => job'[u] = job[u]
        /\ job'[t].rel = r /\ job'[t].flow = job[t].flow /\ job'[t].seq = job[t].seq
    BY <1>1, <2>1, <2>4, Typed DEF DnatTypeOK, Job
  <2>6. /\ rel' \in [Rel -> Relation \cup {Freed}]
        /\ rel'[r] = new /\ \A m \in Rel : m # r => rel'[m] = rel[m]
    BY <1>1, <2>1, <2>2 DEF DnatTypeOK
  <2>7. /\ \A f \in Flow : dstHash[f] # None => dstHash[f] # r
        /\ \A l \in NatKey : natHash[l] # None => natHash[l] # r
        /\ \A p \in Seq : seqHash[p] # r
    BY <2>1, DnatAssumption DEF DnatInv, Linked
  <2>8. DnatTypeOK'
    BY <1>1, <2>3, <2>5, <2>6 DEF DnatTypeOK
  <2>9. Linked'
    <3>1. \A f \in Flow : dstHash'[f] # None =>
            rel'[dstHash'[f]] # Freed /\ rel'[dstHash'[f]].flow = f
      BY <1>1, <2>6, <2>7, Typed DEF DnatInv, Linked
    <3>2. \A l \in NatKey : natHash'[l] # None =>
            rel'[natHash'[l]] # Freed /\ KeyOf(rel'[natHash'[l]].flow) = l
      BY <1>1, <2>6, <2>7, Typed DEF DnatInv, Linked
    <3>3. \A p \in Seq : seqHash'[p] # None =>
            rel'[seqHash'[p]] # Freed /\ rel'[seqHash'[p]].seq = p
      BY <1>1, <2>6, <2>7, Typed DEF DnatInv, Linked
    <3> QED
      BY <2>8, <3>1, <3>2, <3>3 DEF Linked
  <2>10. SeqAlone'
    BY <2>3, <2>5 DEF DnatInv, SeqAlone, HasSeq, Evicting
  <2>11. ASSUME NEW u \in Relay, u # t, pc[u] \in Evicting \cup Inserting
         PROVE  job[u].rel \in Rel /\ job[u].rel # r
    <3>1. CASE pc[u] \in Evicting
      BY <1>1, <2>7, <3>1, Typed DEF DnatInv, OldInHand
    <3>2. CASE pc[u] \in Inserting
      <4>1. job[u].rel \in Rel /\ rel[job[u].rel] = [flow |-> job[u].flow, seq |-> job[u].seq]
        BY <3>2 DEF DnatInv, NewInHand
      <4>2. [flow |-> job[u].flow, seq |-> job[u].seq] \in Relation
        BY <1>1, Typed DEF Relation
      <4> QED
        BY <1>1, <2>1, <4>1, <4>2, Typed
    <3> QED
      BY <2>11, <3>1, <3>2
  <2>12. OldInHand'
    BY <1>1, <2>3, <2>5, <2>6, <2>11 DEF DnatInv, OldInHand, Evicting
  <2>13. NewInHand'
    BY <1>1, <2>1, <2>3, <2>5, <2>6, <2>7, <2>11 DEF DnatInv, NewInHand, Inserting
  <2> QED
    BY <2>9, <2>10, <2>12, <2>13 DEF DnatInv
<1> QED
  BY <1>2, <1>3 DEF Alloc

LEMMA InsertSeqStep == ASSUME DnatInv, NEW t \in Relay, InsertSeq(t) PROVE DnatInv'
<1> DEFINE q == job[t].seq
           r == job[t].rel
<1>1. DnatTypeOK /\ pc[t] = "insertSeq" /\ UNCHANGED <<dstHash, natHash, ticker, rel, job, contended>>
  BY DEF DnatInv, Linked, InsertSeq
<1>2. \A u \in Relay : pc[u] \in HasSeq => job[u].seq # q
  BY DEF InsertSeq, SeqLocked, HasSeq, Evicting
<1>3. /\ q \in Seq /\ r \in Rel /\ rel[r] = [flow |-> job[t].flow, seq |-> q]
      /\ [flow |-> job[t].flow, seq |-> q] \in Relation
  BY <1>1, Typed DEF DnatInv, NewInHand, Inserting, Relation
<1>4. pc' \in [Relay -> PC] /\ pc'[t] = "insertDst" /\ \A u \in Relay : u # t => pc'[u] = pc[u]
  BY <1>1 DEF InsertSeq, Goto, DnatTypeOK, PC
<1>5. seqHash' \in [Seq -> Rel \cup {None}]
      /\ \A p \in Seq : seqHash'[p] = IF p = q THEN r ELSE seqHash[p]
  BY <1>1, <1>3 DEF InsertSeq, DnatTypeOK
<1>6. lapped' \subseteq Rel
  BY <1>1, <1>3 DEF InsertSeq, DnatTypeOK
<1>7. Linked'
  BY <1>1, <1>3, <1>4, <1>5, <1>6, Typed DEF DnatInv, Linked, DnatTypeOK
<1>8. SeqAlone'
  BY <1>1, <1>2, <1>4 DEF DnatInv, SeqAlone, HasSeq, Evicting
<1>9. OldInHand'
  BY <1>1, <1>2, <1>4, <1>5, Typed DEF DnatInv, OldInHand, HasSeq, Evicting
<1>10. NewInHand'
  BY <1>1, <1>4, <1>5 DEF DnatInv, NewInHand, Inserting
<1> QED
  BY <1>7, <1>8, <1>9, <1>10 DEF DnatInv

LEMMA InsertDstStep == ASSUME DnatInv, NEW t \in Relay, InsertDst(t) PROVE DnatInv'
<1> DEFINE f == job[t].flow
<1>1. DnatTypeOK /\ pc[t] = "insertDst"
      /\ UNCHANGED <<natHash, seqHash, ticker, rel, job, contended, lapped>>
  BY DEF DnatInv, Linked, InsertDst
<1>2. /\ f \in Flow /\ job[t].rel \in Rel /\ rel[job[t].rel].flow = f
      /\ rel[job[t].rel] # Freed
  <2>1. job[t].rel \in Rel /\ rel[job[t].rel] = [flow |-> f, seq |-> job[t].seq]
    BY <1>1 DEF DnatInv, NewInHand, Inserting
  <2>2. [flow |-> f, seq |-> job[t].seq] \in Relation
    BY <1>1, Typed DEF Relation
  <2> QED
    BY <1>1, <2>1, <2>2, Typed
<1>3. \A u \in Relay : pc[u] = "evictNat" => rel[job[u].rel].flow # f
  BY DEF InsertDst, DstLocked
<1>4. pc' \in [Relay -> PC] /\ pc'[t] = "insertNat" /\ \A u \in Relay : u # t => pc'[u] = pc[u]
  BY <1>1 DEF InsertDst, Goto, DnatTypeOK, PC
<1>5. dstHash' = [dstHash EXCEPT ![f] = job[t].rel] /\ dstHash' \in [Flow -> Rel \cup {None}]
  BY <1>1, <1>2 DEF InsertDst, DnatTypeOK
<1>6. Linked'
  BY <1>1, <1>2, <1>4, <1>5 DEF DnatInv, Linked, DnatTypeOK
<1>7. OldInHand'
  BY <1>1, <1>3, <1>4, <1>5 DEF DnatInv, OldInHand, Evicting, DnatTypeOK
<1>8. SeqAlone' /\ NewInHand'
  BY <1>1, <1>4 DEF DnatInv, SeqAlone, NewInHand, HasSeq, Evicting, Inserting
<1> QED
  BY <1>6, <1>7, <1>8 DEF DnatInv

LEMMA InsertNatStep == ASSUME DnatInv, NEW t \in Relay, InsertNat(t) PROVE DnatInv'
<1> DEFINE k == KeyOf(job[t].flow)
<1>1. DnatTypeOK /\ pc[t] = "insertNat" /\ UNCHANGED <<dstHash, seqHash, ticker, rel, lapped>>
  BY DEF DnatInv, Linked, InsertNat
<1>2. /\ k \in NatKey /\ job[t].rel \in Rel /\ rel[job[t].rel].flow = job[t].flow
      /\ rel[job[t].rel] # Freed
  <2>1. job[t].rel \in Rel /\ rel[job[t].rel] = [flow |-> job[t].flow, seq |-> job[t].seq]
    BY <1>1 DEF DnatInv, NewInHand, Inserting
  <2>2. [flow |-> job[t].flow, seq |-> job[t].seq] \in Relation
    BY <1>1, Typed DEF Relation
  <2> QED
    BY <1>1, <2>1, <2>2, Typed
<1>3. pc' \in [Relay -> PC] /\ pc'[t] = "idle" /\ \A u \in Relay : u # t => pc'[u] = pc[u]
  BY <1>1 DEF InsertNat, Goto, DnatTypeOK, PC
<1>4. job' \in [Relay -> Job] /\ \A u \in Relay : u # t => job'[u] = job[u]
  BY <1>1, IdleIsJob DEF InsertNat, DnatTypeOK
<1>5. /\ natHash' = [natHash EXCEPT ![k] = job[t].rel] /\ natHash' \in [NatKey -> Rel \cup {None}]
      /\ contended' \subseteq NatKey
  BY <1>1, <1>2 DEF InsertNat, DnatTypeOK
<1>6. Linked'
  BY <1>1, <1>2, <1>3, <1>4, <1>5 DEF DnatInv, Linked, DnatTypeOK
<1>7. SeqAlone' /\ OldInHand' /\ NewInHand'
  BY <1>1, <1>3, <1>4
     DEF DnatInv, SeqAlone, OldInHand, NewInHand, HasSeq, Evicting, Inserting
<1> QED
  BY <1>6, <1>7 DEF DnatInv

LEMMA InvStep == DnatInv /\ [DnatNext]_dnat => DnatInv'
<1> SUFFICES ASSUME DnatInv, [DnatNext]_dnat PROVE DnatInv'
  OBVIOUS
<1>1. CASE UNCHANGED dnat
  BY <1>1 DEF dnat, DnatInv, Linked, DnatTypeOK, SeqAlone, OldInHand, NewInHand
<1>2. ASSUME NEW t \in Relay, DoStep(t) PROVE DnatInv'
  BY <1>2, TakeNumberStep, LookRingStep, EvictDstStep, EvictNatStep, AllocStep,
     InsertSeqStep, InsertDstStep, InsertNatStep DEF DoStep
<1>3. ASSUME NEW t \in Relay, NEW f \in Flow, Lookup(t, f) PROVE DnatInv'
  BY <1>3, LookupStep
<1> QED
  BY <1>1, <1>2, <1>3 DEF DnatNext

(* DnatInv always holds.                                                   *)
THEOREM DnatInvariant == DnatSpec => []DnatInv
<1>1. DnatInit => DnatInv
  BY InvInit
<1>2. DnatInv /\ [DnatNext]_dnat => DnatInv'
  BY InvStep
<1> QED
  BY <1>1, <1>2, PTL DEF DnatSpec

(* No hash leads to memory that was freed, or to the relation of another   *)
(* key, whatever relays evict and insert at the same time.                 *)
THEOREM AlwaysLinked == DnatSpec => []Linked
<1>1. DnatInv => Linked
  BY DEF DnatInv
<1> QED
  BY <1>1, DnatInvariant, PTL
-----------------------------------------------------------------------------
(* What a relay does to what it has in hand; the others keep theirs.  Only *)
(* Alloc puts a relation into a hand, and only a new one.                  *)
InHandOf(t, r) == pc[t] \in Inserting /\ job[t].rel = r

LEMMA Hands ==
  ASSUME DnatInv, NEW t \in Relay, DoStep(t) \/ \E f \in Flow : Lookup(t, f)
  PROVE  /\ \A u \in Relay : u # t => pc'[u] = pc[u] /\ job'[u] = job[u]
         /\ pc'[t] \in Inserting =>
              \/ pc[t] = "alloc" /\ rel[job'[t].rel] = Freed /\ job'[t].rel \in Rel
              \/ pc[t] \in Inserting /\ job'[t] = job[t]
         /\ pc[t] \in Inserting =>
              \/ pc'[t] \in Inserting /\ job'[t] = job[t]
              \/ InsertNat(t) /\ pc'[t] = "idle"
<1>1. pc \in [Relay -> PC] /\ job \in [Relay -> Job] /\ job[t] \in Job
  BY DEF DnatInv, Linked, DnatTypeOK
<1>2. CASE \E f \in Flow : Lookup(t, f)
  BY <1>1, <1>2 DEF Lookup, Goto, Inserting
<1>3. CASE TakeNumber(t) \/ LookRing(t) \/ EvictDst(t) \/ EvictNat(t)
  BY <1>1, <1>3 DEF TakeNumber, LookRing, EvictDst, EvictNat, Goto, Inserting
<1>4. CASE Alloc(t)
  <2>1. CASE job' = [job EXCEPT ![t] = Idle] /\ Goto(t, "idle")
    BY <1>1, <1>4, <2>1 DEF Alloc, Goto, Inserting
  <2>2. CASE \E m \in Rel : rel[m] = Freed
    <3>1. PICK r \in Rel : /\ rel[r] = Freed /\ job' = [job EXCEPT ![t].rel = r]
                          /\ Goto(t, "insertSeq") /\ pc[t] = "alloc"
      BY <1>4, <2>2 DEF Alloc
    <3>2. job'[t].rel = r /\ pc'[t] = "insertSeq"
      BY <1>1, <3>1 DEF Goto, Job
    <3> QED
      BY <1>1, <3>1, <3>2 DEF Goto, Inserting
  <2> QED
    BY <1>4, <2>1, <2>2 DEF Alloc
<1>5. CASE InsertSeq(t) \/ InsertDst(t) \/ InsertNat(t)
  BY <1>1, <1>5 DEF InsertSeq, InsertDst, InsertNat, Goto, Inserting
<1> QED
  BY <1>2, <1>3, <1>4, <1>5 DEF DoStep

(* What becomes of a relation: one that is not freed stays what it is, and *)
(* one that is new is in the hand of the relay that makes it.              *)
LEMMA Relations ==
  ASSUME DnatInv, NEW t \in Relay, DoStep(t) \/ \E f \in Flow : Lookup(t, f)
  PROVE  \A r \in Rel : rel'[r] # Freed =>
           \/ rel'[r] = rel[r]
           \/ rel[r] = Freed /\ pc'[t] = "insertSeq" /\ job'[t].rel = r
<1>1. /\ rel \in [Rel -> Relation \cup {Freed}] /\ pc \in [Relay -> PC]
      /\ job \in [Relay -> Job] /\ job[t] \in Job
  BY DEF DnatInv, Linked, DnatTypeOK
<1>2. CASE EvictNat(t)
  BY <1>1, <1>2 DEF EvictNat
<1>3. CASE Alloc(t)
  <2>1. CASE UNCHANGED rel
    BY <2>1
  <2>2. CASE \E m \in Rel : rel[m] = Freed
    <3>1. PICK r \in Rel : /\ rel[r] = Freed /\ job' = [job EXCEPT ![t].rel = r]
                          /\ rel' = [rel EXCEPT ![r] = [flow |-> job[t].flow, seq |-> job[t].seq]]
                          /\ Goto(t, "insertSeq")
      BY <1>3, <2>2 DEF Alloc
    <3>2. job'[t].rel = r /\ pc'[t] = "insertSeq"
      BY <1>1, <3>1 DEF Goto, Job
    <3> QED
      BY <1>1, <3>1, <3>2
  <2> QED
    BY <1>3, <2>1, <2>2 DEF Alloc
<1>4. CASE ~EvictNat(t) /\ ~Alloc(t)
  BY <1>4 DEF DoStep, TakeNumber, LookRing, EvictDst, InsertSeq, InsertDst, InsertNat, Lookup
<1> QED
  BY <1>2, <1>3, <1>4
-----------------------------------------------------------------------------
(* RingHolds is inductive with DnatInv: InsertSeq notes whom it replaces,  *)
(* and what EvictNat takes out of the ring it frees.                       *)
LEMMA RingStep ==
  ASSUME DnatInv, RingHolds, NEW t \in Relay, DoStep(t) \/ \E f \in Flow : Lookup(t, f)
  PROVE  RingHolds'
<1> SUFFICES ASSUME NEW r \in Rel, r \notin lapped', rel'[r] # Freed
             PROVE  \/ seqHash'[rel'[r].seq] = r
                    \/ \E u \in Relay : job'[u].rel = r /\ pc'[u] = "insertSeq"
  BY DEF RingHolds
<1>1. /\ DnatTypeOK
      /\ \A u \in Relay : u # t => pc'[u] = pc[u] /\ job'[u] = job[u]
  BY Hands DEF DnatInv, Linked
<1>2. CASE rel'[r] # rel[r]
  BY <1>2, Relations
<1>3. CASE rel'[r] = rel[r]
  <2>1. rel[r].seq \in Seq /\ rel[r] # Freed
    BY <1>1, <1>3, Typed
  <2>2. r \notin lapped
    BY DEF DoStep, TakeNumber, LookRing, EvictDst, EvictNat, Alloc, InsertSeq, InsertDst, InsertNat,
           Lookup
  <2>3. CASE InsertSeq(t)
    <3>1. /\ job[t].seq \in Seq /\ UNCHANGED job
          /\ seqHash' = [seqHash EXCEPT ![job[t].seq] = job[t].rel]
          /\ seqHash[job[t].seq] = r => r \in lapped' \/ r = None
      BY <1>1, <2>3, Typed DEF InsertSeq
    <3>2. r # None
      BY DnatAssumption
    <3>3. CASE seqHash[rel[r].seq] = r
      BY <1>1, <1>3, <2>1, <3>1, <3>2, <3>3 DEF DnatTypeOK
    <3>4. CASE \E u \in Relay : job[u].rel = r /\ pc[u] = "insertSeq"
      <4>1. PICK u \in Relay : job[u].rel = r /\ pc[u] = "insertSeq"
        BY <3>4
      <4>2. CASE u = t
        <5>1. rel[r] = [flow |-> job[t].flow, seq |-> job[t].seq]
          BY <4>1, <4>2 DEF DnatInv, NewInHand, Inserting
        <5>2. rel[r].seq = job[t].seq
          BY <5>1
        <5> QED
          BY <1>1, <1>3, <3>1, <4>1, <4>2, <5>2 DEF DnatTypeOK
      <4> QED
        BY <1>1, <4>1, <4>2
    <3> QED
      BY <2>1, <2>2, <3>3, <3>4 DEF RingHolds
  <2>4. CASE EvictNat(t)
    <3>1. /\ job[t].rel \in Rel /\ job[t].seq \in Seq /\ seqHash[job[t].seq] = job[t].rel
          /\ pc[t] = "evictNat" /\ rel' = [rel EXCEPT ![job[t].rel] = Freed]
          /\ seqHash' = [seqHash EXCEPT ![job[t].seq] = None]
      BY <1>1, <2>4, Typed DEF EvictNat, DnatInv, OldInHand, Evicting
    <3>2. r # job[t].rel
      BY <1>1, <3>1 DEF DnatTypeOK
    <3>3. CASE seqHash[rel[r].seq] = r
      BY <1>1, <1>3, <2>1, <3>1, <3>2, <3>3 DEF DnatTypeOK
    <3>4. CASE \E u \in Relay : job[u].rel = r /\ pc[u] = "insertSeq"
      BY <1>1, <3>1, <3>4
    <3> QED
      BY <2>1, <2>2, <3>3, <3>4 DEF RingHolds
  <2>5. CASE ~InsertSeq(t) /\ ~EvictNat(t)
    <3>1. UNCHANGED seqHash
      BY <2>5 DEF DoStep, TakeNumber, LookRing, EvictDst, Alloc, InsertDst, InsertNat, Lookup
    <3>2. pc[t] # "insertSeq"
      BY <2>5 DEF DoStep, TakeNumber, LookRing, EvictDst, Alloc, InsertDst, InsertNat, Lookup
    <3>3. seqHash[rel[r].seq] = r \/ \E u \in Relay : job[u].rel = r /\ pc[u] = "insertSeq"
      BY <2>1, <2>2 DEF RingHolds
    <3> QED
      BY <1>1, <1>3, <3>1, <3>2, <3>3
  <2> QED
    BY <2>3, <2>4, <2>5
<1> QED
  BY <1>2, <1>3

(* However relays with one number overtake each other, a relation that no  *)
(* relay works on is in the ring, but for those replaced in it: nothing    *)
(* else of the memory is lost to eviction.                                 *)
THEOREM RingBounds == DnatSpec => []RingHolds
<1>1. DnatInit => RingHolds
  BY DEF DnatInit, RingHolds
<1>2. DnatInv /\ RingHolds /\ [DnatNext]_dnat => RingHolds'
  <2>1. CASE UNCHANGED dnat
    BY <2>1 DEF dnat, RingHolds
  <2> QED
    BY <2>1, RingStep DEF DnatNext
<1> QED
  BY <1>1, <1>2, DnatInvariant, PTL DEF DnatSpec
-----------------------------------------------------------------------------
(* The inductive invariant of ComesBack, by relation and not by flow: two  *)
(* relations may have one flow, and one key, and evicting the first takes  *)
(* the second's way back.  Under a key that was never contended the hash   *)
(* has the one relation that is made, so eviction by key takes no other's. *)

MadeAlone ==
  \A t, u \in Relay, r \in Rel : InHandOf(t, r) /\ InHandOf(u, r) => t = u

(* A relation is not found by its flow before it is about to get its key.  *)
NotYet ==
  \A t \in Relay : pc[t] \in {"insertSeq", "insertDst"} =>
    \A f \in Flow : dstHash[f] # job[t].rel

NatHolds ==
  \A r \in Rel :
    /\ rel[r] # Freed /\ KeyOf(rel[r].flow) \notin contended
    /\ \A t \in Relay : ~InHandOf(t, r)
    => natHash[KeyOf(rel[r].flow)] = r

BackInv == DnatInv /\ MadeAlone /\ NotYet /\ NatHolds

(* A relation in a hand that inserts is in use, with the number and the    *)
(* flow of the hand.                                                       *)
LEMMA Made ==
  ASSUME DnatInv, NEW t \in Relay, pc[t] \in Inserting
  PROVE  /\ job[t].rel \in Rel /\ rel[job[t].rel] # Freed
         /\ rel[job[t].rel].flow = job[t].flow /\ rel[job[t].rel].seq = job[t].seq
<1>1. job[t].rel \in Rel /\ rel[job[t].rel] = [flow |-> job[t].flow, seq |-> job[t].seq]
  BY DEF DnatInv, NewInHand
<1>2. [flow |-> job[t].flow, seq |-> job[t].seq] \in Relation /\ \A r \in Relation : r # Freed
  BY Typed DEF DnatInv, Linked, Relation
<1> QED
  BY <1>1, <1>2

LEMMA AloneStep ==
  ASSUME BackInv, NEW t \in Relay, DoStep(t) \/ \E f \in Flow : Lookup(t, f)
  PROVE  MadeAlone'
<1> SUFFICES ASSUME NEW u \in Relay, NEW v \in Relay, NEW r \in Rel,
                    InHandOf(u, r)', InHandOf(v, r)', u # v
             PROVE  FALSE
  BY DEF MadeAlone
<1>1. ASSUME NEW w \in Relay, pc'[w] \in Inserting
      PROVE  \/ pc[w] \in Inserting /\ job'[w] = job[w]
             \/ w = t /\ rel[job'[w].rel] = Freed
  BY <1>1, Hands DEF BackInv
<1>2. CASE InHandOf(u, r) /\ InHandOf(v, r)
  BY <1>2 DEF BackInv, MadeAlone
<1>3. CASE ~(InHandOf(u, r) /\ InHandOf(v, r))
  <2>1. PICK w \in {u, v} : rel[r] = Freed /\ w = t
    BY <1>1, <1>3 DEF InHandOf
  <2>2. PICK x \in {u, v} : InHandOf(x, r)
    BY <1>1, <2>1 DEF InHandOf
  <2> QED
    BY <2>1, <2>2, Made DEF InHandOf, BackInv
<1> QED
  BY <1>2, <1>3

LEMMA NotYetStep ==
  ASSUME BackInv, NEW t \in Relay, DoStep(t) \/ \E f \in Flow : Lookup(t, f)
  PROVE  NotYet'
<1> SUFFICES ASSUME NEW u \in Relay, pc'[u] \in {"insertSeq", "insertDst"}, NEW f \in Flow,
                    dstHash'[f] = job'[u].rel
             PROVE  FALSE
  BY DEF NotYet
<1>1. DnatTypeOK
  BY DEF BackInv, DnatInv, Linked
<1>2. dstHash[f] # None => rel[dstHash[f]] # Freed
  BY DEF BackInv, DnatInv, Linked
<1>3. pc'[u] \in Inserting /\ pc'[u] # "insertNat"
  BY DEF Inserting
<1>4. \/ u = t /\ pc[u] = "alloc" /\ rel[job'[u].rel] = Freed /\ job'[u].rel \in Rel
      \/ pc[u] \in Inserting /\ job'[u] = job[u]
  BY <1>3, Hands DEF BackInv
<1>5. CASE u = t /\ pc[u] = "alloc" /\ rel[job'[u].rel] = Freed /\ job'[u].rel \in Rel
  <2>1. UNCHANGED dstHash
    BY <1>5 DEF DoStep, TakeNumber, LookRing, EvictDst, EvictNat, Alloc, InsertSeq, InsertDst,
               InsertNat, Lookup
  <2> QED
    BY <1>2, <1>5, <2>1, DnatAssumption
<1>6. CASE pc[u] \in Inserting /\ job'[u] = job[u]
  <2>1. job[u].rel \in Rel /\ job[u].rel # None
    BY <1>6, Made, DnatAssumption DEF BackInv
  <2>2. pc[u] \in {"insertSeq", "insertDst"}
    <3>1. CASE u = t
      BY <1>1, <1>3, <1>6, <3>1 DEF DoStep, TakeNumber, LookRing, EvictDst, EvictNat, Alloc,
         InsertSeq, InsertDst, InsertNat, Lookup, Goto, Inserting, DnatTypeOK
    <3>2. CASE u # t
      BY <3>2, Hands DEF BackInv
    <3> QED
      BY <3>1, <3>2
  <2>3. CASE InsertDst(t)
    <3>1. pc[t] = "insertDst" /\ pc[t] \in Inserting
          /\ (dstHash'[f] = dstHash[f] \/ dstHash'[f] = job[t].rel)
      BY <1>1, <2>3 DEF InsertDst, DnatTypeOK, Inserting
    <3>2. dstHash[f] # job[u].rel
      BY <2>2 DEF BackInv, NotYet
    <3>3. InHandOf(t, job[u].rel) /\ InHandOf(u, job[u].rel)
      BY <1>6, <3>1, <3>2 DEF InHandOf
    <3>4. u = t
      BY <2>1, <3>3 DEF BackInv, MadeAlone
    <3> QED
      BY <1>1, <1>3, <2>3, <3>4 DEF InsertDst, Goto, DnatTypeOK
  <2>4. CASE ~InsertDst(t)
    <3>1. dstHash'[f] = dstHash[f] \/ dstHash'[f] = None
      BY <1>1, <2>4 DEF DoStep, TakeNumber, LookRing, EvictDst, EvictNat, Alloc, InsertSeq,
         InsertNat, Lookup, DnatTypeOK
    <3> QED
      BY <1>6, <2>1, <2>2, <3>1 DEF BackInv, NotYet
  <2> QED
    BY <2>3, <2>4
<1> QED
  BY <1>4, <1>5, <1>6

(* The relation that is evicted is in no hand that inserts: its bucket of  *)
(* the ring is kept.                                                       *)
LEMMA OldNotMade ==
  ASSUME DnatInv, NEW t \in Relay, pc[t] = "evictNat"
  PROVE  /\ job[t].rel \in Rel /\ rel[job[t].rel] # Freed
         /\ \A u \in Relay : ~InHandOf(u, job[t].rel)
<1>1. /\ job[t].rel \in Rel /\ job[t].seq \in Seq /\ seqHash[job[t].seq] = job[t].rel
      /\ rel[job[t].rel] # Freed /\ rel[job[t].rel].seq = job[t].seq
  <2>1. job[t].rel \in Rel /\ job[t].seq \in Seq /\ seqHash[job[t].seq] = job[t].rel
    BY Typed DEF DnatInv, Linked, OldInHand, Evicting
  <2> QED
    BY <2>1, DnatAssumption DEF DnatInv, Linked
<1>2. ASSUME NEW u \in Relay, InHandOf(u, job[t].rel) PROVE FALSE
  <2>1. pc[u] \in Inserting /\ job[u].rel = job[t].rel /\ job[u].seq = job[t].seq
    BY <1>1, <1>2, Made DEF InHandOf
  <2>2. pc[u] # "insertSeq"
    BY <1>1, <2>1 DEF DnatInv, NewInHand
  <2>3. u = t
    BY <2>1, <2>2 DEF DnatInv, SeqAlone, HasSeq, Evicting, Inserting
  <2> QED
    BY <2>1, <2>3 DEF Inserting
<1> QED
  BY <1>1, <1>2

LEMMA NatHoldsStep ==
  ASSUME BackInv, NEW t \in Relay, DoStep(t) \/ \E f \in Flow : Lookup(t, f)
  PROVE  NatHolds'
<1> SUFFICES ASSUME NEW r \in Rel, rel'[r] # Freed, KeyOf(rel'[r].flow) \notin contended',
                    \A u \in Relay : ~InHandOf(u, r)'
             PROVE  natHash'[KeyOf(rel'[r].flow)] = r
  BY DEF NatHolds
<1> DEFINE k == KeyOf(rel[r].flow)
<1>1. DnatTypeOK /\ DnatInv
  BY DEF BackInv, DnatInv, Linked
<1>2. rel'[r] = rel[r] /\ rel[r] # Freed
  <2>1. \/ rel'[r] = rel[r]
        \/ pc'[t] = "insertSeq" /\ job'[t].rel = r
    BY <1>1, Relations
  <2> QED
    BY <2>1 DEF InHandOf, Inserting
<1>3. k \in NatKey /\ k \notin contended'
  BY <1>1, <1>2, Typed
<1>4. CASE InsertNat(t) /\ job[t].rel = r
  <2>1. rel[r].flow = job[t].flow
    BY <1>1, <1>4, Made DEF InsertNat, Inserting
  <2> QED
    BY <1>1, <1>2, <1>3, <1>4, <2>1 DEF InsertNat, DnatTypeOK
<1>5. CASE ~(InsertNat(t) /\ job[t].rel = r)
  <2>1. \A u \in Relay : ~InHandOf(u, r)
    BY <1>1, <1>5, Hands DEF InHandOf
  <2>2. contended \subseteq contended'
    BY DEF DoStep, TakeNumber, LookRing, EvictDst, EvictNat, Alloc, InsertSeq, InsertDst, InsertNat,
           Lookup
  <2>3. natHash[k] = r /\ r # None
    BY <1>2, <1>3, <2>1, <2>2, DnatAssumption DEF BackInv, NatHolds
  <2>4. CASE InsertNat(t)
    <3>1. KeyOf(job[t].flow) # k
      BY <1>3, <2>3, <2>4 DEF InsertNat
    <3> QED
      BY <1>1, <1>2, <2>3, <2>4, <3>1 DEF InsertNat, DnatTypeOK
  <2>5. CASE EvictNat(t)
    <3>1. /\ job[t].rel \in Rel /\ rel[job[t].rel] # Freed
          /\ \A u \in Relay : ~InHandOf(u, job[t].rel)
      BY <1>1, <2>5, OldNotMade DEF EvictNat
    <3>2. r # job[t].rel
      BY <1>1, <2>5 DEF EvictNat, DnatTypeOK
    <3>3. KeyOf(rel[job[t].rel].flow) # k
      <4>1. ASSUME KeyOf(rel[job[t].rel].flow) = k PROVE FALSE
        <5>1. natHash[k] = job[t].rel
          BY <1>3, <2>2, <3>1, <4>1 DEF BackInv, NatHolds
        <5> QED
          BY <2>3, <3>2, <5>1
      <4> QED
        BY <4>1
    <3> QED
      BY <1>1, <1>2, <2>3, <2>5, <3>3 DEF EvictNat, DnatTypeOK
  <2>6. CASE ~InsertNat(t) /\ ~EvictNat(t)
    <3>1. UNCHANGED natHash
      BY <2>6 DEF DoStep, TakeNumber, LookRing, EvictDst, Alloc, InsertSeq, InsertDst, Lookup
    <3> QED
      BY <1>2, <2>3, <3>1
  <2> QED
    BY <2>4, <2>5, <2>6
<1> QED
  BY <1>4, <1>5

(* A reply to a redirected flow gets back the address the flow was sent    *)
(* to, as long as the flow's relation can be found, whatever other flows   *)
(* are redirected, evicted and replaced meanwhile, unless one of the same  *)
(* source and target was.                                                  *)
THEOREM RepliesComeBack == DnatSpec => []ComesBack
<1>1. DnatInit => BackInv
  BY InvInit DEF DnatInit, BackInv, MadeAlone, NotYet, NatHolds, InHandOf, Inserting
<1>2. BackInv /\ [DnatNext]_dnat => BackInv'
  <2> SUFFICES ASSUME BackInv, [DnatNext]_dnat PROVE BackInv'
    OBVIOUS
  <2>1. CASE UNCHANGED dnat
    <3>1. MadeAlone' /\ NotYet' /\ NatHolds'
      BY <2>1 DEF dnat, BackInv, MadeAlone, NotYet, NatHolds, InHandOf
    <3> QED
      BY <3>1, InvStep DEF BackInv
  <2>2. CASE DnatNext
    <3>1. PICK t \in Relay : DoStep(t) \/ \E f \in Flow : Lookup(t, f)
      BY <2>2 DEF DnatNext
    <3>2. MadeAlone' /\ NotYet' /\ NatHolds'
      BY <3>1, AloneStep, NotYetStep, NatHoldsStep
    <3> QED
      BY <3>2, InvStep DEF BackInv
  <2> QED
    BY <2>1, <2>2
<1>3. BackInv => ComesBack
  <2> SUFFICES ASSUME BackInv, NEW f \in Flow, dstHash[f] # None, ~DstLocked(f),
                      KeyOf(f) \notin contended
               PROVE  Undo(KeyOf(f)) = f.dst
    BY DEF ComesBack
  <2> DEFINE r == dstHash[f]
  <2>1. r \in Rel /\ rel[r] # Freed /\ rel[r].flow = f /\ r # None
    BY Typed DEF BackInv, DnatInv, Linked
  <2>2. ASSUME NEW t \in Relay, InHandOf(t, r) PROVE FALSE
    <3>1. pc[t] = "insertNat"
      BY <2>2 DEF BackInv, NotYet, InHandOf, Inserting
    <3>2. job[t].flow = f
      BY <2>1, <2>2, Made DEF BackInv, InHandOf
    <3> QED
      BY <3>1, <3>2 DEF DstLocked
  <2>3. natHash[KeyOf(f)] = r
    BY <2>1, <2>2 DEF BackInv, NatHolds
  <2> QED
    BY <2>1, <2>3 DEF Undo
<1> QED
  BY <1>1, <1>2, <1>3, PTL DEF DnatSpec
=============================================================================
