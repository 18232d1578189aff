-------------------------- MODULE ShapeWheel_proofs --------------------------
(* Theorems about ShapeWheel, for any number of relays, buffers, slots and *)
(* packets of a slot, and any costs.                                       *)
EXTENDS ShapeWheel, FiniteSetTheorems, TLAPS

(* The inductive invariant of BufferOnce and InItsTurn.  The entries of a  *)
(* slot that are in use are those below its count, and the one the sender  *)
(* has counted down from and not freed yet.                                *)

InUse(s, i) == i < wheel[s].n \/ (spc = "free" /\ s = at /\ i = pos)

Filled == \A s \in Slot, i \in Entry : wheel[s].packets[i] # None <=> InUse(s, i)

SenderInStep ==
  /\ spc = "sent" => wheel[at].n = pos + 1
  /\ spc = "free" => wheel[at].n = pos
  /\ spc # "sleep" => curr = IF at = Turns - 1 THEN 0 ELSE at + 1

JobsReady == \A r \in Relay : job[r].buf # None => job[r].delay # None

(* A buffer is in one place: free, with a relay, or in the wheel; and      *)
(* last_free_buf tells how many are free.                                  *)
JobsOf(b) == {r \in Relay : job[r].buf = b}

SpotsOf(b) == {e \in Slot \X Entry : wheel[e[1]].packets[e[2]] = b}

IsFree(b) == free[b] = 1 /\ JobsOf(b) = {} /\ SpotsOf(b) = {}

InJob(b, r) == free[b] = 0 /\ JobsOf(b) = {r} /\ SpotsOf(b) = {}

InWheel(b, e) == free[b] = 0 /\ JobsOf(b) = {} /\ SpotsOf(b) = {e}

Placed(b) ==
  IsFree(b) \/ (\E r \in Relay : InJob(b, r)) \/ (\E e \in Slot \X Entry : InWheel(b, e))

OncePlaced == \A b \in Buf : Placed(b)

Free == {b \in Buf : free[b] > 0}

Counted == lastFree + 1 = Cardinality(Free)

(* How many turns a slot is away, and that a packet waits for them.        *)
Ahead(s) == IF s >= curr THEN s - curr ELSE (s + Turns) - curr

Due(s) == IF spc # "sleep" /\ s = at THEN 0 ELSE Ahead(s) + 1

OnTime ==
  \A s \in Slot, i \in Entry :
    wheel[s].packets[i] # None => left[wheel[s].packets[i]] = Due(s)

InOrder ==
  Filled /\ SenderInStep /\ JobsReady /\ OncePlaced /\ Counted /\ OnTime

ShapeInv == ShapeTypeOK /\ (lapped \/ InOrder)
-----------------------------------------------------------------------------
LEMMA Constants ==
  /\ Frq \in Nat /\ Frq >= 1 /\ Turns \in Nat /\ Turns >= 2 /\ SlotMax \in Nat /\ SlotMax >= 1
  /\ MaxBacklog \in Nat /\ Cost \subseteq 0 .. MaxBacklog
  /\ None \notin Buf /\ None \notin Int
  /\ IsFiniteSet(Buf) /\ Cardinality(Buf) \in Nat
<1>1. IsFiniteSet(Buf)
  BY ShapeAssumption
<1>2. Cardinality(Buf) \in Nat
  BY <1>1, FS_CardinalityType
<1> QED
  BY <1>1, <1>2, ShapeAssumption

LEMMA DivTimes ==
  ASSUME NEW d \in Nat, NEW f \in Nat, f >= 1
  PROVE  /\ d \div f \in Nat /\ d % f \in Nat
         /\ d = ((d \div f) * f) + (d % f)
OBVIOUS

LEMMA TimesGrows ==
  ASSUME NEW a \in Nat, NEW b \in Nat, NEW f \in Nat, a <= b
  PROVE  a * f <= b * f /\ a * f \in Nat /\ b * f \in Nat
OBVIOUS

(* A delay that is accepted comes to a slot of the wheel, as many turns    *)
(* ahead as it takes.                                                      *)
LEMMA SlotOfDelay ==
  ASSUME NEW d \in Nat, d < StoreMax, curr \in Slot
  PROVE  /\ d \div Frq \in 0 .. Turns - 1
         /\ SlotFor(d) \in Slot /\ Ahead(SlotFor(d)) = d \div Frq
<1>1. PICK q : q = d \div Frq
  OBVIOUS
<1>2. q \in Nat /\ d % Frq \in Nat /\ d = (q * Frq) + (d % Frq)
  BY <1>1, Constants, DivTimes
<1>3. q < Turns
  <2>1. CASE Turns <= q
    <3>1. /\ Turns * Frq <= q * Frq /\ Turns * Frq \in Nat /\ q * Frq \in Nat
      BY <1>2, <2>1, Constants, TimesGrows
    <3>2. Turns * Frq <= d
      BY <1>2, <3>1
    <3> QED
      BY <3>1, <3>2 DEF StoreMax
  <2> QED
    BY <1>2, <2>1, Constants
<1>4. curr \in 0 .. Turns - 1
  BY DEF Slot
<1>5. SlotFor(d) = IF curr + q >= Turns THEN (curr + q) - Turns ELSE curr + q
  BY <1>1 DEF SlotFor
<1> QED
  BY <1>1, <1>2, <1>3, <1>4, <1>5, Constants DEF Slot, Ahead

(* Who has a buffer, and that nobody else has it.                          *)
LEMMA OfJob ==
  ASSUME OncePlaced, NEW r \in Relay, NEW b \in Buf, job[r].buf = b
  PROVE  InJob(b, r)
BY DEF OncePlaced, Placed, IsFree, InJob, InWheel, JobsOf

LEMMA OfSpot ==
  ASSUME OncePlaced, NEW s \in Slot, NEW i \in Entry, NEW b \in Buf, wheel[s].packets[i] = b
  PROVE  InWheel(b, <<s, i>>)
<1>1. <<s, i>> \in Slot \X Entry /\ <<s, i>> \in SpotsOf(b)
  BY DEF SpotsOf
<1> QED
  BY <1>1 DEF OncePlaced, Placed, IsFree, InJob, InWheel

LEMMA OfFree ==
  ASSUME OncePlaced, NEW b \in Buf
  PROVE  /\ free[b] \in {0, 1}
         /\ free[b] > 0 => IsFree(b)
BY DEF OncePlaced, Placed, IsFree, InJob, InWheel

(* Buffers that stay where they are.                                       *)
SamePlace(b) ==
  free'[b] = free[b] /\ JobsOf(b)' = JobsOf(b) /\ SpotsOf(b)' = SpotsOf(b)

LEMMA StaysPlaced ==
  ASSUME NEW b, Placed(b), SamePlace(b)
  PROVE  Placed(b)'
BY DEF Placed, SamePlace, IsFree, InJob, InWheel

LEMMA AllStay ==
  ASSUME OncePlaced, \A b \in Buf : SamePlace(b)
  PROVE  OncePlaced'
BY StaysPlaced DEF OncePlaced

LEMMA OtherStay ==
  ASSUME OncePlaced, NEW c \in Buf, \A b \in Buf \ {c} : SamePlace(b), Placed(c)'
  PROVE  OncePlaced'
<1>1. ASSUME NEW b \in Buf, b # c PROVE Placed(b)'
  BY <1>1, StaysPlaced DEF OncePlaced
<1> QED
  BY <1>1 DEF OncePlaced

LEMMA PlacedMeansOnce ==
  ASSUME OncePlaced, NEW b \in Buf
  PROVE  Places(b) = 1
<1>1. Places(b) = free[b] + Cardinality(JobsOf(b)) + Cardinality(SpotsOf(b))
  BY DEF Places, JobsOf, SpotsOf
<1>2. Cardinality({}) = 0
  BY FS_EmptySet
<1>3. CASE IsFree(b)
  BY <1>1, <1>2, <1>3 DEF IsFree
<1>4. ASSUME NEW r \in Relay, InJob(b, r) PROVE Places(b) = 1
  <2>1. Cardinality({r}) = 1
    BY FS_Singleton
  <2> QED
    BY <1>1, <1>2, <1>4, <2>1 DEF InJob
<1>5. ASSUME NEW e \in Slot \X Entry, InWheel(b, e) PROVE Places(b) = 1
  <2>1. Cardinality({e}) = 1
    BY FS_Singleton
  <2> QED
    BY <1>1, <1>2, <1>5, <2>1 DEF InWheel
<1> QED
  BY <1>3, <1>4, <1>5 DEF OncePlaced, Placed

(* The list of free buffers.                                               *)
LEMMA FreeFinite ==
  /\ IsFiniteSet(Free) /\ Cardinality(Free) \in Nat
<1>1. Free \subseteq Buf
  BY DEF Free
<1>2. IsFiniteSet(Free)
  BY <1>1, Constants, FS_Subset
<1> QED
  BY <1>2, FS_CardinalityType

LEMMA GetTakes ==
  ASSUME ShapeTypeOK, OncePlaced, Counted, GetBuf
  PROVE  \E b \in Buf : /\ b = Some /\ IsFree(b)
                        /\ free' = [free EXCEPT ![b] = 0]
                        /\ Counted' /\ lastFree' \in -1 .. Cardinality(Buf) - 1
<1>1. lastFree \in -1 .. Cardinality(Buf) - 1 /\ lastFree # -1 /\ lastFree' = lastFree - 1
  BY DEF ShapeTypeOK, GetBuf
<1>2. Free # {}
  <2>1. Cardinality(Free) # 0
    BY <1>1, Constants DEF Counted
  <2> QED
    BY <2>1, FS_EmptySet
<1>3. PICK b \in Buf : b = Some /\ free[b] > 0
  BY <1>2 DEF Free, Some
<1>4. free[b] = 1 /\ IsFree(b)
  BY <1>3, OfFree
<1>5. free' = [free EXCEPT ![b] = 0]
  BY <1>3, <1>4 DEF GetBuf, ShapeTypeOK
<1>6. Free' = Free \ {b} /\ b \in Free
  BY <1>3, <1>5 DEF Free, ShapeTypeOK
<1>7. Cardinality(Free') = Cardinality(Free) - 1
  BY <1>6, FreeFinite, FS_RemoveElement
<1>8. Counted'
  BY <1>1, <1>7, FreeFinite, Constants DEF Counted
<1>9. lastFree' \in -1 .. Cardinality(Buf) - 1
  BY <1>1, Constants
<1> QED
  BY <1>3, <1>4, <1>5, <1>8, <1>9

LEMMA FreeGives ==
  ASSUME ShapeTypeOK, OncePlaced, Counted, NEW b \in Buf, free[b] = 0, FreeBuf(b)
  PROVE  /\ free' = [free EXCEPT ![b] = 1]
         /\ Counted' /\ lastFree' \in -1 .. Cardinality(Buf) - 1
<1>1. lastFree \in -1 .. Cardinality(Buf) - 1
  BY DEF ShapeTypeOK
<1>2. Free \subseteq Buf \ {b} /\ b \notin Free
  BY DEF Free
<1>3. Cardinality(Free) <= Cardinality(Buf) - 1
  <2>1. /\ IsFiniteSet(Buf \ {b}) /\ Cardinality(Buf \ {b}) = Cardinality(Buf) - 1
    BY Constants, FS_RemoveElement
  <2> QED
    BY <1>2, <2>1, FS_Subset
<1>4. lastFree < Cardinality(Buf) - 1
  BY <1>1, <1>3, Constants, FreeFinite DEF Counted
<1>5. free' = [free EXCEPT ![b] = 1] /\ lastFree' = lastFree + 1
  BY <1>4, Constants DEF FreeBuf, ShapeTypeOK
<1>6. Free' = Free \cup {b}
  BY <1>5 DEF Free, ShapeTypeOK
<1>7. Cardinality(Free') = Cardinality(Free) + 1
  BY <1>2, <1>6, FreeFinite, FS_AddElement
<1>8. Counted'
  BY <1>1, <1>5, <1>7, FreeFinite, Constants DEF Counted
<1> QED
  BY <1>1, <1>4, <1>5, <1>8, Constants
-----------------------------------------------------------------------------
(* The steps.  A user's time and what a relay knows of its packet have     *)
(* nothing to do with the places of buffers.                               *)

LEMMA OutsideStep ==
  ASSUME ShapeTypeOK, InOrder,
         UNCHANGED <<sender, wheel, pool, left, lapped>>,
         job' \in [Relay -> [delay : (1 .. MaxBacklog) \cup {None}, buf : Buf \cup {None}]],
         \A r \in Relay : job'[r].buf = job[r].buf /\ (job'[r].buf # None => job'[r].delay # None),
         last' \in (-MaxBacklog .. MaxBacklog) \cup {None}
  PROVE  ShapeTypeOK' /\ InOrder'
<1>1. ShapeTypeOK'
  BY DEF ShapeTypeOK, sender, pool
<1>2. \A b \in Buf : SamePlace(b)
  BY DEF SamePlace, JobsOf, SpotsOf, pool
<1>3. OncePlaced'
  BY <1>2, AllStay DEF InOrder
<1>4. Filled' /\ SenderInStep' /\ OnTime'
  BY DEF InOrder, Filled, InUse, SenderInStep, OnTime, Due, Ahead, sender
<1>5. JobsReady' /\ Counted'
  BY DEF InOrder, JobsReady, Counted, Free, pool
<1> QED
  BY <1>1, <1>3, <1>4, <1>5 DEF InOrder

LEMMA TimeStep ==
  ASSUME ShapeTypeOK, InOrder, NewContext \/ DelContext \/ Pass
  PROVE  ShapeTypeOK' /\ InOrder'
<1>1. UNCHANGED <<sender, wheel, pool, job, left, lapped>>
  BY DEF NewContext, DelContext, Pass
<1>2. last' \in (-MaxBacklog .. MaxBacklog) \cup {None}
  BY Constants DEF NewContext, DelContext, Pass, ShapeTypeOK
<1> QED
  BY <1>1, <1>2, OutsideStep DEF ShapeTypeOK, InOrder, JobsReady

LEMMA ScheduleStep ==
  ASSUME ShapeTypeOK, InOrder, NEW r \in Relay, Schedule(r)
  PROVE  ShapeTypeOK' /\ InOrder'
<1>1. PICK c \in Cost :
        /\ last + c <= MaxBacklog
        /\ last' = IF last + c > 0 THEN last + c ELSE 0
        /\ job' = IF last + c > 0 THEN [job EXCEPT ![r].delay = last + c] ELSE job
  BY DEF Schedule
<1>2. PICK d : d = last + c
  OBVIOUS
<1>3. last \in -MaxBacklog .. MaxBacklog /\ c \in 0 .. MaxBacklog
  BY Constants DEF Schedule, ShapeTypeOK
<1>4. d \in Int /\ d <= MaxBacklog /\ last' \in -MaxBacklog .. MaxBacklog
  BY <1>1, <1>2, <1>3, Constants
<1>5. job \in [Relay -> [delay : (1 .. MaxBacklog) \cup {None}, buf : Buf \cup {None}]]
  BY DEF ShapeTypeOK
<1>6. job[r].buf = None
  BY DEF Schedule, NoJob
<1>7. \/ job' = job
      \/ \E e \in 1 .. MaxBacklog : job' = [job EXCEPT ![r].delay = e]
  BY <1>1, <1>2, <1>4, Constants
<1>8. job' \in [Relay -> [delay : (1 .. MaxBacklog) \cup {None}, buf : Buf \cup {None}]]
  BY <1>5, <1>7
<1>9. ASSUME NEW q \in Relay
      PROVE  job'[q].buf = job[q].buf /\ (job'[q].buf # None => job'[q].delay # None)
  BY <1>5, <1>6, <1>7 DEF InOrder, JobsReady
<1>10. UNCHANGED <<sender, wheel, pool, left, lapped>>
  BY DEF Schedule
<1>11. last' \in (-MaxBacklog .. MaxBacklog) \cup {None}
  BY <1>4
<1> QED
  BY <1>8, <1>9, <1>10, <1>11, OutsideStep

(* A relay changes the list of free buffers and what it has in hand.       *)
LEMMA PoolStep ==
  ASSUME ShapeTypeOK, InOrder, UNCHANGED <<last, sender, wheel, left, lapped>>,
         NEW r \in Relay, NEW j, job' = [job EXCEPT ![r] = j],
         j \in [delay : (1 .. MaxBacklog) \cup {None}, buf : Buf \cup {None}],
         j.buf # None => j.delay # None,
         free' \in [Buf -> 0 .. Cardinality(Buf)],
         lastFree' \in -1 .. Cardinality(Buf) - 1,
         OncePlaced', Counted'
  PROVE  ShapeTypeOK' /\ InOrder'
<1>1. ShapeTypeOK'
  BY DEF ShapeTypeOK, sender
<1>2. Filled' /\ SenderInStep' /\ OnTime'
  BY DEF InOrder, Filled, InUse, SenderInStep, OnTime, Due, Ahead, sender
<1>3. JobsReady'
  BY DEF InOrder, JobsReady, ShapeTypeOK
<1> QED
  BY <1>1, <1>2, <1>3 DEF InOrder

LEMMA TakeStep ==
  ASSUME ShapeTypeOK, InOrder, NEW r \in Relay, TakeBuf(r)
  PROVE  ShapeTypeOK' /\ InOrder'
<1>1. /\ UNCHANGED <<last, sender, wheel, left, lapped>>
      /\ job[r].delay # None /\ job[r].buf = None
  BY DEF TakeBuf
<1>2. /\ job \in [Relay -> [delay : (1 .. MaxBacklog) \cup {None}, buf : Buf \cup {None}]]
      /\ free \in [Buf -> 0 .. Cardinality(Buf)]
      /\ lastFree \in -1 .. Cardinality(Buf) - 1
      /\ None \notin Buf
  BY Constants DEF ShapeTypeOK
<1>3. CASE lastFree = -1 /\ job' = [job EXCEPT ![r] = NoJob] /\ UNCHANGED pool
  <2>1. \A b \in Buf : SamePlace(b)
    BY <1>1, <1>2, <1>3 DEF SamePlace, JobsOf, SpotsOf, pool, NoJob
  <2>2. OncePlaced' /\ Counted'
    BY <1>3, <2>1, AllStay DEF InOrder, Counted, Free, pool
  <2>3. NoJob \in [delay : (1 .. MaxBacklog) \cup {None}, buf : Buf \cup {None}] /\ NoJob.buf = None
    BY DEF NoJob
  <2> QED
    BY <1>1, <1>2, <1>3, <2>2, <2>3, PoolStep DEF pool
<1>4. CASE GetBuf /\ job' = [job EXCEPT ![r].buf = Some]
  <2>1. PICK b \in Buf : /\ b = Some /\ IsFree(b)
                         /\ free' = [free EXCEPT ![b] = 0]
                         /\ Counted' /\ lastFree' \in -1 .. Cardinality(Buf) - 1
    BY <1>4, GetTakes DEF InOrder
  <2>2. PICK j : j = [job[r] EXCEPT !.buf = b]
    OBVIOUS
  <2>3. /\ j \in [delay : (1 .. MaxBacklog) \cup {None}, buf : Buf \cup {None}]
        /\ j.buf = b /\ j.delay # None /\ job' = [job EXCEPT ![r] = j]
    BY <1>1, <1>2, <1>4, <2>1, <2>2
  <2>4. free' \in [Buf -> 0 .. Cardinality(Buf)]
    BY <1>2, <2>1, Constants
  <2>5. InJob(b, r)'
    <3>1. free'[b] = 0
      BY <1>2, <2>1
    <3>2. JobsOf(b)' = {r}
      BY <1>2, <2>1, <2>3 DEF IsFree, JobsOf
    <3>3. SpotsOf(b)' = {}
      BY <1>1, <2>1 DEF IsFree, SpotsOf
    <3> QED
      BY <3>1, <3>2, <3>3 DEF InJob
  <2>6. \A c \in Buf \ {b} : SamePlace(c)
    BY <1>1, <1>2, <2>1, <2>3 DEF SamePlace, JobsOf, SpotsOf
  <2>7. OncePlaced'
    BY <2>5, <2>6, OtherStay DEF InOrder, Placed
  <2> QED
    BY <1>1, <2>1, <2>3, <2>4, <2>7, PoolStep
<1> QED
  BY <1>3, <1>4 DEF TakeBuf

LEMMA RefuseStep ==
  ASSUME ShapeTypeOK, InOrder, NEW r \in Relay, Refuse(r)
  PROVE  ShapeTypeOK' /\ InOrder'
<1>1. PICK b : b = job[r].buf
  OBVIOUS
<1>2. /\ UNCHANGED <<last, sender, wheel, left, lapped>>
      /\ b # None /\ FreeBuf(b) /\ job' = [job EXCEPT ![r] = NoJob]
  BY <1>1 DEF Refuse
<1>3. /\ job \in [Relay -> [delay : (1 .. MaxBacklog) \cup {None}, buf : Buf \cup {None}]]
      /\ free \in [Buf -> 0 .. Cardinality(Buf)] /\ None \notin Buf
  BY Constants DEF ShapeTypeOK
<1>4. b \in Buf /\ InJob(b, r)
  BY <1>1, <1>2, <1>3, OfJob DEF InOrder
<1>5. /\ free' = [free EXCEPT ![b] = 1] /\ Counted'
      /\ lastFree' \in -1 .. Cardinality(Buf) - 1
  BY <1>2, <1>4, FreeGives DEF InJob, InOrder
<1>6. free' \in [Buf -> 0 .. Cardinality(Buf)]
  <2>1. Cardinality(Buf) # 0
    BY <1>4, Constants, FS_EmptySet
  <2>2. 1 \in 0 .. Cardinality(Buf)
    BY <2>1, Constants
  <2> QED
    BY <1>3, <1>5, <2>2
<1>7. IsFree(b)'
  <2>1. JobsOf(b)' = {}
    BY <1>2, <1>3, <1>4 DEF InJob, JobsOf, NoJob
  <2>2. SpotsOf(b)' = {} /\ free'[b] = 1
    BY <1>2, <1>3, <1>4, <1>5 DEF InJob, SpotsOf
  <2> QED
    BY <2>1, <2>2 DEF IsFree
<1>8. \A c \in Buf \ {b} : SamePlace(c)
  BY <1>1, <1>2, <1>3, <1>5 DEF SamePlace, JobsOf, SpotsOf, NoJob
<1>9. OncePlaced'
  BY <1>4, <1>7, <1>8, OtherStay DEF InOrder, Placed
<1>10. NoJob \in [delay : (1 .. MaxBacklog) \cup {None}, buf : Buf \cup {None}] /\ NoJob.buf = None
  BY DEF NoJob
<1> QED
  BY <1>2, <1>5, <1>6, <1>9, <1>10, PoolStep

(* A packet that is put into the wheel.                                    *)
LEMMA PutIn ==
  ASSUME NEW w, NEW m, NEW v, NEW s \in Slot, NEW i \in Entry, NEW b \in v, m = w[s].n + 1,
         w \in [Slot -> [n : 0 .. SlotMax, packets : [Entry -> v]]],
         m \in 0 .. SlotMax, NEW x, x = [w EXCEPT ![s].n = @ + 1, ![s].packets[i] = b]
  PROVE  /\ x \in [Slot -> [n : 0 .. SlotMax, packets : [Entry -> v]]]
         /\ x[s].n = m /\ \A t \in Slot \ {s} : x[t] = w[t]
         /\ \A j \in Entry : x[s].packets[j] = IF j = i THEN b ELSE w[s].packets[j]
<1>1. x[s].n = w[s].n + 1 /\ x[s].packets = [w[s].packets EXCEPT ![i] = b]
  OBVIOUS
<1>2. w[s].packets \in [Entry -> v] /\ w[s].n + 1 \in 0 .. SlotMax
  OBVIOUS
<1>3. x[s] \in [n : 0 .. SlotMax, packets : [Entry -> v]]
  OBVIOUS
<1>4. \A t \in Slot \ {s} : x[t] = w[t]
  OBVIOUS
<1>5. x \in [Slot -> [n : 0 .. SlotMax, packets : [Entry -> v]]]
  BY <1>3, <1>4
<1> QED
  BY <1>1, <1>2, <1>4, <1>5

(* A packet is put into the wheel: unless its slot is being emptied, into  *)
(* an entry that is not in use.                                            *)
LEMMA DelayStep ==
  ASSUME ShapeTypeOK, InOrder, NEW r \in Relay, Delay(r)
  PROVE  ShapeTypeOK' /\ (lapped' \/ InOrder')
<1>1. PICK b, d, q, s, n :
        /\ b = job[r].buf /\ d = job[r].delay /\ q = d \div Frq
        /\ s = SlotFor(d) /\ n = wheel[s].n
  OBVIOUS
<1>2. /\ UNCHANGED <<last, sender, pool>>
      /\ b # None /\ ~(d >= StoreMax) /\ ~(n >= SlotMax)
      /\ wheel' = [wheel EXCEPT ![s].n = @ + 1, ![s].packets[n] = b]
      /\ job' = [job EXCEPT ![r] = NoJob]
      /\ lapped' = (lapped \/ (spc # "sleep" /\ s = at))
      /\ left' = [left EXCEPT ![b] = q + 1]
  BY <1>1 DEF Delay, TooLate, Full
<1>3. /\ job \in [Relay -> [delay : (1 .. MaxBacklog) \cup {None}, buf : Buf \cup {None}]]
      /\ wheel \in [Slot -> [n : 0 .. SlotMax, packets : [Entry -> Buf \cup {None}]]]
      /\ left \in [Buf -> 0 .. Turns] /\ lapped \in BOOLEAN /\ None \notin Buf /\ curr \in Slot
  BY Constants DEF ShapeTypeOK
<1>4. b \in Buf /\ InJob(b, r) /\ d \in 1 .. MaxBacklog
  <2>1. b \in Buf /\ InJob(b, r)
    BY <1>1, <1>2, <1>3, OfJob DEF InOrder
  <2>2. job[r].delay # None
    BY <1>1, <1>2 DEF InOrder, JobsReady
  <2> QED
    BY <1>1, <1>3, <2>1, <2>2
<1>5. d \in Nat /\ d < StoreMax
  BY <1>2, <1>4, Constants DEF StoreMax
<1>6. q \in 0 .. Turns - 1 /\ s \in Slot /\ Ahead(s) = q
  BY <1>1, <1>3, <1>5, SlotOfDelay
<1>7. n \in Entry /\ n \in 0 .. SlotMax /\ n + 1 \in 0 .. SlotMax
  BY <1>1, <1>2, <1>3, <1>6, Constants DEF Entry
<1>8. NoJob \in [delay : (1 .. MaxBacklog) \cup {None}, buf : Buf \cup {None}] /\ NoJob.buf = None
  BY DEF NoJob
<1>9. /\ wheel' \in [Slot -> [n : 0 .. SlotMax, packets : [Entry -> Buf \cup {None}]]]
      /\ wheel'[s].n = n + 1 /\ \A t \in Slot \ {s} : wheel'[t] = wheel[t]
      /\ \A i \in Entry : wheel'[s].packets[i] = IF i = n THEN b ELSE wheel[s].packets[i]
  BY <1>1, <1>2, <1>3, <1>4, <1>6, <1>7, PutIn
<1>10. ShapeTypeOK'
  <2>1. q + 1 \in 0 .. Turns
    BY <1>6, Constants
  <2>2. left' \in [Buf -> 0 .. Turns] /\ lapped' \in BOOLEAN
    BY <1>2, <1>3, <1>4, <2>1
  <2>3. job' \in [Relay -> [delay : (1 .. MaxBacklog) \cup {None}, buf : Buf \cup {None}]]
    BY <1>2, <1>3, <1>8
  <2> QED
    BY <1>2, <1>9, <2>2, <2>3 DEF ShapeTypeOK, sender, pool
<1>11. ASSUME ~lapped' PROVE InOrder'
  <2>1. ~(spc # "sleep" /\ s = at)
    BY <1>2, <1>11
  <2>2. \A t \in Slot, i \in Entry :
          wheel'[t].packets[i] = IF t = s /\ i = n THEN b ELSE wheel[t].packets[i]
    BY <1>9
  <2>3. wheel[s].packets[n] = None
    <3>1. ~InUse(s, n)
      BY <1>1, <1>7, <2>1, Constants DEF InUse
    <3> QED
      BY <1>6, <1>7, <3>1 DEF InOrder, Filled
  <2>4. Filled'
    <3>1. ASSUME NEW t \in Slot, NEW i \in Entry
          PROVE  wheel'[t].packets[i] # None <=> InUse(t, i)'
      <4>1. wheel[t].packets[i] # None <=> InUse(t, i)
        BY DEF InOrder, Filled
      <4>2. spc' = spc /\ at' = at /\ pos' = pos
        BY <1>2 DEF sender
      <4>3. CASE t # s
        BY <1>9, <2>2, <4>1, <4>2, <4>3 DEF InUse
      <4>4. CASE t = s
        <5>1. i \in Int /\ n \in Int
          BY <1>7, Constants DEF Entry
        <5>2. i < n + 1 <=> i < n \/ i = n
          BY <5>1
        <5>3. InUse(t, i) <=> i < n
          BY <1>1, <2>1, <4>4 DEF InUse
        <5>4. InUse(t, i)' <=> i < n + 1
          BY <1>9, <2>1, <4>2, <4>4 DEF InUse
        <5>5. wheel'[t].packets[i] = IF i = n THEN b ELSE wheel[t].packets[i]
          BY <2>2, <4>4
        <5> QED
          BY <1>2, <4>1, <5>2, <5>3, <5>4, <5>5
      <4> QED
        BY <4>3, <4>4
    <3> QED
      BY <3>1 DEF Filled
  <2>5. SenderInStep'
    <3>1. spc' = spc /\ at' = at /\ pos' = pos /\ curr' = curr /\ at \in Slot
      BY <1>2 DEF sender, ShapeTypeOK
    <3> QED
      BY <1>9, <2>1, <3>1 DEF InOrder, SenderInStep
  <2>6. JobsReady' /\ Counted'
    BY <1>2, <1>3, <1>8 DEF InOrder, JobsReady, Counted, Free, pool
  <2>7. InWheel(b, <<s, n>>)'
    <3>1. free'[b] = 0
      BY <1>2, <1>4 DEF InJob, pool
    <3>2. JobsOf(b)' = {}
      BY <1>2, <1>3, <1>4, <1>8 DEF InJob, JobsOf
    <3>3. SpotsOf(b)' = {<<s, n>>}
      <4>1. SpotsOf(b) = {}
        BY <1>4 DEF InJob
      <4>2. ASSUME NEW e \in Slot \X Entry
            PROVE  wheel'[e[1]].packets[e[2]] = b <=> e = <<s, n>>
        <5>1. wheel[e[1]].packets[e[2]] # b
          BY <4>1 DEF SpotsOf
        <5>2. e[1] \in Slot /\ e[2] \in Entry /\ e = <<e[1], e[2]>>
          OBVIOUS
        <5> QED
          BY <2>2, <5>1, <5>2
      <4> QED
        BY <1>6, <1>7, <4>2 DEF SpotsOf
    <3> QED
      BY <3>1, <3>2, <3>3 DEF InWheel
  <2>8. ASSUME NEW c \in Buf \ {b} PROVE SamePlace(c)
    <3>1. free'[c] = free[c]
      BY <1>2 DEF pool
    <3>2. JobsOf(c)' = JobsOf(c)
      BY <1>1, <1>2, <1>3, <1>8 DEF JobsOf
    <3>3. ASSUME NEW e \in Slot \X Entry
          PROVE  wheel'[e[1]].packets[e[2]] = c <=> wheel[e[1]].packets[e[2]] = c
      <4>1. e[1] \in Slot /\ e[2] \in Entry
        OBVIOUS
      <4> QED
        BY <1>3, <2>2, <2>3, <4>1
    <3>4. SpotsOf(c)' = SpotsOf(c)
      BY <3>3 DEF SpotsOf
    <3> QED
      BY <3>1, <3>2, <3>4 DEF SamePlace
  <2>9. OncePlaced'
    <3>1. <<s, n>> \in Slot \X Entry
      BY <1>6, <1>7
    <3>2. Placed(b)'
      BY <2>7, <3>1 DEF Placed
    <3> QED
      BY <1>4, <2>8, <3>2, OtherStay DEF InOrder
  <2>10. OnTime'
    <3>1. ASSUME NEW t \in Slot PROVE Due(t)' = Due(t)
      BY <1>2 DEF Due, Ahead, sender
    <3>2. Due(s) = q + 1
      BY <1>6, <2>1 DEF Due
    <3>3. ASSUME NEW t \in Slot, NEW i \in Entry, wheel'[t].packets[i] # None
          PROVE  left'[wheel'[t].packets[i]] = Due(t)'
      <4>1. CASE t = s /\ i = n
        BY <1>2, <1>3, <1>4, <2>2, <3>1, <3>2, <4>1
      <4>2. CASE ~(t = s /\ i = n)
        <5>1. PICK c : c = wheel[t].packets[i]
          OBVIOUS
        <5>2. wheel'[t].packets[i] = c /\ c \in Buf
          BY <1>3, <2>2, <3>3, <4>2, <5>1
        <5>3. c # b
          <6>1. <<t, i>> \notin SpotsOf(b)
            BY <1>4 DEF InJob
          <6> QED
            BY <5>1, <6>1 DEF SpotsOf
        <5>4. left[c] = Due(t)
          BY <5>1, <5>2, <1>3 DEF InOrder, OnTime
        <5> QED
          BY <1>2, <1>3, <3>1, <5>2, <5>3, <5>4
      <4> QED
        BY <4>1, <4>2
    <3> QED
      BY <3>3 DEF OnTime
  <2> QED
    BY <2>4, <2>5, <2>6, <2>9, <2>10 DEF InOrder
<1> QED
  BY <1>10, <1>11
-----------------------------------------------------------------------------
(* The sender's steps.  Turning the wheel brings every slot a turn nearer. *)

LEMMA TurnBrings ==
  ASSUME ShapeTypeOK, spc = "sleep", spc' = "empty", at' = curr, curr' = NextTurn,
         NEW s \in Slot
  PROVE  Due(s) \in 1 .. Turns /\ Due(s)' = Due(s) - 1
<1>1. s \in 0 .. Turns - 1 /\ curr \in 0 .. Turns - 1 /\ Turns \in Nat
  BY Constants DEF ShapeTypeOK, Slot
<1>2. Due(s) = Ahead(s) + 1 /\ Ahead(s) \in 0 .. Turns - 1
  BY <1>1 DEF Due, Ahead
<1>3. CASE s = curr
  <2>1. Ahead(s) = 0 /\ Due(s)' = 0
    BY <1>1, <1>3 DEF Ahead, Due
  <2> QED
    BY <1>1, <1>2, <2>1
<1>4. CASE s # curr
  <2>1. Due(s)' = Ahead(s)' + 1
    BY <1>4 DEF Due
  <2>2. Ahead(s)' = Ahead(s) - 1
    BY <1>1, <1>4 DEF Ahead, NextTurn
  <2> QED
    BY <1>1, <1>2, <2>1, <2>2
<1> QED
  BY <1>3, <1>4

LEMMA TurnStep ==
  ASSUME ShapeTypeOK, InOrder, Turn
  PROVE  ShapeTypeOK' /\ InOrder'
<1>1. /\ UNCHANGED <<last, wheel, pool, job, pos, lapped>>
      /\ spc = "sleep" /\ spc' = "empty" /\ at' = curr /\ curr' = NextTurn
      /\ left' = [b \in Buf |-> IF left[b] > 0 THEN left[b] - 1 ELSE 0]
  BY DEF Turn
<1>2. curr \in 0 .. Turns - 1 /\ left \in [Buf -> 0 .. Turns] /\ Turns \in Nat
  BY Constants DEF ShapeTypeOK, Slot
<1>3. ShapeTypeOK'
  <2>1. curr' \in Slot
    BY <1>1, <1>2, Constants DEF NextTurn, Slot
  <2>2. left' \in [Buf -> 0 .. Turns]
    BY <1>1, <1>2
  <2> QED
    BY <1>1, <2>1, <2>2 DEF ShapeTypeOK, pool
<1>4. Filled'
  BY <1>1 DEF InOrder, Filled, InUse
<1>5. SenderInStep'
  BY <1>1 DEF SenderInStep, NextTurn
<1>6. OncePlaced'
  <2>1. \A b \in Buf : SamePlace(b)
    BY <1>1 DEF SamePlace, JobsOf, SpotsOf, pool
  <2> QED
    BY <2>1, AllStay DEF InOrder
<1>7. JobsReady' /\ Counted'
  BY <1>1 DEF InOrder, JobsReady, Counted, Free, pool
<1>8. OnTime'
  <2>1. ASSUME NEW s \in Slot, NEW i \in Entry, wheel'[s].packets[i] # None
        PROVE  left'[wheel'[s].packets[i]] = Due(s)'
    <3>1. PICK b : b = wheel[s].packets[i]
      OBVIOUS
    <3>2. b \in Buf /\ left[b] = Due(s)
      BY <1>1, <2>1, <3>1 DEF ShapeTypeOK, InOrder, OnTime
    <3>3. Due(s) \in 1 .. Turns /\ Due(s)' = Due(s) - 1
      BY <1>1, TurnBrings
    <3>4. left'[b] = left[b] - 1
      BY <1>1, <1>2, <3>2, <3>3
    <3> QED
      BY <1>1, <3>1, <3>2, <3>3, <3>4
  <2> QED
    BY <2>1 DEF OnTime
<1> QED
  BY <1>3, <1>4, <1>5, <1>6, <1>7, <1>8 DEF InOrder

LEMMA SendStep ==
  ASSUME ShapeTypeOK, InOrder, SendTop
  PROVE  /\ ShapeTypeOK' /\ InOrder'
         /\ left[wheel[at].packets[pos']] = 0
<1>1. /\ UNCHANGED <<last, curr, wheel, pool, job, at, left, lapped>>
      /\ spc = "empty" /\ spc' = "sent" /\ wheel[at].n > 0 /\ pos' = wheel[at].n - 1
  BY DEF SendTop
<1>2. at \in Slot /\ wheel[at].n \in 0 .. SlotMax
  BY DEF ShapeTypeOK
<1>3. pos' \in Entry /\ wheel'[at'].n = pos' + 1 /\ pos' < wheel[at].n
  BY <1>1, <1>2, Constants DEF Entry
<1>4. ShapeTypeOK'
  BY <1>1, <1>3 DEF ShapeTypeOK, pool
<1>5. Filled' /\ SenderInStep'
  BY <1>1, <1>3 DEF InOrder, Filled, InUse, SenderInStep
<1>6. \A b \in Buf : SamePlace(b)
  BY <1>1 DEF SamePlace, JobsOf, SpotsOf, pool
<1>7. OncePlaced'
  BY <1>6, AllStay DEF InOrder
<1>8. JobsReady' /\ Counted'
  BY <1>1 DEF InOrder, JobsReady, Counted, Free, pool
<1>9. OnTime'
  BY <1>1 DEF InOrder, OnTime, Due, Ahead
<1>10. wheel[at].packets[pos'] # None
  BY <1>2, <1>3 DEF InOrder, Filled, InUse
<1>11. left[wheel[at].packets[pos']] = 0
  BY <1>1, <1>2, <1>3, <1>10 DEF InOrder, OnTime, Due
<1> QED
  BY <1>4, <1>5, <1>7, <1>8, <1>9, <1>11 DEF InOrder

LEMMA CountStep ==
  ASSUME ShapeTypeOK, InOrder, CountDown
  PROVE  ShapeTypeOK' /\ InOrder'
<1>1. /\ UNCHANGED <<last, curr, pool, job, at, pos, left, lapped>>
      /\ spc = "sent" /\ spc' = "free"
  BY DEF CountDown
<1>2. /\ at \in Slot /\ pos \in Entry
      /\ wheel \in [Slot -> [n : 0 .. SlotMax, packets : [Entry -> Buf \cup {None}]]]
  BY DEF ShapeTypeOK
<1>3. wheel[at].n = pos + 1 /\ pos \in 0 .. SlotMax
  BY <1>1, <1>2, Constants DEF InOrder, SenderInStep, Entry
<1>4. wheel' = [wheel EXCEPT ![at].n = pos]
  <2>1. wheel[at].n - 1 = pos
    BY <1>3
  <2> QED
    BY <2>1 DEF CountDown
<1>5. /\ wheel' \in [Slot -> [n : 0 .. SlotMax, packets : [Entry -> Buf \cup {None}]]]
      /\ wheel'[at].n = pos /\ \A s \in Slot \ {at} : wheel'[s].n = wheel[s].n
      /\ \A s \in Slot : wheel'[s].packets = wheel[s].packets
  BY <1>2, <1>3, <1>4
<1>6. ShapeTypeOK'
  BY <1>1, <1>5 DEF ShapeTypeOK, pool
<1>7. Filled'
  <2>1. ASSUME NEW s \in Slot, NEW i \in Entry PROVE InUse(s, i)' <=> InUse(s, i)
    <3>1. i \in Int /\ pos \in Int
      BY <1>3, Constants DEF Entry
    <3> QED
      BY <1>1, <1>3, <1>5, <3>1 DEF InUse
  <2> QED
    BY <1>5, <2>1 DEF InOrder, Filled
<1>8. SenderInStep'
  BY <1>1, <1>5 DEF InOrder, SenderInStep
<1>9. \A b \in Buf : SamePlace(b)
  <2>1. ASSUME NEW b \in Buf, NEW e \in Slot \X Entry
        PROVE  wheel'[e[1]].packets[e[2]] = wheel[e[1]].packets[e[2]]
    BY <1>5
  <2> QED
    BY <1>1, <2>1 DEF SamePlace, JobsOf, SpotsOf, pool
<1>10. OncePlaced'
  BY <1>9, AllStay DEF InOrder
<1>11. JobsReady' /\ Counted'
  BY <1>1 DEF InOrder, JobsReady, Counted, Free, pool
<1>12. OnTime'
  BY <1>1, <1>5 DEF InOrder, OnTime, Due, Ahead
<1> QED
  BY <1>6, <1>7, <1>8, <1>10, <1>11, <1>12 DEF InOrder

LEMMA FreeStep ==
  ASSUME ShapeTypeOK, InOrder, FreeSent
  PROVE  ShapeTypeOK' /\ InOrder'
<1>1. PICK b, e : b = wheel[at].packets[pos] /\ e = <<at, pos>>
  OBVIOUS
<1>2. /\ UNCHANGED <<last, curr, job, at, pos, left, lapped>>
      /\ spc = "free" /\ spc' = "empty" /\ FreeBuf(b)
      /\ wheel' = [wheel EXCEPT ![at].packets[pos] = None]
  BY <1>1 DEF FreeSent
<1>3. /\ at \in Slot /\ pos \in Entry
      /\ wheel \in [Slot -> [n : 0 .. SlotMax, packets : [Entry -> Buf \cup {None}]]]
      /\ free \in [Buf -> 0 .. Cardinality(Buf)] /\ None \notin Buf
  BY Constants DEF ShapeTypeOK
<1>4. b # None /\ b \in Buf
  BY <1>1, <1>2, <1>3 DEF InOrder, Filled, InUse
<1>5. InWheel(b, e)
  BY <1>1, <1>3, <1>4, OfSpot DEF InOrder
<1>6. /\ free' = [free EXCEPT ![b] = 1] /\ Counted'
      /\ lastFree' \in -1 .. Cardinality(Buf) - 1
  BY <1>2, <1>4, <1>5, FreeGives DEF InWheel, InOrder
<1>7. free' \in [Buf -> 0 .. Cardinality(Buf)]
  <2>1. Cardinality(Buf) # 0
    BY <1>4, Constants, FS_EmptySet
  <2>2. 1 \in 0 .. Cardinality(Buf)
    BY <2>1, Constants
  <2> QED
    BY <1>3, <1>6, <2>2
<1>8. /\ wheel' \in [Slot -> [n : 0 .. SlotMax, packets : [Entry -> Buf \cup {None}]]]
      /\ \A s \in Slot : wheel'[s].n = wheel[s].n
      /\ \A s \in Slot, i \in Entry :
           wheel'[s].packets[i] = IF s = at /\ i = pos THEN None ELSE wheel[s].packets[i]
  BY <1>2, <1>3
<1>9. ShapeTypeOK'
  BY <1>2, <1>6, <1>7, <1>8 DEF ShapeTypeOK
<1>10. Filled'
  <2>1. wheel[at].n = pos
    BY <1>2 DEF InOrder, SenderInStep
  <2>2. ASSUME NEW s \in Slot, NEW i \in Entry
        PROVE  InUse(s, i)' <=> InUse(s, i) /\ ~(s = at /\ i = pos)
    <3>1. i \in Int /\ pos \in Int
      BY <1>3, Constants DEF Entry
    <3> QED
      BY <1>2, <1>8, <2>1, <3>1 DEF InUse
  <2> QED
    BY <1>8, <2>2 DEF InOrder, Filled
<1>11. SenderInStep'
  BY <1>2 DEF InOrder, SenderInStep
<1>12. ASSUME NEW c \in Buf, NEW x \in Slot \X Entry
       PROVE  wheel'[x[1]].packets[x[2]] = c <=> wheel[x[1]].packets[x[2]] = c /\ x # e
  <2>1. x[1] \in Slot /\ x[2] \in Entry /\ x = <<x[1], x[2]>>
    OBVIOUS
  <2>2. x = e <=> x[1] = at /\ x[2] = pos
    BY <1>1, <2>1
  <2> QED
    BY <1>3, <1>8, <2>1, <2>2
<1>13. IsFree(b)'
  <2>1. SpotsOf(b)' = {}
    BY <1>4, <1>5, <1>12 DEF InWheel, SpotsOf
  <2>2. JobsOf(b)' = {} /\ free'[b] = 1
    BY <1>2, <1>3, <1>4, <1>5, <1>6 DEF InWheel, JobsOf
  <2> QED
    BY <2>1, <2>2 DEF IsFree
<1>14. ASSUME NEW c \in Buf \ {b} PROVE SamePlace(c)
  <2>1. \A x \in Slot \X Entry : wheel'[x[1]].packets[x[2]] = c <=> wheel[x[1]].packets[x[2]] = c
    BY <1>1, <1>12
  <2>2. SpotsOf(c)' = SpotsOf(c)
    BY <2>1 DEF SpotsOf
  <2>3. JobsOf(c)' = JobsOf(c) /\ free'[c] = free[c]
    BY <1>2, <1>3, <1>6 DEF JobsOf
  <2> QED
    BY <2>2, <2>3 DEF SamePlace
<1>15. OncePlaced'
  BY <1>4, <1>13, <1>14, OtherStay DEF InOrder, Placed
<1>16. JobsReady'
  BY <1>2 DEF InOrder, JobsReady
<1>17. OnTime'
  BY <1>2, <1>8 DEF InOrder, OnTime, Due, Ahead
<1> QED
  BY <1>6, <1>9, <1>10, <1>11, <1>15, <1>16, <1>17 DEF InOrder

LEMMA SleepStep ==
  ASSUME ShapeTypeOK, InOrder, Sleep
  PROVE  ShapeTypeOK' /\ InOrder'
<1>1. /\ UNCHANGED <<last, curr, wheel, pool, job, left, lapped>>
      /\ spc = "empty" /\ wheel[at].n = 0 /\ spc' = "sleep" /\ at' = 0 /\ pos' = 0
  BY DEF Sleep
<1>2. 0 \in Slot /\ 0 \in Entry /\ at \in Slot
  BY Constants DEF Slot, Entry, ShapeTypeOK
<1>3. ShapeTypeOK'
  BY <1>1, <1>2 DEF ShapeTypeOK, pool
<1>4. Filled' /\ SenderInStep'
  BY <1>1 DEF InOrder, Filled, InUse, SenderInStep
<1>5. \A b \in Buf : SamePlace(b)
  BY <1>1 DEF SamePlace, JobsOf, SpotsOf, pool
<1>6. OncePlaced'
  BY <1>5, AllStay DEF InOrder
<1>7. JobsReady' /\ Counted'
  BY <1>1 DEF InOrder, JobsReady, Counted, Free, pool
<1>8. ASSUME NEW i \in Entry PROVE wheel[at].packets[i] = None
  <2>1. ~InUse(at, i)
    <3>1. i \in Nat
      BY Constants DEF Entry
    <3> QED
      BY <1>1, <3>1 DEF InUse
  <2> QED
    BY <1>2, <2>1 DEF InOrder, Filled
<1>9. OnTime'
  BY <1>1, <1>8 DEF InOrder, OnTime, Due, Ahead
<1> QED
  BY <1>3, <1>4, <1>6, <1>7, <1>9 DEF InOrder
-----------------------------------------------------------------------------
LEMMA ShapeInitInv ==
  ASSUME ShapeInit
  PROVE  ShapeTypeOK /\ InOrder
<1>1. /\ last = None /\ curr = 0 /\ spc = "sleep" /\ at = 0 /\ pos = 0 /\ lapped = FALSE
      /\ wheel = [s \in Slot |-> [n |-> 0, packets |-> [i \in Entry |-> None]]]
      /\ free = [b \in Buf |-> 1] /\ lastFree = Cardinality(Buf) - 1
      /\ job = [r \in Relay |-> NoJob] /\ left = [b \in Buf |-> 0]
  BY DEF ShapeInit
<1>2. /\ 0 \in Slot /\ 0 \in Entry /\ 0 \in 0 .. SlotMax /\ 0 \in 0 .. Turns
      /\ None \notin Buf /\ Cardinality(Buf) \in Nat
  BY Constants DEF Slot, Entry
<1>3. NoJob \in [delay : (1 .. MaxBacklog) \cup {None}, buf : Buf \cup {None}] /\ NoJob.buf = None
  BY DEF NoJob
<1>4. free \in [Buf -> 0 .. Cardinality(Buf)]
  <2>1. ASSUME NEW b \in Buf PROVE 1 \in 0 .. Cardinality(Buf)
    <3>1. Cardinality(Buf) # 0
      BY Constants, FS_EmptySet
    <3> QED
      BY <1>2, <3>1
  <2> QED
    BY <1>1, <2>1
<1>5. ShapeTypeOK
  <2>1. wheel \in [Slot -> [n : 0 .. SlotMax, packets : [Entry -> Buf \cup {None}]]]
    BY <1>1, <1>2
  <2>2. lastFree \in -1 .. Cardinality(Buf) - 1
    BY <1>1, <1>2
  <2>3. /\ job \in [Relay -> [delay : (1 .. MaxBacklog) \cup {None}, buf : Buf \cup {None}]]
        /\ left \in [Buf -> 0 .. Turns]
    BY <1>1, <1>2, <1>3
  <2> QED
    BY <1>1, <1>2, <1>4, <2>1, <2>2, <2>3 DEF ShapeTypeOK
<1>6. \A s \in Slot, i \in Entry : wheel[s].n = 0 /\ wheel[s].packets[i] = None
  BY <1>1
<1>7. Filled /\ SenderInStep /\ JobsReady /\ OnTime
  <2>1. \A i \in Entry : ~(i < 0)
    BY Constants DEF Entry
  <2> QED
    BY <1>1, <1>3, <1>6, <2>1 DEF Filled, InUse, SenderInStep, JobsReady, OnTime
<1>8. OncePlaced
  <2>1. ASSUME NEW b \in Buf PROVE IsFree(b)
    <3>1. JobsOf(b) = {}
      BY <1>1, <1>2, <1>3 DEF JobsOf
    <3>2. SpotsOf(b) = {}
      <4>1. \A e \in Slot \X Entry : wheel[e[1]].packets[e[2]] # b
        BY <1>2, <1>6
      <4> QED
        BY <4>1 DEF SpotsOf
    <3> QED
      BY <1>1, <3>1, <3>2 DEF IsFree
  <2> QED
    BY <2>1 DEF OncePlaced, Placed
<1>9. Counted
  <2>1. Free = Buf
    BY <1>1 DEF Free
  <2> QED
    BY <1>1, <1>2, <2>1 DEF Counted
<1> QED
  BY <1>5, <1>7, <1>8, <1>9 DEF InOrder

LEMMA ShapeStep ==
  ASSUME ShapeInv, [ShapeNext]_shape
  PROVE  ShapeInv'
<1>1. CASE UNCHANGED shape
  <2>1. ShapeTypeOK'
    BY <1>1 DEF shape, ShapeInv, ShapeTypeOK
  <2>2. ASSUME InOrder PROVE InOrder'
    <3>1. \A b \in Buf : SamePlace(b)
      BY <1>1 DEF shape, SamePlace, JobsOf, SpotsOf
    <3>2. OncePlaced'
      BY <2>2, <3>1, AllStay DEF InOrder
    <3>3. Filled' /\ SenderInStep' /\ OnTime'
      BY <1>1, <2>2 DEF shape, InOrder, Filled, InUse, SenderInStep, OnTime, Due, Ahead
    <3>4. JobsReady' /\ Counted'
      BY <1>1, <2>2 DEF shape, InOrder, JobsReady, Counted, Free
    <3> QED
      BY <3>2, <3>3, <3>4 DEF InOrder
  <2> QED
    BY <1>1, <2>1, <2>2 DEF shape, ShapeInv
<1>2. CASE ShapeNext
  <2>1. ShapeTypeOK /\ InOrder
    BY <1>2 DEF ShapeNext, ShapeInv
  <2>2. CASE NewContext \/ DelContext \/ Pass
    BY <2>1, <2>2, TimeStep DEF ShapeInv
  <2>3. ASSUME NEW r \in Relay, RelayStep(r) PROVE ShapeInv'
    <3>1. CASE Schedule(r)
      BY <2>1, <3>1, ScheduleStep DEF ShapeInv
    <3>2. CASE TakeBuf(r)
      BY <2>1, <3>2, TakeStep DEF ShapeInv
    <3>3. CASE Refuse(r)
      BY <2>1, <3>3, RefuseStep DEF ShapeInv
    <3>4. CASE Delay(r)
      BY <2>1, <3>4, DelayStep DEF ShapeInv
    <3> QED
      BY <2>3, <3>1, <3>2, <3>3, <3>4 DEF RelayStep
  <2>4. CASE Turn
    BY <2>1, <2>4, TurnStep DEF ShapeInv
  <2>5. CASE SendTop
    BY <2>1, <2>5, SendStep DEF ShapeInv
  <2>6. CASE CountDown
    BY <2>1, <2>6, CountStep DEF ShapeInv
  <2>7. CASE FreeSent
    BY <2>1, <2>7, FreeStep DEF ShapeInv
  <2>8. CASE Sleep
    BY <2>1, <2>8, SleepStep DEF ShapeInv
  <2> QED
    BY <1>2, <2>2, <2>3, <2>4, <2>5, <2>6, <2>7, <2>8 DEF ShapeNext, SenderStep
<1> QED
  BY <1>1, <1>2

(* Types, what is in use, how many buffers are free and how long every     *)
(* packet still waits, until a relay reaches the slot being emptied.       *)
THEOREM ShapeInvariant == ShapeSpec => []ShapeInv
<1>1. ShapeInit => ShapeInv
  BY ShapeInitInv DEF ShapeInv
<1>2. ShapeInv /\ [ShapeNext]_shape => ShapeInv'
  BY ShapeStep
<1> QED
  BY <1>1, <1>2, PTL DEF ShapeSpec

(* A buffer is free, or with one relay, or in one entry of the wheel: the  *)
(* sender gives each back once although it empties its slot without the    *)
(* mutex (shape.c:296-314, 325-359; memgmt.c:43-68).                       *)
THEOREM BuffersOnce == ShapeSpec => []BufferOnce
<1>1. ShapeInv => BufferOnce
  BY PlacedMeansOnce DEF ShapeInv, InOrder, BufferOnce
<1> QED
  BY <1>1, ShapeInvariant, PTL

(* The sender sends a packet in the turn its delay came to, wherever the   *)
(* wheel was turned to while relays brought others (shape.c:290-297,       *)
(* 325-349).                                                               *)
THEOREM PacketsInTurn == ShapeSpec => InItsTurn
<1>1. ASSUME ShapeInv, ShapeNext, spc = "empty", spc' = "sent"
      PROVE  left[wheel[at].packets[pos']] = 0
  <2>1. ShapeTypeOK /\ InOrder
    BY <1>1 DEF ShapeNext, ShapeInv
  <2>2. CASE SendTop
    BY <2>1, <2>2, SendStep
  <2>3. CASE NewContext \/ DelContext \/ Pass \/ \E r \in Relay : RelayStep(r)
    <3>1. UNCHANGED spc
      BY <2>3 DEF NewContext, DelContext, Pass, RelayStep, Schedule, TakeBuf, Refuse, Delay, sender
    <3> QED
      BY <1>1, <3>1
  <2>4. CASE Turn \/ CountDown \/ FreeSent \/ Sleep
    BY <1>1, <2>4 DEF Turn, CountDown, FreeSent, Sleep
  <2> QED
    BY <1>1, <2>2, <2>3, <2>4 DEF ShapeNext, SenderStep
<1>2. ShapeInv /\ [ShapeNext]_shape
        => [spc = "empty" /\ spc' = "sent" => left[wheel[at].packets[pos']] = 0]_shape
  BY <1>1
<1> QED
  BY <1>2, ShapeInvariant, PTL DEF ShapeSpec, InItsTurn
=============================================================================
