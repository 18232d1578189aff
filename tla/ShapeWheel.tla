----------------------------- MODULE ShapeWheel -----------------------------
(***************************************************************************)
(* The traffic shaper (shape.c, memgmt.c).  A context remembers until when *)
(* the rate of its user is spent; a packet that comes earlier is copied to *)
(* a buffer and put into a wheel of time slots.  A sending thread turns    *)
(* the wheel and sends what is in the slot it leaves.  Relays fill slots   *)
(* under a mutex; the sender turns the wheel under it, but empties the     *)
(* slot without.                                                           *)
(*                                                                         *)
(* Abstractions: one context and one direction, whose wheel several relays *)
(* fill; a packet is the time it costs at its rule's rate; times are       *)
(* relative to now.  Entries of a slot that are no longer in use are       *)
(* cleared.  left and lapped are history variables.  A relay that reaches  *)
(* the slot being emptied races with the sender on plain memory: what the  *)
(* program does from then on is undefined, and behaviours end there.       *)
(***************************************************************************)
EXTENDS Integers, FiniteSets

CONSTANTS
  Relay,      \* packet relay threads
  Buf,        \* bufs
  Frq,        \* SW_SHAPE_QUEUE_PROCESS_FRQ
  Turns,      \* SW_SHAPE_GLOBAL_TIME_QUEUE_LENGTH
  SlotMax,    \* SW_SHAPE_PACKET_PROCESS_MAX
  Cost,       \* times packets may cost
  MaxBacklog, \* bound on the time a user is ahead of the rate
  None        \* no buffer, no context, no packet in hand

StoreMax == Turns * Frq  \* SW_SHAPE_PACKET_TIME_STORE_MAX

ASSUME ShapeAssumption ==
  /\ Frq \in Nat \ {0} /\ Turns \in Nat \ {0, 1} /\ SlotMax \in Nat \ {0}
  /\ Cost \subseteq 0 .. MaxBacklog /\ Cost # {} /\ MaxBacklog \in Nat
  /\ None \notin Buf \cup Int /\ IsFiniteSet(Buf)

VARIABLES
  last,    \* last_packet_time, from now; None without a context
  curr,    \* curr_time_ptr
  wheel,   \* timeslots
  free,    \* free_buf_idx up to last_free_buf: how often each buffer is in it
  lastFree, \* last_free_buf
  job,     \* the packet each relay is about to delay
  spc,     \* where the sender is
  at,      \* the slot it empties
  pos,     \* packet_idx
  left,    \* how many turns a packet in the wheel still has to wait for
  lapped   \* a relay put a packet into the slot being emptied

shape == <<last, curr, wheel, free, lastFree, job, spc, at, pos, left, lapped>>
sender == <<curr, spc, at, pos>>
pool == <<free, lastFree>>

Slot == 0 .. Turns - 1
Entry == 0 .. SlotMax - 1
NoJob == [delay |-> None, buf |-> None]
Held == {b \in Buf : free[b] = 0}
-----------------------------------------------------------------------------
(* sw_memgmt_get_buf and sw_memgmt_free_buf.  The list of free buffers is  *)
(* how often each is in it; it ignores what comes back when it is full.    *)

Some == CHOOSE b \in Buf : free[b] > 0

GetBuf ==
  /\ lastFree # -1
  /\ free' = [free EXCEPT ![Some] = @ - 1]
  /\ lastFree' = lastFree - 1

FreeBuf(b) ==
  IF lastFree = Cardinality(Buf) - 1 THEN UNCHANGED pool
  ELSE /\ free' = [free EXCEPT ![b] = @ + 1]
       /\ lastFree' = lastFree + 1
-----------------------------------------------------------------------------
(* sw_shape_new, sw_shape_del: a context that never saw a packet is as one *)
(* that has been idle; idle time beyond MaxBacklog makes no difference.    *)

NewContext ==
  /\ last = None
  /\ last' = -MaxBacklog
  /\ UNCHANGED <<sender, wheel, pool, job, left, lapped>>

DelContext ==
  /\ last # None
  /\ last' = None
  /\ UNCHANGED <<sender, wheel, pool, job, left, lapped>>
-----------------------------------------------------------------------------
(* A relay with a packet to shape *)

(* sw_shape_schedule: the packet is dropped without a context, sent at     *)
(* once if the rate allows, or else to be delayed.  The time is spent even *)
(* if the packet is dropped later.                                         *)
Schedule(r) ==
  /\ job[r] = NoJob /\ last # None
  /\ \E c \in Cost :
       /\ last + c <= MaxBacklog
       /\ last' = IF last + c > 0 THEN last + c ELSE 0
       /\ job' = IF last + c > 0 THEN [job EXCEPT ![r].delay = last + c] ELSE job
  /\ UNCHANGED <<sender, wheel, pool, left, lapped>>

TakeBuf(r) ==
  /\ job[r].delay # None /\ job[r].buf = None
  /\ \/ /\ GetBuf
        /\ job' = [job EXCEPT ![r].buf = Some]
     \/ /\ lastFree = -1
        /\ job' = [job EXCEPT ![r] = NoJob]
        /\ UNCHANGED pool
  /\ UNCHANGED <<last, sender, wheel, left, lapped>>

(* Mutant of SlotFor: rounded up, the farthest delay is a whole turn.      *)
SlotForRounded(d) ==
  LET i == curr + (d + Frq - 1) \div Frq IN IF i >= Turns THEN i - Turns ELSE i

SlotFor(d) == LET i == curr + d \div Frq IN IF i >= Turns THEN i - Turns ELSE i

(* sw_shape_delay refuses: too late a time, or the slot is full.           *)
TooLate(r) == job[r].delay >= StoreMax
Full(s) == wheel[s].n >= SlotMax

Refuse(r) ==
  /\ job[r].buf # None
  /\ TooLate(r) \/ Full(SlotFor(job[r].delay))
  /\ FreeBuf(job[r].buf)
  /\ job' = [job EXCEPT ![r] = NoJob]
  /\ UNCHANGED <<last, sender, wheel, left, lapped>>

Delay(r) ==
  LET s == SlotFor(job[r].delay) IN
  /\ job[r].buf # None /\ ~TooLate(r) /\ ~Full(s)
  /\ wheel' = [wheel EXCEPT ![s].n = @ + 1, ![s].packets[wheel[s].n] = job[r].buf]
  /\ job' = [job EXCEPT ![r] = NoJob]
  /\ lapped' = (lapped \/ (spc # "sleep" /\ s = at))
  /\ left' = [left EXCEPT ![job[r].buf] = job[r].delay \div Frq + 1]
  /\ UNCHANGED <<last, sender, pool>>

RelayStep(r) == Schedule(r) \/ TakeBuf(r) \/ Refuse(r) \/ Delay(r)
-----------------------------------------------------------------------------
(* sw_shape_queue_process, from run *)

(* Mutant of NextTurn: the wheel does not come round.                      *)
NextTurnOn == curr + 1

NextTurn == IF curr = Turns - 1 THEN 0 ELSE curr + 1

(* The wheel is turned under the mutex, once in SW_SHAPE_QUEUE_PROCESS_FRQ *)
(* or, when the sender is behind, less often.                              *)
Turn ==
  /\ spc = "sleep"
  /\ at' = curr
  /\ curr' = NextTurn
  /\ spc' = "empty"
  /\ left' = [b \in Buf |-> IF left[b] > 0 THEN left[b] - 1 ELSE 0]
  /\ UNCHANGED <<last, wheel, pool, job, pos, lapped>>

SendTop ==
  /\ spc = "empty" /\ wheel[at].n > 0
  /\ pos' = wheel[at].n - 1
  /\ spc' = "sent"
  /\ UNCHANGED <<last, curr, wheel, pool, job, at, left, lapped>>

(* next_free_slot-- races with the ++ of a relay.                          *)
CountDown ==
  /\ spc = "sent"
  /\ \E n \in {pos, wheel[at].n - 1} : wheel' = [wheel EXCEPT ![at].n = n]
  /\ spc' = "free"
  /\ UNCHANGED <<last, curr, pool, job, at, pos, left, lapped>>

(* Mutant of FreeSent: the buffers stay taken.                             *)
FreeSentNot ==
  /\ spc = "free"
  /\ wheel' = [wheel EXCEPT ![at].packets[pos] = None]
  /\ spc' = "empty"
  /\ UNCHANGED <<last, curr, pool, job, at, pos, left, lapped>>

(* The entry is read once more to give its buffer back.                    *)
FreeSent ==
  /\ spc = "free"
  /\ FreeBuf(wheel[at].packets[pos])
  /\ wheel' = [wheel EXCEPT ![at].packets[pos] = None]
  /\ spc' = "empty"
  /\ UNCHANGED <<last, curr, job, at, pos, left, lapped>>

Sleep ==
  /\ spc = "empty" /\ wheel[at].n = 0
  /\ spc' = "sleep" /\ at' = 0 /\ pos' = 0
  /\ UNCHANGED <<last, curr, wheel, pool, job, left, lapped>>

SenderStep == Turn \/ SendTop \/ CountDown \/ FreeSent \/ Sleep
-----------------------------------------------------------------------------
(* A unit of time passes.                                                  *)
Pass ==
  /\ last \notin {None, -MaxBacklog}
  /\ last' = last - 1
  /\ UNCHANGED <<sender, wheel, pool, job, left, lapped>>

ShapeInit ==
  /\ last = None /\ curr = 0
  /\ wheel = [s \in Slot |-> [n |-> 0, packets |-> [i \in Entry |-> None]]]
  /\ free = [b \in Buf |-> 1] /\ lastFree = Cardinality(Buf) - 1
  /\ job = [r \in Relay |-> NoJob]
  /\ spc = "sleep" /\ at = 0 /\ pos = 0
  /\ left = [b \in Buf |-> 0] /\ lapped = FALSE

ShapeNext ==
  /\ ~lapped
  /\ \/ NewContext \/ DelContext
     \/ \E r \in Relay : RelayStep(r)
     \/ SenderStep
     \/ Pass

(* The threads run; users need not send.                                   *)
ShapeSpec ==
  /\ ShapeInit /\ [][ShapeNext]_shape
  /\ WF_shape(~lapped /\ SenderStep)
  /\ \A r \in Relay : WF_shape(~lapped /\ (TakeBuf(r) \/ Refuse(r) \/ Delay(r)))
-----------------------------------------------------------------------------
(* Properties *)

(* Types; every slot number a delay leads to is one of the wheel.          *)
ShapeTypeOK ==
  /\ last \in -MaxBacklog .. MaxBacklog \cup {None}
  /\ curr \in Slot /\ at \in Slot /\ pos \in Entry
  /\ wheel \in [Slot -> [n : 0 .. SlotMax, packets : [Entry -> Buf \cup {None}]]]
  /\ free \in [Buf -> 0 .. Cardinality(Buf)] /\ lastFree \in -1 .. Cardinality(Buf) - 1
  /\ job \in [Relay -> [delay : (1 .. MaxBacklog) \cup {None}, buf : Buf \cup {None}]]
  /\ spc \in {"sleep", "empty", "sent", "free"}
  /\ left \in [Buf -> 0 .. Turns] /\ lapped \in BOOLEAN

(* In how many places a buffer is: free, with a relay, in a slot (where    *)
(* the one being freed still counts).                                      *)
Places(b) ==
  free[b] + Cardinality({r \in Relay : job[r].buf = b})
          + Cardinality({e \in Slot \X Entry : wheel[e[1]].packets[e[2]] = b})

(* A buffer is in one place: no packet is sent twice, sent from memory     *)
(* that was given away, or lost with its buffer, although the sender       *)
(* empties its slot without the mutex.  Only a packet put into this slot   *)
(* can break that (shape.c:296-314, 325-359).                              *)
BufferOnce == ShapeTypeOK /\ (lapped \/ \A b \in Buf : Places(b) = 1)

(* A packet leaves in the turn its delay comes to, neither earlier nor     *)
(* later, wherever the wheel was turned to while relays scheduled it, took *)
(* a buffer and put it in: as a turn takes at least a tick, no packet      *)
(* leaves a tick or more before its time (shape.c:290-297, 325-349).       *)
InItsTurn ==
  [][spc = "empty" /\ spc' = "sent" => left[wheel[at].packets[pos']] = 0]_shape

(* Every buffer comes back: no packet stays in the wheel for good          *)
(* (shape.c:346-359; memgmt.c:59-68).                                      *)
Drains == \A b \in Buf : b \in Held ~> (b \notin Held \/ lapped)
=============================================================================
