------------------------------ MODULE AcctQueue ------------------------------
(***************************************************************************)
(* The accounting queue of the Sweetspot daemon (acct.c, acct_scope.c,     *)
(* acct_method.c, acct_method_detail.c).  Any thread submits records; once *)
(* a second the maintenance thread takes the whole chain, collects for     *)
(* each record the facts about its session (the scope), writes it to the   *)
(* detail file, and puts what could not be collected or written back at    *)
(* the head of the chain.  At shutdown the main thread stops all sessions  *)
(* and runs one last pass, in which nothing is put back.                   *)
(*                                                                         *)
(* Abstractions: a record is what was submitted, its number, and how many  *)
(* of the scope handlers have contributed to it; whether a handler finds   *)
(* its session, gauge or SNAT endpoint, and whether the detail file can be *)
(* written, are choices.  Memory allocation does not fail, and DETAIL is   *)
(* the only method that is registered.                                     *)
(***************************************************************************)
EXTENDS Naturals, FiniteSets, Sequences

CONSTANTS
  Record,     \* what may be submitted
  Stops,      \* what sw_session_destroy may submit, a set of sequences over Record
  MaxSubmit   \* bound: records submitted in a behaviour

Event   == 1   \* the scope handlers, in the order of their table
Session == 2
Gauge   == 3
Snat    == 4

ASSUME QueueConstantsOK == MaxSubmit \in Nat /\ Stops \subseteq Seq(Record)

VARIABLES
  chain,    \* global_acct_chain
  batch,    \* what is left of the chain a pass has taken; its head is in work
  retry,    \* retry_head .. retry_tail
  stage,    \* what the pass does with the head of batch
  written,  \* the detail file
  lost,     \* records given up
  mode,     \* who runs a pass, if any
  count     \* records submitted so far

queue == <<chain, batch, retry, stage, written, lost, mode, count>>

Numbered == [what : Record, id : 1..MaxSubmit, scope : 0..Snat]

Entries(s) == {s[i] : i \in 1..Len(s)}

Ids(s) == {e.id : e \in Entries(s)}

Ordered(s) == \A i, j \in 1..Len(s) : i < j => s[i].id < s[j].id
-----------------------------------------------------------------------------
(* Mutant of StageOf: only a complete scope is good enough to be written.  *)
StageOfComplete(entries) ==
  IF entries # <<>> /\ Head(entries).scope = Snat THEN "commit" ELSE "build"

(* A record that already has a scope, be it in part, goes on to be written *)
(* (sw_acct_init_scope).                                                   *)
StageOf(entries) == IF entries # <<>> /\ Head(entries).scope > 0 THEN "commit" ELSE "build"

Renumber(whats) == [i \in 1..Len(whats) |-> [what |-> whats[i], id |-> count + i, scope |-> 0]]

(* sw_acct_submit *)
Submit(what) ==
  /\ mode \in {"idle", "pass"} /\ count < MaxSubmit
  /\ chain' = chain \o Renumber(<<what>>)
  /\ count' = count + 1
  /\ UNCHANGED <<batch, retry, stage, written, lost, mode>>

(* sw_acct_commit(0) takes the chain.                                      *)
BeginPass ==
  /\ mode = "idle"
  /\ mode' = "pass" /\ batch' = chain /\ chain' = <<>> /\ stage' = StageOf(chain)
  /\ UNCHANGED <<retry, written, lost, count>>

NextEntry == batch' = Tail(batch) /\ stage' = StageOf(Tail(batch))

(* The next scope handler runs for the record in work.  When it does not   *)
(* find what it looks for, the record keeps the scope collected so far.    *)
BuildScope(found) ==
  LET e == Head(batch) IN
  /\ mode = "pass" /\ batch # <<>> /\ stage = "build"
  /\ found \/ e.scope # Event - 1
  /\ IF found
     THEN /\ batch' = [batch EXCEPT ![1].scope = @ + 1]
          /\ stage' = IF e.scope + 1 = Snat THEN "commit" ELSE "build"
          /\ UNCHANGED retry
     ELSE retry' = Append(retry, e) /\ NextEntry
  /\ UNCHANGED <<chain, written, lost, mode, count>>

(* sw_acct_method_commit: what the DETAIL method cannot write is kept for  *)
(* the next pass, and given up by the last one.                            *)
Write ==
  /\ mode \in {"pass", "final"} /\ batch # <<>> /\ stage = "commit"
  /\ written' = Append(written, Head(batch))
  /\ NextEntry
  /\ UNCHANGED <<chain, retry, lost, mode, count>>

WriteFails ==
  /\ mode \in {"pass", "final"} /\ batch # <<>> /\ stage = "commit"
  /\ IF mode = "pass"
     THEN retry' = Append(retry, Head(batch)) /\ UNCHANGED lost
     ELSE lost' = lost \cup {Head(batch)} /\ UNCHANGED retry
  /\ NextEntry
  /\ UNCHANGED <<chain, written, mode, count>>

(* Mutants of EndPass: the retries go behind the chain ...                 *)
EndPassBehind ==
  /\ mode \in {"pass", "final"} /\ batch = <<>>
  /\ chain' = chain \o retry /\ retry' = <<>>
  /\ mode' = IF mode = "pass" THEN "idle" ELSE "closed"
  /\ UNCHANGED <<batch, stage, written, lost, count>>

(* ... or replace it, when the chain is not linked to the last of them.    *)
EndPassUnlinked ==
  /\ mode \in {"pass", "final"} /\ batch = <<>>
  /\ chain' = (IF retry = <<>> THEN chain ELSE retry) /\ retry' = <<>>
  /\ mode' = IF mode = "pass" THEN "idle" ELSE "closed"
  /\ UNCHANGED <<batch, stage, written, lost, count>>

(* What is to be retried goes before what was submitted meanwhile.         *)
EndPass ==
  /\ mode \in {"pass", "final"} /\ batch = <<>>
  /\ chain' = retry \o chain /\ retry' = <<>>
  /\ mode' = IF mode = "pass" THEN "idle" ELSE "closed"
  /\ UNCHANGED <<batch, stage, written, lost, count>>

(* The daemon goes down: the maintenance thread is cancelled, wherever its *)
(* pass is, sw_session_destroy stops the sessions that are up and frees    *)
(* the pool, and sw_acct_commit(1) takes the chain.                        *)
Shutdown(stops) ==
  LET entries == chain \o Renumber(stops) IN
  /\ mode \in {"idle", "pass"} /\ count + Len(stops) <= MaxSubmit
  /\ lost' = lost \cup Entries(retry \o batch)
  /\ batch' = entries /\ stage' = StageOf(entries)
  /\ chain' = <<>> /\ retry' = <<>>
  /\ mode' = "final" /\ count' = count + Len(stops)
  /\ UNCHANGED written

(* The last pass collects the event, then looks into the session pool that *)
(* is no longer there.                                                     *)
BuildFinal ==
  /\ mode = "final" /\ batch # <<>> /\ stage = "build"
  /\ mode' = "crashed"
  /\ batch' = [batch EXCEPT ![1].scope = Event]
  /\ UNCHANGED <<chain, retry, stage, written, lost, count>>

PassStep ==
  \/ BeginPass \/ EndPass \/ Write \/ BuildFinal
  \/ \E found \in BOOLEAN : BuildScope(found)
-----------------------------------------------------------------------------
QueueInit ==
  /\ chain = <<>> /\ batch = <<>> /\ retry = <<>> /\ stage = "build"
  /\ written = <<>> /\ lost = {} /\ mode = "idle" /\ count = 0

QueueNext ==
  \/ \E what \in Record : Submit(what)
  \/ PassStep \/ WriteFails
  \/ \E stops \in Stops : Shutdown(stops)

QueueSpec == QueueInit /\ [][QueueNext]_queue

-----------------------------------------------------------------------------
(* Properties *)

(* Types of the queue.                                                     *)
QueueTypeOK ==
  /\ {chain, batch, retry, written} \subseteq Seq(Numbered)
  /\ stage \in {"build", "commit"}
  /\ lost \subseteq Numbered
  /\ mode \in {"idle", "pass", "final", "closed", "crashed"}
  /\ count \in 0..MaxSubmit

Pending == retry \o batch \o chain

(* PendingOrdered, part by part, with what keeps it so: the parts follow   *)
(* each other, and the scope in work is not complete.                      *)
Below(s, t) == \A i \in 1..Len(s), j \in 1..Len(t) : s[i].id < t[j].id

QueueInv ==
  /\ QueueTypeOK
  /\ stage = "build" /\ batch # <<>> => Head(batch).scope < Snat
  /\ Ordered(retry) /\ Ordered(batch) /\ Ordered(chain)
  /\ Below(retry, batch) /\ Below(retry, chain) /\ Below(batch, chain)
  /\ \A s \in {retry, batch, chain} : \A i \in 1..Len(s) : s[i].id <= count

(* What is still to be written stays in the order of submission, over all  *)
(* passes, retries and records that arrive meanwhile (sw_acct_commit puts  *)
(* the retries back before the chain and keeps their order).               *)
PendingOrdered == Ordered(Pending)

(* Every record submitted is in one place only: waiting, in the file once, *)
(* or given up; no retry writes a record twice or drops it.                *)
RecordsConserved ==
  /\ Ids(Pending) \cup Ids(written) \cup {e.id : e \in lost} = 1..count
  /\ Len(Pending) + Len(written) + Cardinality(lost) = count

=============================================================================
