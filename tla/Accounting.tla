----------------------------- MODULE Accounting -----------------------------
(***************************************************************************)
(* The sessions and gauges of Session with the queue of AcctQueue: what    *)
(* the accounting records say about the sessions they are about.           *)
(*                                                                         *)
(* sw_acct_submit (session.c) puts a record into the queue; the pass of    *)
(* the maintenance thread comes after sw_gauge_expire and                  *)
(* sw_session_expire and before sw_filter_reload (sweetspot.c), and looks  *)
(* for the session and for the gauge when it gets to the record, not when  *)
(* the record was made.                                                    *)
(***************************************************************************)
EXTENDS Session, Sequences

CONSTANT MaxSubmit    \* bound: records submitted in a behaviour

ASSUME AccountingOK == MaxSubmit \in Nat

VARIABLES chain, batch, retry, stage, written, lost, mode, count

Record == [ip : IP, type : AcctType]

Queue == INSTANCE AcctQueue WITH Stops <- {}

queue == <<chain, batch, retry, stage, written, lost, mode, count>>

(* What a scope handler finds for the record in work.                      *)
Found(e) ==
  CASE e.scope + 1 = Queue!Session ->
         /\ session[e.what.ip] # NoEntry
         /\ session[e.what.ip].filter \in loaded \cup {NoFilter}
    [] e.scope + 1 = Queue!Gauge -> gauge[e.what.ip] # NoEntry
    [] OTHER -> TRUE

(* Mutant of Recording: nothing is queued while a pass has the chain.      *)
RecordingIdleOnly ==
  \/ ledger' = ledger /\ UNCHANGED queue
  \/ \E rec \in Record :
       /\ ledger' = [ledger EXCEPT ![rec.ip][rec.type] = @ + 1]
       /\ IF mode = "idle" THEN Queue!Submit(rec) ELSE UNCHANGED queue

(* Each record that is added to the ledger goes into the queue.            *)
Recording ==
  \/ ledger' = ledger /\ UNCHANGED queue
  \/ \E rec \in Record :
       /\ ledger' = [ledger EXCEPT ![rec.ip][rec.type] = @ + 1]
       /\ Queue!Submit(rec)

(* While the maintenance thread is in its pass it does nothing else.       *)
SessionStep ==
  /\ Next /\ ~SessionsDone
  /\ mode = "pass" => pc'[Maint] = pc[Maint] /\ loaded' = loaded
  /\ Recording

StartPass == SessionsDone /\ Queue!BeginPass

AcctPass ==
  /\ \/ Queue!Write \/ Queue!WriteFails \/ Queue!EndPass
     \/ batch # <<>> /\ Queue!BuildScope(Found(Head(batch)))
  /\ UNCHANGED vars

AccountingInit == Init /\ Queue!QueueInit

AccountingNext == SessionStep \/ StartPass \/ AcctPass

AccountingSpec == AccountingInit /\ [][AccountingNext]_<<vars, queue>>
-----------------------------------------------------------------------------
(* Properties *)

(* The records that wait or are in the file.                               *)
Submitted == Queue!Entries(Queue!Pending) \cup Queue!Entries(written)

(* The queue holds what the ledger counts: no record is made without being *)
(* queued, and none is queued twice.                                       *)
LedgerQueued ==
  \A rec \in Record :
    ledger[rec.ip][rec.type] = Cardinality({e \in Submitted : e.what = rec})

(* How often rec is among the first n records submitted.                   *)
Among(n, rec) == Cardinality({e \in Submitted : e.id <= n /\ e.what = rec})

(* Records are submitted after the lock of the session is given back, so   *)
(* that a stop may come into the queue before its start.  Read in the      *)
(* order of submission, whatever a pass has made of the records since, no  *)
(* more stops of an address get ahead of their starts than there are       *)
(* workers between the release of a session and its record (uamsrv.c,      *)
(* session.c).                                                             *)
StopsAheadBounded ==
  \A ip \in IP, n \in 0 .. count :
    Among(n, [ip |-> ip, type |-> "stop"]) <=
      Among(n, [ip |-> ip, type |-> "start"]) + Cardinality(Uam)
=============================================================================
