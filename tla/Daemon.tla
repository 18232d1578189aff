------------------------------- MODULE Daemon -------------------------------
(***************************************************************************)
(* The life of the daemon (sweetspot.c): the start, when main makes the    *)
(* parts (Parts) and the threads, the receiving threads and the            *)
(* maintenance thread, the watchdog of the main thread that kills the      *)
(* process when one of them is silent for too long, the script that starts *)
(* it again, and the shutdown, when the parts are taken apart while        *)
(* threads that were cancelled may still run; with the accounting queue    *)
(* (AcctQueue) that these threads fill and write.                          *)
(*                                                                         *)
(* Time is counted in seconds, one to a turn of the main loop; ages do not *)
(* grow past what the watchdog asks.  A handler may take any time, and may *)
(* not come back (Stick).  The threads that send what was shaped and that  *)
(* collect SNAT relations are not watched and not here (ShapeWheel,        *)
(* SnatRelations).                                                         *)
(***************************************************************************)
EXTENDS AcctQueue, Parts

CONSTANTS
  Worker,    \* relay and UAM threads (thread_qnty, uam-thread-qnty)
  Maint,     \* the maintenance thread
  Timeout,   \* WATCHDOG_TIMEOUT_SEC
  Interval   \* WATCHDOG_CHECK_INTERVAL_SEC

Watched == Worker \cup {Maint}

ASSUME DaemonConstantsOK ==
  /\ Maint \notin Worker
  /\ Timeout \in Nat /\ Interval \in Nat \ {0}

VARIABLES
  alive,   \* global_alive_flag
  phase,   \* where the main thread is
  at,      \* where each watched thread is
  silent,  \* seconds since its last ping (g_watchdog)
  checked, \* seconds since the last look of the watchdog
  left     \* a lock was left by a thread that is stuck or cancelled

watch == <<silent, checked>>
life == <<alive, phase, at, silent, checked, left>>

(* The process is there.                                                   *)
Up == phase \notin {"ended", "killed"} /\ mode # "crashed"

Born(w) == at[w] # "unborn"

InHandler(w) == at[w] \in {"handler", "sweep", "pass", "reload"}

(* The threads were cancelled.                                             *)
Stopping == phase \in {"sessions", "stops", "pool", "gauges", "table", "shaper", "wheels", "commit",
                       "methods", "sockets"}

Moves(w, place) == at' = [at EXCEPT ![w] = place]
-----------------------------------------------------------------------------
(* The threads.  A turn of the loop begins with a ping; a handler follows  *)
(* when something was received, and every second in the maintenance thread.*)
Ping(w) ==
  /\ Up /\ alive /\ at[w] = "loop"
  /\ silent' = [silent EXCEPT ![w] = 0]
  /\ \/ Moves(w, IF w = Maint THEN "sweep" ELSE "handler")
     \/ UNCHANGED at
  /\ UNCHANGED <<alive, phase, checked, left, parts, queue>>

(* A UAM command or a packet over the limit, or the sweep over the gauges  *)
(* and sessions, make a record.                                            *)
MakeRecord(w) ==
  /\ Up /\ at[w] \in {"handler", "sweep"}
  /\ \E what \in Record : Submit(what)
  /\ UNCHANGED <<life, parts>>

Return(w) ==
  /\ Up /\ at[w] \in {"handler", "reload"}
  /\ Moves(w, "loop")
  /\ UNCHANGED <<alive, phase, watch, left, parts, queue>>

(* The pass is between the sweep and the reload of the filters.            *)
Pass ==
  /\ Up
  /\ \/ at[Maint] = "sweep" /\ BeginPass /\ Moves(Maint, "pass")
     \/ at[Maint] = "pass" /\ mode = "pass" /\ EndPass /\ Moves(Maint, "reload")
     \/ /\ at[Maint] = "pass" /\ mode = "pass"
        /\ Write \/ WriteFails \/ \E found \in BOOLEAN : BuildScope(found)
        /\ UNCHANGED at
  /\ UNCHANGED <<alive, phase, watch, left, parts>>

(* A socket fails, or the handler of a packet: all are told to stop.       *)
Fail(w) ==
  /\ Up /\ w \in Worker /\ at[w] \in {"loop", "handler"}
  /\ alive' = FALSE
  /\ Moves(w, "gone")
  /\ UNCHANGED <<phase, watch, left, parts, queue>>

LeaveLoop(w) ==
  /\ Up /\ ~alive /\ at[w] = "loop"
  /\ Moves(w, "gone")
  /\ UNCHANGED <<alive, phase, watch, left, parts, queue>>

(* A handler does not come back; it may have a lock.                       *)
Stick(w) ==
  /\ Up /\ InHandler(w)
  /\ Moves(w, "stuck")
  /\ left' \in {left, TRUE}
  /\ UNCHANGED <<alive, phase, watch, parts, queue>>

(* After the cancellation a thread ends where it waits or does input and   *)
(* output; a lock that it has then stays.  Nobody joins it.                *)
Cancelled(w) ==
  /\ Up /\ Stopping /\ at[w] \notin {"gone", "stuck", "unborn"}
  /\ Moves(w, "gone")
  /\ left' \in (IF InHandler(w) THEN {left, TRUE} ELSE {left})
  /\ UNCHANGED <<alive, phase, watch, parts, queue>>

(* ... or it is still in a handler when what it works on is taken apart,   *)
(* and is seen to: nothing keeps the process from going down with it.      *)
TooLate(w) ==
  /\ Up /\ Stopping /\ InHandler(w) /\ ~Whole
  /\ mode' = "crashed"
  /\ UNCHANGED <<life, parts, chain, batch, retry, stage, written, lost, count>>
-----------------------------------------------------------------------------
(* The main thread.                                                        *)

(* sig_hdl *)
Signal ==
  /\ Up /\ alive
  /\ alive' = FALSE
  /\ UNCHANGED <<phase, at, watch, left, parts, queue>>

(* main before its loop: the parts, then the threads.                      *)
Create ==
  /\ phase = "start" /\ CreatePart
  /\ UNCHANGED <<life, queue>>

CreateFails ==
  /\ phase = "start" /\ made # AllParts
  /\ phase' = "ended" /\ Gone
  /\ UNCHANGED <<alive, at, watch, left, queue>>

(* The maintenance thread is the last one.                                 *)
CreateThread(w) ==
  /\ phase = "start" /\ made = AllParts /\ ~Born(w)
  /\ w = Maint => \A v \in Worker : Born(v)
  /\ Moves(w, "loop")
  /\ silent' = [silent EXCEPT ![w] = 0]
  /\ UNCHANGED <<alive, phase, checked, left, parts, queue>>

EnterLoop ==
  /\ phase = "start" /\ \A w \in Watched : Born(w)
  /\ phase' = "watch"
  /\ UNCHANGED <<alive, at, watch, left, parts, queue>>

Older(n, bound) == IF n < bound THEN n + 1 ELSE n

(* A second passes.  The main loop has a turn in every one.                *)
Tick ==
  /\ phase = "watch" /\ checked < Interval
  /\ silent' = [w \in Watched |-> Older(silent[w], Timeout + Interval + 1)]
  /\ checked' = checked + 1
  /\ UNCHANGED <<alive, phase, at, left, parts, queue>>

(* Mutant of Suspects: the last of the threads is forgotten.               *)
SuspectsButLast == {w \in Worker : silent[w] > Timeout}

Suspects == {w \in Watched : silent[w] > Timeout}

Look ==
  /\ phase = "watch" /\ alive /\ checked >= Interval
  /\ checked' = 0
  /\ phase' = IF Suspects = {} THEN "watch" ELSE "killing"
  /\ UNCHANGED <<alive, at, silent, left, parts, queue>>

(* Ages are dropped where nobody will look at them.                        *)
AgesDropped == silent' = [w \in Watched |-> 0] /\ checked' = 0

(* Nothing of the process is left but the detail file.                     *)
Killed ==
  /\ phase = "killing" /\ Up
  /\ phase' = "killed"
  /\ lost' = lost \cup Entries(Pending)
  /\ chain' = <<>> /\ batch' = <<>> /\ retry' = <<>> /\ stage' = "build" /\ mode' = "idle"
  /\ alive' = FALSE /\ left' = FALSE
  /\ at' = [w \in Watched |-> "unborn"]
  /\ AgesDropped /\ Gone
  /\ UNCHANGED <<written, count>>

(* The script starts the daemon again.                                     *)
Restart ==
  /\ phase = "killed"
  /\ alive' = TRUE /\ phase' = "start"
  /\ UNCHANGED <<at, watch, left, parts, queue>>

(* Mutant of Leave: the cancelled threads are joined.                      *)
LeaveJoining ==
  /\ phase = "watch" /\ ~alive
  /\ \A w \in Watched : at[w] = "gone"
  /\ phase' = "sessions"
  /\ AgesDropped
  /\ UNCHANGED <<alive, at, left, parts, queue>>

(* The main thread leaves its loop and cancels the others.                 *)
Leave ==
  /\ phase = "watch" /\ ~alive
  /\ phase' = "sessions"
  /\ AgesDropped
  /\ UNCHANGED <<alive, at, left, parts, queue>>

GoesOn(here, next) == Up /\ phase = here /\ phase' = next

(* sw_session_destroy goes through all the chains of the pool, between     *)
(* what it does to the list of tables and to the pool itself.              *)
StopSessions ==
  /\ GoesOn("stops", "pool") /\ ~left
  /\ \E stops \in Stops : Shutdown(stops)
  /\ UNCHANGED <<alive, at, watch, left, parts>>

TakeApart ==
  /\ \/ GoesOn("sessions", "stops") /\ UnlistSessions
     \/ GoesOn("pool", "gauges") /\ DestroySessions
     \/ GoesOn("gauges", "table") /\ UnlistGauges
     \/ GoesOn("table", "shaper") /\ DestroyGauges
     \/ GoesOn("shaper", "wheels") /\ DestroyShaper
     \/ GoesOn("wheels", "commit") /\ DestroyWheels
     \/ GoesOn("methods", "sockets") /\ DestroyMethods
     \/ GoesOn("sockets", "sockets") /\ (DestroyInward \/ DestroyOutward \/ DestroyUam)
  /\ UNCHANGED <<alive, at, watch, left, queue>>

(* sw_acct_commit(1)                                                       *)
LastPass ==
  /\ phase = "commit" /\ mode = "final"
  /\ Write \/ WriteFails \/ BuildFinal \/ EndPass
  /\ UNCHANGED <<life, parts>>

EndLastPass ==
  /\ GoesOn("commit", "methods") /\ mode = "closed"
  /\ UNCHANGED <<alive, at, watch, left, parts, queue>>

(* The list of tables is emptied, and the process ends.                    *)
Finish ==
  /\ GoesOn("sockets", "ended") /\ made \cap {"inward", "outward", "uam"} = {}
  /\ DestroyLhstat
  /\ UNCHANGED <<alive, at, watch, left, queue>>

MainStep ==
  \/ Create \/ CreateFails \/ EnterLoop \/ \E w \in Watched : CreateThread(w)
  \/ Look \/ Killed \/ Leave \/ StopSessions \/ TakeApart \/ LastPass \/ EndLastPass \/ Finish
-----------------------------------------------------------------------------
DaemonInit ==
  /\ QueueInit /\ PartsInit
  /\ alive = TRUE /\ phase = "start" /\ left = FALSE
  /\ at = [w \in Watched |-> "unborn"]
  /\ silent = [w \in Watched |-> 0] /\ checked = 0

WorkerStep(w) == Ping(w) \/ Return(w) \/ LeaveLoop(w)

DaemonNext ==
  \/ \E w \in Watched :
       WorkerStep(w) \/ MakeRecord(w) \/ Fail(w) \/ Stick(w) \/ Cancelled(w) \/ TooLate(w)
  \/ Pass \/ Signal \/ Tick \/ MainStep \/ Restart

daemonVars == <<life, parts, queue>>

DaemonSpec == DaemonInit /\ [][DaemonNext]_daemonVars

(* Time passes, the main thread runs, and the maintenance thread comes to  *)
(* its next pass, unless its handler is stuck; a file that can be written  *)
(* again and again is written.                                             *)
FairDaemonSpec ==
  /\ DaemonSpec
  /\ WF_daemonVars(Tick) /\ WF_daemonVars(MainStep)
  /\ WF_daemonVars(Ping(Maint) /\ at' # at) /\ WF_daemonVars(Pass \/ Return(Maint))
  /\ SF_daemonVars(Pass /\ Write)
-----------------------------------------------------------------------------
DaemonTypeOK ==
  /\ alive \in BOOLEAN /\ left \in BOOLEAN
  /\ phase \in {"start", "watch", "killing", "killed", "sessions", "stops", "pool", "gauges", "table",
                "shaper", "wheels", "commit", "methods", "sockets", "ended"}
  /\ at \in [Watched -> {"unborn", "loop", "handler", "sweep", "pass", "reload", "stuck", "gone"}]
  /\ silent \in [Watched -> 0 .. Timeout + Interval + 1]
  /\ checked \in 0 .. Interval
  /\ PartsTypeOK

(* No thread that is watched is silent for longer than the timeout and the *)
(* interval of the looks together, the maintenance thread included: by     *)
(* then the daemon has begun to be killed (sweetspot.c, main loop).        *)
KilledInTime ==
  /\ DaemonTypeOK
  /\ phase = "watch" => \A w \in Watched : silent[w] <= Timeout + checked

(* While the daemon stays up and the file can be written, each record gets *)
(* there, whatever its scope finds; a maintenance thread that is stuck in  *)
(* a pass is killed, and does not keep the records waiting for ever.       *)
RecordsReach ==
  \A id \in 1 .. MaxSubmit : id \in Ids(Pending) ~> id \in Ids(written) \/ phase \notin {"start", "watch"}

(* A daemon that is told to stop does, though threads are stuck and nobody *)
(* waits for them; not so when one of them has left a chain of the session *)
(* pool locked (sweetspot.c:1010-1048).                                    *)
StopEnds == ~alive ~> ~Up \/ left \/ alive
=============================================================================
