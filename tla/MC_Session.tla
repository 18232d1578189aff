----------------------------- MODULE MC_Session -----------------------------
(* Small instances of Session for TLC.                                     *)
EXTENDS Session, Integers, TLC

CONSTANTS u1, u2, r1, r2

(* A U request may lower the limit of one direction or of both.            *)
SmallLimits == {[in |-> 0, out |-> 0], [in |-> 1, out |-> 0]}

(* Threads of one kind run the same code.                                  *)
Workers == Permutations({u1, u2}) \cup Permutations({r1, r2})

(* What tells states apart where no request has a state id: of what the    *)
(* last U request found in a gauge only what came past it, of its          *)
(* deadlines whether one has passed, and which unless a packet cannot move *)
(* it; no state ids, no contexts of the shaper; of starts and stops the    *)
(* balance; of a job nothing between two jobs.                             *)
Read(g) ==
  IF g = NoEntry THEN g
  ELSE [g EXCEPT !.idle = @ \/ g.aged]

ReadSession(s) == IF s = NoEntry THEN s ELSE [s EXCEPT !.stateid = 0]

Live ==
  <<[ip \in IP |-> ReadSession(session[ip])], [ip \in IP |-> Read(gauge[ip])],
    loaded, pc, todo, served,
    [ip \in IP |-> <<ledger[ip]["start"] - ledger[ip]["stop"], ledger[ip]["interim"]>>],
    [t \in Thread |-> IF pc[t] \in {"idle", "gauges", "sessions"} THEN "none" ELSE job[t]]>>
=============================================================================
