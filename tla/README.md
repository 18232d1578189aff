# Verification of the Sweetspot access controller

TLA+ models of the Sweetspot daemon (`src/src`), the TLC instances that check
them and the TLAPS proofs about them.

Sweetspot sits between the user networks and the Internet. An address whose
session is *captured* only gets what the anonymous filter lets through (the
portal); a UAM client authenticates the user and *releases* the address, with
limits on octets, time and rate; the daemon counts, shapes, translates and
accounts for its traffic until a limit, an idle time or a UAM request captures
it again.

## 1. The system

### Threads

| thread | code | what it does |
|---|---|---|
| main | `sweetspot.c` `main` | start-up, then the watchdog loop; at the end it cancels the others and tears the subsystems down |
| relay threads (`thread_qnty`, half inward and half outward) | `recv_thr`, `relay_inward.c`, `relay_outward.c` | one packet at a time: session, filter, gauge, NAT, shaper |
| UAM workers (`uam-thread-qnty`) | `uam_recv_thr`, `uamsrv.c` | one request datagram at a time |
| maintenance | `maintenance_thr` | once a second: gauge expiry, session expiry, accounting pass, filter reload |
| shaper | `shape.c` | empties the slots of the delay wheel |
| collector | `nat_src.c` `run_garbage` | every 10 s: drops NAT relations that were idle for 30 minutes |

### Components, their state and operations

| component | state | operations | called by |
|---|---|---|---|
| session pool `session.c` | hash by address: state, state id, session id, filter slot, default name, deathday, interim time | start, stop, status, get_filter_id, verify/acquire_stateid, retention, expire, destroy | workers, relays, maintenance, gauges, accounting |
| gauges `gauge.c` | hash by address: octets, limits, deathday, idle time | new, del, update, expire | workers, relays, maintenance |
| UAM server `uamsrv.c` | sockets, one worker per thread | U(p), D(own), R(etention), S(tatus), and the queries L, C, P, O, I | clients |
| UAM client `uamclt.c`, `sweetuam.c`, messages `uammsg.c` | a socket, a buffer per thread | send, receive with a timeout, build and parse a message | portals, scripts, `doc/` |
| relays `relay_*.c` | per socket: lock, packet buffer | one packet | kernel |
| interfaces `if.c` | raw sockets | open, receive a frame, send a packet | relays, shaper |
| accounting `acct*.c` | chain of records, detail file | submit, pass | every thread that starts or stops a session; maintenance; main at shutdown |
| detail formatting `acct_scope_*.c`, `acct_method_detail*.c` | the parts of a record | build, write | the accounting pass |
| filter table `filter.c` | slots: name, rules, time of the file | get_id, get_name, reload | sessions, relays, maintenance |
| filter language `filter_scanner.l`, `filter_parser.y` | the rules of a text | parse | loading of a filter |
| filter matching `filter_match*.c` | (the rules) | match | relays |
| shaper `shape.c`, buffers `memgmt.c` | hash of contexts, a wheel of slots per direction, list of free buffers | new, del, schedule, delay, send | workers, sessions, relays, its own thread |
| tuples `tuple*.c`, checksums `tuple_checksum.c` | a chain per packet: addresses, ports, ICMP | read, hash, compare, copy, write back | relays, NAT |
| destination NAT `nat_dst*.c` | relations in three hashes; the third is a ring of numbers | do, undo | relays |
| source NAT `nat_src*.c` | endpoints per private address (port range, cursor) in hashes by address and by number; relations in two hashes | new, del, assign, do, undo, expire | sessions, relays, collector |
| sets of networks `netset.c` | ranges of addresses | create, check, index, address of an index | configuration, SNAT endpoints |
| hash `lhash.c` | chains with a spin lock each | insert (replaces an equal entry), delete, retrieve, doall | all of the above |
| life of the daemon `sweetspot.c` | flag, pings of the threads | start-up, watchdog, kill and restart, cancellation, teardown | init scripts, signals |

### How they interact

Every hash operation returns with the chain locked and the caller unlocks it.
A compound operation is a series of such sections, and what lies between two
sections is where the threads interleave. Six places hold a lock over calls
into another component: a relay holds the lock of its socket while it finds the
filter (and so may create the session) and walks its rules; a reload of filters
takes the locks of all relays before it frees rules; a session section creates
and deletes NAT endpoints and shaper contexts; the gauge expiry callback holds
the gauge bucket while it stops the session, submits the record and deletes the
gauge; the SNAT code takes a private bucket under a public one; the DNAT code
takes buckets of its three hashes one under the other. The order socket, gauge
bucket, session bucket, then endpoint, shaper or accounting lock, public before
private relation bucket, and ring, destination, target in DNAT has no circle.

A packet of a user goes: interface, tuples, session and filter, matching, gauge,
redirection (DNAT), source NAT, writing back with checksums, shaper, interface.
A reply goes the same way back: SNAT undone, then DNAT undone, and the filter
decides again, with source and destination exchanged.

### What is hard here

1. *Check, unlock, act.* `sw_session_new`, `sw_gauge_new`, `sw_gauge_update`,
   the state id of a UAM request, `sw_nat_src_do` and `sw_nat_dst_do` look,
   unlock, and change something on the strength of what they saw.
2. *Two pools for one user.* Session and gauge live in different hashes; U
   creates one, then the other, the rest delete them in the other order.
3. *Late records.* An accounting record is submitted after the session was
   unlocked, and its facts are collected later still.
4. *Retries.* A record that cannot be written keeps its place; a NAT port that
   is in use is skipped, one that was in use is taken over; a UAM client repeats
   a request whose answer was lost.
5. *Readers without a lock.* Workers look for filter names in a table that a
   reload is changing; the sending thread of the shaper empties a slot that
   relays may be filling.
6. *Several hashes for one thing.* Relations hang in two or three hashes and
   endpoints in two; memory is freed once, and every way to it must be gone.
7. *Shutdown.* Threads are cancelled where they are and never joined, and the
   last accounting pass runs after the tables it reads were freed.
8. *Arithmetic.* Checksums corrected in one's complement, ranges of ports found
   by division, delays rounded to slots, octets in two words of 32 bits.

What would make each component correct: a session that is up is accounted
exactly once at its start and once at its end, is metered, and is captured when
a limit is reached; records are neither lost nor doubled nor reordered;
a user's public ports are his alone and a reply goes back where the packet came
from, from the address the user wrote to; a captive user reaches nothing outside
the garden; a delayed packet is sent once, at its time; a reload never leaves a
session with the filter of another nor a relay with freed rules; a table has one
item per key whatever its sweep deletes; a client takes no other's answer; no
thread waits for ever, and one that is silent is noticed.
`PROJECT.json` lists the hazards with their lines and the properties for them.

## 2. Plan

| step | modules | status |
|---|---|---|
| sessions, gauges, UAM, sweep | `Session`, `MC_Session`, `Accounting_proofs` | done |
| accounting queue, with the sessions | `AcctQueue`, `Accounting` (Session and AcctQueue), `MC_Accounting`, `Accounting_proofs`, `Daemon_proofs` | done |
| what a record says | `Detail` (evaluated by `MC_Accounting`) | done |
| life of the daemon: start-up, watchdog, restart, teardown, with the queue | `Parts`, `Daemon`, `MC_Daemon`, `Daemon_proofs` | done |
| source NAT: port ranges, relations, tables of endpoints, networks | `SnatEndpoints`, `SnatRelations`, `SnatTables`, `Netset`, their `MC_` modules, `Snat_proofs` | done |
| filter table: slots, their numbers, reload against readers | `FilterTable`, `MC_FilterTable`, `Relays_proofs` | done |
| shaper: reservation of time, wheel, sender, buffers | `ShapeWheel`, `MC_ShapeWheel`, `ShapeWheel_proofs` | done |
| destination NAT | `DnatRelations`, `MC_DnatRelations`, `DnatRelations_proofs` | done |
| the path of a packet: language and matching of filters, tuples, both translations, checksums, interfaces | `FilterText`, `Tuples`, `Checksum`, `Link`, `RelayPath`, `MC_RelayPath`, `Relays_proofs` | done |
| UAM client and server with lost and repeated datagrams, messages | `Uam`, `UamMsg`, `MC_Uam`, `Uam_proofs` | done |
| hash table, which implements a table | `Buckets`, `Table` (the abstract one), `MC_Buckets`, `Buckets_proofs` | done |
| abstract access control (an address is captured or released, with a metered allowance), refined by `Session` where the code allows | `AccessControl` | later |
| session ids in the records of `Accounting` | `Accounting` | later |

## 3. How the modules correspond to the code

A section that runs under one bucket lock is one action. What the code does
after the unlock is a later action of the same thread, found through its `pc`;
`job[t]` holds the arguments and locals that survive the gap.

### Session

| variable | in the code |
|---|---|
| `session` | `global_session_hash`: state, state id, filter, default name, and two flags for "deathday has passed" and "the interim record is due" |
| `gauge` | `global_gauge_hash`: octets and their limits in both directions, and two flags for the session duration and the idle time; `left` is history, what the last U left to count |
| `shaped` | the addresses with a context in `global_shape_hash` |
| `loaded` | the names `sw_filter_get_id` finds |
| `ledger` | the calls of `sw_acct_submit`, counted by address and type |
| `pc`, `job` | the place and the request of each worker, relay and the maintenance thread |
| `todo` | the buckets the sweep has yet to visit |

`sw_session_start`, `_stop`, `_status` and `_get_filter_id` all begin with a
lookup, go through `sw_session_new` when the address has no session, do their
work on the entry, unlock, and submit a record. They share the actions
`SessionLookup`, `SessionRecheck`, `SessionInsert`, `AcctSubmit`; what differs is
in `OnEntry` and `AfterSession`. `StopOn` takes a third argument because
`sw_session_stop` only captures the session when its own lookup found it.

| code | actions |
|---|---|
| `__proc` of `uamsrv.c`, U | `Receive`, `VerifyStateid`, `GaugeLookup`, `GaugeInsert`, `ShapeNew`, the session call, then `AcquireStateid`, or `UndoGauge` and `UndoShape` |
| D | `Receive`, `VerifyStateid`, the session call, `GaugeDel`, `AcquireStateid` |
| R | `Receive`, `VerifyStateid`, `Retention`, `AcquireStateid` |
| S | `Receive`, the session call |
| `__proc` of `relay_*.c` | `Packet`, the session call, `Block` or `Count`; over the limit the session call again and `GaugeDel` |
| `maintenance_thr` | `BeginSweep`, `ExpireGauge` (with the session call and `GaugeDel` under the gauge bucket, see `GaugeLocked`), `GaugesDone`, `ExpireSession`, `SessionsDone`, `FilterReload` |

Time is not counted: `GaugeAges` and `SessionAges` let a deadline pass at any
moment, so that every order of deadlines and calls is covered.

### AcctQueue, Accounting and Detail

`chain` is `global_acct_chain`, `batch` the chain a pass has taken, `retry` the
list between `retry_head` and `retry_tail`. `stage` and the `scope` of a record
follow `sw_acct_init_scope`: the four scope handlers run in turn; the first that
fails sends the record to `retry`, where it keeps what was collected, and with a
partial scope the next pass writes it as it is. `Shutdown` is
`sw_session_destroy`, which submits a stop for each session, at the end of `main`.

`Accounting` runs `Session` and the queue together. The maintenance thread does
its pass between the session sweep and the filter reload, and the queue decides
by the pools, not by choice, what a scope handler finds (`Found`). Each record
the sessions submit is added to the ledger and to the chain in one step, as
`sw_acct_submit` is one section; what lies before it, the gap between the unlock of
the session and the submission, is `Session`'s.

`Detail` has no state: `EventPart`, `SessionPart`, `GaugePart` and `SnatPart` are
what the scope handlers read, `EventText` to `SnatText` the attributes that
`acct_method_detail_*.c` writes of each, `DetailText` a record.

### Parts and Daemon

`Parts` is the list of what `main` makes, in its order, each of which may fail,
and what it takes apart; `listed` is the list of hash tables whose statistics
the maintenance thread prints without a lock. A table leaves the list
(`UnlistSessions`, `UnlistGauges`) before it is freed, in a step of its own, and so
both the entry and the table may go while the maintenance thread is at them
(`Whole`, `TooLate`).

| variable of `Daemon` | in the code |
|---|---|
| `alive` | `global_alive_flag` |
| `phase` | where `main` is, from the first part to the end of the process |
| `at` | where each watched thread is: before it is made, in its loop, in a handler or in a stage of the maintenance pass, stuck, gone |
| `silent`, `checked` | seconds since the last ping of a thread, and since the watchdog looked |
| `left` | a lock was left by a thread that is stuck or was cancelled |

| code | actions |
|---|---|
| `main` to its loop | `Create`, `CreateFails`, `CreateThread`, `EnterLoop` |
| `recv_thr`, `uam_recv_thr`, `maintenance_thr` | `Ping`, `MakeRecord`, `Return`, `Pass`, `Fail`, `LeaveLoop`; `Stick` for a handler that does not come back |
| watchdog and its script | `Tick`, `Look`, `Killed`, `Restart` |
| signal handler, the end of `main` | `Signal`, `Leave`, `Cancelled`, `StopSessions`, `TakeApart`, `LastPass`, `EndLastPass`, `Finish`; `TooLate` for a thread that still works on what was freed |

`Daemon` extends the queue: the pass of the maintenance thread and the last one
of `main` are the steps of `AcctQueue`, interrupted wherever a kill, a
cancellation or a stuck handler finds them.

### SnatEndpoints, SnatTables, SnatRelations, Netset

`SnatEndpoints` is the arithmetic of `nat_src_endpoint_*.c`: which public address
and which ports a private address has, and the lookup of a port's owner by
division. Addresses are named by their position in the set of networks, which
`Netset` computes from the configuration as `netset.c` does, overlapping and
unmasked networks included.

`SnatTables` has the tables of endpoints: `ip`, `port`, `seq` by private address,
`byId` by public address and number, `lock` with the thread that has each chain.

| code | actions |
|---|---|
| `sw_nat_src_endpoint_new`, `_del`, handler by handler | `Begin`, `IpHandler`, `PortHandler` and `IdHandler` (the two hashes of UDP and TCP), `IcmpHandler`, `Fails`, `End` |
| `sw_nat_src_endpoint_assign` | `AssignIp`, `AssignPort` or `AssignSeq` under it, `Missing`, `AssignEnds` |
| `sw_nat_src_endpoint_*_getprv` (status by public port) | `Ask` |

The threads that make and delete sessions are `Actor`s, those that ask for ports and
owners `Taker`s; `work` has what each is about.

| variable of `SnatRelations` | in the code |
|---|---|
| `endpoint` | `e->port` in the endpoint hash: the port to be assigned next |
| `prvHash`, `pubHash` | the two hashes of relations |
| `rel` | the memory of a relation, by address: free, in use without endpoints, or a relation |
| `pc`, `job` | the place and the locals of relays and collector |
| `raced` | history: flows whose relation was overwritten by another insertion |

| code | actions |
|---|---|
| `sw_nat_src_endpoint_new`, `_del` | `NewEndpoint`, `DelEndpoint` |
| `sw_nat_src_do` | `Lookup`, then `Assign` and one of `ClaimFree`, `ClaimBusy` (the next attempt), `ClaimIdle`; `Preempt` after `ClaimIdle`; `Insert` |
| `sw_nat_src_rel_expire` | `Visit`, `Collect` |

`ClaimIdle` and `Visit` keep the public bucket locked until the private one is
had; `PubLocked` keeps others out of that bucket. The insertion takes the public
bucket and waits for the private one with the relation already linked; as
nobody can look into the public bucket meanwhile, this is one action.

### DnatRelations

`dstHash`, `natHash` and `seqHash` are the three hashes of `nat_dst.c`, `ticker`
the counter that gives a relation its number, `rel` the memory. A relay goes
through `Lookup`, `TakeNumber`, `LookRing`, `EvictDst`, `EvictNat` (when the
number was in use), `Alloc`, `InsertSeq`, `InsertDst`, `InsertNat`; each of the
later ones waits for one more bucket and keeps those it has. `Undo` is
`sw_nat_dst_undo`. `contended` and `lapped` are history: keys under which a relation
was replaced, and relations that lost their number to another relay.

### FilterTable and FilterText

| variable | in the code |
|---|---|
| `file`, `clock`, `edits` | the directory, `time()`, and how often files were changed |
| `table`, `set` | `global_filter_set` and the memory of the rule sets behind it |
| `mpc`, `listed`, `todo`, `load`, `held` | where `sw_filter_reload` is, the files it found, the file in hand, and how many relay locks it has |
| `rule`, `look`, `filt` | the rules each relay works with, the search of each worker, the slot number of each session |
| `past` | the relays that gave their lock back and may still read the rate of the rule |
| `asked`, `astray`, `outrun`, `stamp`, `torn` | history: names asked for, sessions whose slot was emptied, relays of `past` whose rules were freed since, the latest time each file has had, files whose time did not go on |

`ListFiles`, `SkipFile`, `TakeFile`, `ReadText`, `StatFails`, `StatTime`, `Loaded`,
`EndScan`, `PruneSlot`, `EndReload` and, one relay after the other, `TakeLock` and
`Install` are `sw_filter_reload`; `Ask`, `FoundNext`, `Found`, `NextSlot`, `NotFound`
are `sw_filter_get_id`, which compares names one after another without a lock;
`Match`, `Decide` and `ReadRate` are the relay: the lock is taken and the rules are walked,
the lock is given back, the rate of the rule is read. `Edit` gives a file the time of the present
second or an earlier one, as `mv` and `cp -p` do.

`FilterText` is the scanner and the grammar as a fold over lexemes: `Parse` gives
the rules, or refuses the text, or ends the daemon where the parser would
dereference a null pointer. `MatchIp` and `MatchPort` are how `filter_match*.c`
reads the rules; `RelayPath` puts them together (`Matches`, `Decisions`).

### ShapeWheel

`last` is `last_packet_time` of the context, counted from now; `curr` and `wheel`
are `curr_time_ptr` and `timeslots`, `free` and `lastFree` the list of `memgmt.c` and
`last_free_buf` (`GetBuf`, `FreeBuf`), `job` what each relay is about to delay, `spc`,
`at` and `pos` where the sender is. `Schedule`, `TakeBuf`,
`Refuse` and `Delay` are `sw_shape_schedule` and `sw_shape_delay`; `Turn`, `SendTop`,
`FreeSent`, `Sleep` the sending thread; `Pass` lets a tick go by.

### Tuples, Checksum, Link and RelayPath

`Tuples` reads the headers of a packet into chains (`Fetched`) and has the hash and
the comparison of `tuple.c` and those of `nat_tuple.c`, copying, freeing and what
writing back changes. `Checksum` is `tuple_checksum.c` for words of any width.
`Link` is `sw_if_send` and `sw_if_recv`. `RelayPath` composes them:

| code | actions |
|---|---|
| `__proc` of `relay_inward.c` | `Inward`: tuples, filter, redirection, SNAT, writing back |
| `__proc` of `relay_outward.c` | `Outward`: SNAT undone, filter, redirection undone, writing back |
| the network outside | `flight` keeps what was sent; an answer, a fragment or an error about it may come, late, repeated or never (`Lose`) |
| a session that changes its filter; a restart | `SetFilter`, `Restart` |

### Uam and UamMsg

`requests` and `replies` are datagrams on their way, `call` what a client waits for,
`session` the state and state id of an address. `Send`, `Receive`, `Timeout` are
`uamclt.c` and `sweetuam.c`; `Serve` is a request at the server, by command; `Limited`
and `Forgotten` are what the daemon does to a session by itself. The other
variables are history: what a caller saw, and what a change was made to.
`UamMsg` builds and parses the messages as `uammsg.c` does, buffer included.

### Buckets and Table

`b` are the chains, `lock` the thread that has each, `place` where `getrn` stopped in
its chain, `walk` the place of the sweep. A call of `lhash.c` is two steps, `Enter` (`getrn`: the
lock is taken and the chain searched) and `Insert`, `InsertFails`, `Retrieve` or `Delete` at
the place found; then the caller has the item until `Unlock`. `DeleteHeld` is a delete by a
caller that has the lock already;
`BeginSweep`, `SweepLock`, `Visit`, `CallbackEnds`, `SweepUnlock`, `EndSweep` are
`lh_doall_arg`. `Table` is the promise of `lhash.h`: one item per key, calls that
happen at once. `Buckets` implements it (`ImplementsTable`) with the contents of the
chains as the mapping and one key per hash and comparison (`Entries`): `getrn` passes over
nodes of another hash before it compares. Keys that compare equal have one hash in all
tables but those that keep ICMP errors (section 7), and nothing here supposes that they
have. In the models above, a hash is a table with a lock per key.

## 4. What the runs check

The pools keep nothing that ties two addresses together, and the threads meet at
the same bucket: instances of `Session` and `Accounting` have one address.

| run | instance | what holds |
|---|---|---|
| `session_races` | 1 worker (U, D, R), 2 relays, sweep; packets in both directions, limits of 0 or 1 octet in and 0 out, which a second U may lower, 2 requests, a filter that may be unloaded, SNAT that may fail | `TypeOK`; `OvershootBounded`: octets counted past what the last U left of the limits are at most the relays busy with throttling; `LedgerBalance`: an address has no more stops than starts, and one start more while it is released |
| `session_live` | 1 worker (U, D), 1 relay, sweep, packets in one direction, limits as above, fairness | `OverLimitEnds`: a gauge that a packet was counted in past its limits goes; `AgedGaugeEnds`: one whose time has passed goes; `RequestsDone`: no request waits for ever |
| `accounting_queue` | 1 worker (U, D, R, S), sweep, passes; 3 records | `LedgerQueued`: the queue has what the sessions submitted; `StopsAheadBounded`: in the order of submission no more stops come before their starts than there are workers |
| `daemon_life` | 1 worker, maintenance thread, timeout and interval of a second, 2 records, up to 2 stops at shutdown, fairness | `KilledInTime`: silent threads are noticed; `PendingOrdered`, `RecordsConserved`: what is to be written keeps its order, and each record is waiting, written once or given up; `RecordsReach`, `StopEnds`: records reach the file while the daemon is up, a stop ends |
| `snat_relations` | 2 flows of one user, 4 ports for 2 users, 2 relays, collector, memory for 3 relations, 2 attempts | `SnatTypeOK`; `NoDangling`: no hash leads to freed memory; `UsersApart`: a port in use belongs to its user; `AgreeUnlessRaced`: the two hashes agree |
| `snat_tables` | 2 threads that make and delete sessions of 2 users, 1 relay, UDP and TCP and ICMP | `TablesAgree`: an endpoint is in both hashes or in none, and no lock is left; `AllOrNone`: a session has all its endpoints or none, and a port that is named leads to its user |
| `filter_reload` | 3 files, 2 of which are asked for, 2 slots, 2 relays, 1 session, 3 changes in 2 seconds with any time up to then, one text that does not parse, fairness | `MatchedRulesLive`: relays only walk rules in memory, and only a rule freed since is read after the lock; `OwnFilter`: a session keeps the filter it asked for; `StaleOnlyIfTorn`: what looks as new as its file has its text; `TableFollows`: the table comes to follow the directory |
| `shaper_wheel` | 2 relays, 3 buffers, a wheel of 2 slots with 2 packets each, delays within and beyond it, fairness | `BufferOnce`: a buffer is in one place; `InItsTurn`: a packet leaves in the turn of its delay; `Drains`: buffers come back |
| `dnat_ring` | 2 redirected flows that share the key of the way back, 2 relays, a ring of 2 numbers, memory for 3 relations, fairness | `Linked`: no hash leads to freed memory or another key; `ComesBack`: replies have the address the user wrote to; `RingHolds`: every relation will be evicted; `DoEnds`: no relay waits for ever |
| `relay_path` | 2 users, TCP, UDP, ICMP, fragments, a captive filter as in `doc/filters/anonymous` and an open one, 2 packets outside, restarts | `ToItsUser`, `AsAddressed`: replies reach their user from the address he wrote to; `ChecksumsRight`; `Confined`: a captive session reaches its garden only |
| `uam_retries` | 2 clients, 3 requests, 3 changes, datagrams lost, doubled and late | `OwnAnswer`: a client takes the answer to its own request; `AsSeen`: a change with a state id is made to the state its caller saw |
| `buckets_sweep` | 2 callers and the sweep, 5 keys of tuple chains in 2 chains: two that are the same to hash and comparison, two ICMP errors that compare equal under two hashes | `ChainsOK`: no two nodes of one hash compare equal; `SweepExact`: the sweep visits what stays once; `ImplementsTable` |

Modules without state are evaluated by the runs that extend them, as assumptions
over every small input:

| run | module | assumptions |
|---|---|---|
| `accounting_queue` | `Detail` | `AttributesOnce`, `OctetsCollected`, `TimedOutEmpty`, `TimeUntilLastPacket`, `StartsEmpty`, `BreaksOff`, `IdsGiven` |
| `snat_tables` | `Netset` | `OptionsRead`, `NumbersLeadBack`, `NumbersOwn`, `OutsideHasSize`, `NetworksUnmasked`, `NetworksFreed` |
| `relay_path` | `FilterText`, `Link` | `RulesRead`, `TextsRefused`, `TextsOdd`; `WholePackets`, `OwnFrames` |
| `uam_retries` | `UamMsg` | `MessagesRead`, `MessagesFit`, `MessagesUnended` |
| `buckets_sweep` | `Tuples` | `AsTuples`, `OtherPackets`, `Copied`, `ChargedToSender` |

The bounds and why they are enough:

* `MaxRequest = 2`: the hazards of `Session` need a call that is interrupted and
  one that interrupts it, and a U that lowers a limit needs two of them. Limits
  (`UpLimits`) of 0 and 1 octet in and 0 out: the packet that reaches a limit, with two
  relays one that slips through, a limit that is lowered below what was counted, and the
  other direction, which is then over its limit or not. Two directions where the
  octets of both are added up (`session_races`).
* `MaxStateid = 2` in `accounting_queue`: an id that matches and one that does not;
  1 where requests carry none. In `uam_retries` the wrap, which takes three changes.
* `MaxInterim` bounds interim records, 0 where no property is about them.
* `MaxSubmit`: a record in work, one to retry and, where it is 3, one that arrives
  meanwhile.
* `Timeout = Interval = 1`: what is silent grows past both, and is looked at in the
  second that makes the difference.
* four ports in `snat_relations`: a user has two, so that the cursor comes round
  to a port in use, and the next user's ports begin where it must turn.
  `MaxRetry = 2` reaches the failure after the last attempt. Three relations for
  two flows: one more than is linked, and memory runs out.
* one chain for both users in `snat_tables`: threads meet at every lock.
* three files for two slots: one finds no slot until another is removed; sessions
  ask for two of them, which change places. Two seconds and three changes: two in the
  same second, one later, one with the time of the first second in the second one.
* delays up to 5 ticks with slots of 2 ticks: in the present slot, in the last,
  and refused.
* a ring of 2 in `dnat_ring`: the two relays hold a bucket of it each while they
  wait for the same buckets of the other hashes. Memory for 3 relations: two in
  the ring and one in hand, so that a second relay finds none.
* 5 keys in 2 chains in `buckets_sweep`: collisions in both; the errors share a chain,
  and are told apart there by their hashes alone.
* words of 4 bits in `relay_path`: sums wrap with two addresses; `Rest` and the
  junk of the pseudo header keep the two zeros apart.
* the views of the `MC_` modules leave out what a thread will write before it
  reads it, and symmetry is used for threads, flows and memory that only differ
  by name, in runs without liveness properties.

Deadlock is checked except in `daemon_life`, where the process ends;
`shaper_wheel`, whose behaviours end where the program's are undefined; and
`uam_retries`, whose requests are bounded.

## 5. Fairness

Spin locks promise no order; with weak fairness a thread may wait at a locked
bucket while it is locked, and the liveness properties are about threads that
wait for a holder that goes on. Nothing is asked of what comes from outside:
requests, packets, the filter directory may stop.

* `Session!FairSpec`: each worker, each relay and the maintenance thread go on when
  they can. They run loops without an exit (`uam_recv_thr`, `recv_thr`,
  `maintenance_thr`), and a bucket is held for a bounded number of steps.
* `FilterSpec`: the maintenance thread and deciding relays go on; strong fairness of
  `TakeLock`: a relay lock is released and taken again and again, and
  the waiting thread has it some time. The mutex promises no order, but relays
  sleep in `recv` between packets without it.
* `ShapeSpec`: the sender and a relay with a packet in hand go on.
* `DnatSpec`: strong fairness of a relay's next step: it waits at buckets that others
  take and leave, each for a bounded number of steps.
* `FairDaemonSpec`: a second passes, the main thread runs, the maintenance thread
  goes on unless its handler is stuck (which `Stick` may do at any time); strong
  fairness of `Write`: a file that can be written again and again is written.
  Without it, a disk that stays full keeps every record waiting, which the code
  accepts.

## 6. What is proved

The proofs hold for any values of the constants that satisfy the named
assumptions of the modules (`ConstantsOK`, `QueueConstantsOK`, `ShapeAssumption` and
so on), which TLC evaluates on each run. They say what the code fixes: sizes that are
at least 1, `None` apart from the values, sets of buffers, relations and rule sets
that are finite. One says more, `PathAssumption`: users have ports of the public address apart (which
`RangesDisjoint` proves of their arithmetic), the two ends of an echo have one number,
a later fragment has no ports, and what a rule redirects to fits into its words.

| theorem | statement |
|---|---|
| `Accounting_proofs!TypeCorrect` | `Spec => []TypeOK` |
| `!OvershootIsBounded`, `!LedgerBalances` | `Spec => []OvershootBounded`, `=> []LedgerBalance` |
| `!NothingUnqueued`, `!FewStopsAhead` | `AccountingSpec => []LedgerQueued`, `=> []StopsAheadBounded` |
| `Daemon_proofs!QueueInvariant`, `!PendingStaysOrdered`, `!RecordsStayConserved` | `QueueSpec => []QueueInv`, `=> []PendingOrdered`, `=> []RecordsConserved` |
| `!WatchdogInTime` | `DaemonSpec => []KilledInTime` |
| `!DaemonLosesOnce`, `!DaemonKeepsOrder` | `DaemonSpec => []RecordsConserved`, `=> []PendingOrdered` |
| `Snat_proofs!RangesDisjoint`, `!OwnerFound` | users of one public address share no port; the division finds the owner of each port |
| `!SnatTypeCorrect`, `!NothingDangles`, `!UsersStayApart`, `!HashesAgree` | the invariants of `snat_relations` |
| `!TablesInvariant`, `!HashesOfEndpointsAgree`, `!EndpointsAllOrNone` | `TablesSpec => []TablesInv`, `=> []TablesAgree`, `=> []AllOrNone` |
| `Relays_proofs!FilterInvariant`, `!RulesLive` | `FilterSpec => []FilterInv`, `=> []MatchedRulesLive` |
| `!SessionsFilter`, `!NotStale` | `FilterSpec => []OwnFilter`, `=> []StaleOnlyIfTorn` |
| `!PathInvariant`, `!RepliesToTheirUser`, `!SumsStayRight` | `PathSpec => []PathInv`, `=> []ToItsUser`, `=> []ChecksumsRight` |
| `!GardenWalled`, `!RepliesAsAddressed` | if `Walled`, `PathSpec => []Confined`; if `TwoWay`, `PathSpec => []AsAddressed` |
| `DnatRelations_proofs!DnatInvariant`, `!AlwaysLinked` | `DnatSpec => []DnatInv`, `=> []Linked` |
| `!RingBounds`, `!RepliesComeBack` | `DnatSpec => []RingHolds`, `=> []ComesBack` |
| `Buckets_proofs!NodesInPlace`, `!SweepMissesNone`, `!ChainsAreTable` | `BucketsSpec => []ChainsOK`, `=> []SweepExact`, `=> ImplementsTable` |
| `Uam_proofs!UamInvariant`, `!AnswersAreOwn`, `!ChangesAreAsSeen` | `UamSpec => []UamInv`, `=> []OwnAnswer`, `=> []AsSeen` |
| `ShapeWheel_proofs!ShapeInvariant`, `!BuffersOnce`, `!PacketsInTurn` | `ShapeSpec => []ShapeInv`, `=> []BufferOnce`, `=> InItsTurn` |

### Sessions and records

*OvershootBounded* is inductive together with `TypeOK` and with what `left` is: the limits,
or else the gauge is over them already (`LeftOK`), so that a packet that goes past it is over a
limit too. Such a packet
adds one octet and, by going on to throttle, one element to `Throttling`; a relay
only leaves that set by deleting the gauge; a U request leaves nothing counted past
what it leaves (`GivenBeyond`), whatever limits it sets. The proof counts with the cardinality of a
finite set of relays.

*LedgerBalance* counts what was submitted and what threads still have to submit.
`Balance` says it of one address with the set `Owing` of the threads that carry its
record; a step takes a thread into that set (a session call), or out of it while
the ledger grows by one (`AcctSubmit`), or touches neither.

*PendingOrdered* is not inductive: it says that `retry \o batch \o chain` is ordered
but not that a record moved from `batch` to `retry` comes after all that are
there. `QueueInv` says so part by part (`Ordered` of each, `Below` between them) and
that the numbers stay below `count`, so that a new record is the last one.

*RecordsConserved* needs `QueueInv`, that a record given up is neither waiting nor
written (`GivenUpApart`), and which states a pass can stop in (`Between`).

*The daemon* drives that queue: each of its steps is one of the queue, leaves it, or
is one of two that no queue makes, a crash and a death (`DrivesQueue`, `Crashes`, `Dies`).
Both keep `ConservedInv`, so that the queue's invariants hold of the daemon. `KilledInTime`
is inductive once it is known that ages are zero where the main thread begins
(`WatchInv`): a silence found at a look is at most the timeout, and grows by what has
passed since.

*LedgerQueued* counts: the ledger of an address has as many records of a type as there are entries in the
parts of the queue and in the file (`Counted`). For that, entries have different numbers
and are in one part (`PlacedOnce`), as a record that moves would otherwise change the count.
*StopsAheadBounded* looks at the first `n` records submitted. For all of them it follows from the
balance of the sessions, since only a worker owes a start (`WorkersStart`); what comes later
has a later number, and a record that moves or changes keeps its own (`AheadStep`).

### Translation

*The SNAT invariants* are proved from `SnatInv`. What they need besides themselves:
`NewInHand` (a relation about to be inserted is in no hash and in the hands of one
thread), `OldInHand` (a relation to be taken over or collected is still the one in
the locked bucket, and no two threads hold the same bucket), `OwnPorts` (cursor,
ports in hand and ports of relations are of the user's range) and `TriesLeft`. The
heart of the proof is `Unlinked`: unlinking by keys removes the relation in hand
and no other, unless a race has put another one under its private key.
`UsersApart` follows from `OwnPorts` and the arithmetic of the ranges, for any number of
addresses and ports.

*TablesAgree* and *AllOrNone* are proved from `TablesInv`. Between the two hashes of a
protocol a thread has the lock of the first one, and a thread that makes or
deletes a session has no other lock (`Locks`): so nobody else sees an endpoint that
is in one hash only. The handlers a session has gone through have all made, or
all deleted, their entry (`Progress`), and no two threads work on one user (`Jobs`):
so at the end all of them agree. The next port of a user is among his ports
(`PortsOwn`), by the arithmetic of the ranges. The takers come last: none of their
steps makes or deletes an endpoint or touches a lock that is not theirs.

*Linked* is proved from `DnatInv`: a bucket of the ring is kept by one relay from
the moment its number was found in use (`SeqAlone`); a relation being evicted is
still the one of its number, and out of the hash of its flow when it is freed
(`OldInHand`); a new one is what its relay made it, and this relay's alone until it
hangs in the ring (`NewInHand`). `RingHolds` is inductive with it. `ComesBack` is not: it
speaks of flows, and two relations may have one flow and one key, so that evicting the
first takes the second's way back. `BackInv` says it of relations: under a key that was
never contended the hash has the one relation that is made (`NatHolds`), a new relation is
in one hand (`MadeAlone`), and not found by its flow before it has its key (`NotYet`).

### Filters

*MatchedRulesLive* is proved from `FilterInv`: rule sets in the table are in memory and
each in one slot (`Backed`), what is being loaded is in no slot (`InHand`), relays
whose lock the maintenance thread has walk no rules (`LocksHeld`), and the rules
of the others are in the table, those of relays that gave their lock back until their
rule set is freed (`RulesInTable`). *OwnFilter* needs that the rule set about to
be installed has the name of the one it frees (`SameName`), however many relay locks are
waited for in between. *StaleOnlyIfTorn* is proved for all rule sets in memory (`TextsFresh`), the
one not yet installed too, and needs that neither a rule set nor a file has a later time than
the file has ever had, and that is no later than the clock (`Stamped`): so that a change with a later
time is later than whatever is loaded.

### Packets on their path

*ChecksumsRight* is proved for words of any width. Two numbers are `Alike` when they differ
by turns of `Base - 1`: each round of `tuple_checksum.c` gives a word alike to the
difference or the sum (`LessAlike`, `MoreAlike`), a receiver accepts what is alike to zero
and more than zero (`AcceptsAlike`), and so what is written back into a packet is accepted
if the packet was (`CommitRight`): the words that go are those it was read from, and
the unset words of a pseudo header go and come back. That the sum is more than zero
comes from the words that do not change (`Rest`).

*ToItsUser* needs `PathInv`: a packet outside has a public endpoint of its own user
(`Outside`), and so has every relation (`Tables`), whoever has taken it over since; users
share no public endpoint (`PublicsApart`) but the address of fragments.

*Confined* and *AsAddressed* say what becomes of a decision, and so suppose something of
the filters: `Walled`, that a captive filter lets nothing past but to the garden, and
`TwoWay`, that a filter that redirects a packet redirects what comes back. TLC evaluates
both on the filters of its instance, as `FilterText` reads them. What is left to prove is
that nothing between decision and packet changes it: what lies under a key of the way
back is a relation still in the ring (`Redirections`), through evictions and replaced
keys; and a packet outside goes where its user sent it, or its filter will redirect what
comes back (`Expected`).

### Shaper, UAM and tables

*BufferOnce* and *InItsTurn* are proved from `ShapeInv`, which holds until a relay reaches
the slot being emptied. The entries in use are those below a slot's count and the one the
sender has counted down from and not freed (`Filled`), so that an entry a relay fills is
empty, and one the sender takes is not. A buffer is free, with one relay or in one entry
(`OncePlaced`): this is proved of the places and not of their number, and with
`last_free_buf` counting the free ones (`Counted`) the list never refuses what comes back. A
packet in a slot waits as many turns as the slot is away (`OnTime`): that a delay is divided
by the time of a slot, and the sum wraps around the wheel, is `SlotOfDelay`; that a turn
brings every slot nearer by one, `TurnBrings`.

*OwnAnswer* and *AsSeen* are proved from `UamInv`. A datagram with a serial is of the call its
client is in, or of one that had this serial before (`CallsOwn`), so that an answer to
another request has a serial the client has spent. Who has read an id of a session that
was not forgotten since knows its id now from the number of changes since (`Sighted`): the
ids come round, but not before there were as many changes as ids.

*ChainsOK* and *SweepExact* are proved from `BucketsInv`: what the sweep has read of a chain
is still linked where it will go on (`NextLinked`), what stays in the table and was not
visited is before the sweep, what was visited behind it (`Ahead`, `Behind`). A callback may
delete the node in hand because the next one was read before it. What `getrn` has found is still
so when the call gets to it, since nobody else has the lock of the chain (`PlacesHold`).
*ImplementsTable* maps the table to the contents of the chains (`ContentsAre`); a call takes effect
where it does its work at the place found, the search and all that the sweep does itself leave
the table as it is. Nothing is supposed of the hash and the comparison: nodes of other hashes are not
compared, and so an item is found by both.

### Only checked by TLC

The liveness properties (`OverLimitEnds`, `AgedGaugeEnds`, `RequestsDone`, `RecordsReach`,
`StopEnds`, `TableFollows`, `Drains`, `DoEnds`): the prover has no rules for fairness and
ENABLED here. What
`Detail`, `FilterText`, `Tuples`, `Netset` and `UamMsg` compute by folds and recursive functions is
evaluated for small inputs: induction over data is out of this prover's reach.

## 7. Disagreements and surprises

Found while the models were written. The models do what the code does; the
properties are stated around these facts, as their comments say.

Sessions and gauges:

* `sw_session_new` (`session.c:227-265`) releases the bucket between its lookup and its
  insertion and replaces a session that was released meanwhile: no stop record.
* The throttling of the old gauge (`gauge.c:297-300`) deletes the one a U request in
  progress relies on: the session is up and has no limits. The same happens,
  without a race, when U names an unknown filter for a session that is up
  (`uamsrv.c:222`).
* A U request replaces the limits of a gauge and keeps its octets (`gauge.c:192`): below what
  was counted, the session goes on until its next packet, since only
  `sw_gauge_update` compares (`gauge.c:293`); without one it stays over its limit.
* Two workers verify the same state id (`uamsrv.c:190`, `:225`); the id of a session
  that was forgotten passes (`session.c:524-532`).
* A captured session keeps the filter of the released one when the filter it
  should fall back to is not loaded (`session.c:349`).
* The session id 1 is given twice when the counter comes round
  (`session.c:100-112`).
* A packet is charged to the gauge before source NAT can fail
  (`relay_inward.c:340`), and `sw_gauge_drop_stat` ignores what `sw_gauge_update`
  answers.

Accounting:

* The last pass looks into `global_session_hash` after `sw_session_destroy` has
  freed it (`sweetspot.c:1021`, `:1026`).
* The gauge is deleted before the pass collects the traffic for the stop record
  (`gauge.c:127`), and a partial scope is accepted (`acct.c:34`). A stop for lack of
  time or traffic carries zeros in any case: the handler asks for the type of
  the part before it is set (`acct_scope_gauge.c:53`).
* A stop record carries the id of the next session, since `sw_session_stop` gives
  a new one (`session.c:329`) before the pass reads it.
* Gigawords are left out when the low word is zero
  (`acct_method_detail_gauge.c:44-51`); `Event-Timestamp` is when the record is
  built.
* Two records may be submitted in the other order than the changes they report,
  because the bucket is released first (`session.c:372`, `:444`); a record that could
  not be written is written after younger ones (`acct.c:96`), its place among the
  waiting ones is kept.

Filters:

* `ne` with a list of ports matches everything (`filter_match_tcp.c:46`); the second
  port of a list is stored first, and ports beyond the eighth are dropped.
* The address of a rule is not masked: `10.0.0.5/24` never matches
  (`filter_match_ip.c:65`). `/0` shifts by the width of the word. A word that is no
  address becomes 255.255.255.255, an unknown protocol a null pointer; flags
  without a mask are ignored.
* A `block` with a rate ends the daemon (`relay_inward.c:313-319`,
  `sweetspot.c:504-512`).
* Exactly `SW_FILTER_SLOTS_MAX` files are refused or not depending on the order of the
  directory (`filter.c:173`); changes in one second are missed (`filter.c:81`); the end
  of a text overwrites its last character, or the one before the buffer when the
  file is empty.
* Every load of a filter makes the lock of the parser anew.
* Both relays give the lock of the rules back (`relay_inward.c:333`,
  `relay_outward.c:364`) and then read `rule->shape.rate` (`relay_inward.c:384`,
  `relay_outward.c:392`); a reload that has all locks by then frees the rule
  (`filter.c:226`). `outrun` has the relays this may happen to.
* A file that is moved or copied into the directory with its own, older time is taken
  for up to date (`filter.c:217`) until a change with a later time.
* Fragments are not tracked, although `CHANGES:116` says so: rules match them by
  address and protocol.

Translation:

* Two relays find the same public port free (`nat_src.c:330`), and the later
  insertion takes the replies of the earlier flow.
* A status request for a port below 1024 names the first user of the address
  (`nat_src_endpoint_udp.c:268`); networks are not masked (`netset.c:57-70`).
* An ICMP error about TCP or UDP is never translated: its inner tuples hash
  otherwise than they compare (`nat_tuple_icmp.c:50` takes the id and the fragment word of
  the inner header in, `:67` does not), so that relations which compare equal may be in a
  table under two hashes; when a rule redirects such packets, the hashes of DNAT hold them.
  An inner address is looked up without a lock
  (`nat_src_endpoint_ip.c:156`), and id and sequence may be unset.
* Words of the pseudo header are not set before they are summed
  (`tuple_tcp.c:125`, `tuple_udp.c:108`); as they are subtracted and added, no
  checksum depends on them.
* Pings are redirected, but their way back is not found; a user's own
  connection to the target of a redirection is dropped.
* Relays leave without freeing the tuples when no rule matches
  (`relay_inward.c:241-249`, `relay_outward.c:276-284`).
* Without source NAT, `sw_shape_schedule` is called with a null source
  (`relay_inward.c:383`, `shape.c:192`).

UAM messages: one of 511 octets is built but refused by the parser
(`uammsg.c:45`, `:119`); one that does not end with a zero is read on into what the
buffer had before, since only as many bytes as a pointer has are cleared
(`uammsg.c:49`).

Daemon: threads are cancelled but not joined, and the maintenance thread may be in the list of
statistics, which has no lock, when a table is unlisted and freed (`lhstat.c:60`,
`session.c:194-198`); a lock left at shutdown makes
`sw_session_destroy` wait for ever (`sweetspot.c:1010-1048`); the threads of the
shaper and the collector are not watched; the option for the watchdog's script
is read before the configuration is loaded; a passing error of `recv` ends the
daemon (`sweetspot.c:488-498`).

## 8. What is not modelled

* The fragment table (`frag_do` has no caller), the cache (switched off,
  `cache.c:55`), the queues nobody uses, growing and shrinking of hash tables
  (switched off), the gauge threads (`NUM_GAUGE_THREAD` is 0), and the previous
  source NAT (`nat_src3.c` is not built).
* Memory that cannot be allocated, except for NAT relations and endpoints,
  buffers, tuples and nodes of a table.
* Rates and peaks of gauges, which no decision reads.
* Of the generated scanner and parser, the tables; their grammar is `FilterText`.
* Logs, statistics, the wording of records and replies, MD5 and FNV, options and
  usage: input and output that no property here is about.
* Language bindings (`src/perl`, `src/python`) and tests, which are clients of the
  library. The reasons for each part are in `PROJECT.json`.
