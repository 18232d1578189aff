----------------------------- MODULE FilterTable -----------------------------
(***************************************************************************)
(* Packet filters (filter.c).  Files of a directory are loaded into a      *)
(* table of slots; sessions keep the number of a slot, relays follow it to *)
(* the rules for every packet.  The maintenance thread reloads what has    *)
(* changed while workers and relays go on: it takes the locks of all       *)
(* relays before it frees a rule set, but none that workers take.          *)
(*                                                                         *)
(* Abstractions: a rule set is the version of the text it was parsed from; *)
(* the directory is listed in one step; reloads come at any time           *)
(* (filter-reload-interval).  asked, astray, outrun, stamp and torn are    *)
(* history variables.  Reading freed memory gives any answer.              *)
(***************************************************************************)
EXTENDS Naturals, FiniteSets

CONSTANTS
  Name,     \* file names
  NSlots,   \* SW_FILTER_SLOTS_MAX
  NRelays,  \* process_qnty
  Sess,     \* sessions, each with the worker that serves it
  AtStart,  \* what sw_filter_create found, by slot
  Mem,      \* memory for rule sets
  MaxText,  \* bound on the changes of files
  BadText,  \* versions that do not parse
  Asked,    \* bound: names that requests ask for
  MaxClock, \* bound on the seconds that pass
  None      \* no file, no rule set, no slot

Slot == 1 .. NSlots
Relay == 1 .. NRelays
Version == 0 .. MaxText
Second == 1 .. MaxClock

File == [mtime : Second, text : Version]
FilterSet == [name : Name, mtime : Second, text : Version]

ASSUME FilterAssumption ==
  /\ NSlots \in Nat \ {0} /\ NRelays \in Nat \ {0}
  /\ MaxText \in Nat /\ MaxClock \in Nat \ {0} /\ BadText \subseteq Version \ {0}
  /\ Asked \subseteq Name
  /\ None \notin File \cup FilterSet \cup Mem \cup Nat
  /\ Name # {}
  /\ AtStart \in [Slot -> Name \cup {None}]
  /\ \A s, t \in Slot : AtStart[s] = AtStart[t] /\ AtStart[s] # None => s = t

VARIABLES
  clock,   \* time()
  edits,   \* how often files were changed
  file,    \* the directory
  table,   \* global_filter_set
  set,     \* the memory behind it
  mpc,     \* where the maintenance thread is in sw_filter_reload
  listed,  \* files[]: the times of the files found
  todo,    \* files still to be looked at
  load,    \* what is being loaded or emptied
  held,    \* how many relay locks the maintenance thread has
  rule,    \* the rule set each relay works with
  past,    \* relays that gave their lock back, and may still read the rate of a rule
  outrun,  \* those of them whose rule set was freed since
  look,    \* sw_filter_get_id of each session's worker
  filt,    \* filter_id of each session
  asked,   \* the name it stands for
  astray,  \* sessions whose slot was emptied, or whose worker read freed memory
  stamp,   \* the latest time each file has had
  torn     \* files whose time did not go on with a change, or changed while being loaded

fileVars == <<clock, edits, file, stamp>>
maintVars == <<table, set, mpc, listed, todo, load, held>>
sessVars == <<look, filt, asked>>
relayVars == <<rule, past, outrun>>
filters == <<fileVars, maintVars, relayVars, sessVars, astray, torn>>

(* Slots that hold the filter of a name.                                   *)
SlotsOf(n) == {s \in Slot : table[s] # None /\ set[table[s]].name = n}
Empty == {s \in Slot : table[s] = None}
FirstOf(S) == CHOOSE s \in S : \A t \in S : s <= t
-----------------------------------------------------------------------------
(* The directory, changed from outside at any time.  A file that is        *)
(* written has the time of the present second; one that is moved here, or  *)
(* copied with its time, an earlier one.                                   *)

Edit(n) ==
  /\ edits < MaxText
  /\ edits' = edits + 1
  /\ clock' \in {clock, clock + 1} \cap Second
  /\ \E mtime \in 1 .. clock' :
       /\ file' = [file EXCEPT ![n] = [mtime |-> mtime, text |-> edits']]
       /\ stamp' = [stamp EXCEPT ![n] = IF mtime > @ THEN mtime ELSE @]
       /\ torn' = IF mtime > stamp[n] THEN torn \ {n} ELSE torn \cup {n}
  /\ UNCHANGED <<maintVars, relayVars, sessVars, astray>>

Remove(n) ==
  /\ file[n] # None /\ edits < MaxText
  /\ edits' = edits + 1
  /\ file' = [file EXCEPT ![n] = None]
  /\ UNCHANGED <<clock, stamp, maintVars, relayVars, sessVars, astray, torn>>
-----------------------------------------------------------------------------
(* sw_filter_reload *)

Files == {n \in Name : file[n] # None}

NoLoad == [name |-> None, text |-> 0, mem |-> None, slot |-> 1]

(* As many files as slots are refused if an entry that is no filter comes  *)
(* after the last of them.                                                 *)
ListFiles ==
  /\ mpc = "idle"
  /\ Cardinality(Files) <= NSlots
  /\ listed' = [n \in Name |-> IF n \in Files THEN file[n].mtime ELSE 0]
  /\ todo' = Files
  /\ mpc' = "scan"
  /\ UNCHANGED <<fileVars, table, set, load, held, relayVars, sessVars, astray, torn>>

(* Mutant of UpToDate: whatever is loaded stays.                           *)
UpToDateByName(n) == SlotsOf(n) # {}

(* A filter is loaded again if the time of its file is later.              *)
UpToDate(n) == \E s \in SlotsOf(n) : set[table[s]].mtime >= listed[n]

SkipFile(n) ==
  /\ mpc = "scan" /\ n \in todo /\ UpToDate(n)
  /\ todo' = todo \ {n}
  /\ UNCHANGED <<fileVars, table, set, mpc, listed, load, held, relayVars, sessVars, astray, torn>>

TakeFile(n) ==
  /\ mpc = "scan" /\ n \in todo /\ ~UpToDate(n)
  /\ todo' = todo \ {n}
  /\ load' = [load EXCEPT !.name = n]
  /\ mpc' = "read"
  /\ UNCHANGED <<fileVars, table, set, listed, held, relayVars, sessVars, astray, torn>>

(* sw_filter_load: the text is read and parsed, then the file is asked for *)
(* its time.                                                               *)
ReadText ==
  /\ mpc = "read"
  /\ \/ /\ file[load.name] # None
        /\ file[load.name].text \notin BadText
        /\ load' = [load EXCEPT !.text = file[load.name].text]
        /\ mpc' = "stat"
     \/ /\ file[load.name] # None => file[load.name].text \in BadText
        /\ load' = NoLoad
        /\ mpc' = "scan"
  /\ UNCHANGED <<fileVars, table, set, listed, todo, held, relayVars, sessVars, astray, torn>>

StatFails ==
  /\ mpc = "stat"
  /\ file[load.name] = None \/ \A m \in Mem : set[m] # None
  /\ load' = NoLoad
  /\ mpc' = "scan"
  /\ UNCHANGED <<fileVars, table, set, listed, todo, held, relayVars, sessVars, astray, torn>>

(* Mutant of StatTime: the time is not set.                                *)
StatTimeUnset(n) == 0

(* Mutant of StatTime: the time of the load.                               *)
StatTimeNow(n) == clock

StatTime(n) == file[n].mtime

(* An old filter is replaced where it is, a new one goes into the first    *)
(* empty slot; without one it is given up until a later reload.            *)
Loaded ==
  LET n == load.name  m == CHOOSE m \in Mem : set[m] = None IN
  /\ mpc = "stat" /\ file[n] # None /\ \E b \in Mem : set[b] = None
  /\ \/ /\ SlotsOf(n) \cup Empty = {}
        /\ mpc' = "scan"
        /\ load' = NoLoad
        /\ UNCHANGED set
     \/ /\ SlotsOf(n) \cup Empty # {}
        /\ set' = [set EXCEPT ![m] = [name |-> n, mtime |-> StatTime(n), text |-> load.text]]
        /\ load' = [load EXCEPT !.mem = m,
                                !.slot = FirstOf(IF SlotsOf(n) # {} THEN SlotsOf(n) ELSE Empty)]
        /\ mpc' = "lock"
  /\ torn' = IF load.text = file[n].text THEN torn ELSE torn \cup {n}
  /\ UNCHANGED <<fileVars, table, listed, todo, held, relayVars, sessVars, astray>>

EndScan ==
  /\ mpc = "scan" /\ todo = {}
  /\ mpc' = "prune"
  /\ UNCHANGED <<fileVars, table, set, listed, todo, load, held, relayVars, sessVars, astray, torn>>

Unlisted(s) == table[s] # None /\ listed[set[table[s]].name] = 0

PruneSlot(s) ==
  /\ mpc = "prune" /\ Unlisted(s)
  /\ load' = [load EXCEPT !.slot = s, !.mem = None]
  /\ mpc' = "lock"
  /\ UNCHANGED <<fileVars, table, set, listed, todo, held, relayVars, sessVars, astray, torn>>

EndReload ==
  /\ mpc = "prune" /\ \A s \in Slot : ~Unlisted(s)
  /\ mpc' = "idle"
  /\ listed' = [n \in Name |-> 0]
  /\ UNCHANGED <<fileVars, table, set, todo, load, held, relayVars, sessVars, astray, torn>>

(* Relay r has its lock from Match to Decide.                              *)
Matching(r) == rule[r] # None /\ r \notin past

(* The relays' locks, in order.                                            *)
TakeLock ==
  /\ mpc = "lock" /\ held < NRelays /\ ~Matching(held + 1)
  /\ held' = held + 1
  /\ UNCHANGED <<fileVars, table, set, mpc, listed, todo, load, relayVars, sessVars, astray, torn>>

(* Mutant of AllHeld: the last relay's lock is not waited for.             *)
AllHeldButOne == held + 1 >= NRelays

AllHeld == held = NRelays

(* Sessions that have the slot, or are about to.                           *)
UsersOf(s) == {x \in Sess : filt[x] = s \/ (look[x].name # None /\ look[x].at = s)}

(* The old rule set of the slot is freed, the new one or none put there.   *)
Install ==
  LET s == load.slot IN
  /\ mpc = "lock" /\ AllHeld
  /\ set' = IF table[s] = None THEN set ELSE [set EXCEPT ![table[s]] = None]
  /\ table' = [table EXCEPT ![s] = load.mem]
  /\ astray' = IF load.mem = None THEN astray \cup UsersOf(s) ELSE astray
  /\ outrun' = IF table[s] = None THEN outrun ELSE outrun \cup {r \in past : rule[r] = table[s]}
  /\ load' = NoLoad
  /\ held' = 0
  /\ mpc' = IF load.mem = None THEN "prune" ELSE "scan"
  /\ UNCHANGED <<fileVars, listed, todo, rule, past, sessVars, torn>>

MaintStep ==
  \/ ListFiles \/ ReadText \/ StatFails \/ Loaded \/ EndScan \/ EndReload \/ TakeLock \/ Install
  \/ \E n \in Name : SkipFile(n) \/ TakeFile(n)
  \/ \E s \in Slot : PruneSlot(s)
-----------------------------------------------------------------------------
(* sw_filter_get_id, from a request that names a filter *)

NotAsking == [name |-> None, at |-> 1, mem |-> None]

Ask(x, n) ==
  /\ look[x].name = None
  /\ look' = [look EXCEPT ![x] = [name |-> n, at |-> 1, mem |-> table[1]]]
  /\ UNCHANGED <<fileVars, maintVars, relayVars, filt, asked, astray, torn>>

Asking(x) == look[x].name # None

(* The name read through the pointer is, or seems to be, the one asked.    *)
NameRead(x) == set[look[x].mem].name
Freed(x) == set[look[x].mem] = None
Seems(x) == look[x].mem # None /\ (~Freed(x) => NameRead(x) = look[x].name)
Differs(x) == look[x].mem # None => (~Freed(x) => NameRead(x) # look[x].name)

(* Mutant of Found: the index of the next slot.                            *)
FoundNext(x) ==
  /\ Asking(x) /\ Seems(x)
  /\ filt' = [filt EXCEPT ![x] = (look[x].at % NSlots) + 1]
  /\ asked' = [asked EXCEPT ![x] = look[x].name]
  /\ astray' = IF table[look[x].at] = look[x].mem THEN astray \ {x} ELSE astray \cup {x}
  /\ look' = [look EXCEPT ![x] = NotAsking]
  /\ UNCHANGED <<fileVars, maintVars, relayVars, torn>>

Found(x) ==
  /\ Asking(x) /\ Seems(x)
  /\ filt' = [filt EXCEPT ![x] = look[x].at]
  /\ asked' = [asked EXCEPT ![x] = look[x].name]
  /\ astray' = IF table[look[x].at] = look[x].mem THEN astray \ {x} ELSE astray \cup {x}
  /\ look' = [look EXCEPT ![x] = NotAsking]
  /\ UNCHANGED <<fileVars, maintVars, relayVars, torn>>

NextSlot(x) ==
  /\ Asking(x) /\ Differs(x) /\ look[x].at < NSlots
  /\ look' = [look EXCEPT ![x].at = @ + 1, ![x].mem = table[look[x].at + 1]]
  /\ UNCHANGED <<fileVars, maintVars, relayVars, filt, asked, astray, torn>>

(* The request fails and the session keeps what it has.                    *)
NotFound(x) ==
  /\ Asking(x) /\ Differs(x) /\ look[x].at = NSlots
  /\ look' = [look EXCEPT ![x] = NotAsking]
  /\ UNCHANGED <<fileVars, maintVars, relayVars, filt, asked, astray, torn>>

WorkerStep(x) == Found(x) \/ NextSlot(x) \/ NotFound(x)
-----------------------------------------------------------------------------
(* The relays, as far as they follow a session's slot *)

(* self->sp is taken; sw_filter_get.  An empty slot lets the packet pass.  *)
Match(r, x) ==
  /\ rule[r] = None /\ held < r
  /\ filt[x] # None /\ table[filt[x]] # None
  /\ rule' = [rule EXCEPT ![r] = table[filt[x]]]
  /\ UNCHANGED <<fileVars, maintVars, past, outrun, sessVars, astray, torn>>

(* The lock is given back, before the gauge, source NAT and the checksums. *)
Decide(r) ==
  /\ Matching(r)
  /\ past' = past \cup {r}
  /\ UNCHANGED <<fileVars, maintVars, rule, outrun, sessVars, astray, torn>>

(* The end of the packet.  If it is to be shaped, sw_shape_schedule is     *)
(* given rule->shape.rate.                                                 *)
ReadRate(r) ==
  /\ r \in past
  /\ rule' = [rule EXCEPT ![r] = None] /\ past' = past \ {r} /\ outrun' = outrun \ {r}
  /\ UNCHANGED <<fileVars, maintVars, sessVars, astray, torn>>
-----------------------------------------------------------------------------
Blocks == {b \in [Slot -> Mem \cup {None}] :
             /\ \A s \in Slot : b[s] = None <=> AtStart[s] = None
             /\ \A s, t \in Slot : b[s] = b[t] /\ b[s] # None => s = t}

(* There was memory for what was found.                                    *)
ASSUME BlocksThere == Blocks # {}

FilterInit ==
  LET found == {AtStart[s] : s \in Slot} IN
  /\ clock = 1 /\ edits = 0
  /\ file = [n \in Name |-> IF n \in found THEN [mtime |-> 1, text |-> 0] ELSE None]
  /\ table = CHOOSE b \in Blocks : TRUE
  /\ set = [m \in Mem |->
              IF \E s \in Slot : table[s] = m
              THEN [name |-> AtStart[CHOOSE s \in Slot : table[s] = m], mtime |-> 1, text |-> 0]
              ELSE None]
  /\ mpc = "idle" /\ listed = [n \in Name |-> 0] /\ todo = {} /\ held = 0
  /\ load = NoLoad
  /\ rule = [r \in Relay |-> None] /\ past = {} /\ outrun = {}
  /\ look = [x \in Sess |-> NotAsking]
  /\ filt = [x \in Sess |-> None] /\ asked = [x \in Sess |-> None]
  /\ astray = {} /\ stamp = [n \in Name |-> IF n \in found THEN 1 ELSE 0] /\ torn = {}

FilterNext ==
  \/ \E n \in Name : Edit(n) \/ Remove(n)
  \/ MaintStep
  \/ \E x \in Sess, n \in Asked : Ask(x, n)
  \/ \E x \in Sess : WorkerStep(x)
  \/ \E r \in Relay, x \in Sess : Match(r, x)
  \/ \E r \in Relay : Decide(r) \/ ReadRate(r)

(* The sweeps of the maintenance thread come back to the reload; a relay   *)
(* does not keep its lock, and is not always faster to take it again than  *)
(* the maintenance thread that spins on it.                                *)
FilterSpec ==
  /\ FilterInit /\ [][FilterNext]_filters
  /\ WF_filters(MaintStep) /\ SF_filters(TakeLock)
  /\ \A r \in Relay : WF_filters(Decide(r))
-----------------------------------------------------------------------------
(* Properties *)

(* Types of the table, the directory and of what the threads have in hand. *)
FilterTypeOK ==
  /\ clock \in Second /\ edits \in 0 .. MaxText /\ held \in 0 .. NRelays
  /\ file \in [Name -> File \cup {None}] /\ stamp \in [Name -> Second \cup {0}]
  /\ table \in [Slot -> Mem \cup {None}] /\ set \in [Mem -> FilterSet \cup {None}]
  /\ mpc \in {"idle", "scan", "read", "stat", "lock", "prune"}
  /\ listed \in [Name -> Second \cup {0}] /\ todo \subseteq Name /\ torn \subseteq Name
  /\ load \in [name : Name \cup {None}, text : Version, mem : Mem \cup {None}, slot : Slot]
  /\ rule \in [Relay -> Mem \cup {None}]
  /\ look \in [Sess -> [name : Name \cup {None}, at : Slot, mem : Mem \cup {None}]]
  /\ filt \in [Sess -> Slot \cup {None}] /\ asked \in [Sess -> Name \cup {None}]
  /\ astray \subseteq Sess /\ past \subseteq Relay /\ outrun \subseteq past

(* While a relay decides on a packet, under its lock, the rules it walks   *)
(* are in memory and still in the table: a reload that frees them waits    *)
(* for every relay (filter.c:221, 254, 298; relay_inward.c:198).  The rule *)
(* whose rate it reads after that is still there unless the very rule set  *)
(* was replaced or removed since, when the relay reads freed memory        *)
(* (relay_inward.c:333, 384; relay_outward.c:364, 392).                    *)
MatchedRulesLive ==
  /\ FilterTypeOK
  /\ \A r \in Relay : rule[r] # None /\ r \notin outrun =>
       /\ set[rule[r]] # None
       /\ \E s \in Slot : table[s] = rule[r]

(* A session is filtered by the filter that was asked for, in whatever     *)
(* order updates, new files and removals reach the table, unless its slot  *)
(* was emptied meanwhile or its worker read a rule set being freed         *)
(* (filter.c:339-374).                                                     *)
OwnFilter ==
  \A x \in Sess \ astray : filt[x] # None =>
    table[filt[x]] # None /\ set[table[filt[x]]].name = asked[x]

(* A loaded filter that looks as new as its file has the text of the file, *)
(* unless the file came with a time that is not later than all it had      *)
(* before (a second change in a second, a file moved or copied here with   *)
(* its own time), or was changed between the read and the stat of a load:  *)
(* such a change is not loaded until the next one (filter.c:78-117, 217).  *)
StaleOnlyIfTorn ==
  \A n \in Name \ torn : file[n] # None =>
    \A s \in SlotsOf(n) :
      set[table[s]].mtime >= file[n].mtime => set[table[s]].text = file[n].text

(* The table holds the files of the directory and nothing else.            *)
InSync ==
  /\ \A s \in Slot : table[s] # None => file[set[table[s]].name] # None
  /\ \A n \in Name \ torn :
       file[n] # None /\ file[n].text \notin BadText =>
         \E s \in SlotsOf(n) : set[table[s]].text = file[n].text

(* Once the directory is left alone with fewer files than slots, the table *)
(* comes to follow it and stays so, but for torn files: slots of removed   *)
(* filters are emptied and given to those that found none, and a file that *)
(* did not parse costs the others nothing (filter.c:208-324).              *)
TableFollows ==
  <>[][UNCHANGED file]_filters => <>[](Cardinality(Files) < NSlots => InSync)
=============================================================================
