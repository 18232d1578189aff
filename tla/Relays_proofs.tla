----------------------------- MODULE Relays_proofs -----------------------------
(* Theorems about what the relays do with filters and with packets.        *)
(* FilterTable, for any number of files, slots, relays, sessions and rule  *)
(* sets: a relay walks the rules of its session's filter.  RelayPath, for  *)
(* any users, flows, filters and sizes of words: what becomes of a packet. *)
EXTENDS FilterTable, RelayPath, WellFoundedInduction, TLAPS

(* The inductive invariant of MatchedRulesLive.  A rule set that a relay   *)
(* walks is in the table, and only Install takes one out of it, which has  *)
(* the locks of all relays, and notes those that gave their lock back and  *)
(* have just that rule set.  That those it does not free stay needs that   *)
(* no two slots share a rule set, and that the new one is in none.         *)

(* What is in the table is in memory, and in one slot.                     *)
Backed ==
  /\ \A s \in Slot : table[s] # None => set[table[s]] # None
  /\ \A s, t \in Slot : table[s] = table[t] /\ table[s] # None => s = t

(* The file in hand has a name; the rule set in hand is not in the table.  *)
InHand ==
  /\ mpc \in {"read", "stat"} => load.name \in Name
  /\ mpc = "lock" /\ load.mem # None =>
       set[load.mem] # None /\ \A s \in Slot : table[s] # load.mem

(* Relays whose lock is taken match nothing, and locks are only taken to   *)
(* install.                                                                *)
LocksHeld ==
  /\ \A r \in Relay : r <= held => ~Matching(r)
  /\ held > 0 => mpc = "lock"

RulesInTable ==
  \A r \in Relay : rule[r] # None /\ r \notin outrun => \E s \in Slot : table[s] = rule[r]

FilterInv == FilterTypeOK /\ Backed /\ InHand /\ LocksHeld /\ RulesInTable
-----------------------------------------------------------------------------
(* What the types say of the parts.                                        *)
LEMMA Typed ==
  ASSUME FilterTypeOK
  PROVE  /\ held \in Nat /\ edits \in Nat /\ clock \in Nat /\ 1 \in Slot
         /\ load.name \in Name \cup {None} /\ load.text \in Version
         /\ load.mem \in Mem \cup {None} /\ load.slot \in Slot
         /\ NoLoad \in [name : Name \cup {None}, text : Version, mem : Mem \cup {None}, slot : Slot]
         /\ \A n \in Name : file[n] # None => file[n].mtime \in Second /\ file[n].text \in Version
         /\ \A m \in Mem : set[m] # None => set[m].name \in Name
         /\ \A r \in FilterSet \cup File : r # None
  BY FilterAssumption DEF FilterTypeOK, Slot, Version, Second, NoLoad, File, FilterSet

(* A set of slots that is not empty has a first one.                       *)
LEMMA FirstThere ==
  ASSUME NEW S \in SUBSET Slot, S # {} PROVE \E i \in S : \A j \in S : i <= j
<1>1. S \subseteq Nat
  BY FilterAssumption DEF Slot
<1> DEFINE Below == OpToRel(<, Nat)
<1>2. \A j, i \in Nat : j < i => <<j, i>> \in Below
  BY DEF OpToRel
<1>3. IsWellFoundedOn(Below, Nat)
  BY NatLessThanWellFounded
<1> HIDE DEF Below
<1>4. PICK i \in S : \A j \in S : <<j, i>> \notin Below
  BY <1>1, <1>3, WFMin
<1>5. \A j \in S : ~(j < i)
  BY <1>1, <1>2, <1>4
<1> QED
  BY <1>1, <1>5

LEMMA InvInit == FilterInit => FilterInv
<1> SUFFICES ASSUME FilterInit PROVE FilterInv
  OBVIOUS
<1>1. 1 \in Slot /\ 1 \in Second /\ 0 \in Version /\ 0 \in 0 .. NRelays
  BY FilterAssumption DEF Slot, Second, Version
<1>2. table \in Blocks
  BY BlocksThere DEF FilterInit
<1>3. ASSUME NEW m \in Mem PROVE set[m] \in FilterSet \cup {None}
  <2>1. CASE \E s \in Slot : table[s] = m
    <3>1. PICK s \in Slot : s = CHOOSE t \in Slot : table[t] = m
      BY <2>1
    <3>2. table[s] = m /\ m # None
      BY <2>1, <3>1, FilterAssumption
    <3>3. AtStart[s] \in Name
      BY <1>2, <3>2, FilterAssumption DEF Blocks
    <3>4. set[m] = [name |-> AtStart[s], mtime |-> 1, text |-> 0]
      BY <2>1, <3>1 DEF FilterInit
    <3> QED
      BY <1>1, <3>3, <3>4 DEF FilterSet
  <2>2. CASE ~\E s \in Slot : table[s] = m
    BY <2>2 DEF FilterInit
  <2> QED
    BY <2>1, <2>2
<1>4. set \in [Mem -> FilterSet \cup {None}]
  BY <1>3 DEF FilterInit
<1>5. file \in [Name -> File \cup {None}]
  BY <1>1 DEF FilterInit, File
<1>6. FilterTypeOK
  <2>1. /\ NoLoad \in [name : Name \cup {None}, text : Version, mem : Mem \cup {None}, slot : Slot]
        /\ NotAsking \in [name : Name \cup {None}, at : Slot, mem : Mem \cup {None}]
    BY <1>1 DEF NoLoad, NotAsking
  <2>2. /\ load \in [name : Name \cup {None}, text : Version, mem : Mem \cup {None}, slot : Slot]
        /\ look \in [Sess -> [name : Name \cup {None}, at : Slot, mem : Mem \cup {None}]]
    BY <2>1 DEF FilterInit
  <2>3. table \in [Slot -> Mem \cup {None}] /\ edits \in 0 .. MaxText
    BY <1>2, FilterAssumption DEF FilterInit, Blocks
  <2>4. stamp \in [Name -> Second \cup {0}] /\ listed \in [Name -> Second \cup {0}]
    BY <1>1 DEF FilterInit
  <2> QED
    BY <1>1, <1>4, <1>5, <2>2, <2>3, <2>4 DEF FilterInit, FilterTypeOK
<1>7. ASSUME NEW s \in Slot, table[s] # None PROVE set[table[s]] # None
  <2>1. table[s] \in Mem
    BY <1>2, <1>7 DEF Blocks
  <2>2. \E n : set[table[s]] = [name |-> n, mtime |-> 1, text |-> 0]
    BY <2>1 DEF FilterInit
  <2>3. PICK t \in Slot : t = CHOOSE u \in Slot : table[u] = table[s]
    OBVIOUS
  <2>4. table[t] = table[s]
    BY <2>3
  <2>5. AtStart[t] \in Name
    BY <1>2, <1>7, <2>4, FilterAssumption DEF Blocks
  <2>6. set[table[s]] = [name |-> AtStart[t], mtime |-> 1, text |-> 0]
    BY <2>1, <2>3 DEF FilterInit
  <2>7. set[table[s]] \in FilterSet
    BY <1>1, <2>5, <2>6 DEF FilterSet
  <2> QED
    BY <2>7, FilterAssumption
<1>8. Backed
  BY <1>2, <1>7 DEF Backed, Blocks
<1>9. InHand /\ LocksHeld /\ RulesInTable
  BY DEF FilterInit, InHand, LocksHeld, Matching, relayVars, RulesInTable
<1> QED
  BY <1>6, <1>8, <1>9 DEF FilterInv
-----------------------------------------------------------------------------
(* The directory, the files and the sessions' workers.                     *)
LEMMA DirectoryStep ==
  ASSUME FilterInv, NEW n \in Name, Edit(n) \/ Remove(n)
  PROVE  FilterInv'
<1>1. FilterTypeOK /\ UNCHANGED <<maintVars, relayVars, sessVars, astray>>
  BY DEF FilterInv, Edit, Remove
<1>2. CASE Edit(n)
  <2>1. edits' \in 0 .. MaxText /\ clock' \in Second /\ edits' \in Version /\ edits \in Version
    BY <1>1, <1>2, FilterAssumption DEF Edit, FilterTypeOK, Version
  <2>2. PICK mtime \in 1 .. clock' :
          /\ file' = [file EXCEPT ![n] = [mtime |-> mtime, text |-> edits']]
          /\ stamp' = [stamp EXCEPT ![n] = IF mtime > @ THEN mtime ELSE @]
          /\ torn' = IF mtime > stamp[n] THEN torn \ {n} ELSE torn \cup {n}
    BY <1>2 DEF Edit
  <2>3. mtime \in Second
    BY <2>1, FilterAssumption DEF Second
  <2>4. [mtime |-> mtime, text |-> edits'] \in File
    BY <2>1, <2>3 DEF File
  <2>5. file' \in [Name -> File \cup {None}]
    BY <1>1, <2>2, <2>4 DEF FilterTypeOK
  <2>6. stamp' \in [Name -> Second \cup {0}]
    BY <1>1, <2>2, <2>3 DEF FilterTypeOK
  <2>7. torn' \subseteq Name
    BY <1>1, <2>2 DEF FilterTypeOK
  <2>8. FilterTypeOK'
    BY <1>1, <2>1, <2>5, <2>6, <2>7 DEF FilterTypeOK, maintVars, relayVars, sessVars
  <2> QED
    BY <1>1, <2>8
       DEF FilterInv, Backed, InHand, LocksHeld, Matching, RulesInTable, maintVars, relayVars
<1>3. CASE Remove(n)
  <2>1. edits' \in 0 .. MaxText
    BY <1>1, <1>3, FilterAssumption DEF Remove, FilterTypeOK
  <2> QED
    BY <1>1, <1>3, <2>1
       DEF Remove, FilterInv, FilterTypeOK, Backed, InHand, LocksHeld, Matching, RulesInTable,
           maintVars, relayVars, sessVars
<1> QED
  BY <1>2, <1>3

LEMMA SessionStep ==
  ASSUME FilterInv, NEW x \in Sess, WorkerStep(x) \/ \E n \in Name : Ask(x, n)
  PROVE  FilterInv'
<1>1. FilterTypeOK /\ UNCHANGED <<fileVars, maintVars, relayVars, torn>>
  BY DEF FilterInv, WorkerStep, Found, NextSlot, NotFound, Ask
<1>2. /\ look[x].name \in Name \cup {None} /\ look[x].at \in Slot /\ table[1] \in Mem \cup {None}
      /\ 1 \in Slot /\ NSlots \in Nat
  BY <1>1, Typed, FilterAssumption DEF FilterTypeOK
<1>3. /\ look' \in [Sess -> [name : Name \cup {None}, at : Slot, mem : Mem \cup {None}]]
      /\ filt' \in [Sess -> Slot \cup {None}] /\ asked' \in [Sess -> Name \cup {None}]
      /\ astray' \subseteq Sess
  <2>1. CASE Found(x)
    BY <1>1, <1>2, <2>1 DEF Found, FilterTypeOK, NotAsking
  <2>2. CASE NextSlot(x)
    <3>1. look[x].at + 1 \in Slot
      BY <1>2, <2>2 DEF NextSlot, Slot
    <3>2. [look[x] EXCEPT !.at = @ + 1, !.mem = table[look[x].at + 1]]
            \in [name : Name \cup {None}, at : Slot, mem : Mem \cup {None}]
      <4>1. /\ look[x] \in [name : Name \cup {None}, at : Slot, mem : Mem \cup {None}]
            /\ table[look[x].at + 1] \in Mem \cup {None}
        BY <1>1, <3>1 DEF FilterTypeOK
      <4> QED
        BY <3>1, <4>1
    <3> QED
      BY <1>1, <2>2, <3>2 DEF NextSlot, FilterTypeOK
  <2>3. CASE NotFound(x)
    BY <1>1, <1>2, <2>3 DEF NotFound, FilterTypeOK, NotAsking
  <2>4. CASE \E n \in Name : Ask(x, n)
    BY <1>1, <1>2, <2>4 DEF Ask, FilterTypeOK
  <2> QED
    BY <2>1, <2>2, <2>3, <2>4 DEF WorkerStep
<1>4. FilterTypeOK'
  BY <1>1, <1>3 DEF FilterTypeOK, fileVars, maintVars, relayVars
<1> QED
  BY <1>1, <1>4 DEF FilterInv, Backed, InHand, LocksHeld, Matching, relayVars, RulesInTable, maintVars
-----------------------------------------------------------------------------
(* The maintenance thread where it changes neither the table nor memory.   *)
LEMMA ScanStep ==
  ASSUME FilterInv,
         \/ ListFiles \/ ReadText \/ StatFails \/ EndScan \/ EndReload
         \/ \E n \in Name : SkipFile(n) \/ TakeFile(n)
         \/ \E s \in Slot : PruneSlot(s)
  PROVE  FilterInv'
<1>1. /\ FilterTypeOK /\ mpc # "lock"
      /\ UNCHANGED <<fileVars, table, set, held, relayVars, sessVars, astray, torn>>
  BY DEF FilterInv, ListFiles, ReadText, StatFails, EndScan, EndReload, SkipFile, TakeFile, PruneSlot
<1>2. FilterTypeOK' /\ InHand'
  <2>1. CASE ListFiles
    <3>1. Files \subseteq Name /\ \A n \in Files : file[n].mtime \in Second
      BY <1>1, Typed DEF Files
    <3> QED
      BY <1>1, <2>1, <3>1 DEF ListFiles, FilterInv, FilterTypeOK, InHand, fileVars, relayVars, sessVars
  <2>2. CASE ReadText
    <3>1. file[load.name] # None => file[load.name].text \in Version
      BY <1>1, <2>2, Typed DEF ReadText, FilterInv, InHand
    <3>2. CASE mpc' = "stat"
      <4>1. load' = [load EXCEPT !.text = file[load.name].text] /\ file[load.name] # None
        BY <2>2, <3>2 DEF ReadText
      <4>2. /\ load' \in [name : Name \cup {None}, text : Version, mem : Mem \cup {None}, slot : Slot]
            /\ load'.name = load.name
        BY <1>1, <3>1, <4>1 DEF FilterTypeOK
      <4> QED
        BY <1>1, <2>2, <3>2, <4>2 DEF ReadText, FilterInv, FilterTypeOK, InHand, fileVars, relayVars, sessVars
    <3>3. CASE mpc' = "scan" /\ load' = NoLoad
      BY <1>1, <2>2, <3>3, Typed DEF ReadText, FilterTypeOK, InHand, fileVars, relayVars, sessVars
    <3> QED
      BY <2>2, <3>2, <3>3 DEF ReadText
  <2>3. CASE StatFails
    BY <1>1, <2>3, Typed DEF StatFails, FilterTypeOK, InHand, fileVars, relayVars, sessVars
  <2>4. CASE EndScan
    BY <1>1, <2>4 DEF EndScan, FilterTypeOK, InHand, fileVars, relayVars, sessVars
  <2>5. CASE EndReload
    BY <1>1, <2>5 DEF EndReload, FilterTypeOK, InHand, fileVars, relayVars, sessVars
  <2>6. CASE \E n \in Name : SkipFile(n)
    BY <1>1, <2>6 DEF SkipFile, FilterInv, FilterTypeOK, InHand, fileVars, relayVars, sessVars
  <2>7. CASE \E n \in Name : TakeFile(n)
    <3>1. PICK n \in Name : TakeFile(n)
      BY <2>7
    <3>2. /\ load' \in [name : Name \cup {None}, text : Version, mem : Mem \cup {None}, slot : Slot]
          /\ load'.name = n
      BY <1>1, <3>1 DEF TakeFile, FilterTypeOK
    <3> QED
      BY <1>1, <3>1, <3>2 DEF TakeFile, FilterTypeOK, InHand, fileVars, relayVars, sessVars
  <2>8. CASE \E s \in Slot : PruneSlot(s)
    <3>1. PICK s \in Slot : PruneSlot(s)
      BY <2>8
    <3>2. /\ load' \in [name : Name \cup {None}, text : Version, mem : Mem \cup {None}, slot : Slot]
          /\ load'.mem = None
      BY <1>1, <3>1 DEF PruneSlot, FilterTypeOK
    <3> QED
      BY <1>1, <3>1, <3>2 DEF PruneSlot, FilterTypeOK, InHand, fileVars, relayVars, sessVars
  <2> QED
    BY <2>1, <2>2, <2>3, <2>4, <2>5, <2>6, <2>7, <2>8
<1>3. LocksHeld'
  <2>1. ~(held > 0)
    BY <1>1 DEF FilterInv, LocksHeld, Matching, relayVars
  <2> QED
    BY <1>1, <2>1 DEF FilterInv, LocksHeld, Matching, relayVars
<1> QED
  BY <1>1, <1>2, <1>3 DEF FilterInv, Backed, RulesInTable, relayVars

(* A new rule set is in memory that was free, so that no slot has it.      *)
LEMMA LoadedStep == ASSUME FilterInv, Loaded PROVE FilterInv'
<1> DEFINE n == load.name
           m == CHOOSE b \in Mem : set[b] = None
<1>1. /\ FilterTypeOK /\ mpc = "stat" /\ n \in Name /\ file[n] # None
      /\ m \in Mem /\ set[m] = None
      /\ UNCHANGED <<fileVars, table, listed, todo, held, relayVars, sessVars, astray>>
      /\ torn' \subseteq Name
  BY DEF FilterInv, InHand, FilterTypeOK, Loaded
<1>2. LocksHeld'
  BY <1>1 DEF FilterInv, LocksHeld, Matching, relayVars
<1>3. CASE mpc' = "scan" /\ load' = NoLoad /\ UNCHANGED set
  BY <1>1, <1>2, <1>3, Typed
     DEF FilterInv, FilterTypeOK, Backed, InHand, RulesInTable, fileVars, relayVars, sessVars
<1>4. CASE mpc' = "lock" /\ SlotsOf(n) \cup Empty # {}
  <2> DEFINE f == [name |-> n, mtime |-> StatTime(n), text |-> load.text]
             s == FirstOf(IF SlotsOf(n) # {} THEN SlotsOf(n) ELSE Empty)
  <2>1. /\ set' = [set EXCEPT ![m] = f]
        /\ load' = [load EXCEPT !.mem = m, !.slot = s]
    BY <1>4 DEF Loaded
  <2>2. f \in FilterSet /\ f # None
    BY <1>1, Typed, FilterAssumption DEF FilterSet, StatTime
  <2>3. s \in Slot
    <3>1. PICK S : S \subseteq Slot /\ S # {} /\ s = FirstOf(S)
      BY <1>4 DEF SlotsOf, Empty
    <3>2. \E i \in S : \A j \in S : i <= j
      BY <3>1, FirstThere
    <3> QED
      BY <3>1, <3>2 DEF FirstOf
  <2>4. /\ load' \in [name : Name \cup {None}, text : Version, mem : Mem \cup {None}, slot : Slot]
        /\ load'.mem = m
    BY <1>1, <2>1, <2>3 DEF FilterTypeOK
  <2>5. FilterTypeOK'
    BY <1>1, <1>4, <2>1, <2>2, <2>4 DEF FilterTypeOK, fileVars, relayVars, sessVars
  <2>6. Backed' /\ InHand'
    BY <1>1, <1>4, <2>1, <2>2, <2>4 DEF FilterInv, FilterTypeOK, Backed, InHand
  <2> QED
    BY <1>1, <1>2, <2>5, <2>6 DEF FilterInv, RulesInTable, relayVars
<1> QED
  BY <1>3, <1>4 DEF Loaded

LEMMA TakeLockStep == ASSUME FilterInv, TakeLock PROVE FilterInv'
<1>1. FilterTypeOK /\ held \in Nat /\ NRelays \in Nat
  BY Typed, FilterAssumption DEF FilterInv
<1>2. FilterTypeOK'
  BY <1>1 DEF TakeLock, FilterTypeOK, fileVars, relayVars, sessVars
<1>3. LocksHeld'
  BY <1>1 DEF FilterInv, LocksHeld, TakeLock, Relay, Matching, relayVars
<1> QED
  BY <1>2, <1>3 DEF FilterInv, TakeLock, Backed, InHand, RulesInTable, relayVars

(* With all locks had, no relay walks the rule set that is freed but those *)
(* that are noted.                                                         *)
LEMMA InstallStep == ASSUME FilterInv, Install PROVE FilterInv'
<1> DEFINE s == load.slot
<1>1. /\ FilterTypeOK /\ mpc = "lock" /\ s \in Slot /\ load.mem \in Mem \cup {None}
      /\ UNCHANGED <<fileVars, listed, todo, rule, past, sessVars, torn>>
      /\ None \notin Mem
  BY Typed, FilterAssumption DEF FilterInv, Install
<1>2. \A r \in Relay : rule[r] # None => r \in past
  BY <1>1, FilterAssumption DEF FilterInv, LocksHeld, Install, AllHeld, Relay, Matching
<1>3. FilterTypeOK'
  <2>1. set' \in [Mem -> FilterSet \cup {None}] /\ table' \in [Slot -> Mem \cup {None}]
    BY <1>1 DEF Install, FilterTypeOK
  <2>2. astray' \subseteq Sess
    BY <1>1 DEF Install, UsersOf, FilterTypeOK
  <2>3. held' \in 0 .. NRelays /\ outrun' \subseteq past
    BY <1>1, FilterAssumption DEF Install, FilterTypeOK
  <2> QED
    BY <1>1, <2>1, <2>2, <2>3, Typed DEF Install, FilterTypeOK, fileVars, relayVars, sessVars
<1>4. table' = [table EXCEPT ![s] = load.mem]
  BY DEF Install
<1>5. \A a \in Mem : a # table[s] => set'[a] = set[a]
  BY <1>1 DEF Install, FilterTypeOK
<1>6. load.mem # None => load.mem # table[s] /\ set[load.mem] # None
                           /\ \A t \in Slot : table[t] # load.mem
  BY <1>1 DEF FilterInv, InHand
<1>7. \A t \in Slot : table'[t] = IF t = s THEN load.mem ELSE table[t]
  BY <1>1, <1>4 DEF FilterTypeOK
<1>8. Backed'
  <2>1. ASSUME NEW t \in Slot, table'[t] # None PROVE set'[table'[t]] # None
    BY <1>1, <1>5, <1>6, <1>7, <2>1 DEF FilterInv, FilterTypeOK, Backed
  <2>2. ASSUME NEW t \in Slot, NEW u \in Slot, table'[t] = table'[u], table'[t] # None PROVE t = u
    BY <1>6, <1>7, <2>2 DEF FilterInv, Backed
  <2> QED
    BY <2>1, <2>2 DEF Backed
<1>9. InHand' /\ LocksHeld'
  <2>1. held' = 0 /\ mpc' \in {"scan", "prune"}
    BY DEF Install
  <2>2. \A r \in Relay : ~(r <= 0)
    BY FilterAssumption DEF Relay
  <2> QED
    BY <2>1, <2>2 DEF InHand, LocksHeld
<1>10. ASSUME NEW r \in Relay, rule[r] # None, r \notin outrun'
       PROVE  \E t \in Slot : table'[t] = rule[r]
  <2>1. r \in past /\ r \notin outrun /\ rule[r] # table[s]
    BY <1>1, <1>2, <1>10 DEF Install
  <2>2. PICK t \in Slot : table[t] = rule[r]
    BY <1>10, <2>1 DEF FilterInv, RulesInTable
  <2> QED
    BY <1>7, <2>1, <2>2
<1> QED
  BY <1>1, <1>3, <1>8, <1>9, <1>10 DEF FilterInv, RulesInTable

LEMMA RelayStep ==
  ASSUME FilterInv, NEW r \in Relay, Decide(r) \/ ReadRate(r) \/ \E x \in Sess : Match(r, x)
  PROVE  FilterInv'
<1>1. /\ FilterTypeOK /\ UNCHANGED <<fileVars, maintVars, sessVars, astray, torn>>
      /\ rule \in [Relay -> Mem \cup {None}] /\ past \subseteq Relay /\ outrun \subseteq past
      /\ held \in Nat /\ r \in Nat
  BY Typed DEF FilterInv, FilterTypeOK, Decide, ReadRate, Match, Relay
<1>2. /\ rule' \in [Relay -> Mem \cup {None}] /\ past' \subseteq Relay /\ outrun' \subseteq past'
      /\ \A q \in Relay : Matching(q)' => Matching(q) \/ (q = r /\ ~(r <= held))
      /\ \A q \in Relay : rule'[q] # None /\ q \notin outrun' =>
           (rule[q] = rule'[q] /\ q \notin outrun) \/ \E s \in Slot : table[s] = rule'[q]
  <2>1. CASE Decide(r)
    BY <1>1, <2>1 DEF Decide, Matching
  <2>2. CASE ReadRate(r)
    BY <1>1, <2>2 DEF ReadRate, Matching
  <2>3. CASE \E x \in Sess : Match(r, x)
    <3>1. PICK x \in Sess : Match(r, x)
      BY <2>3
    <3>2. filt[x] \in Slot /\ table[filt[x]] \in Mem \cup {None}
      BY <1>1, <3>1 DEF Match, FilterTypeOK
    <3>3. /\ rule' = [rule EXCEPT ![r] = table[filt[x]]] /\ UNCHANGED <<past, outrun>> /\ held < r
      BY <3>1 DEF Match
    <3> QED
      BY <1>1, <3>2, <3>3 DEF Matching
  <2> QED
    BY <2>1, <2>2, <2>3
<1>3. FilterTypeOK'
  BY <1>1, <1>2 DEF FilterTypeOK, fileVars, maintVars, sessVars
<1>4. LocksHeld' /\ RulesInTable'
  <2>1. LocksHeld'
    BY <1>1, <1>2 DEF FilterInv, LocksHeld, maintVars
  <2>2. RulesInTable'
    BY <1>1, <1>2 DEF FilterInv, RulesInTable, maintVars
  <2> QED
    BY <2>1, <2>2
<1> QED
  BY <1>1, <1>3, <1>4 DEF FilterInv, Backed, InHand, maintVars

LEMMA InvStep == FilterInv /\ [FilterNext]_filters => FilterInv'
<1> SUFFICES ASSUME FilterInv, [FilterNext]_filters PROVE FilterInv'
  OBVIOUS
<1>1. CASE MaintStep
  BY <1>1, ScanStep, LoadedStep, TakeLockStep, InstallStep DEF MaintStep
<1>2. CASE \E n \in Name : Edit(n) \/ Remove(n)
  BY <1>2, DirectoryStep
<1>3. CASE \E x \in Sess : WorkerStep(x) \/ \E n \in Asked : Ask(x, n)
  BY <1>3, SessionStep, FilterAssumption
<1>4. CASE \E r \in Relay : Decide(r) \/ ReadRate(r) \/ \E x \in Sess : Match(r, x)
  BY <1>4, RelayStep
<1>5. CASE UNCHANGED filters
  BY <1>5 DEF filters, fileVars, maintVars, relayVars, Matching, sessVars, FilterInv, FilterTypeOK, Backed, InHand,
              LocksHeld, RulesInTable
<1> QED
  BY <1>1, <1>2, <1>3, <1>4, <1>5 DEF FilterNext

(* FilterInv always holds.                                                 *)
THEOREM FilterInvariant == FilterSpec => []FilterInv
<1>1. FilterInit => FilterInv
  BY InvInit
<1>2. FilterInv /\ [FilterNext]_filters => FilterInv'
  BY InvStep
<1> QED
  BY <1>1, <1>2, PTL DEF FilterSpec

(* The rules a relay walks under its lock are in memory and in the table,  *)
(* whenever files come, change and go, and however many relays the reload  *)
(* waits for; so is the rule it reads a rate from afterwards, unless a     *)
(* reload took just that rule set away in between.                         *)
THEOREM RulesLive == FilterSpec => []MatchedRulesLive
<1>1. FilterInv => MatchedRulesLive
  BY FilterAssumption DEF FilterInv, FilterTypeOK, Backed, RulesInTable, MatchedRulesLive
<1> QED
  BY <1>1, FilterInvariant, PTL
-----------------------------------------------------------------------------
(* The inductive invariant of OwnFilter.  Only Install changes a slot under *)
(* the sessions that have it: it empties it, and notes who is astray, or   *)
(* puts a rule set there that has the name of the one it frees, because    *)
(* Loaded chose the slot by that name and nothing else writes the table.   *)
SameName ==
  mpc = "lock" /\ load.mem # None /\ table[load.slot] # None =>
    set[table[load.slot]].name = set[load.mem].name

NameInv == FilterInv /\ SameName /\ OwnFilter

(* A step that leaves the table and the memory behind it alone, as all but *)
(* two do, keeps the names.                                                *)
LEMMA NamesKept ==
  ASSUME NameInv, UNCHANGED <<table, set, filt, asked, astray>>,
         mpc' = "lock" /\ load'.mem # None => UNCHANGED load /\ mpc = "lock"
  PROVE  SameName' /\ OwnFilter'
  BY DEF NameInv, SameName, OwnFilter

(* Loaded writes to memory that no slot has, and chooses the slot.         *)
LEMMA LoadedNames == ASSUME NameInv, Loaded PROVE SameName' /\ OwnFilter'
<1> DEFINE n == load.name
           m == CHOOSE b \in Mem : set[b] = None
<1>1. /\ FilterTypeOK /\ m \in Mem /\ set[m] = None /\ n \in Name
      /\ UNCHANGED <<table, filt, asked, astray>>
      /\ \A s \in Slot : table[s] # None => table[s] # m /\ table[s] \in Mem
      /\ None \notin Mem
  BY FilterAssumption DEF NameInv, FilterInv, FilterTypeOK, Backed, InHand, Loaded, sessVars
<1>2. CASE mpc' = "scan" /\ UNCHANGED set
  BY <1>1, <1>2 DEF NameInv, SameName, OwnFilter
<1>3. CASE mpc' = "lock" /\ SlotsOf(n) \cup Empty # {}
  <2> DEFINE f == [name |-> n, mtime |-> StatTime(n), text |-> load.text]
             S == IF SlotsOf(n) # {} THEN SlotsOf(n) ELSE Empty
  <2>1. set' = [set EXCEPT ![m] = f] /\ load' = [load EXCEPT !.mem = m, !.slot = FirstOf(S)]
    BY <1>3 DEF Loaded
  <2>2. /\ set'[m] = f /\ f.name = n
        /\ \A s \in Slot : table[s] # None => set'[table[s]] = set[table[s]]
    BY <1>1, <2>1 DEF FilterTypeOK
  <2>3. load'.mem = m /\ load'.slot = FirstOf(S)
    BY <1>1, <2>1 DEF FilterTypeOK
  <2>4. FirstOf(S) \in S
    <3>1. S \in SUBSET Slot /\ S # {}
      BY <1>3 DEF SlotsOf, Empty
    <3> HIDE DEF S
    <3> QED
      BY <3>1, FirstThere DEF FirstOf
  <2>5. SameName'
    BY <1>1, <2>2, <2>3, <2>4 DEF SameName, SlotsOf, Empty
  <2>6. OwnFilter'
    <3> SUFFICES ASSUME NEW x \in Sess, x \notin astray, filt[x] # None
                 PROVE  table[filt[x]] # None /\ set'[table[filt[x]]].name = asked[x]
      BY <1>1 DEF OwnFilter
    <3> QED
      BY <1>1, <2>2 DEF NameInv, OwnFilter, FilterTypeOK
  <2> QED
    BY <2>5, <2>6
<1> QED
  BY <1>2, <1>3 DEF Loaded

LEMMA InstallNames == ASSUME NameInv, Install PROVE SameName' /\ OwnFilter'
<1> DEFINE s == load.slot
<1>1. /\ FilterTypeOK /\ mpc = "lock" /\ s \in Slot /\ load.mem \in Mem \cup {None}
      /\ mpc' # "lock" /\ UNCHANGED <<look, filt, asked>>
  BY Typed DEF NameInv, FilterInv, Install, sessVars
<1>2. \A t \in Slot : table'[t] = IF t = s THEN load.mem ELSE table[t]
  BY <1>1 DEF Install, FilterTypeOK
<1>3. \A a \in Mem : a # table[s] => set'[a] = set[a]
  BY <1>1 DEF Install, FilterTypeOK
<1>4. SameName'
  BY <1>1 DEF SameName
<1>5. OwnFilter'
  <2> SUFFICES ASSUME NEW x \in Sess, x \notin astray', filt[x] # None
               PROVE  table'[filt[x]] # None /\ set'[table'[filt[x]]].name = asked[x]
    BY <1>1 DEF OwnFilter
  <2>1. x \notin astray /\ filt[x] \in Slot
    BY <1>1 DEF Install, FilterTypeOK
  <2>2. table[filt[x]] # None /\ set[table[filt[x]]].name = asked[x]
    BY <2>1 DEF NameInv, OwnFilter
  <2>3. CASE filt[x] # s
    <3>1. table[filt[x]] \in Mem /\ table[filt[x]] # table[s]
      BY <1>1, <2>1, <2>2, <2>3 DEF FilterTypeOK, NameInv, FilterInv, Backed
    <3> QED
      BY <1>2, <1>3, <2>1, <2>2, <2>3, <3>1
  <2>4. CASE filt[x] = s
    <3>1. load.mem # None
      BY <2>1, <2>4 DEF Install, UsersOf
    <3>2. /\ load.mem \in Mem /\ load.mem # table[s]
          /\ set[load.mem].name = set[table[s]].name
      BY <1>1, <2>2, <2>4, <3>1 DEF NameInv, SameName, FilterInv, InHand
    <3> QED
      BY <1>2, <1>3, <2>1, <2>2, <2>4, <3>1, <3>2
  <2> QED
    BY <2>3, <2>4
<1> QED
  BY <1>4, <1>5

(* A worker takes a slot for its session: what it read under the slot is   *)
(* there, with the name asked for, or the session is astray.               *)
LEMMA WorkerNames ==
  ASSUME NameInv, NEW x \in Sess, WorkerStep(x) \/ \E n \in Name : Ask(x, n)
  PROVE  SameName' /\ OwnFilter'
<1>1. FilterTypeOK /\ UNCHANGED maintVars
  BY DEF NameInv, FilterInv, WorkerStep, Found, NextSlot, NotFound, Ask
<1>2. CASE Found(x)
  <2>1. look[x].at \in Slot /\ look[x].mem \in Mem \cup {None}
    BY <1>1 DEF FilterTypeOK
  <2>2. SameName'
    BY <1>1 DEF NameInv, SameName, maintVars
  <2>3. ASSUME NEW y \in Sess, y \notin astray', filt'[y] # None
        PROVE  table[filt'[y]] # None /\ set[table[filt'[y]]].name = asked'[y]
    <3>1. CASE y # x
      BY <1>1, <1>2, <2>3, <3>1 DEF Found, FilterTypeOK, NameInv, OwnFilter
    <3>2. CASE y = x
      <4>1. /\ filt'[y] = look[x].at /\ asked'[y] = look[x].name
            /\ table[look[x].at] = look[x].mem /\ Seems(x)
        BY <1>1, <1>2, <2>3, <3>2 DEF Found, FilterTypeOK
      <4>2. look[x].mem # None /\ ~Freed(x)
        BY <2>1, <4>1 DEF NameInv, FilterInv, Backed, Seems, Freed
      <4> QED
        BY <4>1, <4>2 DEF Seems, NameRead
    <3> QED
      BY <3>1, <3>2
  <2>4. OwnFilter'
    BY <1>1, <2>3 DEF OwnFilter, maintVars
  <2> QED
    BY <2>2, <2>4
<1>3. CASE ~Found(x)
  BY <1>1, <1>3, NamesKept DEF WorkerStep, NextSlot, NotFound, Ask, maintVars
<1> QED
  BY <1>2, <1>3

LEMMA NamesStep ==
  ASSUME NameInv, [FilterNext]_filters PROVE SameName' /\ OwnFilter'
<1>1. CASE Loaded \/ Install
  BY <1>1, LoadedNames, InstallNames
<1>2. CASE \/ ListFiles \/ ReadText \/ StatFails \/ EndScan \/ EndReload \/ TakeLock
           \/ \E n \in Name : SkipFile(n) \/ TakeFile(n)
           \/ \E s \in Slot : PruneSlot(s)
  <2>1. UNCHANGED <<table, set, filt, asked, astray>>
    BY <1>2 DEF ListFiles, ReadText, StatFails, EndScan, EndReload, TakeLock, SkipFile, TakeFile,
               PruneSlot, sessVars
  <2>2. mpc' = "lock" /\ load'.mem # None => UNCHANGED load /\ mpc = "lock"
    <3>1. CASE \E s \in Slot : PruneSlot(s)
      BY <3>1 DEF PruneSlot, NameInv, FilterInv, FilterTypeOK
    <3>2. CASE TakeLock
      BY <3>2 DEF TakeLock
    <3>3. CASE \/ ListFiles \/ ReadText \/ StatFails \/ EndScan \/ EndReload
               \/ \E n \in Name : SkipFile(n) \/ TakeFile(n)
      BY <3>3 DEF ListFiles, ReadText, StatFails, EndScan, EndReload, SkipFile, TakeFile
    <3> QED
      BY <1>2, <3>1, <3>2, <3>3
  <2> QED
    BY <2>1, <2>2, NamesKept
<1>3. CASE \E x \in Sess : WorkerStep(x) \/ \E n \in Asked : Ask(x, n)
  BY <1>3, WorkerNames, FilterAssumption
<1>4. CASE \/ \E n \in Name : Edit(n) \/ Remove(n)
           \/ \E r \in Relay : Decide(r) \/ ReadRate(r) \/ \E x \in Sess : Match(r, x)
           \/ UNCHANGED filters
  BY <1>4, NamesKept DEF Edit, Remove, Decide, ReadRate, Match, filters, maintVars, sessVars
<1> QED
  BY <1>1, <1>2, <1>3, <1>4 DEF FilterNext, MaintStep

(* A session keeps the filter it asked for: no reload puts another file's  *)
(* rules into its slot, in whatever order they are loaded, replaced and    *)
(* removed while workers look names up.                                    *)
THEOREM SessionsFilter == FilterSpec => []OwnFilter
<1>1. FilterInit => NameInv
  BY InvInit DEF NameInv, SameName, OwnFilter, FilterInit
<1>2. NameInv /\ [FilterNext]_filters => NameInv'
  BY NamesStep, InvStep DEF NameInv
<1>3. NameInv => OwnFilter
  BY DEF NameInv
<1> QED
  BY <1>1, <1>2, <1>3, PTL DEF FilterSpec
-----------------------------------------------------------------------------
(* The inductive invariant of StaleOnlyIfTorn, over all rule sets in       *)
(* memory, the one about to be installed too.  A rule set has a time its   *)
(* file had: a change that brings a time later than all of those makes     *)
(* every rule set of the file look old, and one that does not tears it.    *)
Stamped ==
  /\ \A n \in Name : stamp[n] <= clock /\ (file[n] # None => file[n].mtime <= stamp[n])
  /\ \A m \in Mem : set[m] # None => set[m].mtime <= stamp[set[m].name]

TextsFresh ==
  \A m \in Mem :
    /\ set[m] # None /\ set[m].name \notin torn /\ file[set[m].name] # None
    /\ set[m].mtime >= file[set[m].name].mtime
    => set[m].text = file[set[m].name].text

TextInv == FilterInv /\ Stamped /\ TextsFresh

(* Steps that leave files alone and write no rule set; Install frees one.  *)
LEMMA TextsKept ==
  ASSUME TextInv, UNCHANGED <<clock, file, stamp, torn>>,
         \A m \in Mem : set'[m] # None => set'[m] = set[m]
  PROVE  Stamped' /\ TextsFresh'
  BY DEF TextInv, Stamped, TextsFresh

LEMMA EditTexts ==
  ASSUME TextInv, NEW n \in Name, Edit(n) \/ Remove(n) PROVE Stamped' /\ TextsFresh'
<1>1. /\ FilterTypeOK /\ UNCHANGED set /\ clock \in Nat
      /\ \A i \in Name : stamp[i] \in Nat /\ stamp[i] <= clock
      /\ \A m \in Mem : set[m] # None => /\ set[m].name \in Name /\ set[m].mtime \in Nat
                                         /\ set[m].mtime <= stamp[set[m].name]
  <2>1. FilterTypeOK /\ Second \subseteq Nat
    BY DEF TextInv, FilterInv, Second
  <2>2. \A m \in Mem : set[m] # None => set[m].name \in Name /\ set[m].mtime \in Second
    BY <2>1 DEF FilterTypeOK, FilterSet
  <2>3. UNCHANGED set
    BY DEF Edit, Remove, maintVars
  <2>4. \A i \in Name : stamp[i] \in Nat /\ stamp[i] <= clock
    <3>1. \A i \in Name : stamp[i] \in Second \cup {0}
      BY <2>1 DEF FilterTypeOK
    <3>2. Second \cup {0} \subseteq Nat
      BY DEF Second
    <3>3. \A i \in Name : stamp[i] \in Nat
      BY <3>1, <3>2
    <3> QED
      BY <3>3 DEF TextInv, Stamped
  <2> QED
    BY <2>1, <2>2, <2>3, <2>4, Typed DEF TextInv, Stamped
<1>2. CASE Edit(n)
  <2>1. clock' \in Nat /\ clock <= clock'
    BY <1>1, <1>2, FilterAssumption DEF Edit, Second
  <2>2. PICK mtime \in 1 .. clock' :
          /\ file' = [file EXCEPT ![n] = [mtime |-> mtime, text |-> edits']]
          /\ stamp' = [stamp EXCEPT ![n] = IF mtime > @ THEN mtime ELSE @]
          /\ torn' = IF mtime > stamp[n] THEN torn \ {n} ELSE torn \cup {n}
    BY <1>2 DEF Edit
  <2>3. /\ \A i \in Name : file'[i] = IF i = n THEN [mtime |-> mtime, text |-> edits'] ELSE file[i]
        /\ \A i \in Name : i # n => stamp'[i] = stamp[i]
        /\ stamp'[n] = IF mtime > stamp[n] THEN mtime ELSE stamp[n]
    BY <1>1, <2>2 DEF FilterTypeOK
  <2>4. mtime \in Nat /\ mtime <= clock' /\ stamp[n] \in Nat /\ stamp[n] <= clock'
    BY <1>1, <2>1
  <2>5. stamp'[n] \in Nat /\ stamp'[n] <= clock' /\ mtime <= stamp'[n] /\ stamp[n] <= stamp'[n]
    BY <2>3, <2>4
  <2>6. Stamped'
    <3>1. ASSUME NEW i \in Name
          PROVE  stamp'[i] <= clock' /\ (file'[i] # None => file'[i].mtime <= stamp'[i])
      <4>1. CASE i = n
        BY <2>3, <2>5, <4>1
      <4>2. CASE i # n
        <5>1. stamp'[i] = stamp[i] /\ stamp[i] \in Nat /\ stamp[i] <= clock /\ file'[i] = file[i]
          BY <1>1, <2>3, <4>2
        <5> QED
          BY <1>1, <2>1, <5>1 DEF TextInv, Stamped
      <4> QED
        BY <4>1, <4>2
    <3>2. \A m \in Mem : set[m] # None => set[m].mtime <= stamp'[set[m].name]
      BY <1>1, <2>3, <2>4, <2>5
    <3> QED
      BY <1>1, <3>1, <3>2 DEF Stamped
  <2>7. ASSUME NEW m \in Mem, set[m] # None, set[m].name \notin torn', file'[set[m].name] # None,
               set[m].mtime >= file'[set[m].name].mtime
        PROVE  set[m].text = file'[set[m].name].text
    <3>1. CASE set[m].name = n
      <4>1. mtime > stamp[n]
        BY <2>2, <2>7, <3>1
      <4>2. set[m].mtime >= mtime /\ set[m].mtime <= stamp[n] /\ set[m].mtime \in Nat
        BY <1>1, <2>3, <2>7, <3>1
      <4> QED
        BY <2>4, <4>1, <4>2
    <3>2. CASE set[m].name # n
      <4>1. set[m].name \notin torn
        BY <2>2, <2>7, <3>2
      <4> QED
        BY <1>1, <2>3, <2>7, <3>2, <4>1 DEF TextInv, TextsFresh
    <3> QED
      BY <3>1, <3>2
  <2> QED
    BY <1>1, <2>6, <2>7 DEF TextsFresh
<1>3. CASE Remove(n)
  <2>1. /\ UNCHANGED <<clock, stamp, torn, set>>
        /\ \A i \in Name : file'[i] = IF i = n THEN None ELSE file[i]
    BY <1>1, <1>3 DEF Remove, FilterTypeOK
  <2> QED
    BY <1>1, <2>1 DEF TextInv, Stamped, TextsFresh
<1> QED
  BY <1>2, <1>3

(* A file that is the same when its time is asked for as when it was read  *)
(* is loaded as it is; one that is not is torn.                            *)
LEMMA LoadedTexts == ASSUME TextInv, Loaded PROVE Stamped' /\ TextsFresh'
<1> DEFINE n == load.name
           m == CHOOSE b \in Mem : set[b] = None
           f == [name |-> n, mtime |-> StatTime(n), text |-> load.text]
<1>1. /\ FilterTypeOK /\ UNCHANGED <<clock, file, stamp>> /\ torn \subseteq torn'
      /\ n \in Name /\ file[n] # None /\ m \in Mem
      /\ load.text = file[n].text \/ n \in torn'
  BY DEF TextInv, FilterInv, InHand, Loaded, fileVars
<1>2. UNCHANGED set \/ set' = [set EXCEPT ![m] = f]
  BY DEF Loaded
<1>3. f.name = n /\ f.mtime = file[n].mtime /\ f.text = load.text
  BY DEF StatTime
<1>4. file[n].mtime <= stamp[n]
  BY <1>1 DEF TextInv, Stamped
<1>5. \A b \in Mem : set'[b] = set[b] \/ set'[b] = f
  BY <1>1, <1>2 DEF FilterTypeOK
<1> HIDE DEF n, m, f
<1>6. Stamped'
  BY <1>1, <1>3, <1>4, <1>5 DEF TextInv, Stamped
<1>7. TextsFresh'
  BY <1>1, <1>3, <1>5 DEF TextInv, TextsFresh
<1> QED
  BY <1>6, <1>7

LEMMA TextsStep == ASSUME TextInv, [FilterNext]_filters PROVE Stamped' /\ TextsFresh'
<1>1. FilterTypeOK
  BY DEF TextInv, FilterInv
<1>2. CASE Loaded
  BY <1>2, LoadedTexts
<1>3. CASE \E n \in Name : Edit(n) \/ Remove(n)
  BY <1>3, EditTexts
<1>4. CASE Install
  <2>1. \A m \in Mem : set'[m] # None => set'[m] = set[m]
    BY <1>1, <1>4 DEF Install, FilterTypeOK
  <2> QED
    BY <1>4, <2>1, TextsKept DEF Install, fileVars
<1>5. CASE \/ ListFiles \/ ReadText \/ StatFails \/ EndScan \/ EndReload \/ TakeLock
           \/ \E n \in Name : SkipFile(n) \/ TakeFile(n)
           \/ \E s \in Slot : PruneSlot(s)
  BY <1>5, TextsKept DEF ListFiles, ReadText, StatFails, EndScan, EndReload, TakeLock, SkipFile,
                         TakeFile, PruneSlot, fileVars
<1>6. CASE \/ \E x \in Sess : WorkerStep(x) \/ \E n \in Asked : Ask(x, n)
           \/ \E r \in Relay : Decide(r) \/ ReadRate(r) \/ \E x \in Sess : Match(r, x)
           \/ UNCHANGED filters
  BY <1>6, TextsKept DEF WorkerStep, Found, NextSlot, NotFound, Ask, Decide, ReadRate, Match, filters,
                         fileVars, maintVars
<1> QED
  BY <1>2, <1>3, <1>4, <1>5, <1>6 DEF FilterNext, MaintStep

LEMMA TextsInit == ASSUME FilterInit PROVE Stamped /\ TextsFresh
<1> DEFINE found == {AtStart[s] : s \in Slot}
<1>1. /\ clock = 1 /\ torn = {} /\ stamp = [n \in Name |-> IF n \in found THEN 1 ELSE 0]
      /\ file = [n \in Name |-> IF n \in found THEN [mtime |-> 1, text |-> 0] ELSE None]
      /\ FilterTypeOK
  BY InvInit DEF FilterInit, FilterInv
<1>2. ASSUME NEW m \in Mem, set[m] # None
      PROVE  set[m].mtime = 1 /\ set[m].text = 0 /\ set[m].name \in found /\ set[m].name \in Name
  <2>1. PICK s \in Slot : s = CHOOSE t \in Slot : table[t] = m
    BY <1>2 DEF FilterInit
  <2>2. set[m] = [name |-> AtStart[s], mtime |-> 1, text |-> 0]
    BY <1>2, <2>1 DEF FilterInit
  <2>3. set[m].name = AtStart[s] /\ set[m].name \in Name
    BY <1>1, <1>2, <2>2 DEF FilterTypeOK, FilterSet
  <2> QED
    BY <2>2, <2>3
<1> HIDE DEF found
<1>3. Stamped
  BY <1>1, <1>2 DEF Stamped
<1>4. TextsFresh
  BY <1>1, <1>2 DEF TextsFresh
<1> QED
  BY <1>3, <1>4

(* A rule set that looks as new as its file has its text: what a reload    *)
(* skips is not stale, but for files changed twice in a second or between  *)
(* the read and the stat of their load.                                    *)
THEOREM NotStale == FilterSpec => []StaleOnlyIfTorn
<1>1. FilterInit => TextInv
  BY InvInit, TextsInit DEF TextInv
<1>2. TextInv /\ [FilterNext]_filters => TextInv'
  BY TextsStep, InvStep DEF TextInv
<1>3. TextInv => StaleOnlyIfTorn
  <2> SUFFICES ASSUME TextInv, NEW n \in Name, n \notin torn, file[n] # None, NEW s \in SlotsOf(n),
                      set[table[s]].mtime >= file[n].mtime
               PROVE  set[table[s]].text = file[n].text
    BY DEF StaleOnlyIfTorn
  <2>1. table[s] \in Mem /\ set[table[s]] # None /\ set[table[s]].name = n
    BY DEF SlotsOf, TextInv, FilterInv, FilterTypeOK, Backed
  <2> QED
    BY <2>1 DEF TextInv, TextsFresh
<1> QED
  BY <1>1, <1>2, <1>3, PTL DEF FilterSpec
-----------------------------------------------------------------------------
(* RelayPath: the checksums.                                               *)

(* One's complement: words that differ by turns of Base - 1 are alike.     *)
Turn == Base - 1

Alike(x, y) == \E k \in Int : x = y + k * Turn

(* No turn is as short as a word, and a word may be one turn.              *)
LEMMA TurnOK == Turn \in Nat /\ Turn > 1 /\ Base = Turn + 1 /\ Word = 0 .. Turn
BY BaseOK DEF Turn, Word

(* One round of the loops gives a word alike to the difference, or the     *)
(* sum.                                                                    *)
LEMMA LessAlike ==
  ASSUME NEW x \in Word, NEW old \in Word
  PROVE  Less(x, old) \in Word /\ Alike(Less(x, old), x - old)
<1>1. CASE x - old <= 0
  <2>1. Less(x, old) = x - old + 1 * Turn /\ Less(x, old) \in Word
    BY <1>1, TurnOK DEF Less
  <2> QED
    BY <2>1 DEF Alike
<1>2. CASE ~(x - old <= 0)
  <2>1. Less(x, old) = x - old + 0 * Turn /\ Less(x, old) \in Word
    BY <1>2, TurnOK DEF Less
  <2> QED
    BY <2>1 DEF Alike
<1> QED
  BY <1>1, <1>2

LEMMA MoreAlike ==
  ASSUME NEW x \in Word, NEW new \in Word
  PROVE  More(x, new) \in Word /\ Alike(More(x, new), x + new)
<1>1. CASE x + new >= Base
  <2>1. More(x, new) = x + new + (-1) * Turn /\ More(x, new) \in Word
    BY <1>1, TurnOK DEF More
  <2> QED
    BY <2>1 DEF Alike
<1>2. CASE ~(x + new >= Base)
  <2>1. More(x, new) = x + new + 0 * Turn /\ More(x, new) \in Word
    BY <1>2, TurnOK DEF More
  <2> QED
    BY <2>1 DEF Alike
<1> QED
  BY <1>1, <1>2

(* What goes of two words, and what comes, changes a sum by them and by    *)
(* turns (tuple_checksum.c).                                               *)
LEMMA LessTwice ==
  ASSUME NEW x \in Word, NEW a \in Word, NEW b \in Word
  PROVE  Less(Less(x, a), b) \in Word /\ Alike(Less(Less(x, a), b), x - a - b)
<1>1. Less(x, a) \in Word /\ Alike(Less(x, a), x - a)
  BY LessAlike
<1>2. Less(Less(x, a), b) \in Word /\ Alike(Less(Less(x, a), b), Less(x, a) - b)
  BY <1>1, LessAlike
<1>3. PICK k \in Int : Less(x, a) = x - a + k * Turn
  BY <1>1 DEF Alike
<1>4. PICK j \in Int : Less(Less(x, a), b) = Less(x, a) - b + j * Turn
  BY <1>2 DEF Alike
<1>5. x \in Int /\ a \in Int /\ b \in Int /\ Turn \in Int /\ k + j \in Int
  BY TurnOK
<1>6. Less(Less(x, a), b) = x - a - b + (k + j) * Turn
  BY <1>3, <1>4, <1>5
<1> QED
  BY <1>2, <1>5, <1>6 DEF Alike

LEMMA MoreTwice ==
  ASSUME NEW x \in Word, NEW a \in Word, NEW b \in Word
  PROVE  More(More(x, a), b) \in Word /\ Alike(More(More(x, a), b), x + a + b)
<1>1. More(x, a) \in Word /\ Alike(More(x, a), x + a)
  BY MoreAlike
<1>2. More(More(x, a), b) \in Word /\ Alike(More(More(x, a), b), More(x, a) + b)
  BY <1>1, MoreAlike
<1>3. PICK k \in Int : More(x, a) = x + a + k * Turn
  BY <1>1 DEF Alike
<1>4. PICK j \in Int : More(More(x, a), b) = More(x, a) + b + j * Turn
  BY <1>2 DEF Alike
<1>5. x \in Int /\ a \in Int /\ b \in Int /\ Turn \in Int /\ k + j \in Int
  BY TurnOK
<1>6. More(More(x, a), b) = x + a + b + (k + j) * Turn
  BY <1>3, <1>4, <1>5
<1> QED
  BY <1>2, <1>5, <1>6 DEF Alike

LEMMA DecrementAlike ==
  ASSUME NEW x \in Word, NEW a \in Word, NEW b \in Word
  PROVE  /\ Decrement(x, TRUE, a, b) \in Word
         /\ Alike(Decrement(x, TRUE, a, b), Turn - x - a - b)
         /\ Decrement(x, FALSE, a, b) \in Word
         /\ Alike(Decrement(x, FALSE, a, b), x - a - b)
<1> DEFINE y == Turn - x
<1>1. y \in Word /\ Complement(x) = y
  BY TurnOK DEF Complement
<1>2. y - a - b = Turn - x - a - b
  OBVIOUS
<1> HIDE DEF y
<1>3. /\ Decrement(x, TRUE, a, b) = Less(Less(y, a), b)
      /\ Decrement(x, FALSE, a, b) = Less(Less(x, a), b)
  BY <1>1 DEF Decrement
<1>4. Less(Less(y, a), b) \in Word /\ Alike(Less(Less(y, a), b), y - a - b)
  BY <1>1, LessTwice
<1>5. Less(Less(x, a), b) \in Word /\ Alike(Less(Less(x, a), b), x - a - b)
  BY LessTwice
<1>6. Alike(Less(Less(y, a), b), Turn - x - a - b)
  BY <1>2, <1>4, Zenon
<1> QED
  BY <1>3, <1>4, <1>5, <1>6

LEMMA IncrementAlike ==
  ASSUME NEW x \in Word, NEW a \in Word, NEW b \in Word
  PROVE  /\ Increment(x, TRUE, a, b) \in Word
         /\ Alike(Increment(x, TRUE, a, b), Turn - x - a - b)
         /\ Increment(x, FALSE, a, b) \in Word
         /\ Alike(Increment(x, FALSE, a, b), x + a + b)
<1> DEFINE m == More(More(x, a), b)
<1>1. m \in Word /\ Alike(m, x + a + b)
  BY MoreTwice
<1>2. Increment(x, TRUE, a, b) = Complement(m) /\ Increment(x, FALSE, a, b) = m
  BY DEF Increment
<1> HIDE DEF m
<1>3. Complement(m) \in Word /\ Complement(m) = Turn - m
  BY <1>1, TurnOK DEF Complement
<1>4. PICK k \in Int : m = x + a + b + k * Turn
  BY <1>1 DEF Alike
<1>5. x \in Int /\ a \in Int /\ b \in Int /\ Turn \in Int /\ m \in Int
  BY <1>1, TurnOK
<1>6. Turn - m = Turn - x - a - b + (- k) * Turn
  BY <1>4, <1>5
<1>7. Alike(Turn - m, Turn - x - a - b)
  BY <1>6 DEF Alike
<1> QED
  BY <1>1, <1>2, <1>3, <1>7

(* What a receiver accepts is alike to zero, and more.                     *)
LEMMA AcceptsAlike ==
  ASSUME NEW s \in Int
  PROVE  /\ Accepts(s) => Alike(s, 0)
         /\ Alike(s, 0) /\ 0 < s /\ s <= 6 * Turn => Accepts(s)
<1>1. ASSUME Accepts(s) PROVE Alike(s, 0)
  <2>1. PICK k \in {1, 2, 3, 4, 5, 6} : s = k * Turn
    BY <1>1, TurnOK DEF Accepts
  <2> QED
    BY <2>1, TurnOK DEF Alike
<1>2. ASSUME Alike(s, 0), 0 < s, s <= 6 * Turn PROVE Accepts(s)
  <2>1. PICK k \in Int : s = k * Turn
    BY <1>2, TurnOK DEF Alike
  <2>2. k > 0
    BY <1>2, <2>1, TurnOK
  <2>3. k <= 6
    BY <1>2, <2>1, TurnOK
  <2>4. k \in {1, 2, 3, 4, 5, 6}
    BY <2>2, <2>3
  <2> QED
    BY <2>1, <2>4, TurnOK DEF Accepts
<1> QED
  BY <1>1, <1>2

LEMMA AlikeTrans ==
  ASSUME NEW x \in Int, NEW y \in Int, NEW z \in Int, Alike(x, y), Alike(y, z)
  PROVE  Alike(x, z)
<1>1. PICK k \in Int : x = y + k * Turn
  BY DEF Alike
<1>2. PICK j \in Int : y = z + j * Turn
  BY DEF Alike
<1>3. x = z + (k + j) * Turn /\ k + j \in Int
  BY <1>1, <1>2, TurnOK
<1> QED
  BY <1>3 DEF Alike

(* A sender finds a checksum.                                              *)
LEMMA SenderSumOK ==
  ASSUME NEW s \in Int, 0 < s, s <= 5 * Turn
  PROVE  SenderSum(s) \in 0 .. Turn - 1 /\ Accepts(s + SenderSum(s))
<1>1. \E n \in {1, 2, 3, 4, 5} : (n - 1) * Turn < s /\ s <= n * Turn
  BY TurnOK
<1>2. PICK n \in {1, 2, 3, 4, 5} : (n - 1) * Turn < s /\ s <= n * Turn
  BY <1>1
<1>3. n * Turn - s \in 0 .. Base - 2
  BY <1>2, TurnOK
<1>4. Accepts(s + (n * Turn - s))
  BY <1>2, TurnOK DEF Accepts
<1>5. \E c \in 0 .. Base - 2 : Accepts(s + c)
  BY <1>3, <1>4
<1>6. Base - 2 = Turn - 1
  BY TurnOK
<1> QED
  BY <1>5, <1>6 DEF SenderSum

(* Words that are corrected for what changed are still accepted.           *)
LEMMA StillAccepted ==
  ASSUME NEW old \in Int, NEW new \in Int, NEW sum \in Word, NEW c \in Word,
         Accepts(old + sum), Alike(new + c, old + sum), 0 < new, new <= 5 * Turn
  PROVE  Accepts(new + c)
<1>1. sum \in Int /\ c \in Int /\ 0 <= c /\ c <= Turn /\ Turn \in Int
  BY TurnOK
<1>2. Alike(old + sum, 0)
  BY <1>1, AcceptsAlike
<1>4. Alike(new + c, 0)
  BY <1>1, <1>2, AlikeTrans
<1>5. 0 < new + c /\ new + c <= 6 * Turn
  BY <1>1
<1> QED
  BY <1>1, <1>4, <1>5, AcceptsAlike

LEMMA Constants ==
  /\ Rest \in Word /\ Rest \in Int /\ 0 < Rest /\ Rest <= Turn /\ EchoId \in Word
  /\ Router \in Word /\ PubIp \in Word /\ PubIp # 0 /\ 0 \in Word /\ Junk \subseteq Word
BY PathAssumption, TurnOK

(* The checksum of IP is right for the addresses that are written.         *)
LEMMA CommitIpOK ==
  ASSUME NEW p \in Packet, NEW src \in Endpoint, NEW dst \in Endpoint,
         Accepts(IpWords(p.src, p.dst) + p.ipSum)
  PROVE  /\ CommitIp(p, src, dst) \in Word
         /\ Accepts(IpWords(src, dst) + CommitIp(p, src, dst))
<1> DEFINE d == Decrement(p.ipSum, TRUE, p.src.ip, p.dst.ip)
           c == Increment(d, TRUE, src.ip, dst.ip)
<1>1. /\ p.ipSum \in Word /\ p.src.ip \in Word /\ p.dst.ip \in Word
      /\ src.ip \in Word /\ dst.ip \in Word
  BY DEF Packet, Endpoint
<1>2. d \in Word /\ Alike(d, Turn - p.ipSum - p.src.ip - p.dst.ip)
  BY <1>1, DecrementAlike
<1>3. CommitIp(p, src, dst) = c
  BY DEF CommitIp
<1> HIDE DEF d
<1>4. c \in Word /\ Alike(c, Turn - d - src.ip - dst.ip)
  BY <1>1, <1>2, IncrementAlike
<1> HIDE DEF c
<1>5. PICK k \in Int : d = Turn - p.ipSum - p.src.ip - p.dst.ip + k * Turn
  BY <1>2 DEF Alike
<1>6. PICK j \in Int : c = Turn - d - src.ip - dst.ip + j * Turn
  BY <1>4 DEF Alike
<1>7. /\ p.ipSum \in Int /\ p.src.ip \in Int /\ p.dst.ip \in Int /\ d \in Int /\ c \in Int
      /\ src.ip \in 0 .. Turn /\ dst.ip \in 0 .. Turn /\ Turn \in Int
  BY <1>1, <1>2, <1>4, TurnOK
<1>8. IpWords(src, dst) + c = IpWords(p.src, p.dst) + p.ipSum + (j - k) * Turn
  BY <1>5, <1>6, <1>7, Constants DEF IpWords
<1>9. /\ IpWords(p.src, p.dst) \in Int /\ IpWords(src, dst) \in Int
      /\ 0 < IpWords(src, dst) /\ IpWords(src, dst) <= 5 * Turn
  BY <1>7, Constants DEF IpWords
<1>10. Alike(IpWords(src, dst) + c, IpWords(p.src, p.dst) + p.ipSum)
  BY <1>8 DEF Alike
<1> QED
  BY <1>1, <1>3, <1>4, <1>9, <1>10, StillAccepted

(* The words that the checksums of TCP and UDP are about.                  *)
Flowing(src, dst) == src.ip + dst.ip + src.port + dst.port + Rest

LEMMA FlowingOK ==
  ASSUME NEW src \in Endpoint, NEW dst \in Endpoint
  PROVE  /\ Flowing(src, dst) \in Int /\ 0 < Flowing(src, dst) /\ Flowing(src, dst) <= 5 * Turn
         /\ src.ip \in Word /\ dst.ip \in Word /\ src.port \in Word /\ dst.port \in Word
<1>1. /\ src.ip \in Word /\ dst.ip \in Word /\ src.port \in Word /\ dst.port \in Word
  BY DEF Endpoint
<1>2. /\ src.ip \in 0 .. Turn /\ dst.ip \in 0 .. Turn /\ src.port \in 0 .. Turn
      /\ dst.port \in 0 .. Turn /\ Turn \in Nat
  BY <1>1, TurnOK
<1> QED
  BY <1>1, <1>2, Constants DEF Flowing

(* So is the one of TCP, and of UDP, whatever is in the unset words of the *)
(* pseudo header.                                                          *)
LEMMA CommitTcpOK ==
  ASSUME NEW p \in Packet, NEW src \in Endpoint, NEW dst \in Endpoint, NEW osrc, NEW odst,
         NEW junk \in Word,
         Old(osrc, src).ip = p.src.ip, Old(odst, dst).ip = p.dst.ip,
         Accepts(Flowing(p.src, p.dst) + p.sum)
  PROVE  /\ CommitTcp(p, src, dst, osrc, odst, junk) \in Word
         /\ Accepts(Flowing(src, dst) + CommitTcp(p, src, dst, osrc, odst, junk))
<1>1. /\ p.sum \in Word /\ p.src \in Endpoint /\ p.dst \in Endpoint
  BY DEF Packet
<1>2. /\ Flowing(p.src, p.dst) \in Int /\ Flowing(src, dst) \in Int
      /\ 0 < Flowing(src, dst) /\ Flowing(src, dst) <= 5 * Turn
      /\ p.src.ip \in Word /\ p.dst.ip \in Word /\ p.src.port \in Word /\ p.dst.port \in Word
      /\ src.ip \in Word /\ dst.ip \in Word /\ src.port \in Word /\ dst.port \in Word
  BY <1>1, FlowingOK
<1> DEFINE c1 == Decrement(p.sum, TRUE, p.src.port, p.dst.port)
           c2 == Decrement(c1, FALSE, p.src.ip, p.dst.ip)
           c3 == Less(c2, junk)
           c4 == Increment(c3, FALSE, src.ip, dst.ip)
           c5 == More(c4, junk)
           c6 == Increment(c5, TRUE, src.port, dst.port)
<1>3. CommitTcp(p, src, dst, osrc, odst, junk) = c6
  BY DEF CommitTcp
<1>4. c1 \in Word /\ Alike(c1, Turn - p.sum - p.src.port - p.dst.port)
  BY <1>1, <1>2, DecrementAlike
<1> HIDE DEF c1
<1>5. c2 \in Word /\ Alike(c2, c1 - p.src.ip - p.dst.ip)
  BY <1>2, <1>4, DecrementAlike
<1> HIDE DEF c2
<1>6. c3 \in Word /\ Alike(c3, c2 - junk)
  BY <1>5, LessAlike
<1> HIDE DEF c3
<1>7. c4 \in Word /\ Alike(c4, c3 + src.ip + dst.ip)
  BY <1>2, <1>6, IncrementAlike
<1> HIDE DEF c4
<1>8. c5 \in Word /\ Alike(c5, c4 + junk)
  BY <1>7, MoreAlike
<1> HIDE DEF c5
<1>9. c6 \in Word /\ Alike(c6, Turn - c5 - src.port - dst.port)
  BY <1>2, <1>8, IncrementAlike
<1> HIDE DEF c6
<1>10. PICK k1 \in Int : c1 = Turn - p.sum - p.src.port - p.dst.port + k1 * Turn
  BY <1>4 DEF Alike
<1>11. PICK k2 \in Int : c2 = c1 - p.src.ip - p.dst.ip + k2 * Turn
  BY <1>5 DEF Alike
<1>12. PICK k3 \in Int : c3 = c2 - junk + k3 * Turn
  BY <1>6 DEF Alike
<1>13. PICK k4 \in Int : c4 = c3 + src.ip + dst.ip + k4 * Turn
  BY <1>7 DEF Alike
<1>14. PICK k5 \in Int : c5 = c4 + junk + k5 * Turn
  BY <1>8 DEF Alike
<1>15. PICK k6 \in Int : c6 = Turn - c5 - src.port - dst.port + k6 * Turn
  BY <1>9 DEF Alike
<1>16. /\ p.sum \in Int /\ p.src.port \in Int /\ p.dst.port \in Int /\ p.src.ip \in Int
       /\ p.dst.ip \in Int /\ src.ip \in Int /\ dst.ip \in Int /\ src.port \in Int
       /\ dst.port \in Int /\ junk \in Int /\ Turn \in Int
  <2>1. Word \subseteq Int /\ Turn \in Int
    BY TurnOK
  <2> QED
    BY <1>1, <1>2, <2>1
<1>17. c1 \in Int /\ c2 \in Int /\ c3 \in Int /\ c4 \in Int /\ c5 \in Int /\ c6 \in Int
  <2>1. Word \subseteq Int
    BY TurnOK
  <2> QED
    BY <1>4, <1>5, <1>6, <1>7, <1>8, <1>9, <2>1
<1>18. c3 = Turn - p.sum - p.src.port - p.dst.port - p.src.ip - p.dst.ip - junk
             + (k1 + k2 + k3) * Turn
  BY <1>10, <1>11, <1>12, <1>16, <1>17
<1>19. c6 = Turn - c3 - src.ip - dst.ip - junk - src.port - dst.port + (k6 - k5 - k4) * Turn
  BY <1>13, <1>14, <1>15, <1>16, <1>17
<1>20. Flowing(src, dst) + c6 =
         Flowing(p.src, p.dst) + p.sum + (k6 - k5 - k4 - k3 - k2 - k1) * Turn
  BY <1>16, <1>17, <1>18, <1>19, Constants DEF Flowing
<1>21. Alike(Flowing(src, dst) + c6, Flowing(p.src, p.dst) + p.sum)
  BY <1>20 DEF Alike
<1>22. Accepts(Flowing(src, dst) + c6)
  BY <1>1, <1>2, <1>9, <1>21, StillAccepted
<1> QED
  BY <1>3, <1>9, <1>22

(* A message about an echo has the address in the place of the id.         *)
Echoed(inner, port) == (IF inner = 0 THEN EchoId ELSE inner) + port + Rest

LEMMA NewSeqOK ==
  ASSUME NEW p \in Packet, NEW src \in Endpoint, NEW dst \in Endpoint
  PROVE  NewSeq(p, src, dst) \in Word
BY DEF NewSeq, Endpoint

(* And the one of ICMP, also of a message about an echo.                   *)
LEMMA CommitIcmpOK ==
  ASSUME NEW p \in Packet, NEW src \in Endpoint, NEW dst \in Endpoint, p.inner # 0 => dst.ip # 0,
         Accepts(Echoed(p.inner, p.src.port) + p.sum)
  PROVE  /\ CommitIcmp(p, src, dst) \in Word
         /\ Accepts(Echoed(IF p.inner = 0 THEN 0 ELSE dst.ip, NewSeq(p, src, dst))
                    + CommitIcmp(p, src, dst))
<1> DEFINE a == IF p.inner = 0 THEN EchoId ELSE p.inner
           b == IF p.inner = 0 THEN EchoId ELSE dst.ip
           q == NewSeq(p, src, dst)
           d == Decrement(p.sum, TRUE, a, p.src.port)
<1>1. /\ p.sum \in Word /\ p.inner \in Word /\ p.src.port \in Word /\ a \in Word /\ b \in Word
      /\ q \in Word
  BY Constants, NewSeqOK DEF Packet, Endpoint
<1>2. /\ Echoed(p.inner, p.src.port) = a + p.src.port + Rest
      /\ Echoed(IF p.inner = 0 THEN 0 ELSE dst.ip, q) = b + q + Rest
  BY DEF Echoed
<1> DEFINE c == Increment(d, TRUE, b, q)
<1>3. CommitIcmp(p, src, dst) = c
  BY DEF CommitIcmp
<1> HIDE DEF a, b, q
<1>4. d \in Word /\ Alike(d, Turn - p.sum - a - p.src.port)
  BY <1>1, DecrementAlike
<1> HIDE DEF d
<1>5. c \in Word /\ Alike(c, Turn - d - b - q)
  BY <1>1, <1>4, IncrementAlike
<1> HIDE DEF c
<1>6. PICK k \in Int : d = Turn - p.sum - a - p.src.port + k * Turn
  BY <1>4 DEF Alike
<1>7. PICK j \in Int : c = Turn - d - b - q + j * Turn
  BY <1>5 DEF Alike
<1>8. /\ p.sum \in Int /\ a \in Int /\ b \in 0 .. Turn /\ q \in 0 .. Turn /\ d \in Int
      /\ p.src.port \in Int /\ Turn \in Int /\ c \in Int
  BY <1>1, <1>4, <1>5, TurnOK
<1>9. b + q + Rest + c = a + p.src.port + Rest + p.sum + (j - k) * Turn
  BY <1>6, <1>7, <1>8, Constants
<1>10. /\ a + p.src.port + Rest \in Int /\ b + q + Rest \in Int
       /\ 0 < b + q + Rest /\ b + q + Rest <= 5 * Turn
  BY <1>8, Constants
<1>11. Accepts(a + p.src.port + Rest + p.sum)
  BY <1>2
<1>12. Alike(b + q + Rest + c, a + p.src.port + Rest + p.sum)
  BY <1>9 DEF Alike
<1>13. Accepts(b + q + Rest + c)
  BY <1>1, <1>5, <1>10, <1>11, <1>12, StillAccepted
<1>14. q = NewSeq(p, src, dst)
  BY DEF q
<1> QED
  BY <1>2, <1>3, <1>5, <1>13, <1>14

LEMMA WordsAre ==
  ASSUME NEW p
  PROVE  Words(p) = IF p.src.proto = "icmp" THEN Echoed(p.inner, p.src.port)
                    ELSE Flowing(p.src, p.dst)
<1>1. CASE p.src.proto = "icmp" /\ p.inner = 0
  BY <1>1 DEF Words, Echoed
<1>2. CASE p.src.proto = "icmp" /\ p.inner # 0
  BY <1>2 DEF Words, Echoed
<1>3. CASE p.src.proto # "icmp"
  BY <1>3 DEF Words, Flowing
<1> QED
  BY <1>1, <1>2, <1>3

(* A packet that tuples are written into has their addresses, and is right *)
(* if it was.                                                              *)
Numbers(e, seq) == IF e.proto = "icmp" THEN [e EXCEPT !.port = seq] ELSE e

LEMMA NumbersOK ==
  ASSUME NEW e \in Endpoint, NEW seq \in Word
  PROVE  /\ Numbers(e, seq) \in Endpoint
         /\ Numbers(e, seq).ip = e.ip /\ Numbers(e, seq).proto = e.proto
         /\ Numbers(e, seq).port = IF e.proto = "icmp" THEN seq ELSE e.port
BY DEF Numbers, Endpoint

LEMMA CommitParts ==
  ASSUME NEW p, NEW src, NEW dst, NEW osrc, NEW odst, NEW junk
  PROVE  LET c == Commit(p, src, dst, osrc, odst, junk) IN
         /\ c = [src |-> c.src, dst |-> c.dst, ipSum |-> c.ipSum, inner |-> c.inner, sum |-> c.sum]
         /\ c.src = Numbers(src, NewSeq(p, src, dst)) /\ c.dst = Numbers(dst, NewSeq(p, src, dst))
         /\ c.ipSum = CommitIp(p, src, dst) /\ c.inner = IF p.inner = 0 THEN 0 ELSE dst.ip
         /\ src.proto = "tcp" => c.sum = CommitTcp(p, src, dst, osrc, odst, junk)
         /\ src.proto = "udp" => c.sum = CommitUdp(p, src, dst, osrc, odst, junk)
         /\ src.proto = "icmp" => c.sum = CommitIcmp(p, src, dst)
         /\ src.proto = "fragment" => c.sum = p.sum
BY DEF Commit, Numbers

(* Whatever is written into a packet that is right, it is right again.     *)
LEMMA CommitRight ==
  ASSUME NEW p \in Packet, Right(p), NEW src \in Endpoint, NEW dst \in Endpoint,
         NEW osrc, NEW odst, NEW junk \in Word,
         src.proto = p.src.proto, dst.proto = src.proto, p.inner # 0 => dst.ip # 0,
         Old(osrc, src).ip = p.src.ip, Old(odst, dst).ip = p.dst.ip
  PROVE  LET c == Commit(p, src, dst, osrc, odst, junk) IN c \in Packet /\ Right(c)
<1> DEFINE q == NewSeq(p, src, dst)
<1> PICK c : c = Commit(p, src, dst, osrc, odst, junk)
  OBVIOUS
<1>1. q \in Word
  BY NewSeqOK
<1>2. /\ c = [src |-> c.src, dst |-> c.dst, ipSum |-> c.ipSum, inner |-> c.inner, sum |-> c.sum]
      /\ c.src = Numbers(src, q) /\ c.dst = Numbers(dst, q)
      /\ c.ipSum = CommitIp(p, src, dst) /\ c.inner = IF p.inner = 0 THEN 0 ELSE dst.ip
      /\ src.proto = "tcp" => c.sum = CommitTcp(p, src, dst, osrc, odst, junk)
      /\ src.proto = "udp" => c.sum = CommitUdp(p, src, dst, osrc, odst, junk)
      /\ src.proto = "icmp" => c.sum = CommitIcmp(p, src, dst)
      /\ src.proto = "fragment" => c.sum = p.sum
  BY CommitParts
<1>3. /\ c.src \in Endpoint /\ c.src.ip = src.ip /\ c.src.proto = src.proto
      /\ c.src.port = IF src.proto = "icmp" THEN q ELSE src.port
      /\ c.dst \in Endpoint /\ c.dst.ip = dst.ip
      /\ c.dst.port = IF src.proto = "icmp" THEN q ELSE dst.port
  BY <1>1, <1>2, NumbersOK
<1>4. /\ Accepts(IpWords(p.src, p.dst) + p.ipSum)
      /\ \/ p.src.proto = "fragment"
         \/ p.src.proto = "udp" /\ p.sum = 0
         \/ Accepts(Words(p) + p.sum)
  BY DEF Right
<1>5. c.ipSum \in Word /\ Accepts(IpWords(c.src, c.dst) + c.ipSum)
  <2>1. CommitIp(p, src, dst) \in Word /\ Accepts(IpWords(src, dst) + CommitIp(p, src, dst))
    BY <1>4, CommitIpOK
  <2>2. IpWords(c.src, c.dst) = IpWords(src, dst)
    BY <1>3 DEF IpWords
  <2> QED
    BY <1>2, <2>1, <2>2
<1>6. c.inner \in Word
  BY <1>2, Constants DEF Endpoint
<1>7. /\ c.sum \in Word
      /\ src.proto = "fragment" \/ (src.proto = "udp" /\ c.sum = 0) \/ Accepts(Words(c) + c.sum)
  <2>1. src.proto \in {"tcp", "udp", "icmp", "fragment"} /\ p.sum \in Word /\ 0 \in Word
    BY Constants DEF Endpoint, Proto, Packet
  <2>2. ASSUME src.proto \in {"tcp", "udp"}
        PROVE  Words(c) = Flowing(src, dst) /\ Words(p) = Flowing(p.src, p.dst)
    BY <1>3, <2>2, WordsAre DEF Flowing
  <2>3. ASSUME src.proto \in {"tcp", "udp"}, Accepts(Words(p) + p.sum)
        PROVE  /\ CommitTcp(p, src, dst, osrc, odst, junk) \in Word
               /\ Accepts(Words(c) + CommitTcp(p, src, dst, osrc, odst, junk))
    BY <2>2, <2>3, CommitTcpOK
  <2>4. CASE src.proto = "tcp"
    BY <1>2, <1>4, <2>3, <2>4
  <2>5. CASE src.proto = "udp"
    <3>1. CASE p.sum = 0
      BY <1>2, <2>1, <2>5, <3>1 DEF CommitUdp
    <3>2. CASE p.sum # 0
      BY <1>2, <1>4, <2>3, <2>5, <3>2 DEF CommitUdp
    <3> QED
      BY <3>1, <3>2
  <2>6. CASE src.proto = "icmp"
    <3>1. Words(p) = Echoed(p.inner, p.src.port) /\ Accepts(Words(p) + p.sum)
      BY <1>4, <2>6, WordsAre
    <3>2. Words(c) = Echoed(IF p.inner = 0 THEN 0 ELSE dst.ip, q)
      BY <1>2, <1>3, <2>6, WordsAre
    <3>3. /\ CommitIcmp(p, src, dst) \in Word
          /\ Accepts(Echoed(IF p.inner = 0 THEN 0 ELSE dst.ip, q) + CommitIcmp(p, src, dst))
      BY <3>1, CommitIcmpOK
    <3> QED
      BY <1>2, <2>6, <3>2, <3>3
  <2>7. CASE src.proto = "fragment"
    BY <1>2, <2>1, <2>7
  <2> QED
    BY <2>1, <2>4, <2>5, <2>6, <2>7
<1>8. c \in Packet
  BY <1>2, <1>3, <1>5, <1>6, <1>7 DEF Packet
<1>9. Right(c)
  BY <1>3, <1>5, <1>7 DEF Right
<1> QED
  BY <1>8, <1>9

(* What a host makes is right.                                             *)
LEMMA FreshRight ==
  ASSUME NEW src \in Endpoint, NEW dst \in Endpoint, NEW inner \in Word, NEW bare \in BOOLEAN
  PROVE  LET p == Fresh(src, dst, inner, bare) IN
         p \in Packet /\ p.src = src /\ p.dst = dst /\ p.inner = inner /\ Right(p)
<1> DEFINE r == [src |-> src, dst |-> dst, inner |-> inner,
                 ipSum |-> SenderSum(IpWords(src, dst)), sum |-> 0]
           c == SenderSum(Words(r))
           sum == CASE src.proto \in {"tcp", "icmp"} -> c
                    [] src.proto = "udp" -> IF bare THEN 0 ELSE IF c = 0 THEN Base - 1 ELSE c
                    [] OTHER -> 0
<1> PICK p : p = Fresh(src, dst, inner, bare)
  OBVIOUS
<1>1. /\ src.proto \in {"tcp", "udp", "icmp", "fragment"}
      /\ src.ip \in 0 .. Turn /\ dst.ip \in 0 .. Turn /\ src.port \in 0 .. Turn
      /\ dst.port \in 0 .. Turn /\ Turn \in Nat /\ inner \in 0 .. Turn /\ EchoId \in 0 .. Turn
  BY Constants, TurnOK DEF Endpoint, Proto
<1>2. IpWords(src, dst) \in Int /\ 0 < IpWords(src, dst) /\ IpWords(src, dst) <= 5 * Turn
  BY <1>1, Constants DEF IpWords
<1>3. Words(r) = IF src.proto = "icmp" THEN Echoed(inner, src.port) ELSE Flowing(src, dst)
  BY WordsAre
<1>4. Words(r) \in Int /\ 0 < Words(r) /\ Words(r) <= 5 * Turn
  BY <1>1, <1>3, Constants DEF Echoed, Flowing
<1>5. /\ p = [src |-> src, dst |-> dst, inner |-> inner, ipSum |-> r.ipSum, sum |-> sum]
      /\ Words(p) = Words(r)
  <2>1. p = [r EXCEPT !.sum = sum]
    BY DEF Fresh
  <2>2. p = [src |-> src, dst |-> dst, inner |-> inner, ipSum |-> r.ipSum, sum |-> sum]
    BY <2>1
  <2> QED
    BY <2>2, <1>3, WordsAre
<1>6. r.ipSum \in 0 .. Turn - 1 /\ Accepts(IpWords(src, dst) + r.ipSum)
  BY <1>2, SenderSumOK
<1>7. c \in 0 .. Turn - 1 /\ Accepts(Words(r) + c)
  BY <1>4, SenderSumOK
<1> HIDE DEF r, c
<1>8. c = 0 => Accepts(Words(r) + Turn)
  <2>1. c = 0 => Alike(Words(r), 0)
    BY <1>4, <1>7, AcceptsAlike
  <2>2. Alike(Words(r) + Turn, Words(r))
    <3>1. Words(r) + Turn = Words(r) + 1 * Turn
      BY <1>1, <1>4
    <3> QED
      BY <3>1 DEF Alike
  <2>3. c = 0 => Alike(Words(r) + Turn, 0)
    BY <1>1, <1>4, <2>1, <2>2, AlikeTrans
  <2> QED
    BY <1>1, <1>4, <2>3, AcceptsAlike, TurnOK
<1>9. /\ sum \in Word
      /\ src.proto = "fragment" \/ (src.proto = "udp" /\ sum = 0) \/ Accepts(Words(r) + sum)
  <2>1. Base - 1 = Turn /\ c \in Word /\ Turn \in Word /\ 0 \in Word
    BY <1>7, TurnOK
  <2>2. CASE src.proto \in {"tcp", "icmp"}
    BY <1>7, <2>1, <2>2
  <2>3. CASE src.proto = "udp"
    BY <1>7, <1>8, <2>1, <2>3
  <2>4. CASE src.proto = "fragment"
    BY <2>1, <2>4
  <2> QED
    BY <1>1, <2>2, <2>3, <2>4
<1> HIDE DEF sum
<1>10. r.ipSum \in Word
  BY <1>6, TurnOK
<1> QED
  BY <1>5, <1>6, <1>9, <1>10 DEF Packet, Right
-----------------------------------------------------------------------------
(* The inductive invariant of the path.  A packet outside has a public     *)
(* endpoint that only its user has (or the address, a fragment), and the   *)
(* relation of SNAT that a reply finds has one of its own user, too.       *)
Tied(e, f) == f.proto = e.proto /\ (e.proto = "icmp" => f.port = e.port)
              /\ (e.proto = "fragment" => f.port = 0)

Tables ==
  /\ filter \in [User -> Filter \cup {Nothing}]
  /\ snat \in [Private -> Endpoint \cup {Nothing}]
  /\ \A e \in Private : snat[e] # Nothing => snat[e] \in Publics(e)

(* What lies under a key is one of the relations in the ring.              *)
Redirections ==
  /\ redirects \in Seq([src : Private, dst : Endpoint, nat : Endpoint]) /\ Len(redirects) <= MaxDnat
  /\ \A i \in DOMAIN redirects :
       Tied(redirects[i].src, redirects[i].dst) /\ Tied(redirects[i].src, redirects[i].nat)
  /\ \A k \in DOMAIN back : \E i \in DOMAIN redirects :
       k = <<redirects[i].src, redirects[i].nat>> /\ back[k] = redirects[i].dst

Sent(s) ==
  /\ s.pkt \in Packet /\ Right(s.pkt) /\ s.pkt.inner = 0
  /\ s.from \in Private /\ s.to \in Endpoint /\ s.by \in Filter
  /\ s.pkt.src \in Publics(s.from)
  /\ Tied(s.from, s.to) /\ Tied(s.pkt.src, s.pkt.dst)

Outside == \A s \in flight : Sent(s)

Delivered == got # Nothing => got.pkt \in Packet /\ Right(got.pkt)

PathInv == Tables /\ Redirections /\ Outside /\ Delivered /\ ToItsUser
-----------------------------------------------------------------------------
LEMMA FlowOK ==
  ASSUME NEW f \in Flow
  PROVE  f.src \in Private /\ f.dst \in Endpoint /\ Tied(f.src, f.dst)
BY PathAssumption DEF Private, Tied

LEMMA PrivateOK ==
  ASSUME NEW e \in Private
  PROVE  /\ e \in Endpoint /\ e # Nothing /\ e.ip \in User /\ e.ip \in Word /\ e.ip # 0
         /\ e.proto = "fragment" => e.port = 0
<1>1. PICK f \in Flow : e = f.src
  BY DEF Private
<1>2. e \in Endpoint /\ e.ip \in User /\ (e.proto = "fragment" => e.port = 0)
  BY <1>1, PathAssumption
<1> QED
  BY <1>2, PathAssumption

(* A user has the public endpoints that his ports make.                    *)
LEMMA PublicsOK ==
  ASSUME NEW e \in Private, NEW q \in Publics(e)
  PROVE  /\ q \in Endpoint /\ q # Nothing /\ q.ip = PubIp /\ q.proto = e.proto
         /\ IF e.proto = "fragment" THEN q.port = 0 ELSE q.port \in PubPorts[e.ip]
<1>1. e \in Endpoint /\ e.ip \in User /\ PubPorts[e.ip] \subseteq Word
  BY PrivateOK, PathAssumption
<1>2. CASE e.proto = "fragment"
  <2>1. q = [ip |-> PubIp, proto |-> e.proto, port |-> 0]
    BY <1>2 DEF Publics
  <2> QED
    BY <1>1, <1>2, <2>1, Constants, PathAssumption DEF Endpoint
<1>3. CASE e.proto # "fragment"
  <2>1. PICK n \in PubPorts[e.ip] : q = [ip |-> PubIp, proto |-> e.proto, port |-> n]
    BY <1>3 DEF Publics
  <2> QED
    BY <1>1, <1>3, <2>1, Constants, PathAssumption DEF Endpoint
<1> QED
  BY <1>2, <1>3

(* No two users have a public endpoint, but fragments.                     *)
LEMMA PublicsApart ==
  ASSUME NEW e \in Private, NEW f \in Private, NEW q, q \in Publics(e), q \in Publics(f),
         q.proto # "fragment"
  PROVE  e.ip = f.ip
<1>1. e.ip \in User /\ f.ip \in User /\ q.port \in PubPorts[e.ip] /\ q.port \in PubPorts[f.ip]
  BY PrivateOK, PublicsOK
<1> QED
  BY <1>1, PathAssumption

(* What a rule redirects to is an endpoint.                                *)
LEMMA DecisionsOK ==
  ASSUME NEW x \in Filter, NEW src, NEW dst, NEW flags,
         NEW d \in Decisions(Rules[x].in, src, dst, flags)
  PROVE  d.nat \in [ip : Word, port : Word]
<1>1. CASE d = Pass
  <2>1. d.nat = [ip |-> 0, port |-> 0]
    BY <1>1 DEF Pass, NewRule
  <2> QED
    BY <2>1, Constants
<1>2. CASE \E i \in DOMAIN Rules[x].in : d = Rules[x].in[i]
  BY <1>2, PathAssumption DEF Rules
<1>3. d = Pass \/ \E i \in DOMAIN Rules[x].in : d = Rules[x].in[i]
  BY DEF Decisions
<1> QED
  BY <1>1, <1>2, <1>3

LEMMA RedirectedOK ==
  ASSUME NEW src \in Endpoint, NEW dst \in Endpoint, Tied(src, dst),
         NEW nat \in [ip : Word, port : Word]
  PROVE  Redirected(dst, nat) \in Endpoint /\ Tied(src, Redirected(dst, nat))
<1>1. CASE dst.proto \in {"tcp", "udp"}
  BY <1>1 DEF Redirected, RedirectedIp, RedirectedPort, Endpoint, Tied
<1>2. CASE dst.proto \notin {"tcp", "udp"}
  BY <1>2 DEF Redirected, RedirectedIp, Endpoint, Tied
<1> QED
  BY <1>1, <1>2

(* A redirection takes a new relation into the ring.                       *)
LEMMA RedirectDoOK ==
  ASSUME Redirections, NEW src \in Private, NEW dst \in Endpoint, NEW nat \in Endpoint,
         Tied(src, dst), Tied(src, nat), RedirectDo(src, dst, nat)
  PROVE  Redirections'
<1> DEFINE rel == Relation(src, dst, nat)
           R == [src : Private, dst : Endpoint, nat : Endpoint]
<1>1. CASE InUse(rel)
  BY <1>1 DEF RedirectDo, Redirections
<1>2. CASE ~InUse(rel)
  <2> DEFINE full == Len(redirects) = MaxDnat
             ring == IF full THEN Tail(redirects) ELSE redirects
             left == IF full THEN Forget(redirects[1]) ELSE back
             key == <<src, nat>>
  <2>1. /\ redirects' = Append(ring, rel)
        /\ back' = [k \in DOMAIN left \cup {key} |-> IF k = key THEN dst ELSE left[k]]
    BY <1>2 DEF RedirectDo
  <2>2. redirects \in Seq(R) /\ Len(redirects) \in Nat /\ MaxDnat \in Nat \ {0} /\ rel \in R
    BY PathAssumption DEF Redirections, Relation
  <2>3. ring \in Seq(R) /\ Len(ring) < MaxDnat /\ DOMAIN redirects = 1 .. Len(redirects)
    BY <2>2 DEF Redirections
  <2>4. \A i \in DOMAIN ring : \E j \in DOMAIN redirects : ring[i] = redirects[j]
    <3> SUFFICES ASSUME NEW i \in DOMAIN ring PROVE \E j \in DOMAIN redirects : ring[i] = redirects[j]
      OBVIOUS
    <3>1. CASE full
      <4>1. i + 1 \in DOMAIN redirects /\ ring[i] = redirects[i + 1]
        BY <2>2, <2>3, <3>1
      <4> QED
        BY <4>1
    <3>2. CASE ~full
      BY <3>2
    <3> QED
      BY <3>1, <3>2
  <2>5. \A j \in DOMAIN redirects :
          (full => j # 1) => \E i \in DOMAIN ring : ring[i] = redirects[j]
    <3> SUFFICES ASSUME NEW j \in DOMAIN redirects, full => j # 1
                 PROVE  \E i \in DOMAIN ring : ring[i] = redirects[j]
      OBVIOUS
    <3>1. CASE full
      <4>1. j - 1 \in DOMAIN ring /\ ring[j - 1] = redirects[j]
        BY <2>2, <2>3, <3>1
      <4> QED
        BY <4>1
    <3>2. CASE ~full
      BY <3>2
    <3> QED
      BY <3>1, <3>2
  <2> HIDE DEF ring
  <2>6. /\ redirects' \in Seq(R) /\ Len(redirects') = Len(ring) + 1
        /\ DOMAIN redirects' = 1 .. Len(ring) + 1 /\ redirects'[Len(ring) + 1] = rel
        /\ DOMAIN ring = 1 .. Len(ring) /\ \A i \in DOMAIN ring : redirects'[i] = ring[i]
        /\ Len(ring) \in Nat
    <3> DEFINE more == Append(ring, rel)
    <3>1. /\ more \in Seq(R) /\ Len(more) = Len(ring) + 1 /\ more[Len(ring) + 1] = rel
          /\ DOMAIN ring = 1 .. Len(ring) /\ \A i \in DOMAIN ring : more[i] = ring[i]
          /\ Len(ring) \in Nat
      BY <2>2, <2>3
    <3>2. DOMAIN more = 1 .. Len(ring) + 1
      BY <3>1
    <3> QED
      BY <2>1, <3>1, <3>2
  <2>7. \A i \in DOMAIN redirects' :
          redirects'[i] = rel \/ \E j \in DOMAIN redirects : redirects'[i] = redirects[j]
    BY <2>4, <2>6
  <2>8. rel.src = src /\ rel.dst = dst /\ rel.nat = nat
    BY DEF Relation
  <2>9. \A i \in DOMAIN redirects' :
          Tied(redirects'[i].src, redirects'[i].dst) /\ Tied(redirects'[i].src, redirects'[i].nat)
    BY <2>7, <2>8 DEF Redirections
  <2>10. ASSUME NEW k \in DOMAIN left
         PROVE  \E j \in DOMAIN redirects : /\ full => j # 1
                                            /\ k = <<redirects[j].src, redirects[j].nat>>
                                            /\ left[k] = redirects[j].dst
    <3>1. k \in DOMAIN back /\ left[k] = back[k]
          /\ (full => k # <<redirects[1].src, redirects[1].nat>>)
      BY DEF Forget
    <3> QED
      BY <3>1 DEF Redirections
  <2> HIDE DEF left, full
  <2>11. ASSUME NEW k \in DOMAIN back'
         PROVE  \E i \in DOMAIN redirects' :
                  k = <<redirects'[i].src, redirects'[i].nat>> /\ back'[k] = redirects'[i].dst
    <3>1. CASE k = key
      <4>1. back'[k] = dst
        BY <2>1, <3>1
      <4>2. Len(ring) + 1 \in DOMAIN redirects'
        BY <2>6
      <4> QED
        BY <2>6, <2>8, <3>1, <4>1, <4>2
    <3>2. CASE k # key
      <4>1. k \in DOMAIN left /\ back'[k] = left[k]
        BY <2>1, <3>2
      <4>2. PICK j \in DOMAIN redirects : /\ full => j # 1
                                          /\ k = <<redirects[j].src, redirects[j].nat>>
                                          /\ left[k] = redirects[j].dst
        BY <2>10, <4>1
      <4>3. PICK i \in DOMAIN ring : ring[i] = redirects[j]
        BY <2>5, <4>2
      <4>4. i \in DOMAIN redirects' /\ redirects'[i] = redirects[j]
        BY <2>6, <4>3
      <4> QED
        BY <4>1, <4>2, <4>4
    <3> QED
      BY <3>1, <3>2
  <2>12. Len(redirects') <= MaxDnat
    BY <2>2, <2>3, <2>6
  <2> QED
    BY <2>6, <2>9, <2>11, <2>12 DEF Redirections
<1> QED
  BY <1>1, <1>2

(* What a user sends goes out as one of his public endpoints.              *)
LEMMA SentOK ==
  ASSUME NEW f \in Flow, NEW bare \in BOOLEAN, NEW x \in Filter, NEW q \in Publics(f.src),
         NEW dst \in Endpoint, Tied(f.src, dst), NEW odst, Old(odst, dst).ip = f.dst.ip,
         NEW junk \in Junk, NEW s,
         s = [pkt |-> Commit(Fresh(f.src, f.dst, 0, bare), q, dst, f.src, odst, junk),
              from |-> f.src, to |-> f.dst, by |-> x]
  PROVE  Sent(s) /\ s.pkt.dst.ip = dst.ip /\ s.pkt.dst.proto = dst.proto
         /\ (dst.proto # "icmp" => s.pkt.dst = dst)
<1> PICK p : p = Fresh(f.src, f.dst, 0, bare)
  OBVIOUS
<1>1. /\ f.src \in Private /\ f.src \in Endpoint /\ f.src # Nothing /\ f.dst \in Endpoint
      /\ Tied(f.src, f.dst) /\ 0 \in Word /\ junk \in Word
  BY FlowOK, PrivateOK, Constants
<1>2. p \in Packet /\ p.src = f.src /\ p.dst = f.dst /\ p.inner = 0 /\ Right(p)
  BY <1>1, FreshRight
<1>3. q \in Endpoint /\ q.proto = f.src.proto /\ (q.proto = "fragment" => q.port = 0)
  BY <1>1, PublicsOK
<1>4. q.proto = p.src.proto /\ dst.proto = q.proto /\ Old(f.src, q).ip = p.src.ip
  BY <1>1, <1>2, <1>3 DEF Tied, Old
<1>5. s.pkt = Commit(p, q, dst, f.src, odst, junk)
  OBVIOUS
<1>6. s.pkt \in Packet /\ Right(s.pkt)
  BY <1>1, <1>2, <1>3, <1>4, <1>5, CommitRight
<1> DEFINE n == NewSeq(p, q, dst)
<1>7. s.pkt.src = Numbers(q, n) /\ s.pkt.dst = Numbers(dst, n) /\ s.pkt.inner = 0
  BY <1>2, <1>5, CommitParts
<1>8. q.proto = "icmp" => n = q.port
  BY <1>2, <1>4 DEF NewSeq, Tied
<1> HIDE DEF n
<1>9. s.pkt.src = q
  BY <1>3, <1>7, <1>8 DEF Numbers, Endpoint
<1>10. n \in Word
  BY <1>2, <1>3, NewSeqOK DEF n
<1>11. /\ s.pkt.dst.ip = dst.ip /\ s.pkt.dst.proto = dst.proto
       /\ s.pkt.dst.port = IF dst.proto = "icmp" THEN n ELSE dst.port
       /\ (dst.proto # "icmp" => s.pkt.dst = dst)
  BY <1>7, <1>10, NumbersOK DEF Numbers
<1>12. Tied(s.pkt.src, s.pkt.dst)
  BY <1>3, <1>4, <1>8, <1>9, <1>11 DEF Tied
<1> QED
  BY <1>1, <1>6, <1>7, <1>9, <1>11, <1>12 DEF Sent

(* The endpoint that another one loses is not in its relation any more.    *)
LEMMA TakeOK ==
  ASSUME Tables, NEW e \in Private, NEW q \in Publics(e), snat' = Take(e, q), UNCHANGED filter
  PROVE  Tables'
<1>1. q \in Endpoint /\ \A x \in Private : snat[x] \in Endpoint \cup {Nothing}
  BY PublicsOK DEF Tables
<1>2. \A x \in Private :
        snat'[x] = IF x = e THEN q ELSE IF snat[x] = q THEN Nothing ELSE snat[x]
  BY DEF Take
<1>3. snat' \in [Private -> Endpoint \cup {Nothing}]
  BY <1>1, <1>2 DEF Take
<1>4. \A x \in Private : snat'[x] # Nothing => snat'[x] \in Publics(x)
  BY <1>2 DEF Tables
<1> QED
  BY <1>3, <1>4 DEF Tables, Publics

(* Where a packet goes to that is passed on by a decision.                 *)
Aimed(f, d) == IF "dnat" \in d.action THEN Redirected(f.dst, d.nat) ELSE f.dst

LEMMA AimedOK ==
  ASSUME PathInv, NEW f \in Flow, NEW flags, filter[f.src.ip] # Nothing,
         NEW d \in Decisions(Rules[filter[f.src.ip]].in, f.src, f.dst, flags)
  PROVE  /\ filter[f.src.ip] \in Filter /\ d.nat \in [ip : Word, port : Word]
         /\ f.src \in Private /\ f.dst \in Endpoint /\ f.dst # Nothing /\ Tied(f.src, f.dst)
         /\ Aimed(f, d) \in Endpoint /\ Tied(f.src, Aimed(f, d))
<1>1. /\ f.src \in Private /\ f.src \in Endpoint /\ f.src.ip \in User /\ f.dst \in Endpoint
      /\ f.dst # Nothing /\ Tied(f.src, f.dst)
  BY FlowOK, PrivateOK, PathAssumption
<1>2. filter[f.src.ip] \in Filter
  BY <1>1 DEF PathInv, Tables
<1>3. d.nat \in [ip : Word, port : Word]
  BY <1>2, DecisionsOK
<1> QED
  BY <1>1, <1>2, <1>3, RedirectedOK DEF Aimed

(* What such a step sends out.                                             *)
LEMMA InwardSends ==
  ASSUME PathInv, NEW f \in Flow, NEW bare \in BOOLEAN, NEW flags, filter[f.src.ip] # Nothing,
         NEW d \in Decisions(Rules[filter[f.src.ip]].in, f.src, f.dst, flags),
         InwardBy(f, bare, d), NEW s \in flight', s \notin flight
  PROVE  /\ Sent(s) /\ s.from = f.src /\ s.to = f.dst /\ s.by = filter[f.src.ip]
         /\ s.pkt.dst.ip = Aimed(f, d).ip /\ s.pkt.dst.proto = Aimed(f, d).proto
         /\ Aimed(f, d).proto # "icmp" => s.pkt.dst = Aimed(f, d)
<1> DEFINE x == filter[f.src.ip]
           odst == IF "dnat" \in d.action THEN f.dst ELSE Nothing
           dst == Aimed(f, d)
           Out(q) == {[pkt |-> Commit(Fresh(f.src, f.dst, 0, bare), q, dst, f.src, odst, junk),
                       from |-> f.src, to |-> f.dst, by |-> x] : junk \in Junk}
<1>1. /\ x \in Filter /\ f.src \in Private /\ f.dst \in Endpoint /\ f.dst # Nothing
      /\ dst \in Endpoint /\ Tied(f.src, dst)
  BY AimedOK
<1>2. Old(odst, dst).ip = f.dst.ip
  BY <1>1 DEF Old, Aimed
<1>3. \E q \in Publics(f.src) : s \in Out(q)
  <2>1. \/ snat[f.src] # Nothing /\ \E o \in Out(snat[f.src]) : flight' = flight \cup {o}
        \/ \E q \in Publics(f.src) : \E o \in Out(q) : flight' = flight \cup {o}
        \/ flight' = flight
    BY DEF InwardBy, Aimed
  <2>2. snat[f.src] # Nothing => snat[f.src] \in Publics(f.src)
    BY <1>1 DEF PathInv, Tables
  <2> HIDE DEF Out
  <2> QED
    BY <2>1, <2>2
<1>4. PICK q \in Publics(f.src), junk \in Junk :
        s = [pkt |-> Commit(Fresh(f.src, f.dst, 0, bare), q, dst, f.src, odst, junk),
             from |-> f.src, to |-> f.dst, by |-> x]
  BY <1>3
<1> HIDE DEF dst, odst, x
<1>5. /\ Sent(s) /\ s.pkt.dst.ip = dst.ip /\ s.pkt.dst.proto = dst.proto
      /\ dst.proto # "icmp" => s.pkt.dst = dst
  BY <1>1, <1>2, <1>4, SentOK
<1>6. s.from = f.src /\ s.to = f.dst /\ s.by = x
  BY <1>4
<1> QED
  BY <1>5, <1>6 DEF dst, x

LEMMA InwardOK ==
  ASSUME PathInv, NEW f \in Flow, NEW bare \in BOOLEAN, NEW flags, filter[f.src.ip] # Nothing,
         NEW d \in Decisions(Rules[filter[f.src.ip]].in, f.src, f.dst, flags),
         InwardBy(f, bare, d)
  PROVE  PathInv'
<1>1. /\ f.src \in Private /\ f.dst \in Endpoint /\ Tied(f.src, f.dst)
      /\ Aimed(f, d) \in Endpoint /\ Tied(f.src, Aimed(f, d))
  BY AimedOK
<1>2. Redirections'
  <2>1. CASE "dnat" \in d.action
    <3>1. RedirectDo(f.src, f.dst, Aimed(f, d))
      BY <2>1 DEF InwardBy, Aimed
    <3> QED
      BY <1>1, <3>1, RedirectDoOK DEF PathInv
  <2>2. CASE "dnat" \notin d.action
    BY <2>2 DEF InwardBy, PathInv, Redirections
  <2> QED
    BY <2>1, <2>2
<1>3. Outside'
  <2>1. \A s \in flight' : Sent(s)
    BY InwardSends DEF PathInv, Outside
  <2> QED
    BY <2>1 DEF Outside, Sent
<1>4. /\ got' = Nothing /\ UNCHANGED filter
      /\ UNCHANGED snat \/ \E q \in Publics(f.src) : snat' = Take(f.src, q)
  BY DEF InwardBy
<1>5. Tables'
  <2>1. CASE UNCHANGED snat
    BY <1>4, <2>1 DEF PathInv, Tables, Publics
  <2>2. CASE \E q \in Publics(f.src) : snat' = Take(f.src, q)
    BY <1>1, <1>4, <2>2, TakeOK DEF PathInv
  <2> QED
    BY <1>4, <2>1, <2>2
<1> QED
  BY <1>2, <1>3, <1>4, <1>5 DEF PathInv, Delivered, ToItsUser

(* What comes back is right, and comes back to a public endpoint.          *)
Piece(e) == [e EXCEPT !.proto = "fragment", !.port = 0]

LEMMA ReplyOK ==
  ASSUME NEW p \in Packet, Tied(p.src, p.dst), p.src.ip # 0, NEW bare \in BOOLEAN,
         NEW kind \in {"answer", "fragment", "exceeded"}
  PROVE  LET r == Reply(p, kind, bare) IN
         /\ r \in Packet /\ Right(r) /\ Tied(r.dst, r.src)
         /\ kind = "answer" => r.src = p.dst /\ r.dst = p.src /\ r.inner = 0
         /\ kind = "fragment" => r.src = Piece(p.dst) /\ r.dst = Piece(p.src) /\ r.inner = 0
         /\ kind = "exceeded" => r.dst = p.src /\ r.inner = p.src.ip
<1> PICK r : r = Reply(p, kind, bare)
  OBVIOUS
<1>1. /\ p.src \in Endpoint /\ p.dst \in Endpoint /\ p.src.ip \in Word /\ 0 \in Word
      /\ Router \in Word
  BY Constants DEF Packet, Endpoint
<1>2. CASE kind = "answer"
  <2>1. r = Fresh(p.dst, p.src, 0, bare)
    BY <1>2 DEF Reply
  <2> QED
    BY <1>1, <1>2, <2>1, FreshRight
<1>3. CASE kind = "fragment"
  <2>1. r = Fresh(Piece(p.dst), Piece(p.src), 0, bare)
    BY <1>3 DEF Reply, Piece
  <2>2. Piece(p.dst) \in Endpoint /\ Piece(p.src) \in Endpoint /\ Tied(Piece(p.src), Piece(p.dst))
    BY <1>1 DEF Piece, Endpoint, Proto, Tied
  <2> QED
    BY <1>1, <1>3, <2>1, <2>2, FreshRight
<1>4. CASE kind = "exceeded"
  <2> DEFINE far == [p.dst EXCEPT !.ip = Router]
  <2>1. r = Fresh(far, p.src, p.src.ip, bare)
    BY <1>4 DEF Reply
  <2>2. far \in Endpoint /\ Tied(p.src, far)
    BY <1>1 DEF Endpoint, Tied
  <2> HIDE DEF far
  <2> QED
    BY <1>1, <1>4, <2>1, <2>2, FreshRight
<1> QED
  BY <1>2, <1>3, <1>4

(* The source that a reply gets has the form of the one that it had.       *)
LEMMA UndoOK ==
  ASSUME Redirections, NEW e, NEW target, Undo(e, target) # Nothing
  PROVE  \E i \in DOMAIN redirects :
           /\ redirects[i].src = e /\ redirects[i].nat = target
           /\ redirects[i].dst = Undo(e, target)
<1>1. <<e, target>> \in DOMAIN back /\ Undo(e, target) = back[<<e, target>>]
  BY DEF Undo
<1>2. PICK i \in DOMAIN redirects :
        <<e, target>> = <<redirects[i].src, redirects[i].nat>>
        /\ back[<<e, target>>] = redirects[i].dst
  BY <1>1 DEF Redirections
<1> QED
  BY <1>1, <1>2

(* A reply that is passed on is right again, and its user has the public   *)
(* endpoint it came to.                                                    *)
LEMMA ReturnedOK ==
  ASSUME PathInv, NEW r \in Packet, Right(r), Tied(r.dst, r.src), NEW e \in Holders(r.dst),
         NEW src, src # Nothing, NEW dnat \in BOOLEAN,
         src = IF dnat THEN Undo(e, r.src) ELSE r.src, NEW junk \in Junk
  PROVE  LET c == Commit(r, src, e, IF dnat THEN r.src ELSE Nothing, r.dst, junk) IN
         /\ c \in Packet /\ Right(c)
         /\ e \in Private /\ snat[e] = r.dst /\ r.dst \in Publics(e)
         /\ src \in Endpoint /\ src.proto = e.proto
         /\ c.src = Numbers(src, NewSeq(r, src, e)) /\ c.dst = Numbers(e, NewSeq(r, src, e))
         /\ c.inner = IF r.inner = 0 THEN 0 ELSE e.ip
<1> DEFINE osrc == IF dnat THEN r.src ELSE Nothing
<1>1. /\ r.src \in Endpoint /\ r.dst \in Endpoint /\ r.src # Nothing /\ r.dst # Nothing
      /\ junk \in Word
  BY PathAssumption, Constants DEF Packet
<1>2. e \in Private /\ snat[e] = r.dst /\ r.dst \in Publics(e)
  BY <1>1 DEF Holders, PathInv, Tables
<1>3. e \in Endpoint /\ e.ip # 0 /\ r.dst.proto = e.proto /\ r.src.proto = e.proto
      /\ (e.proto = "fragment" => e.port = 0)
  BY <1>2, PrivateOK, PublicsOK DEF Tied
<1>4. src \in Endpoint /\ src.proto = e.proto
  <2>1. CASE dnat
    <3>1. PICK i \in DOMAIN redirects : redirects[i].src = e /\ redirects[i].dst = src
      BY <2>1, UndoOK DEF PathInv
    <3>2. /\ redirects \in Seq([src : Private, dst : Endpoint, nat : Endpoint])
          /\ Tied(redirects[i].src, redirects[i].dst)
      BY DEF PathInv, Redirections
    <3>3. i \in 1 .. Len(redirects) /\ redirects[i].dst \in Endpoint
      <4>1. i \in 1 .. Len(redirects)
        BY <3>1, <3>2
      <4>2. redirects[i] \in [src : Private, dst : Endpoint, nat : Endpoint]
        <5> DEFINE R == [src : Private, dst : Endpoint, nat : Endpoint]
        <5>1. redirects \in Seq(R)
          BY <3>2
        <5> HIDE DEF R
        <5>2. redirects[i] \in R
          BY <4>1, <5>1
        <5> QED
          BY <5>2 DEF R
      <4> QED
        BY <4>1, <4>2
    <3> QED
      BY <3>1, <3>2, <3>3 DEF Tied
  <2>2. CASE ~dnat
    BY <1>1, <1>3, <2>2
  <2> QED
    BY <2>1, <2>2
<1>5. Old(osrc, src).ip = r.src.ip /\ Old(r.dst, e).ip = r.dst.ip
  BY <1>1 DEF Old
<1>6. /\ Commit(r, src, e, osrc, r.dst, junk) \in Packet
      /\ Right(Commit(r, src, e, osrc, r.dst, junk))
  BY <1>1, <1>3, <1>4, <1>5, CommitRight
<1>7. LET c == Commit(r, src, e, osrc, r.dst, junk) IN
      /\ c.src = Numbers(src, NewSeq(r, src, e)) /\ c.dst = Numbers(e, NewSeq(r, src, e))
      /\ c.inner = IF r.inner = 0 THEN 0 ELSE e.ip
  BY CommitParts
<1> QED
  BY <1>2, <1>4, <1>6, <1>7

LEMMA OutwardOK ==
  ASSUME PathInv, NEW s \in flight, NEW kind \in {"answer", "fragment", "exceeded"},
         NEW bare \in BOOLEAN,
         NEW e \in Holders(Reply(s.pkt, kind, bare).dst), NEW d,
         OutwardBy(s, Reply(s.pkt, kind, bare), e, d)
  PROVE  PathInv'
<1> PICK r : r = Reply(s.pkt, kind, bare)
  OBVIOUS
<1> DEFINE dnat == "dnat" \in d.action
           src == IF dnat THEN Undo(e, r.src) ELSE r.src
<1>1. /\ s.pkt \in Packet /\ Right(s.pkt) /\ s.from \in Private
      /\ s.pkt.src \in Publics(s.from) /\ Tied(s.pkt.src, s.pkt.dst)
  BY DEF PathInv, Outside, Sent
<1>2. s.pkt.src.ip # 0
  BY <1>1, PublicsOK, Constants
<1>3. /\ r \in Packet /\ Right(r) /\ Tied(r.dst, r.src)
      /\ kind = "answer" => r.src = s.pkt.dst /\ r.dst = s.pkt.src /\ r.inner = 0
      /\ kind = "fragment" => r.src = Piece(s.pkt.dst) /\ r.dst = Piece(s.pkt.src) /\ r.inner = 0
      /\ kind = "exceeded" => r.dst = s.pkt.src /\ r.inner = s.pkt.src.ip
  BY <1>1, <1>2, ReplyOK
<1>4. PICK junk \in Junk :
        got' = [pkt |-> Commit(r, src, e, IF dnat THEN r.src ELSE Nothing, r.dst, junk),
                from |-> s.from, to |-> s.to, by |-> s.by, via |-> s.pkt.dst]
  BY DEF OutwardBy
<1>5. src # Nothing /\ dnat \in BOOLEAN /\ UNCHANGED <<filter, snat, redirects, back, flight>>
  BY DEF OutwardBy
<1> HIDE DEF dnat
<1> PICK c : c = Commit(r, src, e, IF dnat THEN r.src ELSE Nothing, r.dst, junk)
  OBVIOUS
<1>6. /\ c \in Packet /\ Right(c) /\ e \in Private /\ r.dst \in Publics(e)
      /\ src \in Endpoint /\ src.proto = e.proto
      /\ c.dst = Numbers(e, NewSeq(r, src, e)) /\ c.inner = IF r.inner = 0 THEN 0 ELSE e.ip
  BY <1>3, <1>5, ReturnedOK
<1> HIDE DEF src
<1>7. got'.pkt = c /\ got'.from = s.from
  BY <1>4
<1>8. c.dst.ip = e.ip /\ c.dst.proto = e.proto
  <2>1. e \in Endpoint /\ NewSeq(r, src, e) \in Word
    BY <1>3, <1>6, NewSeqOK, PrivateOK
  <2> QED
    BY <1>6, <2>1, NumbersOK
<1>9. ASSUME e.proto # "fragment" PROVE e.ip = s.from.ip
  <2>1. r.dst.proto = e.proto
    BY <1>6, PublicsOK
  <2>2. r.dst = s.pkt.src
    BY <1>3, <1>9, <2>1 DEF Piece, Packet, Endpoint
  <2> QED
    BY <1>1, <1>6, <1>9, <2>1, <2>2, PublicsApart
<1>10. ToItsUser'
  BY <1>6, <1>7, <1>8, <1>9 DEF ToItsUser
<1>11. Delivered'
  BY <1>6, <1>7 DEF Delivered
<1>12. Tables' /\ Redirections' /\ Outside'
  BY <1>5 DEF PathInv, Tables, Publics, Redirections, Outside, Sent
<1> QED
  BY <1>10, <1>11, <1>12 DEF PathInv

LEMMA RestartOK == ASSUME PathInv, Restart PROVE PathInv'
<1>1. Tables'
  BY DEF Restart, Tables
<1>2. Redirections'
  <2>1. redirects' = <<>> /\ back' = <<>> /\ DOMAIN back' = {}
    BY DEF Restart
  <2>2. MaxDnat \in Nat /\ <<>> \in Seq([src : Private, dst : Endpoint, nat : Endpoint])
        /\ DOMAIN <<>> = {} /\ Len(<<>>) = 0
    BY PathAssumption
  <2> QED
    BY <2>1, <2>2 DEF Redirections
<1> QED
  BY <1>1, <1>2 DEF PathInv, Restart, Outside, Sent, Delivered, ToItsUser

LEMMA PathStep == ASSUME PathInv, [PathNext]_path PROVE PathInv'
<1>1. ASSUME NEW f \in Flow, NEW bare \in BOOLEAN, NEW flags \in Segments, Inward(f, bare, flags)
      PROVE  PathInv'
  BY <1>1, InwardOK, RestartOK DEF Inward, Unexpected
<1>2. ASSUME NEW s \in flight, NEW kind \in {"answer", "fragment", "exceeded"},
             NEW bare \in BOOLEAN, NEW flags \in Segments, Outward(s, kind, bare, flags)
      PROVE  PathInv'
  BY <1>2, OutwardOK, RestartOK DEF Outward, Unexpected
<1>3. ASSUME NEW s \in flight, Lose(s) PROVE PathInv'
  BY <1>3 DEF Lose, PathInv, Tables, Publics, Redirections, Outside, Sent, Delivered, ToItsUser
<1>4. ASSUME NEW u \in User, NEW x \in Filter \cup {Nothing}, SetFilter(u, x) PROVE PathInv'
  BY <1>4 DEF SetFilter, PathInv, Tables, Publics, Redirections, Outside, Sent, Delivered, ToItsUser
<1>5. CASE UNCHANGED path
  BY <1>5 DEF path, PathInv, Tables, Publics, Redirections, Outside, Sent, Delivered, ToItsUser
<1> QED
  BY <1>1, <1>2, <1>3, <1>4, <1>5, RestartOK DEF PathNext

LEMMA PathStart == ASSUME PathInit PROVE PathInv
<1>1. redirects = <<>> /\ DOMAIN redirects = {} /\ DOMAIN back = {} /\ Len(redirects) = 0
      /\ redirects \in Seq([src : Private, dst : Endpoint, nat : Endpoint]) /\ MaxDnat \in Nat
  BY PathAssumption DEF PathInit
<1> QED
  BY <1>1 DEF PathInit, PathInv, Tables, Redirections, Outside, Delivered, ToItsUser

(* The invariant of the path holds in every state.                         *)
THEOREM PathInvariant == PathSpec => []PathInv
<1> QED
  BY PathStart, PathStep, PTL DEF PathSpec

(* A reply goes to the user whose packet it answers, whoever has the       *)
(* public endpoint by then, and a message about an echo tells of one of    *)
(* this user; later fragments excepted (relay_outward.c:198-225).          *)
THEOREM RepliesToTheirUser == PathSpec => []ToItsUser
<1>1. PathInv => ToItsUser
  BY DEF PathInv
<1> QED
  BY <1>1, PathInvariant, PTL

(* Every packet that the relays send on is accepted where it goes: each of *)
(* its checksums is right again after it was corrected only for what       *)
(* changed (tuple_ip.c:132-163, tuple_tcp.c:141-198, tuple_checksum.c).    *)
THEOREM SumsStayRight == PathSpec => []ChecksumsRight
<1>1. ASSUME PathInv PROVE ChecksumsRight
  <2>1. DOMAIN back \subseteq {<<redirects[i].src, redirects[i].nat>> : i \in DOMAIN redirects}
    BY <1>1 DEF PathInv, Redirections
  <2> QED
    BY <1>1, <2>1 DEF PathInv, Tables, Redirections, Outside, Sent, Delivered, ChecksumsRight, PathTypeOK
<1> QED
  BY <1>1, PathInvariant, PTL
-----------------------------------------------------------------------------
(* What is in the garden stays there: with the invariant of the path it is *)
(* inductive.                                                              *)
WallInv == PathInv /\ Confined

(* What a captive session sends goes to its garden.                        *)
LEMMA WallStep == ASSUME Walled, WallInv, [PathNext]_path PROVE WallInv'
<1>1. PathInv'
  BY PathStep DEF WallInv
<1>2. ASSUME NEW s \in flight', s \notin flight, s.by \in Captive PROVE s.pkt.dst.ip \in Garden
  <2>1. PICK f \in Flow, bare \in BOOLEAN, flags \in Segments : Inward(f, bare, flags)
    BY <1>2 DEF PathNext, path, Outward, OutwardBy, Unexpected, Lose, SetFilter, Restart
  <2>2. PICK d \in Decisions(Rules[filter[f.src.ip]].in, f.src, f.dst, flags) : InwardBy(f, bare, d)
    BY <1>2, <2>1 DEF Inward, Unexpected, Restart
  <2>3. filter[f.src.ip] # Nothing
    BY <2>1 DEF Inward
  <2>4. s.by = filter[f.src.ip] /\ s.pkt.dst.ip = Aimed(f, d).ip
    BY <1>2, <2>2, <2>3, InwardSends DEF WallInv
  <2>5. "block" \notin d.action
    BY <2>2 DEF InwardBy
  <2>6. IF "dnat" \in d.action THEN d.nat.ip \in Garden ELSE f.dst.ip \in Garden
    BY <1>2, <2>2, <2>4, <2>5 DEF Walled
  <2>7. Redirected(f.dst, d.nat).ip = d.nat.ip
    BY FlowOK DEF Redirected, RedirectedIp, RedirectedPort, Endpoint
  <2> QED
    BY <2>4, <2>6, <2>7 DEF Aimed
<1>3. Confined'
  BY <1>2 DEF WallInv, Confined
<1> QED
  BY <1>1, <1>3 DEF WallInv

(* If captive filters let packets only past to the garden, or redirect     *)
(* them there, then nothing that a captive session has sent is outside     *)
(* that goes anywhere else (filter_match_ip.c:59-108,                      *)
(* doc/filters/anonymous).                                                 *)
THEOREM GardenWalled == ASSUME Walled PROVE PathSpec => []Confined
<1>1. PathInit => WallInv
  BY PathStart DEF PathInit, WallInv, Confined
<1>2. WallInv /\ [PathNext]_path => WallInv'
  BY WallStep
<1>3. WallInv => Confined
  BY DEF WallInv
<1> QED
  BY <1>1, <1>2, <1>3, PTL DEF PathSpec
-----------------------------------------------------------------------------
(* A packet outside goes where the user sent it, or its filter redirects   *)
(* what comes back (by another port for an echo).                          *)
Direct(s) == s.pkt.dst.ip = s.to.ip /\ (s.to.proto # "icmp" => s.pkt.dst.port = s.to.port)

Awaited(s) ==
  \A flags \in Segments : \A o \in Decisions(Rules[s.by].out, s.pkt.dst, s.from, flags) :
    {"dnat", "block"} \cap o.action # {}

Expected == \A s \in flight : Direct(s) \/ Awaited(s)

AddressInv == PathInv /\ Expected /\ AsAddressed

LEMMA InwardExpected ==
  ASSUME TwoWay, PathInv, NEW f \in Flow, NEW bare \in BOOLEAN, NEW flags \in Segments,
         filter[f.src.ip] # Nothing,
         NEW d \in Decisions(Rules[filter[f.src.ip]].in, f.src, f.dst, flags),
         InwardBy(f, bare, d), NEW s \in flight', s \notin flight
  PROVE  Direct(s) \/ Awaited(s)
<1>1. /\ Sent(s) /\ s.from = f.src /\ s.to = f.dst /\ s.by = filter[f.src.ip]
      /\ s.pkt.dst.ip = Aimed(f, d).ip /\ s.pkt.dst.proto = Aimed(f, d).proto
      /\ Aimed(f, d).proto # "icmp" => s.pkt.dst = Aimed(f, d)
  BY InwardSends
<1>2. /\ filter[f.src.ip] \in Filter /\ Aimed(f, d) \in Endpoint
  BY AimedOK
<1>3. CASE "dnat" \notin d.action
  BY <1>1, <1>3 DEF Aimed, Direct
<1>4. CASE "dnat" \in d.action
  <2>1. Aimed(f, d) = Redirected(f.dst, d.nat)
    BY <1>4 DEF Aimed
  <2>2. s.pkt.dst \in Endpoint
    BY <1>1 DEF Sent, Packet
  <2>3. s.pkt.dst \in Answers(Aimed(f, d))
    <3>1. CASE Aimed(f, d).proto # "icmp"
      BY <1>1, <3>1 DEF Answers
    <3>2. CASE Aimed(f, d).proto = "icmp"
      <4>1. s.pkt.dst = [Aimed(f, d) EXCEPT !.port = s.pkt.dst.port] /\ s.pkt.dst.port \in Word
        BY <1>1, <1>2, <2>2 DEF Endpoint
      <4> QED
        BY <3>2, <4>1 DEF Answers
    <3> QED
      BY <3>1, <3>2
  <2> QED
    BY <1>1, <1>2, <1>4, <2>1, <2>3 DEF TwoWay, Awaited
<1> QED
  BY <1>3, <1>4

(* The decision, the addresses and the relation of a reply.                *)
LEMMA OutwardAsAddressed ==
  ASSUME AddressInv, NEW s \in flight, NEW kind \in {"answer", "fragment", "exceeded"},
         NEW bare \in BOOLEAN, NEW flags \in Segments,
         NEW e \in Holders(Reply(s.pkt, kind, bare).dst),
         NEW d \in Decisions(Rules[filter[e.ip]].out, Reply(s.pkt, kind, bare).src, e, flags),
         OutwardBy(s, Reply(s.pkt, kind, bare), e, d)
  PROVE  AsAddressed'
<1> PICK r : r = Reply(s.pkt, kind, bare)
  OBVIOUS
<1> DEFINE dnat == "dnat" \in d.action
           src == IF dnat THEN Undo(e, r.src) ELSE r.src
           n == NewSeq(r, src, e)
<1>1. /\ s.pkt \in Packet /\ s.from \in Private /\ s.to \in Endpoint /\ Tied(s.from, s.to)
      /\ s.pkt.src \in Publics(s.from) /\ Tied(s.pkt.src, s.pkt.dst)
  BY DEF AddressInv, PathInv, Outside, Sent
<1>2. /\ s.pkt.src.ip # 0 /\ s.pkt.src.proto = s.from.proto
      /\ s.pkt.src \in Endpoint /\ s.pkt.dst \in Endpoint
  BY <1>1, PublicsOK, Constants DEF Packet
<1>3. /\ r \in Packet /\ Right(r) /\ Tied(r.dst, r.src)
      /\ kind = "answer" => r.src = s.pkt.dst /\ r.dst = s.pkt.src /\ r.inner = 0
      /\ kind = "fragment" => r.src = Piece(s.pkt.dst) /\ r.dst = Piece(s.pkt.src) /\ r.inner = 0
      /\ kind = "exceeded" => r.dst = s.pkt.src /\ r.inner = s.pkt.src.ip
  BY <1>1, <1>2, ReplyOK
<1>4. PICK junk \in Junk :
        got' = [pkt |-> Commit(r, src, e, IF dnat THEN r.src ELSE Nothing, r.dst, junk),
                from |-> s.from, to |-> s.to, by |-> s.by, via |-> s.pkt.dst]
  BY DEF OutwardBy
<1>5. src # Nothing /\ dnat \in BOOLEAN /\ "block" \notin d.action
      /\ UNCHANGED <<filter, snat, redirects, back, flight>>
  BY DEF OutwardBy
<1>6. dnat => \E i \in DOMAIN redirects :
                /\ redirects[i].src = e /\ redirects[i].nat = r.src /\ redirects[i].dst = src
  BY <1>5, UndoOK DEF AddressInv, PathInv
<1>7. ~dnat => src = r.src /\ {"dnat", "block"} \cap d.action = {}
  BY <1>5
<1> HIDE DEF dnat
<1> PICK c : c = Commit(r, src, e, IF dnat THEN r.src ELSE Nothing, r.dst, junk)
  OBVIOUS
<1>8. /\ e \in Private /\ r.dst \in Publics(e) /\ src \in Endpoint /\ src.proto = e.proto
      /\ c.src = Numbers(src, n) /\ c.dst = Numbers(e, n) /\ c.inner = IF r.inner = 0 THEN 0 ELSE e.ip
  BY <1>3, <1>5, ReturnedOK DEF AddressInv
<1> HIDE DEF src
<1>9. e \in Endpoint /\ e.ip # 0 /\ r.dst.proto = e.proto /\ n \in Word
      /\ (e.proto = "fragment" => e.port = 0)
  BY <1>3, <1>8, PrivateOK, PublicsOK, NewSeqOK
<1> HIDE DEF n
<1>10. /\ got'.pkt = c /\ got'.from = s.from /\ got'.to = s.to /\ got'.by = s.by
       /\ got'.via = s.pkt.dst
  BY <1>4
<1>11. SUFFICES ASSUME c.inner = 0, c.dst = s.from, filter[s.from.ip] = s.by,
                       \A i \in DOMAIN redirects :
                         redirects[i].src = s.from /\ redirects[i].nat = s.pkt.dst
                           => redirects[i].dst = s.to
                PROVE  c.src = s.to
  BY <1>5, <1>10 DEF AsAddressed
<1>12. r.src = s.pkt.dst
  <2>1. r.inner = 0
    BY <1>8, <1>9, <1>11
  <2>2. e.proto = s.from.proto
    <3>1. Numbers(e, n).proto = e.proto
      BY <1>9, NumbersOK
    <3> QED
      BY <1>8, <1>11, <3>1
  <2>3. kind = "fragment" => r.src = s.pkt.dst
    <3>1. kind = "fragment" => r.dst.proto = "fragment"
      BY <1>2, <1>3 DEF Piece, Endpoint
    <3>2. kind = "fragment" => s.pkt.dst.proto = "fragment" /\ s.pkt.dst.port = 0
      BY <1>1, <1>2, <1>9, <2>2, <3>1 DEF Tied
    <3>3. s.pkt.dst.proto = "fragment" /\ s.pkt.dst.port = 0 => Piece(s.pkt.dst) = s.pkt.dst
      BY <1>2 DEF Piece, Endpoint
    <3> QED
      BY <1>3, <3>2, <3>3
  <2> QED
    BY <1>2, <1>3, <2>1, <2>3
<1>13. e.proto = "icmp" => n = e.port
  <2>1. CASE dnat
    <3>1. e.proto = "icmp" => src.port = e.port
      BY <1>6, <2>1 DEF AddressInv, PathInv, Redirections, Tied
    <3> QED
      BY <3>1 DEF n, NewSeq
  <2>2. CASE ~dnat
    BY <1>7, <2>2 DEF n, NewSeq
  <2> QED
    BY <2>1, <2>2
<1>14. e = s.from
  <2>1. Numbers(e, n) = e
    BY <1>9, <1>13 DEF Numbers, Endpoint
  <2> QED
    BY <1>8, <1>11, <2>1
<1>15. src.ip = s.to.ip /\ (e.proto # "icmp" => src.port = s.to.port)
  <2>1. CASE dnat
    BY <1>6, <1>11, <1>12, <1>14, <2>1
  <2>2. CASE ~dnat
    <3>1. ~Awaited(s)
      BY <1>7, <1>11, <1>12, <1>14, <2>2 DEF Awaited
    <3>2. Direct(s)
      BY <3>1 DEF AddressInv, Expected
    <3> QED
      BY <1>1, <1>7, <1>12, <1>14, <2>2, <3>2 DEF Direct, Tied
  <2> QED
    BY <2>1, <2>2
<1>16. /\ c.src \in Endpoint /\ c.src.ip = s.to.ip /\ c.src.proto = s.to.proto
       /\ c.src.port = s.to.port
  <2>1. s.to.proto = e.proto /\ (e.proto = "icmp" => s.to.port = e.port)
    BY <1>1, <1>14 DEF Tied
  <2> QED
    BY <1>8, <1>9, <1>13, <1>15, <2>1, NumbersOK
<1> QED
  BY <1>1, <1>16 DEF Endpoint

LEMMA AddressStep == ASSUME TwoWay, AddressInv, [PathNext]_path PROVE AddressInv'
<1>1. PathInv'
  BY PathStep DEF AddressInv
<1>2. ASSUME NEW s \in flight', s \notin flight PROVE Direct(s) \/ Awaited(s)
  <2>1. PICK f \in Flow, bare \in BOOLEAN, flags \in Segments : Inward(f, bare, flags)
    BY <1>2 DEF PathNext, path, Outward, OutwardBy, Unexpected, Lose, SetFilter, Restart
  <2>2. PICK d \in Decisions(Rules[filter[f.src.ip]].in, f.src, f.dst, flags) : InwardBy(f, bare, d)
    BY <1>2, <2>1 DEF Inward, Unexpected, Restart
  <2>3. filter[f.src.ip] # Nothing
    BY <2>1 DEF Inward
  <2> QED
    BY <1>2, <2>2, <2>3, InwardExpected DEF AddressInv
<1>3. Expected'
  <2>1. \A s \in flight' : Direct(s) \/ Awaited(s)
    BY <1>2 DEF AddressInv, Expected
  <2> QED
    BY <2>1 DEF Expected, Direct, Awaited, Decisions, Rules, Matches
<1>4. ASSUME got' = Nothing PROVE AsAddressed'
  BY <1>4 DEF AsAddressed
<1>5. ASSUME UNCHANGED path PROVE AsAddressed'
  BY <1>5 DEF path, AddressInv, AsAddressed
<1>6. ASSUME got' # Nothing, PathNext PROVE AsAddressed'
  <2>1. PICK s \in flight, kind \in {"answer", "fragment", "exceeded"}, bare \in BOOLEAN,
             flags \in Segments : Outward(s, kind, bare, flags)
    BY <1>6 DEF PathNext, Inward, InwardBy, Unexpected, Lose, SetFilter, Restart
  <2>2. PICK e \in Holders(Reply(s.pkt, kind, bare).dst) :
          \E d \in Decisions(Rules[filter[e.ip]].out, Reply(s.pkt, kind, bare).src, e, flags) :
            OutwardBy(s, Reply(s.pkt, kind, bare), e, d)
    BY <1>6, <2>1 DEF Outward, Unexpected, Restart
  <2> QED
    BY <2>2, OutwardAsAddressed
<1> QED
  BY <1>1, <1>3, <1>4, <1>5, <1>6 DEF AddressInv

(* If the filters redirect what comes back from where they redirect to,    *)
(* then a reply to a flow whose filter has not changed, and that has its   *)
(* way back to itself, comes back from where the user sent to              *)
(* (relay_inward.c:272-306, relay_outward.c:309-331).                      *)
THEOREM RepliesAsAddressed == ASSUME TwoWay PROVE PathSpec => []AsAddressed
<1>1. PathInit => AddressInv
  BY PathStart DEF PathInit, AddressInv, Expected, AsAddressed
<1>2. AddressInv /\ [PathNext]_path => AddressInv'
  BY AddressStep
<1>3. AddressInv => AsAddressed
  BY DEF AddressInv
<1> QED
  BY <1>1, <1>2, <1>3, PTL DEF PathSpec
=============================================================================
