------------------------------ MODULE Buckets ------------------------------
(***************************************************************************)
(* The hash table of the pools and relations (lhash.c): a fixed number of  *)
(* chains with a spin lock each.  A call with a place for the lock takes   *)
(* the lock of its chain, finds the place of its key and does its work     *)
(* there, and leaves the lock to the caller, who works on the item and     *)
(* unlocks; a call without one is made under the lock the caller has, and  *)
(* is one step.  A sweep (lh_doall_arg) goes from the last chain to the    *)
(* first and calls back for each node, under the lock of the chain.        *)
(*                                                                         *)
(* A node is named by the key of its item, which is replaced with it.      *)
(* Different keys may be the same to the comparison of a table: those of   *)
(* an address, or those of all the packets of a flow.  Nothing says that   *)
(* such keys have one hash, and those of packets about a packet have not.  *)
(***************************************************************************)
EXTENDS Integers, SequencesExt

CONSTANTS
  Thread,   \* callers of insert, retrieve and delete
  Sweeper,  \* the thread that runs lh_doall_arg
  Key, Item,
  Size,     \* chains of the table
  HashOf,   \* the hash function of the table
  ClassOf,  \* its comparison: a name for all keys that are the same to it
  None

Caller == Thread \cup {Sweeper}

ASSUME BucketsOK ==
  /\ Sweeper \notin Thread
  /\ Size \in Nat \ {0}
  /\ HashOf \in [Key -> Nat] /\ DOMAIN ClassOf = Key
  /\ None \notin Key \cup Item \cup Caller

Index == 0 .. Size - 1

VARIABLES
  b,       \* the chains
  lock,    \* who has the lock of each chain
  at,      \* "out" of the table, at the place it has "found" in a locked chain,
           \* "in" the chain after that; or where the sweep is
  held,    \* the key of the call for which a thread has the lock
  place,   \* where getrn stopped: at a node of the chain, or 0 at its end
  walk,    \* the chain of the sweep, its node and the node it will go on to
  answer,  \* what a call has returned, while the lock is held
  stay, seen  \* history: entries there during all of the sweep,
              \* and those visited

bucketVars == <<b, lock, at, held, place, walk, answer, stay, seen>>

Node == [key : Key, data : Item]

Bucket(k) == HashOf[k] % Size

(* Nodes of another hash are passed over before they are compared.         *)
Same(k, l) == HashOf[k] = HashOf[l] /\ ClassOf[k] = ClassOf[l]

SameAs(k) == {l \in Key : Same(l, k)}

(* What the table tells apart, by one of the keys that are the same to it. *)
Entry == [k \in Key |-> CHOOSE l \in SameAs(k) : TRUE]
Entries == {Entry[k] : k \in Key}

(* Where a chain has the key.                                              *)
Places(k) == {i \in DOMAIN b[Bucket(k)] : Same(b[Bucket(k)][i].key, k)}

There(k) == Places(k) # {}

(* getrn: the first node with the key.                                     *)
Place(k) == CHOOSE i \in Places(k) : \A j \in Places(k) : i <= j

DataOf(k) == IF There(k) THEN b[Bucket(k)][Place(k)].data ELSE None

PlaceFound(k) == IF There(k) THEN Place(k) ELSE 0

Present == {e \in Entries : There(e)}

(* An item is memory of the caller until it is in the table.               *)
Linked(x) == \E i \in Index : \E j \in DOMAIN b[i] : b[i][j].data = x
-----------------------------------------------------------------------------
(* Mutant of Enter: the lock is not waited for.                            *)
EnterUnlocked(t, k) ==
  /\ at[t] = "out"
  /\ lock' = [lock EXCEPT ![Bucket(k)] = t]
  /\ at' = [at EXCEPT ![t] = "found"]
  /\ held' = [held EXCEPT ![t] = k]
  /\ place' = [place EXCEPT ![t] = PlaceFound(k)]
  /\ UNCHANGED <<b, walk, answer, stay, seen>>

(* getrn: the lock is taken inside the call, and the chain searched.       *)
Enter(t, k) ==
  /\ at[t] = "out" /\ lock[Bucket(k)] = None
  /\ lock' = [lock EXCEPT ![Bucket(k)] = t]
  /\ at' = [at EXCEPT ![t] = "found"]
  /\ held' = [held EXCEPT ![t] = k]
  /\ place' = [place EXCEPT ![t] = PlaceFound(k)]
  /\ UNCHANGED <<b, walk, answer, stay, seen>>

(* The call returns, and the lock is the caller's.                         *)
Return(t) ==
  /\ at[t] = "found"
  /\ at' = [at EXCEPT ![t] = "in"]
  /\ place' = [place EXCEPT ![t] = 0]
  /\ UNCHANGED <<lock, held, walk, seen>>

Answers(t, x) == answer' = [answer EXCEPT ![t] = x]

(* The item where getrn stopped.                                           *)
DataAt(t) == IF place[t] = 0 THEN None ELSE b[Bucket(held[t])][place[t]].data

Retrieve(t) ==
  /\ Return(t) /\ Answers(t, DataAt(t))
  /\ UNCHANGED <<b, stay>>

(* Mutant of Linking: a node is added without a look for an equal one.     *)
LinkingAlways(k, p, x) == [b EXCEPT ![Bucket(k)] = Append(@, [key |-> k, data |-> x])]

(* An equal node gets the new item, a new one goes to the end.             *)
Linking(k, p, x) ==
  IF p # 0
  THEN [b EXCEPT ![Bucket(k)] = [@ EXCEPT ![p] = [key |-> k, data |-> x]]]
  ELSE [b EXCEPT ![Bucket(k)] = Append(@, [key |-> k, data |-> x])]

Insert(t, x) ==
  /\ ~Linked(x)
  /\ Return(t)
  /\ b' = Linking(held[t], place[t], x)
  /\ Answers(t, IF place[t] = 0 THEN x ELSE DataAt(t))
  /\ UNCHANGED stay

(* A node cannot be allocated.                                             *)
InsertFails(t) ==
  /\ place[t] = 0
  /\ Return(t) /\ Answers(t, None)
  /\ UNCHANGED <<b, stay>>

Unlinking(k, p) == IF p # 0 THEN [b EXCEPT ![Bucket(k)] = RemoveAt(@, p)] ELSE b

Delete(t) ==
  /\ Return(t)
  /\ b' = Unlinking(held[t], place[t])
  /\ Answers(t, DataAt(t))
  /\ stay' = stay \ {Entry[held[t]]}

(* lh_delete without a lock of its own.                                    *)
Unlink(t, k) ==
  /\ b' = Unlinking(k, PlaceFound(k))
  /\ Answers(t, DataOf(k))
  /\ stay' = stay \ {Entry[k]}

(* The delete that follows a lookup which has the lock: sw_session_del in  *)
(* sw_session_new, and the callbacks of the sweeps.                        *)
DeleteHeld(t) ==
  /\ \/ at[t] = "in" /\ Unlink(t, held[t])
     \/ at[t] = "callback" /\ Unlink(t, walk.node)
  /\ UNCHANGED <<lock, at, held, place, walk, seen>>

Unlock(t) ==
  /\ at[t] = "in"
  /\ lock' = [lock EXCEPT ![Bucket(held[t])] = None]
  /\ at' = [at EXCEPT ![t] = "out"]
  /\ held' = [held EXCEPT ![t] = None]
  /\ Answers(t, None)
  /\ UNCHANGED <<b, place, walk, stay, seen>>
-----------------------------------------------------------------------------
NoWalk == [bucket |-> -1, node |-> None, next |-> None]

SweepAt(where) == at' = [at EXCEPT ![Sweeper] = where]

BeginSweep ==
  /\ at[Sweeper] = "out"
  /\ SweepAt("between")
  /\ walk' = [bucket |-> Size - 1, node |-> None, next |-> None]
  /\ stay' = Present /\ seen' = {}
  /\ UNCHANGED <<b, lock, held, place, answer>>

FirstOf(i) == IF b[i] = <<>> THEN None ELSE b[i][1].key

(* Mutant of SweepLock: the chain is read before its lock is had.          *)
SweepLockLate ==
  /\ at[Sweeper] = "between" /\ walk.bucket >= 0
  /\ SweepAt("walk")
  /\ walk' = [walk EXCEPT !.next = FirstOf(walk.bucket)]
  /\ lock' = [lock EXCEPT ![walk.bucket] = Sweeper]
  /\ UNCHANGED <<b, held, place, answer, stay, seen>>

SweepLock ==
  /\ at[Sweeper] = "between" /\ walk.bucket >= 0 /\ lock[walk.bucket] = None
  /\ lock' = [lock EXCEPT ![walk.bucket] = Sweeper]
  /\ SweepAt("walk")
  /\ walk' = [walk EXCEPT !.next = FirstOf(walk.bucket)]
  /\ UNCHANGED <<b, held, place, answer, stay, seen>>

(* The key after k in its chain.                                           *)
After(k) ==
  LET i == Place(k) + 1
  IN  IF i \in DOMAIN b[Bucket(k)] THEN b[Bucket(k)][i].key ELSE None

(* The node to go on to is read before the callback, which may delete.     *)
Visit ==
  /\ at[Sweeper] = "walk" /\ walk.next # None
  /\ SweepAt("callback")
  /\ walk' = [walk EXCEPT !.node = walk.next, !.next = After(walk.next)]
  /\ seen' = seen \cup {Entry[walk.next]}
  /\ Answers(Sweeper, DataOf(walk.next))
  /\ UNCHANGED <<b, lock, held, place, stay>>

CallbackEnds ==
  /\ at[Sweeper] = "callback"
  /\ SweepAt("walk")
  /\ walk' = [walk EXCEPT !.node = None]
  /\ Answers(Sweeper, None)
  /\ UNCHANGED <<b, lock, held, place, stay, seen>>

SweepUnlock ==
  /\ at[Sweeper] = "walk" /\ walk.next = None
  /\ lock' = [lock EXCEPT ![walk.bucket] = None]
  /\ walk' = [walk EXCEPT !.bucket = @ - 1]
  /\ SweepAt("between")
  /\ UNCHANGED <<b, held, place, answer, stay, seen>>

EndSweep ==
  /\ at[Sweeper] = "between" /\ walk.bucket < 0
  /\ SweepAt("out")
  /\ walk' = NoWalk /\ stay' = {} /\ seen' = {}
  /\ UNCHANGED <<b, lock, held, place, answer>>
-----------------------------------------------------------------------------
BucketsInit ==
  /\ b = [i \in Index |-> <<>>]
  /\ lock = [i \in Index |-> None]
  /\ at = [t \in Caller |-> "out"]
  /\ held = [t \in Caller |-> None]
  /\ place = [t \in Caller |-> 0]
  /\ walk = NoWalk
  /\ answer = [t \in Caller |-> None]
  /\ stay = {} /\ seen = {}

Call(t) ==
  \/ \E k \in Key : Enter(t, k)
  \/ Retrieve(t) \/ InsertFails(t) \/ Delete(t)
  \/ \E x \in Item : Insert(t, x)
  \/ Unlock(t)

Sweep ==
  BeginSweep \/ SweepLock \/ Visit \/ CallbackEnds \/ SweepUnlock \/ EndSweep

BucketsNext == Sweep \/ \E t \in Thread : Call(t) \/ DeleteHeld(t)
                     \/ DeleteHeld(Sweeper)

BucketsSpec == BucketsInit /\ [][BucketsNext]_bucketVars
-----------------------------------------------------------------------------
TypeOK ==
  /\ b \in [Index -> Seq(Node)]
  /\ lock \in [Index -> Caller \cup {None}]
  /\ at \in [Caller -> {"out", "found", "in", "between", "walk", "callback"}]
  /\ held \in [Caller -> Key \cup {None}] /\ place \in [Caller -> Nat]
  /\ walk \in [bucket : -1 .. Size - 1, node : Key \cup {None}, next : Key \cup {None}]
  /\ answer \in [Caller -> Item \cup {None}]
  /\ stay \subseteq Entries /\ seen \subseteq Entries

(* The chain whose lock a thread has, or would have.                       *)
LockHolds ==
  /\ \A t \in Thread : /\ at[t] \in {"out", "found", "in"}
                       /\ at[t] # "out" => held[t] \in Key /\ lock[Bucket(held[t])] = t
  /\ at[Sweeper] \in {"walk", "callback"} =>
       walk.bucket \in Index /\ lock[walk.bucket] = Sweeper

(* Every node is in the chain of its key, and no two of one hash compare   *)
(* equal: threads that search and link between the steps of each other,    *)
(* keys that share a chain and calls without a lock of their own leave no  *)
(* node twice, and none where getrn does not look (lhash.c:473-519, 213).  *)
(* Keys of different hashes may compare equal: their nodes are apart.      *)
ChainsOK ==
  /\ TypeOK
  /\ \A i \in Index : \A j \in DOMAIN b[i] :
       /\ Bucket(b[i][j].key) = i
       /\ \A l \in DOMAIN b[i] : Same(b[i][l].key, b[i][j].key) => l = j

(* The node the sweep will go on to is linked, and was not visited yet;    *)
(* a key that was there during all of the sweep has been visited, or its   *)
(* chain is still to come, or it follows in the chain of the sweep         *)
(* (lhash.c, lh_doall_arg): nothing expires late because of its neighbours.*)
SweepExact ==
  /\ at[Sweeper] \in {"walk", "callback"} /\ walk.next # None =>
       There(walk.next) /\ Bucket(walk.next) = walk.bucket
  /\ at[Sweeper] # "out" =>
       \A k \in stay \ seen :
         \/ Bucket(k) < walk.bucket
         \/ Bucket(k) = walk.bucket
              /\ \/ at[Sweeper] = "between"
                 \/ walk.next # None /\ Place(walk.next) <= Place(k)
  /\ at[Sweeper] # "out" =>
       \A k \in seen : There(k) =>
         \/ Bucket(k) > walk.bucket
         \/ /\ Bucket(k) = walk.bucket
            /\ at[Sweeper] \in {"walk", "callback"}
            /\ walk.next # None => Place(k) < Place(walk.next)

Contents == [e \in Entries |-> DataOf(e)]

(* The chains and their locks behave as one table with one item for each   *)
(* hash and comparison, whose calls happen at once: what a call does where *)
(* it found its key earlier, while other threads search, link and unlink,  *)
(* is what it would do to the table at that moment (lhash.h).              *)
AsTable == INSTANCE Table WITH map <- Contents, Key <- Entries

ImplementsTable == AsTable!TableSpec
=============================================================================
