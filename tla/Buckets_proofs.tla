--------------------------- MODULE Buckets_proofs ---------------------------
(* What is proved of the chains of Buckets, of the sweep through them, and *)
(* that they implement Table, for any keys, items, threads and size.       *)
EXTENDS Buckets, TLAPS

LEMMA Joined ==
  ASSUME NEW S, NEW u \in Seq(S), NEW v \in Seq(S)
  PROVE  /\ u \o v \in Seq(S) /\ Len(u \o v) = Len(u) + Len(v)
         /\ \A j \in 1 .. Len(u) + Len(v) :
              (u \o v)[j] = IF j <= Len(u) THEN u[j] ELSE v[j - Len(u)]
OBVIOUS

LEMMA Updated ==
  ASSUME NEW S, NEW s \in Seq(S), NEW p \in DOMAIN s, NEW n \in S, NEW r, r = [s EXCEPT ![p] = n]
  PROVE  /\ r \in Seq(S) /\ DOMAIN r = DOMAIN s
         /\ \A j \in DOMAIN s : r[j] = IF j = p THEN n ELSE s[j]
OBVIOUS

LEMMA RemovedAt ==
  ASSUME NEW S, NEW s \in Seq(S), NEW p \in 1 .. Len(s)
  PROVE  /\ RemoveAt(s, p) \in Seq(S)
         /\ Len(RemoveAt(s, p)) = Len(s) - 1
         /\ \A j \in 1 .. Len(s) - 1 : RemoveAt(s, p)[j] = IF j < p THEN s[j] ELSE s[j + 1]
<1> DEFINE u == SubSeq(s, 1, p - 1)
           v == SubSeq(s, p + 1, Len(s))
<1>1. Len(s) \in Nat /\ p \in Nat /\ p >= 1 /\ p <= Len(s)
  OBVIOUS
<1>2. u \in Seq(S) /\ Len(u) = p - 1 /\ \A j \in 1 .. p - 1 : u[j] = s[j]
  BY <1>1
<1>3. v \in Seq(S) /\ Len(v) = Len(s) - p /\ \A j \in 1 .. Len(s) - p : v[j] = s[p + j]
  BY <1>1
<1>4. RemoveAt(s, p) = u \o v
  BY DEF RemoveAt
<1> HIDE DEF u, v
<1>5. /\ u \o v \in Seq(S) /\ Len(u \o v) = Len(u) + Len(v)
      /\ \A j \in 1 .. Len(u) + Len(v) :
           (u \o v)[j] = IF j <= Len(u) THEN u[j] ELSE v[j - Len(u)]
  BY <1>2, <1>3, Joined
<1>6. Len(u \o v) = Len(s) - 1
  BY <1>1, <1>2, <1>3, <1>5
<1>7. ASSUME NEW j \in 1 .. Len(s) - 1
      PROVE  (u \o v)[j] = IF j < p THEN s[j] ELSE s[j + 1]
  <2>1. (u \o v)[j] = IF j <= p - 1 THEN u[j] ELSE v[j - (p - 1)]
    BY <1>1, <1>2, <1>3, <1>5
  <2>2. CASE j < p
    BY <1>1, <1>2, <2>1, <2>2
  <2>3. CASE ~(j < p)
    <3>1. j - (p - 1) \in 1 .. Len(s) - p /\ p + (j - (p - 1)) = j + 1 /\ ~(j <= p - 1)
      BY <1>1, <2>3
    <3>2. v[j - (p - 1)] = s[p + (j - (p - 1))]
      BY <1>3, <3>1
    <3> QED
      BY <2>1, <2>3, <3>1, <3>2
  <2> QED
    BY <2>2, <2>3
<1> QED
  BY <1>4, <1>5, <1>6, <1>7
-----------------------------------------------------------------------------
(* One chain: where it has a key, and what makes it fit to be chain i.     *)
PlacesIn(s, k) == {j \in DOMAIN s : Same(s[j].key, k)}

PlaceIn(s, k) == CHOOSE j \in PlacesIn(s, k) : \A l \in PlacesIn(s, k) : j <= l

Has(s, k) == PlacesIn(s, k) # {}

DataIn(s, k) == IF Has(s, k) THEN s[PlaceIn(s, k)].data ELSE None

ChainFor(i, s) ==
  /\ s \in Seq(Node)
  /\ \A j \in DOMAIN s : Bucket(s[j].key) = i
  /\ \A j, l \in DOMAIN s : Entry[s[j].key] = Entry[s[l].key] => j = l

LEMMA EntryFacts ==
  ASSUME NEW k \in Key
  PROVE  Entry[k] \in Key /\ Entry[k] \in Entries /\ Same(Entry[k], k)
<1>1. k \in SameAs(k)
  BY DEF SameAs, Same
<1>2. Entry[k] \in SameAs(k)
  BY <1>1 DEF Entry
<1> QED
  BY <1>2 DEF Entries, SameAs

(* Two keys are the same to getrn if they are one entry of the table.      *)
LEMMA SameIsEntry ==
  ASSUME NEW k \in Key, NEW l \in Key
  PROVE  /\ Same(k, l) <=> Entry[k] = Entry[l]
         /\ Entry[k] = Entry[l] => Bucket(k) = Bucket(l)
<1>1. Same(k, l) => Entry[k] = Entry[l]
  <2>1. Same(k, l) => SameAs(k) = SameAs(l)
    BY DEF SameAs, Same
  <2> QED
    BY <2>1 DEF Entry
<1>2. Entry[k] = Entry[l] => Same(k, l)
  BY EntryFacts DEF Same
<1> QED
  BY <1>1, <1>2 DEF Same, Bucket

LEMMA BucketIsIndex == ASSUME NEW k \in Key PROVE Bucket(k) \in Index
<1>1. HashOf[k] \in Nat /\ Size \in Nat /\ Size > 0
  BY BucketsOK
<1>2. HashOf[k] % Size \in 0 .. Size - 1
  BY <1>1
<1> QED
  BY <1>2 DEF Bucket, Index

LEMMA EntryIsKey ==
  ASSUME NEW k \in Key
  PROVE  /\ Entry[k] \in Key /\ Entry[k] \in Entries
         /\ Entry[Entry[k]] = Entry[k]
BY EntryFacts, SameIsEntry

LEMMA EntriesAre == \A e \in Entries : e \in Key /\ Entry[e] = e
BY EntryIsKey DEF Entries

LEMMA ChainFacts ==
  ASSUME NEW i, NEW s, ChainFor(i, s)
  PROVE  /\ DOMAIN s = 1 .. Len(s) /\ Len(s) \in Nat
         /\ \A j \in DOMAIN s : s[j] \in Node /\ s[j].key \in Key /\ s[j].data \in Item
<1>1. s \in Seq(Node)
  BY DEF ChainFor
<1>2. DOMAIN s = 1 .. Len(s) /\ Len(s) \in Nat
  BY <1>1
<1>3. \A j \in DOMAIN s : s[j] \in Node
  BY <1>1
<1>4. \A n \in Node : n.key \in Key /\ n.data \in Item
  BY DEF Node
<1> QED
  BY <1>2, <1>3, <1>4

(* A chain has a key at one place at most.                                 *)
LEMMA OnePlace ==
  ASSUME NEW i, NEW s, ChainFor(i, s), NEW k \in Key, NEW p \in DOMAIN s,
         Entry[s[p].key] = Entry[k]
  PROVE  /\ PlacesIn(s, k) = {p} /\ PlaceIn(s, k) = p
         /\ Has(s, k) /\ DataIn(s, k) = s[p].data
<1>1. p \in Nat /\ \A j \in DOMAIN s : s[j].key \in Key
  BY ChainFacts
<1>2. PlacesIn(s, k) = {p}
  BY <1>1, SameIsEntry DEF PlacesIn, ChainFor
<1>3. PlaceIn(s, k) = p
  <2>1. \E j \in PlacesIn(s, k) : \A l \in PlacesIn(s, k) : j <= l
    BY <1>1, <1>2
  <2>2. PlaceIn(s, k) \in PlacesIn(s, k)
    BY <2>1 DEF PlaceIn
  <2> QED
    BY <1>2, <2>2
<1> QED
  BY <1>2, <1>3 DEF Has, DataIn

(* ... and where it says that it has it.                                   *)
LEMMA PlaceOf ==
  ASSUME NEW i, NEW s, ChainFor(i, s), NEW k \in Key, Has(s, k)
  PROVE  /\ PlaceIn(s, k) \in DOMAIN s /\ PlaceIn(s, k) \in Nat
         /\ Entry[s[PlaceIn(s, k)].key] = Entry[k]
         /\ DataIn(s, k) = s[PlaceIn(s, k)].data
         /\ DataIn(s, k) \in Item /\ DataIn(s, k) # None
         /\ Bucket(k) = i
<1>1. PICK p \in DOMAIN s : Same(s[p].key, k)
  BY DEF Has, PlacesIn
<1>2. s[p].key \in Key /\ s[p].data \in Item /\ p \in Nat
  BY <1>1, ChainFacts
<1>3. Entry[s[p].key] = Entry[k]
  BY <1>1, <1>2, SameIsEntry
<1>4. PlaceIn(s, k) = p /\ DataIn(s, k) = s[p].data
  BY <1>3, OnePlace
<1>5. Bucket(k) = i
  BY <1>2, <1>3, SameIsEntry DEF ChainFor
<1> QED
  BY <1>2, <1>3, <1>4, <1>5, BucketsOK

LEMMA HasIsEntry ==
  ASSUME NEW i, NEW s, ChainFor(i, s), NEW k \in Key
  PROVE  Has(s, k) <=> \E p \in DOMAIN s : Entry[s[p].key] = Entry[k]
BY OnePlace, PlaceOf

(* Present of one class are at one place.                                     *)
LEMMA ByEntry ==
  ASSUME NEW i, NEW s, ChainFor(i, s), NEW k \in Key, NEW l \in Key, Entry[k] = Entry[l]
  PROVE  /\ Has(s, k) <=> Has(s, l)
         /\ DataIn(s, k) = DataIn(s, l)
         /\ Has(s, k) => PlaceIn(s, k) = PlaceIn(s, l)
<1>1. CASE Has(s, k)
  <2>1. PlaceIn(s, k) \in DOMAIN s /\ Entry[s[PlaceIn(s, k)].key] = Entry[l]
    BY <1>1, PlaceOf
  <2> QED
    BY <1>1, <2>1, OnePlace, PlaceOf
<1>2. CASE ~Has(s, k)
  <2>1. ~Has(s, l)
    BY <1>2, HasIsEntry
  <2> QED
    BY <1>2, <2>1 DEF DataIn
<1> QED
  BY <1>1, <1>2

(* Present of different classes are at different places.                      *)
LEMMA Apart ==
  ASSUME NEW i, NEW s, ChainFor(i, s), NEW k \in Key, NEW l \in Key,
         Has(s, k), Has(s, l), PlaceIn(s, k) = PlaceIn(s, l)
  PROVE  Entry[k] = Entry[l]
BY PlaceOf
-----------------------------------------------------------------------------
(* What the calls make of a chain, and of what it says of every key.       *)
LEMMA Replaced ==
  ASSUME NEW i, NEW s, ChainFor(i, s), NEW k \in Key, NEW x \in Item, Has(s, k),
         NEW r, r \in Seq(Node), DOMAIN r = DOMAIN s,
         \A j \in DOMAIN s :
           r[j] = IF j = PlaceIn(s, k) THEN [key |-> k, data |-> x] ELSE s[j]
  PROVE  /\ ChainFor(i, r)
         /\ \A l \in Key : Has(r, l) <=> Has(s, l)
         /\ \A l \in Key : DataIn(r, l) = IF Entry[l] = Entry[k] THEN x ELSE DataIn(s, l)
<1>1. PICK p \in DOMAIN s : p = PlaceIn(s, k) /\ Entry[s[p].key] = Entry[k] /\ Bucket(k) = i
  BY PlaceOf
<1>2. r[p].key = k /\ r[p].data = x /\ \A j \in DOMAIN s : j # p => r[j] = s[j]
  BY <1>1
<1>3. \A j \in DOMAIN s : Entry[r[j].key] = Entry[s[j].key]
  BY <1>1, <1>2
<1>4. ChainFor(i, r)
  BY <1>1, <1>2, <1>3 DEF ChainFor
<1>5. ASSUME NEW l \in Key PROVE Has(r, l) <=> Has(s, l)
  <2>1. Has(s, l) <=> \E q \in DOMAIN s : Entry[s[q].key] = Entry[l]
    BY HasIsEntry
  <2>2. Has(r, l) <=> \E q \in DOMAIN r : Entry[r[q].key] = Entry[l]
    BY <1>4, HasIsEntry
  <2> QED
    BY <1>3, <2>1, <2>2
<1>6. ASSUME NEW l \in Key
      PROVE  DataIn(r, l) = IF Entry[l] = Entry[k] THEN x ELSE DataIn(s, l)
  <2>1. CASE Has(s, l)
    <3>1. PICK q \in DOMAIN s : Entry[s[q].key] = Entry[l] /\ DataIn(s, l) = s[q].data
      BY <2>1, PlaceOf
    <3>2. DataIn(r, l) = r[q].data
      BY <1>3, <1>4, <3>1, OnePlace
    <3>3. q = p <=> Entry[l] = Entry[k]
      BY <1>1, <3>1 DEF ChainFor
    <3> QED
      BY <1>2, <3>1, <3>2, <3>3
  <2>2. CASE ~Has(s, l)
    <3>1. Entry[l] # Entry[k]
      BY <2>2, ByEntry
    <3> QED
      BY <1>5, <2>2, <3>1 DEF DataIn
  <2> QED
    BY <2>1, <2>2
<1> QED
  BY <1>4, <1>5, <1>6

LEMMA Appended ==
  ASSUME NEW i, NEW s, ChainFor(i, s), NEW k \in Key, NEW x \in Item, ~Has(s, k),
         Bucket(k) = i,
         NEW r, NEW e, r \in Seq(Node), DOMAIN r = DOMAIN s \cup {e}, e \notin DOMAIN s,
         r[e].key = k, r[e].data = x, \A j \in DOMAIN s : r[j] = s[j]
  PROVE  /\ ChainFor(i, r)
         /\ \A l \in Key : Has(r, l) <=> Has(s, l) \/ Entry[l] = Entry[k]
         /\ \A l \in Key : DataIn(r, l) = IF Entry[l] = Entry[k] THEN x ELSE DataIn(s, l)
<1>1. \A j \in DOMAIN s : Entry[s[j].key] # Entry[k]
  BY HasIsEntry
<1>2. ChainFor(i, r)
  BY <1>1 DEF ChainFor
<1>3. ASSUME NEW l \in Key PROVE Has(r, l) <=> Has(s, l) \/ Entry[l] = Entry[k]
  <2>1. Has(s, l) <=> \E q \in DOMAIN s : Entry[s[q].key] = Entry[l]
    BY HasIsEntry
  <2>2. Has(r, l) <=> \E q \in DOMAIN r : Entry[r[q].key] = Entry[l]
    BY <1>2, HasIsEntry
  <2> QED
    BY <2>1, <2>2
<1>4. ASSUME NEW l \in Key
      PROVE  DataIn(r, l) = IF Entry[l] = Entry[k] THEN x ELSE DataIn(s, l)
  <2>1. CASE Entry[l] = Entry[k]
    <3>1. e \in DOMAIN r /\ Entry[r[e].key] = Entry[l]
      BY <2>1
    <3> QED
      BY <1>2, <2>1, <3>1, OnePlace
  <2>2. CASE Entry[l] # Entry[k] /\ Has(s, l)
    <3>1. PICK q \in DOMAIN s : Entry[s[q].key] = Entry[l] /\ DataIn(s, l) = s[q].data
      BY <2>2, PlaceOf
    <3>2. q \in DOMAIN r /\ Entry[r[q].key] = Entry[l] /\ r[q].data = s[q].data
      BY <3>1
    <3>3. DataIn(r, l) = r[q].data
      BY <1>2, <3>2, OnePlace
    <3> QED
      BY <2>2, <3>1, <3>2, <3>3
  <2>3. CASE Entry[l] # Entry[k] /\ ~Has(s, l)
    BY <1>3, <2>3 DEF DataIn
  <2> QED
    BY <2>1, <2>2, <2>3
<1> QED
  BY <1>2, <1>3, <1>4

(* The places after the one that is gone are one less.                     *)
LEMMA Removed ==
  ASSUME NEW i, NEW s, ChainFor(i, s), NEW k \in Key, Has(s, k),
         NEW r, NEW p, p = PlaceIn(s, k), r \in Seq(Node), Len(r) = Len(s) - 1,
         \A j \in 1 .. Len(s) - 1 : r[j] = IF j < p THEN s[j] ELSE s[j + 1]
  PROVE  /\ ChainFor(i, r)
         /\ \A l \in Key : Has(r, l) <=> Has(s, l) /\ Entry[l] # Entry[k]
         /\ \A l \in Key : DataIn(r, l) = IF Entry[l] = Entry[k] THEN None ELSE DataIn(s, l)
         /\ \A l \in Key : Has(r, l) =>
              PlaceIn(r, l) = IF PlaceIn(s, l) < p THEN PlaceIn(s, l) ELSE PlaceIn(s, l) - 1
<1>1. DOMAIN s = 1 .. Len(s) /\ Len(s) \in Nat /\ DOMAIN r = 1 .. Len(s) - 1
  BY ChainFacts
<1>2. p \in DOMAIN s /\ p \in Nat /\ Entry[s[p].key] = Entry[k]
  BY PlaceOf
<1> DEFINE from(j) == IF j < p THEN j ELSE j + 1
<1>3. ASSUME NEW j \in DOMAIN r
      PROVE  from(j) \in DOMAIN s /\ from(j) # p /\ r[j] = s[from(j)]
  BY <1>1, <1>2
<1>4. \A j, l \in DOMAIN r : from(j) = from(l) => j = l
  BY <1>1, <1>2
<1>5. ASSUME NEW q \in DOMAIN s, q # p
      PROVE  \E j \in DOMAIN r : from(j) = q /\ j = IF q < p THEN q ELSE q - 1
  <2>1. CASE q < p
    BY <1>1, <1>2, <2>1
  <2>2. CASE q > p
    <3>1. q - 1 \in DOMAIN r /\ from(q - 1) = q
      BY <1>1, <1>2, <2>2
    <3> QED
      BY <1>1, <1>2, <2>2, <3>1
  <2> QED
    BY <1>1, <1>2, <1>5, <2>1, <2>2
<1> HIDE DEF from
<1>6. ChainFor(i, r)
  BY <1>3, <1>4 DEF ChainFor
<1>7. ASSUME NEW l \in Key PROVE Has(r, l) <=> Has(s, l) /\ Entry[l] # Entry[k]
  <2>1. Has(s, l) <=> \E q \in DOMAIN s : Entry[s[q].key] = Entry[l]
    BY HasIsEntry
  <2>2. Has(r, l) <=> \E q \in DOMAIN r : Entry[r[q].key] = Entry[l]
    BY <1>6, HasIsEntry
  <2>3. \A q \in DOMAIN s : q # p => Entry[s[q].key] # Entry[k]
    BY <1>2 DEF ChainFor
  <2>4. Has(r, l) => Has(s, l) /\ Entry[l] # Entry[k]
    BY <1>3, <2>1, <2>2, <2>3
  <2>5. Has(s, l) /\ Entry[l] # Entry[k] => Has(r, l)
    BY <1>2, <1>3, <1>5, <2>1, <2>2
  <2> QED
    BY <2>4, <2>5
<1>8. ASSUME NEW l \in Key, Has(r, l)
      PROVE  /\ PlaceIn(r, l) = IF PlaceIn(s, l) < p THEN PlaceIn(s, l) ELSE PlaceIn(s, l) - 1
             /\ DataIn(r, l) = DataIn(s, l)
  <2>1. Has(s, l) /\ Entry[l] # Entry[k]
    BY <1>7, <1>8
  <2>2. PICK q \in DOMAIN s : /\ q = PlaceIn(s, l) /\ Entry[s[q].key] = Entry[l]
                              /\ DataIn(s, l) = s[q].data
    BY <2>1, PlaceOf
  <2>3. q # p
    BY <1>2, <2>1, <2>2
  <2>4. PICK j \in DOMAIN r : from(j) = q /\ j = IF q < p THEN q ELSE q - 1
    BY <1>5, <2>3
  <2>5. r[j] = s[q]
    BY <1>3, <2>4
  <2>6. PlaceIn(r, l) = j /\ DataIn(r, l) = r[j].data
    BY <1>6, <2>2, <2>5, OnePlace
  <2> QED
    BY <2>2, <2>4, <2>5, <2>6
<1>9. ASSUME NEW l \in Key
      PROVE  DataIn(r, l) = IF Entry[l] = Entry[k] THEN None ELSE DataIn(s, l)
  BY <1>7, <1>8 DEF DataIn
<1> QED
  BY <1>6, <1>7, <1>8, <1>9
-----------------------------------------------------------------------------
(* The chains of the table.                                                *)
LEMMA View ==
  ASSUME NEW k
  PROVE  /\ There(k) <=> Has(b[Bucket(k)], k)
         /\ Place(k) = PlaceIn(b[Bucket(k)], k)
         /\ DataOf(k) = DataIn(b[Bucket(k)], k)
<1>1. Places(k) = PlacesIn(b[Bucket(k)], k)
  BY DEF Places, PlacesIn
<1>2. Place(k) = PlaceIn(b[Bucket(k)], k)
  BY <1>1 DEF Place, PlaceIn
<1>3. There(k) <=> Has(b[Bucket(k)], k)
  BY <1>1 DEF There, Has
<1> QED
  BY <1>2, <1>3 DEF DataOf, DataIn

ChainsFor == b \in [Index -> Seq(Node)] /\ \A i \in Index : ChainFor(i, b[i])

LEMMA ChainsAre == ChainsOK <=> TypeOK /\ ChainsFor
<1>1. ASSUME NEW i \in Index, b[i] \in Seq(Node), NEW j \in DOMAIN b[i], NEW l \in DOMAIN b[i]
      PROVE  Same(b[i][l].key, b[i][j].key) <=> Entry[b[i][l].key] = Entry[b[i][j].key]
  <2>1. b[i][j] \in Node /\ b[i][l] \in Node
    BY <1>1
  <2>2. b[i][j].key \in Key /\ b[i][l].key \in Key
    BY <2>1 DEF Node
  <2> QED
    BY <2>2, SameIsEntry
<1> QED
  BY <1>1 DEF ChainsOK, TypeOK, ChainsFor, ChainFor

(* A key that is there has a place, and no place is of two entries.        *)
LEMMA PlaceThere ==
  ASSUME ChainsFor, NEW k \in Key, There(k)
  PROVE  /\ Place(k) \in DOMAIN b[Bucket(k)] /\ Place(k) \in Nat
         /\ Entry[b[Bucket(k)][Place(k)].key] = Entry[k]
         /\ DataOf(k) \in Item /\ DataOf(k) # None
<1>1. ChainFor(Bucket(k), b[Bucket(k)])
  BY BucketIsIndex DEF ChainsFor
<1> QED
  BY <1>1, View, PlaceOf

LEMMA ThereByEntry ==
  ASSUME ChainsFor, NEW k \in Key, NEW l \in Key, Entry[k] = Entry[l]
  PROVE  /\ Bucket(k) = Bucket(l)
         /\ There(k) <=> There(l)
         /\ DataOf(k) = DataOf(l)
         /\ There(k) => Place(k) = Place(l)
<1>1. ChainFor(Bucket(k), b[Bucket(k)])
  BY BucketIsIndex DEF ChainsFor
<1>2. Bucket(k) = Bucket(l)
  BY SameIsEntry
<1> QED
  BY <1>1, <1>2, View, ByEntry

LEMMA PlaceFoundIs ==
  ASSUME ChainsFor, NEW k \in Key
  PROVE  /\ There(k) => PlaceFound(k) = Place(k) /\ PlaceFound(k) # 0
         /\ ~There(k) => PlaceFound(k) = 0
         /\ PlaceFound(k) \in Nat
<1>1. There(k) => Place(k) \in Nat /\ Place(k) # 0
  <2>1. ChainFor(Bucket(k), b[Bucket(k)])
    BY BucketIsIndex DEF ChainsFor
  <2>2. \A j \in DOMAIN b[Bucket(k)] : j # 0
    BY <2>1, ChainFacts
  <2> QED
    BY <2>2, PlaceThere
<1> QED
  BY <1>1 DEF PlaceFound

(* What lh_insert and lh_delete make of the chains.                        *)
LEMMA LinkEffect ==
  ASSUME ChainsFor, NEW k \in Key, NEW x \in Item, b' = Linking(k, PlaceFound(k), x)
  PROVE  /\ ChainsFor'
         /\ \A i \in Index \ {Bucket(k)} : b'[i] = b[i]
         /\ \A l \in Key : Has(b'[Bucket(l)], l) <=> Has(b[Bucket(l)], l) \/ Entry[l] = Entry[k]
         /\ \A l \in Key : DataIn(b'[Bucket(l)], l) =
                           IF Entry[l] = Entry[k] THEN x ELSE DataIn(b[Bucket(l)], l)
<1> DEFINE i == Bucket(k)
           n == [key |-> k, data |-> x]
<1>1. i \in Index /\ b \in [Index -> Seq(Node)] /\ ChainFor(i, b[i])
  BY BucketIsIndex DEF ChainsFor
<1>2. n \in Node /\ n.key = k /\ n.data = x
  BY DEF Node
<1>3. DOMAIN b[i] = 1 .. Len(b[i]) /\ Len(b[i]) \in Nat
  BY <1>1, ChainFacts
<1>4. /\ ChainFor(i, b'[i])
      /\ \A l \in Key : Has(b'[i], l) <=> Has(b[i], l) \/ Entry[l] = Entry[k]
      /\ \A l \in Key : DataIn(b'[i], l) = IF Entry[l] = Entry[k] THEN x ELSE DataIn(b[i], l)
      /\ b' \in [Index -> Seq(Node)]
      /\ \A j \in Index \ {i} : b'[j] = b[j]
  <2>1. CASE There(k)
    <3>1. Has(b[i], k) /\ Place(k) = PlaceIn(b[i], k)
      BY <2>1, View
    <3>2. b' = [b EXCEPT ![i] = [b[i] EXCEPT ![Place(k)] = n]]
      BY <2>1, PlaceFoundIs DEF Linking
    <3> HIDE DEF n
    <3>3. b'[i] = [b[i] EXCEPT ![Place(k)] = n] /\ \A j \in Index \ {i} : b'[j] = b[j]
      BY <1>1, <3>2
    <3>4. /\ b'[i] \in Seq(Node) /\ DOMAIN b'[i] = DOMAIN b[i]
          /\ \A j \in DOMAIN b[i] : b'[i][j] = IF j = Place(k) THEN n ELSE b[i][j]
      <4>1. b[i] \in Seq(Node) /\ Place(k) \in DOMAIN b[i]
        BY <1>1, <3>1, PlaceOf
      <4>2. b'[i] = [b[i] EXCEPT ![Place(k)] = n]
        BY <3>3
      <4> HIDE DEF i
      <4> QED
        BY <1>2, <4>1, <4>2, Updated
    <3>5. b' \in [Index -> Seq(Node)]
      BY <1>1, <3>2, <3>3, <3>4
    <3> USE DEF n
    <3>6. /\ ChainFor(i, b'[i])
          /\ \A l \in Key : Has(b'[i], l) <=> Has(b[i], l)
          /\ \A l \in Key : DataIn(b'[i], l) = IF Entry[l] = Entry[k] THEN x ELSE DataIn(b[i], l)
      BY <1>1, <3>1, <3>4, Replaced
    <3>7. \A l \in Key : Entry[l] = Entry[k] => Has(b[i], l)
      BY <1>1, <3>1, ByEntry
    <3> QED
      BY <3>3, <3>5, <3>6, <3>7
  <2>2. CASE ~There(k)
    <3>1. ~Has(b[i], k)
      BY <2>2, View
    <3>2. b' = [b EXCEPT ![i] = Append(b[i], n)]
      BY <2>2, PlaceFoundIs DEF Linking
    <3> HIDE DEF n
    <3>3. b'[i] = Append(b[i], n) /\ \A j \in Index \ {i} : b'[j] = b[j]
      BY <1>1, <3>2
    <3>4. PICK e : e = Len(b[i]) + 1
      OBVIOUS
    <3>5. /\ b'[i] \in Seq(Node) /\ Len(b'[i]) = e /\ b'[i][e] = n
          /\ \A j \in 1 .. Len(b[i]) : b'[i][j] = b[i][j]
      BY <1>1, <1>2, <3>3, <3>4
    <3>6. DOMAIN b'[i] = DOMAIN b[i] \cup {e} /\ e \notin DOMAIN b[i]
      <4>1. DOMAIN b'[i] = 1 .. e
        BY <3>5
      <4>2. 1 .. e = (1 .. Len(b[i])) \cup {e} /\ e \notin 1 .. Len(b[i])
        BY <1>3, <3>4
      <4> QED
        BY <1>3, <4>1, <4>2
    <3>7. b' \in [Index -> Seq(Node)]
      BY <1>1, <3>2, <3>3, <3>5
    <3>8. \A j \in DOMAIN b[i] : b'[i][j] = b[i][j]
      BY <1>3, <3>5
    <3>9. b'[i][e].key = k /\ b'[i][e].data = x
      BY <1>2, <3>5
    <3>10. /\ ChainFor(i, b'[i])
           /\ \A l \in Key : Has(b'[i], l) <=> Has(b[i], l) \/ Entry[l] = Entry[k]
           /\ \A l \in Key : DataIn(b'[i], l) = IF Entry[l] = Entry[k] THEN x ELSE DataIn(b[i], l)
      BY <1>1, <3>1, <3>5, <3>6, <3>8, <3>9, Appended
    <3> QED
      BY <3>3, <3>7, <3>10
  <2> QED
    BY <2>1, <2>2
<1>5. ChainsFor'
  BY <1>4, <1>1 DEF ChainsFor, Index
<1>6. ASSUME NEW l \in Key
      PROVE  /\ Has(b'[Bucket(l)], l) <=> Has(b[Bucket(l)], l) \/ Entry[l] = Entry[k]
             /\ DataIn(b'[Bucket(l)], l) =
                  IF Entry[l] = Entry[k] THEN x ELSE DataIn(b[Bucket(l)], l)
  <2>1. CASE Bucket(l) = i
    BY <1>4, <2>1
  <2>2. CASE Bucket(l) # i
    <3>1. Entry[l] # Entry[k]
      BY <2>2, SameIsEntry
    <3>2. b'[Bucket(l)] = b[Bucket(l)]
      BY <1>4, <2>2, BucketIsIndex
    <3> QED
      BY <3>1, <3>2
  <2> QED
    BY <2>1, <2>2
<1> QED
  BY <1>4, <1>5, <1>6

LEMMA UnlinkEffect ==
  ASSUME ChainsFor, NEW k \in Key, b' = Unlinking(k, PlaceFound(k))
  PROVE  /\ ChainsFor'
         /\ \A i \in Index \ {Bucket(k)} : b'[i] = b[i]
         /\ \A l \in Key : Has(b'[Bucket(l)], l) <=> Has(b[Bucket(l)], l) /\ Entry[l] # Entry[k]
         /\ \A l \in Key : DataIn(b'[Bucket(l)], l) =
                           IF Entry[l] = Entry[k] THEN None ELSE DataIn(b[Bucket(l)], l)
         /\ Has(b[Bucket(k)], k) =>
              \A l \in Key : Bucket(l) = Bucket(k) /\ Has(b'[Bucket(l)], l) =>
                PlaceIn(b'[Bucket(l)], l) =
                  IF PlaceIn(b[Bucket(l)], l) < PlaceIn(b[Bucket(k)], k)
                  THEN PlaceIn(b[Bucket(l)], l) ELSE PlaceIn(b[Bucket(l)], l) - 1
         /\ ~Has(b[Bucket(k)], k) => b' = b
<1> DEFINE i == Bucket(k)
<1>1. i \in Index /\ b \in [Index -> Seq(Node)] /\ ChainFor(i, b[i])
  BY BucketIsIndex DEF ChainsFor
<1>2. CASE There(k)
  <2>1. PICK p : p = Place(k)
    OBVIOUS
  <2>2. Has(b[i], k) /\ p = PlaceIn(b[i], k) /\ p \in 1 .. Len(b[i])
    BY <1>1, <1>2, <2>1, View, PlaceOf, ChainFacts
  <2>3. b' = [b EXCEPT ![i] = RemoveAt(b[i], p)]
    BY <1>2, <2>1, PlaceFoundIs DEF Unlinking
  <2>4. b'[i] = RemoveAt(b[i], p) /\ \A j \in Index \ {i} : b'[j] = b[j]
    BY <1>1, <2>3
  <2>5. /\ b'[i] \in Seq(Node) /\ Len(b'[i]) = Len(b[i]) - 1
        /\ \A j \in 1 .. Len(b[i]) - 1 : b'[i][j] = IF j < p THEN b[i][j] ELSE b[i][j + 1]
    BY <1>1, <2>2, <2>4, RemovedAt
  <2>6. b' \in [Index -> Seq(Node)]
    BY <1>1, <2>3, <2>4, <2>5
  <2>7. /\ ChainFor(i, b'[i])
        /\ \A l \in Key : Has(b'[i], l) <=> Has(b[i], l) /\ Entry[l] # Entry[k]
        /\ \A l \in Key : DataIn(b'[i], l) = IF Entry[l] = Entry[k] THEN None ELSE DataIn(b[i], l)
        /\ \A l \in Key : Has(b'[i], l) =>
             PlaceIn(b'[i], l) = IF PlaceIn(b[i], l) < p THEN PlaceIn(b[i], l) ELSE PlaceIn(b[i], l) - 1
    <3>1. b'[i] \in Seq(Node) /\ Len(b'[i]) = Len(b[i]) - 1
      BY <2>5
    <3>2. \A j \in 1 .. Len(b[i]) - 1 : b'[i][j] = IF j < p THEN b[i][j] ELSE b[i][j + 1]
      BY <2>5
    <3>3. ChainFor(i, b[i]) /\ Has(b[i], k) /\ p = PlaceIn(b[i], k)
      BY <1>1, <2>2
    <3> HIDE DEF i
    <3> QED
      BY <3>1, <3>2, <3>3, Removed
  <2>8. ChainsFor'
    BY <1>1, <2>4, <2>6, <2>7 DEF ChainsFor, Index
  <2>9. ASSUME NEW l \in Key
        PROVE  /\ Has(b'[Bucket(l)], l) <=> Has(b[Bucket(l)], l) /\ Entry[l] # Entry[k]
               /\ DataIn(b'[Bucket(l)], l) =
                    IF Entry[l] = Entry[k] THEN None ELSE DataIn(b[Bucket(l)], l)
    <3>1. CASE Bucket(l) = i
      BY <2>7, <3>1
    <3>2. CASE Bucket(l) # i
      <4>1. Entry[l] # Entry[k]
        BY <3>2, SameIsEntry
      <4>2. b'[Bucket(l)] = b[Bucket(l)]
        BY <2>4, <3>2, BucketIsIndex
      <4> QED
        BY <4>1, <4>2
    <3> QED
      BY <3>1, <3>2
  <2> QED
    BY <2>2, <2>4, <2>7, <2>8, <2>9
<1>3. CASE ~There(k)
  <2>1. b' = b /\ ~Has(b[i], k)
    BY <1>3, View, PlaceFoundIs DEF Unlinking
  <2>2. ChainsFor'
    BY <2>1 DEF ChainsFor, Index
  <2>3. ASSUME NEW l \in Key, Entry[l] = Entry[k]
        PROVE  ~Has(b[Bucket(l)], l) /\ DataIn(b[Bucket(l)], l) = None
    <3>1. Bucket(l) = i
      BY <2>3, SameIsEntry
    <3> QED
      BY <1>1, <2>1, <2>3, <3>1, ByEntry DEF DataIn
  <2> QED
    BY <2>1, <2>2, <2>3
<1> QED
  BY <1>2, <1>3
-----------------------------------------------------------------------------
(* What the sweep relies on, of the chains as they are.                    *)
InChain == at[Sweeper] \in {"walk", "callback"}

NextLinked ==
  InChain /\ walk.next # None =>
    Bucket(walk.next) = walk.bucket /\ Has(b[walk.bucket], walk.next)

(* A key that is to be visited is before the sweep.                        *)
Ahead(k) ==
  \/ Bucket(k) < walk.bucket
  \/ /\ Bucket(k) = walk.bucket
     /\ \/ at[Sweeper] = "between"
        \/ walk.next # None /\ PlaceIn(b[walk.bucket], walk.next) <= PlaceIn(b[walk.bucket], k)

(* One that was visited is behind it, or was there before its next node.   *)
Behind(k) ==
  \/ Bucket(k) > walk.bucket
  \/ /\ Bucket(k) = walk.bucket /\ InChain
     /\ Has(b[walk.bucket], k) /\ walk.next # None =>
          PlaceIn(b[walk.bucket], k) < PlaceIn(b[walk.bucket], walk.next)

(* What was there all the time is there, and the node that a callback has  *)
(* in hand was visited.                                                    *)
SweepInv ==
  /\ at[Sweeper] \notin {"found", "in"}
  /\ NextLinked
  /\ \A k \in stay : k \in Key /\ Has(b[Bucket(k)], k)
  /\ at[Sweeper] # "out" => /\ \A k \in stay \ seen : Ahead(k)
                           /\ \A k \in seen : Behind(k)
  /\ at[Sweeper] = "callback" =>
       /\ walk.node \in Key /\ Bucket(walk.node) = walk.bucket
       /\ Entry[walk.node] \in seen

(* What getrn has found is still so when the call makes use of it.         *)
PlacesHold ==
  \A t \in Thread, k \in Key : at[t] = "found" /\ held[t] = k => place[t] = PlaceFound(k)

BucketsInv == TypeOK /\ ChainsFor /\ LockHolds /\ PlacesHold /\ SweepInv

(* With it the invariants of the runs.                                     *)
LEMMA InvSuffices == BucketsInv => ChainsOK /\ SweepExact
<1> SUFFICES ASSUME BucketsInv PROVE ChainsOK /\ SweepExact
  OBVIOUS
<1> USE DEF BucketsInv
<1>1. ChainsOK
  BY ChainsAre
<1>2. InChain /\ walk.next # None => There(walk.next) /\ Bucket(walk.next) = walk.bucket
  BY View DEF SweepInv, NextLinked
<1>3. ASSUME at[Sweeper] # "out", NEW k \in stay \ seen
      PROVE  \/ Bucket(k) < walk.bucket
             \/ Bucket(k) = walk.bucket
                  /\ \/ at[Sweeper] = "between"
                     \/ walk.next # None /\ Place(walk.next) <= Place(k)
  <2>1. Ahead(k)
    BY <1>3 DEF SweepInv
  <2>2. Bucket(k) = walk.bucket /\ at[Sweeper] # "between" => InChain
    BY <1>3 DEF SweepInv, TypeOK, InChain, Caller
  <2> QED
    BY <1>2, <2>1, <2>2, View DEF Ahead
<1>4. ASSUME at[Sweeper] # "out", NEW k \in seen, There(k)
      PROVE  \/ Bucket(k) > walk.bucket
             \/ /\ Bucket(k) = walk.bucket
                /\ at[Sweeper] \in {"walk", "callback"}
                /\ walk.next # None => Place(k) < Place(walk.next)
  <2>1. Behind(k)
    BY <1>4 DEF SweepInv
  <2> QED
    BY <1>2, <1>4, <2>1, View DEF Behind, InChain
<1> QED
  BY <1>1, <1>2, <1>3, <1>4 DEF SweepExact, InChain

LEMMA Callers == /\ Sweeper \notin Thread /\ Sweeper \in Caller
                 /\ Thread \subseteq Caller /\ None \notin Caller
BY BucketsOK DEF Caller

LEMMA DataTyped ==
  ASSUME ChainsFor, NEW k \in Key PROVE DataOf(k) \in Item \cup {None}
BY PlaceThere DEF DataOf

(* What a call finds at its place is what there is of its key.             *)
LEMMA FoundIs ==
  ASSUME BucketsInv, NEW t \in Thread, at[t] = "found"
  PROVE  /\ held[t] \in Key /\ lock[Bucket(held[t])] = t
         /\ place[t] = PlaceFound(held[t])
         /\ DataAt(t) = DataOf(held[t]) /\ (place[t] = 0 <=> ~There(held[t]))
<1>1. held[t] \in Key /\ lock[Bucket(held[t])] = t /\ place[t] = PlaceFound(held[t])
  BY DEF BucketsInv, LockHolds, PlacesHold
<1> QED
  BY <1>1, PlaceFoundIs DEF BucketsInv, DataAt, DataOf

(* A delete under a lock that its caller has.                              *)
LEMMA HeldStep ==
  ASSUME BucketsInv, NEW t \in Caller, DeleteHeld(t)
  PROVE  /\ UNCHANGED <<lock, at, held, place, walk, seen>>
         /\ \E k \in Key : Unlink(t, k) /\ lock[Bucket(k)] = t
<1>1. at[t] = "callback" => t = Sweeper
  BY DEF BucketsInv, LockHolds, Caller
<1>2. at[t] = "in" => t \in Thread
  BY DEF BucketsInv, SweepInv, Caller
<1> QED
  BY <1>1, <1>2 DEF DeleteHeld, BucketsInv, LockHolds, SweepInv

(* A step of a thread: one key of a chain whose lock it has.               *)
LEMMA ThreadStep ==
  ASSUME BucketsInv, NEW t \in Thread, Call(t) \/ DeleteHeld(t)
  PROVE  /\ UNCHANGED <<walk, seen>> /\ at'[Sweeper] = at[Sweeper]
         /\ \/ b' = b /\ stay' = stay
            \/ \E k \in Key :
                 /\ lock[Bucket(k)] = t
                 /\ \/ \E x \in Item : b' = Linking(k, PlaceFound(k), x) /\ stay' = stay
                    \/ b' = Unlinking(k, PlaceFound(k)) /\ stay' = stay \ {Entry[k]}
<1>1. at \in [Caller -> {"out", "found", "in", "between", "walk", "callback"}] /\ t # Sweeper
  BY Callers DEF BucketsInv, TypeOK
<1>2. CASE (\E k \in Key : Enter(t, k)) \/ Retrieve(t) \/ InsertFails(t) \/ Unlock(t)
  BY <1>1, <1>2, Callers DEF Enter, Retrieve, InsertFails, Return, Unlock
<1>3. ASSUME Return(t) PROVE UNCHANGED <<walk, seen>> /\ at'[Sweeper] = at[Sweeper]
  BY <1>1, <1>3, Callers DEF Return
<1>4. CASE Delete(t)
  BY <1>3, <1>4, FoundIs DEF Delete, Return
<1>5. CASE \E x \in Item : Insert(t, x)
  BY <1>3, <1>5, FoundIs DEF Insert, Return
<1>6. CASE DeleteHeld(t)
  BY <1>6, HeldStep, Callers DEF Unlink
<1> QED
  BY <1>2, <1>4, <1>5, <1>6 DEF Call

LEMMA ChainsKept ==
  ASSUME BucketsInv, [BucketsNext]_bucketVars PROVE ChainsFor'
<1>1. ChainsFor
  BY DEF BucketsInv
<1>2. ASSUME NEW t \in Thread, Call(t) \/ DeleteHeld(t) PROVE ChainsFor'
  <2>1. CASE b' = b
    BY <1>1, <2>1 DEF ChainsFor, Index
  <2>2. CASE \E k \in Key : \/ \E x \in Item : b' = Linking(k, PlaceFound(k), x)
                           \/ b' = Unlinking(k, PlaceFound(k))
    BY <1>1, <2>2, LinkEffect, UnlinkEffect
  <2> QED
    BY <1>2, <2>1, <2>2, ThreadStep
<1>3. CASE DeleteHeld(Sweeper)
  <2>1. walk.node \in Key /\ b' = Unlinking(walk.node, PlaceFound(walk.node))
    BY <1>3 DEF DeleteHeld, Unlink, BucketsInv, SweepInv
  <2> QED
    BY <1>1, <2>1, UnlinkEffect
<1>4. CASE Sweep \/ UNCHANGED bucketVars
  <2>1. b' = b
    BY <1>4 DEF Sweep, BeginSweep, SweepLock, Visit, CallbackEnds, SweepUnlock, EndSweep, bucketVars
  <2> QED
    BY <1>1, <2>1 DEF ChainsFor, Index
<1> QED
  BY <1>2, <1>3, <1>4 DEF BucketsNext

(* Every thread keeps the lock of its chain until it gives it back.        *)
LEMMA LocksKept ==
  ASSUME BucketsInv, [BucketsNext]_bucketVars PROVE LockHolds'
<1> USE DEF BucketsInv
<1>1. /\ at \in [Caller -> {"out", "found", "in", "between", "walk", "callback"}]
      /\ held \in [Caller -> Key \cup {None}]
      /\ lock \in [Index -> Caller \cup {None}]
      /\ walk \in [bucket : -1 .. Size - 1, node : Key \cup {None}, next : Key \cup {None}]
  BY DEF TypeOK
<1>2. ASSUME NEW t \in Thread, NEW k \in Key, Enter(t, k) PROVE LockHolds'
  BY <1>1, <1>2, Callers, BucketIsIndex DEF Enter, LockHolds, Index
<1>10. ASSUME NEW t \in Thread, Return(t) PROVE LockHolds'
  BY <1>1, <1>10, Callers DEF Return, LockHolds, Index
<1>3. ASSUME NEW t \in Thread, Unlock(t) PROVE LockHolds'
  BY <1>1, <1>3, Callers, BucketIsIndex DEF Unlock, LockHolds, Index
<1>4. ASSUME NEW t \in Caller, DeleteHeld(t) PROVE LockHolds'
  BY <1>4 DEF DeleteHeld, LockHolds, Index
<1>5. CASE SweepLock
  BY <1>1, <1>5, Callers DEF SweepLock, SweepAt, LockHolds, Index
<1>6. CASE SweepUnlock
  BY <1>1, <1>6, Callers DEF SweepUnlock, SweepAt, LockHolds, Index
<1>7. CASE BeginSweep \/ EndSweep
  <2>1. /\ at'[Sweeper] \in {"between", "out"} /\ UNCHANGED <<lock, held>>
        /\ \A t \in Thread : at'[t] = at[t]
    BY <1>1, <1>7, Callers DEF BeginSweep, EndSweep, SweepAt
  <2> QED
    BY <2>1 DEF LockHolds, Index
<1>8. CASE Visit \/ CallbackEnds
  <2>1. UNCHANGED <<lock, held>> /\ walk'.bucket = walk.bucket
    BY <1>1, <1>8 DEF Visit, CallbackEnds
  <2>2. /\ at[Sweeper] \in {"walk", "callback"} /\ at'[Sweeper] \in {"walk", "callback"}
        /\ \A t \in Thread : at'[t] = at[t]
    BY <1>1, <1>8, Callers DEF Visit, CallbackEnds, SweepAt
  <2> QED
    BY <2>1, <2>2 DEF LockHolds, Index
<1>9. CASE UNCHANGED bucketVars
  BY <1>9 DEF bucketVars, LockHolds, Index
<1> QED
  BY <1>2, <1>3, <1>4, <1>5, <1>6, <1>7, <1>8, <1>9, <1>10, Callers
     DEF BucketsNext, Sweep, Call, Retrieve, InsertFails, Insert, Delete

LEMMA FoundView ==
  ASSUME NEW k
  PROVE  PlaceFound(k) = IF Has(b[Bucket(k)], k) THEN PlaceIn(b[Bucket(k)], k) ELSE 0
BY View DEF PlaceFound

LEMMA FoundKept ==
  ASSUME NEW k, b'[Bucket(k)] = b[Bucket(k)] PROVE PlaceFound(k)' = PlaceFound(k)
<1>1. (PlaceFound(k) = IF Has(b[Bucket(k)], k) THEN PlaceIn(b[Bucket(k)], k) ELSE 0)'
  BY FoundView, PTL
<1>2. PlaceFound(k)' = IF Has(b'[Bucket(k)], k) THEN PlaceIn(b'[Bucket(k)], k) ELSE 0
  BY <1>1
<1> QED
  BY <1>2, FoundView

(* No other thread has the lock of a chain in which a call found its key.  *)
LEMMA PlacesKept ==
  ASSUME BucketsInv, [BucketsNext]_bucketVars PROVE PlacesHold'
<1>1. /\ at \in [Caller -> {"out", "found", "in", "between", "walk", "callback"}]
      /\ held \in [Caller -> Key \cup {None}] /\ place \in [Caller -> Nat]
  BY DEF BucketsInv, TypeOK
<1>2. ASSUME NEW s \in Thread, at[s] = "found", held'[s] = held[s], place'[s] = place[s],
             b'[Bucket(held[s])] = b[Bucket(held[s])], NEW k \in Key, held'[s] = k
      PROVE  place'[s] = PlaceFound(k)'
  <2>1. place[s] = PlaceFound(k)
    BY <1>2 DEF BucketsInv, PlacesHold
  <2> QED
    BY <1>2, <2>1, FoundKept
<1>3. ASSUME NEW s \in Thread, at[s] = "found", NEW t \in Caller, t # s, NEW k \in Key,
             lock[Bucket(k)] = t,
             \/ \E x \in Item : b' = Linking(k, PlaceFound(k), x)
             \/ b' = Unlinking(k, PlaceFound(k))
      PROVE  b'[Bucket(held[s])] = b[Bucket(held[s])]
  <2>1. held[s] \in Key /\ lock[Bucket(held[s])] = s /\ Bucket(held[s]) \in Index
    BY <1>3, FoundIs, BucketIsIndex
  <2>2. \A i \in Index \ {Bucket(k)} : b'[i] = b[i]
    BY <1>3, LinkEffect, UnlinkEffect DEF BucketsInv
  <2> QED
    BY <1>3, <2>1, <2>2
<1>4. ASSUME NEW t \in Thread, Call(t) \/ DeleteHeld(t), NEW s \in Thread, at'[s] = "found",
             NEW k \in Key, held'[s] = k
      PROVE  place'[s] = PlaceFound(k)'
  <2>1. CASE s # t
    <3>1. at[s] = "found" /\ held'[s] = held[s] /\ place'[s] = place[s]
      BY <1>1, <1>4, <2>1, Callers
         DEF Call, Enter, Retrieve, InsertFails, Insert, Delete, Return, Unlock, DeleteHeld
    <3>2. b'[Bucket(held[s])] = b[Bucket(held[s])]
      BY <1>3, <1>4, <2>1, <3>1, ThreadStep, Callers
    <3> QED
      BY <1>2, <1>4, <3>1, <3>2
  <2>2. CASE s = t
    <3>1. PICK l \in Key : Enter(t, l)
      <4>1. CASE DeleteHeld(t)
        BY <1>4, <2>2, <4>1, Callers DEF DeleteHeld, BucketsInv, LockHolds
      <4>2. CASE Retrieve(t) \/ InsertFails(t) \/ Delete(t) \/ \E x \in Item : Insert(t, x)
        BY <1>1, <1>4, <2>2, <4>2, Callers DEF Retrieve, InsertFails, Delete, Insert, Return
      <4>3. CASE Unlock(t)
        BY <1>1, <1>4, <2>2, <4>3, Callers DEF Unlock
      <4> QED
        BY <1>4, <4>1, <4>2, <4>3 DEF Call
    <3>2. l = k /\ place'[s] = PlaceFound(k) /\ b' = b
      BY <1>1, <1>4, <2>2, <3>1, Callers DEF Enter
    <3> QED
      BY <3>2, FoundKept
  <2> QED
    BY <2>1, <2>2
<1>5. ASSUME NEW s \in Thread, at'[s] = "found", DeleteHeld(Sweeper),
             NEW k \in Key, held'[s] = k
      PROVE  place'[s] = PlaceFound(k)'
  <2>1. at[s] = "found" /\ held'[s] = held[s] /\ place'[s] = place[s]
    BY <1>5, HeldStep, Callers
  <2>2. b'[Bucket(held[s])] = b[Bucket(held[s])]
    BY <1>3, <1>5, <2>1, HeldStep, Callers DEF Unlink
  <2> QED
    BY <1>2, <1>5, <2>1, <2>2
<1>6. ASSUME NEW s \in Thread, at'[s] = "found", Sweep \/ UNCHANGED bucketVars,
             NEW k \in Key, held'[s] = k
      PROVE  place'[s] = PlaceFound(k)'
  <2>1. UNCHANGED <<b, held, place>> /\ at'[s] = at[s]
    BY <1>1, <1>6, Callers DEF Sweep, BeginSweep, SweepLock, Visit, CallbackEnds, SweepUnlock,
                               EndSweep, SweepAt, bucketVars
  <2> QED
    BY <1>2, <1>6, <2>1
<1> QED
  BY <1>4, <1>5, <1>6 DEF BucketsNext, PlacesHold

LEMMA TypesKept ==
  ASSUME BucketsInv, [BucketsNext]_bucketVars PROVE TypeOK'
<1> USE DEF BucketsInv
<1>1. /\ at \in [Caller -> {"out", "found", "in", "between", "walk", "callback"}]
      /\ held \in [Caller -> Key \cup {None}] /\ place \in [Caller -> Nat]
      /\ lock \in [Index -> Caller \cup {None}]
      /\ walk \in [bucket : -1 .. Size - 1, node : Key \cup {None}, next : Key \cup {None}]
      /\ answer \in [Caller -> Item \cup {None}]
      /\ stay \subseteq Entries /\ seen \subseteq Entries
  BY DEF TypeOK
<1>2. b' \in [Index -> Seq(Node)]
  BY ChainsKept DEF ChainsFor, Index
<1>3. ASSUME NEW t \in Thread, NEW k \in Key, Enter(t, k) PROVE TypeOK'
  <2>1. place' \in [Caller -> Nat]
    BY <1>1, <1>3, PlaceFoundIs DEF Enter
  <2>2. lock' \in [Index -> Caller \cup {None}]
    BY <1>1, <1>3, Callers, BucketIsIndex DEF Enter
  <2>3. /\ at' \in [Caller -> {"out", "found", "in", "between", "walk", "callback"}]
        /\ held' \in [Caller -> Key \cup {None}]
    BY <1>1, <1>3, Callers DEF Enter
  <2> QED
    BY <1>1, <1>2, <1>3, <2>1, <2>2, <2>3 DEF Enter, TypeOK, Index, Entries
<1>4. ASSUME NEW t \in Caller, NEW k \in Key, Answers(t, DataOf(k))
      PROVE  answer' \in [Caller -> Item \cup {None}]
  BY <1>1, <1>4, DataTyped DEF Answers
<1>5. ASSUME NEW t \in Thread, Return(t),
             answer' \in [Caller -> Item \cup {None}], stay' \subseteq stay
      PROVE  TypeOK'
  BY <1>1, <1>2, <1>5, Callers DEF Return, TypeOK, Index, Entries
<1>6. ASSUME NEW t \in Thread,
             Retrieve(t) \/ InsertFails(t) \/ Delete(t) \/ \E x \in Item : Insert(t, x)
      PROVE  TypeOK'
  <2>1. Return(t) /\ at[t] = "found" /\ stay' \subseteq stay
    BY <1>6 DEF Retrieve, InsertFails, Delete, Insert, Return
  <2>2. held[t] \in Key /\ DataAt(t) = DataOf(held[t])
    BY <2>1, FoundIs
  <2>3. answer' \in [Caller -> Item \cup {None}]
    <3>1. CASE InsertFails(t)
      BY <1>1, <3>1 DEF InsertFails, Answers
    <3>2. CASE Retrieve(t) \/ Delete(t)
      BY <1>4, <2>2, <3>2, Callers DEF Retrieve, Delete
    <3>3. CASE \E x \in Item : Insert(t, x)
      BY <1>1, <2>2, <3>3, DataTyped DEF Insert, Answers
    <3> QED
      BY <1>6, <3>1, <3>2, <3>3
  <2> QED
    BY <1>5, <2>1, <2>3
<1>7. ASSUME NEW t \in Thread, Unlock(t) PROVE TypeOK'
  BY <1>1, <1>2, <1>7, Callers DEF Unlock, Answers, TypeOK, Index, Entries
<1>8. ASSUME NEW t \in Caller, DeleteHeld(t) PROVE TypeOK'
  <2>1. PICK k \in Key : Unlink(t, k)
    BY <1>8, HeldStep
  <2>2. answer' \in [Caller -> Item \cup {None}] /\ stay' \subseteq stay
    BY <1>4, <2>1 DEF Unlink
  <2>3. UNCHANGED <<lock, at, held, place, walk, seen>>
    BY <1>8 DEF DeleteHeld
  <2> QED
    BY <1>1, <1>2, <2>2, <2>3 DEF TypeOK, Index, Entries
<1>9. CASE BeginSweep \/ EndSweep
  <2>1. Present \subseteq Entries
    BY DEF Present
  <2>2. walk' \in [bucket : -1 .. Size - 1, node : Key \cup {None}, next : Key \cup {None}]
    BY <1>9, BucketsOK DEF BeginSweep, EndSweep, NoWalk
  <2>3. at' \in [Caller -> {"out", "found", "in", "between", "walk", "callback"}]
    BY <1>1, <1>9, Callers DEF BeginSweep, EndSweep, SweepAt
  <2> QED
    BY <1>1, <1>2, <1>9, <2>1, <2>2, <2>3 DEF BeginSweep, EndSweep, TypeOK, Index, Entries
<1>10. CASE SweepLock
  <2>1. walk.bucket \in Index
    BY <1>1, <1>10 DEF SweepLock, Index
  <2>2. FirstOf(walk.bucket) \in Key \cup {None}
    <3>1. ChainFor(walk.bucket, b[walk.bucket])
      BY <2>1 DEF ChainsFor
    <3>2. b[walk.bucket] # <<>> => 1 \in DOMAIN b[walk.bucket]
      BY <3>1 DEF ChainFor
    <3> QED
      BY <3>1, <3>2, ChainFacts DEF FirstOf
  <2> QED
    BY <1>1, <1>2, <1>10, <2>1, <2>2, Callers DEF SweepLock, SweepAt, TypeOK, Index, Entries
<1>11. CASE Visit
  <2>1. walk.next \in Key
    BY <1>1, <1>11 DEF Visit
  <2>2. After(walk.next) \in Key \cup {None}
    BY <2>1, BucketIsIndex, ChainFacts DEF After, ChainsFor
  <2>3. answer' \in [Caller -> Item \cup {None}]
    BY <1>4, <1>11, <2>1, Callers DEF Visit
  <2>4. Entry[walk.next] \in Entries
    BY <2>1, EntryIsKey
  <2> QED
    BY <1>1, <1>2, <1>11, <2>1, <2>2, <2>3, <2>4, Callers DEF Visit, SweepAt, TypeOK, Index, Entries
<1>12. CASE CallbackEnds
  BY <1>1, <1>2, <1>12, Callers DEF CallbackEnds, Answers, SweepAt, TypeOK, Index, Entries
<1>13. CASE SweepUnlock
  <2>1. walk.bucket \in Index
    BY <1>13 DEF SweepUnlock, LockHolds
  <2>2. walk.bucket - 1 \in -1 .. Size - 1
    BY <2>1, BucketsOK DEF Index
  <2> QED
    BY <1>1, <1>2, <1>13, <2>1, <2>2, Callers DEF SweepUnlock, SweepAt, TypeOK, Index, Entries
<1>14. CASE UNCHANGED bucketVars
  BY <1>14 DEF bucketVars, TypeOK, Index, Entries
<1> QED
  BY <1>3, <1>6, <1>7, <1>8, <1>9, <1>10, <1>11, <1>12, <1>13, <1>14, Callers
     DEF BucketsNext, Sweep, Call

(* What the sweep has of its chain while it is in it.                      *)
LEMMA SweptChain ==
  ASSUME BucketsInv, InChain
  PROVE  /\ walk.bucket \in Index /\ lock[walk.bucket] = Sweeper
         /\ ChainFor(walk.bucket, b[walk.bucket])
BY DEF BucketsInv, LockHolds, InChain, ChainsFor

(* Threads leave the chain of the sweep, and what is there stays there.    *)
LEMMA ThreadKeepsSweep ==
  ASSUME BucketsInv, NEW t \in Thread, Call(t) \/ DeleteHeld(t) PROVE SweepInv'
<1>1. /\ UNCHANGED <<walk, seen>> /\ at'[Sweeper] = at[Sweeper]
      /\ walk.next \in Key \cup {None} /\ InChain' = InChain
      /\ SweepInv /\ ChainsFor /\ stay \subseteq Key /\ seen \subseteq Key
  <2>1. /\ UNCHANGED <<walk, seen>> /\ at'[Sweeper] = at[Sweeper]
    BY ThreadStep
  <2>2. InChain' = InChain
    BY <2>1 DEF InChain
  <2>3. Entries \subseteq Key
    BY EntryIsKey DEF Entries
  <2>4. walk.next \in Key \cup {None} /\ stay \subseteq Key /\ seen \subseteq Key
    BY <2>3 DEF BucketsInv, TypeOK
  <2> QED
    BY <2>1, <2>2, <2>4 DEF BucketsInv
<1>2. InChain => b'[walk.bucket] = b[walk.bucket]
  <2>1. InChain => walk.bucket \in Index /\ lock[walk.bucket] = Sweeper
    BY SweptChain
  <2>4. t # Sweeper
    BY Callers
  <2>2. CASE b' = b
    BY <2>2
  <2>3. CASE \E k \in Key : /\ lock[Bucket(k)] = t
                           /\ \/ \E x \in Item : b' = Linking(k, PlaceFound(k), x)
                              \/ b' = Unlinking(k, PlaceFound(k))
    <3>1. PICK k \in Key : /\ lock[Bucket(k)] = t
                           /\ \/ \E x \in Item : b' = Linking(k, PlaceFound(k), x)
                              \/ b' = Unlinking(k, PlaceFound(k))
      BY <2>3
    <3>2. \A j \in Index \ {Bucket(k)} : b'[j] = b[j]
      BY <1>1, <3>1, LinkEffect, UnlinkEffect
    <3> QED
      BY <2>1, <2>4, <3>1, <3>2
  <2> QED
    BY <2>2, <2>3, ThreadStep
<1>3. stay' \subseteq stay /\ \A l \in stay' : l \in Key /\ Has(b'[Bucket(l)], l)
  <2>1. \A l \in stay : l \in Key /\ Has(b[Bucket(l)], l) /\ Entry[l] = l
    BY <1>1, EntriesAre DEF SweepInv, BucketsInv, TypeOK
  <2>2. CASE b' = b /\ stay' = stay
    BY <2>1, <2>2
  <2>3. CASE \E k \in Key : \E x \in Item : b' = Linking(k, PlaceFound(k), x) /\ stay' = stay
    BY <1>1, <2>1, <2>3, LinkEffect
  <2>4. CASE \E k \in Key : b' = Unlinking(k, PlaceFound(k)) /\ stay' = stay \ {Entry[k]}
    BY <1>1, <2>1, <2>4, UnlinkEffect
  <2> QED
    BY <2>2, <2>3, <2>4, ThreadStep
<1>4. NextLinked'
  BY <1>1, <1>2 DEF SweepInv, NextLinked
<1>5. ASSUME at[Sweeper] # "out", NEW l \in stay' \ seen' PROVE Ahead(l)'
  <2>1. Ahead(l)
    BY <1>1, <1>3, <1>5 DEF SweepInv
  <2>2. at[Sweeper] \in {"between", "walk", "callback"}
    BY <1>1, <1>5 DEF SweepInv, BucketsInv, TypeOK, Caller
  <2> QED
    BY <1>1, <1>2, <2>1, <2>2 DEF Ahead, InChain
<1>6. ASSUME at[Sweeper] # "out", NEW l \in seen' PROVE Behind(l)'
  <2>1. Behind(l)
    BY <1>1, <1>6 DEF SweepInv
  <2> QED
    BY <1>1, <1>2, <2>1 DEF Behind
<1> QED
  BY <1>1, <1>3, <1>4, <1>5, <1>6 DEF SweepInv


(* A callback deletes the node in hand, from before the one to go on to.   *)
LEMMA CallbackKeepsSweep ==
  ASSUME BucketsInv, DeleteHeld(Sweeper) PROVE SweepInv'
<1>1. PICK i, n : i = walk.bucket /\ n = walk.node
  OBVIOUS
<1>2. /\ UNCHANGED <<at, walk, seen>> /\ at[Sweeper] = "callback" /\ InChain
      /\ b' = Unlinking(n, PlaceFound(n)) /\ stay' = stay \ {Entry[n]}
      /\ n \in Key /\ Bucket(n) = i /\ Entry[n] \in seen
  BY <1>1 DEF BucketsInv, SweepInv, DeleteHeld, Unlink, InChain
<1>3. /\ SweepInv /\ ChainsFor /\ walk.next \in Key \cup {None}
      /\ \A l \in stay \cup seen : l \in Key /\ Entry[l] = l
  BY EntryIsKey DEF BucketsInv, TypeOK, Entries
<1>4. /\ i \in Index /\ ChainFor(i, b[i]) /\ ChainsFor' /\ ChainFor(i, b'[i])
  BY <1>1, <1>2, <1>3, SweptChain, UnlinkEffect DEF ChainsFor, Index
<1>5. /\ \A l \in Key : Has(b'[Bucket(l)], l) <=> Has(b[Bucket(l)], l) /\ Entry[l] # Entry[n]
      /\ Has(b[i], n) =>
           \A l \in Key : Bucket(l) = i /\ Has(b'[i], l) =>
             PlaceIn(b'[i], l) = IF PlaceIn(b[i], l) < PlaceIn(b[i], n)
                                THEN PlaceIn(b[i], l) ELSE PlaceIn(b[i], l) - 1
      /\ ~Has(b[i], n) => b' = b
  BY <1>2, <1>3, UnlinkEffect
(* The order of those that are left is what it was.                        *)
<1>6. ASSUME NEW l \in Key, NEW m \in Key, Bucket(l) = i, Bucket(m) = i,
             Has(b'[i], l), Has(b'[i], m)
      PROVE  /\ PlaceIn(b[i], l) < PlaceIn(b[i], m) => PlaceIn(b'[i], l) < PlaceIn(b'[i], m)
             /\ PlaceIn(b[i], l) <= PlaceIn(b[i], m) => PlaceIn(b'[i], l) <= PlaceIn(b'[i], m)
  <2>1. /\ Has(b[i], l) /\ Entry[l] # Entry[n]
        /\ Has(b[i], m) /\ Entry[m] # Entry[n]
    BY <1>5, <1>6
  <2>2. PlaceIn(b[i], l) \in Nat /\ PlaceIn(b[i], m) \in Nat
    BY <1>4, <2>1, PlaceOf
  <2>3. CASE Has(b[i], n)
    <3>1. PlaceIn(b[i], n) \in Nat
      BY <1>2, <1>4, <2>3, PlaceOf
    <3>2. PlaceIn(b[i], l) # PlaceIn(b[i], n) /\ PlaceIn(b[i], m) # PlaceIn(b[i], n)
      BY <1>2, <1>4, <2>1, <2>3, Apart
    <3>3. /\ PlaceIn(b'[i], l) = IF PlaceIn(b[i], l) < PlaceIn(b[i], n)
                                 THEN PlaceIn(b[i], l) ELSE PlaceIn(b[i], l) - 1
          /\ PlaceIn(b'[i], m) = IF PlaceIn(b[i], m) < PlaceIn(b[i], n)
                                 THEN PlaceIn(b[i], m) ELSE PlaceIn(b[i], m) - 1
      BY <1>5, <1>6, <2>3
    <3>4. PICK pl \in Nat, pm \in Nat, pn \in Nat :
            pl = PlaceIn(b[i], l) /\ pm = PlaceIn(b[i], m) /\ pn = PlaceIn(b[i], n)
      BY <2>2, <3>1
    <3> QED
      BY <3>2, <3>3, <3>4
  <2>4. CASE ~Has(b[i], n)
    BY <1>5, <2>4
  <2> QED
    BY <2>3, <2>4
<1>7. ASSUME walk.next # None
      PROVE  /\ walk.next \in Key /\ Bucket(walk.next) = i
             /\ Has(b[i], walk.next) /\ Has(b'[i], walk.next)
  <2>1. walk.next \in Key /\ Bucket(walk.next) = i /\ Has(b[i], walk.next)
    BY <1>1, <1>2, <1>3, <1>7 DEF SweepInv, NextLinked
  <2>2. Entry[walk.next] # Entry[n]
    <3>1. PICK c \in seen : c = Entry[n] /\ c \in Key /\ Entry[c] = c
      BY <1>2, <1>3
    <3>2. Bucket(c) = i
      BY <1>2, <3>1, SameIsEntry
    <3>3. Behind(c) /\ Bucket(c) = walk.bucket /\ i \in Int
      BY <1>1, <1>2, <1>3, <1>4, <3>1, <3>2 DEF SweepInv, Index
    <3>4. Has(b[i], c) => PlaceIn(b[i], c) < PlaceIn(b[i], walk.next)
      BY <1>1, <1>7, <3>3 DEF Behind
    <3>5. CASE Entry[walk.next] = c
      <4>1. Has(b[i], c) /\ PlaceIn(b[i], c) = PlaceIn(b[i], walk.next)
        BY <1>4, <2>1, <3>1, <3>5, ByEntry
      <4>2. PlaceIn(b[i], c) \in Nat
        BY <1>4, <3>1, <4>1, PlaceOf
      <4> QED
        BY <3>4, <4>1, <4>2
    <3> QED
      BY <3>1, <3>5
  <2> QED
    BY <1>5, <2>1, <2>2
<1>8. NextLinked'
  BY <1>1, <1>2, <1>7 DEF NextLinked
<1>9. \A l \in stay' : l \in Key /\ Has(b'[Bucket(l)], l)
  BY <1>2, <1>3, <1>5 DEF SweepInv
<1>10. ASSUME NEW l \in stay' \ seen' PROVE Ahead(l)'
  <2>1. Ahead(l) /\ l \in Key
    BY <1>2, <1>3, <1>10 DEF SweepInv
  <2>2. CASE Bucket(l) < walk.bucket
    BY <1>2, <2>2 DEF Ahead
  <2>3. CASE /\ Bucket(l) = i /\ walk.next # None
             /\ PlaceIn(b[i], walk.next) <= PlaceIn(b[i], l)
    <3>1. Has(b'[i], l)
      BY <1>9, <1>10, <2>3
    <3>2. PlaceIn(b'[i], walk.next) <= PlaceIn(b'[i], l)
      BY <1>6, <1>7, <2>1, <2>3, <3>1
    <3> QED
      BY <1>1, <1>2, <2>3, <3>2 DEF Ahead
  <2> QED
    BY <1>1, <1>2, <2>1, <2>2, <2>3 DEF Ahead
<1>11. ASSUME NEW l \in seen' PROVE Behind(l)'
  <2>1. Behind(l) /\ l \in Key
    BY <1>2, <1>3, <1>11 DEF SweepInv
  <2>2. CASE Bucket(l) > walk.bucket
    BY <1>2, <2>2 DEF Behind
  <2>3. CASE Bucket(l) = i /\ ~(Bucket(l) > walk.bucket)
    <3>1. ASSUME Has(b'[i], l), walk.next # None
          PROVE  PlaceIn(b'[i], l) < PlaceIn(b'[i], walk.next)
      <4>1. Has(b[i], l)
        BY <1>5, <2>1, <2>3, <3>1
      <4>2. PlaceIn(b[i], l) < PlaceIn(b[i], walk.next)
        BY <1>1, <2>1, <2>3, <3>1, <4>1 DEF Behind
      <4> QED
        BY <1>6, <1>7, <2>1, <2>3, <3>1, <4>2
    <3> QED
      BY <1>1, <1>2, <2>3, <3>1 DEF Behind, InChain
  <2> QED
    BY <1>1, <2>1, <2>2, <2>3 DEF Behind
<1> QED
  BY <1>2, <1>3, <1>8, <1>9, <1>10, <1>11 DEF SweepInv

LEMMA BeginKeepsSweep == ASSUME BucketsInv, BeginSweep \/ EndSweep PROVE SweepInv'
<1>1. at \in [Caller -> {"out", "found", "in", "between", "walk", "callback"}] /\ Sweeper \in Caller
  BY Callers DEF BucketsInv, TypeOK
<1>2. CASE BeginSweep
  <2>1. /\ at'[Sweeper] = "between" /\ b' = b /\ walk'.bucket = Size - 1
        /\ stay' = Present /\ seen' = {}
    BY <1>1, <1>2 DEF BeginSweep, SweepAt
  <2>2. \A l \in Present : l \in Key /\ Has(b[Bucket(l)], l)
    BY View, EntryIsKey DEF Present, Entries
  <2>3. ASSUME NEW l \in Present PROVE Ahead(l)'
    <3>1. Bucket(l) \in 0 .. Size - 1 /\ Size \in Nat
      BY <2>2, BucketIsIndex, BucketsOK DEF Index
    <3>2. Bucket(l) < Size - 1 \/ Bucket(l) = Size - 1
      BY <3>1
    <3> QED
      BY <2>1, <3>2 DEF Ahead
  <2> QED
    BY <2>1, <2>2, <2>3 DEF SweepInv, NextLinked, InChain
<1>3. CASE EndSweep
  <2>1. at'[Sweeper] = "out" /\ stay' = {}
    BY <1>1, <1>3 DEF EndSweep, SweepAt
  <2> QED
    BY <2>1 DEF SweepInv, NextLinked, InChain
<1> QED
  BY <1>2, <1>3

(* Into a chain: the first node is before all that are there.              *)
LEMMA LockKeepsSweep == ASSUME BucketsInv, SweepLock PROVE SweepInv'
<1>1. PICK i, m : i = walk.bucket /\ m = FirstOf(i)
  OBVIOUS
<1>2. at \in [Caller -> {"out", "found", "in", "between", "walk", "callback"}] /\ Sweeper \in Caller
  BY Callers DEF BucketsInv, TypeOK
<1>3. /\ at[Sweeper] = "between" /\ at'[Sweeper] = "walk"
      /\ walk'.bucket = i /\ walk'.next = m /\ UNCHANGED <<b, stay, seen>>
  BY <1>1, <1>2 DEF SweepLock, SweepAt, BucketsInv, TypeOK
<1>4. i \in Index /\ ChainFor(i, b[i])
  BY <1>1 DEF SweepLock, BucketsInv, TypeOK, ChainsFor, Index
<1>5. DOMAIN b[i] = 1 .. Len(b[i]) /\ Len(b[i]) \in Nat
  BY <1>4, ChainFacts
<1>6. ASSUME b[i] # <<>>
      PROVE  m # None /\ m \in Key /\ Bucket(m) = i /\ Has(b[i], m) /\ PlaceIn(b[i], m) = 1
  <2>1. 1 \in DOMAIN b[i] /\ m = b[i][1].key
    BY <1>1, <1>4, <1>6 DEF FirstOf, ChainFor
  <2>2. m \in Key /\ m # None
    BY <1>4, <2>1, ChainFacts, BucketsOK
  <2> QED
    BY <1>4, <2>1, <2>2, OnePlace DEF ChainFor
<1>7. b[i] = <<>> => m = None
  BY <1>1 DEF FirstOf
<1>8. ASSUME NEW l \in stay \ seen PROVE Ahead(l)'
  <2>1. Ahead(l) /\ l \in Key /\ Has(b[Bucket(l)], l)
    BY <1>3, <1>8 DEF BucketsInv, SweepInv
  <2>2. CASE Bucket(l) < i
    BY <1>3, <2>2 DEF Ahead
  <2>3. CASE Bucket(l) = i
    <3>1. PlaceIn(b[i], l) \in DOMAIN b[i]
      BY <1>4, <2>1, <2>3, PlaceOf
    <3>2. b[i] # <<>> /\ 1 <= PlaceIn(b[i], l)
      BY <1>5, <3>1
    <3> QED
      BY <1>3, <1>6, <2>3, <3>2 DEF Ahead
  <2> QED
    BY <1>1, <2>1, <2>2, <2>3 DEF Ahead
<1>9. ASSUME NEW l \in seen PROVE Behind(l)'
  <2>1. Behind(l)
    BY <1>3, <1>9 DEF BucketsInv, SweepInv
  <2> QED
    BY <1>1, <1>3, <2>1 DEF Behind, InChain
<1>10. NextLinked'
  BY <1>3, <1>6, <1>7 DEF NextLinked
<1> QED
  BY <1>3, <1>8, <1>9, <1>10 DEF BucketsInv, SweepInv

(* On to the next node: the one after it is at the place after its own.    *)
LEMMA VisitKeepsSweep == ASSUME BucketsInv, Visit PROVE SweepInv'
<1>1. PICK i, n, m : i = walk.bucket /\ n = walk.next /\ m = After(n)
  OBVIOUS
<1>2. at \in [Caller -> {"out", "found", "in", "between", "walk", "callback"}] /\ Sweeper \in Caller
  BY Callers DEF BucketsInv, TypeOK
<1>3. /\ at[Sweeper] = "walk" /\ at'[Sweeper] = "callback" /\ InChain
      /\ walk'.bucket = i /\ walk'.node = n /\ walk'.next = m
      /\ UNCHANGED <<b, stay>> /\ seen' = seen \cup {Entry[n]}
  BY <1>1, <1>2 DEF Visit, SweepAt, BucketsInv, TypeOK, InChain
<1>4. i \in Index /\ ChainFor(i, b[i])
  BY <1>1, <1>3, SweptChain
<1>5. n \in Key /\ n # None /\ Bucket(n) = i /\ Has(b[i], n)
  BY <1>1, <1>3 DEF Visit, BucketsInv, SweepInv, NextLinked, TypeOK
<1>6. PICK p \in Nat : p = PlaceIn(b[i], n) /\ p \in DOMAIN b[i]
  BY <1>4, <1>5, PlaceOf
<1>7. DOMAIN b[i] = 1 .. Len(b[i]) /\ Len(b[i]) \in Nat
  BY <1>4, ChainFacts
<1>8. m = IF p + 1 \in DOMAIN b[i] THEN b[i][p + 1].key ELSE None
  BY <1>1, <1>5, <1>6, View DEF After
<1>9. ASSUME p + 1 \in DOMAIN b[i]
      PROVE  m # None /\ m \in Key /\ Bucket(m) = i /\ Has(b[i], m) /\ PlaceIn(b[i], m) = p + 1
  <2>1. m = b[i][p + 1].key /\ m \in Key /\ m # None
    BY <1>4, <1>8, <1>9, ChainFacts, BucketsOK
  <2> QED
    BY <1>4, <1>9, <2>1, OnePlace DEF ChainFor
<1>10. /\ stay \subseteq Key /\ seen \subseteq Key
       /\ \A l \in stay \cup seen : l \in Key /\ Entry[l] = l
       /\ Entry[n] \in Key /\ Entry[Entry[n]] = Entry[n]
  <2>1. stay \subseteq Entries /\ seen \subseteq Entries
    BY DEF BucketsInv, TypeOK
  <2>2. \A l \in Entries : l \in Key /\ Entry[l] = l
    BY EntryIsKey DEF Entries
  <2> QED
    BY <1>5, <2>1, <2>2, EntryIsKey
<1>11. ASSUME NEW l \in stay' \ seen' PROVE Ahead(l)'
  <2>1. Ahead(l) /\ l \in Key /\ Has(b[Bucket(l)], l) /\ Entry[l] # Entry[n]
    BY <1>3, <1>10, <1>11 DEF BucketsInv, SweepInv
  <2>2. CASE Bucket(l) < i
    BY <1>3, <2>2 DEF Ahead
  <2>3. CASE Bucket(l) = i /\ ~(Bucket(l) < i)
    <3>1. p <= PlaceIn(b[i], l)
      BY <1>1, <1>3, <1>6, <2>1, <2>3 DEF Ahead
    <3>2. PlaceIn(b[i], l) \in DOMAIN b[i]
      BY <1>4, <2>1, <2>3, PlaceOf
    <3>3. PlaceIn(b[i], l) # p
      BY <1>4, <1>5, <1>6, <2>1, <2>3, Apart
    <3>4. p + 1 \in DOMAIN b[i] /\ p + 1 <= PlaceIn(b[i], l)
      BY <1>6, <1>7, <3>1, <3>2, <3>3
    <3> QED
      BY <1>3, <1>9, <2>3, <3>4 DEF Ahead
  <2> QED
    BY <1>1, <2>1, <2>2, <2>3 DEF Ahead
<1>12. ASSUME NEW l \in seen' PROVE Behind(l)'
  <2>1. CASE Bucket(l) > i
    BY <1>3, <2>1 DEF Behind
  <2>2. ASSUME Bucket(l) = i, Has(b[i], l) => PlaceIn(b[i], l) \in Nat /\ PlaceIn(b[i], l) <= p
        PROVE  Behind(l)'
    <3>1. m # None => PlaceIn(b[i], m) = p + 1
      BY <1>8, <1>9
    <3>2. Has(b[i], l) => PlaceIn(b[i], l) < p + 1
      BY <2>2
    <3> QED
      BY <1>3, <2>2, <3>1, <3>2 DEF Behind, InChain
  <2>3. CASE l \in seen /\ ~(Bucket(l) > i)
    <3>1. Behind(l) /\ l \in Key
      BY <1>3, <1>10, <2>3 DEF BucketsInv, SweepInv
    <3>2. Bucket(l) = i /\ (Has(b[i], l) => PlaceIn(b[i], l) < p)
      BY <1>1, <1>5, <1>6, <2>3, <3>1 DEF Behind
    <3>3. Has(b[i], l) => PlaceIn(b[i], l) \in Nat
      BY <1>4, <3>1, PlaceOf
    <3> QED
      BY <1>6, <2>2, <3>2, <3>3
  <2>4. CASE l = Entry[n]
    <3>1. Bucket(l) = i /\ PlaceIn(b[i], l) = p
      BY <1>4, <1>5, <1>6, <1>10, <2>4, SameIsEntry, ByEntry
    <3> QED
      BY <1>6, <2>2, <3>1
  <2> QED
    BY <1>3, <2>1, <2>3, <2>4
<1>13. NextLinked'
  BY <1>3, <1>8, <1>9 DEF NextLinked
<1> QED
  BY <1>3, <1>5, <1>11, <1>12, <1>13 DEF BucketsInv, SweepInv

LEMMA OnKeepsSweep ==
  ASSUME BucketsInv, CallbackEnds \/ SweepUnlock \/ UNCHANGED bucketVars PROVE SweepInv'
<1>1. /\ at \in [Caller -> {"out", "found", "in", "between", "walk", "callback"}] /\ Sweeper \in Caller
      /\ walk \in [bucket : -1 .. Size - 1, node : Key \cup {None}, next : Key \cup {None}]
      /\ SweepInv /\ stay \subseteq Key /\ seen \subseteq Key
  BY Callers, EntriesAre DEF BucketsInv, TypeOK
<1>2. CASE CallbackEnds
  <2>1. /\ at[Sweeper] = "callback" /\ at'[Sweeper] = "walk" /\ InChain /\ InChain'
        /\ walk'.bucket = walk.bucket /\ walk'.next = walk.next /\ UNCHANGED <<b, stay, seen>>
    BY <1>1, <1>2 DEF CallbackEnds, SweepAt, InChain
  <2>2. ASSUME NEW l \in stay \ seen PROVE Ahead(l)'
    BY <1>1, <2>1, <2>2 DEF SweepInv, Ahead
  <2>3. ASSUME NEW l \in seen PROVE Behind(l)'
    BY <1>1, <2>1, <2>3 DEF SweepInv, Behind
  <2> QED
    BY <1>1, <2>1, <2>2, <2>3 DEF SweepInv, NextLinked
<1>3. CASE SweepUnlock
  <2>1. /\ at[Sweeper] = "walk" /\ at'[Sweeper] = "between" /\ walk.next = None
        /\ walk'.bucket = walk.bucket - 1 /\ UNCHANGED <<b, stay, seen>>
    BY <1>1, <1>3 DEF SweepUnlock, SweepAt
  <2>2. walk.bucket \in Int /\ \A l \in Key : Bucket(l) \in Int
    BY <1>1, BucketIsIndex DEF Index
  <2>3. ASSUME NEW l \in stay \ seen PROVE Ahead(l)'
    <3>1. Bucket(l) < walk.bucket
      BY <1>1, <2>1, <2>3 DEF SweepInv, Ahead
    <3>2. Bucket(l) < walk.bucket - 1 \/ Bucket(l) = walk.bucket - 1
      BY <1>1, <2>2, <3>1
    <3> QED
      BY <2>1, <3>2 DEF Ahead
  <2>4. ASSUME NEW l \in seen PROVE Behind(l)'
    <3>1. Bucket(l) > walk.bucket \/ Bucket(l) = walk.bucket
      BY <1>1, <2>1, <2>4 DEF SweepInv, Behind
    <3>2. Bucket(l) > walk.bucket - 1
      BY <1>1, <2>2, <3>1
    <3> QED
      BY <2>1, <3>2 DEF Behind
  <2> QED
    BY <1>1, <2>1, <2>3, <2>4 DEF SweepInv, NextLinked, InChain
<1>4. CASE UNCHANGED bucketVars
  BY <1>1, <1>4 DEF bucketVars, SweepInv, NextLinked, Ahead, Behind, InChain
<1> QED
  BY <1>2, <1>3, <1>4

LEMMA BucketsStep == BucketsInv /\ [BucketsNext]_bucketVars => BucketsInv'
<1> SUFFICES ASSUME BucketsInv, [BucketsNext]_bucketVars PROVE BucketsInv'
  OBVIOUS
<1>1. SweepInv'
  BY ThreadKeepsSweep, CallbackKeepsSweep, BeginKeepsSweep, LockKeepsSweep, VisitKeepsSweep,
     OnKeepsSweep DEF BucketsNext, Sweep
<1> QED
  BY <1>1, TypesKept, ChainsKept, LocksKept, PlacesKept DEF BucketsInv

LEMMA BucketsStart == BucketsInit => BucketsInv
<1> SUFFICES ASSUME BucketsInit PROVE BucketsInv
  OBVIOUS
<1> USE DEF BucketsInit
<1>1. at[Sweeper] = "out" /\ \A t \in Thread : at[t] = "out"
  BY Callers
<1>2. TypeOK
  BY BucketsOK DEF TypeOK, NoWalk
<1>3. ChainsFor
  <2>1. \A i \in Index : b[i] = <<>>
    OBVIOUS
  <2>2. \A i : ChainFor(i, <<>>)
    BY DEF ChainFor
  <2> QED
    BY <1>2, <2>1, <2>2 DEF ChainsFor, TypeOK
<1> QED
  BY <1>1, <1>2, <1>3 DEF BucketsInv, LockHolds, PlacesHold, SweepInv, NextLinked, InChain

LEMMA AlwaysBuckets == BucketsSpec => []BucketsInv
BY BucketsStart, BucketsStep, PTL DEF BucketsSpec

(* Whatever the keys, their hashes and the number of chains: every node is *)
(* in the chain of its key, once, after any calls of any threads.          *)
THEOREM NodesInPlace == BucketsSpec => []ChainsOK
BY AlwaysBuckets, InvSuffices, PTL

(* The sweep visits all that is there during all of it, and nothing twice, *)
(* while threads call and its callbacks delete what they have in hand.     *)
THEOREM SweepMissesNone == BucketsSpec => []SweepExact
BY AlwaysBuckets, InvSuffices, PTL
-----------------------------------------------------------------------------
(* The refinement of Table: what a key has is the data of its class, and   *)
(* every call is the call of the table for that class.                     *)
LEMMA ContentsAre == Contents = [c \in Entries |-> DataIn(b[Bucket(c)], c)]
BY View DEF Contents

LEMMA ContentsAfter == Contents' = [c \in Entries |-> DataIn(b'[Bucket(c)], c)]
<1>1. (Contents = [c \in Entries |-> DataIn(b[Bucket(c)], c)])'
  BY ContentsAre, PTL
<1> QED
  BY <1>1

LEMMA OfEntry ==
  ASSUME BucketsInv, NEW k \in Key
  PROVE  Entry[k] \in Entries /\ Contents[Entry[k]] = DataOf(k)
<1>1. Entry[k] \in Entries /\ Entry[k] \in Key /\ Entry[Entry[k]] = Entry[k]
  BY EntryIsKey
<1> QED
  BY <1>1, ThereByEntry DEF BucketsInv, Contents

LEMMA Links ==
  ASSUME BucketsInv, NEW k \in Key, NEW x \in Item, b' = Linking(k, PlaceFound(k), x)
  PROVE  Contents' = [Contents EXCEPT ![Entry[k]] = x]
<1>1. \A c \in Entries : c \in Key /\ Entry[c] = c
  BY EntryIsKey DEF Entries
<1>2. \A c \in Entries : DataIn(b'[Bucket(c)], c) =
                         IF c = Entry[k] THEN x ELSE DataIn(b[Bucket(c)], c)
  BY <1>1, LinkEffect DEF BucketsInv
<1> QED
  BY <1>2, ContentsAre, ContentsAfter

LEMMA Unlinks ==
  ASSUME BucketsInv, NEW k \in Key, b' = Unlinking(k, PlaceFound(k))
  PROVE  Contents' = [Contents EXCEPT ![Entry[k]] = None]
<1>1. \A c \in Entries : c \in Key /\ Entry[c] = c
  BY EntryIsKey DEF Entries
<1>2. \A c \in Entries : DataIn(b'[Bucket(c)], c) =
                         IF c = Entry[k] THEN None ELSE DataIn(b[Bucket(c)], c)
  BY <1>1, UnlinkEffect DEF BucketsInv
<1> QED
  BY <1>2, ContentsAre, ContentsAfter

LEMMA Unmoved == ASSUME b' = b PROVE Contents' = Contents
BY ContentsAre, ContentsAfter

LEMMA TableStep == BucketsInv /\ [BucketsNext]_bucketVars => [AsTable!TableNext]_(AsTable!tableVars)
<1> SUFFICES ASSUME BucketsInv, [BucketsNext]_bucketVars
             PROVE  AsTable!TableNext \/ (Contents' = Contents /\ answer' = answer)
  BY DEF AsTable!tableVars
<1>1. Sweeper \in Caller /\ Thread \subseteq Caller
  BY Callers
<1>2. ASSUME NEW t \in Caller, NEW k \in Key, b' = Unlinking(k, PlaceFound(k)), Answers(t, DataOf(k))
      PROVE  AsTable!TableNext
  <2>1. PICK c \in Entries : c = Entry[k] /\ Contents[c] = DataOf(k)
    BY OfEntry
  <2>2. AsTable!Take(t, c)
    BY <1>2, <2>1, Unlinks DEF AsTable!Take, AsTable!Answer, Answers
  <2> QED
    BY <2>2 DEF AsTable!TableNext
<1>3. ASSUME NEW t \in Caller, NEW k \in Key, b' = b, Answers(t, DataOf(k))
      PROVE  AsTable!TableNext
  <2>1. PICK c \in Entries : c = Entry[k] /\ Contents[c] = DataOf(k)
    BY OfEntry
  <2>2. AsTable!Look(t, c)
    BY <1>3, <2>1, Unmoved DEF AsTable!Look, AsTable!Answer, Answers
  <2> QED
    BY <2>2 DEF AsTable!TableNext
<1>4. ASSUME NEW t \in Caller, NEW k \in Key, b' = b, Answers(t, None)
      PROVE  AsTable!TableNext
  <2>1. PICK c \in Entries : c = Entry[k]
    BY OfEntry
  <2>2. AsTable!Leave(t)
    BY <1>4, Unmoved DEF AsTable!Leave, AsTable!Answer, Answers
  <2> QED
    BY <2>1, <2>2 DEF AsTable!TableNext
<1>5. ASSUME NEW t \in Thread, NEW x \in Item, Insert(t, x)
      PROVE  AsTable!TableNext
  <2>1. PICK k \in Key : /\ k = held[t] /\ place[t] = PlaceFound(k) /\ DataAt(t) = DataOf(k)
                         /\ (place[t] = 0 <=> ~There(k))
    BY <1>5, FoundIs DEF Insert, Return
  <2>2. PICK c \in Entries : c = Entry[k] /\ Contents[c] = DataOf(k)
    BY OfEntry
  <2>3. There(k) <=> Contents[c] # None
    BY <2>2, PlaceThere DEF BucketsInv, DataOf
  <2>4. Contents' = [Contents EXCEPT ![c] = x]
    BY <1>5, <2>1, <2>2, Links DEF Insert
  <2>5. AsTable!Put(t, c, x)
    BY <1>5, <2>1, <2>2, <2>3, <2>4 DEF Insert, AsTable!Put, AsTable!Answer, Answers
  <2> QED
    BY <1>1, <2>5 DEF AsTable!TableNext
<1>6. ASSUME NEW t \in Thread, InsertFails(t) \/ Retrieve(t) \/ Delete(t)
      PROVE  AsTable!TableNext
  <2>1. PICK k \in Key : k = held[t] /\ place[t] = PlaceFound(k) /\ DataAt(t) = DataOf(k)
    BY <1>6, FoundIs DEF InsertFails, Retrieve, Delete, Return
  <2> QED
    BY <1>1, <1>2, <1>3, <1>4, <1>6, <2>1 DEF InsertFails, Retrieve, Delete
<1>7. ASSUME NEW t \in Thread, NEW k \in Key, Enter(t, k)
      PROVE  Contents' = Contents /\ answer' = answer
  BY <1>7, Unmoved DEF Enter
<1>8. ASSUME NEW t \in Thread, Unlock(t) PROVE AsTable!TableNext
  BY <1>1, <1>4, <1>8 DEF Unlock, BucketsInv, LockHolds
<1>9. ASSUME NEW t \in Caller, DeleteHeld(t) PROVE AsTable!TableNext
  BY <1>2, <1>9, HeldStep DEF Unlink
<1>10. CASE Visit
  <2>1. walk.next \in Key
    BY <1>10 DEF Visit, BucketsInv, TypeOK
  <2> QED
    BY <1>1, <1>3, <1>10, <2>1 DEF Visit
<1>11. CASE CallbackEnds
  <2>1. walk.node \in Key
    BY <1>11 DEF CallbackEnds, BucketsInv, SweepInv
  <2> QED
    BY <1>1, <1>4, <1>11, <2>1 DEF CallbackEnds
<1>12. CASE BeginSweep \/ SweepLock \/ SweepUnlock \/ EndSweep \/ UNCHANGED bucketVars
  BY <1>12, Unmoved DEF BeginSweep, SweepLock, SweepUnlock, EndSweep, bucketVars
<1> QED
  BY <1>1, <1>5, <1>6, <1>7, <1>8, <1>9, <1>10, <1>11, <1>12 DEF BucketsNext, Sweep, Call

LEMMA TableStart == BucketsInit => AsTable!TableInit
<1> SUFFICES ASSUME BucketsInit PROVE AsTable!TableInit
  OBVIOUS
<1>1. ASSUME NEW c \in Entries PROVE DataIn(b[Bucket(c)], c) = None
  <2>1. b[Bucket(c)] = <<>>
    BY EntryIsKey, BucketIsIndex DEF BucketsInit, Entries
  <2> QED
    BY <2>1 DEF DataIn, Has, PlacesIn
<1>2. Contents = [c \in Entries |-> None]
  BY <1>1, ContentsAre
<1> QED
  BY <1>2 DEF AsTable!TableInit, BucketsInit

(* The chains and their locks implement the table that callers see: every  *)
(* answer is what the table held at one moment of the call, although keys  *)
(* share chains, and nodes are put in and taken out beside them.           *)
THEOREM ChainsAreTable == BucketsSpec => ImplementsTable
BY AlwaysBuckets, TableStart, TableStep, PTL
   DEF BucketsSpec, ImplementsTable, AsTable!TableSpec
=============================================================================
