-------------------------- MODULE Daemon_proofs -------------------------------
(* Theorems about the accounting queue (AcctQueue), for any records and    *)
(* any number of them, and about the daemon it lives in (Daemon), for any  *)
(* threads and times of the watchdog.                                      *)
EXTENDS Daemon, FiniteSetTheorems, TLAPS

LEMMA NumberedFields ==
  ASSUME NEW e \in Numbered
  PROVE  e.id \in Nat /\ e.scope \in Nat /\ e.what \in Record
  BY QueueConstantsOK DEF Numbered, Snat

(* Two sequences in a row are in order when each is and the second follows *)
(* the first.                                                              *)
LEMMA ConcatOrdered ==
  ASSUME NEW s \in Seq(Numbered), NEW t \in Seq(Numbered),
         Ordered(s), Ordered(t), Below(s, t)
  PROVE  Ordered(s \o t)
<1> SUFFICES ASSUME NEW i \in 1..Len(s \o t), NEW j \in 1..Len(s \o t), i < j
             PROVE  (s \o t)[i].id < (s \o t)[j].id
  BY DEF Ordered
<1>1. Len(s) \in Nat /\ Len(t) \in Nat /\ Len(s \o t) = Len(s) + Len(t)
  OBVIOUS
<1>2. CASE j <= Len(s)
  <2>1. i \in 1..Len(s) /\ j \in 1..Len(s)
    BY <1>1, <1>2
  <2>2. (s \o t)[i] = s[i] /\ (s \o t)[j] = s[j]
    BY <2>1
  <2> QED
    BY <2>1, <2>2 DEF Ordered
<1>3. CASE i <= Len(s) /\ j > Len(s)
  <2>1. i \in 1..Len(s) /\ j - Len(s) \in 1..Len(t)
    BY <1>1, <1>3
  <2>2. (s \o t)[i] = s[i] /\ (s \o t)[j] = t[j - Len(s)]
    BY <1>1, <1>3, <2>1
  <2> QED
    BY <2>1, <2>2 DEF Below
<1>4. CASE i > Len(s)
  <2>1. i - Len(s) \in 1..Len(t) /\ j - Len(s) \in 1..Len(t) /\ i - Len(s) < j - Len(s)
    BY <1>1, <1>4
  <2>2. (s \o t)[i] = t[i - Len(s)] /\ (s \o t)[j] = t[j - Len(s)]
    BY <1>1, <1>4, <2>1
  <2> QED
    BY <2>1, <2>2 DEF Ordered
<1> QED
  BY <1>1, <1>2, <1>3, <1>4

(* A property of all elements of both is one of their concatenation.       *)
LEMMA ConcatElement ==
  ASSUME NEW s \in Seq(Numbered), NEW t \in Seq(Numbered), NEW i \in 1..Len(s \o t)
  PROVE  \/ i \in 1..Len(s) /\ (s \o t)[i] = s[i]
         \/ \E j \in 1..Len(t) : (s \o t)[i] = t[j]
<1>1. Len(s) \in Nat /\ Len(t) \in Nat /\ Len(s \o t) = Len(s) + Len(t)
  OBVIOUS
<1>2. CASE i <= Len(s)
  BY <1>1, <1>2
<1>3. CASE i > Len(s)
  <2>1. i - Len(s) \in 1..Len(t) /\ (s \o t)[i] = t[i - Len(s)]
    BY <1>1, <1>3
  <2> QED
    BY <2>1
<1> QED
  BY <1>1, <1>2, <1>3

LEMMA TailElement ==
  ASSUME NEW s \in Seq(Numbered), s # <<>>
  PROVE  /\ Tail(s) \in Seq(Numbered) /\ Head(s) \in Numbered
         /\ Len(s) \in Nat \ {0} /\ Len(Tail(s)) = Len(s) - 1 /\ Head(s) = s[1]
         /\ \A i \in 1..Len(Tail(s)) : i + 1 \in 1..Len(s) /\ Tail(s)[i] = s[i + 1]
  OBVIOUS

LEMMA TailOrdered ==
  ASSUME NEW s \in Seq(Numbered), s # <<>>, Ordered(s)
  PROVE  Ordered(Tail(s)) /\ Below(<<Head(s)>>, Tail(s))
<1>1. Ordered(Tail(s))
  BY TailElement DEF Ordered
<1>2. ASSUME NEW i \in 1..Len(Tail(s)) PROVE s[1].id < Tail(s)[i].id
  <2>1. i + 1 \in 1..Len(s) /\ 1 \in 1..Len(s) /\ 1 < i + 1 /\ Tail(s)[i] = s[i + 1]
    BY TailElement
  <2> QED
    BY <2>1 DEF Ordered
<1>3. Below(<<Head(s)>>, Tail(s))
  BY <1>2, TailElement DEF Below
<1> QED
  BY <1>1, <1>3

LEMMA ConcatBelow ==
  ASSUME NEW s \in Seq(Numbered), NEW t \in Seq(Numbered), NEW u \in Seq(Numbered)
  PROVE  /\ Below(s, u) /\ Below(t, u) => Below(s \o t, u)
         /\ Below(u, s) /\ Below(u, t) => Below(u, s \o t)
<1> DEFINE r == s \o t
<1>1. ASSUME NEW i \in 1..Len(r)
      PROVE  \/ i \in 1..Len(s) /\ r[i] = s[i]
             \/ \E j \in 1..Len(t) : r[i] = t[j]
  BY ConcatElement
<1> HIDE DEF r
<1>2. ASSUME Below(s, u), Below(t, u) PROVE Below(r, u)
  BY <1>1, <1>2 DEF Below
<1>3. ASSUME Below(u, s), Below(u, t) PROVE Below(u, r)
  BY <1>1, <1>3 DEF Below
<1> QED
  BY <1>2, <1>3 DEF r

(* Records that are numbered on from count come after all that are there.  *)
LEMMA RenumberType ==
  ASSUME NEW whats \in Seq(Record), count \in Nat, count + Len(whats) <= MaxSubmit
  PROVE  /\ Renumber(whats) \in Seq(Numbered) /\ Len(Renumber(whats)) = Len(whats)
         /\ Ordered(Renumber(whats))
         /\ \A i \in 1..Len(whats) : /\ Renumber(whats)[i].id = count + i
                                     /\ Renumber(whats)[i].scope = 0
<1> DEFINE r == Renumber(whats)
<1>1. Len(whats) \in Nat /\ \A i \in 1..Len(whats) : whats[i] \in Record
  OBVIOUS
<1>2. \A i \in 1..Len(whats) : r[i] = [what |-> whats[i], id |-> count + i, scope |-> 0]
  BY DEF Renumber
<1>3. ASSUME NEW i \in 1..Len(whats) PROVE r[i] \in Numbered
  <2>1. count + i \in 1..MaxSubmit /\ whats[i] \in Record
    BY <1>1, QueueConstantsOK
  <2>2. [what |-> whats[i], id |-> count + i, scope |-> 0] \in Numbered
    BY <2>1 DEF Numbered, Snat
  <2> QED
    BY <1>2, <2>2
<1>4. r \in Seq(Numbered) /\ Len(r) = Len(whats)
  BY <1>1, <1>3 DEF Renumber
<1>5. ASSUME NEW i \in 1..Len(whats) PROVE r[i].id = count + i /\ r[i].scope = 0
  <2> DEFINE e == [what |-> whats[i], id |-> count + i, scope |-> 0]
  <2>1. e.id = count + i /\ e.scope = 0
    OBVIOUS
  <2>2. r[i] = e
    BY <1>2
  <2> HIDE DEF r, e
  <2> QED
    BY <2>1, <2>2
<1> HIDE DEF r
<1>6. Ordered(r)
  BY <1>1, <1>4, <1>5 DEF Ordered
<1> QED
  BY <1>4, <1>5, <1>6 DEF r

(* Submission, by a thread or by the shutdown.                             *)
LEMMA ConcatRenumber ==
  ASSUME NEW whats \in Seq(Record), count \in Nat, count + Len(whats) <= MaxSubmit,
         NEW s \in Seq(Numbered), Ordered(s), \A i \in 1..Len(s) : s[i].id <= count
  PROVE  /\ s \o Renumber(whats) \in Seq(Numbered)
         /\ Ordered(s \o Renumber(whats))
         /\ \A i \in 1..Len(s \o Renumber(whats)) :
              (s \o Renumber(whats))[i].id <= count + Len(whats)
<1> DEFINE r == Renumber(whats)
<1>1. /\ r \in Seq(Numbered) /\ Len(r) = Len(whats) /\ Ordered(r)
      /\ \A i \in 1..Len(r) : r[i].id = count + i
  BY RenumberType
<1>2. Len(whats) \in Nat /\ \A i \in 1..Len(s) : s[i].id \in Nat
  BY NumberedFields
<1> HIDE DEF r
<1>3. Below(s, r)
  BY <1>1, <1>2 DEF Below
<1>4. Ordered(s \o r) /\ s \o r \in Seq(Numbered)
  BY <1>1, <1>3, ConcatOrdered
<1>5. ASSUME NEW i \in 1..Len(s \o r) PROVE (s \o r)[i].id <= count + Len(whats)
  <2>1. CASE i \in 1..Len(s) /\ (s \o r)[i] = s[i]
    BY <1>2, <2>1
  <2>2. CASE \E j \in 1..Len(r) : (s \o r)[i] = r[j]
    BY <1>1, <1>2, <2>2
  <2> QED
    BY <1>1, <2>1, <2>2, ConcatElement
<1> QED
  BY <1>4, <1>5 DEF r

LEMMA StageOfFits ==
  ASSUME NEW s \in Seq(Numbered)
  PROVE  /\ StageOf(s) \in {"build", "commit"}
         /\ StageOf(s) = "build" /\ s # <<>> => Head(s).scope < Snat
<1>1. s # <<>> => Head(s).scope \in Nat
  BY TailElement, NumberedFields
<1> QED
  BY <1>1 DEF StageOf, Snat

LEMMA EmptyFacts ==
  ASSUME NEW s \in Seq(Numbered)
  PROVE  /\ <<>> \in Seq(Numbered) /\ Ordered(<<>>)
         /\ Below(<<>>, s) /\ Below(s, <<>>)
         /\ \A n : \A i \in 1..Len(<<>>) : <<>>[i].id <= n
  BY DEF Ordered, Below

(* Taking the head of the batch to the end of the retries.                 *)
LEMMA MoveToRetry ==
  ASSUME QueueInv, batch # <<>>
  PROVE  LET r == Append(retry, Head(batch))
             b == Tail(batch)
         IN  /\ r \in Seq(Numbered) /\ b \in Seq(Numbered)
             /\ Ordered(r) /\ Ordered(b)
             /\ Below(r, b) /\ Below(r, chain) /\ Below(b, chain) /\ Below(retry, b)
             /\ \A i \in 1..Len(r) : r[i].id <= count
             /\ \A i \in 1..Len(b) : b[i].id <= count
<1> DEFINE h == Head(batch)
           one == <<h>>
           r == Append(retry, h)
           b == Tail(batch)
<1>1. /\ retry \in Seq(Numbered) /\ batch \in Seq(Numbered) /\ chain \in Seq(Numbered)
      /\ Ordered(retry) /\ Ordered(batch)
      /\ Below(retry, batch) /\ Below(retry, chain) /\ Below(batch, chain)
      /\ \A i \in 1..Len(retry) : retry[i].id <= count
      /\ \A i \in 1..Len(batch) : batch[i].id <= count
  BY DEF QueueInv, QueueTypeOK
<1>2. /\ b \in Seq(Numbered) /\ h \in Numbered /\ h = batch[1] /\ 1 \in 1..Len(batch)
      /\ \A i \in 1..Len(b) : i + 1 \in 1..Len(batch) /\ b[i] = batch[i + 1]
  BY <1>1, TailElement
<1>3. Ordered(b) /\ Below(one, b)
  BY <1>1, TailOrdered
<1>4. /\ one \in Seq(Numbered) /\ Len(one) = 1 /\ one[1] = h /\ r = retry \o one
  BY <1>1, <1>2
<1> HIDE DEF b, h, one, r
<1>5. Ordered(one) /\ Below(retry, one) /\ Below(one, chain)
  BY <1>1, <1>2, <1>4 DEF Ordered, Below
<1>6. Below(retry, b) /\ Below(b, chain)
  BY <1>1, <1>2 DEF Below
<1>7. Ordered(r) /\ Below(r, b) /\ Below(r, chain) /\ r \in Seq(Numbered)
  BY <1>1, <1>2, <1>3, <1>4, <1>5, <1>6, ConcatOrdered, ConcatBelow
<1>8. \A i \in 1..Len(b) : b[i].id <= count
  BY <1>1, <1>2
<1>9. ASSUME NEW i \in 1..Len(r) PROVE r[i].id <= count
  <2>1. \/ i \in 1..Len(retry) /\ r[i] = retry[i]
        \/ \E j \in 1..Len(one) : r[i] = one[j]
    BY <1>1, <1>4, ConcatElement
  <2> QED
    BY <1>1, <1>2, <1>4, <2>1
<1> QED
  BY <1>2, <1>3, <1>6, <1>7, <1>8, <1>9 DEF b, h, r

(* A handler's contribution to the record in work leaves the numbers alone. *)
LEMMA Rescope ==
  ASSUME NEW s \in Seq(Numbered), s # <<>>, NEW n \in 0..Snat
  PROVE  LET w == [s EXCEPT ![1].scope = n]
         IN  /\ w \in Seq(Numbered) /\ Len(w) = Len(s) /\ w # <<>>
             /\ Head(w).scope = n
             /\ \A i \in 1..Len(s) : w[i].id = s[i].id
<1> DEFINE w == [s EXCEPT ![1].scope = n]
<1>1. /\ Len(s) \in Nat \ {0} /\ 1 \in 1..Len(s) /\ DOMAIN s = 1..Len(s)
      /\ \A i \in 1..Len(s) : s[i] \in Numbered
  OBVIOUS
<1>2. \A i \in 1..Len(s) : w[i] = IF i = 1 THEN [s[1] EXCEPT !.scope = n] ELSE s[i]
  BY <1>1
<1>3. [s[1] EXCEPT !.scope = n] \in Numbered /\ [s[1] EXCEPT !.scope = n].id = s[1].id
      /\ [s[1] EXCEPT !.scope = n].scope = n
  BY <1>1 DEF Numbered
<1>4. \A i \in 1..Len(s) : w[i] \in Numbered /\ w[i].id = s[i].id
  BY <1>1, <1>2, <1>3
<1>5. w \in Seq(Numbered) /\ Len(w) = Len(s)
  BY <1>1, <1>4
<1>6. w # <<>> /\ Head(w).scope = n
  <2>1. w[1].scope = n
    BY <1>1, <1>2, <1>3
  <2> HIDE DEF w
  <2>2. w # <<>> /\ Head(w) = w[1]
    BY <1>1, <1>5
  <2> QED
    BY <2>1, <2>2
<1> QED
  BY <1>4, <1>5, <1>6

(* The invariant holds at the start ...                                    *)
LEMMA QueueInvInit == QueueInit => QueueInv
<1> SUFFICES ASSUME QueueInit PROVE QueueInv
  OBVIOUS
<1>1. QueueTypeOK
  BY QueueConstantsOK DEF QueueInit, QueueTypeOK
<1> QED
  BY <1>1 DEF QueueInit, QueueInv, Ordered, Below

(* ... and each step keeps it: submission,                                 *)
LEMMA SubmitKeeps ==
  ASSUME QueueInv, NEW what \in Record, Submit(what)
  PROVE  QueueInv'
<1>1. /\ <<what>> \in Seq(Record) /\ Len(<<what>>) = 1
      /\ count \in Nat /\ count + 1 <= MaxSubmit /\ count + 1 \in 0..MaxSubmit
  BY QueueConstantsOK DEF Submit, QueueInv, QueueTypeOK
<1>2. /\ retry \in Seq(Numbered) /\ batch \in Seq(Numbered) /\ chain \in Seq(Numbered)
      /\ Ordered(chain) /\ \A s \in {retry, batch, chain} : \A i \in 1..Len(s) : s[i].id <= count
  BY DEF QueueInv, QueueTypeOK
<1> DEFINE r == Renumber(<<what>>)
<1>3. /\ chain \o r \in Seq(Numbered) /\ Ordered(chain \o r)
      /\ \A i \in 1..Len(chain \o r) : (chain \o r)[i].id <= count + 1
  BY <1>1, <1>2, ConcatRenumber
<1>4. r \in Seq(Numbered) /\ \A i \in 1..Len(r) : r[i].id = count + i
  BY <1>1, RenumberType
<1>5. \A s \in {retry, batch} : \A i \in 1..Len(s) : s[i].id \in Nat /\ s[i].id <= count
  BY <1>2, NumberedFields
<1>6. chain' = chain \o r /\ count' = count + 1
  BY DEF Submit
<1> HIDE DEF r
<1>7. Below(retry, r) /\ Below(batch, r)
  BY <1>1, <1>4, <1>5 DEF Below
<1>8. Below(retry, chain \o r) /\ Below(batch, chain \o r)
  BY <1>2, <1>4, <1>7, ConcatBelow DEF QueueInv
<1>9. \A s \in {retry, batch, chain'} : \A i \in 1..Len(s) : s[i].id <= count'
  <2>1. \A s \in {retry, batch} : \A i \in 1..Len(s) : s[i].id <= count + 1
    BY <1>1, <1>5
  <2> QED
    BY <1>3, <1>6, <2>1
<1> QED
  BY <1>1, <1>3, <1>6, <1>8, <1>9 DEF Submit, QueueInv, QueueTypeOK

(* the pass taking the chain,                                              *)
LEMMA BeginPassKeeps ==
  ASSUME QueueInv, BeginPass
  PROVE  QueueInv'
<1>1. /\ retry \in Seq(Numbered) /\ chain \in Seq(Numbered)
      /\ retry' = retry /\ batch' = chain /\ chain' = <<>> /\ stage' = StageOf(chain)
      /\ count' = count /\ written' = written /\ lost' = lost /\ mode' = "pass"
  BY DEF QueueInv, QueueTypeOK, BeginPass
<1>2. /\ <<>> \in Seq(Numbered) /\ Ordered(<<>>) /\ Below(retry, <<>>) /\ Below(chain, <<>>)
      /\ \A i \in 1..Len(<<>>) : <<>>[i].id <= count
  BY <1>1, EmptyFacts
<1>3. QueueTypeOK'
  BY <1>1, <1>2, StageOfFits DEF QueueInv, QueueTypeOK
<1> QED
  BY <1>1, <1>2, <1>3, StageOfFits DEF QueueInv

(* a scope handler,                                                        *)
LEMMA BuildScopeKeeps ==
  ASSUME QueueInv, NEW found \in BOOLEAN, BuildScope(found)
  PROVE  QueueInv'
<1>1. /\ batch # <<>> /\ stage = "build" /\ Head(batch).scope < Snat
      /\ chain' = chain /\ written' = written /\ lost' = lost /\ mode' = mode /\ count' = count
  BY DEF QueueInv, BuildScope
<1>2. /\ retry \in Seq(Numbered) /\ batch \in Seq(Numbered) /\ chain \in Seq(Numbered)
      /\ Head(batch) = batch[1] /\ Head(batch).scope \in Nat
  BY <1>1, TailElement, NumberedFields DEF QueueInv, QueueTypeOK
<1>3. CASE found
  <2> DEFINE n == Head(batch).scope + 1
             w == [batch EXCEPT ![1].scope = n]
  <2>1. n \in 0..Snat
    BY <1>1, <1>2 DEF Snat
  <2>2. batch' = w
    BY <1>2, <1>3 DEF BuildScope
  <2>3. stage' = (IF n = Snat THEN "commit" ELSE "build") /\ retry' = retry
    BY <1>3 DEF BuildScope
  <2>4. /\ w \in Seq(Numbered) /\ Len(w) = Len(batch) /\ Head(w).scope = n
        /\ \A i \in 1..Len(batch) : w[i].id = batch[i].id
    BY <1>1, <1>2, <2>1, Rescope
  <2> HIDE DEF n, w
  <2>5. Ordered(w) /\ Below(retry, w) /\ Below(w, chain) /\ \A i \in 1..Len(w) : w[i].id <= count
    BY <2>4 DEF QueueInv, Ordered, Below
  <2>6. stage' = "build" => Head(w).scope < Snat
    BY <2>1, <2>3, <2>4 DEF Snat
  <2>7. QueueTypeOK'
    BY <1>1, <2>2, <2>3, <2>4 DEF QueueInv, QueueTypeOK
  <2> QED
    BY <1>1, <2>2, <2>3, <2>5, <2>6, <2>7 DEF QueueInv
<1>4. CASE ~found
  <2>1. /\ retry' = Append(retry, Head(batch)) /\ batch' = Tail(batch)
        /\ stage' = StageOf(Tail(batch))
    BY <1>4 DEF BuildScope, NextEntry
  <2>2. QueueTypeOK'
    BY <1>1, <2>1, MoveToRetry, StageOfFits DEF QueueInv, QueueTypeOK
  <2> QED
    BY <1>1, <2>1, <2>2, MoveToRetry, StageOfFits DEF QueueInv
<1> QED
  BY <1>3, <1>4

(* the end of a record, written or not,                                    *)
LEMMA WriteKeeps ==
  ASSUME QueueInv, Write \/ WriteFails
  PROVE  QueueInv'
<1>1. /\ batch # <<>> /\ batch' = Tail(batch) /\ stage' = StageOf(Tail(batch))
      /\ chain' = chain /\ mode' = mode /\ count' = count
      /\ retry' \in {retry, Append(retry, Head(batch))}
  BY DEF Write, WriteFails, NextEntry
<1>2. written' \in Seq(Numbered) /\ lost' \subseteq Numbered
  <2>1. written \in Seq(Numbered) /\ lost \subseteq Numbered /\ Head(batch) \in Numbered
    BY <1>1, TailElement DEF QueueInv, QueueTypeOK
  <2>2. CASE Write
    BY <2>1, <2>2 DEF Write
  <2>3. CASE WriteFails
    BY <2>1, <2>3 DEF WriteFails
  <2> QED
    BY <2>2, <2>3
<1>3. QueueTypeOK'
  BY <1>1, <1>2, MoveToRetry, StageOfFits DEF QueueInv, QueueTypeOK
<1>4. CASE retry' = retry
  BY <1>1, <1>3, <1>4, MoveToRetry, StageOfFits DEF QueueInv
<1>5. CASE retry' = Append(retry, Head(batch))
  BY <1>1, <1>3, <1>5, MoveToRetry, StageOfFits DEF QueueInv
<1> QED
  BY <1>1, <1>4, <1>5

(* the end of the pass, that puts the retries before the chain,            *)
LEMMA EndPassKeeps ==
  ASSUME QueueInv, EndPass
  PROVE  QueueInv'
<1>1. /\ batch = <<>> /\ batch' = <<>> /\ retry' = <<>> /\ chain' = retry \o chain
      /\ stage' = stage /\ written' = written /\ lost' = lost /\ count' = count
      /\ mode' \in {"idle", "closed"}
  BY DEF EndPass
<1>2. /\ retry \in Seq(Numbered) /\ chain \in Seq(Numbered)
      /\ Ordered(retry) /\ Ordered(chain) /\ Below(retry, chain)
      /\ \A s \in {retry, chain} : \A i \in 1..Len(s) : s[i].id <= count
  BY DEF QueueInv, QueueTypeOK
<1>3. retry \o chain \in Seq(Numbered) /\ Ordered(retry \o chain)
  BY <1>2, ConcatOrdered
<1>4. \A i \in 1..Len(retry \o chain) : (retry \o chain)[i].id <= count
  BY <1>2, ConcatElement
<1>5. /\ <<>> \in Seq(Numbered) /\ Ordered(<<>>)
      /\ Below(<<>>, retry \o chain) /\ Below(<<>>, <<>>)
      /\ \A i \in 1..Len(<<>>) : <<>>[i].id <= count
  BY <1>3, EmptyFacts
<1>6. QueueTypeOK'
  BY <1>1, <1>3, <1>5 DEF QueueInv, QueueTypeOK
<1> QED
  BY <1>1, <1>3, <1>4, <1>5, <1>6 DEF QueueInv

(* the shutdown,                                                           *)
LEMMA ShutdownKeeps ==
  ASSUME QueueInv, NEW stops \in Stops, Shutdown(stops)
  PROVE  QueueInv'
<1> DEFINE e == chain \o Renumber(stops)
<1>1. /\ stops \in Seq(Record) /\ Len(stops) \in Nat /\ count \in Nat
      /\ count + Len(stops) <= MaxSubmit /\ count' = count + Len(stops)
      /\ count' \in 0..MaxSubmit
  BY QueueConstantsOK DEF Shutdown, QueueInv, QueueTypeOK
<1>2. /\ retry' = <<>> /\ chain' = <<>> /\ batch' = e /\ stage' = StageOf(e)
      /\ written' = written /\ mode' = "final" /\ lost' = lost \cup Entries(retry \o batch)
  BY DEF Shutdown
<1>3. /\ retry \in Seq(Numbered) /\ batch \in Seq(Numbered) /\ chain \in Seq(Numbered)
      /\ Ordered(chain) /\ \A i \in 1..Len(chain) : chain[i].id <= count
  BY DEF QueueInv, QueueTypeOK
<1>4. /\ e \in Seq(Numbered) /\ Ordered(e)
      /\ \A i \in 1..Len(e) : e[i].id <= count + Len(stops)
  BY <1>1, <1>3, ConcatRenumber
<1>5. Entries(retry \o batch) \subseteq Numbered
  <2>1. retry \o batch \in Seq(Numbered)
    BY <1>3
  <2> QED
    BY <2>1 DEF Entries
<1> HIDE DEF e
<1>6. /\ <<>> \in Seq(Numbered) /\ Ordered(<<>>)
      /\ Below(<<>>, e) /\ Below(e, <<>>) /\ Below(<<>>, <<>>)
      /\ \A i \in 1..Len(<<>>) : <<>>[i].id <= count'
  BY <1>4, EmptyFacts
<1>7. StageOf(e) \in {"build", "commit"}
  BY <1>4, StageOfFits
<1>8. QueueTypeOK'
  BY <1>1, <1>2, <1>4, <1>5, <1>6, <1>7 DEF QueueInv, QueueTypeOK
<1>9. StageOf(e) = "build" /\ e # <<>> => Head(e).scope < Snat
  BY <1>4, StageOfFits
<1> QED
  BY <1>1, <1>2, <1>4, <1>6, <1>8, <1>9 DEF QueueInv

(* and the last pass.                                                      *)
LEMMA BuildFinalKeeps ==
  ASSUME QueueInv, BuildFinal
  PROVE  QueueInv'
<1> DEFINE w == [batch EXCEPT ![1].scope = Event]
<1>1. /\ batch # <<>> /\ batch' = w /\ mode' = "crashed" /\ chain' = chain /\ retry' = retry
      /\ stage' = stage /\ written' = written /\ lost' = lost /\ count' = count
  BY DEF BuildFinal
<1>2. batch \in Seq(Numbered) /\ Event \in 0..Snat
  BY DEF QueueInv, QueueTypeOK, Event, Snat
<1>3. /\ w \in Seq(Numbered) /\ Len(w) = Len(batch) /\ Head(w).scope = Event
      /\ \A i \in 1..Len(batch) : w[i].id = batch[i].id
  BY <1>1, <1>2, Rescope
<1> HIDE DEF w
<1>4. Ordered(w) /\ Below(retry, w) /\ Below(w, chain) /\ \A i \in 1..Len(w) : w[i].id <= count
  BY <1>3 DEF QueueInv, Ordered, Below
<1>5. Head(w).scope < Snat
  BY <1>3 DEF Event, Snat
<1>6. QueueTypeOK'
  BY <1>1, <1>3 DEF QueueInv, QueueTypeOK
<1> QED
  BY <1>1, <1>4, <1>5, <1>6 DEF QueueInv

LEMMA QueueStep == ASSUME QueueInv, [QueueNext]_queue PROVE QueueInv'
<1>1. CASE \E what \in Record : Submit(what)
  BY <1>1, SubmitKeeps
<1>2. CASE BeginPass
  BY <1>2, BeginPassKeeps
<1>3. CASE EndPass
  BY <1>3, EndPassKeeps
<1>4. CASE Write \/ WriteFails
  BY <1>4, WriteKeeps
<1>5. CASE BuildFinal
  BY <1>5, BuildFinalKeeps
<1>6. CASE \E found \in BOOLEAN : BuildScope(found)
  BY <1>6, BuildScopeKeeps
<1>7. CASE \E stops \in Stops : Shutdown(stops)
  BY <1>7, ShutdownKeeps
<1>8. CASE UNCHANGED queue
  BY <1>8 DEF queue, QueueInv, QueueTypeOK, Ordered, Below
<1> QED
  BY <1>1, <1>2, <1>3, <1>4, <1>5, <1>6, <1>7, <1>8 DEF QueueNext, PassStep

(* The queue keeps its parts in order and following each other, whatever   *)
(* is submitted and however the passes go (acct.c, sw_acct_commit).        *)
THEOREM QueueInvariant == QueueSpec => []QueueInv
<1>1. QueueInit => QueueInv
  BY QueueInvInit
<1>2. QueueInv /\ [QueueNext]_queue => QueueInv'
  BY QueueStep
<1> QED
  BY <1>1, <1>2, PTL DEF QueueSpec

(* What QueueInv is for.                                                   *)
LEMMA InvOrders == ASSUME QueueInv PROVE PendingOrdered
<1>1. retry \in Seq(Numbered) /\ batch \in Seq(Numbered) /\ chain \in Seq(Numbered)
  BY DEF QueueInv, QueueTypeOK
<1>2. Ordered(retry \o batch) /\ retry \o batch \in Seq(Numbered)
  BY <1>1, ConcatOrdered DEF QueueInv
<1>3. Below(retry \o batch, chain)
  BY <1>1, ConcatBelow DEF QueueInv
<1>4. Ordered(retry \o batch \o chain)
  BY <1>1, <1>2, <1>3, ConcatOrdered DEF QueueInv
<1> QED
  BY <1>4 DEF PendingOrdered, Pending

(* What is still to be written stays in the order of submission.           *)
THEOREM PendingStaysOrdered == QueueSpec => []PendingOrdered
<1>1. QueueInv => PendingOrdered
  BY InvOrders
<1> QED
  BY <1>1, QueueInvariant, PTL
-----------------------------------------------------------------------------
(* RecordsConserved.  It is inductive together with QueueInv once a record *)
(* that was given up is known not to wait any more: then each of them adds *)
(* one to the number of those given up.                                    *)

GivenUpApart == IsFiniteSet(lost) /\ \A e \in lost : e.id \notin Ids(Pending)

(* Between two passes no record is in work.                                *)
Between == mode = "idle" => batch = <<>>

ConservedInv == QueueInv /\ RecordsConserved /\ GivenUpApart /\ Between

LEMMA IdsByPlace ==
  ASSUME NEW s \in Seq(Numbered)
  PROVE  \A n : n \in Ids(s) <=> \E i \in 1..Len(s) : n = s[i].id
  BY DEF Ids, Entries

LEMMA IdsOfConcat ==
  ASSUME NEW s \in Seq(Numbered), NEW t \in Seq(Numbered)
  PROVE  Ids(s \o t) = Ids(s) \cup Ids(t) /\ Len(s \o t) = Len(s) + Len(t)
<1>1. /\ s \o t \in Seq(Numbered) /\ Len(s) \in Nat /\ Len(t) \in Nat
      /\ Len(s \o t) = Len(s) + Len(t)
  OBVIOUS
<1>2. ASSUME NEW n \in Ids(s \o t) PROVE n \in Ids(s) \cup Ids(t)
  <2> DEFINE st == s \o t
  <2>1. st \in Seq(Numbered) /\ n \in Ids(st)
    BY <1>1, <1>2
  <2> HIDE DEF st
  <2>2. PICK i \in 1..Len(st) : n = st[i].id
    BY <2>1, IdsByPlace
  <2>3. \/ i \in 1..Len(s) /\ st[i] = s[i]
        \/ \E j \in 1..Len(t) : st[i] = t[j]
    BY ConcatElement DEF st
  <2> QED
    BY <2>2, <2>3, IdsByPlace
<1>3. ASSUME NEW i \in 1..Len(s) PROVE s[i].id \in Ids(s \o t)
  <2>1. i \in 1..Len(s \o t) /\ (s \o t)[i] = s[i]
    BY <1>1
  <2> QED
    BY <1>1, <2>1, IdsByPlace
<1>4. ASSUME NEW i \in 1..Len(t) PROVE t[i].id \in Ids(s \o t)
  <2>1. Len(s) + i \in 1..Len(s \o t) /\ (s \o t)[Len(s) + i] = t[i]
    BY <1>1
  <2> QED
    BY <1>1, <2>1, IdsByPlace
<1> QED
  BY <1>1, <1>2, <1>3, <1>4, IdsByPlace

LEMMA IdsOfOne ==
  ASSUME NEW e \in Numbered
  PROVE  <<e>> \in Seq(Numbered) /\ Ids(<<e>>) = {e.id} /\ Len(<<e>>) = 1
<1>1. <<e>> \in Seq(Numbered) /\ Len(<<e>>) = 1 /\ <<e>>[1] = e
  OBVIOUS
<1>2. \A n : n \in Ids(<<e>>) <=> n = e.id
  <2> DEFINE s == <<e>>
  <2>1. s \in Seq(Numbered) /\ 1..Len(s) = {1} /\ s[1] = e
    BY <1>1
  <2> HIDE DEF s
  <2>2. \A n : n \in Ids(s) <=> \E i \in 1..Len(s) : n = s[i].id
    BY <2>1, IdsByPlace
  <2>3. \A n : n \in Ids(s) <=> n = e.id
    BY <2>1, <2>2
  <2> QED
    BY <2>3 DEF s
<1> QED
  BY <1>1, <1>2

LEMMA IdsOfAppend ==
  ASSUME NEW s \in Seq(Numbered), NEW e \in Numbered
  PROVE  /\ Append(s, e) \in Seq(Numbered) /\ Len(Append(s, e)) = Len(s) + 1
         /\ Ids(Append(s, e)) = Ids(s) \cup {e.id}
<1>1. Append(s, e) = s \o <<e>> /\ Append(s, e) \in Seq(Numbered)
  OBVIOUS
<1> DEFINE o == <<e>>
<1>2. o \in Seq(Numbered) /\ Ids(o) = {e.id} /\ Len(o) = 1
  BY IdsOfOne
<1> HIDE DEF o
<1>3. Ids(s \o o) = Ids(s) \cup {e.id} /\ Len(s \o o) = Len(s) + 1
  BY <1>2, IdsOfConcat
<1> QED
  BY <1>1, <1>3 DEF o

LEMMA IdsOfTail ==
  ASSUME NEW s \in Seq(Numbered), s # <<>>
  PROVE  Ids(s) = {Head(s).id} \cup Ids(Tail(s))
<1>1. /\ Tail(s) \in Seq(Numbered) /\ Len(s) \in Nat \ {0} /\ Len(Tail(s)) = Len(s) - 1
      /\ Head(s) = s[1] /\ 1 \in 1..Len(s)
      /\ \A i \in 1..Len(Tail(s)) : i + 1 \in 1..Len(s) /\ Tail(s)[i] = s[i + 1]
  BY TailElement
<1>2. ASSUME NEW i \in 1..Len(s) PROVE s[i].id \in {Head(s).id} \cup Ids(Tail(s))
  <2>1. CASE i = 1
    BY <1>1, <2>1
  <2>2. CASE i # 1
    <3>1. i - 1 \in 1..Len(Tail(s)) /\ Tail(s)[i - 1] = s[(i - 1) + 1] /\ (i - 1) + 1 = i
      BY <1>1, <2>2
    <3>2. s[i].id \in Ids(Tail(s))
      BY <1>1, <3>1, IdsByPlace
    <3> QED
      BY <3>2
  <2> QED
    BY <2>1, <2>2
<1>3. ASSUME NEW n \in {Head(s).id} \cup Ids(Tail(s)) PROVE n \in Ids(s)
  <2>1. CASE n = Head(s).id
    BY <1>1, <2>1, IdsByPlace
  <2>2. CASE n \in Ids(Tail(s))
    <3>1. PICK i \in 1..Len(Tail(s)) : n = Tail(s)[i].id
      BY <1>1, <2>2, IdsByPlace
    <3>2. i + 1 \in 1..Len(s) /\ n = s[i + 1].id
      BY <1>1, <3>1
    <3> QED
      BY <3>2, IdsByPlace
  <2> QED
    BY <2>1, <2>2
<1> QED
  BY <1>2, <1>3, IdsByPlace

LEMMA IdsOfSame ==
  ASSUME NEW s \in Seq(Numbered), NEW w \in Seq(Numbered), Len(w) = Len(s),
         \A i \in 1..Len(s) : w[i].id = s[i].id
  PROVE  Ids(w) = Ids(s)
<1>1. \A n : n \in Ids(w) <=> n \in Ids(s)
  BY IdsByPlace
<1> QED
  BY <1>1

LEMMA IdsOfRenumber ==
  ASSUME NEW whats \in Seq(Record), count \in Nat, count + Len(whats) <= MaxSubmit
  PROVE  Ids(Renumber(whats)) = (count + 1) .. (count + Len(whats))
<1>1. /\ Renumber(whats) \in Seq(Numbered) /\ Len(Renumber(whats)) = Len(whats)
      /\ Len(whats) \in Nat
      /\ \A i \in 1..Len(whats) : Renumber(whats)[i].id = count + i
  BY RenumberType
<1>2. \A n : n \in Ids(Renumber(whats)) <=> \E i \in 1..Len(whats) : n = count + i
  BY <1>1, IdsByPlace
<1>3. ASSUME NEW n \in (count + 1) .. (count + Len(whats))
      PROVE  \E i \in 1..Len(whats) : n = count + i
  <2>1. n - count \in 1..Len(whats) /\ n = count + (n - count)
    BY <1>1
  <2> QED
    BY <2>1
<1>4. \A i \in 1..Len(whats) : count + i \in (count + 1) .. (count + Len(whats))
  BY <1>1
<1>5. \A n : n \in Ids(Renumber(whats)) <=> n \in (count + 1) .. (count + Len(whats))
  BY <1>2, <1>3, <1>4
<1> QED
  BY <1>5

(* What lies below in a sequence or in two is another record.              *)
LEMMA BelowApart ==
  ASSUME NEW s \in Seq(Numbered), NEW t \in Seq(Numbered), Below(s, t)
  PROVE  Ids(s) \cap Ids(t) = {}
<1>1. \A i \in 1..Len(s), j \in 1..Len(t) : s[i].id # t[j].id
  <2>1. \A i \in 1..Len(s), j \in 1..Len(t) : s[i].id \in Nat /\ t[j].id \in Nat
    BY NumberedFields
  <2> QED
    BY <2>1 DEF Below
<1> QED
  BY <1>1, IdsByPlace

(* A sequence in order has as many entries as places.                      *)
LEMMA EntriesCounted ==
  ASSUME NEW s \in Seq(Numbered), Ordered(s)
  PROVE  IsFiniteSet(Entries(s)) /\ Cardinality(Entries(s)) = Len(s)
<1> DEFINE f == [i \in 1..Len(s) |-> s[i]]
<1>1. Len(s) \in Nat /\ \A i \in 1..Len(s) : s[i].id \in Nat
  BY NumberedFields
<1>2. ASSUME NEW i \in 1..Len(s), NEW j \in 1..Len(s), s[i] = s[j] PROVE i = j
  <2>1. ~(i < j) /\ ~(j < i)
    BY <1>1, <1>2 DEF Ordered
  <2> QED
    BY <1>1, <2>1
<1>3. f \in Bijection(1..Len(s), Entries(s))
  BY <1>2 DEF Bijection, Injection, Surjection, IsInjective, Entries
<1>4. ExistsBijection(1..Len(s), Entries(s))
  BY <1>3 DEF ExistsBijection
<1>5. IsFiniteSet(1..Len(s)) /\ Cardinality(1..Len(s)) = Len(s)
  <2>1. 1 \in Int /\ Len(s) \in Int
    BY <1>1
  <2>2. IsFiniteSet(1..Len(s))
        /\ Cardinality(1..Len(s)) = IF 1 > Len(s) THEN 0 ELSE Len(s) - 1 + 1
    BY <2>1, FS_Interval
  <2> QED
    BY <1>1, <2>2
<1> QED
  BY <1>4, <1>5, FS_Bijection

LEMMA PartsInARow ==
  ASSUME NEW r \in Seq(Numbered), NEW b \in Seq(Numbered), NEW c \in Seq(Numbered)
  PROVE  /\ Ids(r \o b \o c) = Ids(r) \cup Ids(b) \cup Ids(c)
         /\ Len(r \o b \o c) = Len(r) + Len(b) + Len(c)
         /\ Len(r) \in Nat /\ Len(b) \in Nat /\ Len(c) \in Nat
<1>1. /\ r \o b \in Seq(Numbered) /\ Len(r) \in Nat /\ Len(b) \in Nat /\ Len(c) \in Nat
      /\ r \o b \o c = (r \o b) \o c
  OBVIOUS
<1> DEFINE f == r \o b
<1>2. Ids(f) = Ids(r) \cup Ids(b) /\ Len(f) = Len(r) + Len(b) /\ f \in Seq(Numbered)
  BY <1>1, IdsOfConcat
<1> HIDE DEF f
<1>3. Ids(f \o c) = Ids(f) \cup Ids(c) /\ Len(f \o c) = Len(f) + Len(c)
  BY <1>2, IdsOfConcat
<1> QED
  BY <1>1, <1>2, <1>3 DEF f

(* What waits, and its parts, before a step and after it.                  *)
LEMMA PendingParts ==
  ASSUME QueueTypeOK
  PROVE  /\ Ids(Pending) = Ids(retry) \cup Ids(batch) \cup Ids(chain)
         /\ Len(Pending) = Len(retry) + Len(batch) + Len(chain)
         /\ {retry, batch, chain, written} \subseteq Seq(Numbered)
         /\ Len(retry) \in Nat /\ Len(batch) \in Nat /\ Len(chain) \in Nat /\ Len(written) \in Nat
<1>1. retry \in Seq(Numbered) /\ batch \in Seq(Numbered) /\ chain \in Seq(Numbered)
      /\ written \in Seq(Numbered)
  BY DEF QueueTypeOK
<1>2. Len(written) \in Nat
  BY <1>1
<1> QED
  BY <1>1, <1>2, PartsInARow DEF Pending

LEMMA PendingPartsAfter ==
  ASSUME QueueTypeOK'
  PROVE  /\ Ids(Pending') = Ids(retry') \cup Ids(batch') \cup Ids(chain')
         /\ Len(Pending') = Len(retry') + Len(batch') + Len(chain')
         /\ {retry', batch', chain', written'} \subseteq Seq(Numbered)
         /\ Len(retry') \in Nat /\ Len(batch') \in Nat /\ Len(chain') \in Nat
<1>1. retry' \in Seq(Numbered) /\ batch' \in Seq(Numbered) /\ chain' \in Seq(Numbered)
      /\ written' \in Seq(Numbered)
  BY DEF QueueTypeOK
<1> QED
  BY <1>1, PartsInARow DEF Pending

(* A step that moves no record out of what waits.                          *)
LEMMA Rearranged ==
  ASSUME ConservedInv, QueueInv', Between', UNCHANGED <<written, lost, count>>,
         Ids(Pending') = Ids(Pending), Len(Pending') = Len(Pending)
  PROVE  ConservedInv'
  BY DEF ConservedInv, RecordsConserved, GivenUpApart

LEMMA SubmitConserves ==
  ASSUME ConservedInv, QueueInv', NEW what \in Record, Submit(what)
  PROVE  ConservedInv'
<1>1. /\ <<what>> \in Seq(Record) /\ Len(<<what>>) = 1
      /\ count \in Nat /\ count + 1 <= MaxSubmit /\ QueueTypeOK /\ QueueTypeOK'
  BY QueueConstantsOK DEF Submit, ConservedInv, QueueInv, QueueTypeOK
<1> DEFINE r == Renumber(<<what>>)
<1>2. r \in Seq(Numbered) /\ Len(r) = 1
  BY <1>1, RenumberType
<1>3. Ids(r) = {count + 1}
  <2>1. Ids(r) = (count + 1) .. (count + 1)
    BY <1>1, IdsOfRenumber
  <2> QED
    BY <1>1, <2>1
<1>4. chain' = chain \o r /\ count' = count + 1 /\ UNCHANGED <<batch, retry, written, lost>>
  BY DEF Submit
<1> HIDE DEF r
<1>5. Ids(chain') = Ids(chain) \cup {count + 1} /\ Len(chain') = Len(chain) + 1
  <2>1. chain \in Seq(Numbered)
    BY <1>1, PendingParts
  <2>2. Ids(chain \o r) = Ids(chain) \cup {count + 1} /\ Len(chain \o r) = Len(chain) + 1
    BY <1>2, <1>3, <2>1, IdsOfConcat
  <2> QED
    BY <1>4, <2>2
<1>6. Ids(Pending') = Ids(Pending) \cup {count + 1} /\ Len(Pending') = Len(Pending) + 1
  BY <1>1, <1>4, <1>5, PendingParts, PendingPartsAfter
<1>7. 1..(count + 1) = (1..count) \cup {count + 1}
  BY <1>1
<1>8. RecordsConserved'
  <2>1. Cardinality(lost) \in Nat /\ Len(Pending) \in Nat /\ Len(written) \in Nat
    BY <1>1, PendingParts, FS_CardinalityType DEF ConservedInv, GivenUpApart
  <2>2. Ids(Pending') \cup Ids(written) \cup {e.id : e \in lost} = 1..(count + 1)
    BY <1>6, <1>7 DEF ConservedInv, RecordsConserved
  <2>3. Len(Pending') + Len(written) + Cardinality(lost) = count + 1
    BY <1>1, <1>6, <2>1 DEF ConservedInv, RecordsConserved
  <2> QED
    BY <1>4, <2>2, <2>3 DEF RecordsConserved
<1>9. GivenUpApart'
  <2>1. \A e \in lost : e.id \in 1..count
    BY DEF ConservedInv, RecordsConserved
  <2>2. count + 1 \notin 1..count
    BY <1>1
  <2> QED
    BY <1>4, <1>6, <2>1, <2>2 DEF ConservedInv, GivenUpApart
<1>10. Between'
  BY <1>4 DEF ConservedInv, Between, Submit
<1> QED
  BY <1>8, <1>9, <1>10 DEF ConservedInv

LEMMA MoveConserves ==
  ASSUME ConservedInv, QueueInv', \/ BeginPass \/ EndPass \/ BuildFinal
                                  \/ \E found \in BOOLEAN : BuildScope(found)
                                  \/ WriteFails /\ mode = "pass"
  PROVE  ConservedInv'
<1>1. QueueTypeOK /\ QueueTypeOK' /\ UNCHANGED <<written, lost, count>>
  BY DEF ConservedInv, QueueInv, BeginPass, EndPass, BuildFinal, BuildScope, WriteFails
<1>2. retry \in Seq(Numbered) /\ batch \in Seq(Numbered) /\ chain \in Seq(Numbered)
  BY <1>1, PendingParts, PendingPartsAfter
<1>3. Ids(<<>>) = {} /\ Len(<<>>) = 0
  BY DEF Ids, Entries
<1>4. Ids(Pending') = Ids(Pending) /\ Len(Pending') = Len(Pending)
  <2>1. CASE BeginPass
    <3>1. retry' = retry /\ batch' = chain /\ chain' = <<>> /\ batch = <<>>
      BY <2>1 DEF BeginPass, ConservedInv, Between
    <3>2. /\ Ids(retry') = Ids(retry) /\ Ids(batch') = Ids(chain)
          /\ Ids(chain') = {} /\ Ids(batch) = {}
      BY <1>3, <3>1
    <3>3. /\ Len(retry') = Len(retry) /\ Len(batch') = Len(chain)
          /\ Len(chain') = 0 /\ Len(batch) = 0
      BY <1>3, <3>1
    <3>4. Ids(Pending') = Ids(Pending)
      BY <1>1, <3>2, PendingParts, PendingPartsAfter
    <3>5. Len(Pending') = Len(Pending)
      BY <1>1, <3>3, PendingParts, PendingPartsAfter
    <3> QED
      BY <3>4, <3>5
  <2>2. CASE EndPass
    <3>1. batch = <<>> /\ batch' = <<>> /\ retry' = <<>> /\ chain' = retry \o chain
      BY <2>2 DEF EndPass
    <3>2. Ids(chain') = Ids(retry) \cup Ids(chain) /\ Len(chain') = Len(retry) + Len(chain)
      BY <1>2, <3>1, IdsOfConcat
    <3>3. /\ Ids(retry') = {} /\ Ids(batch') = {} /\ Ids(batch) = {}
          /\ Len(retry') = 0 /\ Len(batch') = 0 /\ Len(batch) = 0
      BY <1>3, <3>1
    <3>4. Ids(Pending') = Ids(Pending)
      BY <1>1, <3>2, <3>3, PendingParts, PendingPartsAfter
    <3>5. Len(Pending') = Len(Pending)
      BY <1>1, <3>2, <3>3, PendingParts, PendingPartsAfter
    <3> QED
      BY <3>4, <3>5
  <2>3. ASSUME NEW n \in 0..Snat, batch # <<>>, batch' = [batch EXCEPT ![1].scope = n],
               retry' = retry, chain' = chain
        PROVE  Ids(Pending') = Ids(Pending) /\ Len(Pending') = Len(Pending)
    <3>1. /\ batch' \in Seq(Numbered) /\ Len(batch') = Len(batch)
          /\ \A i \in 1..Len(batch) : batch'[i].id = batch[i].id
      BY <1>2, <2>3, Rescope
    <3>2. Ids(batch') = Ids(batch)
      BY <1>2, <3>1, IdsOfSame
    <3> QED
      BY <1>1, <2>3, <3>1, <3>2, PendingParts, PendingPartsAfter
  <2>4. ASSUME batch # <<>>, batch' = Tail(batch), retry' = Append(retry, Head(batch)), chain' = chain
        PROVE  Ids(Pending') = Ids(Pending) /\ Len(Pending') = Len(Pending)
    <3>1. Head(batch) \in Numbered /\ Len(Tail(batch)) = Len(batch) - 1
      BY <1>2, <2>4, TailElement
    <3>2. Ids(retry') = Ids(retry) \cup {Head(batch).id} /\ Len(retry') = Len(retry) + 1
      BY <1>2, <2>4, <3>1, IdsOfAppend
    <3>3. Ids(batch) = {Head(batch).id} \cup Ids(batch')
      BY <1>2, <2>4, IdsOfTail
    <3>4. Len(batch') = Len(batch) - 1 /\ chain' = chain
      BY <2>4, <3>1
    <3>5. Ids(Pending') = Ids(Pending)
      BY <1>1, <3>2, <3>3, <3>4, PendingParts, PendingPartsAfter
    <3>6. Len(Pending') = Len(Pending)
      BY <1>1, <3>2, <3>4, PendingParts, PendingPartsAfter
    <3> QED
      BY <3>5, <3>6
  <2>5. CASE BuildFinal
    <3>1. Event \in 0..Snat
      BY DEF Event, Snat
    <3> QED
      BY <2>3, <2>5, <3>1 DEF BuildFinal
  <2>6. CASE \E found \in BOOLEAN : BuildScope(found)
    <3>1. PICK found \in BOOLEAN : BuildScope(found)
      BY <2>6
    <3>2. batch # <<>> /\ chain' = chain
      BY <3>1 DEF BuildScope
    <3>3. CASE found
      <4>1. /\ Head(batch) = batch[1] /\ Head(batch).scope \in Nat /\ Head(batch).scope < Snat
        BY <1>2, <3>1, <3>2, TailElement, NumberedFields DEF ConservedInv, QueueInv, BuildScope
      <4>2. Head(batch).scope + 1 \in 0..Snat
        BY <4>1 DEF Snat
      <4>3. batch' = [batch EXCEPT ![1].scope = Head(batch).scope + 1] /\ retry' = retry
        BY <3>1, <3>3, <4>1 DEF BuildScope
      <4> QED
        BY <2>3, <3>2, <4>2, <4>3
    <3>4. CASE ~found
      BY <2>4, <3>1, <3>2, <3>4 DEF BuildScope, NextEntry
    <3> QED
      BY <3>3, <3>4
  <2>7. CASE WriteFails /\ mode = "pass"
    BY <2>4, <2>7 DEF WriteFails, NextEntry
  <2> QED
    BY <2>1, <2>2, <2>5, <2>6, <2>7
<1>5. Between'
  BY DEF Between, BeginPass, EndPass, BuildFinal, BuildScope, WriteFails
<1> QED
  BY <1>1, <1>4, <1>5, Rearranged

LEMMA WriteConserves ==
  ASSUME ConservedInv, QueueInv', Write
  PROVE  ConservedInv'
<1>1. /\ QueueTypeOK /\ QueueTypeOK' /\ count \in Nat /\ batch # <<>> /\ batch' = Tail(batch)
      /\ written' = Append(written, Head(batch))
      /\ UNCHANGED <<chain, retry, lost, mode, count>>
  BY QueueConstantsOK DEF ConservedInv, QueueInv, QueueTypeOK, Write, NextEntry
<1>2. /\ Head(batch) \in Numbered /\ Len(batch') = Len(batch) - 1
      /\ Ids(batch) = {Head(batch).id} \cup Ids(batch')
  BY <1>1, PendingParts, PendingPartsAfter, TailElement, IdsOfTail
<1>3. /\ Ids(written') = Ids(written) \cup {Head(batch).id}
      /\ Len(written') = Len(written) + 1
  BY <1>1, <1>2, PendingParts, PendingPartsAfter, IdsOfAppend
<1>4. RecordsConserved'
  <2>1. Cardinality(lost) \in Nat
    BY FS_CardinalityType DEF ConservedInv, GivenUpApart
  <2>2. Ids(Pending') \cup {Head(batch).id} = Ids(Pending)
    BY <1>1, <1>2, PendingParts, PendingPartsAfter
  <2>3. Len(Pending') = Len(Pending) - 1
    BY <1>1, <1>2, PendingParts, PendingPartsAfter
  <2>4. Len(Pending) \in Nat /\ Len(written) \in Nat
    BY <1>1, PendingParts, PendingPartsAfter
  <2> QED
    BY <1>1, <1>3, <2>1, <2>2, <2>3, <2>4 DEF ConservedInv, RecordsConserved
<1>5. GivenUpApart'
  <2>1. Ids(Pending') \subseteq Ids(Pending)
    BY <1>1, <1>2, PendingParts, PendingPartsAfter
  <2> QED
    BY <1>1, <2>1 DEF ConservedInv, GivenUpApart
<1>6. Between'
  BY DEF Between, Write
<1> QED
  BY <1>4, <1>5, <1>6 DEF ConservedInv

(* The last pass gives up what cannot be written.                          *)
LEMMA LastWriteFailsConserves ==
  ASSUME ConservedInv, QueueInv', WriteFails, mode = "final"
  PROVE  ConservedInv'
<1> DEFINE h == Head(batch)
<1>1. /\ QueueTypeOK /\ QueueTypeOK' /\ count \in Nat /\ batch # <<>> /\ batch' = Tail(batch)
      /\ lost' = lost \cup {h}
      /\ UNCHANGED <<chain, retry, written, mode, count>>
  BY QueueConstantsOK DEF ConservedInv, QueueInv, QueueTypeOK, WriteFails, NextEntry
<1>2. /\ h \in Numbered /\ <<h>> \in Seq(Numbered) /\ Len(batch') = Len(batch) - 1
      /\ Ids(batch) = {h.id} \cup Ids(batch')
      /\ h = batch[1] /\ 1 \in 1..Len(batch)
  BY <1>1, PendingParts, PendingPartsAfter, TailElement, IdsOfTail, IdsOfOne
<1>3. h.id \notin Ids(batch') /\ h.id \notin Ids(retry) /\ h.id \notin Ids(chain)
  <2>1. Below(<<h>>, Tail(batch))
    BY <1>1, PendingParts, PendingPartsAfter, TailOrdered DEF ConservedInv, QueueInv
  <2>2. Ids(<<h>>) \cap Ids(batch') = {}
    BY <1>1, <1>2, <2>1, PendingParts, PendingPartsAfter, BelowApart
  <2>3. Ids(retry) \cap Ids(batch) = {} /\ Ids(batch) \cap Ids(chain) = {}
    BY <1>1, PendingParts, PendingPartsAfter, BelowApart DEF ConservedInv, QueueInv
  <2> QED
    BY <1>2, <2>2, <2>3, IdsOfOne
<1>4. h.id \notin Ids(Pending') /\ Ids(Pending') \cup {h.id} = Ids(Pending)
      /\ Len(Pending') = Len(Pending) - 1 /\ Len(Pending) \in Nat
  BY <1>1, <1>2, <1>3, PendingParts, PendingPartsAfter
<1>5. h \notin lost /\ IsFiniteSet(lost') /\ Cardinality(lost') = Cardinality(lost) + 1
      /\ Cardinality(lost) \in Nat
  BY <1>1, <1>4, FS_AddElement, FS_CardinalityType DEF ConservedInv, GivenUpApart
<1>6. RecordsConserved'
  <2>1. {e.id : e \in lost'} = {e.id : e \in lost} \cup {h.id}
    BY <1>1
  <2>2. Len(written) \in Nat
    BY <1>1, PendingParts, PendingPartsAfter
  <2>3. Ids(Pending') \cup Ids(written') \cup {e.id : e \in lost'} = 1..count'
    BY <1>1, <1>4, <2>1 DEF ConservedInv, RecordsConserved
  <2>4. Len(Pending') + Len(written') + Cardinality(lost') = count'
    BY <1>1, <1>4, <1>5, <2>2 DEF ConservedInv, RecordsConserved
  <2> QED
    BY <2>3, <2>4 DEF RecordsConserved
<1>7. GivenUpApart'
  BY <1>1, <1>4, <1>5 DEF ConservedInv, GivenUpApart
<1>8. Between'
  BY DEF Between, WriteFails
<1> QED
  BY <1>6, <1>7, <1>8 DEF ConservedInv

(* The shutdown gives up what the pass had in work and what it had put     *)
(* aside, and goes on with what waits and with the stops.                  *)
LEMMA ShutdownConserves ==
  ASSUME ConservedInv, QueueInv', NEW stops \in Stops, Shutdown(stops)
  PROVE  ConservedInv'
<1> DEFINE r == Renumber(stops)
           gone == retry \o batch
<1>1. /\ stops \in Seq(Record) /\ Len(stops) \in Nat /\ count \in Nat
      /\ count + Len(stops) <= MaxSubmit /\ count' = count + Len(stops)
      /\ QueueTypeOK /\ QueueTypeOK'
  BY QueueConstantsOK DEF Shutdown, ConservedInv, QueueInv, QueueTypeOK
<1>2. /\ retry' = <<>> /\ chain' = <<>> /\ batch' = chain \o r
      /\ written' = written /\ mode' = "final" /\ lost' = lost \cup Entries(gone)
  BY DEF Shutdown
<1>3. r \in Seq(Numbered) /\ Len(r) = Len(stops) /\ Ids(r) = (count + 1) .. (count + Len(stops))
  BY <1>1, RenumberType, IdsOfRenumber
<1>4. /\ retry \in Seq(Numbered) /\ batch \in Seq(Numbered) /\ chain \in Seq(Numbered)
      /\ gone \in Seq(Numbered) /\ Ids(gone) = Ids(retry) \cup Ids(batch)
      /\ Len(gone) = Len(retry) + Len(batch)
  BY <1>1, PendingParts, PendingPartsAfter, IdsOfConcat
<1>5. Ordered(gone) /\ Below(gone, chain)
  BY <1>4, ConcatOrdered, ConcatBelow DEF ConservedInv, QueueInv
<1>6. IsFiniteSet(Entries(gone)) /\ Cardinality(Entries(gone)) = Len(gone)
      /\ {e.id : e \in Entries(gone)} = Ids(gone)
  BY <1>4, <1>5, EntriesCounted DEF Ids
<1> HIDE DEF r, gone
<1>7. Ids(batch') = Ids(chain) \cup Ids(r) /\ Len(batch') = Len(chain) + Len(stops)
  BY <1>2, <1>3, <1>4, IdsOfConcat
<1>8. Ids(<<>>) = {} /\ Len(<<>>) = 0
  BY DEF Ids, Entries
<1>9. Ids(Pending') = Ids(chain) \cup Ids(r) /\ Len(Pending') = Len(chain) + Len(stops)
  BY <1>1, <1>2, <1>7, <1>8, PendingParts, PendingPartsAfter
<1>10. Ids(Pending) = Ids(gone) \cup Ids(chain) /\ Len(Pending) = Len(gone) + Len(chain)
  BY <1>1, <1>4, PendingParts, PendingPartsAfter
<1>11. Ids(gone) \cap Ids(chain) = {}
  BY <1>4, <1>5, BelowApart
<1>12. /\ \A e \in lost : e.id \notin Ids(gone) \cup Ids(chain)
       /\ \A e \in lost \cup Entries(gone) : e.id \in 1..count
       /\ IsFiniteSet(lost) /\ Cardinality(lost) \in Nat
  BY <1>6, <1>10, FS_CardinalityType DEF ConservedInv, GivenUpApart, RecordsConserved
<1>13. \A e \in lost \cup Entries(gone) : e.id \notin Ids(r)
  BY <1>1, <1>3, <1>12
<1>14. lost \cap Entries(gone) = {}
  BY <1>6, <1>12
<1>15. IsFiniteSet(lost') /\ Cardinality(lost') = Cardinality(lost) + Len(gone)
  <2>1. /\ IsFiniteSet(lost \cup Entries(gone))
        /\ Cardinality(lost \cup Entries(gone)) =
             Cardinality(lost) + Cardinality(Entries(gone)) - Cardinality(lost \cap Entries(gone))
    BY <1>6, <1>12, FS_Union
  <2>2. Cardinality(lost \cap Entries(gone)) = 0
    BY <1>14, FS_EmptySet
  <2>3. Len(gone) \in Nat
    BY <1>4
  <2>4. Cardinality(lost \cup Entries(gone)) = Cardinality(lost) + Len(gone)
    BY <1>6, <1>12, <2>1, <2>2, <2>3
  <2> QED
    BY <1>2, <2>1, <2>4
<1>16. RecordsConserved'
  <2>1. {e.id : e \in lost'} = {e.id : e \in lost} \cup Ids(gone)
    BY <1>2, <1>6
  <2>2. 1..(count + Len(stops)) = (1..count) \cup Ids(r)
    BY <1>1, <1>3
  <2>3. Len(gone) \in Nat /\ Len(chain) \in Nat /\ Len(written) \in Nat
    BY <1>1, <1>4, PendingParts, PendingPartsAfter
  <2>4. Ids(Pending') \cup Ids(written') \cup {e.id : e \in lost'} = 1..(count + Len(stops))
    BY <1>2, <1>9, <1>10, <2>1, <2>2 DEF ConservedInv, RecordsConserved
  <2>5. Len(Pending') + Len(written') + Cardinality(lost') = count + Len(stops)
    BY <1>1, <1>2, <1>9, <1>10, <1>12, <1>15, <2>3 DEF ConservedInv, RecordsConserved
  <2> QED
    BY <1>1, <2>4, <2>5 DEF RecordsConserved
<1>17. GivenUpApart'
  BY <1>2, <1>6, <1>9, <1>11, <1>12, <1>13, <1>15 DEF GivenUpApart
<1>18. Between'
  BY <1>2 DEF Between
<1> QED
  BY <1>16, <1>17, <1>18 DEF ConservedInv

LEMMA ConservedInit == QueueInit => ConservedInv
<1> SUFFICES ASSUME QueueInit PROVE ConservedInv
  OBVIOUS
<1>1. QueueInv
  BY QueueInvInit
<1>2. Ids(<<>>) = {} /\ Len(<<>>) = 0
  BY DEF Ids, Entries
<1>3. Ids(Pending) = {} /\ Len(Pending) = 0
  BY <1>1, <1>2, PendingParts, PendingPartsAfter DEF QueueInit, QueueInv
<1>4. IsFiniteSet({}) /\ Cardinality({}) = 0
  BY FS_EmptySet
<1> QED
  BY <1>1, <1>2, <1>3, <1>4 DEF QueueInit, ConservedInv, RecordsConserved, GivenUpApart, Between

LEMMA ConservedStep == ASSUME ConservedInv, [QueueNext]_queue PROVE ConservedInv'
<1>1. QueueInv'
  BY QueueStep DEF ConservedInv
<1>2. CASE UNCHANGED queue
  <2>1. UNCHANGED <<Pending, written, lost, count, mode, batch>>
    BY <1>2 DEF queue, Pending
  <2> QED
    BY <1>1, <2>1 DEF ConservedInv, RecordsConserved, GivenUpApart, Between, Ids, Entries
<1>3. CASE WriteFails
  BY <1>1, <1>3, MoveConserves, LastWriteFailsConserves DEF WriteFails
<1> QED
  BY <1>1, <1>2, <1>3, SubmitConserves, MoveConserves, WriteConserves, ShutdownConserves
     DEF QueueNext, PassStep

(* Every record submitted is in one place only: waiting, in the file once, *)
(* or given up, whatever fails and whenever the shutdown comes             *)
(* (acct.c, sw_acct_commit; acct_method_detail.c).                         *)
THEOREM RecordsStayConserved == QueueSpec => []RecordsConserved
<1>1. QueueInit => ConservedInv
  BY ConservedInit
<1>2. ConservedInv /\ [QueueNext]_queue => ConservedInv'
  BY ConservedStep
<1>3. ConservedInv => RecordsConserved
  BY DEF ConservedInv
<1> QED
  BY <1>1, <1>2, <1>3, PTL DEF QueueSpec
-----------------------------------------------------------------------------
(* The watchdog.  That a silence found at a look is not longer than the    *)
(* timeout, and grows by no more than what has passed since, is inductive  *)
(* once the ages are known to be dropped where the main thread begins.     *)
WatchInv ==
  /\ KilledInTime
  /\ phase \in {"start", "killed"} => \A w \in Watched : silent[w] = 0

(* What the types say of a thread, and of ages.                            *)
LEMMA Ages ==
  ASSUME DaemonTypeOK
  PROVE  /\ Timeout \in Nat /\ Interval \in Nat /\ checked \in Nat /\ checked <= Interval
         /\ \A w \in Watched : silent[w] \in Nat /\ silent[w] <= Timeout + Interval + 1
  BY DaemonConstantsOK DEF DaemonTypeOK

Place == {"unborn", "loop", "handler", "sweep", "pass", "reload", "stuck", "gone"}

(* A step of a thread: it moves, or has been heard of.                     *)
LEMMA ThreadSteps ==
  ASSUME DaemonTypeOK, NEW w \in Watched,
         WorkerStep(w) \/ MakeRecord(w) \/ Fail(w) \/ Stick(w) \/ Cancelled(w) \/ TooLate(w)
  PROVE  /\ UNCHANGED <<phase, checked, parts>>
         /\ alive' \in BOOLEAN /\ left' \in BOOLEAN /\ at' \in [Watched -> Place]
         /\ silent' \in [Watched -> 0 .. Timeout + Interval + 1]
         /\ \A v \in Watched : silent'[v] = silent[v] \/ silent'[v] = 0
         /\ \A v \in Watched : at[v] = "unborn" <=> at'[v] = "unborn"
<1>1. /\ alive \in BOOLEAN /\ left \in BOOLEAN /\ at \in [Watched -> Place]
      /\ silent \in [Watched -> 0 .. Timeout + Interval + 1]
      /\ 0 \in 0 .. Timeout + Interval + 1
  BY DaemonConstantsOK DEF DaemonTypeOK, Place
<1>2. CASE Ping(w)
  BY <1>1, <1>2 DEF Ping, Moves, Place, queue, parts
<1>3. CASE MakeRecord(w) \/ TooLate(w)
  BY <1>1, <1>3 DEF MakeRecord, TooLate, life
<1>4. CASE Return(w) \/ Fail(w) \/ LeaveLoop(w)
  BY <1>1, <1>4 DEF Return, Fail, LeaveLoop, Moves, Place, watch
<1>5. CASE Stick(w) \/ Cancelled(w)
  BY <1>1, <1>5 DEF Stick, Cancelled, InHandler, Moves, Place, watch
<1> QED
  BY <1>2, <1>3, <1>4, <1>5 DEF WorkerStep

LEMMA PassMoves ==
  ASSUME DaemonTypeOK, Pass
  PROVE  /\ UNCHANGED <<alive, phase, silent, checked, left, parts>> /\ at' \in [Watched -> Place]
         /\ \A v \in Watched : at[v] = "unborn" <=> at'[v] = "unborn"
<1>1. at \in [Watched -> Place] /\ Maint \in Watched
  BY DEF DaemonTypeOK, Place, Watched
<1> QED
  BY <1>1 DEF Pass, Moves, Place, watch
-----------------------------------------------------------------------------
(* The parts.                                                              *)

LEMMA CreateKeepsTypes == ASSUME PartsTypeOK, CreatePart PROVE PartsTypeOK'
<1>1. PICK part : Makes(part) /\ listed' \in {listed, listed \cup TablesOf(part), {}}
  BY DEF CreatePart, LoadConfig, CreateLhstat, CreateFilters, CreateSessions, CreateSnat,
         CreateEndpoints, CreateGauges, CreateDnat, CreateFragments, CreateInward, CreateOutward,
         OpenForInput, OpenForOutput, CreateUam, CreateShaper, CreateWheels, CreateBuffers,
         CreateScopes, CreateMethods, CreateDetails, Lists
<1>2. part \in AllParts /\ made' = made \cup {part}
  BY <1>1 DEF Makes, IsNext, AllParts
<1>3. TablesOf(part) \subseteq AllTables
  BY <1>2 DEF AllTables
<1> QED
  BY <1>1, <1>2, <1>3 DEF PartsTypeOK

LEMMA DestroyKeepsTypes ==
  ASSUME PartsTypeOK,
         \/ UnlistSessions \/ DestroySessions \/ UnlistGauges \/ DestroyGauges \/ DestroyShaper
         \/ DestroyWheels \/ DestroyMethods \/ DestroyInward \/ DestroyOutward \/ DestroyUam
         \/ DestroyLhstat
  PROVE  PartsTypeOK'
<1>1. made' \subseteq made /\ listed' \subseteq listed
  BY DEF UnlistSessions, DestroySessions, UnlistGauges, DestroyGauges, DestroyShaper, DestroyWheels,
         DestroyMethods, DestroyInward, DestroyOutward, DestroyUam, DestroyLhstat, Takes, Unlists,
         Closes
<1> QED
  BY <1>1 DEF PartsTypeOK
-----------------------------------------------------------------------------
(* The steps of the main thread, by what they do to the phase.             *)

(* What WatchInv says of types, in pieces that can be put together again.  *)
Phases ==
  {"start", "watch", "killing", "killed", "sessions", "stops", "pool", "gauges", "table", "shaper",
   "wheels", "commit", "methods", "sockets", "ended"}

LEMMA TypesInPieces ==
  DaemonTypeOK <=>
    /\ alive \in BOOLEAN /\ left \in BOOLEAN /\ phase \in Phases /\ at \in [Watched -> Place]
    /\ silent \in [Watched -> 0 .. Timeout + Interval + 1] /\ checked \in 0 .. Interval
    /\ PartsTypeOK
  BY DEF DaemonTypeOK, Phases, Place

LEMMA TypesAfter ==
  ASSUME alive' \in BOOLEAN, left' \in BOOLEAN, phase' \in Phases, at' \in [Watched -> Place],
         silent' \in [Watched -> 0 .. Timeout + Interval + 1], checked' \in 0 .. Interval,
         PartsTypeOK'
  PROVE  DaemonTypeOK'
  BY DEF DaemonTypeOK, Phases, Place

(* A second passes.                                                        *)
LEMMA TickKeeps == ASSUME WatchInv, Tick PROVE WatchInv'
<1>1. /\ DaemonTypeOK /\ phase = "watch" /\ phase' = "watch" /\ checked' = checked + 1
      /\ UNCHANGED <<alive, at, left, parts>> /\ checked < Interval
      /\ silent' = [w \in Watched |-> Older(silent[w], Timeout + Interval + 1)]
  BY DEF Tick, WatchInv, KilledInTime
<1>2. \A w \in Watched : silent'[w] \in 0 .. Timeout + Interval + 1
                       /\ silent'[w] <= Timeout + checked'
  <2> SUFFICES ASSUME NEW w \in Watched
               PROVE  silent'[w] \in 0 .. Timeout + Interval + 1 /\ silent'[w] <= Timeout + checked'
    OBVIOUS
  <2>1. /\ silent[w] \in Nat /\ silent[w] <= Timeout + checked
        /\ Timeout \in Nat /\ Interval \in Nat /\ checked \in Nat
        /\ silent[w] <= Timeout + Interval + 1
    BY <1>1, Ages DEF WatchInv, KilledInTime
  <2>2. silent'[w] = Older(silent[w], Timeout + Interval + 1)
    BY <1>1
  <2> QED
    BY <1>1, <2>1, <2>2 DEF Older
<1>3. DaemonTypeOK'
  <2>1. silent' \in [Watched -> 0 .. Timeout + Interval + 1]
    BY <1>1, <1>2
  <2>2. checked' \in 0 .. Interval
    BY <1>1, Ages
  <2> QED
    BY <1>1, <2>1, <2>2, TypesAfter, TypesInPieces DEF parts, PartsTypeOK
<1>4. WatchInv'
  BY <1>1, <1>2, <1>3 DEF WatchInv, KilledInTime
<1> QED
  BY <1>4

(* The watchdog looks: who was silent for too long is found.               *)
LEMMA LookKeeps == ASSUME WatchInv, Look PROVE WatchInv'
<1>1. /\ DaemonTypeOK /\ phase = "watch" /\ checked' = 0
      /\ phase' = (IF Suspects = {} THEN "watch" ELSE "killing")
      /\ UNCHANGED <<alive, at, silent, left, parts>>
  BY DEF Look, WatchInv, KilledInTime
<1>2. phase' = "watch" => \A w \in Watched : silent[w] <= Timeout + 0
  <2> SUFFICES ASSUME phase' = "watch", NEW w \in Watched PROVE silent[w] <= Timeout + 0
    OBVIOUS
  <2>1. ~(silent[w] > Timeout)
    BY <1>1 DEF Suspects
  <2> QED
    BY <1>1, <2>1, Ages
<1>3. DaemonTypeOK'
  <2>1. checked' \in 0 .. Interval /\ phase' \in Phases
    BY <1>1, DaemonConstantsOK DEF Phases
  <2> QED
    BY <1>1, <2>1, TypesAfter, TypesInPieces DEF parts, PartsTypeOK
<1>4. WatchInv'
  BY <1>1, <1>2, <1>3 DEF WatchInv, KilledInTime
<1> QED
  BY <1>4

(* The start, from the first part to the loop.                             *)
LEMMA StartKeeps ==
  ASSUME WatchInv, Create \/ CreateFails \/ EnterLoop \/ \E w \in Watched : CreateThread(w)
  PROVE  WatchInv'
<1>1. /\ DaemonTypeOK /\ phase = "start" /\ UNCHANGED <<alive, checked, left>>
      /\ \A w \in Watched : silent[w] = 0
      /\ silent \in [Watched -> 0 .. Timeout + Interval + 1] /\ at \in [Watched -> Place]
      /\ Timeout \in Nat /\ Interval \in Nat /\ checked \in Nat
  <2>1. DaemonTypeOK /\ phase = "start" /\ UNCHANGED <<alive, checked, left>>
    BY DEF WatchInv, KilledInTime, Create, CreateFails, EnterLoop, CreateThread, life, watch
  <2> QED
    BY <2>1, Ages, TypesInPieces DEF WatchInv
<1>2. /\ phase' \in {"start", "watch", "ended"}
      /\ \A w \in Watched : silent'[w] = 0
      /\ silent' \in [Watched -> 0 .. Timeout + Interval + 1] /\ at' \in [Watched -> Place]
  <2>1. 0 \in 0 .. Timeout + Interval + 1
    BY <1>1
  <2>2. CASE Create \/ CreateFails \/ EnterLoop
    BY <1>1, <2>2 DEF Create, CreateFails, EnterLoop, life, watch
  <2>3. CASE \E w \in Watched : CreateThread(w)
    BY <1>1, <2>1, <2>3 DEF CreateThread, Moves, Place
  <2> QED
    BY <2>2, <2>3
<1>3. PartsTypeOK'
  <2>1. PartsTypeOK
    BY <1>1 DEF DaemonTypeOK
  <2>2. CASE Create
    BY <2>1, <2>2, CreateKeepsTypes DEF Create
  <2>3. CASE CreateFails
    BY <2>3 DEF CreateFails, Gone, PartsTypeOK
  <2>4. CASE EnterLoop \/ \E w \in Watched : CreateThread(w)
    BY <2>1, <2>4 DEF EnterLoop, CreateThread, parts, PartsTypeOK
  <2> QED
    BY <2>2, <2>3, <2>4
<1>4. DaemonTypeOK'
  <2>1. checked' \in 0 .. Interval /\ phase' \in Phases /\ alive' \in BOOLEAN /\ left' \in BOOLEAN
    BY <1>1, <1>2 DEF Phases, DaemonTypeOK
  <2> QED
    BY <1>2, <1>3, <2>1, TypesAfter
<1>5. WatchInv'
  <2>1. \A w \in Watched : silent'[w] <= Timeout + checked'
    BY <1>1, <1>2
  <2> QED
    BY <1>2, <1>4, <2>1 DEF WatchInv, KilledInTime
<1> QED
  BY <1>5

(* The end, from the loop on: nobody asks for the ages.                    *)
LEMMA EndKeeps ==
  ASSUME WatchInv, Leave \/ StopSessions \/ TakeApart \/ LastPass \/ EndLastPass \/ Finish
  PROVE  WatchInv'
<1> DEFINE After == {"sessions", "stops", "pool", "gauges", "table", "shaper", "wheels", "commit",
                     "methods", "sockets", "ended"}
<1>1. DaemonTypeOK /\ UNCHANGED <<alive, at, left>>
  BY DEF WatchInv, KilledInTime, Leave, StopSessions, TakeApart, LastPass, EndLastPass, Finish, life
<1>2. phase' \in After
  BY DEF Leave, StopSessions, TakeApart, LastPass, EndLastPass, Finish, life, GoesOn
<1>3. silent' \in [Watched -> 0 .. Timeout + Interval + 1] /\ checked' \in 0 .. Interval
  <2>1. CASE Leave
    BY <2>1, DaemonConstantsOK DEF Leave, AgesDropped
  <2>2. CASE StopSessions \/ TakeApart \/ LastPass \/ EndLastPass \/ Finish
    BY <1>1, <2>2, TypesInPieces
       DEF StopSessions, TakeApart, LastPass, EndLastPass, Finish, life, watch
  <2> QED
    BY <2>1, <2>2
<1>4. PartsTypeOK'
  <2>1. PartsTypeOK
    BY DEF WatchInv, KilledInTime, DaemonTypeOK
  <2>2. CASE UNCHANGED parts
    BY <2>1, <2>2 DEF parts, PartsTypeOK
  <2>3. CASE \/ UnlistSessions \/ DestroySessions \/ UnlistGauges \/ DestroyGauges \/ DestroyShaper
             \/ DestroyWheels \/ DestroyMethods \/ DestroyInward \/ DestroyOutward \/ DestroyUam
             \/ DestroyLhstat
    BY <2>1, <2>3, DestroyKeepsTypes
  <2> QED
    BY <2>2, <2>3 DEF Leave, StopSessions, TakeApart, LastPass, EndLastPass, Finish
<1>5. DaemonTypeOK'
  <2>1. phase' \in Phases
    BY <1>2 DEF Phases
  <2> QED
    BY <1>1, <1>3, <1>4, <2>1, TypesAfter, TypesInPieces
<1>6. phase' \notin {"start", "watch", "killing", "killed"}
  BY <1>2
<1> QED
  BY <1>5, <1>6 DEF WatchInv, KilledInTime

LEMMA KilledKeeps == ASSUME WatchInv, Killed \/ Restart PROVE WatchInv'
<1>1. DaemonTypeOK
  BY DEF WatchInv, KilledInTime
<1>2. CASE Killed
  <2>1. /\ phase' = "killed" /\ alive' = FALSE /\ left' = FALSE /\ made' = {} /\ listed' = {}
        /\ at' = [w \in Watched |-> "unborn"]
        /\ silent' = [w \in Watched |-> 0] /\ checked' = 0
    BY <1>2 DEF Killed, AgesDropped, Gone
  <2>2. /\ at' \in [Watched -> Place] /\ silent' \in [Watched -> 0 .. Timeout + Interval + 1]
        /\ checked' \in 0 .. Interval /\ phase' \in Phases
    BY <2>1, DaemonConstantsOK DEF Place, Phases
  <2>3. PartsTypeOK'
    BY <2>1 DEF PartsTypeOK
  <2>4. DaemonTypeOK'
    BY <2>1, <2>2, <2>3, TypesAfter
  <2> QED
    BY <2>1, <2>4 DEF WatchInv, KilledInTime
<1>3. CASE Restart
  <2>1. /\ phase = "killed" /\ phase' = "start" /\ alive' = TRUE
        /\ UNCHANGED <<at, silent, checked, left, made, listed>>
    BY <1>3 DEF Restart, watch, parts
  <2>2. DaemonTypeOK'
    BY <1>1, <2>1 DEF DaemonTypeOK, PartsTypeOK
  <2> QED
    BY <2>1, <2>2 DEF WatchInv, KilledInTime
<1> QED
  BY <1>2, <1>3

(* Threads, and what only tells them to stop.                              *)
LEMMA ThreadsKeep ==
  ASSUME WatchInv,
         \/ \E w \in Watched :
              WorkerStep(w) \/ MakeRecord(w) \/ Fail(w) \/ Stick(w) \/ Cancelled(w) \/ TooLate(w)
         \/ Pass \/ Signal \/ UNCHANGED daemonVars
  PROVE  WatchInv'
<1>1. DaemonTypeOK
  BY DEF WatchInv, KilledInTime
<1>2. /\ UNCHANGED <<phase, checked, parts>>
      /\ alive' \in BOOLEAN /\ left' \in BOOLEAN /\ at' \in [Watched -> Place]
      /\ silent' \in [Watched -> 0 .. Timeout + Interval + 1]
      /\ \A v \in Watched : silent'[v] = silent[v] \/ silent'[v] = 0
      /\ \A v \in Watched : at[v] = "unborn" <=> at'[v] = "unborn"
  <2>1. CASE Signal \/ UNCHANGED daemonVars
    BY <1>1, <2>1, TypesInPieces DEF Signal, daemonVars, life, watch
  <2>2. CASE Pass
    BY <1>1, <2>2, PassMoves, TypesInPieces
  <2> QED
    BY <1>1, <2>1, <2>2, ThreadSteps
<1>3. DaemonTypeOK'
  BY <1>1, <1>2, TypesAfter, TypesInPieces DEF parts, PartsTypeOK
<1>4. WatchInv'
  <2>1. phase = "watch" => \A w \in Watched : silent'[w] <= Timeout + checked
    BY <1>1, <1>2, Ages DEF WatchInv, KilledInTime
  <2>2. phase \in {"start", "killed"} => \A w \in Watched : silent'[w] = 0
    BY <1>2 DEF WatchInv
  <2> QED
    BY <1>2, <1>3, <2>1, <2>2 DEF WatchInv, KilledInTime
<1> QED
  BY <1>4

LEMMA DaemonStep ==
  ASSUME WatchInv, [DaemonNext]_daemonVars PROVE WatchInv'
<1>1. CASE Tick \/ Look
  BY <1>1, TickKeeps, LookKeeps
<1>2. CASE Create \/ CreateFails \/ EnterLoop \/ \E w \in Watched : CreateThread(w)
  BY <1>2, StartKeeps
<1>3. CASE Leave \/ StopSessions \/ TakeApart \/ LastPass \/ EndLastPass \/ Finish
  BY <1>3, EndKeeps
<1>4. CASE Killed \/ Restart
  BY <1>4, KilledKeeps
<1>5. CASE \/ \E w \in Watched :
                WorkerStep(w) \/ MakeRecord(w) \/ Fail(w) \/ Stick(w) \/ Cancelled(w) \/ TooLate(w)
           \/ Pass \/ Signal \/ UNCHANGED daemonVars
  BY <1>5, ThreadsKeep
<1> QED
  BY <1>1, <1>2, <1>3, <1>4, <1>5 DEF DaemonNext, MainStep

LEMMA DaemonInvInit == ASSUME DaemonInit PROVE WatchInv
<1>1. /\ alive = TRUE /\ phase = "start" /\ left = FALSE /\ made = {} /\ listed = {}
      /\ at = [w \in Watched |-> "unborn"]
      /\ silent = [w \in Watched |-> 0] /\ checked = 0
  BY DEF DaemonInit, PartsInit
<1>2. /\ at \in [Watched -> Place] /\ silent \in [Watched -> 0 .. Timeout + Interval + 1]
      /\ checked \in 0 .. Interval /\ phase \in Phases
  BY <1>1, DaemonConstantsOK DEF Place, Phases
<1>3. PartsTypeOK
  BY <1>1 DEF PartsTypeOK
<1>4. DaemonTypeOK
  BY <1>1, <1>2, <1>3, TypesInPieces
<1> QED
  BY <1>1, <1>4 DEF WatchInv, KilledInTime

(* No watched thread is silent for longer than the timeout and the time    *)
(* between two looks, before the daemon begins to be killed, whatever      *)
(* threads stick and however often the script starts it again.             *)
THEOREM WatchdogInTime == DaemonSpec => []KilledInTime
<1>1. DaemonInit => WatchInv
  BY DaemonInvInit
<1>2. WatchInv /\ [DaemonNext]_daemonVars => WatchInv'
  BY DaemonStep
<1>3. WatchInv => KilledInTime
  BY DEF WatchInv
<1> QED
  BY <1>1, <1>2, <1>3, PTL DEF DaemonSpec
-----------------------------------------------------------------------------
(* The queue in the daemon.  The daemon drives it in steps of its own, but *)
(* for two: the process goes down with a thread that works on what is      *)
(* gone, and it is killed with all that was not written.                   *)
Crashes == mode' = "crashed" /\ UNCHANGED <<chain, batch, retry, stage, written, lost, count>>

Dies ==
  /\ lost' = lost \cup Entries(Pending)
  /\ chain' = <<>> /\ batch' = <<>> /\ retry' = <<>> /\ stage' = "build" /\ mode' = "idle"
  /\ UNCHANGED <<written, count>>

LEMMA DrivesQueue ==
  ASSUME [DaemonNext]_daemonVars PROVE [QueueNext]_queue \/ Crashes \/ Dies
<1>1. ASSUME NEW w \in Watched,
             WorkerStep(w) \/ MakeRecord(w) \/ Fail(w) \/ Stick(w) \/ Cancelled(w) \/ TooLate(w)
      PROVE  [QueueNext]_queue \/ Crashes
  <2>1. CASE WorkerStep(w) \/ Fail(w) \/ Stick(w) \/ Cancelled(w)
    BY <2>1 DEF WorkerStep, Ping, Return, LeaveLoop, Fail, Stick, Cancelled
  <2>2. CASE MakeRecord(w)
    BY <2>2 DEF MakeRecord, QueueNext
  <2>3. CASE TooLate(w)
    BY <2>3 DEF TooLate, Crashes
  <2> QED
    BY <1>1, <2>1, <2>2, <2>3
<1>2. CASE Pass
  BY <1>2 DEF Pass, QueueNext, PassStep
<1>3. CASE Signal \/ Tick \/ Restart \/ Look \/ Leave \/ EndLastPass \/ UNCHANGED daemonVars
  BY <1>3 DEF Signal, Tick, Restart, Look, Leave, EndLastPass, daemonVars
<1>4. CASE Create \/ CreateFails \/ EnterLoop \/ \E w \in Watched : CreateThread(w)
  BY <1>4 DEF Create, CreateFails, EnterLoop, CreateThread
<1>5. CASE TakeApart \/ Finish
  BY <1>5 DEF TakeApart, Finish
<1>6. CASE StopSessions \/ LastPass
  BY <1>6 DEF StopSessions, LastPass, QueueNext, PassStep
<1>7. CASE Killed
  BY <1>7 DEF Killed, Dies
<1> QED
  BY <1>1, <1>2, <1>3, <1>4, <1>5, <1>6, <1>7 DEF DaemonNext, MainStep

LEMMA CrashConserves == ASSUME ConservedInv, Crashes PROVE ConservedInv'
<1>1. QueueInv'
  BY DEF ConservedInv, Crashes, QueueInv, QueueTypeOK, Ordered, Below
<1>2. Pending' = Pending /\ UNCHANGED <<written, lost, count>>
  BY DEF Crashes, Pending
<1>3. Between'
  BY DEF Crashes, Between
<1> QED
  BY <1>1, <1>2, <1>3 DEF ConservedInv, RecordsConserved, GivenUpApart, Ids, Entries

(* What waited when the daemon was killed is given up, each record once.   *)
LEMMA DeathConserves == ASSUME ConservedInv, Dies PROVE ConservedInv'
<1>1. /\ QueueInv /\ QueueTypeOK /\ count \in Nat
      /\ lost' = lost \cup Entries(Pending) /\ mode' = "idle" /\ stage' = "build"
      /\ chain' = <<>> /\ batch' = <<>> /\ retry' = <<>> /\ UNCHANGED <<written, count>>
  BY QueueConstantsOK DEF ConservedInv, QueueInv, QueueTypeOK, Dies
<1>2. Pending \in Seq(Numbered) /\ Ordered(Pending)
  <2>1. retry \in Seq(Numbered) /\ batch \in Seq(Numbered) /\ chain \in Seq(Numbered)
    BY <1>1, PendingParts
  <2> QED
    BY <1>1, <2>1, InvOrders DEF PendingOrdered, Pending
<1>3. /\ IsFiniteSet(Entries(Pending)) /\ Cardinality(Entries(Pending)) = Len(Pending)
      /\ {e.id : e \in Entries(Pending)} = Ids(Pending) /\ Entries(Pending) \subseteq Numbered
      /\ Len(Pending) \in Nat /\ Len(written) \in Nat
  <2>1. IsFiniteSet(Entries(Pending)) /\ Cardinality(Entries(Pending)) = Len(Pending)
    BY <1>2, EntriesCounted
  <2>2. {e.id : e \in Entries(Pending)} = Ids(Pending)
    BY DEF Ids
  <2>3. Entries(Pending) \subseteq Numbered
    <3>1. \A i \in 1 .. Len(Pending) : Pending[i] \in Numbered
      BY <1>2
    <3> QED
      BY <3>1 DEF Entries
  <2>4. Len(Pending) \in Nat /\ Len(written) \in Nat
    BY <1>1, <1>2, PendingParts
  <2> QED
    BY <2>1, <2>2, <2>3, <2>4
<1>4. QueueInv'
  <2>1. <<>> \in Seq(Numbered) /\ Ordered(<<>>) /\ Below(<<>>, <<>>)
        /\ \A i \in 1 .. Len(<<>>) : <<>>[i].id <= count
    <3>1. <<>> \in Seq(Numbered)
      OBVIOUS
    <3> QED
      BY <3>1, EmptyFacts
  <2>2. QueueTypeOK'
    BY <1>1, <1>3, <2>1 DEF QueueTypeOK
  <2> QED
    BY <1>1, <2>1, <2>2 DEF QueueInv
<1>5. Ids(<<>>) = {} /\ Len(<<>>) = 0
  BY DEF Ids, Entries
<1>6. Ids(Pending') = {} /\ Len(Pending') = 0
  BY <1>1, <1>4, <1>5, PendingPartsAfter DEF QueueInv
<1>7. lost \cap Entries(Pending) = {}
  BY <1>3 DEF ConservedInv, GivenUpApart
<1>8. IsFiniteSet(lost') /\ Cardinality(lost') = Cardinality(lost) + Len(Pending)
      /\ Cardinality(lost) \in Nat
  <2>1. IsFiniteSet(lost) /\ Cardinality(lost) \in Nat
    BY FS_CardinalityType DEF ConservedInv, GivenUpApart
  <2>2. /\ IsFiniteSet(lost \cup Entries(Pending))
        /\ Cardinality(lost \cup Entries(Pending)) =
             Cardinality(lost) + Cardinality(Entries(Pending)) - Cardinality(lost \cap Entries(Pending))
    BY <1>3, <2>1, FS_Union
  <2>3. Cardinality(lost \cap Entries(Pending)) = 0
    BY <1>7, FS_EmptySet
  <2>4. Cardinality(lost \cup Entries(Pending)) = Cardinality(lost) + Len(Pending)
    BY <1>3, <2>1, <2>2, <2>3
  <2> QED
    BY <1>1, <2>1, <2>2, <2>4
<1>9. RecordsConserved'
  <2>1. {e.id : e \in lost'} = {e.id : e \in lost} \cup Ids(Pending)
    BY <1>1, <1>3
  <2>2. Ids(Pending') \cup Ids(written') \cup {e.id : e \in lost'} = 1..count'
    BY <1>1, <1>6, <2>1 DEF ConservedInv, RecordsConserved
  <2>3. Len(Pending') + Len(written') + Cardinality(lost') = count'
    BY <1>1, <1>3, <1>6, <1>8 DEF ConservedInv, RecordsConserved
  <2> QED
    BY <2>2, <2>3 DEF RecordsConserved
<1>10. GivenUpApart'
  BY <1>6, <1>8 DEF GivenUpApart
<1>11. Between'
  BY <1>1 DEF Between
<1> QED
  BY <1>4, <1>9, <1>10, <1>11 DEF ConservedInv

(* ConservedInv holds through kills, restarts and shutdowns.               *)
LEMMA DaemonConserves == DaemonSpec => []ConservedInv
<1>1. DaemonInit => ConservedInv
  BY ConservedInit DEF DaemonInit
<1>2. ConservedInv /\ [DaemonNext]_daemonVars => ConservedInv'
  BY DrivesQueue, ConservedStep, CrashConserves, DeathConserves
<1> QED
  BY <1>1, <1>2, PTL DEF DaemonSpec

(* While the daemon is started, killed, started again and shut down, with  *)
(* threads that stick, fail and are cancelled anywhere, every record that  *)
(* was submitted still is in one place only: no death writes or loses one  *)
(* that is then written, or is counted, again.                             *)
THEOREM DaemonLosesOnce == DaemonSpec => []RecordsConserved
<1>1. ConservedInv => RecordsConserved
  BY DEF ConservedInv
<1> QED
  BY <1>1, DaemonConserves, PTL

(* ... and what waits is in the order in which it was submitted.           *)
THEOREM DaemonKeepsOrder == DaemonSpec => []PendingOrdered
<1>1. ConservedInv => PendingOrdered
  BY InvOrders DEF ConservedInv
<1> QED
  BY <1>1, DaemonConserves, PTL
=============================================================================
