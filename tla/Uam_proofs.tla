----------------------------- MODULE Uam_proofs -----------------------------
(* Theorems about Uam, for any number of clients, addresses, serials,      *)
(* state ids, requests, changes and sessions forgotten.                    *)
EXTENDS Uam, TLAPS

(* Types, as far as UamTypeOK leaves them open; and a session that was     *)
(* not forgotten yet and is not there was never changed.                   *)

Request == [from : Client, call : Call, copies : {1, 2}]

Reply == [to : Client, answer : Answer]

Types ==
  /\ UamTypeOK
  /\ requests \subseteq Request /\ replies \subseteq Reply
  /\ life \in [IP -> 0 .. MaxLife] /\ version \in [IP -> 0 .. MaxChange]
  /\ \A ip \in IP : session[ip] = None /\ life[ip] = 0 => version[ip] = 0

(* What is on the way with a serial is of the call its client is in, or    *)
(* of one that had this serial before.                                     *)
Own(c, id, serial) ==
  \/ serial = None \/ serial \in spent[c]
  \/ call[c] # None /\ call[c].id = id /\ call[c].serial = serial

CallsOwn ==
  /\ \A m \in requests : Own(m.from, m.call.id, m.call.serial)
  /\ \A r \in replies : Own(r.to, r.answer.id, r.answer.serial)

(* The id a session has d changes after it had i: the ids come round, but  *)
(* not before there were MaxStateid changes.                               *)
Follows(i, s, d) == d < MaxStateid => s \in 1 .. MaxStateid /\ (s = i + d \/ s = (i + d) - MaxStateid)

(* Who has read an id of a session that was not forgotten since knows what *)
(* id it has now, if he knows how often it was changed since.              *)
Known(i, ip, seen) ==
  /\ seen.life <= life[ip] /\ seen.version <= version[ip]
  /\ i # 0 /\ seen.life = life[ip] =>
       session[ip] # None /\ Follows(i, session[ip].stateid, version[ip] - seen.version)

Sighted ==
  /\ \A c \in Client : learned[c] # None =>
       Known(learned[c].stateid, learned[c].ip, learned[c].seen)
  /\ \A m \in requests : Known(m.call.stateid, m.call.ip, m.call.seen)
  /\ \A r \in replies : Known(r.answer.stateid, r.answer.ip, r.answer.seen)

UamInv == Types /\ CallsOwn /\ Sighted /\ OwnAnswer /\ AsSeen
-----------------------------------------------------------------------------
LEMMA NoneApart ==
  /\ None \notin Session /\ None \notin Call /\ None \notin Answer /\ None \notin Serial
  /\ MaxStateid \in Nat /\ MaxStateid >= 1 /\ MaxCall \in Nat /\ MaxChange \in Nat /\ MaxLife \in Nat
BY UamAssumption

LEMMA NextInRange ==
  ASSUME NEW i \in Stateid
  PROVE  /\ NextStateid(i) \in 1 .. MaxStateid /\ NextStateid(i) \in Stateid
         /\ NextStateid(i) # 0
BY NoneApart DEF Stateid, NextStateid

LEMMA FoundTyped ==
  ASSUME Types, NEW ip \in IP
  PROVE  /\ Found(ip) \in Session /\ Found(ip).stateid \in Stateid /\ Found(ip).up \in BOOLEAN
         /\ session[ip] \in Session \cup {None}
         /\ session[ip] # None => Found(ip) = session[ip] /\ session[ip].stateid \in Stateid
         /\ session[ip] = None => Found(ip).stateid = 0
<1>1. 0 \in Stateid
  BY NoneApart DEF Stateid
<1>2. session[ip] \in Session \cup {None}
  BY DEF Types, UamTypeOK
<1> QED
  BY <1>1, <1>2 DEF Found, Session

(* What a step does to one session: nothing, a change, another state with  *)
(* the same id, or it forgets it.                                          *)
StaysAs(ip) ==
  session'[ip] = session[ip] /\ life'[ip] = life[ip] /\ version'[ip] = version[ip]

ChangesTo(ip) ==
  /\ session'[ip] \in Session /\ session'[ip].stateid = NextStateid(Found(ip).stateid)
  /\ life'[ip] = life[ip] /\ version'[ip] = version[ip] + 1

KeepsId(ip) ==
  /\ session'[ip] \in Session /\ session'[ip].stateid = Found(ip).stateid
  /\ life'[ip] = life[ip] /\ version'[ip] = version[ip]

Goes(ip) ==
  /\ session'[ip] = None /\ life'[ip] = life[ip] + 1 /\ version'[ip] = version[ip]

Moves(ip) == StaysAs(ip) \/ ChangesTo(ip) \/ KeepsId(ip) \/ Goes(ip)

SessionsTyped ==
  /\ session \in [IP -> Session \cup {None}]
  /\ life \in [IP -> 0 .. MaxLife] /\ version \in [IP -> 0 .. MaxChange]

LEMMA ChangesMoves ==
  ASSUME Types, NEW m \in requests, NEW up \in BOOLEAN, Changes(m, up)
  PROVE  SessionsTyped' /\ \A ip \in IP : Moves(ip)
<1>1. PICK q : q = m.call.ip /\ q \in IP
  BY DEF Types, Request, Call
<1>2. /\ Found(q).stateid \in Stateid /\ NextStateid(Found(q).stateid) \in Stateid
  BY <1>1, FoundTyped, NextInRange
<1>3. PICK s : s = [up |-> up, stateid |-> NextStateid(Found(q).stateid)]
  OBVIOUS
<1>4. s \in Session /\ s.stateid = NextStateid(Found(q).stateid)
  BY <1>2, <1>3 DEF Session
<1>5. /\ session' = [session EXCEPT ![q] = s] /\ life' = life
      /\ version' = [version EXCEPT ![q] = @ + 1] /\ version[q] < MaxChange
  BY <1>1, <1>3 DEF Changes
<1>6. SessionsTyped
  BY DEF Types, UamTypeOK, SessionsTyped
<1>7. version[q] + 1 \in 0 .. MaxChange
  BY <1>1, <1>5, <1>6, NoneApart DEF SessionsTyped
<1>8. SessionsTyped'
  BY <1>4, <1>5, <1>6, <1>7 DEF SessionsTyped
<1>9. ASSUME NEW ip \in IP PROVE Moves(ip)
  <2>1. CASE ip = q
    BY <1>1, <1>4, <1>5, <1>6, <2>1 DEF Moves, ChangesTo, SessionsTyped
  <2>2. CASE ip # q
    BY <1>5, <1>6, <2>2 DEF Moves, StaysAs, SessionsTyped
  <2> QED
    BY <2>1, <2>2
<1> QED
  BY <1>8, <1>9

(* The session of q is what it was, or was made, with the id it had or 0.  *)
LEMMA SameIdMoves ==
  ASSUME Types, NEW q \in IP, NEW s \in Session, s.stateid = Found(q).stateid,
         session' = [session EXCEPT ![q] = s], UNCHANGED <<life, version>>
  PROVE  SessionsTyped' /\ \A ip \in IP : Moves(ip)
<1>1. SessionsTyped
  BY DEF Types, UamTypeOK, SessionsTyped
<1>2. SessionsTyped'
  BY <1>1 DEF SessionsTyped
<1>3. ASSUME NEW ip \in IP PROVE Moves(ip)
  <2>1. CASE ip = q
    BY <1>1, <2>1 DEF Moves, KeepsId, SessionsTyped
  <2>2. CASE ip # q
    BY <1>1, <2>2 DEF Moves, StaysAs, SessionsTyped
  <2> QED
    BY <2>1, <2>2
<1> QED
  BY <1>2, <1>3

LEMMA FailsMoves ==
  ASSUME Types, NEW m \in requests, NEW up \in BOOLEAN, Fails(m, up)
  PROVE  SessionsTyped' /\ \A ip \in IP : Moves(ip)
<1>1. PICK q : q = m.call.ip /\ q \in IP
  BY DEF Types, Request, Call
<1>2. PICK s : s = [Found(q) EXCEPT !.up = up]
  OBVIOUS
<1>3. s \in Session /\ s.stateid = Found(q).stateid
  BY <1>1, <1>2, FoundTyped DEF Session
<1>4. session' = [session EXCEPT ![q] = s] /\ UNCHANGED <<life, version>>
  BY <1>1, <1>2 DEF Fails
<1> QED
  BY <1>1, <1>3, <1>4, SameIdMoves

LEMMA SessionMoves ==
  ASSUME Types, [UamNext]_uam
  PROVE  SessionsTyped' /\ \A ip \in IP : Moves(ip)
<1>1. CASE UNCHANGED sessions
  <2>1. SessionsTyped
    BY DEF Types, UamTypeOK, SessionsTyped
  <2> QED
    BY <1>1, <2>1 DEF sessions, SessionsTyped, Moves, StaysAs
<1>2. ASSUME NEW m \in requests, Serve(m) PROVE SessionsTyped' /\ \A ip \in IP : Moves(ip)
  <2>1. m.call.ip \in IP
    BY DEF Types, Request, Call
  <2>2. Found(m.call.ip).up \in BOOLEAN
    BY <2>1, FoundTyped
  <2>3. CASE ServeU(m)
    BY <2>2, <2>3, ChangesMoves, FailsMoves DEF ServeU
  <2>4. CASE ServeD(m)
    BY <2>4, ChangesMoves, FailsMoves DEF ServeD
  <2>5. CASE ServeR(m)
    <3>1. session[m.call.ip].up \in BOOLEAN
      BY <2>1, <2>2, <2>5, FoundTyped DEF ServeR
    <3> QED
      BY <2>5, <3>1, ChangesMoves DEF ServeR
  <2>6. CASE ServeS(m)
    <3>1. Found(m.call.ip) \in Session
      BY <2>1, FoundTyped
    <3>2. session' = [session EXCEPT ![m.call.ip] = Found(m.call.ip)] /\ UNCHANGED <<life, version>>
      BY <2>6 DEF ServeS
    <3> QED
      BY <2>1, <3>1, <3>2, SameIdMoves
  <2>7. CASE Mute(m)
    BY <1>1, <2>7 DEF Mute
  <2> QED
    BY <1>2, <2>3, <2>4, <2>5, <2>6, <2>7 DEF Serve
<1>3. ASSUME NEW ip \in IP, Limited(ip) PROVE SessionsTyped' /\ \A i \in IP : Moves(i)
  <2>1. PICK s : s = [session[ip] EXCEPT !.up = FALSE]
    OBVIOUS
  <2>2. session[ip] # None /\ session[ip] \in Session /\ Found(ip) = session[ip]
    BY <1>3, FoundTyped DEF Limited
  <2>3. s \in Session /\ s.stateid = Found(ip).stateid
    BY <2>1, <2>2 DEF Session
  <2>4. session' = [session EXCEPT ![ip] = s] /\ UNCHANGED <<life, version>>
    BY <1>3, <2>1 DEF Limited, Types, UamTypeOK
  <2> QED
    BY <2>3, <2>4, SameIdMoves
<1>4. ASSUME NEW ip \in IP, Forgotten(ip) PROVE SessionsTyped' /\ \A i \in IP : Moves(i)
  <2>1. SessionsTyped
    BY DEF Types, UamTypeOK, SessionsTyped
  <2>2. life[ip] + 1 \in 0 .. MaxLife
    BY <1>4, <2>1, NoneApart DEF SessionsTyped, Forgotten
  <2>3. SessionsTyped'
    BY <1>4, <2>1, <2>2 DEF SessionsTyped, Forgotten
  <2>4. ASSUME NEW i \in IP PROVE Moves(i)
    <3>1. CASE i = ip
      BY <1>4, <2>1, <3>1 DEF Moves, Goes, SessionsTyped, Forgotten
    <3>2. CASE i # ip
      BY <1>4, <2>1, <3>2 DEF Moves, StaysAs, SessionsTyped, Forgotten
    <3> QED
      BY <3>1, <3>2
  <2> QED
    BY <2>3, <2>4
<1>5. CASE \E c \in Client : \/ \E cmd \in Command, ip \in IP, serial \in Serial \cup {None},
                                   guard \in BOOLEAN : Send(c, cmd, ip, serial, guard)
                             \/ Timeout(c) \/ \E r \in replies : Receive(c, r)
  BY <1>1, <1>5 DEF Send, Timeout, Receive
<1>6. CASE UNCHANGED uam
  BY <1>1, <1>6 DEF uam, sessions
<1> QED
  BY <1>2, <1>3, <1>4, <1>5, <1>6 DEF UamNext

(* What is known of a session stays known.                                 *)
LEMMA KnownStays ==
  ASSUME Types, SessionsTyped', NEW ip \in IP, Moves(ip),
         NEW i \in Stateid, NEW seen \in Sighting, Known(i, ip, seen)
  PROVE  Known(i, ip, seen)'
<1>1. /\ life[ip] \in Nat /\ version[ip] \in Nat /\ seen.life \in Nat /\ seen.version \in Nat
      /\ life'[ip] \in Nat /\ version'[ip] \in Nat /\ i \in Nat
      /\ seen.life <= life[ip] /\ seen.version <= version[ip]
  BY NoneApart DEF Types, SessionsTyped, Sighting, Stateid, Known
<1>2. CASE StaysAs(ip)
  BY <1>2 DEF StaysAs, Known
<1>3. CASE Goes(ip)
  BY <1>1, <1>3 DEF Goes, Known
<1>4. CASE KeepsId(ip)
  <2>1. session'[ip] # None
    BY <1>4, NoneApart DEF KeepsId
  <2>2. session[ip] # None => session'[ip].stateid = session[ip].stateid
    BY <1>4, FoundTyped DEF KeepsId
  <2> QED
    BY <1>1, <1>4, <2>1, <2>2 DEF KeepsId, Known
<1>5. CASE ChangesTo(ip)
  <2>1. session'[ip] # None
    BY <1>5, NoneApart DEF ChangesTo
  <2>2. ASSUME i # 0, seen.life = life[ip]
        PROVE  Follows(i, session'[ip].stateid, version'[ip] - seen.version)
    <3>1. PICK s, d : s = session[ip].stateid /\ d = version[ip] - seen.version
      OBVIOUS
    <3>2. session[ip] # None /\ Follows(i, s, d)
      BY <2>2, <3>1 DEF Known
    <3>3. s \in Stateid /\ session'[ip].stateid = NextStateid(s)
      BY <1>5, <3>1, <3>2, FoundTyped DEF ChangesTo
    <3>4. d \in Nat /\ version'[ip] - seen.version = d + 1
      BY <1>1, <1>5, <3>1 DEF ChangesTo
    <3>5. Follows(i, NextStateid(s), d + 1)
      BY <1>1, <3>2, <3>3, <3>4, NoneApart DEF Follows, NextStateid, Stateid
    <3> QED
      BY <3>3, <3>4, <3>5
  <2>3. version'[ip] >= seen.version /\ life'[ip] = life[ip]
    BY <1>1, <1>5 DEF ChangesTo
  <2> QED
    BY <1>1, <2>1, <2>2, <2>3 DEF Known
<1> QED
  BY <1>2, <1>3, <1>4, <1>5 DEF Moves

(* What a step does to the datagrams on the way, and what it prints.       *)

LEMMA ArrivesTakes ==
  ASSUME requests \subseteq Request, NEW m \in requests, Arrives(m)
  PROVE  \A n \in requests' : n \in Request /\ \E k \in requests : n.from = k.from /\ n.call = k.call
<1>1. PICK o : o = [m EXCEPT !.copies = 1]
  OBVIOUS
<1>2. o \in Request /\ o.from = m.from /\ o.call = m.call
  BY <1>1 DEF Request
<1>3. \A n \in requests' : n \in requests \/ n = o
  BY <1>1 DEF Arrives
<1> QED
  BY <1>2, <1>3

(* An answer to m tells of the session it is about as it is now.           *)
IsAnswer(r, m, s, seen) ==
  /\ r \in Reply /\ r.to = m.from
  /\ r.answer.id = m.call.id /\ r.answer.ip = m.call.ip /\ r.answer.serial = m.call.serial
  /\ r.answer.stateid = s.stateid /\ r.answer.seen = seen

LEMMA AnswersIs ==
  ASSUME NEW m \in Request, NEW s \in Session, NEW seen \in Sighting, Answers(m, s, seen)
  PROVE  \A r \in replies' : r \in replies \/ IsAnswer(r, m, s, seen)
<1>1. PICK a : a = [id |-> m.call.id, ip |-> m.call.ip, serial |-> m.call.serial,
                    stateid |-> s.stateid, seen |-> seen]
  OBVIOUS
<1>2. PICK r : r = [to |-> m.from, answer |-> a]
  OBVIOUS
<1>3. a \in Answer
  BY <1>1 DEF Request, Call, Session, Answer
<1>4. IsAnswer(r, m, s, seen)
  BY <1>1, <1>2, <1>3 DEF IsAnswer, Reply, Request
<1>5. replies' = replies \cup {r}
  BY <1>1, <1>2 DEF Answers
<1> QED
  BY <1>4, <1>5

Tells(m, r) ==
  /\ session'[m.call.ip] \in Session
  /\ IsAnswer(r, m, session'[m.call.ip], [life |-> life'[m.call.ip], version |-> version'[m.call.ip]])

Makes(m) ==
  /\ m.call.stateid # 0 /\ Verified(m)
  /\ applied' = [seen |-> m.call.seen, at |-> Now(m.call.ip)]

LEMMA ChangesTells ==
  ASSUME Types, NEW m \in requests, NEW up \in BOOLEAN, Verified(m), Changes(m, up)
  PROVE  /\ UNCHANGED clients /\ printed' = None
         /\ \A r \in replies' : r \in replies \/ Tells(m, r)
         /\ applied' = None \/ Makes(m)
<1>1. m \in Request /\ m.call.ip \in IP
  BY DEF Types, Request, Call
<1>2. PICK q : q = m.call.ip /\ q \in IP
  BY <1>1
<1>3. PICK s : s = [up |-> up, stateid |-> NextStateid(Found(q).stateid)]
  OBVIOUS
<1>4. PICK seen : seen = [life |-> life[q], version |-> version'[q]]
  OBVIOUS
<1>5. s \in Session
  <2>1. NextStateid(Found(q).stateid) \in Stateid
    BY <1>2, FoundTyped, NextInRange
  <2> QED
    BY <1>3, <2>1 DEF Session
<1>6. /\ session' = [session EXCEPT ![q] = s] /\ life' = life
      /\ Answers(m, s, seen) /\ UNCHANGED clients /\ printed' = None
      /\ applied' = IF m.call.stateid = 0 THEN None ELSE [seen |-> m.call.seen, at |-> Now(q)]
  BY <1>2, <1>3, <1>4 DEF Changes
<1>7. session'[q] = s /\ seen = [life |-> life'[q], version |-> version'[q]]
  BY <1>2, <1>4, <1>6 DEF Types, UamTypeOK
<1>8. seen \in Sighting
  <2>1. life'[q] \in 0 .. MaxLife /\ version'[q] \in 0 .. MaxChange
    BY <1>2, ChangesMoves DEF SessionsTyped
  <2> QED
    BY <1>7, <2>1 DEF Sighting
<1>9. \A r \in replies' : r \in replies \/ IsAnswer(r, m, s, seen)
  BY <1>1, <1>5, <1>6, <1>8, AnswersIs
<1> QED
  BY <1>2, <1>5, <1>6, <1>7, <1>9 DEF Tells, Makes

LEMMA StatusTells ==
  ASSUME Types, NEW m \in requests, ServeS(m)
  PROVE  \A r \in replies' : r \in replies \/ Tells(m, r)
<1>1. m \in Request /\ m.call.ip \in IP
  BY DEF Types, Request, Call
<1>2. PICK q : q = m.call.ip /\ q \in IP
  BY <1>1
<1>3. Found(q) \in Session
  BY <1>2, FoundTyped
<1>4. /\ session' = [session EXCEPT ![q] = Found(q)] /\ life' = life /\ version' = version
      /\ Answers(m, Found(q), Now(q))
  BY <1>2 DEF ServeS
<1>5. /\ session'[q] = Found(q) /\ Now(q) = [life |-> life'[q], version |-> version'[q]]
      /\ Now(q) \in Sighting
  BY <1>2, <1>4 DEF Types, UamTypeOK, Now, Sighting
<1>6. \A r \in replies' : r \in replies \/ IsAnswer(r, m, Found(q), Now(q))
  BY <1>1, <1>3, <1>4, <1>5, AnswersIs
<1> QED
  BY <1>2, <1>3, <1>5, <1>6 DEF Tells

LEMMA ServeTells ==
  ASSUME Types, NEW m \in requests, Serve(m)
  PROVE  /\ UNCHANGED clients /\ printed' = None /\ Arrives(m)
         /\ \A r \in replies' : r \in replies \/ Tells(m, r)
         /\ applied' = None \/ Makes(m)
<1>1. m.call.ip \in IP
  BY DEF Types, Request, Call
<1>2. Found(m.call.ip).up \in BOOLEAN
  BY <1>1, FoundTyped
<1>3. CASE ServeU(m)
  <2>1. CASE Changes(m, TRUE)
    BY <1>3, <2>1, ChangesTells DEF ServeU, Takes
  <2>2. CASE Fails(m, Found(m.call.ip).up)
    BY <1>3, <2>2 DEF ServeU, Takes, Fails, Quiet
  <2> QED
    BY <1>3, <2>1, <2>2 DEF ServeU
<1>4. CASE ServeD(m)
  <2>1. CASE Changes(m, FALSE)
    BY <1>4, <2>1, ChangesTells DEF ServeD, Takes
  <2>2. CASE Fails(m, FALSE)
    BY <1>4, <2>2 DEF ServeD, Takes, Fails, Quiet
  <2> QED
    BY <1>4, <2>1, <2>2 DEF ServeD
<1>5. CASE ServeR(m)
  <2>1. session[m.call.ip].up \in BOOLEAN
    BY <1>1, <1>2, <1>5, FoundTyped DEF ServeR
  <2> QED
    BY <1>5, <2>1, ChangesTells DEF ServeR, Takes
<1>6. CASE ServeS(m)
  BY <1>6, StatusTells DEF ServeS, Takes, Quiet
<1>7. CASE Mute(m)
  BY <1>7 DEF Mute, Quiet
<1> QED
  BY <1>3, <1>4, <1>5, <1>6, <1>7 DEF Serve

(* A request as it is sent, with what its caller has learned or without.   *)
LEMMA SendMakes ==
  ASSUME Types, NEW c \in Client, NEW cmd \in Command, NEW ip \in IP,
         NEW serial \in Serial \cup {None}, NEW guard \in BOOLEAN, Send(c, cmd, ip, serial, guard)
  PROVE  /\ UNCHANGED <<sessions, replies, learned, spent>> /\ printed' = None /\ applied' = None
         /\ call[c] = None /\ calls' \in 0 .. MaxCall
         /\ \E m \in Call :
              /\ call' = [call EXCEPT ![c] = m] /\ m.serial = serial
              /\ \/ m.stateid = 0 /\ m.seen = Unseen
                 \/ /\ learned[c] # None /\ m.ip = learned[c].ip
                    /\ m.stateid = learned[c].stateid /\ m.seen = learned[c].seen
              /\ \A n \in requests' : n \in requests \/ (n \in Request /\ n.from = c /\ n.call = m)
<1>1. PICK m : m = [id |-> calls + 1, cmd |-> cmd, ip |-> ip, serial |-> serial,
                    stateid |-> IF guard THEN learned[c].stateid ELSE 0,
                    seen |-> IF guard THEN learned[c].seen ELSE Unseen]
  OBVIOUS
<1>2. /\ UNCHANGED <<sessions, replies, learned, spent>> /\ printed' = None /\ applied' = None
      /\ call[c] = None /\ calls < MaxCall /\ calls' = calls + 1
      /\ call' = [call EXCEPT ![c] = m]
      /\ guard => serial # None /\ learned[c] # None /\ learned[c].ip = ip
      /\ \E n \in {1, 2} : requests' = requests \cup {[from |-> c, call |-> m, copies |-> n]}
  BY <1>1 DEF Send, Quiet
<1>3. calls + 1 \in 1 .. MaxCall /\ calls' \in 0 .. MaxCall
  BY <1>2, NoneApart DEF Types, UamTypeOK
<1>4. ASSUME m \in Call
      PROVE  \A n \in requests' : n \in requests \/ (n \in Request /\ n.from = c /\ n.call = m)
  <2>1. PICK k \in {1, 2} : requests' = requests \cup {[from |-> c, call |-> m, copies |-> k]}
    BY <1>2
  <2>2. PICK o : o = [from |-> c, call |-> m, copies |-> k]
    OBVIOUS
  <2>3. o \in Request /\ o.from = c /\ o.call = m
    BY <1>4, <2>2 DEF Request
  <2> QED
    BY <2>1, <2>2, <2>3
<1>5. CASE guard
  <2>1. /\ learned[c] # None
        /\ learned[c] \in [ip : IP, stateid : Stateid, seen : Sighting]
    BY <1>2, <1>5 DEF Types, UamTypeOK
  <2>2. m \in Call /\ m.ip = learned[c].ip /\ m.stateid = learned[c].stateid /\ m.seen = learned[c].seen
    BY <1>1, <1>2, <1>3, <1>5, <2>1 DEF Call
  <2>3. \A n \in requests' : n \in requests \/ (n \in Request /\ n.from = c /\ n.call = m)
    BY <1>4, <2>2
  <2> QED
    BY <1>1, <1>2, <1>3, <2>1, <2>2, <2>3
<1>6. CASE ~guard
  <2>1. 0 \in Stateid /\ Unseen \in Sighting
    BY NoneApart DEF Stateid, Sighting, Unseen
  <2>2. m \in Call /\ m.stateid = 0 /\ m.seen = Unseen
    BY <1>1, <1>3, <1>6, <2>1 DEF Call
  <2>3. \A n \in requests' : n \in requests \/ (n \in Request /\ n.from = c /\ n.call = m)
    BY <1>4, <2>2
  <2> QED
    BY <1>1, <1>2, <1>3, <2>2, <2>3
<1> QED
  BY <1>5, <1>6

Learning == [ip : IP, stateid : Stateid, seen : Sighting]

LEMMA ReceiveTakes ==
  ASSUME Types, NEW c \in Client, NEW r \in replies, Receive(c, r)
  PROVE  /\ UNCHANGED <<sessions, requests, calls>> /\ applied' = None
         /\ call[c] \in Call /\ r.to = c /\ replies' \subseteq replies
         /\ \/ printed' = None /\ UNCHANGED <<call, learned, spent>>
            \/ /\ Mine(c, r.answer) /\ Ends(c)
               /\ printed' = [answer |-> r.answer, call |-> call[c], spent |-> spent[c]]
               /\ \/ learned' = learned
                  \/ \E l \in Learning :
                       /\ learned' = [learned EXCEPT ![c] = l]
                       /\ l.ip = r.answer.ip /\ l.stateid = r.answer.stateid
                       /\ l.seen = r.answer.seen
<1>1. r \in Reply /\ r.answer \in Answer /\ learned \in [Client -> Learning \cup {None}]
  BY DEF Types, UamTypeOK, Reply, Learning
<1>2. /\ UNCHANGED <<sessions, requests, calls>> /\ applied' = None
      /\ call[c] \in Call /\ r.to = c /\ replies' \subseteq replies
  BY DEF Receive, Types, UamTypeOK
<1>3. CASE Mine(c, r.answer)
  <2>1. PICK l : l = [ip |-> r.answer.ip, stateid |-> r.answer.stateid, seen |-> r.answer.seen]
    OBVIOUS
  <2>2. l \in Learning
    BY <1>1, <2>1 DEF Learning, Answer
  <2>3. learned' = learned \/ learned' = [learned EXCEPT ![c] = l]
    BY <1>1, <1>3, <2>1 DEF Receive
  <2> QED
    BY <1>2, <1>3, <2>1, <2>2, <2>3 DEF Receive
<1>4. CASE ~Mine(c, r.answer)
  BY <1>2, <1>4 DEF Receive
<1> QED
  BY <1>3, <1>4

LEMMA EndsTyped ==
  ASSUME Types, NEW c \in Client, call[c] # None, Ends(c)
  PROVE  /\ call' \in [Client -> Call \cup {None}]
         /\ spent' \in [Client -> SUBSET (Serial \cup {None})]
<1>1. call[c].serial \in Serial \cup {None}
  BY DEF Types, UamTypeOK, Call
<1> QED
  BY <1>1 DEF Types, UamTypeOK, Ends

ClientsTyped ==
  /\ requests \subseteq Request /\ replies \subseteq Reply
  /\ call \in [Client -> Call \cup {None}]
  /\ learned \in [Client -> Learning \cup {None}]
  /\ calls \in 0 .. MaxCall /\ spent \in [Client -> SUBSET (Serial \cup {None})]

LEMMA DatagramsTyped ==
  ASSUME Types, [UamNext]_uam
  PROVE  ClientsTyped'
<1>1. ClientsTyped
  BY DEF Types, UamTypeOK, Learning, ClientsTyped
<1>2. ASSUME NEW c \in Client, NEW cmd \in Command, NEW ip \in IP,
             NEW serial \in Serial \cup {None}, NEW guard \in BOOLEAN,
             Send(c, cmd, ip, serial, guard)
      PROVE  ClientsTyped'
  <2>1. PICK m \in Call :
          /\ call' = [call EXCEPT ![c] = m]
          /\ \A n \in requests' : n \in requests \/ (n \in Request /\ n.from = c /\ n.call = m)
    BY <1>2, SendMakes
  <2>2. UNCHANGED <<replies, learned, spent>> /\ calls' \in 0 .. MaxCall
    BY <1>2, SendMakes
  <2> QED
    BY <1>1, <2>1, <2>2 DEF ClientsTyped
<1>3. ASSUME NEW c \in Client, Timeout(c) PROVE ClientsTyped'
  BY <1>1, <1>3, EndsTyped DEF Timeout, ClientsTyped
<1>4. ASSUME NEW c \in Client, NEW r \in replies, Receive(c, r) PROVE ClientsTyped'
  <2>1. call[c] # None
    BY <1>4 DEF Receive
  <2>2. Ends(c) => /\ call' \in [Client -> Call \cup {None}]
                   /\ spent' \in [Client -> SUBSET (Serial \cup {None})]
    BY <2>1, EndsTyped
  <2> QED
    BY <1>1, <1>4, <2>2, ReceiveTakes DEF ClientsTyped
<1>5. ASSUME NEW m \in requests, Serve(m) PROVE ClientsTyped'
  <2>1. requests' \subseteq Request
    BY <1>1, <1>5, ServeTells, ArrivesTakes DEF ClientsTyped
  <2>2. replies' \subseteq Reply
    BY <1>1, <1>5, ServeTells DEF Tells, IsAnswer, ClientsTyped
  <2>3. UNCHANGED clients
    BY <1>5, ServeTells
  <2> QED
    BY <1>1, <2>1, <2>2, <2>3 DEF ClientsTyped, clients
<1>6. ASSUME NEW ip \in IP, Limited(ip) \/ Forgotten(ip) PROVE ClientsTyped'
  BY <1>1, <1>6 DEF Limited, Forgotten, ClientsTyped, clients
<1>7. CASE UNCHANGED uam
  BY <1>1, <1>7 DEF uam, ClientsTyped
<1> QED
  BY <1>2, <1>3, <1>4, <1>5, <1>6, <1>7 DEF UamNext

LEMMA TypesKept ==
  ASSUME Types, [UamNext]_uam PROVE Types'
<1>1. SessionsTyped' /\ \A ip \in IP : Moves(ip)
  BY SessionMoves
<1>2. ASSUME NEW ip \in IP
      PROVE  /\ session'[ip] # None /\ session'[ip].stateid = 0 =>
                  version'[ip] = 0 \/ life'[ip] > 0
             /\ session'[ip] = None /\ life'[ip] = 0 => version'[ip] = 0
  <2>1. life[ip] \in Nat /\ version[ip] \in Nat
    BY NoneApart DEF Types
  <2>2. /\ session[ip] # None /\ session[ip].stateid = 0 => version[ip] = 0 \/ life[ip] > 0
        /\ session[ip] = None /\ life[ip] = 0 => version[ip] = 0
    BY DEF Types, UamTypeOK
  <2>3. CASE StaysAs(ip)
    BY <2>2, <2>3 DEF StaysAs
  <2>4. CASE ChangesTo(ip)
    BY <2>4, FoundTyped, NextInRange, NoneApart DEF ChangesTo
  <2>5. CASE KeepsId(ip)
    BY <2>1, <2>2, <2>5, FoundTyped, NoneApart DEF KeepsId
  <2>6. CASE Goes(ip)
    BY <2>1, <2>6 DEF Goes
  <2> QED
    BY <1>1, <2>3, <2>4, <2>5, <2>6 DEF Moves
<1>3. /\ requests' \subseteq Request /\ replies' \subseteq Reply
      /\ call' \in [Client -> Call \cup {None}]
      /\ learned' \in [Client -> Learning \cup {None}]
      /\ calls' \in 0 .. MaxCall /\ spent' \in [Client -> SUBSET (Serial \cup {None})]
  BY DatagramsTyped DEF ClientsTyped
<1>4. /\ \A m \in requests' : m.from \in Client /\ m.call \in Call /\ m.copies \in {1, 2}
      /\ \A r \in replies' : r.to \in Client /\ r.answer \in Answer
  BY <1>3 DEF Request, Reply
<1>5. UamTypeOK'
  BY <1>1, <1>2, <1>3, <1>4 DEF UamTypeOK, SessionsTyped, Learning
<1> QED
  BY <1>1, <1>2, <1>3, <1>5 DEF Types, SessionsTyped

(* Requests and answers on the way are of the calls their clients make or  *)
(* made, and what is printed is the answer to the call.                    *)
LEMMA CallsOwnKept ==
  ASSUME Types, CallsOwn, OwnAnswer, [UamNext]_uam
  PROVE  CallsOwn' /\ OwnAnswer'
<1>1. ASSUME NEW c \in Client, NEW cmd \in Command, NEW ip \in IP,
             NEW serial \in Serial \cup {None}, NEW guard \in BOOLEAN,
             Send(c, cmd, ip, serial, guard)
      PROVE  CallsOwn' /\ OwnAnswer'
  <2>1. PICK m \in Call :
          /\ call' = [call EXCEPT ![c] = m] /\ m.serial = serial
          /\ \A n \in requests' : n \in requests \/ (n \in Request /\ n.from = c /\ n.call = m)
    BY <1>1, SendMakes
  <2>2. UNCHANGED <<replies, spent>> /\ printed' = None /\ call[c] = None /\ m # None
    BY <1>1, SendMakes, NoneApart
  <2>3. call \in [Client -> Call \cup {None}]
    BY DEF Types, UamTypeOK
  <2>4. \A n \in requests : Own(n.from, n.call.id, n.call.serial)'
    BY <2>1, <2>2, <2>3 DEF CallsOwn, Own
  <2>5. \A r \in replies : Own(r.to, r.answer.id, r.answer.serial)'
    BY <2>1, <2>2, <2>3 DEF CallsOwn, Own
  <2>6. Own(c, m.id, m.serial)'
    BY <2>1, <2>2, <2>3 DEF Own
  <2> QED
    BY <2>1, <2>2, <2>4, <2>5, <2>6 DEF CallsOwn, OwnAnswer
<1>2. ASSUME NEW c \in Client, call[c] # None, Ends(c),
             UNCHANGED requests, replies' \subseteq replies
      PROVE  CallsOwn'
  <2>1. call \in [Client -> Call \cup {None}] /\ spent \in [Client -> SUBSET (Serial \cup {None})]
    BY DEF Types, UamTypeOK
  <2>2. ASSUME NEW d \in Client, NEW id, NEW serial, Own(d, id, serial) PROVE Own(d, id, serial)'
    BY <1>2, <2>1, <2>2 DEF Ends, Own
  <2>3. \A m \in requests : m.from \in Client /\ \A r \in replies : r.to \in Client
    BY DEF Types, UamTypeOK
  <2>4. \A m \in requests : Own(m.from, m.call.id, m.call.serial)'
    BY <2>2 DEF CallsOwn, Types, UamTypeOK
  <2>5. \A r \in replies : Own(r.to, r.answer.id, r.answer.serial)'
    BY <2>2 DEF CallsOwn, Types, UamTypeOK
  <2> QED
    BY <1>2, <2>4, <2>5 DEF CallsOwn
<1>3. ASSUME NEW c \in Client, Timeout(c) PROVE CallsOwn' /\ OwnAnswer'
  BY <1>2, <1>3 DEF Timeout, Quiet, OwnAnswer
<1>4. ASSUME NEW c \in Client, NEW r \in replies, Receive(c, r) PROVE CallsOwn' /\ OwnAnswer'
  <2>1. /\ call[c] \in Call /\ call[c] # None /\ r.to = c
        /\ replies' \subseteq replies /\ UNCHANGED requests
    BY <1>4, ReceiveTakes, NoneApart
  <2>2. CASE printed' = None /\ UNCHANGED <<call, learned, spent>>
    BY <2>1, <2>2 DEF CallsOwn, Own, OwnAnswer
  <2>3. CASE /\ Mine(c, r.answer) /\ Ends(c)
             /\ printed' = [answer |-> r.answer, call |-> call[c], spent |-> spent[c]]
    <3>1. CallsOwn'
      BY <1>2, <2>1, <2>3
    <3>2. Own(c, r.answer.id, r.answer.serial)
      BY <2>1 DEF CallsOwn
    <3>3. OwnAnswer'
      BY <2>3, <3>2 DEF OwnAnswer, Own, Mine
    <3> QED
      BY <3>1, <3>3
  <2> QED
    BY <1>4, <2>2, <2>3, ReceiveTakes
<1>5. ASSUME NEW m \in requests, Serve(m) PROVE CallsOwn' /\ OwnAnswer'
  <2>1. /\ UNCHANGED <<call, spent>> /\ printed' = None
        /\ \A r \in replies' : r \in replies \/ Tells(m, r)
    BY <1>5, ServeTells DEF clients
  <2>2. \A n \in requests' : \E k \in requests : n.from = k.from /\ n.call = k.call
    BY <1>5, ServeTells, ArrivesTakes DEF Types
  <2>3. \A n \in requests' : Own(n.from, n.call.id, n.call.serial)'
    BY <2>1, <2>2 DEF CallsOwn, Own
  <2>4. \A r \in replies' : Own(r.to, r.answer.id, r.answer.serial)'
    BY <2>1 DEF CallsOwn, Own, Tells, IsAnswer
  <2> QED
    BY <2>1, <2>3, <2>4 DEF CallsOwn, OwnAnswer
<1>6. ASSUME NEW ip \in IP, Limited(ip) \/ Forgotten(ip) PROVE CallsOwn' /\ OwnAnswer'
  BY <1>6 DEF Limited, Forgotten, Quiet, clients, CallsOwn, Own, OwnAnswer
<1>7. CASE UNCHANGED uam
  BY <1>7 DEF uam, CallsOwn, Own, OwnAnswer
<1> QED
  BY <1>1, <1>3, <1>4, <1>5, <1>6, <1>7 DEF UamNext

(* What clients have read of sessions, and ask for, they know.             *)
LEMMA SightedKept ==
  ASSUME Types, Sighted, [UamNext]_uam PROVE Sighted'
<1>1. SessionsTyped' /\ \A ip \in IP : Moves(ip)
  BY SessionMoves
<1>2. ASSUME NEW i \in Stateid, NEW ip \in IP, NEW seen \in Sighting, Known(i, ip, seen)
      PROVE  Known(i, ip, seen)'
  BY <1>1, <1>2, KnownStays
<1>3. ASSUME NEW c \in Client, NEW l, l = learned[c], l # None
      PROVE  Known(l.stateid, l.ip, l.seen)'
  <2>1. l.ip \in IP /\ l.stateid \in Stateid /\ l.seen \in Sighting
    BY <1>3 DEF Types, UamTypeOK
  <2> QED
    BY <1>2, <1>3, <2>1 DEF Sighted
<1>4. \A m \in requests : Known(m.call.stateid, m.call.ip, m.call.seen)'
  <2>1. \A m \in requests : m.call.stateid \in Stateid /\ m.call.ip \in IP /\ m.call.seen \in Sighting
    BY DEF Types, Request, Call
  <2> QED
    BY <1>2, <2>1 DEF Sighted
<1>5. \A r \in replies : Known(r.answer.stateid, r.answer.ip, r.answer.seen)'
  <2>1. \A r \in replies : /\ r.answer.stateid \in Stateid /\ r.answer.ip \in IP
                           /\ r.answer.seen \in Sighting
    BY DEF Types, Reply, Answer
  <2> QED
    BY <1>2, <2>1 DEF Sighted
<1>6. ASSUME NEW c \in Client, NEW cmd \in Command, NEW ip \in IP,
             NEW serial \in Serial \cup {None}, NEW guard \in BOOLEAN,
             Send(c, cmd, ip, serial, guard)
      PROVE  Sighted'
  <2>1. PICK m \in Call :
          /\ \/ m.stateid = 0 /\ m.seen = Unseen
             \/ /\ learned[c] # None /\ m.ip = learned[c].ip
                /\ m.stateid = learned[c].stateid /\ m.seen = learned[c].seen
          /\ \A n \in requests' : n \in requests \/ (n \in Request /\ n.from = c /\ n.call = m)
    BY <1>6, SendMakes
  <2>2. UNCHANGED <<sessions, replies, learned>>
    BY <1>6, SendMakes
  <2>3. Known(m.stateid, m.ip, m.seen)'
    <3>1. CASE m.stateid = 0 /\ m.seen = Unseen
      <4>1. m.ip \in IP
        BY DEF Call
      <4>2. life'[m.ip] \in Nat /\ version'[m.ip] \in Nat
        BY <1>1, <4>1, NoneApart DEF SessionsTyped
      <4> QED
        BY <3>1, <4>2 DEF Known, Unseen
    <3>2. CASE /\ learned[c] # None /\ m.ip = learned[c].ip
               /\ m.stateid = learned[c].stateid /\ m.seen = learned[c].seen
      <4>1. PICK l : l = learned[c]
        OBVIOUS
      <4> QED
        BY <1>3, <3>2, <4>1
    <3> QED
      BY <2>1, <3>1, <3>2
  <2> QED
    BY <1>3, <1>4, <1>5, <2>1, <2>2, <2>3 DEF Sighted
<1>7. ASSUME NEW c \in Client, Timeout(c) PROVE Sighted'
  BY <1>3, <1>4, <1>5, <1>7 DEF Timeout, Sighted
<1>8. ASSUME NEW c \in Client, NEW r \in replies, Receive(c, r) PROVE Sighted'
  <2>1. UNCHANGED requests /\ replies' \subseteq replies
    BY <1>8, ReceiveTakes
  <2>2. CASE learned' = learned
    BY <1>3, <1>4, <1>5, <2>1, <2>2 DEF Sighted
  <2>3. CASE \E l \in Learning : /\ learned' = [learned EXCEPT ![c] = l]
                                 /\ l.ip = r.answer.ip /\ l.stateid = r.answer.stateid
                                 /\ l.seen = r.answer.seen
    <3>1. PICK l \in Learning : /\ learned' = [learned EXCEPT ![c] = l]
                                /\ l.ip = r.answer.ip /\ l.stateid = r.answer.stateid
                                /\ l.seen = r.answer.seen
      BY <2>3
    <3>2. \A d \in Client : learned'[d] = learned[d] \/ learned'[d] = l
      BY <3>1 DEF Types, UamTypeOK
    <3>3. Known(l.stateid, l.ip, l.seen)'
      BY <1>5, <3>1
    <3> QED
      BY <1>3, <1>4, <1>5, <2>1, <3>2, <3>3 DEF Sighted
  <2> QED
    BY <1>8, <2>2, <2>3, ReceiveTakes
<1>9. ASSUME NEW m \in requests, Serve(m) PROVE Sighted'
  <2>1. \A n \in requests' : \E k \in requests : n.call = k.call
    BY <1>9, ServeTells, ArrivesTakes DEF Types
  <2>2. /\ learned' = learned
        /\ \A r \in replies' : r \in replies \/ Tells(m, r)
    BY <1>9, ServeTells DEF clients
  <2>3. ASSUME NEW r, Tells(m, r) PROVE Known(r.answer.stateid, r.answer.ip, r.answer.seen)'
    <3>1. PICK q : q = m.call.ip /\ q \in IP
      BY DEF Types, Request, Call
    <3>2. /\ session'[q] \in Session /\ r.answer.ip = q
          /\ r.answer.stateid = session'[q].stateid
          /\ r.answer.seen = [life |-> life'[q], version |-> version'[q]]
      BY <2>3, <3>1 DEF Tells, IsAnswer
    <3>3. life'[q] \in Nat /\ version'[q] \in Nat /\ session'[q].stateid \in 0 .. MaxStateid
      BY <1>1, <3>1, <3>2, NoneApart DEF SessionsTyped, Session, Stateid
    <3>4. session'[q].stateid # 0 =>
            Follows(session'[q].stateid, session'[q].stateid, version'[q] - version'[q])
      BY <3>3, NoneApart DEF Follows
    <3>5. session'[q] # None
      BY <3>2, NoneApart
    <3> QED
      BY <3>2, <3>3, <3>4, <3>5 DEF Known
  <2>4. \A m2 \in requests' : Known(m2.call.stateid, m2.call.ip, m2.call.seen)'
    BY <1>4, <2>1
  <2>5. \A r \in replies' : Known(r.answer.stateid, r.answer.ip, r.answer.seen)'
    BY <1>5, <2>2, <2>3
  <2> QED
    BY <1>3, <2>2, <2>4, <2>5 DEF Sighted
<1>10. ASSUME NEW ip \in IP, Limited(ip) \/ Forgotten(ip) PROVE Sighted'
  BY <1>3, <1>4, <1>5, <1>10 DEF Limited, Forgotten, Sighted, clients
<1>11. CASE UNCHANGED uam
  BY <1>3, <1>4, <1>5, <1>11 DEF uam, Sighted
<1> QED
  BY <1>6, <1>7, <1>8, <1>9, <1>10, <1>11 DEF UamNext

(* A change is made to a session its caller knows.                         *)
LEMMA AsSeenKept ==
  ASSUME Types, Sighted, AsSeen, [UamNext]_uam PROVE AsSeen'
<1>1. UamTypeOK'
  BY TypesKept DEF Types
<1>2. CASE applied' = None
  BY <1>1, <1>2 DEF AsSeen
<1>3. CASE applied' = applied
  BY <1>1, <1>3 DEF AsSeen
<1>4. ASSUME NEW m \in requests, Makes(m) PROVE AsSeen'
  <2>1. PICK q : q = m.call.ip /\ q \in IP
    BY DEF Types, Request, Call
  <2>2. PICK i, seen : i = m.call.stateid /\ seen = m.call.seen
    OBVIOUS
  <2>3. i \in Stateid /\ i # 0 /\ seen \in Sighting /\ Known(i, q, seen)
    BY <1>4, <2>1, <2>2 DEF Types, Request, Call, Makes, Sighted
  <2>4. /\ life[q] \in Nat /\ version[q] \in Nat /\ seen.life \in Nat /\ seen.version \in Nat
        /\ i \in 1 .. MaxStateid
    BY <2>1, <2>3, NoneApart DEF Types, Sighting, Stateid
  <2>5. /\ applied'.seen = seen /\ applied'.at.life = life[q] /\ applied'.at.version = version[q]
    BY <1>4, <2>1, <2>2 DEF Makes, Now
  <2>6. ASSUME seen.life = life[q], version[q] - seen.version < MaxStateid
        PROVE  seen.version = version[q]
    <3>1. PICK d : d = version[q] - seen.version
      OBVIOUS
    <3>2. /\ session[q] # None /\ Follows(i, session[q].stateid, d)
          /\ seen.version <= version[q]
      BY <2>3, <2>6, <3>1 DEF Known
    <3>3. session[q].stateid = i
      BY <1>4, <2>1, <2>2, <2>3, <3>2 DEF Makes, Verified
    <3>4. d \in Nat
      BY <2>4, <3>1, <3>2
    <3>5. d = 0
      BY <2>4, <2>6, <3>1, <3>2, <3>3, <3>4, NoneApart DEF Follows
    <3> QED
      BY <2>4, <3>1, <3>5
  <2>7. \/ applied'.seen.life # applied'.at.life
        \/ applied'.at.version - applied'.seen.version >= MaxStateid
        \/ applied'.seen.version = applied'.at.version
    BY <2>4, <2>5, <2>6, NoneApart
  <2> QED
    BY <1>1, <2>7 DEF AsSeen
<1>5. \/ applied' = None \/ applied' = applied
      \/ \E m \in requests : Makes(m)
  <2>1. ASSUME NEW c \in Client, NEW cmd \in Command, NEW ip \in IP,
               NEW serial \in Serial \cup {None}, NEW guard \in BOOLEAN,
               Send(c, cmd, ip, serial, guard)
        PROVE  applied' = None
    BY <2>1 DEF Send, Quiet
  <2>2. ASSUME NEW c \in Client, Timeout(c) \/ \E r \in replies : Receive(c, r)
        PROVE  applied' = None
    BY <2>2 DEF Timeout, Receive, Quiet
  <2>3. ASSUME NEW m \in requests, Serve(m) PROVE applied' = None \/ Makes(m)
    BY <2>3, ServeTells
  <2>4. ASSUME NEW ip \in IP, Limited(ip) \/ Forgotten(ip) PROVE applied' = None
    BY <2>4 DEF Limited, Forgotten, Quiet
  <2> QED
    BY <2>1, <2>2, <2>3, <2>4 DEF UamNext, uam
<1> QED
  BY <1>2, <1>3, <1>4, <1>5
-----------------------------------------------------------------------------
(* What is on the way belongs to calls, what clients know of sessions is   *)
(* so, and the two properties of the protocol hold (uamsrv.c, uamclt.c).   *)
THEOREM UamInvariant == UamSpec => []UamInv
<1>1. UamInit => UamInv
  <2> SUFFICES ASSUME UamInit PROVE UamInv
    OBVIOUS
  <2>1. 0 \in 0 .. MaxCall /\ 0 \in 0 .. MaxLife /\ 0 \in 0 .. MaxChange
    BY NoneApart
  <2>2. Types
    BY <2>1 DEF UamInit, Types, UamTypeOK
  <2>3. CallsOwn /\ Sighted /\ OwnAnswer /\ AsSeen
    BY <2>2 DEF UamInit, CallsOwn, Sighted, OwnAnswer, AsSeen, Types
  <2> QED
    BY <2>2, <2>3 DEF UamInv
<1>2. UamInv /\ [UamNext]_uam => UamInv'
  BY TypesKept, CallsOwnKept, SightedKept, AsSeenKept DEF UamInv
<1> QED
  BY <1>1, <1>2, PTL DEF UamSpec

(* OwnAnswer, for any number of clients and datagrams: a client that gives *)
(* a serial its socket had not used before never prints the answer to      *)
(* another request, in whatever order and however late answers come        *)
(* (sweetuam.c:180-205).                                                   *)
THEOREM AnswersAreOwn == UamSpec => []OwnAnswer
BY UamInvariant, PTL DEF UamInv

(* AsSeen, for any number of clients, state ids and changes: a change with *)
(* a state id is made once, and to the session as its caller has seen it,  *)
(* until the session is forgotten or the ids come round                    *)
(* (session.c:521-568).                                                    *)
THEOREM ChangesAreAsSeen == UamSpec => []AsSeen
BY UamInvariant, PTL DEF UamInv
=============================================================================
