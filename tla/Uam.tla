--------------------------------- MODULE Uam ---------------------------------
(***************************************************************************)
(* The user authentication protocol (uamsrv.c, uamclt.c, uammsg.c,         *)
(* sweetuam.c).  A client sends its request to every server of a group, by *)
(* UDP.  The one whose networks the address is in carries it out and       *)
(* answers; the others fail, undo what they did and are mute, and are left *)
(* out here.  A client with a serial waits for the answer that has it; a   *)
(* change with a state id is only made if the session still has this id.   *)
(*                                                                         *)
(* One thread of the server handles requests (uam-thread-qnty 1), and a    *)
(* request is one step: the interleaving of the calls it makes is Session. *)
(* Errors are not reported, as doc/sweetspot.html asks for groups.         *)
(*                                                                         *)
(* Abstractions: a request is its command, address, serial and state id;   *)
(* U and D stand for themselves, R for a new retention, S for what only    *)
(* reads.  A client is a socket and its uses one after another: uamclt.c   *)
(* binds to any port, which may have had an earlier client, and the Python *)
(* module of doc/ keeps one socket.  A datagram is lost by never arriving. *)
(* id, seen, life, version, spent and applied are history.                 *)
(***************************************************************************)
EXTENDS Naturals, FiniteSets

CONSTANTS
  Client,    \* sockets of clients
  IP,        \* addresses of users
  Serial,    \* serial numbers
  Command,   \* requests that are made
  MaxStateid,\* 0x7fffffff
  MaxCall,   \* bound on the requests
  MaxChange, \* bound on the changes of sessions
  MaxLife,   \* bound on how often sessions are forgotten
  None       \* no session, no serial, no request

Stateid == 0 .. MaxStateid
Sighting == [life : 0 .. MaxLife, version : 0 .. MaxChange]
Session == [up : BOOLEAN, stateid : Stateid]
Call == [id : 1 .. MaxCall, cmd : Command, ip : IP, serial : Serial \cup {None},
         stateid : Stateid, seen : Sighting]
Answer == [id : 1 .. MaxCall, ip : IP, serial : Serial \cup {None}, stateid : Stateid,
           seen : Sighting]

ASSUME UamAssumption ==
  /\ None \notin Serial /\ Command \subseteq {"U", "D", "R", "S"}
  /\ MaxStateid \in Nat \ {0} /\ MaxCall \in Nat /\ MaxChange \in Nat /\ MaxLife \in Nat
  /\ None \notin Session \cup Call \cup Answer

VARIABLES
  session,  \* sw_session_entry_t of each address, at its home
  requests, \* datagrams on the way to the server: [from, call, copies]
  replies,  \* and to clients: [to, answer]
  call,     \* what each client waits for, or None
  learned,  \* the last state id its caller read, with its address
  life,     \* how often each session was forgotten
  version,  \* how often it was changed
  calls,    \* how many requests there were
  spent,    \* serials of earlier requests of each client
  printed,  \* the answer printed by the last step, with its request
  applied   \* the change with a state id made by it: what was seen, and when

uam == <<session, requests, replies, call, learned, life, version, calls, spent, printed, applied>>
sessions == <<session, life, version>>
clients == <<call, learned, calls, spent>>
Quiet == printed' = None /\ applied' = None

Now(ip) == [life |-> life[ip], version |-> version[ip]]
Unseen == [life |-> 0, version |-> 0]
-----------------------------------------------------------------------------
(* A client *)

(* A caller gives the state id it read last, or 0 for any.  A datagram may *)
(* arrive twice; without an id that is as if there had been two calls.     *)
Send(c, cmd, ip, serial, guard) ==
  LET m == [id |-> calls + 1, cmd |-> cmd, ip |-> ip, serial |-> serial,
            stateid |-> IF guard THEN learned[c].stateid ELSE 0,
            seen |-> IF guard THEN learned[c].seen ELSE Unseen]
  IN
  /\ call[c] = None /\ calls < MaxCall
  /\ guard => serial # None /\ learned[c] # None /\ learned[c].ip = ip
  /\ \E n \in IF guard THEN {1, 2} ELSE {1} :
       requests' = requests \cup {[from |-> c, call |-> m, copies |-> n]}
  /\ call' = [call EXCEPT ![c] = m]
  /\ calls' = calls + 1
  /\ Quiet
  /\ UNCHANGED <<sessions, replies, learned, spent>>

(* Mutant of Mine: the serial is not looked at.                            *)
MineAny(c, a) == TRUE

(* A client without a serial takes the first datagram it gets.             *)
Mine(c, a) == call[c].serial = None \/ a.serial = call[c].serial

Ends(c) ==
  /\ call' = [call EXCEPT ![c] = None]
  /\ spent' = [spent EXCEPT ![c] = @ \cup {call[c].serial}]

(* sw_uam_recv_msg in the loop of main.  Only an answer to a request with  *)
(* a serial has a state id.                                                *)
Receive(c, r) ==
  /\ call[c] # None /\ r \in replies /\ r.to = c
  /\ replies' = replies \ {r}
  /\ IF Mine(c, r.answer)
     THEN /\ printed' = [answer |-> r.answer, call |-> call[c], spent |-> spent[c]]
          /\ learned' = [learned EXCEPT ![c] =
               IF r.answer.serial = None THEN @
               ELSE [ip |-> r.answer.ip, stateid |-> r.answer.stateid, seen |-> r.answer.seen]]
          /\ Ends(c)
     ELSE printed' = None /\ UNCHANGED <<call, learned, spent>>
  /\ applied' = None
  /\ UNCHANGED <<sessions, requests, calls>>

Timeout(c) ==
  /\ call[c] # None
  /\ Ends(c) /\ Quiet
  /\ UNCHANGED <<sessions, requests, replies, learned, calls>>
-----------------------------------------------------------------------------
(* A server: __proc.  m is the request it takes from its socket.           *)

Arrives(m) ==
  requests' = (requests \ {m}) \cup (IF m.copies = 1 THEN {} ELSE {[m EXCEPT !.copies = 1]})

Takes(m, cmd) ==
  /\ m \in requests /\ m.call.cmd = cmd
  /\ Arrives(m)

(* Mutant of Verified: any id will do.                                     *)
VerifiedAny(m) == TRUE

(* sw_session_verify_stateid: what has no session is not verified.         *)
Verified(m) ==
  LET s == session[m.call.ip] IN s # None => m.call.stateid \in {0, s.stateid}

(* sw_session_new *)
Found(ip) == IF session[ip] = None THEN [up |-> FALSE, stateid |-> 0] ELSE session[ip]

(* sw_session_acquire_stateid *)
NextStateid(i) == IF i = MaxStateid THEN 1 ELSE i + 1

(* The answer, with the state id of s.                                     *)
Answers(m, s, seen) ==
  replies' = replies \cup
    {[to |-> m.from, answer |-> [id |-> m.call.id, ip |-> m.call.ip, serial |-> m.call.serial,
                                 stateid |-> s.stateid, seen |-> seen]]}

(* A change that succeeds: the session is up or not, has the next state id *)
(* and answers with it.                                                    *)
Changes(m, up) ==
  LET q == m.call
      s == [up |-> up, stateid |-> NextStateid(Found(q.ip).stateid)]
  IN
  /\ version[q.ip] < MaxChange
  /\ session' = [session EXCEPT ![q.ip] = s]
  /\ version' = [version EXCEPT ![q.ip] = @ + 1]
  /\ applied' = IF q.stateid = 0 THEN None ELSE [seen |-> q.seen, at |-> Now(q.ip)]
  /\ printed' = None
  /\ Answers(m, s, [life |-> life[q.ip], version |-> version'[q.ip]])
  /\ UNCHANGED <<life, clients>>

(* One that fails, because no filter has its name, has come as far as to   *)
(* make the session, or to stop it.                                        *)
Fails(m, up) ==
  LET ip == m.call.ip IN
  /\ session' = [session EXCEPT ![ip] = [Found(ip) EXCEPT !.up = up]]
  /\ Quiet
  /\ UNCHANGED <<life, version, replies, clients>>

ServeU(m) ==
  /\ Takes(m, "U") /\ Verified(m)
  /\ Changes(m, TRUE) \/ Fails(m, Found(m.call.ip).up)

ServeD(m) ==
  /\ Takes(m, "D") /\ Verified(m)
  /\ Changes(m, FALSE) \/ Fails(m, FALSE)

(* sw_session_retention makes no session.                                  *)
ServeR(m) ==
  /\ Takes(m, "R") /\ Verified(m)
  /\ session[m.call.ip] # None
  /\ Changes(m, session[m.call.ip].up)

(* sw_session_status does.                                                 *)
ServeS(m) ==
  LET ip == m.call.ip IN
  /\ Takes(m, "S")
  /\ session' = [session EXCEPT ![ip] = Found(ip)]
  /\ Answers(m, Found(ip), Now(ip))
  /\ Quiet
  /\ UNCHANGED <<life, version, clients>>

(* A request that fails and leaves nothing behind is not answered: its     *)
(* state id is not the session's, or a retention has no session.           *)
Mute(m) ==
  /\ m \in requests /\ Arrives(m)
  /\ \/ m.call.cmd \in {"U", "D", "R"} /\ ~Verified(m)
     \/ m.call.cmd = "R" /\ session[m.call.ip] = None
  /\ Quiet
  /\ UNCHANGED <<sessions, replies, clients>>

Serve(m) == ServeU(m) \/ ServeD(m) \/ ServeR(m) \/ ServeS(m) \/ Mute(m)
-----------------------------------------------------------------------------
(* The session itself: a limit ends its traffic, and the maintenance       *)
(* thread forgets it some time after that.  (A packet may make it, as S.)  *)

Limited(ip) ==
  /\ session[ip] # None /\ session[ip].up
  /\ session' = [session EXCEPT ![ip].up = FALSE]
  /\ Quiet
  /\ UNCHANGED <<requests, replies, clients, life, version>>

Forgotten(ip) ==
  /\ session[ip] # None /\ ~session[ip].up /\ life[ip] < MaxLife
  /\ session' = [session EXCEPT ![ip] = None]
  /\ life' = [life EXCEPT ![ip] = @ + 1]
  /\ Quiet
  /\ UNCHANGED <<requests, replies, clients, version>>
-----------------------------------------------------------------------------
UamInit ==
  /\ session = [ip \in IP |-> None]
  /\ requests = {} /\ replies = {}
  /\ call = [c \in Client |-> None]
  /\ learned = [c \in Client |-> None] /\ calls = 0
  /\ life = [ip \in IP |-> 0] /\ version = [ip \in IP |-> 0]
  /\ spent = [c \in Client |-> {}] /\ printed = None /\ applied = None

UamNext ==
  \/ \E c \in Client, cmd \in Command, ip \in IP, serial \in Serial \cup {None},
        guard \in BOOLEAN : Send(c, cmd, ip, serial, guard)
  \/ \E c \in Client : Timeout(c) \/ \E r \in replies : Receive(c, r)
  \/ \E m \in requests : Serve(m)
  \/ \E ip \in IP : Limited(ip) \/ Forgotten(ip)

UamSpec == UamInit /\ [][UamNext]_uam
-----------------------------------------------------------------------------
(* Properties *)

(* Types; a session that was changed never has the id 0 again, which a     *)
(* client sends to ask for no verification (session.c:556-560).            *)
UamTypeOK ==
  /\ session \in [IP -> Session \cup {None}]
  /\ \A ip \in IP : session[ip] # None /\ session[ip].stateid = 0 =>
       version[ip] = 0 \/ life[ip] > 0
  /\ call \in [Client -> Call \cup {None}]
  /\ learned \in [Client -> [ip : IP, stateid : Stateid, seen : Sighting] \cup {None}]
  /\ \A m \in requests : m.from \in Client /\ m.call \in Call /\ m.copies \in {1, 2}
  /\ \A r \in replies : r.to \in Client /\ r.answer \in Answer
  /\ calls \in 0 .. MaxCall /\ spent \in [Client -> SUBSET (Serial \cup {None})]

(* A client that gave a serial its socket had not used before prints the   *)
(* answer to its own request, however late and often answers to others     *)
(* come (sweetuam.c:180-205).                                              *)
OwnAnswer ==
  printed # None /\ printed.call.serial \notin printed.spent \cup {None} =>
    printed.answer.id = printed.call.id

(* A change with a state id is made to the session as its caller last saw  *)
(* it: no other change was made since, neither by another client nor by a  *)
(* copy of the same request.  Unless the session was forgotten meanwhile,  *)
(* or changed so often that its id came round, and not for the id 0, of    *)
(* sessions not changed yet (session.c:521-568).                           *)
AsSeen ==
  /\ UamTypeOK
  /\ applied # None =>
       \/ applied.seen.life # applied.at.life
       \/ applied.at.version - applied.seen.version >= MaxStateid
       \/ applied.seen.version = applied.at.version
=============================================================================
