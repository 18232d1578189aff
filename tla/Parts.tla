-------------------------------- MODULE Parts --------------------------------
(***************************************************************************)
(* The parts of the daemon: what main makes before the threads run and     *)
(* takes apart after they were cancelled (the create and destroy functions *)
(* of sweetspot.c, session.c, gauge.c, nat_src.c and the others), and the  *)
(* list of hash tables whose statistics the maintenance thread prints      *)
(* (lhstat.c), by the name of the table.                                   *)
(*                                                                         *)
(* The parts are made in one order, by one thread, and each may fail: its  *)
(* memory, directory, interface or address is missing, or an option of the *)
(* configuration.  What is never taken apart goes with the process.        *)
(***************************************************************************)
EXTENDS Naturals, FiniteSets, Sequences

CONSTANT
  SnatPublic   \* snat-public-networks is configured

ASSUME PartsOK == SnatPublic \in BOOLEAN

VARIABLES
  made,     \* the parts that are there
  listed    \* global_lhstat

parts == <<made, listed>>

(* main goes on from one to the next.                                      *)
Order ==
  <<"config", "lhstat", "filters", "sessions", "snat", "endpoints", "gauges", "dnat",
    "fragments", "inward", "inward-out", "outward", "outward-out", "uam", "shaper", "wheels",
    "buffers", "scopes", "methods", "details">>

AllParts == {Order[i] : i \in DOMAIN Order}

(* The tables that a part makes and lists; there are none of SNAT without  *)
(* networks for it.  The contexts of the shaper are not in a listed table. *)
TablesOf(part) ==
  CASE part = "sessions"  -> {"session"}
    [] part = "gauges"    -> {"gauge"}
    [] part = "dnat"      -> {"dnat-dst", "dnat-nat", "dnat-seq"}
    [] part = "fragments" -> {"frag-iph", "frag-seq"}
    [] part = "snat" /\ SnatPublic      -> {"snat-prv", "snat-pub"}
    [] part = "endpoints" /\ SnatPublic ->
         {"snat-udp-ip", "snat-udp-id", "snat-tcp-ip", "snat-tcp-id", "snat-icmp", "snat-ip"}
    [] OTHER -> {}

AllTables == UNION {TablesOf(part) : part \in AllParts}

(* Nothing has been freed yet, no entry of the list either, through which  *)
(* sw_lhstat_do of the maintenance thread goes without a lock.             *)
Whole == made = AllParts /\ listed = AllTables
-----------------------------------------------------------------------------
(* Making                                                                  *)

IsNext(part) == \E i \in DOMAIN Order : /\ Order[i] = part
                                        /\ made = {Order[j] : j \in 1 .. i - 1}

(* sw_lhstat_new                                                           *)
Lists(tables) == listed' = listed \cup tables

Makes(part) == IsNext(part) /\ made' = made \cup {part}

LoadConfig == Makes("config") /\ UNCHANGED listed

CreateLhstat == Makes("lhstat") /\ listed' = {}

CreateFilters == Makes("filters") /\ UNCHANGED listed

CreateSessions == Makes("sessions") /\ Lists(TablesOf("sessions"))

(* The collectors of relations are started with their tables.              *)
CreateSnat == Makes("snat") /\ Lists(TablesOf("snat"))

CreateEndpoints == Makes("endpoints") /\ Lists(TablesOf("endpoints"))

CreateGauges == Makes("gauges") /\ Lists(TablesOf("gauges"))

CreateDnat == Makes("dnat") /\ Lists(TablesOf("dnat"))

CreateFragments == Makes("fragments") /\ Lists(TablesOf("fragments"))

(* Each relay opens the interface it reads from, then the one it writes to.*)
OpenForInput(relay) == Makes(relay) /\ UNCHANGED listed

OpenForOutput(out) == Makes(out) /\ UNCHANGED listed

CreateInward == OpenForInput("inward") \/ OpenForOutput("inward-out")

CreateOutward == OpenForInput("outward") \/ OpenForOutput("outward-out")

CreateUam == Makes("uam") /\ UNCHANGED listed

CreateShaper == Makes("shaper") /\ UNCHANGED listed

CreateWheels == Makes("wheels") /\ UNCHANGED listed

CreateBuffers == Makes("buffers") /\ UNCHANGED listed

CreateScopes == Makes("scopes") /\ UNCHANGED listed

CreateMethods == Makes("methods") /\ UNCHANGED listed

CreateDetails == Makes("details") /\ UNCHANGED listed

CreatePart ==
  \/ LoadConfig \/ CreateLhstat \/ CreateFilters \/ CreateSessions \/ CreateSnat
  \/ CreateEndpoints \/ CreateGauges \/ CreateDnat \/ CreateFragments \/ CreateInward
  \/ CreateOutward \/ CreateUam \/ CreateShaper \/ CreateWheels \/ CreateBuffers
  \/ CreateScopes \/ CreateMethods \/ CreateDetails
-----------------------------------------------------------------------------
(* Taking apart                                                            *)

Takes(part) == part \in made /\ made' = made \ {part}

(* sw_lhstat_del                                                           *)
Unlists(table) == listed' = listed \ {table}

(* An entry leaves the list before its table is freed, and after the       *)
(* networks of users are.                                                  *)
UnlistSessions == "sessions" \in made /\ Unlists("session") /\ UNCHANGED made

DestroySessions == Takes("sessions") /\ UNCHANGED listed

UnlistGauges == "gauges" \in made /\ Unlists("gauge") /\ UNCHANGED made

DestroyGauges == Takes("gauges") /\ UNCHANGED listed

DestroyShaper == Takes("shaper") /\ UNCHANGED listed

(* Packets that were not sent go with the wheels.                          *)
DestroyWheels == Takes("wheels") /\ UNCHANGED listed

DestroyMethods == Takes("methods") /\ UNCHANGED listed

(* Both interfaces are closed.                                             *)
Closes(relay, out) ==
  relay \in made /\ made' = made \ {relay, out} /\ UNCHANGED listed

DestroyInward == Closes("inward", "inward-out")

DestroyOutward == Closes("outward", "outward-out")

DestroyUam == Takes("uam") /\ UNCHANGED listed

DestroyLhstat == Takes("lhstat") /\ listed' = {}

(* The parts of a process that is gone.                                    *)
Gone == made' = {} /\ listed' = {}
-----------------------------------------------------------------------------
PartsInit == made = {} /\ listed = {}

PartsTypeOK == made \subseteq AllParts /\ listed \subseteq AllTables
=============================================================================
