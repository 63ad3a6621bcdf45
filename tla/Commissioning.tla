----------------------------- MODULE Commissioning -----------------------------
(***************************************************************************)
(* What provisioning promises the owner of the switch.  It remembers a     *)
(* network only once it has joined it, and takes an identity only there,   *)
(* once, and as one piece; it goes into service with both, whether they    *)
(* are new or remembered, or else offers its portal; its MQTT client is    *)
(* the identity it was switched on with; and a reset forgets everything.   *)
(* From the first fault of flash or power on nothing is promised.          *)
(***************************************************************************)
CONSTANTS
  Network,                      (* what can be joined                       *)
  Id,                           (* identities that can be given             *)
  NoValue                       (* neither                                  *)

VARIABLES
  phase,                        (* "off", "starting", "portal", "testing",
                                   "joined", "service" or "resetting"       *)
  joined,                       (* the network joined on trial              *)
  network, identity,            (* what is remembered ...                   *)
  named,                        (* ... and whether the identity has a name  *)
  client,                       (* the identity MQTT uses, if it is on      *)
  void                          (* a fault has happened                     *)

memory == <<network, identity, named>>
vars   == <<phase, joined, memory, client, void>>

Init ==
  /\ phase = "starting" /\ joined = NoValue
  /\ network = NoValue /\ identity \in Id \cup {NoValue} /\ named = FALSE
  /\ client = {} /\ void = FALSE

Becomes(p) == phase' = p /\ joined' = NoValue

(* After a start, with what is remembered, or at the end of a test.        *)
Serve ==
  /\ phase \in {"starting", "joined"}
  /\ network # NoValue /\ identity # NoValue
  /\ phase = "joined" => network = joined
  /\ Becomes("service")
  /\ UNCHANGED <<memory, client>>

Portal ==
  /\ phase \in {"starting", "testing", "joined"}
  /\ phase = "joined" => network = joined
  /\ Becomes("portal")
  /\ UNCHANGED <<memory, client>>

Submit ==
  /\ phase = "portal"
  /\ Becomes("testing")
  /\ UNCHANGED <<memory, client>>

Join ==
  /\ phase = "testing"
  /\ phase' = "joined" /\ joined' \in Network
  /\ UNCHANGED <<memory, client>>

Remember ==
  /\ phase = "joined"
  /\ network' = joined
  /\ UNCHANGED <<phase, joined, identity, named, client>>

Enroll ==
  /\ phase = "joined" /\ network = joined
  /\ identity = NoValue /\ identity' \in Id
  /\ named' \in BOOLEAN
  /\ UNCHANGED <<phase, joined, network, client>>

Forget ==
  /\ phase \notin {"off", "resetting"}
  /\ Becomes("resetting")
  /\ network' = NoValue /\ identity' = NoValue /\ named' = FALSE
  /\ UNCHANGED client

SwitchOff ==
  /\ phase # "off"
  /\ Becomes("off")
  /\ client' = {}
  /\ UNCHANGED memory

SwitchOn ==
  /\ phase = "off"
  /\ Becomes("starting")
  /\ client' = IF named THEN {identity} ELSE {}
  /\ UNCHANGED memory

Next ==
  \/ void'
  \/ /\ void = FALSE /\ void' = FALSE
     /\ \/ Serve \/ Portal \/ Submit \/ Join \/ Remember \/ Enroll
        \/ Forget \/ SwitchOff \/ SwitchOn

Spec == Init /\ [][Next]_vars
==============================================================================
