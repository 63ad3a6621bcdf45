------------------------------ MODULE SafeUpdate ------------------------------
(***************************************************************************)
(* What a firmware update promises the owner of the device: the image that *)
(* runs is genuine, and it is either one that has proved itself or one     *)
(* beside which such an image is kept to go back to.  What has been staged *)
(* is started before anything else is, and a kept image is given up only   *)
(* once the running one has proved itself.  From a mishap on nothing is    *)
(* promised.                                                               *)
(***************************************************************************)
CONSTANTS
  Image,                        (* firmware images, accepted or not         *)
  Genuine                       (* those that are this device's             *)

VARIABLES
  running,                      (* the image that runs                      *)
  next,                         (* the image the next start is into, if any *)
  back,                         (* the image kept to go back to, if any     *)
  void                          (* a mishap has happened                    *)

vars == <<running, next, back, void>>

Init ==
  /\ running \in Genuine /\ running.accepted
  /\ next = {} /\ back = {}
  /\ void = FALSE

(* The image kept so far has been given up by then: there is one place.    *)
Stage ==
  /\ running.accepted
  /\ next = {} /\ back = {}
  /\ \E i \in Genuine : ~i.accepted /\ next' = {i}
  /\ UNCHANGED <<running, back>>

GiveUp ==
  /\ running.accepted
  /\ back' = {}
  /\ UNCHANGED <<running, next>>

Start ==
  /\ next = {running'}
  /\ next' = {}
  /\ back' = {running}

Prove ==
  /\ next = {}
  /\ running' = [running EXCEPT !.accepted = TRUE]
  /\ UNCHANGED <<next, back>>

GoBack ==
  /\ back = {running'}
  /\ back' = {}
  /\ UNCHANGED next

Next ==
  \/ void'
  \/ ~void /\ void' = void /\ (Stage \/ GiveUp \/ Start \/ Prove \/ GoBack)

Spec == Init /\ [][Next]_vars
==============================================================================
