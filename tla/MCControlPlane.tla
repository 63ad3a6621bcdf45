---------------------------- MODULE MCControlPlane ----------------------------
(* Model checking of ControlPlane on a two-gang switch and a queue of two. *)
EXTENDS ControlPlane

Cmd(k, c, s) == [kind |-> k, ch |-> c, state |-> s]

(* Every kind of command, one of them for a channel that is not there.     *)
MCCommand ==
  {Cmd("SetChannel", 0, "On"), Cmd("SetChannel", 2, "On"), Cmd("ToggleChannel", 1, "Off"),
   Cmd("SetAll", 0, "On"), Cmd("SetAll", 0, "Off")}
==============================================================================
