------------------------------ MODULE WallSwitch ------------------------------
(***************************************************************************)
(* What the firmware promises somebody standing at the wall: a switch      *)
(* whose lamps are operated one command at a time, whose memory of them is *)
(* brought up to date before the next command is obeyed, and which comes   *)
(* back after a power cut as its memory says.  The memory is trusted until *)
(* a write of it fails, and again after one that succeeds.                 *)
(***************************************************************************)
EXTENDS Naturals

CONSTANT N                      (* how many lamps                           *)

VARIABLES
  power,                        (* "dark" or "live"                         *)
  lamp,                         (* what the relay pins drive                *)
  memory,                       (* what the next power-up would restore     *)
  trusted                       (* the last write of memory succeeded       *)

Ch     == 0 .. N - 1
OnOff  == {"Off", "On"}
AllOff == [c \in Ch |-> "Off"]

Init ==
  /\ power = "dark"
  /\ lamp = AllOff
  /\ memory \in [Ch -> OnOff]
  /\ trusted = TRUE

PowerUp ==
  /\ power = "dark"
  /\ power'   = "live"
  /\ lamp'    = memory
  /\ trusted' = TRUE
  /\ UNCHANGED memory

(* One lamp changes, or all of them are set alike.                         *)
Operate ==
  /\ power = "live"
  /\ trusted => memory = lamp
  /\ \/ \E c \in Ch, s \in OnOff : lamp' = [lamp EXCEPT ![c] = s]
     \/ \E s \in OnOff : lamp' = [c \in Ch |-> s]
  /\ UNCHANGED <<power, memory, trusted>>

Remember ==
  /\ power = "live"
  /\ \/ memory' = lamp   /\ trusted' = TRUE
     \/ memory' = memory /\ trusted' = FALSE
  /\ UNCHANGED <<power, lamp>>

Forget ==
  /\ power = "live"
  /\ memory' = AllOff
  /\ UNCHANGED <<power, lamp, trusted>>

(* A cut in the middle of a write may cost the whole record, never part.   *)
PowerCut ==
  /\ power' = "dark"
  /\ lamp'  = AllOff
  /\ memory' \in {memory, AllOff}
  /\ trusted' = TRUE

Next == PowerUp \/ Operate \/ Remember \/ Forget \/ PowerCut

Spec == Init /\ [][Next]_<<power, lamp, memory, trusted>>
==============================================================================
