----------------------------- MODULE ControlPlane -----------------------------
(***************************************************************************)
(* The local control plane: the Control task (app/control_loop.h,          *)
(* CompositionRoot::controlTick) with the relays it owns, the coordinator  *)
(* that is the only way to them, the command queue the Net task fills, the *)
(* saved relay record and the boot policy, under power cuts, flash writes  *)
(* that fail and factory resets.                                           *)
(*                                                                         *)
(* A step is one uninterruptible piece of the Control task: the handling   *)
(* of one command or one polled channel up to its announcements, and then  *)
(* each announcement, whose flash write is the point where the task can    *)
(* lose power or let the Net task in.                                      *)
(***************************************************************************)
EXTENDS Naturals, Sequences

CONSTANTS
  N,             (* channelCount_ of the profile                           *)
  QueueDepth,    (* kCommandQueueDepth                                     *)
  Command,       (* the commands the Net task may queue                    *)
  FlashMayFail   (* TRUE: kv_ writes and erases may return false           *)

Ch     == 0 .. N - 1
OnOff  == {"Off", "On"}
AllOff == [c \in Ch |-> "Off"]

(* ch may name a channel the profile does not have.                        *)
AnyCommand == [kind : {"SetChannel", "ToggleChannel", "SetAll"}, ch : Nat, state : OnOff]

ASSUME ChannelAssumption == N \in Nat \ {0}
ASSUME DepthAssumption   == QueueDepth \in Nat \ {0}
ASSUME CommandAssumption == Command \subseteq AnyCommand
ASSUME FlashAssumption   == FlashMayFail \in BOOLEAN

VARIABLES
  pc,            (* where the Control task (setup() before it) stands      *)
  relay,         (* RelayController::state_                                *)
  pin,           (* the relay pins, polarity applied                       *)
  before,        (* relay as it was before the operation in progress       *)
  pending,       (* changed channels the operation has still to announce   *)
  cont,          (* where the task goes once they are announced            *)
  budget,        (* drainCommands' budget                                  *)
  polled,        (* next channel touch_.scan polls                         *)
  cmdQueue,      (* cmdQueue_, a FifoQueue that rejects when full          *)
  resetAsked,    (* LocalResetHandler::resetRequested_                     *)
  flash,         (* the "relay_state" record; valid is what load concludes *)
  saved,         (* history: the last save succeeded                       *)
  wiped          (* history: factory reset, and no operation since         *)

ram  == <<relay, pin, before, pending, cont, budget, polled, cmdQueue, resetAsked>>
vars == <<pc, ram, flash, saved, wiped>>

Record   == [valid : BOOLEAN, state : [Ch -> OnOff]]
NoRecord == [valid |-> FALSE, state |-> AllOff]

Ticking == pc \in {"sleep", "drain", "announce", "scan"}
Up      == Ticking \/ pc \in {"wipe", "reboot", "hung"}

(* What BootPolicy::applyRestoreLast makes of a record.                    *)
RestoreLast(rec) == IF rec.valid THEN rec.state ELSE AllOff

Opposite(s) == IF s = "On" THEN "Off" ELSE "On"

(* The relays after a command (guardChannel turns an absent channel away). *)
Obeyed(cmd) ==
  CASE cmd.kind = "SetAll" -> [c \in Ch |-> cmd.state]
    [] cmd.kind # "SetAll" /\ cmd.ch \notin Ch -> relay
    [] cmd.kind = "SetChannel" /\ cmd.ch \in Ch -> [relay EXCEPT ![cmd.ch] = cmd.state]
    [] cmd.kind = "ToggleChannel" /\ cmd.ch \in Ch ->
         [relay EXCEPT ![cmd.ch] = Opposite(@)]

Init ==
  /\ pc = "off"
  /\ relay = AllOff /\ pin = AllOff /\ before = AllOff
  /\ pending = {} /\ cont = "drain" /\ budget = 0 /\ polled = 0
  /\ cmdQueue = << >> /\ resetAsked = FALSE
  /\ flash \in {rec \in Record : ~rec.valid => rec = NoRecord}
  /\ saved = TRUE /\ wiped = FALSE

----------------------------------------------------------------------------
(* Power, boot and reset.                                                  *)

(* RAM as static initialisation and parkRelaysSafe leave it.               *)
FreshRam ==
  /\ relay' = AllOff /\ pin' = AllOff /\ before' = AllOff
  /\ pending' = {} /\ cont' = "drain" /\ budget' = 0 /\ polled' = 0
  /\ cmdQueue' = << >> /\ resetAsked' = FALSE

(* setup() up to RelayController::init; any begin() step may fail.         *)
Start ==
  /\ pc = "off"
  /\ pc' \in {"boot", "halted"}
  /\ UNCHANGED <<ram, flash, saved, wiped>>

(* applyBootState sets each channel, no listener that saves being bound    *)
(* yet.  Then the tasks are created; without a Control task setup() hangs. *)
Restore ==
  /\ pc = "boot"
  /\ pc' \in {"sleep", "hung"}
  /\ relay' = RestoreLast(flash) /\ pin' = relay' /\ before' = relay'
  /\ saved' = TRUE
  /\ UNCHANGED <<pending, cont, budget, polled, cmdQueue, resetAsked, flash, wiped>>

(* The supply fails: a record being written may be lost with its CRC.      *)
PowerCut ==
  /\ pc # "off"
  /\ pc' = "off"
  /\ FreshRam
  /\ \/ flash' = flash
     \/ pc = "announce" /\ flash' = NoRecord
  /\ saved' = TRUE
  /\ UNCHANGED wiped

----------------------------------------------------------------------------
(* The Net task: CommandQueuePort::submit, refused when the queue is full. *)

SubmitUnbounded(cmd) ==
  /\ Ticking
  /\ Len(cmdQueue) < QueueDepth + 1
  /\ cmdQueue' = Append(cmdQueue, cmd)
  /\ UNCHANGED <<pc, relay, pin, before, pending, cont, budget, polled, resetAsked,
                 flash, saved, wiped>>

Submit(cmd) ==
  /\ Ticking
  /\ Len(cmdQueue) < QueueDepth
  /\ cmdQueue' = Append(cmdQueue, cmd)
  /\ UNCHANGED <<pc, relay, pin, before, pending, cont, budget, polled, resetAsked,
                 flash, saved, wiped>>

----------------------------------------------------------------------------
(* The Control task.                                                       *)

(* The coordinator drives the relays to `now` and then announces, from the *)
(* lowest channel up, those that really changed.                           *)
OperateSkipsLastPin(now, back) ==
  LET changed == {c \in Ch : now[c] # relay[c]} IN
  /\ relay' = now
  /\ pin' = [c \in Ch |-> IF c = N - 1 THEN pin[c] ELSE now[c]]
  /\ before' = relay
  /\ pending' = changed
  /\ cont' = back
  /\ pc' = IF changed = {} THEN back ELSE "announce"
  /\ wiped' = (wiped /\ changed = {})
  /\ UNCHANGED <<flash, saved>>

Operate(now, back) ==
  LET changed == {c \in Ch : now[c] # relay[c]} IN
  /\ relay' = now
  /\ pin' = now
  /\ before' = relay
  /\ pending' = changed
  /\ cont' = back
  /\ pc' = IF changed = {} THEN back ELSE "announce"
  /\ wiped' = (wiped /\ changed = {})
  /\ UNCHANGED <<flash, saved>>

BeginTick ==
  /\ pc = "sleep"
  /\ pc' = "drain"
  /\ budget' = QueueDepth
  /\ UNCHANGED <<relay, pin, before, pending, cont, polled, cmdQueue, resetAsked,
                 flash, saved, wiped>>

DrainUnbudgeted ==
  /\ pc = "drain"
  /\ cmdQueue # << >>
  /\ cmdQueue' = Tail(cmdQueue)
  /\ Operate(Obeyed(Head(cmdQueue)), "drain")
  /\ UNCHANGED <<budget, polled, resetAsked>>

Drain ==
  /\ pc = "drain"
  /\ budget > 0
  /\ cmdQueue # << >>
  /\ cmdQueue' = Tail(cmdQueue)
  /\ budget' = budget - 1
  /\ Operate(Obeyed(Head(cmdQueue)), "drain")
  /\ UNCHANGED <<polled, resetAsked>>

DrainDone ==
  /\ pc = "drain"
  /\ budget = 0 \/ cmdQueue = << >>
  /\ pc' = "scan"
  /\ polled' = 0
  /\ UNCHANGED <<relay, pin, before, pending, cont, budget, cmdQueue, resetAsked,
                 flash, saved, wiped>>

(* Polling a channel finds nothing to do or a press, which toggles the     *)
(* channel.  Either way it may be the poll that completes the reset        *)
(* gesture, if the profile has the two pads that takes, and in the case of *)
(* a press a third pad that was pressed meanwhile.                         *)
PollIdle ==
  /\ pc = "scan" /\ polled < N
  /\ polled' = polled + 1
  /\ resetAsked' \in {resetAsked, resetAsked \/ N > 1}
  /\ UNCHANGED <<pc, relay, pin, before, pending, cont, budget, cmdQueue,
                 flash, saved, wiped>>

PollPressed ==
  /\ pc = "scan" /\ polled < N
  /\ polled' = polled + 1
  /\ resetAsked' \in {resetAsked, resetAsked \/ N > 2}
  /\ Operate([relay EXCEPT ![polled] = Opposite(@)], "scan")
  /\ UNCHANGED <<budget, cmdQueue>>

(* The end of the tick consumes a reset request.                           *)
ScanDoneCommandsFirst ==
  /\ pc = "scan" /\ polled = N
  /\ pc' = IF resetAsked /\ cmdQueue = << >> THEN "wipe" ELSE "sleep"
  /\ resetAsked' = (resetAsked /\ cmdQueue # << >>)
  /\ UNCHANGED <<relay, pin, before, pending, cont, budget, polled, cmdQueue,
                 flash, saved, wiped>>

ScanDone ==
  /\ pc = "scan" /\ polled = N
  /\ pc' = IF resetAsked THEN "wipe" ELSE "sleep"
  /\ resetAsked' = FALSE
  /\ UNCHANGED <<relay, pin, before, pending, cont, budget, polled, cmdQueue,
                 flash, saved, wiped>>

LowestPending == CHOOSE c \in pending : \A d \in pending : c <= d

(* One announcement: PersistingStateListener saves the whole snapshot.     *)
AnnounceOneChannel ==
  /\ pc = "announce"
  /\ flash' = [valid |-> TRUE,
               state |-> [RestoreLast(flash) EXCEPT ![LowestPending] = relay[LowestPending]]]
  /\ saved' = TRUE
  /\ pending' = pending \ {LowestPending}
  /\ pc' = IF pending' = {} THEN cont ELSE "announce"
  /\ UNCHANGED <<relay, pin, before, cont, budget, polled, cmdQueue, resetAsked, wiped>>

Announce ==
  /\ pc = "announce"
  /\ \/ /\ flash' = [valid |-> TRUE, state |-> relay]
        /\ saved' = TRUE
     \/ /\ FlashMayFail
        /\ flash' = flash
        /\ saved' = FALSE
  /\ pending' = pending \ {LowestPending}
  /\ pc' = IF pending' = {} THEN cont ELSE "announce"
  /\ UNCHANGED <<relay, pin, before, cont, budget, polled, cmdQueue, resetAsked, wiped>>

(* factoryReset(): here, the erase of "relay_state"; module Provisioning   *)
(* has the other keys.                                                     *)
WipeSkipsRelayState ==
  /\ pc = "wipe"
  /\ wiped' = TRUE
  /\ pc' = "reboot"
  /\ UNCHANGED <<ram, flash, saved>>

Wipe ==
  /\ pc = "wipe"
  /\ \/ /\ flash' = NoRecord
        /\ wiped' = TRUE
     \/ /\ FlashMayFail
        /\ UNCHANGED <<flash, wiped>>
  /\ pc' = "reboot"
  /\ UNCHANGED <<ram, saved>>

Reboot ==
  /\ pc = "reboot"
  /\ pc' = "off"
  /\ FreshRam
  /\ saved' = TRUE
  /\ UNCHANGED <<flash, wiped>>

ControlTask ==
  \/ Start \/ Restore
  \/ BeginTick \/ Drain \/ DrainDone
  \/ PollIdle \/ PollPressed \/ ScanDone
  \/ Announce \/ Wipe \/ Reboot

Next ==
  \/ ControlTask
  \/ PowerCut
  \/ \E cmd \in Command : Submit(cmd)

(* The Control task has the highest priority, so it always gets its turn.  *)
Spec == Init /\ [][Next]_vars /\ WF_vars(ControlTask)

----------------------------------------------------------------------------
(* Type invariant.                                                         *)
TypeOK ==
  /\ pc \in {"off", "boot", "halted", "sleep", "drain", "announce", "scan", "wipe", "reboot",
            "hung"}
  /\ relay \in [Ch -> OnOff] /\ pin \in [Ch -> OnOff] /\ before \in [Ch -> OnOff]
  /\ pending \in SUBSET Ch
  /\ cont \in {"drain", "scan"}
  /\ budget \in 0 .. QueueDepth
  /\ polled \in 0 .. N
  /\ cmdQueue \in Seq(Command) /\ Len(cmdQueue) <= QueueDepth
  /\ resetAsked \in BOOLEAN /\ saved \in BOOLEAN /\ wiped \in BOOLEAN
  /\ flash \in Record

(* At every instant the record would restore the relays as they were       *)
(* before or after the operation in progress, never a mixture (a SetAll is *)
(* all or nothing), and between operations exactly as they are, so long as *)
(* saving works (persisting_state_listener.h:29-38).  Only a power cut in  *)
(* the middle of the write itself can do worse: it may lose the record,    *)
(* and the relays then come back all off (PowerCut, and SwitchSpec).       *)
PowerCutIsAtomic ==
  Ticking /\ saved =>
    /\ RestoreLast(flash) \in {before, relay}
    /\ pending = {} => RestoreLast(flash) = relay

(* Once factory reset has erased the record the relays stay off, through   *)
(* any reboots and power cuts, until somebody operates one                 *)
(* (composition_root.h:417-427, boot_policy.h:49-54).                      *)
FactoryResetForgets ==
  wiped => /\ RestoreLast(flash) = AllOff
           /\ pc \notin {"wipe", "reboot"} => relay = AllOff

(* Local control is never starved: however fast commands are queued, a     *)
(* tick that starts reaches the touch scan (control_loop.h:51-58).         *)
TouchNotStarved == pc = "drain" ~> pc \in {"scan", "off"}

(* A completed reset gesture always ends in a reboot, with nothing that    *)
(* can overtake or forget it (composition_root.h:103, 218).                *)
ResetHappens == resetAsked ~> pc = "off"

(* The control plane is a WallSwitch: one operation at a time, each one    *)
(* remembered before the next is obeyed, pins in step with the logical     *)
(* state, power cuts losing no more than the operation in progress.        *)
Switch ==
  INSTANCE WallSwitch WITH
    power   <- IF Up THEN "live" ELSE "dark",
    lamp    <- pin,
    memory  <- RestoreLast(flash),
    trusted <- saved

SwitchSpec == Switch!Spec
==============================================================================
