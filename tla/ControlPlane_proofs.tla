-------------------------- MODULE ControlPlane_proofs --------------------------
(***************************************************************************)
(* The control plane keeps its memory in step with its relays and          *)
(* implements WallSwitch, for every number of channels, queue depth and    *)
(* command set, and whether or not flash writes may fail; and its drains,  *)
(* scans and resets have a bounded amount of work to do.                   *)
(***************************************************************************)
EXTENDS ControlPlane, WellFoundedInduction, TLAPS

(* The strengthening that makes the properties inductive: the pins follow  *)
(* the logical state, only an operation under way has announcements to     *)
(* make, and an operation ends what a factory reset began.                 *)
Lockstep == pin = relay

PendingOnlyWhileAnnouncing == pending # {} <=> pc = "announce"

AnnouncingForgetsWipe == pc = "announce" => ~wiped

IInv ==
  /\ TypeOK
  /\ Lockstep
  /\ PendingOnlyWhileAnnouncing
  /\ AnnouncingForgetsWipe
  /\ PowerCutIsAtomic
  /\ FactoryResetForgets

LEMMA VectorTypes ==
  /\ AllOff \in [Ch -> OnOff]
  /\ NoRecord \in Record
  /\ \A s \in OnOff : Opposite(s) \in OnOff
  /\ \A rec \in Record : RestoreLast(rec) \in [Ch -> OnOff]
BY DEF AllOff, OnOff, NoRecord, Record, Opposite, RestoreLast

(* A command leaves the relays alone, changes one of them or sets them all *)
(* alike: the operations of a WallSwitch.                                  *)
LEMMA ObeyedIsOperation ==
  ASSUME TypeOK, NEW cmd \in Command
  PROVE  /\ Obeyed(cmd) \in [Ch -> OnOff]
         /\ \/ Obeyed(cmd) = relay
            \/ \E c \in Ch, s \in OnOff : Obeyed(cmd) = [relay EXCEPT ![c] = s]
            \/ \E s \in OnOff : Obeyed(cmd) = [c \in Ch |-> s]
<1>1. cmd.kind \in {"SetChannel", "ToggleChannel", "SetAll"} /\ cmd.state \in OnOff
  BY CommandAssumption DEF AnyCommand
<1>2. relay \in [Ch -> OnOff]
  BY DEF TypeOK
<1>3. CASE cmd.kind = "SetAll"
  <2>1. Obeyed(cmd) = [c \in Ch |-> cmd.state]
    BY <1>3 DEF Obeyed
  <2>2. QED
    BY <1>1, <2>1
<1>4. CASE cmd.kind # "SetAll" /\ cmd.ch \notin Ch
  BY <1>2, <1>4 DEF Obeyed
<1>5. CASE cmd.kind = "SetChannel" /\ cmd.ch \in Ch
  <2>1. Obeyed(cmd) = [relay EXCEPT ![cmd.ch] = cmd.state]
    BY <1>5 DEF Obeyed
  <2>2. QED
    BY <1>1, <1>2, <1>5, <2>1
<1>6. CASE cmd.kind = "ToggleChannel" /\ cmd.ch \in Ch
  <2>1. Obeyed(cmd) = [relay EXCEPT ![cmd.ch] = Opposite(relay[cmd.ch])]
    BY <1>6 DEF Obeyed
  <2>2. Opposite(relay[cmd.ch]) \in OnOff
    BY <1>2, <1>6, VectorTypes
  <2>3. QED
    BY <1>2, <1>6, <2>1, <2>2
<1>7. QED
  BY <1>1, <1>3, <1>4, <1>5, <1>6

(* What Operate does to the invariant, whoever asked for it.               *)
LEMMA OperateKeeps ==
  ASSUME IInv, NEW now \in [Ch -> OnOff], NEW back \in {"drain", "scan"},
         pc \in {"drain", "scan"}, Operate(now, back)
  PROVE  /\ relay' = now /\ pin' = now /\ before' \in [Ch -> OnOff]
         /\ pending' \in SUBSET Ch /\ cont' \in {"drain", "scan"}
         /\ pc' \in {"announce", "drain", "scan"}
         /\ saved' = saved /\ flash' = flash /\ wiped' \in BOOLEAN
         /\ Lockstep' /\ PendingOnlyWhileAnnouncing' /\ AnnouncingForgetsWipe'
         /\ PowerCutIsAtomic' /\ FactoryResetForgets'
<1> DEFINE changed == {c \in Ch : now[c] # relay[c]}
<1>1. /\ relay' = now /\ pin' = now /\ before' = relay /\ pending' = changed
      /\ cont' = back /\ pc' = IF changed = {} THEN back ELSE "announce"
      /\ wiped' = (wiped /\ changed = {}) /\ flash' = flash /\ saved' = saved
  BY DEF Operate
<1>2. relay \in [Ch -> OnOff] /\ wiped \in BOOLEAN /\ pending = {}
  BY DEF IInv, TypeOK, PendingOnlyWhileAnnouncing
<1>3. changed = {} => now = relay
  BY <1>2
<1>4. saved => RestoreLast(flash) = relay
  BY <1>2 DEF IInv, PowerCutIsAtomic, Ticking
<1>5. RestoreLast(flash)' = RestoreLast(flash)
  BY <1>1 DEF RestoreLast
<1>6. before' \in [Ch -> OnOff] /\ pending' \in SUBSET Ch /\ wiped' \in BOOLEAN
  BY <1>1, <1>2
<1>7. /\ Lockstep' /\ PendingOnlyWhileAnnouncing' /\ AnnouncingForgetsWipe'
      /\ pc' \in {"announce", "drain", "scan"}
  BY <1>1 DEF Lockstep, PendingOnlyWhileAnnouncing, AnnouncingForgetsWipe
<1>8. PowerCutIsAtomic'
  <2>1. pending' = {} => relay' = relay
    BY <1>1, <1>3
  <2>2. QED
    BY <1>1, <1>4, <1>5, <2>1 DEF PowerCutIsAtomic
<1>9. FactoryResetForgets'
  BY <1>1, <1>3, <1>5 DEF FactoryResetForgets, IInv
<1>10. QED
  BY <1>1, <1>6, <1>7, <1>8, <1>9

LEMMA EmptyQueue == << >> \in Seq(Command) /\ Len(<< >>) = 0 /\ 0 <= QueueDepth
BY DepthAssumption

LEMMA InitInv == Init => IInv
<1> SUFFICES ASSUME Init PROVE IInv
  OBVIOUS
<1>1. TypeOK
  <2>1. flash \in Record /\ AllOff \in [Ch -> OnOff]
    BY VectorTypes DEF Init
  <2>2. 0 \in 0 .. QueueDepth /\ 0 \in 0 .. N
    BY DepthAssumption, ChannelAssumption
  <2>3. QED
    BY <2>1, <2>2, EmptyQueue DEF Init, TypeOK
<1>2. QED
  BY <1>1 DEF Init, IInv, Lockstep, PendingOnlyWhileAnnouncing, AnnouncingForgetsWipe,
         PowerCutIsAtomic, FactoryResetForgets, Ticking

LEMMA NextInv == IInv /\ [Next]_vars => IInv'
<1> SUFFICES ASSUME IInv, [Next]_vars PROVE IInv'
  OBVIOUS
<1> USE DepthAssumption, ChannelAssumption, VectorTypes
<1>0. /\ relay \in [Ch -> OnOff] /\ pin = relay /\ flash \in Record
      /\ RestoreLast(flash) \in [Ch -> OnOff]
  BY DEF IInv, TypeOK, Lockstep
<1>1. CASE Start
  BY <1>1 DEF Start, ram, IInv, TypeOK, Lockstep, PendingOnlyWhileAnnouncing,
         AnnouncingForgetsWipe, PowerCutIsAtomic, FactoryResetForgets, Ticking
<1>2. CASE Restore
  <2>1. pc' \in {"sleep", "hung"} /\ relay' = RestoreLast(flash) /\ pin' = relay'
        /\ before' = relay' /\ flash' = flash /\ saved' = TRUE /\ pending' = {} /\ wiped' = wiped
    BY <1>2 DEF Restore, IInv, PendingOnlyWhileAnnouncing
  <2>2. TypeOK'
    BY <1>0, <1>2, <2>1 DEF Restore, IInv, TypeOK
  <2>3. QED
    BY <1>2, <2>1, <2>2 DEF IInv, Lockstep, PendingOnlyWhileAnnouncing,
         AnnouncingForgetsWipe, PowerCutIsAtomic, FactoryResetForgets, Ticking, RestoreLast
<1>3. CASE PowerCut \/ Reboot
  <2>1. /\ pc' = "off" /\ FreshRam /\ saved' = TRUE /\ wiped' = wiped
        /\ flash' = flash \/ flash' = NoRecord
    BY <1>3 DEF PowerCut, Reboot
  <2>2. TypeOK'
    <3>1. flash' \in Record /\ AllOff \in [Ch -> OnOff]
      BY <1>0, <2>1
    <3>2. 0 \in 0 .. QueueDepth /\ 0 \in 0 .. N
      OBVIOUS
    <3>3. wiped' \in BOOLEAN
      BY <2>1 DEF IInv, TypeOK
    <3>4. QED
      BY <2>1, <3>1, <3>2, <3>3, EmptyQueue DEF TypeOK, FreshRam
  <2>3. FactoryResetForgets'
    BY <2>1 DEF IInv, FactoryResetForgets, FreshRam, RestoreLast, NoRecord
  <2>4. QED
    BY <2>1, <2>2, <2>3 DEF FreshRam, IInv, Lockstep, PendingOnlyWhileAnnouncing,
         AnnouncingForgetsWipe, PowerCutIsAtomic, Ticking
<1>4. CASE \E cmd \in Command : Submit(cmd)
  <2>1. PICK cmd \in Command : Submit(cmd)
    BY <1>4
  <2>2. cmdQueue' \in Seq(Command) /\ Len(cmdQueue') <= QueueDepth
    BY <2>1 DEF Submit, IInv, TypeOK
  <2>3. TypeOK'
    BY <2>1, <2>2 DEF Submit, IInv, TypeOK
  <2>4. QED
    BY <2>1, <2>3 DEF Submit, IInv, Lockstep, PendingOnlyWhileAnnouncing,
         AnnouncingForgetsWipe, PowerCutIsAtomic, FactoryResetForgets, Ticking
<1>5. CASE BeginTick \/ DrainDone \/ PollIdle \/ ScanDone
  <2>1. TypeOK'
    <3>1. CASE BeginTick
      BY <3>1 DEF BeginTick, IInv, TypeOK
    <3>2. CASE DrainDone
      BY <3>2 DEF DrainDone, IInv, TypeOK
    <3>3. CASE PollIdle
      <4>1. polled' \in 0 .. N
        BY <3>3 DEF PollIdle, IInv, TypeOK
      <4>2. resetAsked' \in BOOLEAN
        BY <3>3, Zenon DEF PollIdle, IInv, TypeOK
      <4>3. QED
        BY <3>3, <4>1, <4>2 DEF PollIdle, IInv, TypeOK
    <3>4. CASE ScanDone
      BY <3>4 DEF ScanDone, IInv, TypeOK
    <3>5. QED
      BY <1>5, <3>1, <3>2, <3>3, <3>4
  <2>2. pending = {} /\ pc \in {"sleep", "drain", "scan"} /\ pc' \in {"sleep", "drain", "scan", "wipe"}
    BY <1>5 DEF BeginTick, DrainDone, PollIdle, ScanDone, IInv, PendingOnlyWhileAnnouncing
  <2>3. UNCHANGED <<relay, pin, before, pending, flash, saved, wiped>>
    BY <1>5 DEF BeginTick, DrainDone, PollIdle, ScanDone
  <2>4. QED
    BY <2>1, <2>2, <2>3 DEF IInv, Lockstep, PendingOnlyWhileAnnouncing,
         AnnouncingForgetsWipe, PowerCutIsAtomic, FactoryResetForgets, Ticking
<1>6. CASE Drain
  <2>1. Head(cmdQueue) \in Command /\ Tail(cmdQueue) \in Seq(Command)
        /\ Len(Tail(cmdQueue)) <= QueueDepth
    BY <1>6 DEF Drain, IInv, TypeOK
  <2>2. Obeyed(Head(cmdQueue)) \in [Ch -> OnOff]
    BY <2>1, ObeyedIsOperation DEF IInv
  <2>3. pc = "drain" /\ Operate(Obeyed(Head(cmdQueue)), "drain")
    BY <1>6 DEF Drain
  <2>4. /\ relay' = Obeyed(Head(cmdQueue)) /\ pin' = Obeyed(Head(cmdQueue))
        /\ before' \in [Ch -> OnOff]
        /\ pending' \in SUBSET Ch /\ cont' \in {"drain", "scan"}
        /\ pc' \in {"announce", "drain", "scan"}
        /\ saved' = saved /\ flash' = flash /\ wiped' \in BOOLEAN
        /\ Lockstep' /\ PendingOnlyWhileAnnouncing' /\ AnnouncingForgetsWipe'
        /\ PowerCutIsAtomic' /\ FactoryResetForgets'
    BY <2>2, <2>3, OperateKeeps
  <2>5. cmdQueue' = Tail(cmdQueue) /\ budget' \in 0 .. QueueDepth /\ polled' = polled
        /\ resetAsked' = resetAsked
    BY <1>6 DEF Drain, IInv, TypeOK
  <2>6. TypeOK'
    BY <2>1, <2>2, <2>4, <2>5 DEF IInv, TypeOK
  <2>7. QED
    BY <2>4, <2>6 DEF IInv
<1>7. CASE PollPressed
  <2> DEFINE now == [relay EXCEPT ![polled] = Opposite(relay[polled])]
  <2>1. polled \in Ch /\ pc = "scan" /\ polled' \in 0 .. N
    BY <1>7 DEF PollPressed, IInv, TypeOK, Ch
  <2>2. now \in [Ch -> OnOff]
    BY <1>0, <2>1
  <2>3. Operate(now, "scan")
    BY <1>7 DEF PollPressed
  <2> HIDE DEF now
  <2>4. /\ relay' = now /\ pin' = now /\ before' \in [Ch -> OnOff]
        /\ pending' \in SUBSET Ch /\ cont' \in {"drain", "scan"}
        /\ pc' \in {"announce", "drain", "scan"}
        /\ saved' = saved /\ flash' = flash /\ wiped' \in BOOLEAN
        /\ Lockstep' /\ PendingOnlyWhileAnnouncing' /\ AnnouncingForgetsWipe'
        /\ PowerCutIsAtomic' /\ FactoryResetForgets'
    BY <2>1, <2>2, <2>3, OperateKeeps
  <2>5. UNCHANGED <<budget, cmdQueue>> /\ resetAsked' \in BOOLEAN
    BY <1>7, Zenon DEF PollPressed, IInv, TypeOK
  <2>6. TypeOK'
    BY <2>1, <2>2, <2>4, <2>5 DEF IInv, TypeOK
  <2>7. QED
    BY <2>4, <2>6 DEF IInv
<1>8. CASE Announce
  <2>1. /\ pc = "announce" /\ pending # {} /\ ~wiped /\ cont \in {"drain", "scan"}
        /\ UNCHANGED <<relay, pin, before, cont, budget, polled, cmdQueue, resetAsked, wiped>>
        /\ pending' = pending \ {LowestPending}
        /\ pc' = IF pending' = {} THEN cont ELSE "announce"
    BY <1>8 DEF Announce, IInv, PendingOnlyWhileAnnouncing, AnnouncingForgetsWipe, TypeOK
  <2>2. \/ flash' = [valid |-> TRUE, state |-> relay] /\ saved' = TRUE
        \/ flash' = flash /\ saved' = FALSE
    BY <1>8 DEF Announce
  <2>3. flash' \in Record /\ saved' \in BOOLEAN
    <3>1. [valid |-> TRUE, state |-> relay] \in Record
      BY <1>0, Zenon DEF Record
    <3>2. QED
      BY <1>0, <2>2, <3>1
  <2>4. saved' => RestoreLast(flash)' = relay'
    BY <2>1, <2>2 DEF RestoreLast
  <2>5. TypeOK'
    BY <2>1, <2>3 DEF IInv, TypeOK
  <2>6. Lockstep' /\ PendingOnlyWhileAnnouncing' /\ AnnouncingForgetsWipe'
    BY <1>0, <2>1 DEF Lockstep, PendingOnlyWhileAnnouncing, AnnouncingForgetsWipe
  <2>7. PowerCutIsAtomic' /\ FactoryResetForgets'
    BY <2>1, <2>4 DEF PowerCutIsAtomic, FactoryResetForgets
  <2>8. QED
    BY <2>5, <2>6, <2>7 DEF IInv
<1>9. CASE Wipe
  <2>1. /\ pc = "wipe" /\ pc' = "reboot" /\ UNCHANGED <<ram, saved>>
        /\ \/ flash' = NoRecord /\ wiped' = TRUE
           \/ UNCHANGED <<flash, wiped>>
    BY <1>9 DEF Wipe
  <2>2. TypeOK'
    BY <2>1 DEF ram, IInv, TypeOK
  <2>3. FactoryResetForgets'
    BY <2>1 DEF IInv, FactoryResetForgets, RestoreLast, NoRecord
  <2>4. QED
    BY <2>1, <2>2, <2>3 DEF ram, IInv, Lockstep, PendingOnlyWhileAnnouncing,
         AnnouncingForgetsWipe, PowerCutIsAtomic, Ticking
<1>10. CASE UNCHANGED vars
  <2>1. UNCHANGED <<pc, relay, pin, before, pending, cont, budget, polled, cmdQueue,
                    resetAsked, flash, saved, wiped>>
    BY <1>10 DEF vars, ram
  <2>2. TypeOK'
    BY <2>1 DEF IInv, TypeOK
  <2>3. QED
    BY <2>1, <2>2 DEF IInv, Lockstep, PendingOnlyWhileAnnouncing, AnnouncingForgetsWipe,
         PowerCutIsAtomic, FactoryResetForgets, Ticking
<1>11. QED
  BY <1>1, <1>2, <1>3, <1>4, <1>5, <1>6, <1>7, <1>8, <1>9, <1>10 DEF Next, ControlTask

LEMMA AlwaysIInv == Spec => []IInv
BY InitInv, NextInv, PTL DEF Spec

(* The types hold of every reachable state, for any number of channels and *)
(* any queue depth.                                                        *)
THEOREM TypeCorrect == Spec => []TypeOK
<1>1. IInv => TypeOK
  BY DEF IInv
<1>2. QED
  BY AlwaysIInv, <1>1, PTL

(* A power cut never restores a mixture: the record in flash is the state  *)
(* before or after the operation in progress, and the very state between   *)
(* operations (persisting_state_listener.h:29-38).                         *)
THEOREM PowerCutsAreAtomic == Spec => []PowerCutIsAtomic
<1>1. IInv => PowerCutIsAtomic
  BY DEF IInv
<1>2. QED
  BY AlwaysIInv, <1>1, PTL

(* A factory reset leaves the relays off until somebody operates one       *)
(* (composition_root.h:417-427).                                           *)
THEOREM ResetForgets == Spec => []FactoryResetForgets
<1>1. IInv => FactoryResetForgets
  BY DEF IInv
<1>2. QED
  BY AlwaysIInv, <1>1, PTL

(***************************************************************************)
(* The control plane implements WallSwitch.                                *)
(***************************************************************************)
LEMMA RefinesInit == Init => Switch!Init
<1> SUFFICES ASSUME Init PROVE Switch!Init
  OBVIOUS
<1>1. flash \in Record
  BY DEF Init
<1>2. RestoreLast(flash) \in [Ch -> OnOff]
  BY <1>1, VectorTypes
<1>3. QED
  BY <1>2 DEF Init, Switch!Init, Up, Ticking, AllOff, Switch!AllOff, Ch, Switch!Ch,
         OnOff, Switch!OnOff

(* One operation of the coordinator is one of the switch, or none.         *)
LEMMA OperateRefines ==
  ASSUME IInv, NEW now \in [Ch -> OnOff], NEW back \in {"drain", "scan"},
         pc \in {"drain", "scan"}, Operate(now, back),
         \/ now = relay
         \/ \E c \in Ch, s \in OnOff : now = [relay EXCEPT ![c] = s]
         \/ \E s \in OnOff : now = [c \in Ch |-> s]
  PROVE  [Switch!Next]_<<IF Up THEN "live" ELSE "dark", pin, RestoreLast(flash), saved>>
<1>1. pc' \in {"announce", "drain", "scan"} /\ pin' = now /\ flash' = flash /\ saved' = saved
  BY OperateKeeps
<1>2. Up /\ Up' /\ RestoreLast(flash)' = RestoreLast(flash) /\ pin = relay
  BY <1>1 DEF Up, Ticking, RestoreLast, IInv, Lockstep
<1>3. saved => RestoreLast(flash) = pin
  BY <1>2 DEF IInv, PowerCutIsAtomic, PendingOnlyWhileAnnouncing, Ticking
<1>4. CASE now = relay
  BY <1>1, <1>2, <1>4
<1>5. CASE now # relay
  BY <1>1, <1>2, <1>3, <1>5
     DEF Switch!Next, Switch!Operate, Ch, Switch!Ch, OnOff, Switch!OnOff
<1>6. QED
  BY <1>4, <1>5

LEMMA RefinesNext ==
  IInv /\ [Next]_vars
    => [Switch!Next]_<<IF Up THEN "live" ELSE "dark", pin, RestoreLast(flash), saved>>
<1> SUFFICES ASSUME IInv, [Next]_vars
             PROVE  [Switch!Next]_<<IF Up THEN "live" ELSE "dark", pin, RestoreLast(flash), saved>>
  OBVIOUS
<1>0. Switch!AllOff = AllOff /\ RestoreLast(NoRecord) = AllOff
  BY DEF Switch!AllOff, AllOff, Switch!Ch, Ch, RestoreLast, NoRecord
<1>1. CASE Start
  BY <1>1 DEF Start, ram, Up, Ticking, RestoreLast
<1>2. CASE Restore
  <2>1. ~Up /\ Up' /\ pin' = RestoreLast(flash) /\ saved' = TRUE /\ flash' = flash
    BY <1>2 DEF Restore, Up, Ticking
  <2>2. QED
    BY <2>1 DEF Switch!Next, Switch!PowerUp, RestoreLast
<1>3. CASE PowerCut \/ Reboot
  <2>1. /\ ~Up' /\ pin' = AllOff /\ saved' = TRUE
        /\ flash' = flash \/ flash' = NoRecord
    BY <1>3 DEF PowerCut, Reboot, FreshRam, Up, Ticking
  <2>2. RestoreLast(flash)' \in {RestoreLast(flash), AllOff}
    BY <1>0, <2>1 DEF RestoreLast
  <2>3. QED
    BY <1>0, <2>1, <2>2 DEF Switch!Next, Switch!PowerCut
<1>4. CASE \E cmd \in Command : Submit(cmd)
  <2>1. UNCHANGED <<pc, pin, flash, saved>>
    BY <1>4 DEF Submit
  <2>2. QED
    BY <2>1 DEF Up, Ticking, RestoreLast
<1>5. CASE BeginTick \/ DrainDone \/ PollIdle \/ ScanDone
  <2>1. UNCHANGED <<pin, flash, saved>> /\ Up /\ Up'
    BY <1>5 DEF BeginTick, DrainDone, PollIdle, ScanDone, Up, Ticking
  <2>2. QED
    BY <2>1 DEF RestoreLast
<1>6. CASE Drain
  <2>1. pc = "drain" /\ Head(cmdQueue) \in Command /\ Operate(Obeyed(Head(cmdQueue)), "drain")
    BY <1>6 DEF Drain, IInv, TypeOK
  <2>2. QED
    BY <2>1, ObeyedIsOperation, OperateRefines DEF IInv
<1>7. CASE PollPressed
  <2> DEFINE now == [relay EXCEPT ![polled] = Opposite(relay[polled])]
  <2>1. polled \in Ch /\ relay \in [Ch -> OnOff] /\ pc = "scan"
    BY <1>7, ChannelAssumption DEF PollPressed, IInv, TypeOK, Ch
  <2>2. Opposite(relay[polled]) \in OnOff /\ now \in [Ch -> OnOff]
    BY <2>1, VectorTypes
  <2>3. Operate(now, "scan")
    BY <1>7 DEF PollPressed
  <2>4. \E c \in Ch, s \in OnOff : now = [relay EXCEPT ![c] = s]
    BY <2>1, <2>2
  <2> HIDE DEF now
  <2>5. QED
    BY <2>1, <2>2, <2>3, <2>4, OperateRefines
<1>8. CASE Announce
  <2>1. Up /\ Up' /\ pin' = pin /\ pin = relay
    BY <1>8 DEF Announce, Up, Ticking, IInv, Lockstep, TypeOK
  <2>2. \/ RestoreLast(flash)' = relay /\ saved' = TRUE
        \/ RestoreLast(flash)' = RestoreLast(flash) /\ saved' = FALSE
    BY <1>8 DEF Announce, RestoreLast
  <2>3. QED
    BY <2>1, <2>2 DEF Switch!Next, Switch!Remember
<1>9. CASE Wipe
  <2>1. Up /\ Up' /\ UNCHANGED <<pin, saved>> /\ (flash' = NoRecord \/ flash' = flash)
    BY <1>9 DEF Wipe, ram, Up, Ticking
  <2>2. CASE flash' = NoRecord
    BY <1>0, <2>1, <2>2 DEF Switch!Next, Switch!Forget, RestoreLast
  <2>3. CASE flash' = flash
    BY <2>1, <2>3 DEF RestoreLast
  <2>4. QED
    BY <2>1, <2>2, <2>3
<1>10. CASE UNCHANGED vars
  BY <1>10 DEF vars, ram, Up, Ticking, RestoreLast
<1>11. QED
  BY <1>1, <1>2, <1>3, <1>4, <1>5, <1>6, <1>7, <1>8, <1>9, <1>10 DEF Next, ControlTask

(* The control plane is a wall switch, for every number of channels, queue *)
(* depth and command set: one operation at a time, each one remembered     *)
(* before the next is obeyed (control_coordinator.h:82-109).               *)
THEOREM ControlPlaneIsWallSwitch == Spec => SwitchSpec
BY AlwaysIInv, RefinesInit, RefinesNext, PTL DEF Spec, SwitchSpec, Switch!Spec

(***************************************************************************)
(* What TouchNotStarved and ResetHappens rest on: the work left to the     *)
(* Control task in a drain and in a scan only ever shrinks.                *)
(***************************************************************************)
Draining == pc = "drain" \/ (pc = "announce" /\ cont = "drain")
Scanning == pc = "scan"  \/ (pc = "announce" /\ cont = "scan")

(* The step announces a channel and finds no other to announce.            *)
OneFewerToAnnounce == pending' \subseteq pending /\ pending' # pending

(* The step is of the Net task alone.                                      *)
OnlyQueues ==
  /\ cmdQueue' # cmdQueue
  /\ UNCHANGED <<pc, cont, pending, budget, polled, resetAsked>>

DrainAdvances ==
  \/ pc' \in {"scan", "off"}
  \/ Draining' /\ budget' < budget
  \/ Draining' /\ budget' = budget /\ OneFewerToAnnounce
  \/ OnlyQueues

DrainRunsOut == [][Draining => DrainAdvances]_vars

ScanAdvances ==
  \/ pc' = "off"
  \/ pc' = IF resetAsked THEN "wipe" ELSE "sleep"
  \/ Scanning' /\ polled' > polled /\ (resetAsked => resetAsked')
  \/ Scanning' /\ polled' = polled /\ OneFewerToAnnounce /\ resetAsked' = resetAsked
  \/ OnlyQueues

ScanRunsOut == [][Scanning => ScanAdvances]_vars

(* A request for a reset is made and met within one scan, and the wipe goes*)
(* straight to the reboot.                                                 *)
RequestsAreInScan == resetAsked => Scanning

ResetAdvances ==
  /\ pc = "wipe" => pc' \in {"reboot", "off"}
  /\ pc = "reboot" => pc' = "off"

ResetIsPrompt == []RequestsAreInScan /\ [][ResetAdvances]_vars

LEMMA OperateAdvances ==
  ASSUME NEW now, NEW back, Operate(now, back)
  PROVE  (pc' = back \/ pc' = "announce") /\ cont' = back
BY DEF Operate

(* While channels are announced one is taken off the list.                 *)
LEMMA AnnounceAdvances ==
  ASSUME IInv, Announce
  PROVE  /\ pc = "announce" /\ OneFewerToAnnounce
         /\ UNCHANGED <<cont, budget, polled, cmdQueue, resetAsked>>
         /\ pc' \in {cont, "announce"}
<1>1. /\ pc = "announce" /\ pending # {} /\ pending \subseteq Ch
      /\ pending' = pending \ {LowestPending}
      /\ UNCHANGED <<cont, budget, polled, cmdQueue, resetAsked>>
      /\ pc' = IF pending' = {} THEN cont ELSE "announce"
  BY DEF Announce, IInv, TypeOK, PendingOnlyWhileAnnouncing
<1>2. LowestPending \in pending
  <2>1. pending \in SUBSET Nat
    BY <1>1, ChannelAssumption DEF Ch
  <2> DEFINE Less == {p \in Nat \X Nat : p[1] < p[2]}
  <2>2. IsWellFoundedOn(Less, Nat)
    BY NatLessThanWellFounded DEF OpToRel
  <2>3. PICK c \in pending : \A d \in pending : <<d, c>> \notin Less
    <3> HIDE DEF Less
    <3>1. QED
      BY <1>1, <2>1, <2>2, WFMin
  <2>4. \A d \in pending : ~(d < c)
    BY <2>1, <2>3
  <2>5. \A d \in pending : c <= d
    BY <2>1, <2>4
  <2>6. QED
    BY <2>5 DEF LowestPending
<1>3. QED
  BY <1>1, <1>2 DEF OneFewerToAnnounce

LEMMA SubmitOnlyQueues ==
  ASSUME IInv, \E cmd \in Command : Submit(cmd)
  PROVE  OnlyQueues
<1>1. PICK cmd \in Command : Submit(cmd)
  OBVIOUS
<1>2. cmdQueue' = Append(cmdQueue, cmd) /\ cmdQueue \in Seq(Command)
  BY <1>1 DEF Submit, IInv, TypeOK
<1>3. Len(cmdQueue') # Len(cmdQueue)
  BY <1>2
<1>4. QED
  BY <1>1, <1>3 DEF OnlyQueues, Submit

LEMMA DrainSteps ==
  ASSUME IInv, Next, Draining
  PROVE  DrainAdvances
<1>1. CASE Drain
  <2>1. (pc' = "drain" \/ pc' = "announce") /\ cont' = "drain"
    BY <1>1, OperateAdvances DEF Drain
  <2>2. budget' < budget
    BY <1>1, DepthAssumption DEF Drain, IInv, TypeOK
  <2>3. QED
    BY <2>1, <2>2 DEF Draining, DrainAdvances
<1>2. CASE Announce
  <2>1. pc = "announce" /\ OneFewerToAnnounce /\ cont' = cont /\ budget' = budget
        /\ pc' \in {cont, "announce"}
    BY <1>2, AnnounceAdvances
  <2>2. QED
    BY <2>1 DEF Draining, DrainAdvances
<1>3. CASE DrainDone \/ PowerCut
  BY <1>3 DEF DrainDone, PowerCut, DrainAdvances
<1>4. CASE \E cmd \in Command : Submit(cmd)
  BY <1>4, SubmitOnlyQueues DEF DrainAdvances
<1>5. CASE \/ Start \/ Restore \/ BeginTick \/ PollIdle \/ PollPressed \/ ScanDone
           \/ Wipe \/ Reboot
  BY <1>5 DEF Draining, Start, Restore, BeginTick, PollIdle, PollPressed, ScanDone, Wipe, Reboot
<1>6. QED
  BY <1>1, <1>2, <1>3, <1>4, <1>5 DEF Next, ControlTask

LEMMA ScanSteps ==
  ASSUME IInv, Next, Scanning
  PROVE  ScanAdvances
<1>1. CASE PollIdle
  <2>1. pc = "scan" /\ pc' = pc /\ polled' > polled
    BY <1>1 DEF PollIdle, IInv, TypeOK
  <2>2. resetAsked => resetAsked'
    BY <1>1, Zenon DEF PollIdle
  <2>3. QED
    BY <2>1, <2>2 DEF Scanning, ScanAdvances
<1>2. CASE PollPressed
  <2>1. (pc' = "scan" \/ pc' = "announce") /\ cont' = "scan"
    BY <1>2, OperateAdvances DEF PollPressed
  <2>2. polled' > polled
    BY <1>2 DEF PollPressed, IInv, TypeOK
  <2>3. resetAsked => resetAsked'
    BY <1>2, Zenon DEF PollPressed
  <2>4. QED
    BY <2>1, <2>2, <2>3 DEF Scanning, ScanAdvances
<1>3. CASE Announce
  <2>1. pc = "announce" /\ OneFewerToAnnounce /\ pc' \in {cont, "announce"}
        /\ UNCHANGED <<cont, polled, resetAsked>>
    BY <1>3, AnnounceAdvances
  <2>2. QED
    BY <2>1 DEF Scanning, ScanAdvances
<1>4. CASE ScanDone \/ PowerCut
  BY <1>4 DEF ScanDone, PowerCut, ScanAdvances
<1>5. CASE \E cmd \in Command : Submit(cmd)
  BY <1>5, SubmitOnlyQueues DEF ScanAdvances
<1>6. CASE \/ Start \/ Restore \/ BeginTick \/ Drain \/ DrainDone \/ Wipe \/ Reboot
  BY <1>6 DEF Scanning, Start, Restore, BeginTick, Drain, DrainDone, Wipe, Reboot
<1>7. QED
  BY <1>1, <1>2, <1>3, <1>4, <1>5, <1>6 DEF Next, ControlTask

LEMMA RequestsStayInScan ==
  /\ Init => RequestsAreInScan
  /\ IInv /\ RequestsAreInScan /\ [Next]_vars => RequestsAreInScan'
<1>1. Init => RequestsAreInScan
  BY DEF Init, RequestsAreInScan
<1> SUFFICES ASSUME IInv, RequestsAreInScan, [Next]_vars PROVE RequestsAreInScan'
  BY <1>1
<1>2. CASE Next /\ Scanning
  <2>1. ScanAdvances
    BY <1>2, ScanSteps
  <2>2. CASE ScanDone \/ PowerCut
    BY <2>2 DEF ScanDone, PowerCut, FreshRam, RequestsAreInScan
  <2>3. CASE ~(ScanDone \/ PowerCut)
    <3>1. CASE PollIdle \/ PollPressed
      <4>1. cont' = "scan" \/ pc' = "scan"
        BY <3>1, OperateAdvances DEF PollIdle, PollPressed
      <4>2. pc' \in {"scan", "announce"}
        BY <3>1, OperateAdvances DEF PollIdle, PollPressed
      <4>3. QED
        BY <4>1, <4>2 DEF RequestsAreInScan, Scanning
    <3>2. CASE Announce
      BY <1>2, <3>2, AnnounceAdvances DEF RequestsAreInScan, Scanning
    <3>3. CASE \E cmd \in Command : Submit(cmd)
      BY <1>2, <3>3, SubmitOnlyQueues DEF OnlyQueues, RequestsAreInScan, Scanning
    <3>4. QED
      BY <1>2, <2>3, <3>1, <3>2, <3>3 DEF Next, ControlTask, Scanning, Start, Restore,
         BeginTick, Drain, DrainDone, Wipe, Reboot
  <2>4. QED
    BY <2>2, <2>3
<1>3. CASE Next /\ ~Scanning
  <2>1. ~resetAsked
    BY <1>3 DEF RequestsAreInScan
  <2>2. ~resetAsked'
    BY <1>3, <2>1 DEF Scanning, Next, ControlTask, Start, Restore, BeginTick, Drain, DrainDone,
       PollIdle, PollPressed, ScanDone, Announce, Wipe, Reboot, PowerCut, Submit, ram, FreshRam
  <2>3. QED
    BY <2>2 DEF RequestsAreInScan
<1>4. CASE UNCHANGED vars
  BY <1>4 DEF vars, ram, RequestsAreInScan, Scanning
<1>5. QED
  BY <1>2, <1>3, <1>4

(* A drain ends: each of its steps leaves less of the budget, or as much   *)
(* and fewer channels to announce, whatever is queued meanwhile, so at most*)
(* QueueDepth commands stand between a tick and its touch scan             *)
(* (control_loop.h:51-58).                                                 *)
THEOREM DrainsRunOut == Spec => DrainRunsOut
<1>1. IInv /\ [Next]_vars => [Draining => DrainAdvances]_vars
  BY DrainSteps
<1>2. QED
  BY AlwaysIInv, <1>1, PTL DEF Spec, DrainRunsOut

(* So does a scan, by channels polled and then announced, and it forgets no*)
(* request for a reset on the way: it ends in the wipe when there is one   *)
(* (control_loop.h:44-48, composition_root.h:214-218).                     *)
THEOREM ScansRunOut == Spec => ScanRunsOut
<1>1. IInv /\ [Next]_vars => [Scanning => ScanAdvances]_vars
  BY ScanSteps
<1>2. QED
  BY AlwaysIInv, <1>1, PTL DEF Spec, ScanRunsOut

(* A request for a reset never outlives the scan that made it, and nothing *)
(* comes between the wipe it ends in and the reboot                        *)
(* (composition_root.h:92-107, 417-427).                                   *)
THEOREM ResetsArePrompt == Spec => ResetIsPrompt
<1>1. Next => ResetAdvances
  BY DEF ResetAdvances, Next, ControlTask, Start, Restore, BeginTick, Drain, DrainDone, PollIdle,
         PollPressed, ScanDone, Announce, Wipe, Reboot, PowerCut, Submit, Ticking
<1>2. QED
  BY AlwaysIInv, RequestsStayInScan, <1>1, PTL DEF Spec, ResetIsPrompt
==============================================================================
