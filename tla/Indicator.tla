------------------------------ MODULE Indicator ------------------------------
(***************************************************************************)
(* The status LED: IndicatorController (domain/indicator_controller.h) as  *)
(* the two tasks use it.  The Control task ticks it at the end of each     *)
(* cycle and feeds it the progress of the reset gesture; the Net task sets *)
(* the status from netTick (composition_root.h:224-261).                   *)
(*                                                                         *)
(* setStatus on the Net task is not atomic.  The Control task, of higher   *)
(* priority, may run whole cycles between its test and its three stores,   *)
(* and nothing keeps the stores in the order they are written in.          *)
(*                                                                         *)
(* Time is kept as the age of the blink phase at the last tick, modulo     *)
(* Round, which every period divides.                                      *)
(***************************************************************************)
EXTENDS Naturals

CONSTANTS
  Provisioning, Connecting, Offline,   (* blink periods of the statuses    *)
  Slow, Fast,                          (* and of the reset feedback        *)
  Total,         (* factoryHoldMs, the time of a whole hold                *)
  ProgressEvery, (* progressEveryMs, between two reports of a hold         *)
  Gaps,          (* the times there may be between two ticks               *)
  MaxPreempt,    (* bound: cycles of the Control task in one setStatus     *)
  Round          (* a common multiple of the periods                       *)

resetBlinkPeriodAt(e) ==
  IF e >= Total THEN 0 ELSE Slow - ((Slow - Fast) * ((e * 100) \div Total)) \div 100

Periods == {Provisioning, Connecting, Offline} \cup {resetBlinkPeriodAt(e) : e \in ProgressEvery .. Total - 1}
Times   == {0} \cup UNION {0 .. Total + g - 1 : g \in Gaps}

ASSUME PeriodAssumption ==
  /\ Total \in Nat \ {0} /\ ProgressEvery \in Nat \ {0} /\ Round \in Nat
  /\ Fast \in Nat /\ Slow \in Nat /\ Fast <= Slow
  /\ \A p \in Periods : p \in Nat \ {0} /\ Round % p = 0
(* The Control task looks at the LED often enough, and the Net task is not *)
(* kept from its three stores for half a blink.                            *)
ASSUME CadenceAssumption ==
  /\ MaxPreempt \in Nat
  /\ Gaps \subseteq Nat \ {0}
  /\ \A g \in Gaps, p \in Periods : (MaxPreempt + 1) * g < p \div 2

Status == {"Booting", "Provisioning", "Connecting", "Online", "Offline", "Fault", "FactoryReset"}

VARIABLES
  status, phase, ledOn,          (* status_, the age of phaseStart_, ledOn_ *)
  resetActive, resetElapsed,     (* reset progress                          *)
  pin,                           (* what the LED does                       *)
  held, hold, since,             (* the pair held: resetActive_ of          *)
                                 (* TouchInput, and the ages of resetStart_ *)
                                 (* and lastProgress_                       *)
  wifi,                          (* "start", "portal" or "operational"      *)
  mqtt,                          (* the device has an MQTT service          *)
  link,                          (* client_.connected()                     *)
  npc, was, target,              (* where netTick stands, and its locals    *)
  stores, preempted,             (* setStatus: stores to do, cycles so far  *)
  shown,                         (* history: a whole tick since the stores  *)
  overridden,                    (* history: a gesture set the status last  *)
  quietly                        (* history: the link was lost between the  *)
                                 (* two samples netTick compares            *)

pair    == <<held, hold, since>>
control == <<ledOn, resetActive, resetElapsed, pin, pair>>
net     == <<wifi, npc, was, target>>
vars    == <<status, phase, control, mqtt, link, net, stores, preempted, shown, overridden, quietly>>

(* begin() leaves Offline; what has passed of the phase is arbitrary.      *)
Init ==
  /\ status = "Offline" /\ phase \in 0 .. Round - 1 /\ ledOn = FALSE
  /\ resetActive = FALSE /\ resetElapsed = 0
  /\ pin = FALSE
  /\ held = FALSE /\ hold = 0 /\ since = 0
  /\ wifi = "start" /\ mqtt \in BOOLEAN /\ link = FALSE
  /\ npc = "idle" /\ was = FALSE /\ target = "Offline"
  /\ stores = {} /\ preempted = 0
  /\ shown = FALSE /\ overridden = FALSE /\ quietly = FALSE

----------------------------------------------------------------------------
(* The pattern.                                                            *)
resetBlinkPeriod(e) == resetBlinkPeriodAt(e)

Period(s, active, e) ==
  IF active \/ s = "FactoryReset" THEN resetBlinkPeriod(e)
  ELSE IF s = "Provisioning" THEN Provisioning
  ELSE IF s = "Connecting" THEN Connecting
  ELSE IF s = "Offline" THEN Offline
  ELSE 0

Lit(p, age) == p = 0 \/ age % p < p \div 2

----------------------------------------------------------------------------
(* The Control task: scan, which may report progress of the gesture, then  *)
(* tick.  Its own setStatus is not interrupted.                            *)

driveLedRising(led, on) == ledOn' = on /\ pin' = IF on /\ ~led THEN on ELSE pin
driveLed(led, on) == ledOn' = on /\ pin' = IF on # led THEN on ELSE pin

Cycle(g, e) ==
  LET progress == e # 0
      restart  == progress /\ status # "FactoryReset"
      s        == IF progress THEN "FactoryReset" ELSE status
      led      == ledOn /\ ~restart
      active   == resetActive \/ progress
      elapsed  == IF progress THEN e ELSE resetElapsed
      age      == ((IF restart THEN 0 ELSE phase) + g) % Round
  IN  /\ stores = {} \/ preempted < MaxPreempt
      /\ preempted' = IF stores = {} THEN 0 ELSE preempted + 1
      /\ status' = s /\ phase' = age
      /\ resetActive' = active /\ resetElapsed' = elapsed
      /\ driveLed(led, Lit(Period(s, active, elapsed), age))
      /\ shown' = (stores = {})
      /\ overridden' = (overridden \/ progress)
      /\ UNCHANGED <<mqtt, link, net, stores, quietly>>

(* The scan looks at the pair.  It is not held, or not any more; nothing   *)
(* calls clearResetProgress.  (The gesture is not over: see Reboot.)       *)
PairApart(g) ==
  /\ hold < Total
  /\ held' = FALSE /\ hold' = 0 /\ since' = 0
  /\ Cycle(g, 0)

(* It is found held, and the window opens.                                 *)
PairFoundHeld(g) ==
  /\ ~held
  /\ held' = TRUE /\ UNCHANGED <<hold, since>>
  /\ Cycle(g, 0)

(* It is still held, and a report is made if it is time for one.           *)
PairStaysHeldUnbounded(g) ==
  /\ held
  /\ hold' = hold + g
  /\ IF since + g >= ProgressEvery THEN since' = 0 /\ Cycle(g, hold')
                                  ELSE since' = since + g /\ Cycle(g, 0)
  /\ UNCHANGED held

PairStaysHeld(g) ==
  /\ held /\ hold < Total
  /\ hold' = hold + g
  /\ IF since + g >= ProgressEvery THEN since' = 0 /\ Cycle(g, hold')
                                  ELSE since' = since + g /\ Cycle(g, 0)
  /\ UNCHANGED held

----------------------------------------------------------------------------
(* The Net task.                                                           *)

(* setStatus: the test ...                                                 *)
SetStatus(s) ==
  /\ target' = s
  /\ npc' = IF s = status THEN "idle" ELSE "store"
  /\ stores' = IF s = status THEN {} ELSE {"status", "phase", "ledOn"}
  /\ preempted' = 0
  /\ overridden' = (overridden /\ s # status)
  /\ UNCHANGED <<status, phase, ledOn>>

(* ... and the stores, in the order the build has put them.                *)
StoreKeepsPhase ==
  \E x \in stores :
    /\ npc = "store"
    /\ stores' = stores \ {x}
    /\ npc' = IF stores' = {} THEN "idle" ELSE "store"
    /\ status' = IF x = "status" THEN target ELSE status
    /\ ledOn'  = (ledOn /\ x # "ledOn")
    /\ overridden' = (overridden /\ x # "status")
    /\ shown' = FALSE
    /\ UNCHANGED <<phase, resetActive, resetElapsed, pin, pair, mqtt, link, wifi, was, target,
                   preempted, quietly>>

Store ==
  \E x \in stores :
    /\ npc = "store"
    /\ stores' = stores \ {x}
    /\ npc' = IF stores' = {} THEN "idle" ELSE "store"
    /\ status' = IF x = "status" THEN target ELSE status
    /\ phase'  = IF x = "phase" THEN 0 ELSE phase
    /\ ledOn'  = (ledOn /\ x # "ledOn")
    /\ overridden' = (overridden /\ x # "status")
    /\ shown' = FALSE
    /\ UNCHANGED <<resetActive, resetElapsed, pin, pair, mqtt, link, wifi, was, target,
                   preempted, quietly>>

(* netTick up to the MQTT service: the first call opens the portal or      *)
(* joins with the stored credentials, a later one finds Wi-Fi operational. *)
OpenPortal ==
  /\ npc = "idle" /\ wifi = "start"
  /\ wifi' = "portal"
  /\ SetStatus("Provisioning")
  /\ UNCHANGED <<resetActive, resetElapsed, pin, pair, mqtt, link, was, shown, quietly>>

Operational ==
  /\ npc = "idle" /\ wifi \in {"start", "portal"}
  /\ wifi' = "operational"
  /\ SetStatus(IF mqtt THEN "Connecting" ELSE "Offline")
  /\ UNCHANGED <<resetActive, resetElapsed, pin, pair, mqtt, link, was, shown, quietly>>

(* mqtt_->tick between two looks at the connection.                        *)
SampleWas ==
  /\ npc = "idle" /\ wifi = "operational" /\ mqtt
  /\ was' = link /\ npc' = "tick"
  /\ UNCHANGED <<status, phase, control, mqtt, link, wifi, target, stores, preempted, shown,
                 overridden, quietly>>

(* A session lost since the first look may be replaced before the second.  *)
Connect ==
  /\ npc = "tick" /\ ~link
  /\ link' = TRUE
  /\ UNCHANGED <<status, phase, control, mqtt, net, stores, preempted, shown, overridden, quietly>>

SampleIsInverted ==
  /\ npc = "tick"
  /\ IF link # was
       THEN SetStatus(IF was THEN "Online" ELSE "Offline")
       ELSE /\ npc' = "idle"
            /\ UNCHANGED <<status, phase, ledOn, target, stores, preempted, overridden>>
  /\ quietly' = (quietly /\ ~link)
  /\ UNCHANGED <<resetActive, resetElapsed, pin, pair, mqtt, link, wifi, was, shown>>

SampleIs ==
  /\ npc = "tick"
  /\ IF link # was
       THEN SetStatus(IF link THEN "Online" ELSE "Offline")
       ELSE /\ npc' = "idle"
            /\ UNCHANGED <<status, phase, ledOn, target, stores, preempted, overridden>>
  /\ quietly' = (quietly /\ ~link)
  /\ UNCHANGED <<resetActive, resetElapsed, pin, pair, mqtt, link, wifi, was, shown>>

(* The session is lost, at any time.                                       *)
LoseLink ==
  /\ link
  /\ link' = FALSE
  /\ quietly' = (quietly \/ npc # "tick")
  /\ UNCHANGED <<status, phase, control, mqtt, net, stores, preempted, shown, overridden>>

(* The hold is whole, whether or not its scan had a report to make: the    *)
(* gesture fires, and its cycle ends in a factory reset.                   *)
Reboot ==
  /\ hold >= Total
  /\ status' = "Offline" /\ phase' \in 0 .. Round - 1 /\ ledOn' = FALSE
  /\ resetActive' = FALSE /\ resetElapsed' = 0 /\ pin' = FALSE
  /\ held' = FALSE /\ hold' = 0 /\ since' = 0
  /\ wifi' = "start" /\ mqtt' \in BOOLEAN /\ link' = FALSE
  /\ npc' = "idle" /\ was' = FALSE /\ target' = "Offline"
  /\ stores' = {} /\ preempted' = 0
  /\ shown' = FALSE /\ overridden' = FALSE /\ quietly' = FALSE

NetTask == OpenPortal \/ Operational \/ SampleWas \/ Connect \/ SampleIs \/ Store
Cycles  == \E g \in Gaps : PairApart(g) \/ PairFoundHeld(g) \/ PairStaysHeld(g)

Next == NetTask \/ Cycles \/ LoseLink \/ Reboot

(* Both tasks get their turns (main.cpp:41-57), and the cycle that fired   *)
(* the gesture goes on to its end.                                         *)
Spec == Init /\ [][Next]_vars /\ WF_vars(NetTask) /\ WF_vars(Cycles) /\ WF_vars(Reboot)

----------------------------------------------------------------------------
(* Type invariant: the ages of the hold and of its last report are bounded *)
(* too, since the gesture that fires ends the run (touch_input.h:153-168).  *)
TypeOK ==
  /\ status \in Status /\ target \in Status
  /\ phase \in 0 .. Round - 1
  /\ {ledOn, pin, resetActive, held, mqtt, link, was, shown, overridden, quietly} \subseteq BOOLEAN
  /\ resetElapsed \in Times /\ hold \in Times /\ since \in 0 .. ProgressEvery - 1
  /\ wifi \in {"start", "portal", "operational"} /\ npc \in {"idle", "store", "tick"}
  /\ stores \subseteq {"status", "phase", "ledOn"} /\ (stores # {} <=> npc = "store")
  /\ preempted \in 0 .. MaxPreempt

(* After any tick that found setStatus finished, the LED is as the pattern *)
(* has it, although ticks may have come between setStatus's stores and the *)
(* pin is only written when ledOn_ says it changes                         *)
(* (indicator_controller.h:31-33, 94-102).                                 *)
LedShowsPattern ==
  shown => pin = Lit(Period(status, resetActive, resetElapsed), phase)

(* Between two netTicks the status tells how the device is connected,      *)
(* except that a session lost between them leaves Online standing, and     *)
(* that a gesture's status stays until the next transition                 *)
(* (composition_root.h:99-102, 246-257).                                   *)
StatusIsTrue ==
  npc = "idle" /\ ~overridden =>
    /\ wifi = "start"  => status = "Offline"
    /\ wifi = "portal" => status = "Provisioning"
    /\ wifi = "operational" =>
         IF ~mqtt THEN status = "Offline"
         ELSE IF link \/ quietly THEN status = "Online"
         ELSE status \in {"Connecting", "Offline"}

(* While the status stays as it is, a blinking LED goes on blinking: no    *)
(* order of the tasks' steps leaves it lit or dark for good                *)
(* (indicator_controller.h:52-57, 100-102).                                *)
Blinking == Period(status, resetActive, resetElapsed) # 0 /\ stores = {}
BlinkGoesOn == <>[]Blinking => []<>pin /\ []<>~pin
==============================================================================
