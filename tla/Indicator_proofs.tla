--------------------------- MODULE Indicator_proofs ---------------------------
(***************************************************************************)
(* The LED shows what the pattern says and the status what the connection  *)
(* is, however the Control task's ticks fall between the stores of the Net *)
(* task's setStatus: for any blink periods, gaps and number of preemptions *)
(* within the assumptions of Indicator.                                    *)
(***************************************************************************)
EXTENDS Indicator, TLAPS

(* The feedback of a hold is on from its first progress.                   *)
ResetIsCounted ==
  /\ resetActive => resetElapsed >= ProgressEvery
  /\ status = "FactoryReset" => resetActive
  /\ target # "FactoryReset"

(* A lit pin that ledOn_ does not know of is left by setStatus, which also *)
(* restarts the phase: until the next tick the phase is in the half of the *)
(* blink that is lit.                                                      *)
Bound(n) == \A p \in Periods : (MaxPreempt + 1) * phase <= n * (p \div 2)
LedIsTracked ==
  /\ ledOn => pin
  /\ stores = {} /\ pin /\ ~ledOn => Bound(MaxPreempt)
  /\ stores # {} /\ "phase" \notin stores => Bound(preempted)

(* The status to be, and the status as netTick has sampled it.             *)
Told(s, up) ==
  /\ wifi = "start"  => s = "Offline"
  /\ wifi = "portal" => s = "Provisioning"
  /\ wifi = "operational" =>
       IF ~mqtt THEN s = "Offline"
       ELSE IF up \/ quietly THEN s = "Online"
       ELSE s \in {"Connecting", "Offline"}

StatusIsTracked ==
  /\ npc = "idle" /\ ~overridden => Told(status, link)
  /\ npc = "store" /\ "status" \in stores => Told(target, link)
  /\ npc = "store" /\ "status" \notin stores /\ ~overridden => Told(status, link)
  /\ npc = "tick" => /\ ~overridden => Told(status, was)
                     /\ wifi = "operational" /\ mqtt
                     /\ ~(quietly /\ was)
  /\ npc # "tick" => ~(quietly /\ link)
  /\ wifi # "operational" \/ ~mqtt => ~link /\ ~quietly

(* The last report of a hold, if any, was made while it lasted.            *)
HoldIsCounted == since <= hold

IInv == TypeOK /\ HoldIsCounted /\ ResetIsCounted /\ LedIsTracked /\ StatusIsTracked /\ LedShowsPattern

Flags == /\ ledOn \in BOOLEAN /\ pin \in BOOLEAN /\ resetActive \in BOOLEAN
         /\ held \in BOOLEAN /\ mqtt \in BOOLEAN /\ link \in BOOLEAN /\ was \in BOOLEAN
         /\ shown \in BOOLEAN /\ overridden \in BOOLEAN /\ quietly \in BOOLEAN

LEMMA FlagTypes ==
  Flags <=> {ledOn, pin, resetActive, held, mqtt, link, was, shown, overridden, quietly} \subseteq BOOLEAN
BY DEF Flags

(* A lit half: a phase that has not used up the preemptions is in it.      *)
LEMMA FreshPhaseIsLit ==
  ASSUME NEW p \in Periods, NEW g \in Gaps, NEW age \in Nat, NEW ph \in Nat,
         (MaxPreempt + 1) * ph <= MaxPreempt * (p \div 2), age <= ph + g
  PROVE  Lit(p, age)
<1> DEFINE h == p \div 2
           m == MaxPreempt + 1
<1>1. p \in Nat \ {0} /\ MaxPreempt \in Nat /\ g \in Nat
  BY PeriodAssumption, CadenceAssumption
<1>2. h \in Nat /\ h <= p /\ m \in Nat \ {0}
  BY <1>1
<1>3. m * g < h
  BY CadenceAssumption
<1>4. m * ph <= MaxPreempt * h /\ MaxPreempt * h + h = m * h
  BY <1>1, <1>2
<1>5. m * (ph + g) < m * h
  <2>1. m * (ph + g) = m * ph + m * g
    BY <1>1, <1>2
  <2>2. m * ph \in Nat /\ m * g \in Nat /\ MaxPreempt * h \in Nat
    BY <1>1, <1>2
  <2> HIDE DEF m, h
  <2>3. QED
    BY <1>2, <1>3, <1>4, <2>1, <2>2
<1>6. ph + g < h
  <2> HIDE DEF m, h
  <2>1. QED
    BY <1>1, <1>2, <1>5
<1>7. age < h /\ age < p
  BY <1>1, <1>2, <1>6
<1>8. age % p = age
  BY <1>1, <1>7
<1>9. QED
  BY <1>7, <1>8 DEF Lit

LEMMA PeriodIsKnown ==
  ASSUME NEW s \in Status, NEW active \in BOOLEAN, NEW e \in Nat,
         active \/ s = "FactoryReset" => e >= ProgressEvery
  PROVE  Period(s, active, e) = 0 \/ Period(s, active, e) \in Periods
<1>1. Total \in Nat \ {0} /\ ProgressEvery \in Nat \ {0}
  BY PeriodAssumption
<1>2. CASE active \/ s = "FactoryReset"
  <2>1. CASE e >= Total
    BY <1>1, <1>2, <2>1 DEF Period, resetBlinkPeriod, resetBlinkPeriodAt
  <2>2. CASE e < Total
    <3>1. e \in ProgressEvery .. Total - 1
      BY <1>1, <1>2, <2>2
    <3>2. resetBlinkPeriodAt(e) \in Periods
      BY <3>1 DEF Periods
    <3>3. QED
      BY <1>2, <3>2 DEF Period, resetBlinkPeriod
  <2>3. QED
    BY <1>1, <2>1, <2>2
<1>3. CASE ~(active \/ s = "FactoryReset")
  BY <1>3 DEF Period, Periods
<1>4. QED
  BY <1>2, <1>3

Values ==
  /\ status \in Status /\ target \in Status
  /\ phase \in 0 .. Round - 1
  /\ resetElapsed \in Times /\ hold \in Times /\ since \in 0 .. ProgressEvery - 1
  /\ wifi \in {"start", "portal", "operational"} /\ npc \in {"idle", "store", "tick"}
  /\ stores \subseteq {"status", "phase", "ledOn"} /\ (stores # {} <=> npc = "store")
  /\ preempted \in 0 .. MaxPreempt

(* The ages are bounded by a whole hold and a gap.                         *)
LEMMA TimesAreNat ==
  /\ Times \subseteq Nat /\ 0 \in Times
  /\ \A h \in Times, g \in Gaps : h < Total => h + g \in Times
<1>1. Total \in Nat \ {0} /\ Gaps \subseteq Nat \ {0}
  BY PeriodAssumption, CadenceAssumption
<1>2. Times \subseteq Nat /\ 0 \in Times
  BY <1>1 DEF Times
<1>3. ASSUME NEW h \in Times, NEW g \in Gaps, h < Total PROVE h + g \in Times
  <2>1. h + g \in 0 .. Total + g - 1
    BY <1>1, <1>2, <1>3
  <2>2. QED
    BY <2>1 DEF Times
<1>4. QED
  BY <1>2, <1>3

LEMMA TypeParts == TypeOK <=> Values /\ Flags
BY FlagTypes DEF TypeOK, Values

LEMMA TypePartsAfter == TypeOK' <=> Values' /\ Flags'
<1>1. Flags' <=> {ledOn, pin, resetActive, held, mqtt, link, was, shown, overridden, quietly}' \subseteq BOOLEAN
  BY DEF Flags
<1>2. QED
  BY <1>1 DEF TypeOK, Values

LEMMA InitEstablishes == Init => IInv
<1> SUFFICES ASSUME Init PROVE IInv
  OBVIOUS
<1>1. Total \in Nat \ {0} /\ ProgressEvery \in Nat \ {0} /\ MaxPreempt \in Nat /\ 0 \in Times
  BY PeriodAssumption, CadenceAssumption, TimesAreNat
<1>2. Values
  BY <1>1 DEF Init, Values, Status
<1>3. Flags
  BY DEF Init, Flags
<1>4. ResetIsCounted /\ LedIsTracked /\ HoldIsCounted
  BY DEF Init, ResetIsCounted, LedIsTracked, HoldIsCounted
<1>5. StatusIsTracked /\ LedShowsPattern
  BY DEF Init, StatusIsTracked, Told, LedShowsPattern
<1>6. QED
  BY <1>2, <1>3, <1>4, <1>5, TypeParts DEF IInv

----------------------------------------------------------------------------
(* A cycle of the Control task, with or without progress of a hold.        *)

(* What the scan makes of the pair, and the report it may make of it.      *)
Scanned(e) == /\ held' \in BOOLEAN /\ hold' \in Times /\ since' \in 0 .. ProgressEvery - 1
              /\ since' <= hold'
              /\ e \in Times /\ (e = 0 \/ e >= ProgressEvery)

LEMMA CycleTypes ==
  ASSUME IInv, NEW g \in Gaps, NEW e, Scanned(e), Cycle(g, e)
  PROVE  Values' /\ Flags' /\ ResetIsCounted'
<1>1. Values /\ Flags /\ ResetIsCounted
  BY TypeParts DEF IInv
<1>2. /\ MaxPreempt \in Nat /\ g \in Nat /\ Round \in Nat \ {0} /\ ProgressEvery \in Nat \ {0}
      /\ e \in Nat
  BY <1>1, PeriodAssumption, CadenceAssumption, TimesAreNat DEF Values, Scanned
<1>3. /\ status' = (IF e # 0 THEN "FactoryReset" ELSE status)
      /\ resetActive' = (resetActive \/ e # 0)
      /\ resetElapsed' = (IF e # 0 THEN e ELSE resetElapsed)
      /\ preempted' = (IF stores = {} THEN 0 ELSE preempted + 1)
      /\ stores = {} \/ preempted < MaxPreempt
      /\ UNCHANGED <<mqtt, link, wifi, npc, was, target, stores, quietly>>
  BY DEF Cycle, net
<1>4. phase' \in 0 .. Round - 1
  <2>1. \A n \in Nat : n % Round \in 0 .. Round - 1
    BY <1>2
  <2>2. phase + g \in Nat /\ 0 + g \in Nat
    BY <1>1, <1>2 DEF Values
  <2>3. phase' = (phase + g) % Round \/ phase' = (0 + g) % Round
    BY DEF Cycle
  <2>4. QED
    BY <2>1, <2>2, <2>3
<1>5. preempted' \in 0 .. MaxPreempt
  BY <1>1, <1>2, <1>3 DEF Values
<1>6. status' \in Status /\ resetElapsed' \in Times
  BY <1>1, <1>3 DEF Values, Status, Scanned
<1>7. Values'
  BY <1>1, <1>3, <1>4, <1>5, <1>6 DEF Values, Scanned
<1>8. Flags'
  <2>1. ledOn' \in BOOLEAN /\ shown' \in BOOLEAN /\ overridden' \in BOOLEAN
    BY DEF Cycle, driveLed, Lit
  <2>2. pin' \in BOOLEAN
    BY <1>1 DEF Flags, Cycle, driveLed, Lit
  <2>3. resetActive' \in BOOLEAN
    BY <1>3
  <2>4. QED
    BY <1>1, <1>3, <2>1, <2>2, <2>3 DEF Flags, Scanned
<1>9. ResetIsCounted'
  <2>1. CASE e # 0
    <3>1. e >= ProgressEvery
      BY <2>1 DEF Scanned
    <3>2. resetActive' /\ resetElapsed' = e /\ target' = target
      BY <1>3, <2>1
    <3>3. QED
      BY <1>1, <3>1, <3>2 DEF ResetIsCounted
  <2>2. CASE e = 0
    <3>1. resetActive' = resetActive /\ resetElapsed' = resetElapsed
      BY <1>1, <1>3, <2>2 DEF Flags
    <3>2. status' = status /\ target' = target
      BY <1>3, <2>2
    <3>3. QED
      BY <1>1, <3>1, <3>2 DEF ResetIsCounted
  <2>3. QED
    BY <2>1, <2>2
<1>10. QED
  BY <1>7, <1>8, <1>9

LEMMA ProductGrows == \A a, b, c \in Nat : b <= c => a * b <= a * c
<1> SUFFICES ASSUME NEW a \in Nat, NEW b \in Nat, NEW c \in Nat, b <= c
             PROVE  a * b <= a * c
  OBVIOUS
<1> DEFINE d == c - b
<1>1. d \in Nat /\ c = b + d
  OBVIOUS
<1> HIDE DEF d
<1>2. a * c = a * b + a * d
  BY <1>1
<1>3. a * b \in Nat /\ a * d \in Nat
  BY <1>1
<1>4. QED
  BY <1>2, <1>3

LEMMA ProductIsNat == \A a, b \in Nat : a * b \in Nat
OBVIOUS

LEMMA CycleShows ==
  ASSUME IInv, NEW g \in Gaps, NEW e, Scanned(e), Cycle(g, e)
  PROVE  LedIsTracked' /\ LedShowsPattern'
<1> DEFINE restart == e # 0 /\ status # "FactoryReset"
           led     == ledOn /\ ~restart
           on      == Lit(Period(status', resetActive', resetElapsed'), phase')
<1>1. Values /\ Flags /\ LedIsTracked /\ Values' /\ Flags' /\ ResetIsCounted'
  BY TypeParts, CycleTypes DEF IInv
<1>2. MaxPreempt \in Nat /\ g \in Nat /\ phase \in Nat /\ phase' \in Nat /\ Round \in Nat \ {0}
      /\ \A p \in Periods : p \in Nat \ {0} /\ p \div 2 \in Nat /\ (MaxPreempt + 1) * g < p \div 2
  BY <1>1, PeriodAssumption, CadenceAssumption DEF Values
<1>3. /\ ledOn' = on /\ pin' = (IF on # led THEN on ELSE pin)
      /\ stores' = stores /\ shown' = (stores = {})
      /\ stores = {} \/ preempted < MaxPreempt
      /\ preempted' = (IF stores = {} THEN 0 ELSE preempted + 1)
  BY DEF Cycle, driveLed
<1>4. phase' <= (IF restart THEN 0 ELSE phase) + g
  <2>1. \A n \in Nat : n % Round <= n
    BY <1>2
  <2>2. (IF restart THEN 0 ELSE phase) + g \in Nat
    BY <1>2
  <2>3. phase' = ((IF restart THEN 0 ELSE phase) + g) % Round
    BY DEF Cycle
  <2>4. QED
    BY <2>1, <2>2, <2>3
<1>5. Period(status', resetActive', resetElapsed') = 0
      \/ Period(status', resetActive', resetElapsed') \in Periods
  <2>1. resetElapsed' \in Nat
    BY <1>1, TimesAreNat DEF Values
  <2>2. QED
    BY <1>1, <2>1, PeriodIsKnown DEF Values, Flags, ResetIsCounted
<1>6. on \in BOOLEAN /\ led \in BOOLEAN /\ pin \in BOOLEAN /\ (ledOn => pin) /\ (led => ledOn)
  BY <1>1 DEF Lit, Flags, LedIsTracked
<1>7. restart => on
  <2> SUFFICES ASSUME restart PROVE on
    OBVIOUS
  <2>1. phase' <= 0 + g
    BY <1>4
  <2>2. \A p \in Periods : (MaxPreempt + 1) * 0 <= MaxPreempt * (p \div 2)
    BY <1>2
  <2>3. \A p \in Periods : Lit(p, phase')
    BY <1>2, <2>1, <2>2, FreshPhaseIsLit
  <2>4. QED
    BY <1>5, <2>3 DEF Lit
<1>8. stores = {} /\ pin /\ ~ledOn /\ ~restart => on
  <2> SUFFICES ASSUME stores = {}, pin, ~ledOn, ~restart PROVE on
    OBVIOUS
  <2>1. phase' <= phase + g
    BY <1>4
  <2>2. \A p \in Periods : (MaxPreempt + 1) * phase <= MaxPreempt * (p \div 2)
    BY <1>1 DEF LedIsTracked, Bound
  <2>3. \A p \in Periods : Lit(p, phase')
    BY <1>2, <2>1, <2>2, FreshPhaseIsLit
  <2>4. QED
    BY <1>5, <2>3 DEF Lit
<1> HIDE DEF on
<1>9. (ledOn' => pin') /\ (stores = {} => pin' = on)
  <2>1. CASE on # led
    BY <1>3, <1>6, <2>1
  <2>2. CASE on = led /\ restart
    BY <1>3, <1>6, <1>7, <2>2
  <2>3. CASE on = led /\ ~restart
    BY <1>3, <1>6, <1>8, <2>3
  <2>4. QED
    BY <2>1, <2>2, <2>3
<1>10. ASSUME stores # {}, "phase" \notin stores, NEW p \in Periods
       PROVE  (MaxPreempt + 1) * phase' <= preempted' * (p \div 2)
  <2> DEFINE m == MaxPreempt + 1
             h == p \div 2
             k == preempted
  <2>1. m * phase <= k * h /\ m * g < h /\ m \in Nat /\ h \in Nat /\ k \in Nat
    BY <1>1, <1>2, <1>10 DEF LedIsTracked, Bound, Values
  <2>2. phase' <= phase + g
    BY <1>2, <1>4
  <2> HIDE DEF m, h, k
  <2>3. m * phase' <= m * (phase + g)
    <3> DEFINE sum == phase + g
    <3>1. sum \in Nat /\ phase' <= sum /\ phase' \in Nat
      BY <1>2, <2>2
    <3> HIDE DEF sum
    <3>2. m * phase' <= m * sum
      BY <2>1, <3>1, ProductGrows
    <3>3. QED
      BY <3>2 DEF sum
  <2>4. m * (phase + g) = m * phase + m * g /\ (k + 1) * h = k * h + h
    BY <1>2, <2>1
  <2>5. m * phase' \in Nat /\ m * phase \in Nat /\ m * g \in Nat /\ k * h \in Nat
    BY <1>2, <2>1, ProductIsNat
  <2>6. m * phase' <= (k + 1) * h
    BY <2>1, <2>3, <2>4, <2>5
  <2>7. QED
    BY <1>3, <1>10, <2>6 DEF m, h, k
<1>11. stores = {} => ~(pin' /\ ~ledOn')
  BY <1>3, <1>6, <1>9
<1>12. LedIsTracked'
  BY <1>3, <1>9, <1>10, <1>11 DEF LedIsTracked, Bound
<1>13. LedShowsPattern'
  BY <1>3, <1>9 DEF LedShowsPattern, on
<1>14. QED
  BY <1>12, <1>13

LEMMA CycleTells ==
  ASSUME IInv, NEW g \in Gaps, NEW e, Cycle(g, e)
  PROVE  StatusIsTracked'
<1>1. /\ overridden' = (overridden \/ e # 0)
      /\ status' = (IF e # 0 THEN "FactoryReset" ELSE status)
      /\ UNCHANGED <<mqtt, link, wifi, npc, was, target, stores, quietly>>
  BY DEF Cycle, net
<1>2. ~overridden' => ~overridden /\ status' = status
  BY <1>1
<1>3. StatusIsTracked
  BY DEF IInv
<1>4. \A s, up : Told(s, up)' = Told(s, up)
  BY <1>1 DEF Told
<1>5. QED
  BY <1>1, <1>2, <1>3 DEF StatusIsTracked, Told

LEMMA CycleKeeps ==
  ASSUME IInv, NEW g \in Gaps, NEW e, Scanned(e), Cycle(g, e)
  PROVE  IInv'
BY CycleTypes, CycleShows, CycleTells, TypePartsAfter DEF IInv, Scanned, HoldIsCounted

(* Each of the scan's findings is such a cycle.                            *)
LEMMA ScanIsCycle ==
  ASSUME IInv, NEW g \in Gaps, PairApart(g) \/ PairFoundHeld(g) \/ PairStaysHeld(g)
  PROVE  \E e : Scanned(e) /\ Cycle(g, e)
<1>1. /\ ProgressEvery \in Nat \ {0} /\ g \in Nat \ {0} /\ Total \in Nat /\ 0 \in Times
      /\ held \in BOOLEAN /\ hold \in Times /\ hold \in Nat /\ since \in 0 .. ProgressEvery - 1
      /\ since <= hold
  BY TypeParts, PeriodAssumption, CadenceAssumption, TimesAreNat
     DEF IInv, Values, Flags, HoldIsCounted
<1>2. CASE PairApart(g)
  <2>1. Cycle(g, 0) /\ held' \in BOOLEAN /\ hold' = 0 /\ since' = 0
    BY <1>2 DEF PairApart
  <2>2. since' \in 0 .. ProgressEvery - 1 /\ since' <= hold' /\ hold' \in Times
    BY <1>1, <2>1
  <2>3. Scanned(0)
    BY <1>1, <2>1, <2>2 DEF Scanned
  <2>4. QED
    BY <2>1, <2>3
<1>3. CASE PairFoundHeld(g)
  <2>1. Cycle(g, 0) /\ held' = TRUE /\ hold' = hold /\ since' = since
    BY <1>3 DEF PairFoundHeld
  <2>2. Scanned(0)
    BY <1>1, <2>1 DEF Scanned
  <2>3. QED
    BY <2>1, <2>2
<1>4. CASE PairStaysHeld(g)
  <2>1. hold' = hold + g /\ hold' \in Times /\ held' = held
    BY <1>1, <1>4, TimesAreNat DEF PairStaysHeld
  <2>2. CASE since + g >= ProgressEvery
    <3>1. since' = 0 /\ Cycle(g, hold')
      BY <1>4, <2>2 DEF PairStaysHeld
    <3>2. Scanned(hold')
      BY <1>1, <2>1, <2>2, <3>1 DEF Scanned
    <3>3. QED
      BY <3>1, <3>2
  <2>3. CASE ~(since + g >= ProgressEvery)
    <3>1. since' = since + g /\ Cycle(g, 0)
      BY <1>4, <2>3 DEF PairStaysHeld
    <3>2. Scanned(0)
      BY <1>1, <2>1, <2>3, <3>1 DEF Scanned
    <3>3. QED
      BY <3>1, <3>2
  <2>4. QED
    BY <2>2, <2>3
<1>5. QED
  BY <1>2, <1>3, <1>4

----------------------------------------------------------------------------
(* Steps that leave the LED and the status alone.                          *)

Untouched == UNCHANGED <<status, phase, ledOn, resetActive, resetElapsed, pin, pair, mqtt, target,
                         stores, preempted, shown, overridden>>

(* The Net task looks at the connection, or the connection changes.        *)
LEMMA LinkStepKeeps ==
  ASSUME IInv, Untouched, StatusIsTracked',
         wifi' = wifi, npc' \in {"idle", "tick", npc}, npc' = npc \/ stores = {},
         npc = "store" => npc' = "store",
         link' \in BOOLEAN, was' \in BOOLEAN, quietly' \in BOOLEAN
  PROVE  IInv'
<1>1. Values' /\ Flags'
  BY TypeParts DEF IInv, Untouched, pair, Values, Flags
<1>2. HoldIsCounted' /\ ResetIsCounted' /\ LedIsTracked' /\ LedShowsPattern'
  BY DEF IInv, Untouched, pair, HoldIsCounted, ResetIsCounted, LedIsTracked, Bound, LedShowsPattern
<1>3. QED
  BY <1>1, <1>2, TypePartsAfter DEF IInv

LEMMA ConnectionKeeps == IInv /\ (SampleWas \/ Connect \/ LoseLink) => IInv'
<1> SUFFICES ASSUME IInv, SampleWas \/ Connect \/ LoseLink PROVE IInv'
  OBVIOUS
<1>1. StatusIsTracked /\ Flags /\ Values
  BY TypeParts DEF IInv
<1>2. CASE SampleWas
  <2>1. Untouched /\ wifi' = wifi /\ link' = link /\ quietly' = quietly
        /\ npc = "idle" /\ npc' = "tick" /\ was' = link /\ wifi = "operational" /\ mqtt
    BY <1>2 DEF SampleWas, Untouched, control
  <2>2. StatusIsTracked'
    BY <1>1, <2>1 DEF StatusIsTracked, Told, Untouched
  <2>3. stores = {}
    BY <1>1, <2>1 DEF Values
  <2>4. QED
    BY <1>1, <2>1, <2>2, <2>3, LinkStepKeeps DEF Flags
<1>3. CASE Connect
  <2>1. Untouched /\ wifi' = wifi /\ link' = TRUE /\ quietly' = quietly
        /\ npc = "tick" /\ npc' = npc /\ was' = was
    BY <1>3 DEF Connect, Untouched, control, net
  <2>2. StatusIsTracked'
    BY <1>1, <2>1 DEF StatusIsTracked, Told, Untouched
  <2>3. QED
    BY <1>1, <2>1, <2>2, LinkStepKeeps DEF Flags
<1>4. CASE LoseLink
  <2>1. Untouched /\ wifi' = wifi /\ link /\ link' = FALSE /\ quietly' = (quietly \/ npc # "tick")
        /\ npc' = npc /\ was' = was
    BY <1>4 DEF LoseLink, Untouched, control, net
  <2>2. StatusIsTracked'
    BY <1>1, <2>1 DEF StatusIsTracked, Told, Untouched
  <2>3. QED
    BY <1>1, <2>1, <2>2, LinkStepKeeps DEF Flags
<1>5. QED
  BY <1>2, <1>3, <1>4

LEMMA RebootKeeps == IInv /\ Reboot => IInv'
<1> SUFFICES ASSUME IInv, Reboot PROVE IInv'
  OBVIOUS
<1>1. Total \in Nat \ {0} /\ ProgressEvery \in Nat \ {0} /\ MaxPreempt \in Nat /\ 0 \in Times
  BY PeriodAssumption, CadenceAssumption, TimesAreNat
<1>2. Values'
  BY <1>1 DEF Reboot, Values, Status
<1>3. Flags'
  BY DEF Reboot, Flags
<1>4. ResetIsCounted' /\ LedIsTracked' /\ HoldIsCounted'
  BY DEF Reboot, ResetIsCounted, LedIsTracked, HoldIsCounted
<1>5. StatusIsTracked' /\ LedShowsPattern'
  BY DEF Reboot, StatusIsTracked, Told, LedShowsPattern
<1>6. QED
  BY <1>2, <1>3, <1>4, <1>5, TypePartsAfter DEF IInv

----------------------------------------------------------------------------
(* setStatus: the test.                                                    *)

LEMMA SetStatusKeeps ==
  ASSUME IInv, NEW s \in Status \ {"FactoryReset"}, SetStatus(s), stores = {},
         UNCHANGED <<resetActive, resetElapsed, pin, pair, mqtt, link, was, shown>>,
         wifi' \in {"start", "portal", "operational"}, quietly' \in BOOLEAN, StatusIsTracked'
  PROVE  IInv'
<1>1. Values /\ Flags /\ ResetIsCounted /\ LedIsTracked /\ LedShowsPattern
  BY TypeParts DEF IInv
<1>2. /\ target' = s /\ preempted' = 0 /\ UNCHANGED <<status, phase, ledOn>>
      /\ npc' = (IF s = status THEN "idle" ELSE "store")
      /\ stores' = (IF s = status THEN {} ELSE {"status", "phase", "ledOn"})
      /\ overridden' = (overridden /\ s # status)
  BY DEF SetStatus
<1>3. Values'
  BY <1>1, <1>2, CadenceAssumption DEF Values, pair
<1>4. Flags'
  <2>1. overridden' \in BOOLEAN
    BY <1>2
  <2>2. QED
    BY <1>1, <1>2, <2>1 DEF Flags, pair
<1>5. ResetIsCounted' /\ HoldIsCounted'
  BY <1>1, <1>2 DEF IInv, ResetIsCounted, HoldIsCounted, pair
<1>6. LedIsTracked'
  <2>1. CASE s = status
    BY <1>1, <1>2, <2>1 DEF LedIsTracked, Bound
  <2>2. CASE s # status
    BY <1>1, <1>2, <2>2 DEF LedIsTracked
  <2>3. QED
    BY <2>1, <2>2
<1>7. LedShowsPattern'
  BY <1>1, <1>2 DEF LedShowsPattern
<1>8. QED
  BY <1>3, <1>4, <1>5, <1>6, <1>7, TypePartsAfter DEF IInv

LEMMA WifiStepKeeps == IInv /\ (OpenPortal \/ Operational) => IInv'
<1> SUFFICES ASSUME IInv, OpenPortal \/ Operational PROVE IInv'
  OBVIOUS
<1>1. StatusIsTracked /\ Values /\ Flags
  BY TypeParts DEF IInv
<1>2. CASE OpenPortal
  <2>1. /\ npc = "idle" /\ wifi = "start" /\ wifi' = "portal" /\ SetStatus("Provisioning")
        /\ UNCHANGED <<resetActive, resetElapsed, pin, pair, mqtt, link, was, shown, quietly>>
    BY <1>2 DEF OpenPortal
  <2>2. stores = {} /\ quietly \in BOOLEAN
    BY <1>1, <2>1 DEF Values, Flags
  <2>3. StatusIsTracked'
    BY <1>1, <2>1 DEF StatusIsTracked, Told, SetStatus
  <2>4. QED
    BY <2>1, <2>2, <2>3, SetStatusKeeps DEF Status
<1>3. CASE Operational
  <2> DEFINE s == IF mqtt THEN "Connecting" ELSE "Offline"
  <2>1. /\ npc = "idle" /\ wifi # "operational" /\ wifi' = "operational" /\ SetStatus(s)
        /\ UNCHANGED <<resetActive, resetElapsed, pin, pair, mqtt, link, was, shown, quietly>>
    BY <1>3 DEF Operational
  <2>2. stores = {} /\ quietly \in BOOLEAN /\ s \in Status \ {"FactoryReset"}
    BY <1>1, <2>1 DEF Values, Flags, Status
  <2>3. StatusIsTracked'
    BY <1>1, <2>1 DEF StatusIsTracked, Told, SetStatus
  <2> HIDE DEF s
  <2>4. QED
    BY <2>1, <2>2, <2>3, SetStatusKeeps
<1>4. QED
  BY <1>2, <1>3

LEMMA SampleIsKeeps == IInv /\ SampleIs => IInv'
<1> SUFFICES ASSUME IInv, SampleIs PROVE IInv'
  OBVIOUS
<1> DEFINE s == IF link THEN "Online" ELSE "Offline"
<1>1. StatusIsTracked /\ Values /\ Flags
  BY TypeParts DEF IInv
<1>2. /\ npc = "tick" /\ quietly' = (quietly /\ ~link)
      /\ UNCHANGED <<resetActive, resetElapsed, pin, pair, mqtt, link, wifi, was, shown>>
  BY DEF SampleIs
<1>3. stores = {} /\ quietly' \in BOOLEAN /\ s \in Status \ {"FactoryReset"}
      /\ wifi' \in {"start", "portal", "operational"}
  BY <1>1, <1>2 DEF Values, Status
<1>4. CASE link # was
  <2>1. SetStatus(s)
    BY <1>4 DEF SampleIs
  <2>2. StatusIsTracked'
    BY <1>1, <1>2, <1>4, <2>1 DEF StatusIsTracked, Told, SetStatus, Flags
  <2> HIDE DEF s
  <2>3. QED
    BY <1>2, <1>3, <2>1, <2>2, SetStatusKeeps
<1>5. CASE link = was
  <2>1. npc' = "idle" /\ Untouched
    BY <1>2, <1>5 DEF SampleIs, Untouched
  <2>2. ~overridden' => Told(status, link)'
    <3>1. ~overridden => Told(status, was)
      BY <1>1, <1>2 DEF StatusIsTracked
    <3>2. CASE link
      BY <1>2, <1>5, <2>1, <3>1, <3>2 DEF Told, Untouched
    <3>3. CASE ~link
      <4>1. quietly' = quietly
        BY <1>1, <1>2, <3>3 DEF Flags
      <4>2. QED
        BY <1>2, <1>5, <2>1, <3>1, <3>3, <4>1 DEF Told, Untouched
    <3>4. QED
      BY <3>2, <3>3
  <2>3. wifi = "operational" /\ mqtt
    BY <1>1, <1>2 DEF StatusIsTracked
  <2>4. StatusIsTracked'
    BY <1>2, <2>1, <2>2, <2>3 DEF StatusIsTracked, Untouched
  <2>5. QED
    BY <1>1, <1>2, <1>3, <2>1, <2>4, LinkStepKeeps DEF Flags
<1>6. QED
  BY <1>4, <1>5

----------------------------------------------------------------------------
(* setStatus: the stores, in any order.                                    *)

LEMMA StoreKeeps == IInv /\ Store => IInv'
<1> SUFFICES ASSUME IInv, Store PROVE IInv'
  OBVIOUS
<1>1. PICK x \in stores :
        /\ npc = "store"
        /\ stores' = stores \ {x}
        /\ npc' = (IF stores' = {} THEN "idle" ELSE "store")
        /\ status' = (IF x = "status" THEN target ELSE status)
        /\ phase'  = (IF x = "phase" THEN 0 ELSE phase)
        /\ ledOn'  = (ledOn /\ x # "ledOn")
        /\ overridden' = (overridden /\ x # "status")
        /\ shown' = FALSE
        /\ UNCHANGED <<resetActive, resetElapsed, pin, pair, mqtt, link, wifi, was, target,
                       preempted, quietly>>
  BY DEF Store
<1>2. Values /\ Flags /\ ResetIsCounted /\ LedIsTracked /\ StatusIsTracked
  BY TypeParts DEF IInv
<1>3. /\ MaxPreempt \in Nat /\ phase \in Nat /\ preempted \in 0 .. MaxPreempt
      /\ \A p \in Periods : p \div 2 \in Nat
  BY <1>2, CadenceAssumption, PeriodAssumption DEF Values
<1>4. Values'
  <2>1. status' \in Status /\ phase' \in 0 .. Round - 1
    BY <1>1, <1>2, PeriodAssumption DEF Values
  <2>2. /\ stores' \subseteq {"status", "phase", "ledOn"}
        /\ (stores' # {} <=> npc' = "store") /\ npc' \in {"idle", "store", "tick"}
    BY <1>1, <1>2 DEF Values
  <2>3. QED
    BY <1>1, <1>2, <2>1, <2>2 DEF Values, pair
<1>5. Flags'
  <2>1. ledOn' \in BOOLEAN /\ overridden' \in BOOLEAN /\ shown' \in BOOLEAN
    BY <1>1
  <2>2. QED
    BY <1>1, <1>2, <2>1 DEF Flags, pair
<1>6. ResetIsCounted' /\ HoldIsCounted'
  BY <1>1, <1>2 DEF IInv, ResetIsCounted, HoldIsCounted, pair
<1>7. ASSUME "phase" \notin stores', NEW p \in Periods
      PROVE  (MaxPreempt + 1) * phase' <= preempted * (p \div 2)
  <2>1. CASE x = "phase"
    <3>1. phase' = 0 /\ (MaxPreempt + 1) * 0 = 0
      BY <1>1, <1>3, <2>1
    <3>2. preempted * (p \div 2) \in Nat
      BY <1>3
    <3>3. QED
      BY <3>1, <3>2
  <2>2. CASE x # "phase"
    BY <1>1, <1>2, <1>7, <2>2 DEF LedIsTracked, Bound
  <2>3. QED
    BY <2>1, <2>2
<1>8. ASSUME NEW p \in Periods
      PROVE  preempted * (p \div 2) <= MaxPreempt * (p \div 2)
  <2> DEFINE h == p \div 2
  <2>1. h \in Nat /\ preempted \in Nat /\ preempted <= MaxPreempt
    BY <1>3
  <2> HIDE DEF h
  <2>2. h * preempted <= h * MaxPreempt
    BY <1>3, <2>1, ProductGrows
  <2>3. preempted * h = h * preempted /\ MaxPreempt * h = h * MaxPreempt
    BY <1>3, <2>1
  <2>4. QED
    BY <2>2, <2>3 DEF h
<1>9. stores' = {} => Bound(MaxPreempt)'
  <2> SUFFICES ASSUME stores' = {}, NEW p \in Periods
               PROVE  (MaxPreempt + 1) * phase' <= MaxPreempt * (p \div 2)
    BY DEF Bound
  <2>1. (MaxPreempt + 1) * phase' <= preempted * (p \div 2)
    BY <1>7
  <2>2. phase' \in Nat /\ p \div 2 \in Nat /\ preempted \in Nat
    BY <1>1, <1>3
  <2>3. /\ (MaxPreempt + 1) * phase' \in Nat /\ preempted * (p \div 2) \in Nat
        /\ MaxPreempt * (p \div 2) \in Nat
    <3>1. MaxPreempt + 1 \in Nat
      BY <1>3
    <3>2. QED
      BY <1>3, <2>2, <3>1, ProductIsNat, Zenon
  <2>4. QED
    BY <1>8, <2>1, <2>3
<1>10. LedIsTracked'
  <2>1. ledOn' => pin'
    BY <1>1, <1>2 DEF LedIsTracked
  <2>2. stores' # {} /\ "phase" \notin stores' => Bound(preempted)'
    BY <1>1, <1>7 DEF Bound
  <2>3. QED
    BY <1>9, <2>1, <2>2 DEF LedIsTracked
<1>11. StatusIsTracked'
  BY <1>1, <1>2 DEF StatusIsTracked, Told
<1>12. LedShowsPattern'
  BY <1>1 DEF LedShowsPattern
<1>13. QED
  BY <1>4, <1>5, <1>6, <1>10, <1>11, <1>12, TypePartsAfter DEF IInv

----------------------------------------------------------------------------
LEMMA NextKeeps == IInv /\ [Next]_vars => IInv'
<1> SUFFICES ASSUME IInv, [Next]_vars PROVE IInv'
  OBVIOUS
<1>1. CASE UNCHANGED vars
  <2>1. UNCHANGED <<status, phase, ledOn, resetActive, resetElapsed, pin, held, hold, since, wifi, mqtt, link,
                    npc, was, target, stores, preempted, shown, overridden, quietly>>
    BY <1>1 DEF vars, control, net, pair
  <2>2. Values' /\ Flags'
    BY <2>1, TypeParts DEF IInv, Values, Flags
  <2>3. /\ HoldIsCounted' /\ ResetIsCounted' /\ LedIsTracked' /\ StatusIsTracked'
        /\ LedShowsPattern'
    BY <2>1 DEF IInv, HoldIsCounted, ResetIsCounted, LedIsTracked, Bound, StatusIsTracked, Told, LedShowsPattern
  <2>4. QED
    BY <2>2, <2>3, TypePartsAfter DEF IInv
<1>2. CASE NetTask
  BY <1>2, WifiStepKeeps, ConnectionKeeps, SampleIsKeeps, StoreKeeps DEF NetTask
<1>3. CASE Cycles
  <2>1. PICK g \in Gaps : PairApart(g) \/ PairFoundHeld(g) \/ PairStaysHeld(g)
    BY <1>3 DEF Cycles
  <2>2. \E e : Scanned(e) /\ Cycle(g, e)
    BY <2>1, ScanIsCycle
  <2>3. QED
    BY <2>2, CycleKeeps
<1>4. CASE LoseLink
  BY <1>4, ConnectionKeeps
<1>5. CASE Reboot
  BY <1>5, RebootKeeps
<1>6. QED
  BY <1>1, <1>2, <1>3, <1>4, <1>5 DEF Next

LEMMA Inductive == Spec => []IInv
BY InitEstablishes, NextKeeps, PTL DEF Spec

(* Every variable keeps its type, and setStatus is preempted no more than  *)
(* the bound allows.                                                       *)
THEOREM TypeCorrect == Spec => []TypeOK
<1>1. IInv => TypeOK
  BY DEF IInv
<1>2. QED
  BY Inductive, <1>1, PTL

(* After any tick that found setStatus finished the pin is as the pattern  *)
(* has it, for any periods, cadence and number of preemptions within the   *)
(* assumptions.                                                            *)
THEOREM LedIsAsPattern == Spec => []LedShowsPattern
<1>1. IInv => LedShowsPattern
  BY DEF IInv
<1>2. QED
  BY Inductive, <1>1, PTL

(* Between two netTicks the status is the connection's, except for a       *)
(* gesture's and for a session lost between two looks.                     *)
THEOREM StatusIsAlwaysTrue == Spec => []StatusIsTrue
<1>1. IInv => StatusIsTrue
  BY DEF IInv, StatusIsTracked, Told, StatusIsTrue
<1>2. QED
  BY Inductive, <1>1, PTL

----------------------------------------------------------------------------
(* The feedback of a hold, from its first report on.  It is the LED's      *)
(* pattern for the time of the last report, less than ProgressEvery ago,   *)
(* whatever status the Net task stores meanwhile, and it blinks so long as *)
(* the hold is not whole.                                                  *)
Feedback == Period(status, resetActive, resetElapsed)
Reported == hold # since

FeedbackIsTrue ==
  /\ hold >= ProgressEvery => Reported
  /\ Reported => /\ Feedback = resetBlinkPeriodAt(hold - since)
                 /\ hold < Total => Feedback \in Fast .. Slow /\ Feedback # 0
                 /\ shown => pin = Lit(Feedback, phase)

(* And a hold that goes on is never seen to slow down.                     *)
FeedbackQuickens == [][Reported /\ Reported' => Feedback' <= Feedback]_vars

HoldIsShown == Reported => resetActive /\ resetElapsed = hold - since

LEMMA DivMonotone ==
  ASSUME NEW a \in Nat, NEW b \in Nat, NEW n \in Nat \ {0}, a <= b
  PROVE  a \div n \in Nat /\ b \div n \in Nat /\ a \div n <= b \div n
OBVIOUS

LEMMA DivBound ==
  ASSUME NEW a \in Nat, NEW m \in Nat, NEW n \in Nat \ {0}, a <= m * n
  PROVE  a \div n <= m
OBVIOUS

LEMMA TimesMonotone ==
  ASSUME NEW a \in Nat, NEW b \in Nat, NEW n \in Nat, a <= b
  PROVE  n * a \in Nat /\ n * b \in Nat /\ n * a <= n * b
OBVIOUS

(* The map from progress to blink period stays between its bounds and      *)
(* falls as the progress rises, for any of its constants.                  *)
LEMMA ResetBlinkQuickens ==
  ASSUME NEW e \in 1 .. Total - 1, NEW f \in 1 .. Total - 1, e <= f
  PROVE  /\ resetBlinkPeriodAt(e) \in Fast .. Slow
         /\ resetBlinkPeriodAt(f) \in Fast .. Slow
         /\ resetBlinkPeriodAt(f) <= resetBlinkPeriodAt(e)
<1> DEFINE range == Slow - Fast
           pct(n) == (n * 100) \div Total
           drop(n) == (range * pct(n)) \div 100
<1>1. /\ Total \in Nat \ {0} /\ Fast \in Nat /\ Slow \in Nat /\ range \in Nat
      /\ e \in Nat /\ f \in Nat /\ e < Total /\ f < Total
  BY PeriodAssumption
<1>2. pct(e) \in Nat /\ pct(f) \in Nat /\ pct(e) <= pct(f) /\ pct(f) <= 100
  <2>1. e * 100 \in Nat /\ f * 100 \in Nat /\ e * 100 <= f * 100 /\ f * 100 <= 100 * Total
    BY <1>1
  <2>2. QED
    BY <1>1, <2>1, DivMonotone, DivBound
<1>3. drop(e) \in Nat /\ drop(f) \in Nat /\ drop(e) <= drop(f) /\ drop(f) <= range
  <2> HIDE DEF range, pct
  <2>1. range * pct(e) \in Nat /\ range * pct(f) \in Nat /\ range * pct(e) <= range * pct(f)
    BY <1>1, <1>2, TimesMonotone
  <2>2. range * pct(f) <= range * 100
    BY <1>1, <1>2, TimesMonotone
  <2>3. QED
    BY <1>1, <2>1, <2>2, DivMonotone, DivBound
<1>4. resetBlinkPeriodAt(e) = Slow - drop(e) /\ resetBlinkPeriodAt(f) = Slow - drop(f)
  BY <1>1 DEF resetBlinkPeriodAt
<1>5. QED
  <2> HIDE DEF drop
  <2>1. QED
    BY <1>1, <1>3, <1>4

LEMMA HoldTypes ==
  IInv => /\ Total \in Nat \ {0} /\ ProgressEvery \in Nat \ {0} /\ Fast \in Nat /\ Slow \in Nat
          /\ hold \in Nat /\ since \in 0 .. ProgressEvery - 1 /\ since <= hold
          /\ (resetActive => resetElapsed >= ProgressEvery) /\ Gaps \subseteq Nat \ {0}
BY TypeParts, TimesAreNat, PeriodAssumption, CadenceAssumption
   DEF IInv, Values, HoldIsCounted, ResetIsCounted

LEMMA HoldStaysShown ==
  /\ Init => HoldIsShown
  /\ IInv /\ HoldIsShown /\ [Next]_vars => HoldIsShown'
<1>1. Init => HoldIsShown
  BY DEF Init, HoldIsShown, Reported
<1> SUFFICES ASSUME IInv, HoldIsShown, [Next]_vars PROVE HoldIsShown'
  BY <1>1
<1> USE DEF HoldIsShown, Reported
<1>2. ASSUME NEW g, NEW e, Cycle(g, e)
      PROVE  /\ resetActive' = (resetActive \/ e # 0)
             /\ resetElapsed' = (IF e # 0 THEN e ELSE resetElapsed)
  BY <1>2 DEF Cycle
<1>3. ASSUME NEW g \in Gaps, PairApart(g) \/ PairFoundHeld(g) PROVE HoldIsShown'
  <2>1. CASE PairApart(g)
    BY <2>1 DEF PairApart
  <2>2. CASE PairFoundHeld(g)
    <3>1. Cycle(g, 0) /\ hold' = hold /\ since' = since
      BY <2>2 DEF PairFoundHeld
    <3>2. (resetActive => resetActive') /\ resetElapsed' = resetElapsed
      BY <1>2, <3>1
    <3>3. QED
      BY <3>1, <3>2
  <2>3. QED
    BY <1>3, <2>1, <2>2
<1>4. ASSUME NEW g \in Gaps, PairStaysHeld(g) PROVE HoldIsShown'
  <2>1. hold \in Nat /\ since \in Nat /\ g \in Nat \ {0} /\ hold' = hold + g
    BY <1>4, HoldTypes DEF PairStaysHeld
  <2>2. CASE since + g >= ProgressEvery
    <3>1. since' = 0 /\ Cycle(g, hold')
      BY <1>4, <2>2 DEF PairStaysHeld
    <3>2. hold' # 0 /\ hold' = hold' - since'
      BY <2>1, <3>1
    <3>3. QED
      BY <1>2, <3>1, <3>2
  <2>3. CASE ~(since + g >= ProgressEvery)
    <3>1. since' = since + g /\ Cycle(g, 0)
      BY <1>4, <2>3 DEF PairStaysHeld
    <3>2. (Reported' => Reported) /\ hold' - since' = hold - since
      BY <2>1, <3>1
    <3>3. QED
      BY <1>2, <3>1, <3>2
  <2>4. QED
    BY <2>2, <2>3
<1>5. CASE NetTask \/ LoseLink
  BY <1>5 DEF NetTask, OpenPortal, Operational, SampleWas, Connect, SampleIs, Store, LoseLink,
         SetStatus, control, net, pair
<1>6. CASE Reboot
  BY <1>6 DEF Reboot
<1>7. CASE UNCHANGED vars
  BY <1>7 DEF vars, control, pair
<1>8. QED
  BY <1>3, <1>4, <1>5, <1>6, <1>7 DEF Next, Cycles

(* Once reported, the feedback is that of the time last reported.          *)
LEMMA FeedbackOfReport ==
  ASSUME IInv, HoldIsShown, Reported
  PROVE  /\ hold - since \in Nat /\ hold - since >= ProgressEvery
         /\ Feedback = resetBlinkPeriodAt(hold - since)
<1>1. resetActive /\ resetElapsed = hold - since
  BY DEF HoldIsShown
<1>2. Feedback = resetBlinkPeriodAt(hold - since)
  BY <1>1 DEF Feedback, Period, resetBlinkPeriod
<1>3. QED
  BY <1>1, <1>2, HoldTypes

LEMMA FeedbackOfHold ==
  ASSUME IInv, HoldIsShown
  PROVE  FeedbackIsTrue
<1>1. hold >= ProgressEvery => Reported
  BY HoldTypes DEF Reported
<1>2. ASSUME Reported, hold < Total PROVE Feedback \in Fast .. Slow /\ Feedback # 0
  <2> DEFINE e == hold - since
  <2>1. e \in ProgressEvery .. Total - 1 /\ Feedback = resetBlinkPeriodAt(e)
    BY <1>2, HoldTypes, FeedbackOfReport
  <2>2. e \in 1 .. Total - 1
    BY <2>1, HoldTypes
  <2> HIDE DEF e
  <2>3. resetBlinkPeriodAt(e) \in Fast .. Slow
    BY <2>2, ResetBlinkQuickens
  <2>4. resetBlinkPeriodAt(e) \in Periods
    BY <2>1 DEF Periods
  <2>5. QED
    BY <2>1, <2>3, <2>4, PeriodAssumption
<1>3. shown => pin = Lit(Feedback, phase)
  BY DEF IInv, LedShowsPattern, Feedback
<1>4. QED
  BY <1>1, <1>2, <1>3, FeedbackOfReport DEF FeedbackIsTrue

LEMMA FeedbackSteps ==
  ASSUME IInv, HoldIsShown, IInv', HoldIsShown', Next, Reported, Reported'
  PROVE  Feedback' <= Feedback
<1> DEFINE e == hold - since
<1>1. /\ Total \in Nat \ {0} /\ ProgressEvery \in Nat \ {0} /\ Fast \in Nat /\ Slow \in Nat
      /\ hold \in Nat /\ since \in Nat /\ e \in Nat /\ e >= ProgressEvery
      /\ Feedback = resetBlinkPeriodAt(e)
  BY HoldTypes, FeedbackOfReport
<1>2. Feedback' = resetBlinkPeriodAt(e')
  BY DEF HoldIsShown, Feedback, Period, resetBlinkPeriod
<1>3. e' = e \/ (e' \in Nat /\ e <= e')
  <2>1. CASE \E g \in Gaps : PairStaysHeld(g)
    <3>1. PICK g \in Gaps : PairStaysHeld(g)
      BY <2>1
    <3>2. g \in Nat /\ hold' = hold + g /\ (since' = 0 \/ since' = since + g)
      BY <3>1, HoldTypes DEF PairStaysHeld
    <3>3. QED
      BY <1>1, <3>2
  <2>2. CASE \E g \in Gaps : PairApart(g) \/ PairFoundHeld(g)
    BY <2>2 DEF PairApart, PairFoundHeld, Reported
  <2>3. CASE NetTask \/ LoseLink
    BY <2>3 DEF NetTask, OpenPortal, Operational, SampleWas, Connect, SampleIs, Store, LoseLink,
           SetStatus, control, net, pair
  <2>4. CASE Reboot
    BY <2>4 DEF Reboot, Reported
  <2>5. QED
    BY <2>1, <2>2, <2>3, <2>4 DEF Next, Cycles
<1> HIDE DEF e
<1>4. CASE e' = e
  <2>1. Feedback' = Feedback
    BY <1>1, <1>2, <1>4
  <2>2. Feedback \in Nat
    <3>1. CASE e >= Total
      BY <1>1, <3>1 DEF resetBlinkPeriodAt
    <3>2. CASE e < Total
      BY <1>1, <3>2, ResetBlinkQuickens
    <3>3. QED
      BY <1>1, <3>1, <3>2
  <2>3. QED
    BY <2>1, <2>2
<1>5. CASE e' \in Nat /\ e <= e' /\ e' < Total
  <2>1. e \in 1 .. Total - 1 /\ e' \in 1 .. Total - 1
    BY <1>1, <1>5
  <2>2. QED
    BY <1>1, <1>2, <1>5, <2>1, ResetBlinkQuickens
<1>6. CASE e' \in Nat /\ e <= e' /\ e' >= Total
  <2>1. Feedback' = 0
    BY <1>1, <1>2, <1>6 DEF resetBlinkPeriodAt
  <2>2. Feedback \in Nat
    <3>1. CASE e >= Total
      BY <1>1, <3>1 DEF resetBlinkPeriodAt
    <3>2. CASE e < Total
      BY <1>1, <3>2, ResetBlinkQuickens
    <3>3. QED
      BY <1>1, <3>1, <3>2
  <2>3. QED
    BY <2>1, <2>2
<1>7. QED
  BY <1>1, <1>3, <1>4, <1>5, <1>6

(* From ProgressEvery of a hold on the LED tells how far the hold had come *)
(* less than ProgressEvery ago, whatever the Net task does to the status   *)
(* meanwhile: the pin blinks within the bounds so long as the hold is not  *)
(* whole, and never slower as it goes on (indicator_controller.h:44-48,    *)
(* 75-83; touch_input.h:153-168).  Whether it gets to be solid depends on  *)
(* whether a report is due when the gesture fires, so that is not said.    *)
THEOREM FeedbackFollowsHold == Spec => []FeedbackIsTrue /\ FeedbackQuickens
<1>1. IInv /\ HoldIsShown => FeedbackIsTrue
  BY FeedbackOfHold
<1>2. IInv /\ HoldIsShown /\ IInv' /\ HoldIsShown' /\ [Next]_vars
        => [Reported /\ Reported' => Feedback' <= Feedback]_vars
  BY FeedbackSteps
<1>3. QED
  BY Inductive, HoldStaysShown, <1>1, <1>2, PTL DEF Spec, FeedbackQuickens
=============================================================================
