---------------------------- MODULE EventLog_proofs ----------------------------
(***************************************************************************)
(* For any size of the ring, any widths of the boot counter and of the     *)
(* clock, any profile byte and any number of writes that fail: a power cut *)
(* puts only the newest record at risk so long as the head can be saved,   *)
(* the keys of the records order them so long as they do not come round,   *)
(* the ring implements the journal of EventJournal, and what it says of a  *)
(* relay is so.                                                            *)
(***************************************************************************)
EXTENDS EventLog, FiniteSetTheorems, TLAPS

(* What a step of the boot or of an announcement may be recording.         *)
Recording == {"append", "settle"}
Event(e) ==
  \/ \E w \in {"Boot", "ProfileLoaded", "FlashError"} : e = [what |-> w]
  \/ \E c \in Ch, on \in BOOLEAN : e = [what |-> "relay", ch |-> c, on |-> on]

(* Nothing is recorded before the log is bound and the session numbered,   *)
(* and the recording knows where to go on.                                 *)
Placed ==
  /\ pc \in Recording => bound /\ Event(event) /\ then \in {"profile", "run", "halt", "save"}
  /\ pc \in {"bind", "off"} => ~bound
  /\ pc = "bootid" => bound

Counted == /\ last \in 0 .. MaxEvents /\ faults \in 0 .. MaxFaults
           /\ slot = [i \in Slots |-> slot[i]]
           /\ bound \in BOOLEAN /\ keysOk \in BOOLEAN

(* The slots hold records, in their order of writing.                      *)
Numbered == \A i \in Used : slot[i].nr <= last

(* While no write has failed the saved head is the head, but between the   *)
(* two writes of a record, and what is at risk is the record the head is   *)
(* on.                                                                     *)
AtRisk ==
  faults = 0 =>
    /\ pc # "off" => head = loghead
    /\ unsettled = IF pc = "settle" THEN {last} ELSE {}
    /\ pc = "settle" => doomed = {}
    /\ unsettled \cup doomed # {} =>
         unsettled \cup doomed = {last} /\ slot[loghead].nr = last

(* The session and the time of day are after every record's.               *)
Past ==
  keysOk =>
    /\ \A i \in Used : slot[i].boot <= boot_id
    /\ bound /\ pc # "bootid" =>
         bootId = boot_id /\ \A i \in Used : slot[i].boot = bootId => slot[i].up <= uptime

IInv == TypeOK /\ Counted /\ Placed /\ Numbered /\ AtRisk /\ Past /\ KeysOrderEvents

----------------------------------------------------------------------------
LEMMA WidthsAreNat ==
  /\ RingSlots \in Nat \ {0} /\ BootIds \in Nat \ {0} /\ Uptimes \in Nat \ {0}
  /\ MaxEvents \in Nat /\ MaxFaults \in Nat
BY RingAssumption, WidthAssumption, BoundAssumption

(* A counter of n values goes on or comes round.                           *)
LEMMA ComesRound ==
  \A n \in Nat \ {0} : \A x \in 0 .. n - 1 :
    /\ (x + 1) % n \in 0 .. n - 1
    /\ (x + 1) % n # 0 => (x + 1) % n = x + 1
<1> SUFFICES ASSUME NEW n \in Nat \ {0}, NEW x \in 0 .. n - 1
             PROVE  /\ (x + 1) % n \in 0 .. n - 1
                    /\ (x + 1) % n # 0 => (x + 1) % n = x + 1
  OBVIOUS
<1>1. CASE x + 1 = n
  BY <1>1
<1>2. CASE x + 1 < n
  BY <1>2
<1>3. QED
  BY <1>1, <1>2

LEMMA ChannelsAreFew == Ch \subseteq 0 .. 3
BY DEF Ch, Channels, kMaxChannels

LEMMA LowestIsOne == announcing \subseteq Ch /\ announcing # {} => Lowest \in announcing
<1> SUFFICES ASSUME announcing \subseteq Ch, announcing # {} PROVE Lowest \in announcing
  OBVIOUS
<1>1. announcing \subseteq 0 .. 3
  BY ChannelsAreFew
<1>2. \E c \in announcing : \A d \in announcing : c <= d
  <2>1. CASE 0 \in announcing
    BY <1>1, <2>1
  <2>2. CASE 0 \notin announcing /\ 1 \in announcing
    BY <1>1, <2>2
  <2>3. CASE 0 \notin announcing /\ 1 \notin announcing /\ 2 \in announcing
    BY <1>1, <2>3
  <2>4. CASE 0 \notin announcing /\ 1 \notin announcing /\ 2 \notin announcing
    <3>1. \A c \in announcing : c = 3
      BY <1>1, <2>4
    <3>2. QED
      BY <3>1
  <2>5. QED
    BY <2>1, <2>2, <2>3, <2>4
<1>3. QED
  BY <1>2 DEF Lowest

LEMMA ProfileStays == [Next]_vars => profile_id' = profile_id /\ Ch' = Ch
<1> SUFFICES ASSUME [Next]_vars PROVE profile_id' = profile_id
  BY DEF Ch, profile
<1>1. QED
  BY DEF Next, vars, flash, PowerOn, Bind, nextBootId, resolveProfile, AppendRecord, AppendFails,
         saveHead, Operate, Announce, Save, Tick, FactoryReset, Down

LEMMA InitEstablishes == Init => IInv
<1> SUFFICES ASSUME Init PROVE IInv
  OBVIOUS
<1>1. Used = {}
  BY DEF Init, Used
<1>2. TypeOK
  <2>1. relay_state \in [Ch -> BOOLEAN] /\ relay \in [Ch -> BOOLEAN]
    BY DEF Init, AllOff
  <2>2. loghead \in Slots /\ head \in Slots /\ \A i \in Slots : slot[i] = Empty
    BY WidthsAreNat DEF Init, Slots
  <2>3. boot_id \in 0 .. BootIds - 1 /\ bootId \in 0 .. BootIds - 1 /\ uptime \in 0 .. Uptimes - 1
    BY WidthsAreNat DEF Init
  <2>4. /\ profile_id \in ProfileBytes /\ pc = "off"
        /\ announcing \subseteq Ch /\ untold \subseteq Ch /\ dark \subseteq Ch
    BY DEF Init
  <2>5. QED
    BY <2>1, <2>2, <2>3, <2>4 DEF TypeOK
<1>3. Counted
  <2>1. last \in 0 .. MaxEvents /\ faults \in 0 .. MaxFaults
    BY WidthsAreNat DEF Init
  <2>2. slot = [i \in Slots |-> slot[i]]
    BY DEF Init
  <2>3. QED
    BY <2>1, <2>2 DEF Init, Counted
<1>4. Placed /\ AtRisk
  BY DEF Init, Placed, AtRisk, Recording
<1>5. Numbered /\ Past /\ KeysOrderEvents
  BY <1>1 DEF Init, Numbered, Past, KeysOrderEvents
<1>6. QED
  BY <1>2, <1>3, <1>4, <1>5 DEF IInv

----------------------------------------------------------------------------
(* The steps that touch neither the ring nor what the Logger keeps.        *)

RingStays == UNCHANGED <<profile_id, slot, loghead, boot_id, bound, head, bootId, last, unsettled, doomed>>

LEMMA RingStaysKeeps ==
  ASSUME IInv, RingStays, TypeOK', Placed', pc # "off", pc' # "off",
         pc # "settle", pc' # "settle", pc # "bootid", pc' # "bootid",
         keysOk' => keysOk /\ uptime <= uptime', keysOk' \in BOOLEAN,
         faults' \in 0 .. MaxFaults, faults' = 0 => faults = 0
  PROVE  IInv'
<1>1. Counted'
  BY DEF IInv, RingStays, Counted, Slots
<1>2. Used' = Used /\ \A i \in Used : i \in Slots /\ Record(slot[i])
  BY DEF RingStays, Used, Slots, IInv, TypeOK
<1>3. Numbered'
  BY <1>2 DEF IInv, RingStays, Numbered
<1>4. AtRisk'
  BY DEF IInv, RingStays, AtRisk
<1>5. Past'
  <2> SUFFICES ASSUME keysOk' PROVE Past'
    BY DEF Past
  <2>1. keysOk /\ uptime <= uptime' /\ uptime \in Nat /\ uptime' \in Nat
    BY WidthsAreNat DEF IInv, TypeOK
  <2>2. \A i \in Used : slot[i].boot <= boot_id
        /\ (bound => bootId = boot_id /\ (slot[i].boot = bootId => slot[i].up <= uptime))
    BY <2>1 DEF IInv, Past
  <2>3. \A i \in Used : slot[i].up \in Nat
    BY <1>2, WidthsAreNat DEF Record
  <2>4. bound => bootId = boot_id
    BY <2>1 DEF IInv, Past
  <2>5. QED
    BY <1>2, <2>1, <2>2, <2>3, <2>4 DEF RingStays, Past
<1>6. KeysOrderEvents'
  BY <1>2 DEF IInv, RingStays, KeysOrderEvents, Before
<1>7. QED
  BY <1>1, <1>3, <1>4, <1>5, <1>6 DEF IInv

----------------------------------------------------------------------------
(* Types.                                                                  *)

Ring == /\ \A i \in Slots : slot[i] = Empty \/ Record(slot[i])
        /\ loghead \in Slots /\ head \in Slots
        /\ boot_id \in 0 .. BootIds - 1 /\ bootId \in 0 .. BootIds - 1 /\ uptime \in 0 .. Uptimes - 1
Relays == /\ relay_state \in [Ch -> BOOLEAN] /\ relay \in [Ch -> BOOLEAN]
          /\ announcing \subseteq Ch /\ untold \subseteq Ch /\ dark \subseteq Ch

(* Where the boot or the Control task may stand.                           *)
Places == {"off", "bind", "bootid", "profile", "append", "settle", "run", "save", "wiped",
           "halt"}

LEMMA TypeParts == TypeOK <=> Ring /\ Relays /\ profile_id \in ProfileBytes /\ pc \in Places
BY DEF TypeOK, Ring, Relays, Places

LEMMA TypePartsAfter == TypeOK' <=> Ring' /\ Relays' /\ profile_id' \in ProfileBytes /\ pc' \in Places
BY DEF TypeOK, Ring, Relays, Places

LEMMA RingStep == IInv /\ [Next]_vars => Ring' /\ Counted'
<1> SUFFICES ASSUME IInv, [Next]_vars PROVE Ring' /\ Counted'
  OBVIOUS
<1> USE DEF flash, ram, history, WriteFails
<1>1. Ring /\ Counted
  BY TypeParts DEF IInv
<1>2. /\ RingSlots \in Nat \ {0} /\ BootIds \in Nat \ {0} /\ Uptimes \in Nat \ {0}
      /\ MaxEvents \in Nat /\ MaxFaults \in Nat
      /\ 0 \in Slots /\ 0 \in 0 .. BootIds - 1 /\ 0 \in 0 .. Uptimes - 1
  BY WidthsAreNat DEF Slots
<1>3. ASSUME UNCHANGED <<slot, loghead, boot_id, last, keysOk>>,
             head' \in Slots, bootId' \in 0 .. BootIds - 1, uptime' \in 0 .. Uptimes - 1,
             bound' \in BOOLEAN, faults' \in 0 .. MaxFaults
      PROVE  Ring' /\ Counted'
  BY <1>1, <1>3 DEF Ring, Counted, Slots
<1>4. faults' = faults \/ WriteFails => faults' \in 0 .. MaxFaults
  BY <1>1, <1>2 DEF Counted
<1>5. CASE UNCHANGED vars
  BY <1>1, <1>5 DEF Ring, Counted, Slots, vars
<1>6. CASE PowerOn
  BY <1>1, <1>2, <1>3, <1>6 DEF PowerOn, Ring, Counted
<1>7. CASE Bind
  BY <1>1, <1>3, <1>4, <1>7 DEF Bind, Ring, Counted
<1>8. CASE nextBootId
  <2>1. bootId' \in 0 .. BootIds - 1
    BY <1>1, <1>2, <1>8, ComesRound DEF nextBootId, Ring
  <2>2. boot_id' \in 0 .. BootIds - 1
    BY <1>1, <1>8, <2>1 DEF nextBootId, Ring
  <2>3. keysOk' \in BOOLEAN
    BY <1>8 DEF nextBootId
  <2>4. UNCHANGED <<slot, loghead, head, uptime, bound, last>> /\ faults' \in 0 .. MaxFaults
    BY <1>4, <1>8 DEF nextBootId
  <2>5. Ring'
    BY <1>1, <2>1, <2>2, <2>4 DEF Ring, Slots
  <2>6. Counted'
    BY <1>1, <2>3, <2>4 DEF Counted, Slots
  <2>7. QED
    BY <2>5, <2>6
<1>9. CASE resolveProfile \/ Announce \/ Save \/ FactoryReset \/ AppendFails
  BY <1>1, <1>3, <1>4, <1>9 DEF resolveProfile, Announce, Save, FactoryReset, AppendFails,
                                   Ring, Counted
<1>10. CASE AppendRecord
  <2> DEFINE rec == [nr |-> last + 1, boot |-> bootId, up |-> uptime, event |-> event]
  <2>1. /\ slot' = [slot EXCEPT ![head] = rec] /\ last' = last + 1 /\ last < MaxEvents
        /\ UNCHANGED <<loghead, boot_id, head, bootId, uptime, bound, faults, keysOk>>
        /\ pc = "append"
    BY <1>10 DEF AppendRecord
  <2>2. Record(rec)
    <3>1. event.what \in {"Boot", "ProfileLoaded", "FlashError", "relay"}
      BY <2>1 DEF IInv, Placed, Recording, Event
    <3>2. last + 1 \in 1 .. MaxEvents
      BY <1>1, <1>2, <2>1 DEF Counted
    <3>3. QED
      BY <1>1, <3>1, <3>2 DEF Record, Ring
  <2> HIDE DEF rec
  <2>3. Ring'
    <3>1. \A i \in Slots : slot'[i] = Empty \/ Record(slot'[i])
      <4> TAKE i \in Slots
      <4>1. slot'[i] = rec \/ slot'[i] = slot[i]
        BY <1>1, <2>1 DEF Counted
      <4>2. QED
        BY <1>1, <2>2, <4>1 DEF Ring
    <3>2. QED
      BY <1>1, <2>1, <3>1 DEF Ring, Slots, Record, Empty
  <2>4. Counted'
    <3>1. slot' = [i \in Slots |-> slot'[i]]
      BY <1>1, <2>1 DEF Counted
    <3>2. last' \in 0 .. MaxEvents
      BY <1>1, <1>2, <2>1 DEF Counted
    <3>3. QED
      BY <1>1, <2>1, <3>1, <3>2 DEF Counted, Slots
  <2>5. QED
    BY <2>3, <2>4
<1>11. CASE saveHead
  <2>1. head' \in Slots
    BY <1>1, <1>2, <1>11, ComesRound DEF saveHead, Ring, Slots
  <2>2. loghead' \in Slots
    BY <1>1, <1>11, <2>1 DEF saveHead, Ring
  <2>3. UNCHANGED <<slot, boot_id, bootId, uptime, bound, last, keysOk>> /\ faults' \in 0 .. MaxFaults
    BY <1>4, <1>11 DEF saveHead
  <2>4. QED
    BY <1>1, <2>1, <2>2, <2>3 DEF Ring, Counted, Slots
<1>12. ASSUME NEW changed \in SUBSET Ch, Operate(changed) PROVE Ring' /\ Counted'
  BY <1>1, <1>3, <1>12 DEF Operate, Ring, Counted
<1>13. CASE Tick
  <2>1. uptime' \in 0 .. Uptimes - 1
    BY <1>1, <1>2, <1>13, ComesRound DEF Tick, Ring
  <2>2. keysOk' \in BOOLEAN
    BY <1>13 DEF Tick
  <2>3. UNCHANGED <<slot, loghead, head, boot_id, bootId, bound, last, faults>>
    BY <1>13 DEF Tick
  <2>4. QED
    BY <1>1, <2>1, <2>2, <2>3 DEF Ring, Counted, Slots
<1>14. CASE Down
  BY <1>1, <1>2, <1>3, <1>14 DEF Down, Ring, Counted
<1>15. QED
  BY <1>5, <1>6, <1>7, <1>8, <1>9, <1>10, <1>11, <1>12, <1>13, <1>14 DEF Next

LEMMA PlaceStep ==
  IInv /\ [Next]_vars => Relays' /\ Placed' /\ pc' \in Places
<1> SUFFICES ASSUME IInv, [Next]_vars PROVE Relays' /\ Placed' /\ pc' \in Places
  OBVIOUS
<1> DEFINE Goal == Relays' /\ Placed' /\ pc' \in Places
<1> USE DEF flash, ram, history, Recording, Places
<1>1. /\ Relays /\ Placed /\ bound \in BOOLEAN /\ Ch' = Ch /\ pc \in Places
  BY TypeParts, ProfileStays DEF IInv, Counted
<1>2. \A e : Event(e)' <=> Event(e)
  BY <1>1 DEF Event
<1>3. CASE UNCHANGED vars
  BY <1>1, <1>2, <1>3 DEF Relays, Placed, vars
<1>4. CASE PowerOn
  BY <1>1, <1>4 DEF PowerOn, Relays, Placed
<1>5. CASE Bind
  BY <1>1, <1>5 DEF Bind, Relays, Placed
<1>6. CASE nextBootId
  <2>1. Event([what |-> "Boot"])
    BY DEF Event
  <2>2. QED
    BY <1>1, <1>2, <1>6, <2>1 DEF nextBootId, Log, Relays, Placed
<1>7. CASE resolveProfile
  <2>1. Event([what |-> "ProfileLoaded"]) /\ Event([what |-> "FlashError"])
    BY DEF Event
  <2>2. UNCHANGED <<relay_state, relay, announcing, untold, dark, bound>> /\ pc = "profile"
    BY <1>7 DEF resolveProfile
  <2>3. \/ pc' \in {"run", "halt"}
        \/ bound /\ pc' = "append" /\ then' \in {"run", "halt"} /\ Event(event')
    BY <1>7, <2>1 DEF resolveProfile, Log
  <2>4. QED
    BY <1>1, <1>2, <2>2, <2>3 DEF Relays, Placed
<1>8. CASE AppendRecord
  <2>1. /\ UNCHANGED <<relay_state, relay, announcing, bound, event, then>>
        /\ pc = "append" /\ pc' = "settle" /\ untold' \subseteq untold /\ dark' \subseteq dark
    BY <1>8 DEF AppendRecord
  <2>2. QED
    BY <1>1, <1>2, <2>1 DEF Relays, Placed
<1>9. CASE AppendFails
  <2>1. UNCHANGED <<relay_state, relay, announcing, dark, bound>> /\ pc = "append" /\ pc' = then
    BY <1>9 DEF AppendFails
  <2>2. untold' \subseteq Ch
    BY <1>1, <1>9, <2>1 DEF AppendFails, Relays, Placed, Event
  <2>3. QED
    BY <1>1, <2>1, <2>2 DEF Relays, Placed
<1>10. CASE saveHead
  <2>1. UNCHANGED <<relay_state, relay, announcing, bound, untold, dark>> /\ pc = "settle" /\ pc' = then
    BY <1>10 DEF saveHead
  <2>2. QED
    BY <1>1, <2>1 DEF Relays, Placed
<1>11. ASSUME NEW changed \in SUBSET Ch, Operate(changed) PROVE Goal
  <2>1. UNCHANGED <<relay_state, bound, untold, dark>> /\ announcing' = changed /\ pc = "run" /\ pc' = pc
    BY <1>11 DEF Operate
  <2>2. relay' \in [Ch -> BOOLEAN]
    BY <1>1, <1>11 DEF Operate, Relays
  <2>3. QED
    BY <1>1, <2>1, <2>2 DEF Relays, Placed
<1>12. CASE Announce
  <2>1. Lowest \in announcing /\ Lowest \in Ch
    BY <1>1, <1>12, LowestIsOne DEF Announce, Relays
  <2>2. Event([what |-> "relay", ch |-> Lowest, on |-> relay[Lowest]])
    BY <1>1, <2>1 DEF Relays, Event
  <2>3. UNCHANGED <<relay_state, relay, announcing, dark, bound>> /\ untold' \subseteq Ch
    BY <1>1, <1>12, <2>1 DEF Announce, Relays
  <2>4. \/ pc' = "save"
        \/ bound /\ pc' = "append" /\ then' = "save" /\ Event(event')
    BY <1>12, <2>2 DEF Announce, Log
  <2>5. QED
    BY <1>1, <1>2, <2>3, <2>4 DEF Relays, Placed
<1>13. CASE Save \/ FactoryReset
  <2>1. AllOff \in [Ch -> BOOLEAN]
    BY DEF AllOff
  <2>2. /\ relay_state' \in [Ch -> BOOLEAN] /\ announcing' \subseteq Ch
        /\ UNCHANGED <<relay, bound, untold, dark>> /\ pc' \in {"run", "wiped"}
    BY <1>1, <1>13, <2>1 DEF Save, FactoryReset, Relays
  <2>3. QED
    BY <1>1, <2>2 DEF Relays, Placed
<1>14. CASE Tick
  <2>1. UNCHANGED <<relay_state, relay, announcing, bound, untold, dark, pc>> /\ pc = "run"
    BY <1>14 DEF Tick
  <2>2. QED
    BY <1>1, <2>1 DEF Relays, Placed
<1>15. CASE Down
  <2>1. relay' = AllOff /\ announcing' = {} /\ pc' = "off" /\ bound' = FALSE
        /\ relay_state' \in {relay_state, AllOff}
    BY <1>15 DEF Down
  <2>2. untold' \subseteq Ch /\ dark' \subseteq Ch
    BY <1>1, <1>15 DEF Down, Relays, Tells
  <2>3. AllOff \in [Ch -> BOOLEAN]
    BY DEF AllOff
  <2>4. QED
    BY <1>1, <2>1, <2>2, <2>3 DEF Relays, Placed
<1>16. QED
  BY <1>3, <1>4, <1>5, <1>6, <1>7, <1>8, <1>9, <1>10, <1>11, <1>12, <1>13, <1>14, <1>15 DEF Next

LEMMA TypeStep == IInv /\ [Next]_vars => TypeOK' /\ Counted' /\ Placed'
<1>1. [Next]_vars => profile_id' = profile_id
  BY ProfileStays
<1>2. IInv => profile_id \in ProfileBytes
  BY TypeParts DEF IInv
<1>3. QED
  BY <1>1, <1>2, RingStep, PlaceStep, TypePartsAfter

----------------------------------------------------------------------------
(* The Control task, and what fails.                                       *)

LEMMA OthersKeep ==
  ASSUME IInv, [Next]_vars,
         \/ resolveProfile \/ AppendFails \/ Announce \/ Save \/ Tick \/ FactoryReset
         \/ \E changed \in SUBSET Ch : Operate(changed)
  PROVE  IInv'
<1> USE DEF flash, ram, history
<1>1. TypeOK' /\ Counted' /\ Placed' /\ TypeOK /\ Counted /\ Placed
  BY TypeStep DEF IInv
<1>2. faults \in Nat /\ keysOk' \in BOOLEAN /\ faults' \in 0 .. MaxFaults
  BY <1>1 DEF Counted
<1>3. UNCHANGED uptime => uptime <= uptime'
  BY <1>1, WidthsAreNat DEF TypeOK
<1>4. CASE resolveProfile
  BY <1>1, <1>2, <1>3, <1>4, RingStaysKeeps DEF resolveProfile, Log, RingStays
<1>5. CASE AppendFails
  <2>1. then \in {"profile", "run", "halt", "save"}
    BY <1>1, <1>5 DEF AppendFails, Placed, Recording
  <2>2. faults' # 0
    BY <1>2, <1>5 DEF AppendFails, WriteFails
  <2>3. QED
    BY <1>1, <1>2, <1>3, <1>5, <2>1, <2>2, RingStaysKeeps DEF AppendFails, RingStays
<1>6. CASE Announce
  BY <1>1, <1>2, <1>3, <1>6, RingStaysKeeps DEF Announce, Log, RingStays
<1>7. CASE Save \/ FactoryReset
  <2>1. faults' = 0 => faults = 0
    BY <1>2, <1>7 DEF Save, FactoryReset, WriteFails
  <2>2. QED
    BY <1>1, <1>2, <1>3, <1>7, <2>1, RingStaysKeeps DEF Save, FactoryReset, RingStays
<1>8. CASE Tick
  <2>1. keysOk' => keysOk /\ uptime' # 0
    BY <1>8 DEF Tick
  <2>2. uptime' # 0 => uptime' = uptime + 1
    BY <1>1, <1>8, ComesRound, WidthsAreNat DEF Tick, TypeOK
  <2>3. keysOk' => keysOk /\ uptime <= uptime'
    BY <1>1, <2>1, <2>2, WidthsAreNat DEF TypeOK
  <2>4. QED
    BY <1>1, <1>2, <1>8, <2>3, RingStaysKeeps DEF Tick, RingStays
<1>9. ASSUME NEW changed \in SUBSET Ch, Operate(changed) PROVE IInv'
  BY <1>1, <1>2, <1>3, <1>9, RingStaysKeeps DEF Operate, RingStays
<1>10. QED
  BY <1>4, <1>5, <1>6, <1>7, <1>8, <1>9

----------------------------------------------------------------------------
(* The two writes of a record.                                             *)

LEMMA AppendKeeps == IInv /\ AppendRecord => IInv'
<1> SUFFICES ASSUME IInv, AppendRecord PROVE IInv'
  OBVIOUS
<1> DEFINE rec == [nr |-> last + 1, boot |-> bootId, up |-> uptime, event |-> event]
<1>1. /\ pc = "append" /\ pc' = "settle"
      /\ slot' = [slot EXCEPT ![head] = rec] /\ last' = last + 1
      /\ unsettled' = (unsettled \ {slot[head].nr}) \cup {last'}
      /\ doomed' = doomed \ {slot[head].nr}
      /\ UNCHANGED <<loghead, boot_id, bound, head, bootId, uptime, faults, keysOk>>
  BY DEF AppendRecord
<1>2. TypeOK' /\ Counted' /\ Placed'
  BY TypeStep DEF Next
<1>3. /\ Ring /\ Counted /\ Numbered /\ AtRisk /\ Past /\ KeysOrderEvents /\ bound
      /\ last \in Nat /\ bootId \in Nat /\ uptime \in Nat /\ head \in Slots
  BY <1>1, TypeParts, WidthsAreNat DEF IInv, Placed, Recording, Ring, Counted
<1>4. slot'[head] = rec /\ \A i \in Slots : i # head => slot'[i] = slot[i]
  BY <1>1, <1>3 DEF Counted
<1>5. rec.nr = last + 1 /\ rec.boot = bootId /\ rec.up = uptime
  OBVIOUS
<1>6. Slots' = Slots /\ Empty' = Empty
  BY DEF Slots, Empty
<1> HIDE DEF rec
<1>7. \A i \in Used' : i \in Slots /\ (i # head => i \in Used /\ slot'[i] = slot[i])
  BY <1>4, <1>6 DEF Used
<1>8. \A i \in Used : /\ slot[i].nr <= last /\ slot[i].nr \in Nat /\ slot[i].boot \in Nat
                       /\ slot[i].up \in Nat
  BY <1>3, WidthsAreNat DEF Numbered, Used, Ring, Record
<1>9. Numbered'
  <2> SUFFICES ASSUME NEW i \in Used' PROVE slot'[i].nr <= last + 1
    BY <1>1 DEF Numbered
  <2>1. CASE i = head
    BY <1>3, <1>4, <1>5, <2>1
  <2>2. CASE i # head
    BY <1>3, <1>7, <1>8, <2>2
  <2>3. QED
    BY <2>1, <2>2
<1>10. AtRisk'
  <2> SUFFICES ASSUME faults = 0
               PROVE  /\ head = loghead /\ unsettled' = {last'} /\ doomed' = {}
                      /\ slot'[loghead].nr = last'
    BY <1>1 DEF AtRisk
  <2>1. head = loghead /\ unsettled = {} /\ (doomed # {} => doomed = {last} /\ slot[head].nr = last)
    BY <1>1, <1>3 DEF AtRisk
  <2>2. QED
    BY <1>1, <1>4, <1>5, <2>1
<1>11. ASSUME keysOk
       PROVE  /\ bootId = boot_id
              /\ \A i \in Used : slot[i].boot <= boot_id /\ (slot[i].boot = bootId => slot[i].up <= uptime)
  BY <1>1, <1>3, <1>11 DEF Past
<1>12. Past'
  <2> SUFFICES ASSUME keysOk, NEW i \in Used'
               PROVE  /\ slot'[i].boot <= boot_id
                      /\ slot'[i].boot = bootId => slot'[i].up <= uptime
    BY <1>1, <1>11 DEF Past
  <2>1. CASE i = head
    BY <1>3, <1>4, <1>5, <1>11, <2>1
  <2>2. CASE i # head
    BY <1>7, <1>11, <2>2
  <2>3. QED
    BY <2>1, <2>2
<1>13. KeysOrderEvents'
  <2> SUFFICES ASSUME keysOk, NEW i \in Used', NEW j \in Used', slot'[i].nr < slot'[j].nr
               PROVE  Before(slot'[i], slot'[j])
    BY <1>1 DEF KeysOrderEvents, Before
  <2>1. CASE i # head /\ j # head
    BY <1>3, <1>7, <2>1 DEF KeysOrderEvents
  <2>2. CASE i # head /\ j = head
    <3>1. i \in Used /\ slot'[i] = slot[i] /\ slot'[j] = rec
      BY <1>4, <1>7, <2>2
    <3>2. /\ slot[i].boot <= bootId /\ slot[i].boot \in Nat
          /\ slot[i].boot = bootId => slot[i].up <= uptime
      BY <1>8, <1>11, <3>1
    <3>3. QED
      BY <1>3, <1>5, <3>1, <3>2 DEF Before
  <2>3. CASE i = head
    <3>1. slot'[i].nr = last + 1 /\ slot'[j].nr <= last + 1 /\ slot'[j].nr \in Nat
      BY <1>1, <1>3, <1>4, <1>5, <1>7, <1>8, <1>9, <2>3 DEF Numbered
    <3>2. QED
      BY <1>3, <3>1
  <2>4. QED
    BY <2>1, <2>2, <2>3
<1>14. QED
  BY <1>2, <1>9, <1>10, <1>12, <1>13 DEF IInv

LEMMA SettleKeeps == IInv /\ saveHead => IInv'
<1> SUFFICES ASSUME IInv, saveHead PROVE IInv'
  OBVIOUS
<1>1. /\ pc = "settle" /\ pc' = then
      /\ \/ loghead' = head' /\ unsettled' = {} /\ UNCHANGED faults
         \/ WriteFails /\ UNCHANGED <<loghead, unsettled>>
      /\ UNCHANGED <<slot, boot_id, bound, bootId, uptime, last, doomed, keysOk>>
  BY DEF saveHead
<1>2. TypeOK' /\ Counted' /\ Placed' /\ Numbered /\ AtRisk /\ Past /\ KeysOrderEvents
  BY TypeStep DEF Next, IInv
<1>3. Used' = Used /\ then \in {"profile", "run", "halt", "save"} /\ faults \in Nat
  BY <1>1 DEF Used, Slots, IInv, Placed, Recording, Counted
<1>4. Numbered' /\ Past' /\ KeysOrderEvents'
  BY <1>1, <1>2, <1>3 DEF Numbered, Past, KeysOrderEvents, Before
<1>5. AtRisk'
  <2>1. CASE WriteFails
    BY <1>3, <2>1 DEF WriteFails, AtRisk
  <2>2. CASE loghead' = head' /\ unsettled' = {} /\ UNCHANGED faults
    BY <1>1, <1>2, <1>3, <2>2 DEF AtRisk
  <2>3. QED
    BY <1>1, <2>1, <2>2
<1>6. QED
  BY <1>2, <1>4, <1>5 DEF IInv

----------------------------------------------------------------------------
(* Boot, and the mains.                                                    *)

LEMMA BootKeeps == IInv /\ (PowerOn \/ Bind \/ Down) => IInv'
<1> SUFFICES ASSUME IInv, PowerOn \/ Bind \/ Down PROVE IInv'
  OBVIOUS
<1> USE DEF flash, ram, history
<1>1. /\ UNCHANGED <<slot, loghead, boot_id, last, keysOk>>
      /\ pc' \notin {"settle"} /\ (pc' = "bootid" \/ ~bound')
  BY DEF PowerOn, Bind, Down, IInv, Placed
<1>2. TypeOK' /\ Counted' /\ Placed' /\ Numbered /\ AtRisk /\ Past /\ KeysOrderEvents
      /\ faults \in Nat
  BY TypeStep DEF Next, IInv, Counted
<1>3. Used' = Used
  BY <1>1 DEF Used, Slots
<1>4. Numbered' /\ KeysOrderEvents'
  BY <1>1, <1>2, <1>3 DEF Numbered, KeysOrderEvents, Before
<1>5. Past'
  BY <1>1, <1>2, <1>3 DEF Past
<1>6. AtRisk'
  <2>1. CASE PowerOn
    BY <1>2, <2>1 DEF PowerOn, AtRisk
  <2>2. CASE Bind
    <3>1. UNCHANGED <<head, loghead, slot, last, unsettled, doomed>> /\ pc = "bind" /\ pc' # "settle"
          /\ (faults' = 0 => faults = 0)
      BY <1>2, <2>2 DEF Bind, WriteFails
    <3>2. QED
      BY <1>2, <3>1 DEF AtRisk
  <2>3. CASE Down
    <3>1. /\ UNCHANGED <<loghead, slot, last, faults>> /\ pc' = "off"
          /\ doomed' = doomed \cup unsettled /\ unsettled' = {}
      BY <2>3 DEF Down
    <3>2. QED
      BY <1>2, <3>1 DEF AtRisk
  <2>4. QED
    BY <2>1, <2>2, <2>3
<1>7. QED
  BY <1>2, <1>4, <1>5, <1>6 DEF IInv

LEMMA NumberingKeeps == IInv /\ nextBootId => IInv'
<1> SUFFICES ASSUME IInv, nextBootId PROVE IInv'
  OBVIOUS
<1>1. /\ pc = "bootid" /\ pc' = "append" /\ bootId' = (boot_id + 1) % BootIds
      /\ \/ boot_id' = bootId' /\ keysOk' = (keysOk /\ bootId' # 0) /\ UNCHANGED faults
         \/ boot_id' = boot_id /\ keysOk' = FALSE /\ WriteFails
      /\ UNCHANGED <<slot, loghead, bound, head, last, unsettled, doomed>>
  BY DEF nextBootId, Log
<1>2. TypeOK' /\ Counted' /\ Placed' /\ Numbered /\ AtRisk /\ Past /\ KeysOrderEvents
      /\ faults \in Nat /\ Ring
  BY TypeStep, TypeParts DEF Next, IInv, Counted
<1>3. Used' = Used /\ \A i \in Used : slot[i].boot \in Nat
  BY <1>1, <1>2, WidthsAreNat DEF Used, Slots, Ring, Record
<1>4. keysOk' => keysOk /\ bootId' # 0 /\ boot_id' = bootId'
  BY <1>1
<1>5. Numbered' /\ KeysOrderEvents'
  BY <1>1, <1>2, <1>3, <1>4 DEF Numbered, KeysOrderEvents, Before
<1>6. AtRisk'
  <2>1. faults' = 0 => faults = 0
    BY <1>1, <1>2 DEF WriteFails
  <2>2. QED
    BY <1>1, <1>2, <2>1 DEF AtRisk
<1>7. Past'
  <2> SUFFICES ASSUME keysOk' PROVE Past'
    BY DEF Past
  <2>1. bootId' = boot_id + 1 /\ boot_id \in Nat
    <3>1. boot_id \in 0 .. BootIds - 1 /\ BootIds \in Nat \ {0}
      BY <1>2, WidthsAreNat DEF Ring
    <3>2. (boot_id + 1) % BootIds # 0
      BY <1>1, <1>4
    <3>3. (boot_id + 1) % BootIds = boot_id + 1
      BY <3>1, <3>2, ComesRound
    <3>4. QED
      BY <1>1, <3>1, <3>3
  <2>2. \A i \in Used : slot[i].boot <= boot_id
    BY <1>2, <1>4 DEF Past
  <2>3. \A i \in Used : slot[i].boot < bootId'
    BY <1>3, <2>1, <2>2
  <2>4. QED
    BY <1>1, <1>3, <1>4, <2>1, <2>3 DEF Past
<1>8. QED
  BY <1>2, <1>5, <1>6, <1>7 DEF IInv

----------------------------------------------------------------------------
LEMMA NextKeeps == IInv /\ [Next]_vars => IInv'
<1> SUFFICES ASSUME IInv, [Next]_vars PROVE IInv'
  OBVIOUS
<1>1. CASE UNCHANGED vars
  <2>1. /\ UNCHANGED <<slot, loghead, boot_id, bound, head, bootId, uptime, last, unsettled, doomed,
                      keysOk, faults, pc>>
    BY <1>1 DEF vars, flash, ram, history
  <2>2. Used' = Used
    BY <2>1 DEF Used, Slots
  <2>3. Numbered' /\ AtRisk' /\ Past' /\ KeysOrderEvents'
    BY <2>1, <2>2 DEF IInv, Numbered, AtRisk, Past, KeysOrderEvents, Before
  <2>4. QED
    BY <2>3, TypeStep DEF IInv
<1>2. CASE Next
  BY <1>2, OthersKeep, AppendKeeps, SettleKeeps, BootKeeps, NumberingKeeps DEF Next
<1>3. QED
  BY <1>1, <1>2

THEOREM Inductive == Spec => []IInv
BY InitEstablishes, NextKeeps, PTL DEF Spec

(* Every variable keeps its type: the head stays in the ring, every slot   *)
(* is empty or holds a record.                                             *)
THEOREM TypeCorrect == Spec => []TypeOK
<1>1. IInv => TypeOK
  BY DEF IInv
<1>2. QED
  BY Inductive, <1>1, PTL

(* A power cut puts only the newest record at risk, so long as the head    *)
(* can be saved (log_impl.h:55-57).                                        *)
THEOREM OnlyNewestIsAtRisk == Spec => []OnlyNewestAtRisk
<1>1. IInv => OnlyNewestAtRisk
  BY DEF IInv, AtRisk, OnlyNewestAtRisk
<1>2. QED
  BY Inductive, <1>1, PTL

(* Sorting the log by its keys is sorting it by what happened first, so    *)
(* long as they do not come round (log_types.h:58-59).                     *)
THEOREM KeysAlwaysOrder == Spec => []KeysOrderEvents
<1>1. IInv => KeysOrderEvents
  BY DEF IInv
<1>2. QED
  BY Inductive, <1>1, PTL

----------------------------------------------------------------------------
(* The order of the records round the ring.                                *)

(* The slot after h round the ring, and how many slots after h the slot i  *)
(* is.                                                                     *)
NextSlot(h) == IF h + 1 = RingSlots THEN 0 ELSE h + 1
Rank(h, i)  == IF h <= i THEN i - h ELSE i - h + RingSlots

(* The ring read from the slot h on, f giving the number in each slot and  *)
(* 0 in an empty one: first d records a restart has put at risk, then      *)
(* empty slots and the other records, ever newer, and last the u records   *)
(* whose head is not saved yet; l is the slot the saved head names.        *)
InOrder(d, u, h, l, f, bad, new) ==
  /\ d + u <= RingSlots
  /\ \A i \in Slots : f[i] \in bad <=> Rank(h, i) < d
  /\ \A i \in Slots : f[i] \in new <=> RingSlots - u <= Rank(h, i)
  /\ \A i, j \in Slots :
       f[i] # 0 /\ d <= Rank(h, i) /\ Rank(h, i) < Rank(h, j) => f[i] < f[j]
  /\ u = RingSlots \/ Rank(h, l) = (IF u = 0 THEN 0 ELSE RingSlots - u)

(* The ranks of the slots are different, and the next slot's is 0.         *)
LEMMA Ranks ==
  ASSUME NEW h \in Slots, NEW i \in Slots
  PROVE  /\ Rank(h, i) \in 0 .. RingSlots - 1
         /\ Rank(h, i) = 0 <=> i = h
         /\ \A j \in Slots : Rank(h, i) = Rank(h, j) => i = j
BY WidthsAreNat DEF Rank, Slots

(* Moving on by one slot, the slot left behind becomes the last.           *)
LEMMA RankMoves ==
  ASSUME NEW h \in Slots
  PROVE  /\ NextSlot(h) \in Slots /\ NextSlot(h) = (h + 1) % RingSlots
         /\ \A i \in Slots : Rank(NextSlot(h), i) =
              IF i = h THEN RingSlots - 1 ELSE Rank(h, i) - 1
<1>1. h \in 0 .. RingSlots - 1 /\ RingSlots \in Nat \ {0}
  BY WidthsAreNat DEF Slots
<1>2. NextSlot(h) \in Slots
  BY <1>1 DEF NextSlot, Slots
<1>3. NextSlot(h) = (h + 1) % RingSlots
  <2>1. CASE h + 1 = RingSlots
    BY <1>1, <2>1 DEF NextSlot
  <2>2. CASE h + 1 < RingSlots
    BY <1>1, <2>2 DEF NextSlot
  <2>3. QED
    BY <1>1, <2>1, <2>2
<1>4. ASSUME NEW i \in Slots
      PROVE  Rank(NextSlot(h), i) = IF i = h THEN RingSlots - 1 ELSE Rank(h, i) - 1
  BY <1>1 DEF Rank, NextSlot, Slots
<1>5. QED
  BY <1>2, <1>3, <1>4

(* Ranks from one slot, told by the ranks from another.                    *)
LEMMA RankShifts ==
  ASSUME NEW h \in Slots, NEW l \in Slots, NEW i \in Slots
  PROVE  Rank(l, i) = IF Rank(h, l) <= Rank(h, i) THEN Rank(h, i) - Rank(h, l)
                      ELSE Rank(h, i) - Rank(h, l) + RingSlots
BY WidthsAreNat DEF Rank, Slots

(* A record written into slot h, with the head one further, leaves the     *)
(* ring in order: the slot was the first of those at risk, an empty one or *)
(* the oldest (log_impl.h:49-59).                                          *)
LEMMA WritingMovesOn ==
  ASSUME NEW d \in 0 .. RingSlots, NEW u \in 0 .. RingSlots, NEW h \in Slots, NEW l \in Slots,
         NEW n \in Nat, NEW f \in [Slots -> 0 .. n], NEW bad \in SUBSET (1 .. n), NEW new \in SUBSET (1 .. n),
         \A i, j \in Slots : f[i] = f[j] /\ f[i] # 0 => i = j,
         InOrder(d, u, h, l, f, bad, new)
  PROVE  \E e, v \in 0 .. RingSlots :
           InOrder(e, v, NextSlot(h), l, [f EXCEPT ![h] = n + 1],
                   bad \ {f[h]}, (new \ {f[h]}) \cup {n + 1})
<1> DEFINE e == IF d = 0 THEN 0 ELSE d - 1
           v == IF u = RingSlots THEN u ELSE u + 1
           k == NextSlot(h)
           g == [f EXCEPT ![h] = n + 1]
<1>1. RingSlots \in Nat \ {0} /\ e \in 0 .. RingSlots /\ v \in 1 .. RingSlots
  BY WidthsAreNat
<1>2. d + u <= RingSlots
  BY DEF InOrder
<1>3. e + v <= RingSlots /\ e <= RingSlots - 1
  BY <1>1, <1>2
<1>4. g[h] = n + 1 /\ \A i \in Slots : i # h => g[i] = f[i]
  OBVIOUS
<1>5. k \in Slots /\ Rank(k, h) = RingSlots - 1
      /\ \A i \in Slots : i # h => Rank(k, i) = Rank(h, i) - 1 /\ Rank(h, i) \in 1 .. RingSlots - 1
  BY RankMoves, Ranks
<1>6. Rank(h, h) = 0
  BY Ranks
<1>7. \A i \in Slots : f[i] \in bad <=> Rank(h, i) < d
  BY DEF InOrder
<1>8. \A i \in Slots : f[i] \in new <=> RingSlots - u <= Rank(h, i)
  BY DEF InOrder
<1>9. \A i, j \in Slots : f[i] # 0 /\ d <= Rank(h, i) /\ Rank(h, i) < Rank(h, j) => f[i] < f[j]
  BY DEF InOrder
<1>10. u = RingSlots \/ Rank(h, l) = (IF u = 0 THEN 0 ELSE RingSlots - u)
  BY DEF InOrder
<1> HIDE DEF g, k
<1>11. ASSUME NEW i \in Slots, i # h
       PROVE  /\ f[i] \in bad \ {f[h]} <=> f[i] \in bad
              /\ f[i] \in (new \ {f[h]}) \cup {n + 1} <=> f[i] \in new
  BY <1>11
<1>12. ASSUME NEW i \in Slots PROVE g[i] \in bad \ {f[h]} <=> Rank(k, i) < e
  <2>1. CASE i = h
    BY <1>1, <1>3, <1>4, <1>5, <2>1
  <2>2. CASE i # h
    BY <1>1, <1>4, <1>5, <1>7, <1>11, <2>2
  <2>3. QED
    BY <2>1, <2>2
<1>13. ASSUME NEW i \in Slots
       PROVE  g[i] \in (new \ {f[h]}) \cup {n + 1} <=> RingSlots - v <= Rank(k, i)
  <2>1. CASE i = h
    BY <1>1, <1>4, <1>5, <2>1
  <2>2. CASE i # h
    BY <1>1, <1>4, <1>5, <1>8, <1>11, <2>2
  <2>3. QED
    BY <2>1, <2>2
<1>14. ASSUME NEW i \in Slots, NEW j \in Slots, g[i] # 0, e <= Rank(k, i), Rank(k, i) < Rank(k, j)
       PROVE  g[i] < g[j]
  <2>1. i # h
    BY <1>1, <1>5, <1>14
  <2>2. CASE j = h
    BY <1>4, <2>1, <2>2
  <2>3. CASE j # h
    BY <1>1, <1>4, <1>5, <1>9, <1>14, <2>1, <2>3
  <2>4. QED
    BY <2>2, <2>3
<1>15. v = RingSlots \/ Rank(k, l) = (IF v = 0 THEN 0 ELSE RingSlots - v)
  <2>1. CASE u = 0
    BY <1>1, <1>5, <1>10, <2>1, Ranks
  <2>2. CASE u # 0 /\ u # RingSlots
    BY <1>1, <1>5, <1>6, <1>10, <2>2
  <2>3. CASE u = RingSlots
    BY <2>3
  <2>4. QED
    BY <2>1, <2>2, <2>3
<1>16. InOrder(e, v, k, l, g, bad \ {f[h]}, (new \ {f[h]}) \cup {n + 1})
  BY <1>3, <1>12, <1>13, <1>14, <1>15 DEF InOrder
<1>17. QED
  BY <1>1, <1>16 DEF g, k

(* A restart, which takes up the saved head again, leaves the ring in      *)
(* order: what had not settled comes to stand first, at risk               *)
(* (log_impl.h:36-47).                                                     *)
LEMMA RestartingMovesBack ==
  ASSUME NEW d \in 0 .. RingSlots, NEW u \in 0 .. RingSlots, NEW h \in Slots, NEW l \in Slots,
         NEW f, NEW bad, NEW new, InOrder(d, u, h, l, f, bad, new)
  PROVE  \E e \in 0 .. RingSlots : InOrder(e, 0, l, l, f, bad \cup new, {})
<1>1. RingSlots \in Nat \ {0} /\ d + u \in 0 .. RingSlots /\ Rank(l, l) = 0
  BY WidthsAreNat, Ranks DEF InOrder
<1>2. \A i \in Slots : Rank(h, i) \in 0 .. RingSlots - 1 /\ Rank(l, i) \in 0 .. RingSlots - 1
  BY Ranks
<1>3. \A i \in Slots : f[i] \in bad \cup new <=> Rank(h, i) < d \/ RingSlots - u <= Rank(h, i)
  BY DEF InOrder
<1>4. \A i, j \in Slots : f[i] # 0 /\ d <= Rank(h, i) /\ Rank(h, i) < Rank(h, j) => f[i] < f[j]
  BY DEF InOrder
<1>5. CASE u = RingSlots
  <2>1. InOrder(RingSlots, 0, l, l, f, bad \cup new, {})
    BY <1>1, <1>2, <1>3, <1>5 DEF InOrder
  <2>2. QED
    BY <1>1, <2>1
<1>6. CASE u # RingSlots
  <2>1. Rank(h, l) = (IF u = 0 THEN 0 ELSE RingSlots - u)
    BY <1>6 DEF InOrder
  <2>2. \A i \in Slots : Rank(l, i) = IF RingSlots - u <= Rank(h, i)
                                       THEN Rank(h, i) - (RingSlots - u) ELSE Rank(h, i) + u
    <3>1. \A i \in Slots : Rank(l, i) = IF Rank(h, l) <= Rank(h, i) THEN Rank(h, i) - Rank(h, l)
                                         ELSE Rank(h, i) - Rank(h, l) + RingSlots
      BY RankShifts
    <3>2. CASE u = 0
      BY <1>1, <1>2, <2>1, <3>1, <3>2
    <3>3. CASE u # 0
      BY <1>1, <1>2, <2>1, <3>1, <3>3
    <3>4. QED
      BY <3>2, <3>3
  <2>3. \A i \in Slots : f[i] \in bad \cup new <=> Rank(l, i) < d + u
    BY <1>1, <1>2, <1>3, <2>2
  <2>4. ASSUME NEW i \in Slots, NEW j \in Slots, f[i] # 0, d + u <= Rank(l, i), Rank(l, i) < Rank(l, j)
        PROVE  f[i] < f[j]
    BY <1>1, <1>2, <1>4, <2>2, <2>4
  <2>5. InOrder(d + u, 0, l, l, f, bad \cup new, {})
    BY <1>1, <1>2, <2>3, <2>4 DEF InOrder
  <2>6. QED
    BY <1>1, <2>5
<1>7. QED
  BY <1>5, <1>6

(* The number in each slot, and the slot the next record goes to, or would *)
(* after a boot.                                                           *)
Numbers == [i \in Slots |-> slot[i].nr]
Here    == IF pc = "off" THEN loghead ELSE IF pc = "settle" THEN NextSlot(head) ELSE head

(* The ring stands in the order InOrder describes, whatever was cut short. *)
RingInOrder ==
  /\ \E d, u \in 0 .. RingSlots : InOrder(d, u, Here, loghead, Numbers, doomed, unsettled)
  /\ doomed \cup unsettled \subseteq {Numbers[i] : i \in Used}
  /\ \A i, j \in Used : Numbers[i] = Numbers[j] => i = j

(* What IInv says of the ring, in the terms of InOrder.                    *)
LEMMA UsedAreNumbered ==
  ASSUME IInv
  PROVE  /\ Numbers \in [Slots -> 0 .. last] /\ last \in Nat
         /\ \A i \in Slots : Numbers[i] = slot[i].nr /\ (i \in Used <=> Numbers[i] # 0)
         /\ Here \in Slots /\ head \in Slots /\ loghead \in Slots
<1>1. /\ last \in Nat /\ head \in Slots /\ loghead \in Slots
      /\ \A i \in Slots : slot[i] = Empty \/ Record(slot[i])
      /\ \A i \in Used : slot[i].nr <= last
  BY WidthsAreNat DEF IInv, TypeOK, Counted, Numbered
<1>2. \A i \in Slots : (slot[i] = Empty => slot[i].nr = 0) /\ (Record(slot[i]) => slot[i].nr \in Nat \ {0})
  BY WidthsAreNat DEF Empty, Record
<1>3. \A i \in Slots : Numbers[i] = slot[i].nr /\ (i \in Used <=> slot[i] # Empty)
  BY DEF Numbers, Used
<1>4. \A i \in Slots : slot[i].nr \in 0 .. last
  BY <1>1, <1>2 DEF Used
<1>5. Numbers \in [Slots -> 0 .. last]
  BY <1>4 DEF Numbers
<1>6. Here \in Slots
  BY <1>1, RankMoves DEF Here
<1>7. QED
  BY <1>1, <1>2, <1>3, <1>5, <1>6

(* An empty ring is in order.                                              *)
LEMMA InitIsInOrder == Init => RingInOrder
<1> SUFFICES ASSUME Init PROVE RingInOrder
  OBVIOUS
<1>1. Used = {} /\ Here = 0 /\ loghead = 0 /\ doomed = {} /\ unsettled = {} /\ 0 \in Slots
  BY WidthsAreNat DEF Init, Used, Here, Slots
<1>2. \A i \in Slots : Numbers[i] = 0
  BY DEF Numbers, Init, Empty
<1>3. InOrder(0, 0, 0, 0, Numbers, {}, {})
  BY <1>1, <1>2, WidthsAreNat, Ranks DEF InOrder
<1>4. QED
  BY <1>1, <1>3, WidthsAreNat DEF RingInOrder

(* What the next record overwrites.                                        *)
LEMMA HeadGivesWay ==
  ASSUME IInv, RingInOrder, pc = "append"
  PROVE  /\ doomed # {} => head \in Used /\ slot[head].nr \in doomed
         /\ doomed = {} /\ head \in Used =>
              \A i \in Slots : i \in Used /\ slot[head].nr <= slot[i].nr
<1>1. Here = head /\ Numbers \in [Slots -> 0 .. last] /\ last \in Nat /\ head \in Slots
      /\ \A i \in Slots : Numbers[i] = slot[i].nr /\ (i \in Used <=> Numbers[i] # 0)
  BY UsedAreNumbered DEF Here
<1>2. PICK d \in 0 .. RingSlots : \E u \in 0 .. RingSlots :
        InOrder(d, u, head, loghead, Numbers, doomed, unsettled)
  BY <1>1 DEF RingInOrder
<1>3. \A i \in Slots : Numbers[i] \in doomed <=> Rank(head, i) < d
  BY <1>2 DEF InOrder
<1>4. \A i, j \in Slots :
        Numbers[i] # 0 /\ d <= Rank(head, i) /\ Rank(head, i) < Rank(head, j) => Numbers[i] < Numbers[j]
  BY <1>2 DEF InOrder
<1>5. Rank(head, head) = 0 /\ \A i \in Slots : Rank(head, i) \in Nat /\ (Rank(head, i) = 0 => i = head)
  BY <1>1, Ranks DEF Slots
<1>6. ASSUME doomed # {} PROVE head \in Used /\ slot[head].nr \in doomed
  <2>1. PICK i \in Used : Numbers[i] \in doomed
    BY <1>6 DEF RingInOrder
  <2>2. i \in Slots /\ Rank(head, i) < d
    BY <1>3, <2>1 DEF Used
  <2>3. Numbers[head] \in doomed
    BY <1>1, <1>3, <1>5, <2>2
  <2>4. PICK j \in Used : Numbers[head] = Numbers[j]
    BY <2>3 DEF RingInOrder
  <2>5. Numbers[head] # 0
    BY <1>1, <2>4 DEF Used
  <2>6. QED
    BY <1>1, <2>3, <2>5
<1>7. ASSUME doomed = {}, head \in Used, NEW i \in Slots
      PROVE  i \in Used /\ slot[head].nr <= slot[i].nr
  <2>1. d = 0
    BY <1>1, <1>3, <1>5, <1>7
  <2>2. CASE i = head
    BY <1>1, <1>7, <2>2
  <2>3. CASE i # head
    <3>1. Numbers[head] < Numbers[i] /\ Numbers[head] \in Nat /\ Numbers[i] \in Nat
      BY <1>1, <1>4, <1>5, <1>7, <2>1, <2>3
    <3>2. QED
      BY <1>1, <3>1
  <2>4. QED
    BY <2>2, <2>3
<1>8. QED
  BY <1>6, <1>7

(* Writing a record keeps the ring in order (log_impl.h:49-59).            *)
LEMMA AppendKeepsOrder == IInv /\ RingInOrder /\ AppendRecord => RingInOrder'
<1> SUFFICES ASSUME IInv, RingInOrder, AppendRecord PROVE RingInOrder'
  OBVIOUS
<1>1. /\ pc = "append" /\ pc' = "settle" /\ last' = last + 1
      /\ unsettled' = (unsettled \ {slot[head].nr}) \cup {last + 1}
      /\ doomed' = doomed \ {slot[head].nr}
      /\ loghead' = loghead /\ head' = head
  BY DEF AppendRecord
<1>2. /\ Numbers \in [Slots -> 0 .. last] /\ last \in Nat /\ head \in Slots /\ loghead \in Slots
      /\ \A i \in Slots : Numbers[i] = slot[i].nr /\ (i \in Used <=> Numbers[i] # 0)
  BY UsedAreNumbered
<1>3. Here = head /\ Here' = NextSlot(head)
  BY <1>1 DEF Here, NextSlot
<1>4. slot'[head].nr = last + 1 /\ \A i \in Slots : i # head => slot'[i] = slot[i]
  BY <1>2 DEF AppendRecord, IInv, Counted
<1>5. Slots' = Slots /\ Empty' = Empty
  BY DEF Slots, Empty
<1>6. Numbers' = [Numbers EXCEPT ![head] = last + 1]
  BY <1>2, <1>4, <1>5 DEF Numbers
<1>7. Used' = Used \cup {head}
  BY <1>2, <1>4, <1>5 DEF Used, Empty
<1>8. \A i, j \in Slots : Numbers[i] = Numbers[j] /\ Numbers[i] # 0 => i = j
  BY <1>2 DEF RingInOrder
<1>9. doomed \in SUBSET (1 .. last) /\ unsettled \in SUBSET (1 .. last)
  <2>1. \A i \in Used : Numbers[i] \in 1 .. last
    BY <1>2 DEF Used
  <2>2. QED
    BY <2>1 DEF RingInOrder
<1>10. PICK d \in 0 .. RingSlots, u \in 0 .. RingSlots :
         InOrder(d, u, head, loghead, Numbers, doomed, unsettled)
  BY <1>3 DEF RingInOrder
<1>11. \E e, v \in 0 .. RingSlots : InOrder(e, v, Here', loghead', Numbers', doomed', unsettled')
  <2>1. \E e, v \in 0 .. RingSlots :
          InOrder(e, v, NextSlot(head), loghead, [Numbers EXCEPT ![head] = last + 1],
                  doomed \ {Numbers[head]}, (unsettled \ {Numbers[head]}) \cup {last + 1})
    BY <1>2, <1>8, <1>9, <1>10, WritingMovesOn
  <2>2. Numbers[head] = slot[head].nr
    BY <1>2
  <2>3. QED
    BY <1>1, <1>3, <1>6, <2>1, <2>2
<1>12. \A i \in Slots : i # head => Numbers'[i] = Numbers[i]
  BY <1>2, <1>6
<1>13. Numbers'[head] = last + 1
  BY <1>2, <1>6
<1>14. doomed' \cup unsettled' \subseteq {Numbers'[i] : i \in Used'}
  <2> SUFFICES ASSUME NEW n \in doomed' \cup unsettled' PROVE \E i \in Used' : Numbers'[i] = n
    OBVIOUS
  <2>1. CASE n = last + 1
    BY <1>7, <1>13, <2>1
  <2>2. CASE n # last + 1
    <3>1. n \in doomed \cup unsettled /\ n # slot[head].nr
      BY <1>1, <2>2
    <3>2. PICK i \in Used : Numbers[i] = n
      BY <3>1 DEF RingInOrder
    <3>3. QED
      BY <1>2, <1>7, <1>12, <3>1, <3>2 DEF Used
  <2>3. QED
    BY <2>1, <2>2
<1>15. \A i, j \in Used' : Numbers'[i] = Numbers'[j] => i = j
  <2>1. \A i \in Used : i \in Slots /\ Numbers[i] \in 1 .. last
    BY <1>2 DEF Used
  <2> SUFFICES ASSUME NEW i \in Used', NEW j \in Used', Numbers'[i] = Numbers'[j], i # j PROVE FALSE
    OBVIOUS
  <2>2. CASE i # head /\ j # head
    BY <1>7, <1>8, <1>12, <2>1, <2>2
  <2>3. CASE i = head
    BY <1>2, <1>7, <1>12, <1>13, <2>1, <2>3
  <2>4. CASE j = head
    BY <1>2, <1>7, <1>12, <1>13, <2>1, <2>4
  <2>5. QED
    BY <2>2, <2>3, <2>4
<1>16. QED
  BY <1>11, <1>14, <1>15 DEF RingInOrder

(* So does a step that leaves the ring and the next slot alone.            *)
LEMMA OrderStays ==
  ASSUME RingInOrder, UNCHANGED <<slot, loghead, doomed, unsettled>>, Here' = Here
  PROVE  RingInOrder'
<1>1. Slots' = Slots /\ Used' = Used /\ Numbers' = Numbers
  BY DEF Slots, Used, Numbers, Empty
<1>2. QED
  BY <1>1 DEF RingInOrder

(* And so does every other step.                                           *)
LEMMA OrderKeeps == IInv /\ RingInOrder /\ [Next]_vars => RingInOrder'
<1> SUFFICES ASSUME IInv, RingInOrder, [Next]_vars PROVE RingInOrder'
  OBVIOUS
<1> USE DEF flash, ram, history
<1>1. CASE AppendRecord
  BY <1>1, AppendKeepsOrder
<1>2. CASE saveHead
  <2>1. pc = "settle" /\ pc' = then /\ slot' = slot /\ doomed' = doomed /\ head' = (head + 1) % RingSlots
        /\ then \in {"profile", "run", "halt", "save"}
    BY <1>2 DEF saveHead, IInv, Placed, Recording
  <2>2. Here' = head' /\ Here = head'
    BY <2>1, UsedAreNumbered, RankMoves DEF Here
  <2>3. CASE UNCHANGED <<loghead, unsettled>>
    BY <2>1, <2>2, <2>3, OrderStays
  <2>4. CASE loghead' = head' /\ unsettled' = {}
    <3>1. Slots' = Slots /\ Used' = Used /\ Numbers' = Numbers
      BY <2>1 DEF Slots, Used, Numbers, Empty
    <3>2. PICK d \in 0 .. RingSlots, u \in 0 .. RingSlots :
            InOrder(d, u, Here, loghead, Numbers, doomed, unsettled)
      BY DEF RingInOrder
    <3>3. Rank(Here', Here') = 0 /\ \A i \in Slots : Rank(Here, i) \in 0 .. RingSlots - 1
      BY <2>2, UsedAreNumbered, Ranks
    <3>4. InOrder(d, 0, Here', loghead', Numbers', doomed', unsettled')
      BY <2>1, <2>2, <2>4, <3>1, <3>2, <3>3, WidthsAreNat DEF InOrder
    <3>5. QED
      BY <2>1, <2>4, <3>1, <3>4, WidthsAreNat DEF RingInOrder
  <2>5. QED
    BY <1>2, <2>3, <2>4 DEF saveHead
<1>3. CASE Down
  <2>1. pc' = "off" /\ slot' = slot /\ loghead' = loghead /\ doomed' = doomed \cup unsettled
        /\ unsettled' = {}
    BY <1>3 DEF Down
  <2>2. Slots' = Slots /\ Used' = Used /\ Numbers' = Numbers
    BY <2>1 DEF Slots, Used, Numbers, Empty
  <2>3. Here' = loghead
    BY <2>1 DEF Here
  <2>4. \E e \in 0 .. RingSlots :
          InOrder(e, 0, loghead, loghead, Numbers, doomed \cup unsettled, {})
    <3>1. PICK d \in 0 .. RingSlots, u \in 0 .. RingSlots :
            InOrder(d, u, Here, loghead, Numbers, doomed, unsettled)
      BY DEF RingInOrder
    <3>2. QED
      BY <3>1, UsedAreNumbered, RestartingMovesBack
  <2>5. QED
    BY <2>1, <2>2, <2>3, <2>4, WidthsAreNat DEF RingInOrder
<1>4. CASE UNCHANGED vars
  BY <1>4, OrderStays DEF vars, Here
<1>5. CASE PowerOn
  BY <1>5, OrderStays DEF PowerOn, Here
<1>6. CASE Bind \/ nextBootId \/ resolveProfile \/ Announce \/ Save \/ Tick \/ FactoryReset
  BY <1>6, OrderStays DEF Bind, nextBootId, resolveProfile, Announce, Save, Tick, FactoryReset,
                          Log, Here
<1>7. CASE AppendFails
  <2>1. then \in {"profile", "run", "halt", "save"}
    BY <1>7 DEF AppendFails, IInv, Placed, Recording
  <2>2. QED
    BY <1>7, <2>1, OrderStays DEF AppendFails, Here
<1>8. ASSUME NEW changed \in SUBSET Ch, Operate(changed) PROVE RingInOrder'
  BY <1>8, OrderStays DEF Operate, Here
<1>9. QED
  BY <1>1, <1>2, <1>3, <1>4, <1>5, <1>6, <1>7, <1>8 DEF Next

(* The numbers of the records in the ring: the journal of JournalSpec.     *)
Told == {slot[i].nr : i \in Used}

(* There is room exactly while a slot has never been written.              *)
LEMMA RoomForMore ==
  ASSUME IInv, RingInOrder
  PROVE  Journal!Cardinality(Told) < RingSlots <=> Used # Slots
<1>1. IsFiniteSet(Slots) /\ Cardinality(Slots) = RingSlots
  BY WidthsAreNat, FS_Interval DEF Slots
<1>2. Used \subseteq Slots
  BY DEF Used
<1>3. IsFiniteSet(Used) /\ (Cardinality(Used) < RingSlots <=> Used # Slots) /\ Cardinality(Used) \in Nat
  BY <1>1, <1>2, FS_Subset, FS_CardinalityType, WidthsAreNat
<1>4. Cardinality(Told) = Cardinality(Used)
  <2> DEFINE f == [i \in Used |-> slot[i].nr]
  <2>1. \A i \in Used : f[i] = Numbers[i]
    BY <1>2, UsedAreNumbered
  <2>2. \A i, j \in Used : f[i] = f[j] => i = j
    BY <2>1 DEF RingInOrder
  <2>3. f \in Bijection(Used, Told)
    BY <2>2 DEF Told, Bijection, Injection, Surjection, IsInjective
  <2>4. QED
    BY <1>3, <2>3, FS_Bijection DEF ExistsBijection
<1>5. Journal!Cardinality(Told) = Cardinality(Told)
  BY DEF Journal!Cardinality, Cardinality
<1>6. QED
  BY <1>3, <1>4, <1>5

(* Writing a record is a step of the journal: the record whose slot is     *)
(* taken was at risk, or the oldest of a full ring, or there was none.     *)
LEMMA AppendRecords == IInv /\ RingInOrder /\ AppendRecord => Journal!Record
<1> SUFFICES ASSUME IInv, RingInOrder, AppendRecord PROVE Journal!Record
  OBVIOUS
<1>1. /\ pc = "append" /\ last' = last + 1
      /\ unsettled' = (unsettled \ {slot[head].nr}) \cup {last'}
      /\ doomed' = doomed \ {slot[head].nr}
  BY DEF AppendRecord
<1>2. /\ last \in Nat /\ head \in Slots
      /\ \A i \in Slots : Numbers[i] = slot[i].nr /\ (i \in Used <=> Numbers[i] # 0)
      /\ \A i \in Used : slot[i].nr \in 1 .. last
  BY UsedAreNumbered DEF Used
<1>3. slot'[head].nr = last + 1 /\ \A i \in Slots : i # head => slot'[i] = slot[i]
  BY <1>2 DEF AppendRecord, IInv, Counted
<1>4. Used' = Used \cup {head} /\ Used \subseteq Slots
  <2>1. Slots' = Slots /\ Empty' = Empty
    BY DEF Slots, Empty
  <2>2. QED
    BY <1>2, <1>3, <2>1 DEF Used, Empty
<1>5. \A i, j \in Used : slot[i].nr = slot[j].nr => i = j
  BY <1>2, <1>4 DEF RingInOrder
<1>6. doomed \cup unsettled \subseteq Told
  BY <1>2, <1>4 DEF RingInOrder, Told
<1>7. Told' = (Told \ {slot[head].nr}) \cup {last'}
  <2>1. ASSUME NEW n \in Told' PROVE n \in (Told \ {slot[head].nr}) \cup {last'}
    <3>1. PICK i \in Used' : n = slot'[i].nr
      BY DEF Told
    <3>2. CASE i = head
      BY <1>1, <1>3, <3>1, <3>2
    <3>3. CASE i # head
      <4>1. i \in Used /\ n = slot[i].nr
        BY <1>3, <1>4, <3>1, <3>3
      <4>2. n # slot[head].nr
        <5>1. CASE head \in Used
          BY <1>5, <3>3, <4>1, <5>1
        <5>2. CASE head \notin Used
          BY <1>2, <4>1, <5>2
        <5>3. QED
          BY <5>1, <5>2
      <4>3. QED
        BY <4>1, <4>2 DEF Told
    <3>4. QED
      BY <3>2, <3>3
  <2>2. ASSUME NEW n \in Told, n # slot[head].nr PROVE n \in Told'
    <3>1. PICK i \in Used : n = slot[i].nr
      BY DEF Told
    <3>2. QED
      BY <1>3, <1>4, <2>2, <3>1 DEF Told
  <2>3. last' \in Told'
    BY <1>1, <1>3, <1>4 DEF Told
  <2>4. QED
    BY <2>1, <2>2, <2>3
<1> DEFINE gone == {slot[head].nr}
<1>8. CASE doomed # {}
  <2>1. slot[head].nr \in doomed
    BY <1>1, <1>8, HeadGivesWay
  <2>2. {slot[head].nr} \in Journal!Gives
    BY <1>8, <2>1 DEF Journal!Gives
  <2>3. QED
    BY <1>1, <1>7, <2>2 DEF Journal!Record, Told
<1>9. CASE doomed = {} /\ head \in Used
  <2>1. \A i \in Slots : i \in Used /\ slot[head].nr <= slot[i].nr
    BY <1>1, <1>9, HeadGivesWay
  <2>2. ~(Journal!Cardinality(Told) < RingSlots)
    BY <1>4, <2>1, RoomForMore
  <2>3. \A f \in Told : slot[head].nr <= f
    BY <1>4, <2>1 DEF Told
  <2>4. slot[head].nr \in Told /\ \A e \in Told : e \in Nat
    BY <1>2, <1>9 DEF Told
  <2>5. {e \in Told : \A f \in Told : e <= f} = {slot[head].nr}
    BY <2>3, <2>4
  <2>6. {slot[head].nr} \in Journal!Gives
    BY <1>9, <2>2, <2>5 DEF Journal!Gives, Journal!Oldest, Told
  <2>7. QED
    BY <1>1, <1>7, <2>6 DEF Journal!Record, Told
<1>10. CASE doomed = {} /\ head \notin Used
  <2>1. Journal!Cardinality(Told) < RingSlots
    BY <1>2, <1>10, RoomForMore
  <2>2. {} \in Journal!Gives
    BY <1>10, <2>1 DEF Journal!Gives, Told
  <2>3. slot[head].nr \notin Told
    BY <1>2, <1>10 DEF Told
  <2>4. Told' = (Told \ {}) \cup {last'} /\ unsettled' = (unsettled \ {}) \cup {last'}
        /\ doomed' = doomed \ {}
    BY <1>1, <1>6, <1>7, <1>10, <2>3
  <2>5. QED
    BY <1>1, <2>2, <2>4 DEF Journal!Record, Told
<1>11. QED
  BY <1>8, <1>9, <1>10

(* Every step of the log is a step of the journal, or none.                *)
LEMMA StepsAreJournalSteps == IInv /\ RingInOrder /\ [Next]_vars => [Journal!Next]_(Journal!vars)
<1> SUFFICES ASSUME IInv, RingInOrder, [Next]_vars PROVE [Journal!Next]_(Journal!vars)
  OBVIOUS
<1> USE DEF flash, ram, history
<1>1. UNCHANGED slot => Told' = Told
  BY DEF Told, Used, Slots, Empty
<1>2. UNCHANGED <<last, slot, unsettled, doomed>> => UNCHANGED Journal!vars
  BY <1>1 DEF Journal!vars, Told
<1>3. CASE AppendRecord
  BY <1>3, AppendRecords DEF Journal!Next
<1>4. CASE saveHead
  <2>1. UNCHANGED <<last, slot, doomed>> /\ (unsettled' = {} \/ UNCHANGED unsettled)
    BY <1>4 DEF saveHead
  <2>2. unsettled' = {} => Journal!Settle
    BY <1>1, <2>1 DEF Journal!Settle, Told
  <2>3. QED
    BY <1>2, <2>1, <2>2 DEF Journal!Next
<1>5. CASE Down
  <2>1. UNCHANGED <<last, slot>> /\ doomed' = doomed \cup unsettled /\ unsettled' = {}
    BY <1>5 DEF Down
  <2>2. QED
    BY <1>1, <2>1 DEF Journal!Next, Journal!Restart, Told
<1>6. CASE UNCHANGED vars \/ PowerOn \/ Bind \/ nextBootId \/ resolveProfile \/ AppendFails
           \/ Announce \/ Save \/ Tick \/ FactoryReset
           \/ \E changed \in SUBSET Ch : Operate(changed)
  BY <1>2, <1>6 DEF vars, PowerOn, Bind, nextBootId, resolveProfile, AppendFails, Announce, Save,
                    Tick, FactoryReset, Operate, Log
<1>7. QED
  BY <1>3, <1>4, <1>5, <1>6 DEF Next

(* The ring is always in order from the next slot on (log_impl.h:10-17).   *)
THEOREM RingIsInOrder == Spec => []RingInOrder
<1>1. Init => RingInOrder
  BY InitIsInOrder
<1>2. IInv /\ RingInOrder /\ [Next]_vars => RingInOrder'
  BY OrderKeeps
<1>3. QED
  BY <1>1, <1>2, Inductive, PTL DEF Spec

(* The ring in flash implements the journal: whatever is cut short or      *)
(* fails, a new record takes the place of the oldest, except for those a   *)
(* restart has put at risk (log_impl.h:10-17, 49-59).                      *)
THEOREM RingIsJournal == Spec => JournalSpec
<1>1. Init => Journal!Init
  BY DEF Init, Journal!Init, Used
<1>2. IInv /\ RingInOrder /\ [Next]_vars => [Journal!Next]_(Journal!vars)
  BY StepsAreJournalSteps
<1>3. QED
  BY <1>1, <1>2, Inductive, RingIsInOrder, PTL DEF Spec, JournalSpec, Journal!Spec

(* What is being written before a save is the change announced first.      *)
Announced ==
  /\ pc \in Recording /\ then = "save" =>
       announcing # {} /\ event = [what |-> "relay", ch |-> Lowest, on |-> relay[Lowest]]
  /\ pc \in Recording /\ then # "save" => event.what # "relay"
  /\ pc = "save" => announcing # {}

(* What the relay is, or will be after the next boot.                      *)
Truth(c) == IF pc = "off" THEN relay_state[c] ELSE relay[c]

(* The channel's change is in the log.                                     *)
Said(c) == c \in announcing => c = Lowest /\ (pc = "save" \/ (pc = "settle" /\ then = "save"))

(* The newest record of a channel tells what the relay is, or was before   *)
(* it came back dark, as soon as the change is in the log.                 *)
LogIsKept ==
  \A c \in Ch \ untold : Said(c) => \A i \in Newest(c) : slot[i].event.on = (Truth(c) \/ c \in dark)

(* Of what a restart put at risk there is a newer record, which is not.    *)
DoomedAreRetold ==
  \A c \in Ch \ untold : \A i \in Used : c \in Tells(i) /\ slot[i].nr \in doomed =>
    \E j \in Used : c \in Tells(j) /\ slot[i].nr < slot[j].nr /\ slot[j].nr \notin doomed

(* What makes LogTellsRelay inductive, beside the order of the ring.       *)
LogInv == Announced /\ LogIsKept /\ DoomedAreRetold

(* An empty log says nothing wrong.                                        *)
LEMMA InitIsLogged == Init => LogInv
<1> SUFFICES ASSUME Init PROVE LogInv
  OBVIOUS
<1>1. Used = {} /\ pc = "off"
  BY DEF Init, Used
<1>2. Announced
  BY <1>1 DEF Announced, Recording
<1>3. LogIsKept /\ DoomedAreRetold
  BY <1>1 DEF LogIsKept, DoomedAreRetold, Newest
<1>4. QED
  BY <1>2, <1>3 DEF LogInv

(* The ring as it is, and what it says.                                    *)
LEMMA RecordsStay ==
  ASSUME UNCHANGED <<slot, profile_id>>
  PROVE  /\ Ch' = Ch /\ Used' = Used /\ \A i : Tells(i)' = Tells(i) /\ \A c : Newest(c)' = Newest(c)
<1>1. Ch' = Ch /\ Used' = Used /\ Slots' = Slots
  BY DEF Ch, profile, Used, Slots, Empty
<1>2. \A i : Tells(i)' = Tells(i)
  BY <1>1 DEF Tells, Empty
<1>3. QED
  BY <1>1, <1>2 DEF Newest

(* Steps that change neither the ring nor what is at risk.                 *)
LEMMA RiskStays ==
  ASSUME DoomedAreRetold, UNCHANGED <<slot, profile_id, doomed>>, untold \subseteq untold'
  PROVE  DoomedAreRetold'
BY RecordsStay DEF DoomedAreRetold

(* Nor the truth, where no relay changes and no save is lost.              *)
LEMMA LogStays ==
  ASSUME LogIsKept, UNCHANGED <<slot, profile_id>>, untold \subseteq untold',
         \A c \in Ch \ untold' : Said(c)' => Said(c) /\ (Truth(c) \/ c \in dark)' = (Truth(c) \/ c \in dark)
  PROVE  LogIsKept'
BY RecordsStay DEF LogIsKept

(* A new record tells the truth of its channel; of another channel it can  *)
(* take the newest record only where a newer and safe one follows          *)
(* (log_impl.h:49-59).                                                     *)
LEMMA AppendTells == IInv /\ RingInOrder /\ LogInv /\ AppendRecord => LogInv'
<1> SUFFICES ASSUME IInv, RingInOrder, LogInv, AppendRecord PROVE LogInv'
  OBVIOUS
<1>1. /\ pc = "append" /\ pc' = "settle" /\ last' = last + 1
      /\ doomed' = doomed \ {slot[head].nr}
      /\ untold' = IF event.what = "relay" THEN untold \ {event.ch} ELSE untold
      /\ dark' = IF event.what = "relay" THEN dark \ {event.ch} ELSE dark
      /\ UNCHANGED <<profile_id, event, then, head, relay, announcing>>
  BY DEF AppendRecord
<1>2. /\ last \in Nat /\ head \in Slots
      /\ \A i \in Used : i \in Slots /\ slot[i].nr \in 1 .. last
      /\ \A i, j \in Used : slot[i].nr = slot[j].nr => i = j
  BY UsedAreNumbered DEF Used, RingInOrder
<1>3. /\ slot'[head].nr = last + 1 /\ slot'[head].event = event
      /\ \A i \in Slots : i # head => slot'[i] = slot[i]
  BY <1>2 DEF AppendRecord, IInv, Counted
<1>4. /\ Used' = Used \cup {head} /\ Ch' = Ch
      /\ \A i \in Slots : i # head => Tells(i)' = Tells(i)
      /\ \A c \in Ch : c \in Tells(head)' <=> event.what = "relay" /\ event.ch = c
  <2>1. Slots' = Slots /\ Empty' = Empty /\ Ch' = Ch
    BY <1>1 DEF Slots, Empty, Ch, profile
  <2>2. Used' = Used \cup {head}
    BY <1>2, <1>3, <2>1 DEF Used, Empty
  <2>3. \A i \in Slots : i # head => Tells(i)' = Tells(i)
    BY <1>3, <2>1 DEF Tells
  <2>4. slot'[head] # Empty
    BY <1>2, <1>3 DEF Empty
  <2>5. \A c \in Ch : c \in Tells(head)' <=> event.what = "relay" /\ event.ch = c
    BY <1>1, <1>3, <2>1, <2>4 DEF Tells
  <2>6. QED
    BY <2>1, <2>2, <2>3, <2>5
<1>5. /\ doomed # {} => head \in Used /\ slot[head].nr \in doomed
      /\ doomed = {} /\ head \in Used => \A i \in Used : slot[head].nr <= slot[i].nr
  BY <1>1, <1>2, HeadGivesWay
<1>6. doomed \subseteq 1 .. last
  BY <1>2, UsedAreNumbered DEF RingInOrder
<1>7. Announced'
  <2>1. Lowest' = Lowest
    BY <1>1 DEF Lowest
  <2>2. QED
    BY <1>1, <2>1 DEF LogInv, Announced, Recording
(* A channel this record is not about.                                     *)
<1>8. ASSUME NEW c \in Ch \ untold, NEW i \in Used, i # head, c \in Tells(i), head \in Used, c \in Tells(head),
             slot[i].nr < slot[head].nr
      PROVE  \E j \in Used : j # head /\ c \in Tells(j) /\ slot[head].nr < slot[j].nr
                             /\ slot[j].nr \notin doomed
  <2>1. doomed # {}
    BY <1>2, <1>5, <1>8
  <2>2. slot[head].nr \in doomed
    BY <1>5, <2>1
  <2>3. QED
    BY <1>2, <1>8, <2>2 DEF LogInv, DoomedAreRetold
<1>9. ASSUME NEW c \in Ch' \ untold', Said(c)', NEW i \in Newest(c)'
      PROVE  slot'[i].event.on = (Truth(c) \/ c \in dark)'
  <2>1. i \in Used' /\ c \in Tells(i)' /\ \A j \in Used' : c \in Tells(j)' => slot'[j].nr <= slot'[i].nr
    BY <1>9 DEF Newest
  <2>2. Truth(c)' = relay[c]
    BY <1>1 DEF Truth
  <2>3. CASE i = head
    <3>1. event.what = "relay" /\ event.ch = c
      <4>1. c \in Ch /\ c \in Tells(head)'
        BY <1>1, <1>4, <1>9, <2>1, <2>3
      <4>2. QED
        BY <1>4, <4>1
    <3>2. event = [what |-> "relay", ch |-> Lowest, on |-> relay[Lowest]]
      BY <1>1, <3>1 DEF LogInv, Announced, Recording
    <3>3. c \notin dark'
      BY <1>1, <3>1
    <3>4. relay[c] \in BOOLEAN
      BY <1>1, <1>4, <1>9 DEF IInv, TypeOK
    <3>5. QED
      BY <1>3, <2>2, <2>3, <3>1, <3>2, <3>3, <3>4
  <2>4. CASE i # head
    <3>1. i \in Used /\ c \in Tells(i) /\ c \notin Tells(head)'
      <4>1. i \in Used /\ c \in Tells(i)
        BY <1>2, <1>4, <2>1, <2>4
      <4>2. slot'[i].nr < slot'[head].nr
        BY <1>2, <1>3, <2>4, <4>1
      <4>3. slot'[head].nr \in Nat /\ slot'[i].nr \in Nat /\ head \in Used'
        BY <1>2, <1>3, <1>4, <2>4, <4>1
      <4>4. c \in Tells(head)' => slot'[head].nr <= slot'[i].nr
        BY <1>1, <2>1, <4>3
      <4>5. QED
        BY <4>1, <4>2, <4>3, <4>4
    <3>2. c \in Ch \ untold
      BY <1>1, <1>4, <1>9, <3>1
    <3>3. Said(c)
      <4>1. CASE then = "save"
        <5>1. event.what = "relay" /\ event.ch = Lowest
          BY <1>1, <4>1 DEF LogInv, Announced, Recording
        <5>2. c # Lowest
          BY <1>4, <3>1, <3>2, <5>1
        <5>3. Lowest' = Lowest
          BY <1>1 DEF Lowest
        <5>4. QED
          BY <1>1, <1>9, <5>2, <5>3 DEF Said
      <4>2. CASE then # "save"
        BY <1>1, <1>9, <4>2 DEF Said
      <4>3. QED
        BY <4>1, <4>2
    <3>4. i \in Newest(c)
      <4> SUFFICES ASSUME NEW j \in Used, c \in Tells(j), slot[i].nr < slot[j].nr PROVE FALSE
        <5>1. \A j \in Used : slot[j].nr \in Nat
          BY <1>2
        <5>2. QED
          BY <3>1, <5>1 DEF Newest
      <4>1. ASSUME NEW k \in Used, k # head, c \in Tells(k) PROVE slot[k].nr <= slot[i].nr
        BY <1>2, <1>3, <1>4, <2>1, <2>4, <3>1, <4>1
      <4>2. j = head
        BY <1>2, <3>1, <4>1
      <4>3. PICK k \in Used : k # head /\ c \in Tells(k) /\ slot[head].nr < slot[k].nr
        BY <1>8, <2>4, <3>1, <3>2, <4>2
      <4>4. QED
        BY <1>2, <3>1, <4>1, <4>2, <4>3
    <3>5. slot[i].event.on = (Truth(c) \/ c \in dark)
      BY <3>2, <3>3, <3>4 DEF LogInv, LogIsKept
    <3>6. c \in dark' <=> c \in dark
      BY <1>1, <1>4, <3>1, <3>2
    <3>7. QED
      BY <1>1, <1>2, <1>3, <2>2, <2>4, <3>1, <3>5, <3>6 DEF Truth
  <2>5. QED
    BY <2>3, <2>4
<1>10. ASSUME NEW c \in Ch' \ untold', NEW i \in Used', c \in Tells(i)', slot'[i].nr \in doomed'
       PROVE  \E j \in Used' : c \in Tells(j)' /\ slot'[i].nr < slot'[j].nr /\ slot'[j].nr \notin doomed'
  <2>1. i # head /\ i \in Used /\ c \in Tells(i) /\ slot'[i] = slot[i] /\ slot[i].nr \in doomed
    <3>1. i # head
      BY <1>1, <1>2, <1>3, <1>6, <1>10
    <3>2. QED
      BY <1>1, <1>2, <1>3, <1>4, <1>10, <3>1
  <2>2. CASE c \in Tells(head)'
    BY <1>1, <1>2, <1>3, <1>4, <1>6, <2>1, <2>2
  <2>3. CASE c \notin Tells(head)'
    <3>1. c \in Ch \ untold
      BY <1>1, <1>4, <1>10, <2>3
    <3>2. PICK j \in Used : c \in Tells(j) /\ slot[i].nr < slot[j].nr /\ slot[j].nr \notin doomed
      BY <2>1, <3>1 DEF LogInv, DoomedAreRetold
    <3>3. j # head
      BY <1>5, <2>1, <3>2
    <3>4. QED
      BY <1>1, <1>2, <1>3, <1>4, <2>1, <3>2, <3>3
  <2>4. QED
    BY <2>2, <2>3
<1>11. QED
  BY <1>7, <1>9, <1>10 DEF LogInv, LogIsKept, DoomedAreRetold

(* Every other step leaves the log as true as it was, but for the channels *)
(* it gives up as untold.                                                  *)
LEMMA OthersTell ==
  ASSUME IInv, LogInv,
         \/ UNCHANGED vars \/ PowerOn \/ Bind \/ nextBootId \/ resolveProfile \/ Tick
         \/ AppendFails \/ saveHead \/ Announce \/ Save \/ FactoryReset \/ Down
         \/ \E changed \in SUBSET Ch : Operate(changed)
  PROVE  LogInv'
<1> USE DEF flash, ram, history
<1>1. LogIsKept /\ DoomedAreRetold /\ Announced
  BY DEF LogInv
<1>2. ASSUME UNCHANGED <<announcing>> PROVE Lowest' = Lowest
  BY <1>2 DEF Lowest
<1>3. CASE UNCHANGED vars
  <2>1. Announced'
    BY <1>1, <1>2, <1>3 DEF vars, Announced, Recording
  <2>2. \A c : Said(c)' = Said(c) /\ Truth(c)' = Truth(c)
    BY <1>2, <1>3 DEF vars, Said, Truth
  <2>3. QED
    BY <1>1, <1>3, <2>1, <2>2, RiskStays, LogStays DEF vars, LogInv
<1>4. CASE PowerOn \/ Bind \/ nextBootId \/ resolveProfile \/ Tick \/ FactoryReset
  <2>1. /\ UNCHANGED <<slot, profile_id, doomed, untold, dark, announcing>>
        /\ pc \in {"off", "bind", "bootid", "profile", "run"}
        /\ pc' \in {"bind", "bootid", "profile", "run", "wiped", "halt", "append"}
        /\ pc' = "append" => then' # "save" /\ event'.what # "relay"
    BY <1>4 DEF PowerOn, Bind, nextBootId, resolveProfile, Tick, FactoryReset, Log
  <2>2. \A c : Truth(c)' = Truth(c)
    BY <1>4 DEF PowerOn, Bind, nextBootId, resolveProfile, Tick, FactoryReset, Log, Truth
  <2>3. Announced'
    BY <2>1 DEF Announced, Recording
  <2>4. \A c : Said(c)' => Said(c)
    BY <2>1 DEF Said
  <2>5. QED
    BY <1>1, <2>1, <2>2, <2>3, <2>4, RiskStays, LogStays DEF LogInv
<1>5. CASE AppendFails
  <2>1. /\ pc = "append" /\ pc' = then /\ UNCHANGED <<slot, profile_id, doomed, dark, announcing, relay>>
        /\ then \in {"profile", "run", "halt", "save"}
        /\ untold' = IF event.what = "relay" THEN untold \cup {event.ch} ELSE untold
    BY <1>5 DEF AppendFails, IInv, Placed, Recording
  <2>2. Announced'
    BY <1>1, <2>1 DEF Announced, Recording
  <2>3. then = "save" => event.what = "relay" /\ event.ch = Lowest
    BY <1>1, <2>1 DEF Announced, Recording
  <2>4. \A c \in Ch \ untold' : Said(c)' => Said(c) /\ Truth(c)' = Truth(c)
    BY <1>2, <2>1, <2>3 DEF Said, Truth
  <2>5. QED
    BY <1>1, <2>1, <2>2, <2>4, RiskStays, LogStays DEF LogInv
<1>6. CASE saveHead
  <2>1. /\ pc = "settle" /\ pc' = then
        /\ UNCHANGED <<slot, profile_id, doomed, dark, announcing, relay, untold>>
        /\ then \in {"profile", "run", "halt", "save"}
    BY <1>6 DEF saveHead, IInv, Placed, Recording
  <2>2. Announced'
    BY <1>1, <2>1 DEF Announced, Recording
  <2>3. \A c \in Ch \ untold' : Said(c)' => Said(c) /\ Truth(c)' = Truth(c)
    BY <1>2, <2>1 DEF Said, Truth
  <2>4. QED
    BY <1>1, <2>1, <2>2, <2>3, RiskStays, LogStays DEF LogInv
<1>7. CASE Announce
  <2>1. /\ pc = "run" /\ announcing # {}
        /\ UNCHANGED <<slot, profile_id, doomed, dark, announcing, relay>>
        /\ IF bound
             THEN /\ pc' = "append" /\ then' = "save" /\ untold' = untold
                  /\ event' = [what |-> "relay", ch |-> Lowest, on |-> relay[Lowest]]
             ELSE pc' = "save" /\ untold' = untold \cup {Lowest}
    BY <1>7 DEF Announce, Log
  <2>2. Announced'
    BY <1>2, <2>1 DEF Announced, Recording
  <2>3. \A c \in Ch \ untold' : Said(c)' => Said(c) /\ Truth(c)' = Truth(c)
    BY <1>2, <2>1 DEF Said, Truth
  <2>4. QED
    BY <1>1, <2>1, <2>2, <2>3, RiskStays, LogStays DEF LogInv
<1>8. CASE Save
  <2>1. /\ pc = "save" /\ pc' = "run" /\ announcing' = announcing \ {Lowest}
        /\ UNCHANGED <<slot, profile_id, doomed, dark, relay, untold>>
    BY <1>8 DEF Save
  <2>2. Announced'
    BY <2>1 DEF Announced, Recording
  <2>3. \A c \in Ch \ untold' : Said(c)' => Said(c) /\ Truth(c)' = Truth(c)
    BY <2>1 DEF Said, Truth
  <2>4. QED
    BY <1>1, <2>1, <2>2, <2>3, RiskStays, LogStays DEF LogInv
<1>9. ASSUME NEW changed \in SUBSET Ch, Operate(changed) PROVE LogInv'
  <2>1. /\ pc = "run" /\ pc' = "run" /\ announcing = {} /\ announcing' = changed
        /\ UNCHANGED <<slot, profile_id, doomed, untold, dark>>
        /\ \A c \in Ch \ changed : relay'[c] = relay[c]
    BY <1>9 DEF Operate
  <2>2. Announced'
    BY <2>1 DEF Announced, Recording
  <2>3. \A c \in Ch \ untold' : Said(c)' => Said(c) /\ Truth(c)' = Truth(c)
    BY <2>1 DEF Said, Truth
  <2>4. QED
    BY <1>1, <2>1, <2>2, <2>3, RiskStays, LogStays DEF LogInv
<1>10. CASE Down
  <2>1. /\ pc # "off" /\ pc' = "off" /\ announcing' = {}
        /\ doomed' = doomed \cup unsettled
        /\ UNCHANGED <<slot, profile_id>>
        /\ untold' = untold \cup announcing \cup {c \in Ch : relay_state'[c] /\ ~relay[c]}
                       \cup UNION {Tells(i) : i \in {j \in Used : slot[j].nr \in unsettled}}
        /\ dark' = dark \cup {c \in Ch : relay[c] /\ ~relay_state'[c]}
    BY <1>10 DEF Down
  <2>2. Announced'
    BY <2>1 DEF Announced, Recording
  <2>3. ASSUME NEW c \in Ch \ untold'
        PROVE  Said(c) /\ (Truth(c) \/ c \in dark)' = (Truth(c) \/ c \in dark)
    <3>1. c \notin announcing /\ (relay_state'[c] => relay[c])
      BY <2>1, <2>3
    <3>2. c \in dark' <=> c \in dark \/ (relay[c] /\ ~relay_state'[c])
      BY <2>1, <2>3
    <3>3. QED
      BY <2>1, <3>1, <3>2 DEF Said, Truth
  <2>4. Ch' = Ch /\ \A c \in Ch \ untold' : Said(c) /\ (Truth(c) \/ c \in dark)' = (Truth(c) \/ c \in dark)
    BY <2>1, <2>3, RecordsStay
  <2>5. LogIsKept'
    BY <1>1, <2>1, <2>4, LogStays
  <2>6. DoomedAreRetold'
    <3> SUFFICES ASSUME NEW c \in Ch \ untold', NEW i \in Used, c \in Tells(i), slot[i].nr \in doomed'
                 PROVE  \E j \in Used : c \in Tells(j) /\ slot[i].nr < slot[j].nr
                                        /\ slot[j].nr \notin doomed'
      BY <2>1, RecordsStay DEF DoomedAreRetold
    <3>1. c \notin untold /\ \A j \in Used : slot[j].nr \in unsettled => c \notin Tells(j)
      BY <2>1
    <3>2. slot[i].nr \in doomed
      BY <2>1, <3>1
    <3>3. PICK j \in Used : c \in Tells(j) /\ slot[i].nr < slot[j].nr /\ slot[j].nr \notin doomed
      BY <1>1, <3>1, <3>2 DEF DoomedAreRetold
    <3>4. QED
      BY <2>1, <3>1, <3>3
  <2>7. QED
    BY <2>2, <2>5, <2>6 DEF LogInv
<1>11. QED
  BY <1>3, <1>4, <1>5, <1>6, <1>7, <1>8, <1>9, <1>10

(* The newest record about a relay says On when the relay is on, or was on *)
(* and came back off because the record that would have restored it was    *)
(* erased by a factory reset, torn or never saved; unless a write failed   *)
(* or power went in the middle of an announcement                          *)
(* (composition_root.h:181-191, 302-306, 417-427).                         *)
THEOREM LogIsTrue == Spec => []LogTellsRelay
<1>1. IInv /\ RingInOrder /\ LogInv /\ [Next]_vars => LogInv'
  BY AppendTells, OthersTell DEF Next
<1>2. LogInv => LogTellsRelay
  BY DEF LogInv, LogIsKept, LogTellsRelay, Said, Truth
<1>3. QED
  BY <1>1, <1>2, InitIsLogged, Inductive, RingIsInOrder, PTL DEF Spec
==============================================================================
