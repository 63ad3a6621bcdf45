------------------------------- MODULE EventLog -------------------------------
(***************************************************************************)
(* The event log: Logger (log/logger.h) over the ring of slots in flash    *)
(* (log/log_impl.h), from the boot sequence that opens it                  *)
(* (composition_root.h:115-212) to the relay changes the fan-out sends to  *)
(* it ahead of the listener that saves the relays' state.                  *)
(*                                                                         *)
(* A record takes two writes, the slot and then the key that says which    *)
(* slot is next.  Power may go between any two writes, and a write may     *)
(* fail.  What a record says is the session (boot_id, uptime_ms) and what  *)
(* happened; the UTC clock is left out, since nothing reports its first    *)
(* synchronization to the Logger.                                          *)
(***************************************************************************)
EXTENDS DeviceProfiles, Integers

CONSTANTS
  RingSlots,     (* kRingSlots                                             *)
  BootIds,       (* how many boot ids there are: 2^16                      *)
  Uptimes,       (* how many values uptime_ms takes: 2^32                  *)
  ProfileBytes,  (* what KVS may hold under profile_id                     *)
  MaxEvents,     (* bound: events in a behaviour                           *)
  MaxFaults      (* bound: writes that fail                                *)

ASSUME RingAssumption   == RingSlots \in Nat \ {0}
ASSUME WidthAssumption  == BootIds \in Nat \ {0} /\ Uptimes \in Nat \ {0}
ASSUME ProfileAssumption == ProfileBytes \subseteq 0 .. 255
ASSUME BoundAssumption  == MaxEvents \in Nat /\ MaxFaults \in Nat

VARIABLES
  profile_id,                 (* KVS: the profile byte                     *)
  slot, loghead, boot_id,     (* flash: the ring, its next slot, the boots *)
  relay_state,                (* KVS: the relays as saved                  *)
  pc, event, then,            (* where begin() or the Control task stands  *)
  bound, head, bootId, uptime,(* ready_, head_, bootId_, millis()          *)
  relay, announcing,          (* the relays; the changes still to announce *)
  faults,                     (* bound: writes that have failed            *)
  last, unsettled, doomed,    (* history: see EventJournal                 *)
  keysOk,                     (* history: boot id and uptime never repeat  *)
  untold,                     (* history: channels the log is wrong about  *)
  dark                        (* history: channels that were on, and that a
                                 boot without a record left off            *)

flash   == <<profile_id, slot, loghead, boot_id, relay_state>>
ram     == <<pc, event, then, bound, head, bootId, uptime, relay, announcing>>
history == <<last, unsettled, doomed, keysOk, untold, dark>>
vars    == <<flash, ram, faults, history>>

Slots    == 0 .. RingSlots - 1
Empty    == [nr |-> 0]
profile  == resolveRaw(profile_id)
Ch       == Channels(profile)
AllOff   == [c \in Ch |-> FALSE]
NoEvent  == [what |-> "none"]
Used     == {i \in Slots : slot[i] # Empty}

Init ==
  /\ profile_id \in ProfileBytes
  /\ slot = [i \in Slots |-> Empty] /\ loghead = 0 /\ boot_id = 0
  /\ relay_state = AllOff
  /\ pc = "off" /\ event = NoEvent /\ then = "off"
  /\ bound = FALSE /\ head = 0 /\ bootId = 0 /\ uptime = 0
  /\ relay = AllOff /\ announcing = {}
  /\ faults = 0
  /\ last = 0 /\ unsettled = {} /\ doomed = {} /\ keysOk = TRUE /\ untold = {}
  /\ dark = {}

WriteFails == faults < MaxFaults /\ faults' = faults + 1

----------------------------------------------------------------------------
(* Boot.                                                                   *)

(* The head is read back, and the relays are as they were saved.           *)
PowerOnAtSlotZero ==
  /\ pc = "off"
  /\ pc' = "bind"
  /\ head' = 0 /\ uptime' = 0
  /\ relay' = relay_state
  /\ UNCHANGED <<flash, event, then, bound, bootId, announcing, faults, history>>

PowerOn ==
  /\ pc = "off"
  /\ pc' = "bind"
  /\ head' = loghead /\ uptime' = 0
  /\ relay' = relay_state
  /\ UNCHANGED <<flash, event, then, bound, bootId, announcing, faults, history>>

(* A log that does not bind leaves the device without one.                 *)
Bind ==
  /\ pc = "bind"
  /\ \/ bound' = TRUE /\ pc' = "bootid" /\ UNCHANGED faults
     \/ bound' = FALSE /\ pc' = "profile" /\ WriteFails
  /\ UNCHANGED <<flash, event, then, head, bootId, uptime, relay, announcing, history>>

Log(e, next) == pc' = "append" /\ event' = e /\ then' = next

nextBootIdInRamOnly ==
  /\ pc = "bootid"
  /\ bootId' = (boot_id + 1) % BootIds
  /\ keysOk' = (keysOk /\ bootId' # 0)
  /\ UNCHANGED <<boot_id, faults>>
  /\ Log([what |-> "Boot"], "profile")
  /\ UNCHANGED <<profile_id, slot, loghead, relay_state, bound, head, uptime, relay,
                 announcing, last, unsettled, doomed, untold, dark>>

nextBootId ==
  /\ pc = "bootid"
  /\ bootId' = (boot_id + 1) % BootIds
  /\ \/ boot_id' = bootId' /\ keysOk' = (keysOk /\ bootId' # 0) /\ UNCHANGED faults
     \/ boot_id' = boot_id /\ keysOk' = FALSE /\ WriteFails
  /\ Log([what |-> "Boot"], "profile")
  /\ UNCHANGED <<profile_id, slot, loghead, relay_state, bound, head, uptime, relay,
                 announcing, last, unsettled, doomed, untold, dark>>

(* Without a known profile the device logs the fault and halts.            *)
resolveProfile ==
  LET known == profile # NoProfile
      next  == IF known THEN "run" ELSE "halt"
  IN  /\ pc = "profile"
      /\ IF bound
           THEN Log([what |-> IF known THEN "ProfileLoaded" ELSE "FlashError"], next)
           ELSE pc' = next /\ UNCHANGED <<event, then>>
      /\ UNCHANGED <<flash, bound, head, bootId, uptime, relay, announcing, faults, history>>

----------------------------------------------------------------------------
(* Logger::log, one write at a time.                                       *)

(* What the record in slot i said goes with the slot.                      *)
Tells(i) == {c \in Ch : slot[i] # Empty /\ slot[i].event.what = "relay" /\ slot[i].event.ch = c}

AppendRecord ==
  LET r == [nr |-> last + 1, boot |-> bootId, up |-> uptime, event |-> event] IN
  /\ pc = "append" /\ last < MaxEvents
  /\ slot' = [slot EXCEPT ![head] = r]
  /\ pc' = "settle"
  /\ last' = last + 1
  /\ unsettled' = (unsettled \ {slot[head].nr}) \cup {last'}
  /\ doomed' = doomed \ {slot[head].nr}
  /\ untold' = IF event.what = "relay" THEN untold \ {event.ch} ELSE untold
  /\ dark'   = IF event.what = "relay" THEN dark \ {event.ch} ELSE dark
  /\ UNCHANGED <<profile_id, loghead, boot_id, relay_state, event, then, bound, head, bootId,
                 uptime, relay, announcing, faults, keysOk>>

AppendFails ==
  /\ pc = "append"
  /\ WriteFails
  /\ pc' = then
  /\ event' = NoEvent
  /\ untold' = IF event.what = "relay" THEN untold \cup {event.ch} ELSE untold
  /\ UNCHANGED <<flash, then, bound, head, bootId, uptime, relay, announcing, last, unsettled,
                 doomed, keysOk, dark>>

(* head_ moves on, whether or not it can be saved.                         *)
saveHeadUnwrapped ==
  /\ pc = "settle"
  /\ head' = head + 1
  /\ loghead' = head' /\ unsettled' = {}
  /\ pc' = then /\ event' = NoEvent
  /\ UNCHANGED <<profile_id, slot, boot_id, relay_state, then, bound, bootId, uptime, relay,
                 announcing, faults, last, doomed, keysOk, untold, dark>>

saveHeadUnsaved ==
  /\ pc = "settle"
  /\ head' = (head + 1) % RingSlots
  /\ pc' = then /\ event' = NoEvent
  /\ UNCHANGED <<flash, then, bound, bootId, uptime, relay, announcing, faults, history>>

saveHead ==
  /\ pc = "settle"
  /\ head' = (head + 1) % RingSlots
  /\ \/ loghead' = head' /\ unsettled' = {} /\ UNCHANGED faults
     \/ WriteFails /\ UNCHANGED <<loghead, unsettled>>
  /\ pc' = then /\ event' = NoEvent
  /\ UNCHANGED <<profile_id, slot, boot_id, relay_state, then, bound, bootId, uptime, relay,
                 announcing, last, doomed, keysOk, untold, dark>>

----------------------------------------------------------------------------
(* The Control task.                                                       *)

(* A command or a touch: one channel, or all of them, take a new state.    *)
Operate(changed) ==
  /\ pc = "run" /\ announcing = {}
  /\ changed # {}
  /\ \/ \E c \in Ch : changed = {c}
     \/ \E on \in BOOLEAN : changed = {c \in Ch : relay[c] # on}
  /\ relay' = [c \in Ch |-> IF c \in changed THEN ~relay[c] ELSE relay[c]]
  /\ announcing' = changed
  /\ UNCHANGED <<flash, pc, event, then, bound, head, bootId, uptime, faults, history>>

(* Each change is announced to the log first ...                           *)
Lowest == CHOOSE c \in announcing : \A d \in announcing : c <= d

AnnounceStale ==
  /\ pc = "run" /\ announcing # {}
  /\ Log([what |-> "relay", ch |-> Lowest, on |-> relay_state[Lowest]], "save")
  /\ UNCHANGED <<flash, bound, head, bootId, uptime, relay, announcing, faults, history>>

Announce ==
  /\ pc = "run" /\ announcing # {}
  /\ IF bound
       THEN Log([what |-> "relay", ch |-> Lowest, on |-> relay[Lowest]], "save")
            /\ UNCHANGED untold
       ELSE /\ pc' = "save"
            /\ untold' = untold \cup {Lowest}
            /\ UNCHANGED <<event, then>>
  /\ UNCHANGED <<flash, bound, head, bootId, uptime, relay, announcing, faults, last, unsettled,
                 doomed, keysOk, dark>>

(* ... and then saved, with the state of all the relays.                   *)
Save ==
  /\ pc = "save"
  /\ \/ relay_state' = relay /\ UNCHANGED faults
     \/ WriteFails /\ UNCHANGED relay_state
  /\ announcing' = announcing \ {Lowest}
  /\ pc' = "run"
  /\ UNCHANGED <<profile_id, slot, loghead, boot_id, event, then, bound, head, bootId, uptime,
                 relay, history>>

----------------------------------------------------------------------------
(* millis() goes on, and starts again at 0 after 49.7 days.  The records   *)
(* of one operation are taken to carry one time.                           *)
Tick ==
  /\ pc = "run"
  /\ uptime' = (uptime + 1) % Uptimes
  /\ keysOk' = (keysOk /\ uptime' # 0)
  /\ UNCHANGED <<flash, pc, event, then, bound, head, bootId, relay, announcing, faults, last,
                 unsettled, doomed, untold, dark>>

(* The factory reset at the end of a cycle erases the relays' record too,  *)
(* with the relays as they are.  There is nothing left to do but reboot.   *)
FactoryReset ==
  /\ pc = "run" /\ announcing = {}
  /\ \/ relay_state' = AllOff /\ UNCHANGED faults
     \/ WriteFails /\ UNCHANGED relay_state
  /\ pc' = "wiped"
  /\ UNCHANGED <<profile_id, slot, loghead, boot_id, event, then, bound, head, bootId, uptime,
                 relay, announcing, history>>

(* The mains, or a reboot.  What has not settled may be overwritten, and   *)
(* the relays come back as they were saved: all off, if the record is gone *)
(* or was torn while it was being written.                                 *)
Down ==
  /\ pc # "off"
  /\ last < MaxEvents
  /\ relay_state' \in IF pc = "save" THEN {relay_state, AllOff} ELSE {relay_state}
  /\ pc' = "off" /\ event' = NoEvent /\ then' = "off"
  /\ bound' = FALSE /\ head' = 0 /\ bootId' = 0 /\ uptime' = 0
  /\ relay' = AllOff /\ announcing' = {}
  /\ doomed' = doomed \cup unsettled /\ unsettled' = {}
  /\ untold' = untold \cup announcing \cup {c \in Ch : relay_state'[c] /\ ~relay[c]}
                \cup UNION {Tells(i) : i \in {j \in Used : slot[j].nr \in unsettled}}
  /\ dark' = dark \cup {c \in Ch : relay[c] /\ ~relay_state'[c]}
  /\ UNCHANGED <<profile_id, slot, loghead, boot_id, faults, last, keysOk>>

Next ==
  \/ PowerOn \/ Bind \/ nextBootId \/ resolveProfile
  \/ AppendRecord \/ AppendFails \/ saveHead
  \/ \E changed \in SUBSET Ch : Operate(changed)
  \/ Announce \/ Save \/ Tick \/ FactoryReset \/ Down

Spec == Init /\ [][Next]_vars

----------------------------------------------------------------------------
(* Type invariant.                                                         *)
Record(r) ==
  /\ r.nr \in 1 .. MaxEvents /\ r.boot \in 0 .. BootIds - 1 /\ r.up \in 0 .. Uptimes - 1
  /\ r.event.what \in {"Boot", "ProfileLoaded", "FlashError", "relay"}

TypeOK ==
  /\ profile_id \in ProfileBytes
  /\ \A i \in Slots : slot[i] = Empty \/ Record(slot[i])
  /\ loghead \in Slots /\ head \in Slots
  /\ boot_id \in 0 .. BootIds - 1 /\ bootId \in 0 .. BootIds - 1 /\ uptime \in 0 .. Uptimes - 1
  /\ relay_state \in [Ch -> BOOLEAN] /\ relay \in [Ch -> BOOLEAN]
  /\ announcing \subseteq Ch /\ untold \subseteq Ch /\ dark \subseteq Ch
  /\ pc \in {"off", "bind", "bootid", "profile", "append", "settle", "run", "save", "wiped",
            "halt"}

(* Whatever is cut short or fails, the ring is the journal EventJournal    *)
(* describes: a new record takes the place of the oldest, except for those *)
(* a restart has put at risk (log_impl.h:10-17, 49-59).                    *)
Journal == INSTANCE EventJournal
  WITH Size <- RingSlots, journal <- {slot[i].nr : i \in Used}
JournalSpec == Journal!Spec

(* So long as the head can be saved, a power cut puts at most one record   *)
(* at risk, and it is the newest one of its session: everything older is   *)
(* safe until the ring comes round to it (log_impl.h:55-57).               *)
OnlyNewestAtRisk ==
  faults = 0 =>
    /\ \A e, f \in unsettled \cup doomed : e = f
    /\ \A e \in unsettled \cup doomed : e = last

(* Sorting the log by boot id and uptime, as its reader is told to         *)
(* (log_types.h:58-59), is sorting it by what happened first, unless a     *)
(* boot counter was not saved, the counter came round, or a session        *)
(* outlived its 32 bits of milliseconds.                                   *)
Before(r, s) == r.boot < s.boot \/ (r.boot = s.boot /\ r.up <= s.up)
KeysOrderEvents ==
  keysOk => \A i, j \in Used : slot[i].nr < slot[j].nr => Before(slot[i], slot[j])

(* The newest record about a relay says On when the relay is on, and also  *)
(* when it was on and came back off because the record that would have     *)
(* restored it was erased by a factory reset, torn or never saved: of that *)
(* the log hears nothing (composition_root.h:181-191, 302-306, 417-427).   *)
(* Only where a write failed, or power went in the middle of an            *)
(* announcement, may it say anything else.                                 *)
Newest(c) == {i \in Used : c \in Tells(i) /\ \A j \in Used : c \in Tells(j) => slot[j].nr <= slot[i].nr}
LogTellsRelay ==
  pc = "run" => \A c \in Ch \ (untold \cup announcing) :
                  \A i \in Newest(c) : slot[i].event.on = (relay[c] \/ c \in dark)
==============================================================================
