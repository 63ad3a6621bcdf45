# LibreSwitch in TLA+

A verification development for LibreSwitch, the firmware of a touch-operated
wall switch with Wi-Fi, MQTT and over-the-air updates. The modules are written
from the code under `src/src/` (header-only C++ with ports and adapters;
`main.cpp` binds it to LibreTiny and FreeRTOS). TLC checks them on small
instances, and TLAPS proves the safety properties of the passing runs, and the
refinements, for every value of the constants.

Contents: [the system](#1-the-system), [components](#2-components),
[modules](#3-the-modules-and-the-code), [runs](#4-runs),
[fairness](#5-fairness), [proofs](#6-proofs),
[disagreements](#7-where-code-and-words-disagree),
[not modelled](#8-not-modelled-and-why), [plan](#9-plan).


## 1. The system

Two FreeRTOS tasks share one core.

| task    | priority | period | body (`app/composition_root.h`)                                                                                                                             |
|---------|----------|--------|-------------------------------------------------------------------------------------------------------------------------------------------------------------|
| Control | 5        | 10 ms  | `controlTick`: drain at most `kCommandQueueDepth` commands, scan the pads, tick the indicator, note local-control health, consume a reset request             |
| Net     | 2        | 50 ms  | `netTick`: `prov_.begin` once, `prov_.tick`, return unless Operational, MQTT tick, health evaluation                                                          |

Control preempts Net anywhere; Net runs while Control sleeps. They meet in
five places:

* **the command queue** (`SyncQueue`, Net pushes, Control pops, guarded);
* **the publish queue** (`BoundedQueue` in `MqttService`, Control pushes from
  inside the state-change fan-out, Net pops, *not* guarded);
* **the key-value store** (both tasks, no lock in this code);
* **factory reset** (Control erases the keys Net may be writing);
* **the indicator** (Net sets the status, Control ticks it and reports progress
  of the reset gesture to it, *not* guarded).

A relay changes in one way only. A touch or a command reaches
`ControlCoordinator`, which drives `RelayController` and then announces each
channel that really changed to the fan-out: first the listener that writes the
event log, then the one that reports on the serial line, then the one that saves
the relay record, and last the one that queues the news for MQTT. `begin()`
restores the relays from the saved record before any listener is bound, so a
restored state is announced to nobody.

MQTT is brought up at boot, from a stored identity that must be complete: a
device that has just enrolled starts it at its next boot, and one whose
enrollment answer had no `device_id` (an optional field) does not start it at
all.


## 2. Components

State, operations, what is hard, and what makes each one correct. The
hazards, each at its line and with the properties that cover it, are in
`PROJECT.json`.

**Bounded queue** (`platform/bounded_queue.h`). State: storage, head, tail,
count. Operations: push that rejects, push that evicts the oldest, pop. Hard:
indices at the wrap and on a full ring. Correct: it is a bounded FIFO.

**Synchronized queue, critical section** (`platform/sync_queue.h`,
`critical_section.h`). Each call under the guard is atomic. Hard: the queue
that is used without it.

**Control plane** (`app/control_loop.h`, `domain/control_coordinator.h`,
`relay_controller.h`, command and touch ports). State: logical relays, pins,
command queue, reset request. Operations: SetChannel, ToggleChannel, SetAll,
press, drain. Hard: queue pressure against touch; one operation that changes
several channels, announced and saved one by one; reset requested in the
middle. Correct: pins follow the logical state, local control is never
starved, a reset happens.

**Relay persistence and boot policy** (`app/persisting_state_listener.h`,
`ports/state_persistence_port.h`,
`adapters/flashdb_state_persistence.h`, `domain/boot_policy.h`). State: the `relay_state`
record. Hard: power cuts between two saves or in one, failing flash. Correct:
a boot restores what the relays were, or all off.

**Touch engine** (`domain/touch_input.h`). State per pad: stable level,
candidate, since, longFired; of the gesture: baseline, active, fired, start.
Hard: bounce, stuck pads, broken holds. Correct: a press is debounced and
comes once; the gesture needs a whole hold from a released baseline and fires
once.

**MQTT service** (`net/mqtt_service.h`, `reconnect_backoff.h`). State: publish
queue, connection, backoff; at the broker the retained states, the online flag
and the last will. Operations: connect and greet, loop with its inbound
routing, publish, yield for an update. Hard: callbacks inside `loop()`, dead
sessions, overflow of either queue, restarts, a will that is never published.
Correct: the broker's retained state follows the relays in order; the online
flag is true; commands take effect; the service comes back after an outage.

**Provisioning and enrollment** (`net/provisioning_service.h`,
`provisioning_impl.h`). State: the state machine, radio mode, credentials
under test, the stored keys. Hard: several writes that belong together, AP and
STA that exclude each other, answers cut short, failure after the portal is
gone, reset during enrollment. Correct: never both radio modes, nothing untested
or half stored, MQTT boots with one whole identity, always a way in.

**OTA service and health confirmation** (`net/ota_service.h`, `ota_impl.h`,
`ota_health_confirm.h`, `composition_root.h`). State: staging slot,
`ota_pending`, the trial's criteria and window. Hard: power cuts between the
steps, a trial that cannot end, updates during a trial, numbers that wrap.
Correct: only verified images made for this hardware run, an unproven image is
on trial, trials end.

**Event log** (`log/`). State: 2048 slots in flash, the saved head, the boot
counter. Operations: bind, next boot id, append. Hard: a record and the head are
two writes; counters come round or fail to be saved; a change is logged before
it is saved, and what a boot restores, or a factory reset turns off, is not logged
at all. Correct: only the newest record is at risk, the keys order the records,
what the log says of a relay is so, or was until the relay's own record was lost.

**Indicator** (`domain/indicator_controller.h`). State: status, start of the
blink phase, what the LED was told, reset progress. Operations: `setStatus`,
`tick`, `setResetProgress`. Hard: `setStatus` is preempted by the ticks of the
same fields; the status comes from two looks at the connection. Correct: the LED
shows the pattern of the state, and the state is that of the device.

**Codecs** (`net/ota_manifest.h`, `enrollment_response.h`, `mqtt_topics.h`,
`mqtt_payload.h`). Pure. Hard: conversions that lose width, input that
is cut short. They are modelled where their results are used, in `OtaUpdate`,
`Provisioning` and `MqttService`.

**Device profiles** (`profiles/`). A constant table, the look-up of the stored
byte and the compatibility match. Correct: an unknown byte is a fault, pins are
not used twice.

**Composition root** (`app/composition_root.h`). The two tick bodies, boot,
factory reset, manifest and command handling. Its pieces are in the modules of
the components they drive.

**Platform bindings** (`adapters/`, `platform/*_flashdb.h`, `main.cpp`): see
section 8.


## 3. The modules and the code

| module              | models                                                          | EXTENDS / INSTANCE                        |
|---------------------|-----------------------------------------------------------------|-------------------------------------------|
| `FifoQueue`         | what a bounded queue promises (abstract)                        |                                           |
| `BoundedQueue`      | the ring                                                        | implements `FifoQueue`                    |
| `PublishQueueRace`  | the ring's fields, load by load and store by store, two tasks   |                                           |
| `WallSwitch`        | what the control plane promises (abstract)                      |                                           |
| `ControlPlane`      | Control task, coordinator, relays, relay record, boot, reset    | implements `WallSwitch`                   |
| `TouchInput`        | debounce, long press, gesture, under a scan                     |                                           |
| `MqttService`       | MQTT tick, backoff, both queues, routing, broker                |                                           |
| `Commissioning`     | what provisioning promises (abstract)                           |                                           |
| `Provisioning`      | credential test, enrollment, key-value store, reset, MQTT's boot | implements `Commissioning`                |
| `DeviceProfiles`    | the table of hardware variants and what is looked up in it      |                                           |
| `SafeUpdate`        | what updates promise (abstract)                                 |                                           |
| `OtaUpdate`         | manifest, apply, boot loader, trial, rollback                   | extends `DeviceProfiles`, implements `SafeUpdate` |
| `EventJournal`      | what the event log promises (abstract)                          |                                           |
| `EventLog`          | ring of slots, head, boot counter; boot and relay announcements | extends `DeviceProfiles`, implements `EventJournal` |
| `Indicator`         | status LED under both tasks                                     |                                           |
| `*_proofs`          | theorems about the module they are named after                  | the module and TLAPS                      |
| `MC*`               | values for constants a cfg cannot write                         | the module                                |

The modules follow the code's names where TLA+ allows. `map` in
`PROJECT.json` gives the lines of each definition. A definition such as
`PushEvictingHeadKept` or `OperateSkipsLastPin`, which stands before the one it
resembles and which nothing uses, is a wrong version of it: it has a bug a
programmer could have written there, and with it in place the property named for
it under `mutants` fails.

### BoundedQueue and FifoQueue

`buf`, `head`, `tail` and `count` are the fields. The overflow policy, a template
parameter, is chosen in `Init`, so that one module serves every instance. `answer`
is what the last call returned. A slot never written holds `Nothing`. `Contents`
reads the ring from `head` for `count` slots: that is the refinement mapping onto
`FifoQueue`, in which a queue is a sequence.

### ControlPlane and WallSwitch

`pc` is where the Control task stands, before it `setup()`. A step is a piece of
the task that nothing can interrupt in a way anybody could tell: one command
or one polled channel with all the relays it drives (`Operate`), then each
announcement (`Announce`), whose flash write is where power may fail or Net
may run. `PowerCut` during an announcement may lose the record (its magic,
version and CRC then fail, which is the record's `valid`); `Announce` and
`Wipe` may fail if `FlashMayFail`. What a poll yields is arbitrary: nothing, a
press, the completed gesture, or a press and the gesture together when there
is a third pad. `TouchInput` says which of these the engine really yields.

`WallSwitch` has `lamp`, `memory`, `power` and `trusted` (the last save
worked). It may operate when what it remembers is what it shows; before the
next operation the memory has caught up with the lamp; losing power keeps the
memory from before or after the operation in progress, or loses it, in which
case the lamp comes back dark.

### TouchInput

A scan polls the pads in order at one reading of the clock, and every poll may
read either level. Timestamps are ages, counted up to `Cap`, past which the
code's comparisons no longer distinguish them. `DebouncePad` has one disjunct
per way out of `debounce()`, `UpdateResetGesture` one per way through
`updateResetGesture()`. The variables marked *history* record what the pads
really did and take no part in the behaviour.

### MqttService

`relay[ch]` counts the channel's changes (odd is On), so that "latest" and
"earlier" mean something. An operation changes all its channels at once
(`Touch`, `Obey`) and then `Announce`s them lowest first, as the coordinator
does; the next one waits for that (`news`). `BeginConnected`, `Loop`,
`LoopYields`, the routing of commands, `DrainOne` and `DrainDone` are the
connected half of `tick()`; `BackOff`, `Connect`, `ConnectFails` and `Greet`
(online:true and the subscription, neither checked) the other half. The Control
task's steps may come between any two. Routing keeps of a topic's channel number
what a `ChannelId` holds, and drops what the command queue refuses.

`session` is the broker's view of a connection and `connected` the client's;
they may disagree until the client finds out. `will` is the last will the broker
still holds: it publishes it some time after the session died (`WillPublished`)
or when a new one takes its place, and forgets it when the device disconnects
itself, which `LoopYields` does for an update that is then refused or fails. A
publication is QoS 0. `Restart` loses RAM, both queues with it, and may bring
back one change that was saved and never queued. The histories: `missing`, this
channel's latest change was thrown away; `wish`, what the cloud asked last, until
somebody touches the switch; `aliased`, a channel number was cut; `yielded`, the
device ended the last session.

### Provisioning and Commissioning

`npc` is where the Net task stands in `begin`/`tick`; `todo` holds the writes
`persistCreds` or `store` has still to make and `wipe` the keys `factoryReset`
has still to erase, one step per key. `build` chooses between `HttpEnrollment`
and `KvsDevEnrollment`. A value is the network it belongs to (credentials) or
the number of the enrollment it came from (identity), which is what "mixed" and
"half" mean. An answer may lack `device_id`, and one cut short in its last field
is as good as a whole one to the parser: the key then stored is `Cut`. `PowerOn`
is the next boot's `bringUpMqtt`, and `mqtt` what it has loaded. `air` is the
networks in reach. A single-key write is atomic, which FlashDB promises.

`Commissioning` has the phase the device is in, the one network and the one
identity it remembers, whether that identity has a name, and the identity MQTT
was switched on with. The mapping shows what several writes come to: a group of
keys is remembered with the last of its writes (`Remembered`) and all of it is
forgotten when a reset begins. From the first fault (`void`, `faults > 0`) on
nothing is promised: `ProvisioningHalfIdentity.cfg` shows why.

### OtaUpdate, SafeUpdate and DeviceProfiles

`pc` follows `OtaService::apply` (`download`, `verify`, `commit`, `mark`,
`reboot`) and the health half of `netTick` (`health`, `rollback`). A `Manifest`
has the fields as they are written; `parseU32` keeps of a number what 32 bits
hold, `valid` is the parser's verdict and `precheck` the service's, which matches
the hardware against `DeviceProfiles`. `OriginOf` says what was really offered:
an image that `fits`, a `foreign` one, or one whose numbers are too `wide` for
anybody to tell.

`slot` is the staging slot; after a boot into a finished image it holds the
image that was replaced. The boot loader is external, as the comments of
`ota_ports.h` and `ota_impl.h` describe it. `Image.accepted` is a history: this
image met all the criteria once. `mishap` names, in one variable, what the code
has no answer to: power lost between `finish()` and the flag or between the
flag's erasure and the rollback, a factory reset or an accepted update during a
trial, a flag that could not be written, no image to roll back to. The two
safety properties and the refinement hold outside of these, and each of them is a hazard
in `PROJECT.json` at its line.

`SafeUpdate` has three images: the one that runs, the one the next start is into,
and the one kept to go back to. One staging slot serves for the last two in turn:
finished and past the verdict (`Waiting`) it is the next image, after the boot it
is the way back.

### EventLog and EventJournal

`pc` runs through `begin()` (`bind`, `bootid`, `profile`) and, for each record,
through the two writes of `append`: the slot (`AppendRecord`) and the head
(`saveHead`), either of which may fail. `then` is where to go on afterwards. An
unknown profile byte is logged and halts the boot. `Operate`, `Announce` and
`Save` are the fan-out as far as the log sees it: the record of a change first,
the relay record after it. `FactoryReset` erases the relay record while the relays
are as they are, and only a reboot follows; `Down` is that reboot, or the mains, and
one that comes in the middle of a `Save` may leave a torn record, which the next
boot takes for none. The histories count the records (`last`, and each record's
`nr`), and note whether the keys could be told apart so far (`keysOk`), which
channels were on and came back off (`dark`), and about which the log may say
anything because a write failed or power went in the middle of an announcement
(`untold`).

`LogTellsRelay` is an exact account of every other channel: the newest record says
On if and only if the relay is on or is `dark`. The log is not told what a boot
restores nor what a reset erases, so this is as much as it can be.

`EventJournal` is a set of numbered events, of which the oldest gives way to the
newest. An event is `unsettled` until its place is, and a restart makes what is
unsettled `doomed`: the next event takes its place. The ring refines it by the
numbers in its slots.

### Indicator

The Control task's cycle is one step, a scan and a tick. The scan finds the pair of
pads apart (`PairApart`), just held (`PairFoundHeld`) or still held
(`PairStaysHeld`), as `updateResetGesture` has it: `hold` is the age of the hold and
`since` that of its last report, which is made every `ProgressEvery`. The gesture
fires in the first scan at which `hold` has come to `Total`, whether or not that
scan reports, and its cycle ends in the `Reboot`. `setStatus` on
the Net task is a test and then its three stores in *any* order (`Store`), since
the fields are plain and nothing orders them; up to `MaxPreempt` cycles come in
between. `ledOn` is what the code believes of the LED and `pin` what it does:
`driveLed` writes only when the two should differ, so losing one store to a
preemption is what could leave them apart. Time is the age of the blink phase
modulo `Round`. `npc`, `wifi`, `mqtt` and `link` are as much of `netTick` as sets
the status: the first call, the transition to Operational, and the two samples
of `connected()` around the MQTT tick. The histories: `shown`, a tick has found
`setStatus` finished; `overridden`, the reset gesture set the status last;
`quietly`, the session was lost where neither sample looks.


## 4. Runs

Passing runs:

| run             | instance                                                                                           | distinct states | shows                                                                                                                                     |
|-----------------|----------------------------------------------------------------------------------------------------|-----------------|-------------------------------------------------------------------------------------------------------------------------------------------|
| `bounded_queue` | capacity 3, 2 items                                                                                | 208             | the ring implements `FifoQueue` (`FifoSpec`)                                                                                              |
| `control_plane` | 2 channels, queue of 2, 5 commands (one for a channel that is not there), failing flash              | 117,452         | `PowerCutIsAtomic`, `FactoryResetForgets`, `TouchNotStarved`, `ResetHappens`; implements `WallSwitch` (`SwitchSpec`)                        |
| `touch_input`   | 2 pads, debounce 2, long press 4, hold 6, progress 2, settle 4, scans 1 or 2 apart                   | 26,480          | `PressIsDebounced`, `GestureIsFullHold`, `StuckPairNeverResets`, `NothingTwice`, `HoldCompletes`                                            |
| `mqtt_service`  | 2 channels, 3 channel ids, topics numbered 0 and 3, queue of 2, command queue of 2, delays 1 and 2 with 50 % jitter, 2 changes per channel | 1,344,402 | `RetainedIsLatest`, `RetainedNeverGoesBack`, `OnlineIsTrue`, `CloudIsObeyed`, `CatchesUp`                            |
| `provisioning`  | 2 networks, 1 fault, 2 identities, both builds                                                      | 191,028         | `ApNeverWithSta`, `FlashIsWhole`, `ResetForgets`, `WayIn`; implements `Commissioning` (`IsCommissioning`)                                 |
| `ota_update`    | 2 versions, a health window of 2, words of 8 values, a slot of 3 bytes, channel counts 1, 2 and 10, sizes 0, 3, 4 and 9 | 391,632 | `OnlyVerifiedRuns`, `UnprovenIsOnTrial`, `TrialEndsOnWifi`; implements `SafeUpdate` (`UpdateIsSafe`)                      |
| `event_log`     | 3 slots, 3 boot ids, 2 uptimes, a good and an unknown profile byte, 5 events, 1 failing write        | 1,791,326       | `OnlyNewestAtRisk`, `KeysOrderEvents`, `LogTellsRelay`; implements `EventJournal` (`JournalSpec`)                                           |
| `indicator`     | periods 30, 10 and 60, reset feedback 25 to 5 over a hold of 4 reported every 2, ticks 1 or 2 apart, 1 preemption | 108,273 | `LedShowsPattern`, `StatusIsTrue`, `BlinkGoesOn`                                                                                           |

Each also checks its module's `TypeOK`. The remaining runs look for a
violation and find it: section 7.

Why these bounds are enough:

* *Capacity 3*: the ring wraps at every position, is empty, part full and full,
  and has more slots than items, so that the order of items shows. The proof
  covers every other capacity.
* *Two channels, a queue of two*: a SetAll has a channel already announced and
  one still to come, the queue fills and refuses, a drain ends on its budget
  with a command left. A third channel adds the poll that presses and completes
  the gesture at once (`PollPressed`); TLC does not reach that at two, the
  proof covers it.
* *Touch times*: each threshold is at least two short scans away, and gaps of 1 and
  2 mix freely, so that each is approached, met exactly and overshot. Debounce,
  long press and hold differ, in the order of the real values. `Cap` is the
  largest threshold. `CadenceAssumption` is the one real restriction: no gap
  between two scans so long that a pad pressed since boot is not debounced before
  the settle window ends. The code scans every 10 ms, with 30 ms of debounce and a
  settle time of 500 ms.
* *MQTT*: two channels with two changes each overflow a queue of two, and two
  changes of one channel can be queued with one already published. A command
  queue of two has a command wait behind another and refuses a third, so that the
  order in which they are obeyed shows, as do touches that come between. Of the two
  numbers in topics one names a channel, the other is beyond three ids and comes out
  as channel 0; a channel that is not there is dropped by `Switch` (`ControlPlane`
  runs such a command). Delays of 1 and 2 have the backoff double and be capped. `MaxChanges` bounds the length of behaviours in the model only.
* *Provisioning*: two networks make "SSID of one, password of the other"
  expressible, two identities "half of one, half of the other". `MaxFaults`
  bounds failing or interrupted writes and answers cut short: one is enough to
  break a group, and a second one in another group is independent of it.
  `MaxIdentities` bounds what the server hands out.
* *OTA*: two versions allow an upgrade and a refused downgrade. A window of 2 has
  a tick before it expires. With words of 8 values, 10 reads as this device's 2
  channels and a size of 9 as 1, which fits; 0 and 4 do not fit, 3 is the slot
  exactly.
* *Event log*: three slots and five events have the ring come round while a
  doomed slot, the newest record and older ones are all there; boots and time can
  come round too. The profile byte 2 has two channels, so that an operation has a
  change already announced and one still to come; 9 is unknown.
* *Indicator*: every period divides `Round`; the shortest one is 10, since the
  feedback of the only report before the end of a hold (at 2 or 3 of 4) has 15 or 10,
  and two gaps of at most 2 stay within its lit half, which is what
  `CadenceAssumption` asks. With scans 1 or 2 apart and reports every 2 a hold can
  come to its end with a report in the same scan and without one.
  The code ticks every 10 ms and no blink is shorter than 80 ms; `MaxPreempt`
  bounds the cycles that come within one `setStatus`, which is a test and three
  stores and so not as long as one cycle.


## 5. Fairness

* `ControlPlane`: weak fairness of `ControlTask`. It has the highest priority of
  the two and blocks on nothing but its own sleep. Nothing is assumed of Net
  or of the power supply, and one way for a liveness property to be discharged
  is that power is lost.
* `TouchInput`: weak fairness of `Next`: the task scans for ever.
* `MqttService`: weak fairness of `NetTask`. Net is the lower of the two, but
  Control sleeps for most of its 10 ms and its drain is bounded
  (`TouchNotStarved` shows the bound works). Nothing is assumed of the network:
  `CatchesUp` says "if the broker can be reached for good".
* `Provisioning`: weak fairness of `NetTask`, of `Erase` (Control finishes a reset
  it began) and of `PowerOn`. Nothing is assumed of the user or of the air.
* `OtaUpdate`: weak fairness of `NetTask`, `Clock` and `ControlTick`. Nothing is
  assumed of Wi-Fi, the broker or who confirms, so `TrialEnds` can fail and does.
* `Indicator`: weak fairness of `NetTask` and of `Cycles`, the two tasks, and of
  `Reboot`, with which the cycle that fired the gesture ends. Which gaps separate
  the cycles is not assumed, nor how long anybody holds the pads.
* `EventLog` has safety properties only, and no fairness.


## 6. Proofs

Each proof module extends the module it is about. An invariant the runs check is
seldom inductive; `IInv` is the strengthening, and the argument is always
`Init => IInv`, then `IInv /\ [Next]_vars => IInv'` with one step for each action,
then `IInv` implies the property. The theorems hold for every value of the
constants that the named assumptions of the module allow. `MaxChanges`,
`MaxEvents`, `MaxFaults` and `MaxIdentities` are such constants too, so a theorem
holds for behaviours of every length and with any number of faults.

| module                | theorem                    | states                                             |
|-----------------------|----------------------------|----------------------------------------------------|
| `BoundedQueue_proofs` | `TypeCorrect`              | `Spec => []TypeOK`                                 |
|                       | `RingStaysConsistent`      | `Spec => []RingConsistent`                         |
|                       | `RingImplementsFifo`       | `Spec => FifoSpec`                                 |
| `ControlPlane_proofs` | `TypeCorrect`              | `Spec => []TypeOK`                                 |
|                       | `PowerCutsAreAtomic`       | `Spec => []PowerCutIsAtomic`                       |
|                       | `ResetForgets`             | `Spec => []FactoryResetForgets`                    |
|                       | `ControlPlaneIsWallSwitch` | `Spec => SwitchSpec`                               |
|                       | `DrainsRunOut`             | `Spec => DrainRunsOut`                             |
|                       | `ScansRunOut`              | `Spec => ScanRunsOut`                              |
|                       | `ResetsArePrompt`          | `Spec => ResetIsPrompt`                            |
| `TouchInput_proofs`   | `TypeCorrect`              | `Spec => []TypeOK`                                 |
|                       | `PressesAreDebounced`      | `Spec => []PressIsDebounced`                       |
|                       | `GesturesAreHeld`          | `Spec => []GestureIsFullHold`                      |
|                       | `StuckPairsNeverReset`     | `Spec => []StuckPairNeverResets`                   |
|                       | `NothingIsAnnouncedTwice`  | `Spec => NothingTwice`                             |
| `MqttService_proofs`  | `TypeCorrect`              | `Spec => []TypeOK`                                 |
|                       | `LatestIsRetained`         | `Spec => []RetainedIsLatest`                       |
|                       | `RetainedMovesOn`          | `Spec => RetainedNeverGoesBack`                    |
|                       | `OnlineStaysTrue`          | `Spec => []OnlineIsTrue`                           |
|                       | `CloudIsAlwaysObeyed`      | `Spec => []CloudIsObeyed`                          |
| `Provisioning_proofs` | `TypeCorrect`              | `Spec => []TypeOK`                                 |
|                       | `RadioDoesOneThing`        | `Spec => []ApNeverWithSta`                         |
|                       | `FlashStaysWhole`          | `Spec => []FlashIsWhole`                           |
|                       | `BootsIdentified`          | `Spec => []MqttIsIdentified`                       |
|                       | `ResetsForget`             | `Spec => ResetForgets`                             |
|                       | `ProvisioningIsCommissioning` | `Spec => IsCommissioning`                       |
|                       | `AttemptsRunOut`           | `Spec => AttemptRunsOut`                           |
|                       | `ResetsRunOut`             | `Spec => ResetRunsOut`                             |
| `OtaUpdate_proofs`    | `TypeCorrect`              | `Spec => []TypeOK`                                 |
|                       | `RunsOnlyVerified`         | `Spec => []OnlyVerifiedRuns`                       |
|                       | `UnprovenStaysOnTrial`     | `Spec => []UnprovenIsOnTrial`                      |
|                       | `TrialsHaveWayBack`        | `Spec => []WayBack`                                |
|                       | `UpdatesAreSafe`           | `Spec => UpdateIsSafe`                             |
|                       | `TrialsRunOut`             | `Spec => TrialRunsOut`                             |
| `EventLog_proofs`     | `TypeCorrect`              | `Spec => []TypeOK`                                 |
|                       | `OnlyNewestIsAtRisk`       | `Spec => []OnlyNewestAtRisk`                       |
|                       | `KeysAlwaysOrder`          | `Spec => []KeysOrderEvents`                        |
|                       | `RingIsInOrder`            | `Spec => []RingInOrder`                            |
|                       | `RingIsJournal`            | `Spec => JournalSpec`                              |
|                       | `LogIsTrue`                | `Spec => []LogTellsRelay`                          |
| `Indicator_proofs`    | `TypeCorrect`              | `Spec => []TypeOK`                                 |
|                       | `LedIsAsPattern`           | `Spec => []LedShowsPattern`                        |
|                       | `StatusIsAlwaysTrue`       | `Spec => []StatusIsTrue`                           |
|                       | `FeedbackFollowsHold`      | `Spec => []FeedbackIsTrue /\ FeedbackQuickens`     |

**BoundedQueue**, from `CapacityAssumption` (the template asserts it) and
`NothingAssumption` (the mark of an unwritten slot is not an item). `IInv` is
`TypeOK /\ RingConsistent`; `RingConsistent` alone is not inductive, as its
arithmetic needs the ranges. The lemmas are about slot arithmetic: the slot `i`
places from `head` wraps once at most, and distinct offsets below the capacity
are distinct slots, so a store at `tail` touches nothing that counts. The
refinement has one lemma for each thing an operation does to the contents:
`StoreAppends`, `PopTails`, `EvictShifts`.

**ControlPlane**, from assumptions that say what its constants are and no more.
`PowerCutIsAtomic` is about the flash, and an operation's next announcement
depends on what the relays and the pending set are. `IInv` adds: pins follow the
relays (`Lockstep`); there is something pending only while announcing
(`PendingOnlyWhileAnnouncing`), so an operation begins with flash and relays
equal; and an operation being announced has ended the `wiped` state
(`AnnouncingForgetsWipe`), so saving cannot undo a factory reset. In the
refinement `OperateRefines` maps an operation to `WallSwitch`'s, announcements to
remembering, and everything that touches neither pins nor memory to a stutter.

`DrainRunsOut` and `ScanRunsOut` say that every step of the task while it drains or
scans lowers a measure: the budget, or else the channels yet to be announced; the
channels yet to be polled, or else those to be announced. Only a Net step that
fills the queue leaves the measure as it is, and it cannot raise it. That an
announcement takes one off rests on there being a least pending channel
(`LowestPending`, a `CHOOSE`), for which the well-founded order of the naturals is
cited. `ResetIsPrompt` adds that a request for a reset is never carried past the
scan it was made in, and that the wipe is followed by the reboot and nothing else.

**TouchInput**, from `PadAssumption`, `TimingAssumption` and, for the stuck pair,
`CadenceAssumption`. What the engine believes is tied to what the pads did: a
candidate is the last reading and exactly as old as it, and never as old as the
debounce time once the scan has passed the pad (`FollowsRaw`), a pad's last event
can be told from its state (`EventsFollowPads`), the hold the engine times is the
real one, to the scan (`HoldIsTracked`). That is why two theorems go both ways: no
event without the steady level or the full hold, and no steady level or full hold
that the next poll leaves without its event. `StuckIsSeen` is what makes the
settle window work: a pad pressed at every poll since boot has its age equal to
the time since the first poll until a scan has confirmed it, which happens before
the window is over.

**MqttService**, from the assumptions on its constants. `RetainedNeverGoesBack`
needs the queue between what is retained and what the relay is, ascending for
each channel (`QueueInOrder`); `RetainedIsLatest` needs that a latest change not
thrown away is retained or still queued (`LatestIsKept`); `CloudIsObeyed` needs
that the last waiting command for a channel asks for what the cloud wishes
(`LastWaitingIsWish`), through any mixture of SetAll, SetChannel and touches;
`OnlineIsTrue` that every session has left a will (`SessionHasWill`).

**Provisioning**, from `ValueAssumption`, `NetworkAssumption`, `FaultsAssumption`
and `IdentityAssumption`. `FlashIsWhole` speaks of a settled flash only, so `IInv`
has to say what a flash in the middle of its writes looks like: `Half(full, t, m)`
says that of the group `full` the part `t` is still to be written and the rest is
in the store `m`, and `Wiped` says the same of a reset. `NothingIsBroken` is then:
with no fault so far each group is whole, half way through its own writes, or half
erased. The lemma `WriteAdvances` is why one write keeps this, since the keys of a
group are distinct.

The refinement needs three things that being whole does not give (`CInv`): a dev
build is given no identity but its token (`DevBuildTakesNone`), the token is a
token (`TokenIsToken`), and what the device enrolls on is the network it joined
(`JoinedIsKept`). Then a write in the middle of a group is a stutter, the last one
is `Remember` or `Enroll`, and the first erasure of a reset is no step of the owner's
any more, since `Forget` was the press. `ValueAssumption` says that the marks for
"none" and "cut" are neither networks nor numbers of enrollments.
`AttemptRunsOut` gives an attempt its measure, the stage and then the writes left in
it: each step lowers it, or opens the portal, or goes Operational, or is a power
cut, a reset or a change of what is in reach. `ResetRunsOut` counts the keys still
to be erased, each of which is erased once, whether or not that worked.

**OtaUpdate**, from assumptions on its constants. `IInv` goes by where the task
stands and what the slot holds: a finished image has not been tried, past the
verdict it is sound and past the mark flagged (`FinishedIsVerified`); whatever can
be gone back to was accepted, and while the running image is not, it is there
(`PreviousIsGood`); and the running image is sound, accepted or flagged
(`RunningIsGood`). `WayBack` and the refinement follow from the second. `PrecheckedFits` is the lemma that makes the conversions safe:
below the width of a word precheck lets nothing pass that is not for this
hardware. `TrialRunsOut` says that a trial never gains time nor loses the criterion
of local control, and that once the window is over the Net task only goes down
towards the restart, counted by `Left`.

**EventLog**, for every size of the ring, width of the counters and profile.
`AtRisk` says that while no write has failed the saved head is the head, except
between the two writes of a record, and that the one record at risk is the one
the saved head is on; `OnlyNewestAtRisk` follows. `Past` says no record is later
than the session and the time it is in, which makes a new record's keys the
greatest.
The other two theorems need to know how the records stand around the ring.
`RingInOrder`: read from the slot the next record goes to, or would after a boot,
first come the records a restart has put at risk, then empty slots and all the
others, ever newer, the unsettled ones last. Two lemmas keep this, and are about
the arithmetic of the ring alone: `WritingMovesOn`, where the head goes one
further, and `RestartingMovesBack`, where it falls back to what was saved and the
unsettled records come to stand first, at risk. `RingIsJournal` follows: the slot
at the head holds a record at risk, or nothing, or the oldest of a full ring
(`RoomForMore` counts). `LogInv` is for `LogIsTrue`: unless the channel counts as
untold, whatever a record at risk tells of it is told again by a newer one that is
not at risk (`DoomedAreRetold`), so that a record taken before its turn leaves no
older one to be believed. A relay that comes back off, for want of a record, moves
to `dark` in the same step, and back out of it with the next record about it.

**Indicator**, from `PeriodAssumption` and `CadenceAssumption`. The step that needs
an argument is a tick after a preempted `setStatus`: `ledOn` says dark, the pin is
lit, and `driveLed` will not write it. It is right all the same, since the
phase has just been restarted and is still in the lit half: `Bound(n)` says so,
counting the cycles since (`LedIsTracked`). `StatusIsTracked` carries what
`netTick` has sampled from the sample to the last of the stores (`Told`).
`FeedbackFollowsHold` is about the reset feedback for all periods and hold times.
Once `ProgressEvery` of a hold is over it has been reported, and what the LED is told
is the hold as of `since` ago, whatever `setStatus` stores meanwhile
(`FeedbackIsTrue`); the period stays between the two bounds, is not 0 (solid) before
the hold is whole, and never grows while the hold goes on (`FeedbackQuickens`). That
it is solid once the hold is whole is *not* so: see section 7. Its lemmas are about the truncating
division of the interpolation (`DivMonotone`, `DivBound`).

### Only model-checked

* All liveness: `TouchNotStarved`, `ResetHappens`, `HoldCompletes`, `CatchesUp`,
  `WayIn`, `TrialEndsOnWifi`, `BlinkGoesOn`. Liveness under fairness, and
  `ENABLED`, are beyond the prover. Of four of them the part that is safety is
  proved, for every value of the constants: what a step can do while the wait
  lasts.

  | property          | proved of its steps                                   | left to TLC                                  |
  |-------------------|-------------------------------------------------------|----------------------------------------------|
  | `TouchNotStarved` | `DrainsRunOut`                                        | that the task's step is enabled and is taken |
  | `ResetHappens`    | `ScansRunOut`, `ResetsArePrompt`                      | the same                                     |
  | `WayIn`           | `AttemptsRunOut`, `ResetsRunOut`                      | the same, of `NetTask` and `Erase`           |
  | `TrialEndsOnWifi` | `TrialsRunOut`, and `TrialsHaveWayBack` for its outcome | that the window runs out and a `netTick` begins |

  `GesturesAreHeld` does as much for `HoldCompletes`: a hold that has lasted is
  answered by the next poll of the pair. `CatchesUp` and `BlinkGoesOn` have no such
  theorem.
* Induction over data: the library's induction theorems have an operator for a
  parameter, which no installed prover instantiates, so what a recursive definition
  computes for every input cannot be proved; and a module with `RECURSIVE` operators
  loses its SMT backend. These modules have neither.

## 7. Where code and words disagree

Each is a run that looks for a violation of what a document, a comment or a
test says, and finds it. `PROJECT.json` quotes the words under `findings`.

| run                          | property                  | what the counterexample shows                                                                                                                                                              |
|------------------------------|---------------------------|--------------------------------------------------------------------------------------------------------------------------------------------------------------------------------------------|
| `publish_queue_race`         | `NoChangeVanishes`        | The Control task pushes the publish queue between Net's load and its store of `count`: the push is overwritten and the change never published.                                               |
| `touch_stuck_pad`            | `StuckPadNeverResets`     | The baseline needs the pair not pressed *together*. With one pad stuck since boot, holding the other alone completes the factory-reset gesture.                                              |
| `provisioning_half_identity` | `OperationalIsIdentified` | Power fails after `tls_cert` is stored and before `tls_key` is. The next boot takes the device for enrolled and goes Operational without key or broker.                                       |
| `ota_trial_offline`          | `TrialEnds`               | `netTick` returns before `healthTick` while Wi-Fi is not Operational: a new image that cannot get on Wi-Fi is neither confirmed nor rolled back.                                             |

Two of these have a weaker property that does hold and that a passing run
checks: `StuckPairNeverResets` (a *pair* stuck since boot never resets, the
case met on the device) and `TrialEndsOnWifi` (trials end once Wi-Fi is up).

What else the modelling met. Where a passing property has to except one of these,
its comment says so; the others have no run of their own.

* The tick goes on to drain the publish queue after `loop()` has yielded the
  connection for a manifest, and what it takes off the queue nobody receives
  (`mqtt_service.h:93`; `missing` in `MqttService`).
* A device that yields the connection disconnects cleanly, so its will is never
  published: if power goes before it is back, `online:true` stands
  (`mqtt_service.h:87`; excepted in `OnlineIsTrue` by `yielded`).
* A channel number is cut to 8 bits: a topic that names channel 256 operates
  channel 0 (`mqtt_topics.h:73`; excepted in `CloudIsObeyed` by `aliased`).
* The numbers of a manifest wrap at 32 bits, so that a huge size or channel count
  can pass (`ota_manifest.h:80`; excepted in `OnlyVerifiedRuns` by `wide`).
* The stored credentials are tried once, at boot ("on every later boot the stored
  creds connect directly", `README.md:175-176`). An access point that comes up
  after the switch is not joined until the switch is restarted.
* `device_id` is optional in the enrollment's answer and required to start MQTT.
  "MQTT then connects on the next boot" (`README.md:181-182`) holds for a device
  that was given one (the theorem `BootsIdentified`; `SwitchOn` in `Commissioning`).
* When all criteria are met and erasing `ota_pending` fails, the update is confirmed
  and the next boot is on trial again, which can take it back
  (`composition_root.h:402-411`; the way back is still there, and `GoBack` in
  `SafeUpdate` permits it).
* An answer cut short in its last field is stored as if whole
  (`provisioning_impl.h:300`; counted as a fault in `Provisioning`).
* Nothing calls `Logger::onNtpSync` (`logger.h:46`), so the log never gets an
  anchor, a floor or "real UTC" (`README.md:164-165`).
* Nothing calls `clearResetProgress` (`indicator_controller.h:49`), so that a hold
  let go leaves the LED in the reset pattern (excepted in `StatusIsTrue` by
  `overridden`).
* "At completion it goes solid" (`indicator_controller.h:10-11`, `README.md:160-161`)
  takes a report at completion. The gesture fires when the hold is whole, reports
  come every `progressEveryMs` from its start, and where the two do not fall on the
  same scan the device restarts without the LED having been told
  (`touch_input.h:153-168`).
* The codes `FactoryReset` and `BootRestore` of the event log (`log_types.h:27, 41`)
  are never logged. After a factory reset, or a relay record that was torn or never
  saved, the newest record about a relay may say On while it is off
  (`composition_root.h:302-319, 417-427`; `dark` in `EventLog`).
* A session lost between two calls of `netTick` is seen by neither of its samples
  and leaves the LED on Online (`composition_root.h:253`; `quietly`).
* The 1-gang profile has no pair of pads and no other reset gesture is in the
  source (`profile_registry.h:102`, `touch_input.h:42-48`).


## 8. Not modelled, and why

* **Platform bindings** (`adapters/`, `platform/*_flashdb.h`, `main.cpp`): thin
  calls into LibreTiny and FreeRTOS that keep no state. The modules assume what
  they promise: the priorities, a monotonic clock, pins that do as told.
* **FlashDB**: a single write or erase is atomic (but for the relay record, where
  the code has a CRC against its absence) and may fail. Whether two tasks may call
  it at the same time is not answered by the code and is listed as a hazard.
* **Wi-Fi, TLS, HTTP, SHA-256 and signature**: succeed or fail. An image is
  `sound` or not, and verification finds out.
* **The UTC clock of the event log**: anchor, floor and epoch, which nothing sets
  in motion (section 7).
* **Text**: how topics, payloads, the form and the manifest are split and put
  together. The modules have what comes out: numbers with their width, fields that
  are present, missing or cut.
* **Clock wrap-around**: the clock is 32 bits of milliseconds and compared by
  subtraction throughout; ages and countdowns model that below one wrap. Only the
  log stores the clock, and there it does wrap.
* **`setBacklight`** and the polarity of the LED: nobody calls the first, and the
  second is one negation in the sink.
* **Other boot policies** than restore-last, which is the one the composition
  root uses.
* **Failure of `begin()`** is `halted` or `hung` in `ControlPlane` and `halt` in
  `EventLog`, where nothing but power goes on; its messages are left out.
* **The whole of `netTick` in one module**: section 9.


## 9. Plan

Done, most important behaviour first: `BoundedQueue` (everything rests on it),
`ControlPlane` (the switch as a switch), `TouchInput`, `MqttService` and
`PublishQueueRace`, `Provisioning`, `OtaUpdate`, then `EventLog`, `Indicator` and
`DeviceProfiles`, and the proofs of all of them; then `SafeUpdate` and
`Commissioning`, what updates and provisioning promise as a whole, and the measures
behind the liveness properties of `ControlPlane`, `Provisioning` and `OtaUpdate`.

What would come next:

1. `NetTick`: provisioning, MQTT and OTA composed as `netTick` composes them, with
   what each leaves for the other at a reboot. Abstract specification: a device
   that is commissioned, in service or on trial.
2. An abstract specification of `MqttService`: what the broker shows of a channel
   is ever later among its changes, and with the queue empty the latest kept.
3. The measures behind `CatchesUp` (backoff, what is queued) and `BlinkGoesOn`.
