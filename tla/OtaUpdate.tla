------------------------------ MODULE OtaUpdate ------------------------------
(***************************************************************************)
(* Firmware updates: OtaService::apply (net/ota_service.h) as the Net task *)
(* runs it on a manifest, the trial the next boot puts the new image on    *)
(* (net/ota_health_confirm.h, CompositionRoot::begin and healthTick), and  *)
(* what power cuts and factory resets do at every point of either.         *)
(*                                                                         *)
(* The boot loader is external and does what the code says of it           *)
(* (ota_impl.h:57-59, ota_ports.h:9-11): a finished image in the slot is   *)
(* started at the next boot, the image it replaces is kept, and a rollback *)
(* goes back to that one.                                                  *)
(***************************************************************************)
EXTENDS DeviceProfiles

CONSTANTS
  Versions,      (* firmware versions, ordered as FwVersion::isNewerThan   *)
  Window,        (* the health window, in clock ticks                      *)
  ProfileByte,   (* the device's hardware variant                          *)
  Word,          (* how many values a uint32_t has                         *)
  kSlotBytes,    (* the size of the staging slot                           *)
  ChannelTexts,  (* the numbers manifests give for "ch" ...                *)
  SizeTexts      (* ... and for "size", of ten digits at most              *)

ASSUME VersionAssumption == Versions \subseteq Nat /\ Versions # {}
ASSUME WindowAssumption  == Window \in Nat \ {0}
ASSUME ProfileAssumption == ProfileByte \in 1 .. kMaxChannels
ASSUME WidthAssumption   == /\ Word \in Nat \ {0} /\ kMaxChannels < Word
                            /\ kSlotBytes \in 1 .. Word - 1
                            /\ ChannelTexts \subseteq Nat /\ SizeTexts \subseteq Nat

VARIABLES
  pc,            (* where the Net task stands; "off" without power         *)
  app,           (* the image that runs                                    *)
  slot,          (* the staging slot: what it holds, and the image         *)
  manifest,      (* the offer being applied                                *)
  flag,          (* the key "ota_pending"                                  *)
  trial,         (* otaPending_                                            *)
  age,           (* time since health_.onBoot, up to Window                *)
  criteria,      (* the health criteria met in this boot                   *)
  operational,   (* provisioning has reached Operational                   *)
  online,        (* MQTT is connected                                      *)
  mishap         (* history: something the code has no answer to happened:
                    power was lost at an Unprotected point, a reset or an
                    accepted update cut a trial short, the flag could not be
                    written, or there was no image to roll back to         *)

health == <<trial, age, criteria>>
link   == <<operational, online>>
vars   == <<pc, app, slot, manifest, flag, health, link, mishap>>

(* What was offered: an image made for this hardware and for the slot, one *)
(* for another, or one whose numbers no uint32_t can hold.                 *)
Origin   == {"fits", "foreign", "wide"}

Image    == [ver : Versions, origin : Origin, sound : BOOLEAN, accepted : BOOLEAN]
Offer    == [ver : Versions, origin : Origin]
Slot     == [holds : {"nothing", "partial", "finished", "previous"}, image : Image]

(* Criterion 1, the scheduler, is met by onBoot itself.                    *)
AllCriteria == {"localControl", "network", "confirm"}

Empty(s) == [s EXCEPT !.holds = "nothing"]

(* The points where losing power leaves a finished image nobody has yet    *)
(* verified and flagged, or a rollback that is decided and not done.       *)
Unprotected == pc \in {"verify", "commit", "mark", "rollback"}

Init ==
  /\ pc = "off"
  /\ \E v \in Versions : app = [ver |-> v, origin |-> "fits", sound |-> TRUE, accepted |-> TRUE]
  /\ slot = [holds |-> "nothing", image |-> app]
  /\ manifest = [ver |-> app.ver, origin |-> "fits"]
  /\ flag = FALSE /\ trial = FALSE /\ age = 0 /\ criteria = {}
  /\ operational = FALSE /\ online = FALSE
  /\ mishap = FALSE

----------------------------------------------------------------------------
(* Boot: the boot loader's choice of image, then begin().                  *)
Boot ==
  /\ pc = "off"
  /\ IF slot.holds = "finished"
       THEN app' = slot.image /\ slot' = [holds |-> "previous", image |-> app]
       ELSE UNCHANGED <<app, slot>>
  /\ pc' = "run"
  /\ trial' = flag
  /\ UNCHANGED <<manifest, flag, age, criteria, link, mishap>>

GoDown ==
  /\ pc' = "off"
  /\ trial' = FALSE /\ age' = 0 /\ criteria' = {}
  /\ operational' = FALSE /\ online' = FALSE

PowerCut ==
  /\ pc # "off"
  /\ GoDown
  /\ mishap' = (mishap \/ Unprotected)
  /\ UNCHANGED <<app, slot, manifest, flag>>

(* The Control task's factory reset wipes the flag, on trial or not.       *)
FactoryReset ==
  /\ pc # "off"
  /\ GoDown
  /\ flag' = FALSE
  /\ mishap' = (mishap \/ Unprotected \/ flag)
  /\ UNCHANGED <<app, slot, manifest>>

----------------------------------------------------------------------------
(* netTick, up to the MQTT tick: nothing to do before Wi-Fi is up, else    *)
(* loop() delivers nothing of interest, an explicit confirm or a manifest. *)
Quiet ==
  /\ pc = "run" /\ operational
  /\ pc' = "health"
  /\ UNCHANGED <<app, slot, manifest, flag, health, link, mishap>>

ConfirmArrives ==
  /\ pc = "run" /\ operational /\ online /\ trial
  /\ criteria' = criteria \cup {"confirm"}
  /\ pc' = "health"
  /\ UNCHANGED <<app, slot, manifest, flag, trial, age, link, mishap>>

(* The manifest as it is written.  A field that is missing, or does not    *)
(* parse, makes it incomplete.                                             *)
Manifest == [complete : BOOLEAN, hw : {"ours", "other"}, ch : ChannelTexts, size : SizeTexts,
             ver : Versions, allowDowngrade : BOOLEAN]

(* Digit by digit, in 32 bits.                                             *)
parseU32(n) == n % Word

valid(m) == m.complete /\ parseU32(m.ch) \in 1 .. kMaxChannels

sizeFits(bytes) == bytes \in 1 .. kSlotBytes

versionAccepted(m) == m.allowDowngrade \/ m.ver > app.ver

profile == resolveRaw(ProfileByte)

precheck(m) ==
  /\ hwCompatMatches(profile, "ours", m.hw, parseU32(m.ch))
  /\ sizeFits(parseU32(m.size))
  /\ versionAccepted(m)

OriginOf(m) ==
  CASE m.ch >= Word \/ m.size >= Word -> "wide"
    [] m.ch < Word /\ m.size < Word
         -> IF m.hw = "ours" /\ m.ch = profile.channelCount /\ m.size \in 1 .. kSlotBytes
              THEN "fits" ELSE "foreign"

(* A manifest that does not parse is dropped.  For any other the           *)
(* connection is yielded first; then precheck refuses it, or writer_.begin *)
(* erases the slot.  An update during a trial is accepted like any other,  *)
(* which gives up the image the trial could go back to.                    *)
ManifestArrives(m) ==
  /\ pc = "run" /\ operational /\ online
  /\ \/ /\ ~valid(m)
        /\ pc' = "health"
        /\ UNCHANGED <<online, slot, manifest, mishap>>
     \/ /\ valid(m) /\ ~precheck(m)
        /\ online' = FALSE
        /\ pc' = "health"
        /\ UNCHANGED <<slot, manifest, mishap>>
     \/ /\ valid(m) /\ precheck(m)
        /\ online' = FALSE
        /\ pc' = "download"
        /\ slot' = [slot EXCEPT !.holds = "partial"]
        /\ manifest' = [ver |-> m.ver, origin |-> OriginOf(m)]
        /\ mishap' = (mishap \/ trial)
  /\ UNCHANGED <<app, flag, health, operational>>

DownloadFails ==
  /\ pc = "download"
  /\ slot' = Empty(slot)
  /\ pc' = "health"
  /\ UNCHANGED <<app, manifest, flag, health, link, mishap>>

(* All the bytes have come, whether or not they are the signed ones, and   *)
(* finish() completes the staged image.                                    *)
DownloadEnds ==
  /\ pc = "download"
  /\ \E sound \in BOOLEAN :
       slot' = [holds |-> "finished",
                image |-> [ver |-> manifest.ver, origin |-> manifest.origin,
                           sound |-> sound, accepted |-> FALSE]]
  /\ pc' = "verify"
  /\ UNCHANGED <<app, manifest, flag, health, link, mishap>>

VerifyKeepsSlot ==
  /\ pc = "verify"
  /\ pc' = IF slot.image.sound THEN "commit" ELSE "health"
  /\ UNCHANGED <<app, slot, manifest, flag, health, link, mishap>>

Verify ==
  /\ pc = "verify"
  /\ \/ slot.image.sound /\ pc' = "commit" /\ slot' = slot
     \/ ~slot.image.sound /\ pc' = "health" /\ slot' = Empty(slot)
  /\ UNCHANGED <<app, manifest, flag, health, link, mishap>>

Commit ==
  /\ pc = "commit"
  /\ \/ pc' = "mark" /\ slot' = slot
     \/ pc' = "health" /\ slot' = Empty(slot)          (* commit() refused *)
  /\ UNCHANGED <<app, manifest, flag, health, link, mishap>>

(* markAwaitingConfirm, whose setBlob may fail unnoticed.                  *)
Mark ==
  /\ pc = "mark"
  /\ \/ flag' = TRUE /\ mishap' = mishap
     \/ flag' = flag /\ mishap' = TRUE
  /\ pc' = "reboot"
  /\ UNCHANGED <<app, slot, manifest, health, link>>

Reboot ==
  /\ pc = "reboot"
  /\ GoDown
  /\ UNCHANGED <<app, slot, manifest, flag, mishap>>

----------------------------------------------------------------------------
(* The end of netTick: markNetworkUp and healthTick.                       *)

Observed == IF trial /\ online THEN criteria \cup {"network"} ELSE criteria

allCriteriaMetWithoutConfirm(met) == {"localControl", "network"} \subseteq met
allCriteriaMet(met) == AllCriteria \subseteq met

Evaluating ==
  /\ pc = "health"
  /\ criteria' = Observed
  /\ UNCHANGED <<manifest, age, link, mishap>>

Confirmed ==
  /\ Evaluating
  /\ trial /\ allCriteriaMet(Observed)
  /\ app' = [app EXCEPT !.accepted = @ \/ AllCriteria \subseteq Observed]
  /\ flag' \in {FALSE, flag}                                (* erase may fail *)
  /\ trial' = FALSE
  /\ pc' = "run"
  /\ UNCHANGED slot

Expired ==
  /\ Evaluating
  /\ trial /\ ~allCriteriaMet(Observed) /\ age >= Window
  /\ flag' \in {FALSE, flag}
  /\ pc' = "rollback"
  /\ UNCHANGED <<app, slot, trial>>

NotYetWhileOffline ==
  /\ Evaluating
  /\ trial => ~allCriteriaMet(Observed) /\ (age < Window \/ ~online)
  /\ pc' = "run"
  /\ UNCHANGED <<app, slot, flag, trial>>

NotYet ==
  /\ Evaluating
  /\ trial => ~allCriteriaMet(Observed) /\ age < Window
  /\ pc' = "run"
  /\ UNCHANGED <<app, slot, flag, trial>>

RollBackErasesFirst ==
  /\ pc = "rollback"
  /\ mishap' = (mishap \/ slot.holds # "previous")
  /\ slot' = Empty(slot)
  /\ pc' = "reboot"
  /\ UNCHANGED <<app, manifest, flag, health, link>>

(* rollBack() goes back to the previous image if it is still there.        *)
RollBack ==
  /\ pc = "rollback"
  /\ IF slot.holds = "previous"
       THEN app' = slot.image /\ UNCHANGED mishap
       ELSE UNCHANGED app /\ mishap' = TRUE
  /\ slot' = Empty(slot)
  /\ pc' = "reboot"
  /\ UNCHANGED <<manifest, flag, health, link>>

----------------------------------------------------------------------------
(* Around it: the clock, controlTick, and the network.                     *)
Clock ==
  /\ trial /\ age < Window
  /\ age' = age + 1
  /\ UNCHANGED <<pc, app, slot, manifest, flag, trial, criteria, link, mishap>>

ControlTick ==
  /\ trial /\ "localControl" \notin criteria
  /\ criteria' = criteria \cup {"localControl"}
  /\ UNCHANGED <<pc, app, slot, manifest, flag, trial, age, link, mishap>>

WifiUp ==
  /\ pc = "run" /\ ~operational
  /\ operational' = TRUE
  /\ UNCHANGED <<pc, app, slot, manifest, flag, health, online, mishap>>

BrokerComesOrGoes ==
  /\ pc = "run" /\ operational
  /\ online' = ~online
  /\ UNCHANGED <<pc, app, slot, manifest, flag, health, operational, mishap>>

NetTask ==
  \/ Boot \/ Quiet
  \/ DownloadFails \/ DownloadEnds \/ Verify \/ Commit \/ Mark \/ Reboot
  \/ Confirmed \/ Expired \/ NotYet \/ RollBack

Next ==
  \/ NetTask \/ ConfirmArrives \/ \E m \in Manifest : ManifestArrives(m)
  \/ Clock \/ ControlTick \/ WifiUp \/ BrokerComesOrGoes
  \/ PowerCut \/ FactoryReset

(* Both tasks run and time passes; nobody owes the device a network.       *)
Spec == Init /\ [][Next]_vars /\ WF_vars(NetTask) /\ WF_vars(Clock) /\ WF_vars(ControlTick)

----------------------------------------------------------------------------
(* Type invariant.                                                         *)
Types ==
  /\ pc \in {"off", "run", "download", "verify", "commit", "mark", "reboot", "health",
             "rollback"}
  /\ app \in Image /\ slot \in Slot /\ manifest \in Offer
  /\ flag \in BOOLEAN /\ trial \in BOOLEAN /\ age \in 0 .. Window
  /\ criteria \subseteq AllCriteria
  /\ operational \in BOOLEAN /\ online \in BOOLEAN /\ mishap \in BOOLEAN
  /\ online => operational

(* An image complete in the slot is on its way to being started, or gone:  *)
(* one that fails its verification is not left there                       *)
(* (ota_service.h:53-66).                                                  *)
TypeOK ==
  /\ Types
  /\ slot.holds = "finished" => pc \in {"verify", "commit", "mark", "reboot", "off"}

(* Only an image that is this device's runs: whatever fails, arrives       *)
(* damaged or is cut off on the way its bytes are the signed ones, except  *)
(* while finish() and the verdict stand apart (ota_service.h:53-63); and   *)
(* it was offered for this hardware and a slot this size, unless the       *)
(* offer's numbers exceed 32 bits (ota_manifest.h:75-87,                   *)
(* ota_service.h:73-81).                                                   *)
OnlyVerifiedRuns == (~mishap => app.sound) /\ app.origin # "foreign"

(* An image that has not proved itself runs only while the next boot will  *)
(* again put it on trial: it cannot slip past the health check by being    *)
(* restarted, and an update cannot end with the previous image lost        *)
(* (ota_service.h:65, composition_root.h:199-204, 400-412).                *)
UnprovenIsOnTrial == ~mishap /\ pc # "off" /\ ~app.accepted => flag \/ pc = "rollback"

(* Once Wi-Fi is up for good a trial ends one way or the other, unless the *)
(* device is restarted first (composition_root.h:260, 400-412).            *)
TrialEndsOnWifi == <>[]operational => (trial ~> ~trial)

(* Seen from outside, applying, trying and taking back updates is          *)
(* SafeUpdate: a genuine image runs, proved or with a proved one kept to   *)
(* go back to, until the first mishap (ota_service.h:45-69, ota_impl.h:    *)
(* 52-62, composition_root.h:193-204, 399-412).                            *)
Waiting == slot.holds = "finished" /\ pc \in {"mark", "reboot", "off"}

Update == INSTANCE SafeUpdate WITH
  Genuine <- {i \in Image : i.sound /\ i.origin # "foreign"},
  running <- app,
  next    <- IF Waiting THEN {slot.image} ELSE {},
  back    <- IF slot.holds = "previous" THEN {slot.image} ELSE {},
  void    <- mishap

UpdateIsSafe == Update!Spec

(* "All criteria within 180 s or roll back" (composition_root.h:399), also *)
(* ota_health_confirm.h:16 and README.md:196-198: every trial ends.        *)
TrialEnds == trial ~> ~trial
==============================================================================
