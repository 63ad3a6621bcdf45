--------------------------- MODULE OtaUpdate_proofs ---------------------------
(***************************************************************************)
(* Only this device's signed images run, and an unproven one only on       *)
(* trial, at whatever points power is lost, writes fail and updates break  *)
(* off: for any set of versions, health window, slot and integer size, and *)
(* for whatever numbers the manifests give.                                *)
(***************************************************************************)
EXTENDS OtaUpdate, TLAPS

(* No offer that is for other hardware gets as far as the slot.            *)
OffersFit == manifest.origin # "foreign" /\ slot.image.origin # "foreign"
             /\ app.origin # "foreign"

(* A finished image waits between the end of its download and the boot     *)
(* that starts it, and past the verdict it is sound, past the mark flagged.*)
FinishedIsVerified ==
  slot.holds = "finished" =>
    /\ pc \in {"verify", "commit", "mark", "reboot", "off"}
    /\ ~slot.image.accepted
    /\ ~mishap => /\ pc # "verify" => slot.image.sound
                  /\ pc \in {"reboot", "off"} => flag

(* There is an accepted image to go back to.                               *)
PreviousIsGood ==
  ~mishap =>
    /\ ~app.accepted => slot.holds = "previous"
    /\ slot.holds = "previous" => slot.image.sound /\ slot.image.accepted
    /\ slot.holds \in {"partial", "finished"} => app.accepted
    /\ pc \in {"download", "verify", "commit", "mark"} => app.accepted

(* The image that runs.                                                    *)
RunningIsGood ==
  ~mishap =>
    /\ app.sound
    /\ ~app.accepted => /\ flag \/ pc = "rollback"
                        /\ pc # "off" => trial

IInv == Types /\ OffersFit /\ FinishedIsVerified /\ PreviousIsGood /\ RunningIsGood

(* Precheck lets no offer for other hardware pass, unless its numbers do   *)
(* not fit the word they are read into.                                    *)
LEMMA SmallNumbersParse ==
  ASSUME NEW n \in Nat, n < Word
  PROVE  parseU32(n) = n
BY WidthAssumption DEF parseU32

LEMMA PrecheckedFits ==
  ASSUME NEW m \in Manifest, precheck(m)
  PROVE  OriginOf(m) \in Origin /\ OriginOf(m) # "foreign"
<1>1. m.ch \in Nat /\ m.size \in Nat /\ Word \in Nat
  BY WidthAssumption DEF Manifest
<1>2. CASE m.ch >= Word \/ m.size >= Word
  BY <1>1, <1>2 DEF OriginOf, Origin
<1>3. CASE m.ch < Word /\ m.size < Word
  <2>1. parseU32(m.ch) = m.ch /\ parseU32(m.size) = m.size
    BY <1>1, <1>3, SmallNumbersParse
  <2>2. m.hw = "ours" /\ m.ch = profile.channelCount /\ m.size \in 1 .. kSlotBytes
    BY <2>1 DEF precheck, hwCompatMatches, sizeFits
  <2>3. OriginOf(m) = "fits"
    BY <1>1, <1>3, <2>2 DEF OriginOf
  <2>4. QED
    BY <2>3 DEF Origin
<1>4. QED
  BY <1>1, <1>2, <1>3

LEMMA InitEstablishes == Init => IInv
<1> SUFFICES ASSUME Init PROVE IInv
  OBVIOUS
<1>1. PICK v \in Versions : app = [ver |-> v, origin |-> "fits", sound |-> TRUE, accepted |-> TRUE]
  BY DEF Init
<1>2. app \in Image /\ slot \in Slot /\ manifest \in Offer
  BY <1>1 DEF Init, Image, Slot, Offer, Origin
<1>3. Types
  <2>1. age \in 0 .. Window /\ criteria \subseteq AllCriteria
    BY WindowAssumption DEF Init
  <2>2. /\ flag \in BOOLEAN /\ trial \in BOOLEAN /\ operational \in BOOLEAN
        /\ online \in BOOLEAN /\ mishap \in BOOLEAN /\ pc = "off"
    BY DEF Init
  <2>3. online => operational
    BY DEF Init
  <2>4. QED
    BY <1>2, <2>1, <2>2, <2>3 DEF Types
<1>4. OffersFit /\ FinishedIsVerified /\ PreviousIsGood /\ RunningIsGood
  BY <1>1 DEF Init, OffersFit, FinishedIsVerified, PreviousIsGood, RunningIsGood
<1>5. QED
  BY <1>3, <1>4 DEF IInv

LEMMA TypesKeep ==
  ASSUME Types, Next
  PROVE  Types'
<1> USE DEF Types, Image, Slot, Offer, Origin, health, link
<1>0. ASSUME GoDown
      PROVE  /\ pc' = "off" /\ trial' \in BOOLEAN /\ operational' \in BOOLEAN
             /\ online' \in BOOLEAN /\ age' \in 0 .. Window /\ criteria' \subseteq AllCriteria
             /\ online' => operational'
  <2>1. age' = 0 /\ criteria' = {}
    BY <1>0 DEF GoDown
  <2>2. age' \in 0 .. Window /\ criteria' \subseteq AllCriteria
    BY <2>1, WindowAssumption
  <2>3. /\ pc' = "off" /\ trial' \in BOOLEAN /\ operational' \in BOOLEAN
        /\ online' \in BOOLEAN
    BY <1>0 DEF GoDown
  <2>4. online' => operational'
    BY <1>0 DEF GoDown
  <2>5. QED
    BY <2>2, <2>3, <2>4
<1>1. CASE Boot
  BY <1>1 DEF Boot
<1>2. CASE Quiet \/ DownloadFails
  BY <1>2 DEF Quiet, DownloadFails, Empty
<1>3. CASE DownloadEnds
  BY <1>3 DEF DownloadEnds
<1>4. CASE Verify \/ Commit
  BY <1>4 DEF Verify, Commit, Empty
<1>5. CASE Mark
  <2>1. flag' \in BOOLEAN /\ mishap' \in BOOLEAN /\ pc' = "reboot"
    BY <1>5 DEF Mark
  <2>2. UNCHANGED <<app, slot, manifest, health, link>>
    BY <1>5 DEF Mark
  <2>3. QED
    BY <2>1, <2>2
<1>6. CASE Reboot
  <2>1. UNCHANGED <<app, slot, manifest, flag, mishap>>
    BY <1>6 DEF Reboot
  <2>2. QED
    BY <1>0, <1>6, <2>1 DEF Reboot
<1>7. CASE Confirmed
  <2>1. Observed \subseteq AllCriteria
    BY DEF Observed, AllCriteria
  <2>2. app' \in Image
    BY <1>7 DEF Confirmed
  <2>3. flag' \in BOOLEAN /\ trial' \in BOOLEAN
    BY <1>7 DEF Confirmed
  <2>4. pc' = "run" /\ criteria' = Observed /\ UNCHANGED <<slot, manifest, age, link, mishap>>
    BY <1>7 DEF Confirmed, Evaluating
  <2>5. QED
    BY <2>1, <2>2, <2>3, <2>4
<1>8. CASE Expired
  <2>1. Observed \subseteq AllCriteria
    BY DEF Observed, AllCriteria
  <2>2. flag' \in BOOLEAN
    BY <1>8 DEF Expired
  <2>3. /\ pc' = "rollback" /\ criteria' = Observed
        /\ UNCHANGED <<app, slot, trial, manifest, age, link, mishap>>
    BY <1>8 DEF Expired, Evaluating
  <2>4. QED
    BY <2>1, <2>2, <2>3
<1>9. CASE NotYet
  <2>1. Observed \subseteq AllCriteria
    BY DEF Observed, AllCriteria
  <2>2. /\ pc' = "run" /\ criteria' = Observed
        /\ UNCHANGED <<app, slot, flag, trial, manifest, age, link, mishap>>
    BY <1>9 DEF NotYet, Evaluating
  <2>3. QED
    BY <2>1, <2>2
<1>10. CASE RollBack
  BY <1>10 DEF RollBack, Empty
<1>11. CASE ConfirmArrives
  BY <1>11 DEF ConfirmArrives, AllCriteria
<1>12. ASSUME NEW m \in Manifest, ManifestArrives(m) PROVE Types'
  <2>1. m.ver \in Versions
    BY DEF Manifest
  <2>2. /\ pc' \in {"health", "download"} /\ online' \in BOOLEAN /\ mishap' \in BOOLEAN
        /\ online' => operational
    BY <1>12 DEF ManifestArrives
  <2>3. slot' \in Slot
    BY <1>12 DEF ManifestArrives
  <2>4. manifest' \in Offer
    <3>1. CASE UNCHANGED manifest
      BY <3>1
    <3>2. CASE precheck(m) /\ manifest' = [ver |-> m.ver, origin |-> OriginOf(m)]
      <4>1. OriginOf(m) \in Origin
        BY <3>2, PrecheckedFits
      <4>2. QED
        BY <2>1, <3>2, <4>1
    <3>3. QED
      BY <1>12, <3>1, <3>2 DEF ManifestArrives
  <2>5. UNCHANGED <<app, flag, health, operational>>
    BY <1>12 DEF ManifestArrives
  <2>6. QED
    BY <2>2, <2>3, <2>4, <2>5
<1>13. CASE Clock
  BY <1>13, WindowAssumption DEF Clock
<1>14. CASE ControlTick
  BY <1>14 DEF ControlTick, AllCriteria
<1>15. CASE WifiUp \/ BrokerComesOrGoes
  BY <1>15 DEF WifiUp, BrokerComesOrGoes
<1>16. CASE PowerCut
  <2>1. mishap' \in BOOLEAN /\ UNCHANGED <<app, slot, manifest, flag>>
    BY <1>16 DEF PowerCut
  <2>2. QED
    BY <1>0, <1>16, <2>1 DEF PowerCut
<1>17. CASE FactoryReset
  <2>1. mishap' \in BOOLEAN /\ flag' \in BOOLEAN /\ UNCHANGED <<app, slot, manifest>>
    BY <1>17 DEF FactoryReset
  <2>2. QED
    BY <1>0, <1>17, <2>1 DEF FactoryReset
<1>18. QED
  BY <1>1, <1>2, <1>3, <1>4, <1>5, <1>6, <1>7, <1>8, <1>9, <1>10, <1>11, <1>12, <1>13, <1>14,
     <1>15, <1>16, <1>17 DEF Next, NetTask

(* The offer an accepted manifest becomes.                                 *)
LEMMA OffersKeepFitting ==
  ASSUME IInv, Next
  PROVE  OffersFit'
<1> USE DEF IInv, OffersFit, Types, Image, Slot, Offer
<1>1. CASE Boot
  BY <1>1 DEF Boot
<1>2. CASE Quiet \/ DownloadFails \/ Verify \/ Commit \/ Mark \/ Reboot
  BY <1>2 DEF Quiet, DownloadFails, Verify, Commit, Mark, Reboot, Empty
<1>3. CASE DownloadEnds
  BY <1>3 DEF DownloadEnds
<1>4. CASE Confirmed
  BY <1>4 DEF Confirmed, Evaluating
<1>5. CASE Expired \/ NotYet \/ RollBack
  BY <1>5 DEF Expired, NotYet, Evaluating, RollBack, Empty
<1>6. ASSUME NEW m \in Manifest, ManifestArrives(m) PROVE OffersFit'
  <2>1. CASE UNCHANGED <<app, slot, manifest>>
    BY <2>1
  <2>2. CASE precheck(m) /\ slot' = [slot EXCEPT !.holds = "partial"] /\ app' = app
             /\ manifest' = [ver |-> m.ver, origin |-> OriginOf(m)]
    <3>1. OriginOf(m) # "foreign"
      BY <2>2, PrecheckedFits
    <3>2. QED
      BY <2>2, <3>1
  <2>3. QED
    BY <1>6, <2>1, <2>2 DEF ManifestArrives
<1>7. CASE ConfirmArrives \/ Clock \/ ControlTick \/ WifiUp \/ BrokerComesOrGoes
           \/ PowerCut \/ FactoryReset
  BY <1>7 DEF ConfirmArrives, Clock, ControlTick, WifiUp, BrokerComesOrGoes, PowerCut, FactoryReset
<1>8. QED
  BY <1>1, <1>2, <1>3, <1>4, <1>5, <1>6, <1>7 DEF Next, NetTask

(* Every step keeps what is known of the image that runs, the one that     *)
(* waits and the one to go back to.                                        *)
LEMMA ImagesStayGood ==
  ASSUME IInv, Next
  PROVE  FinishedIsVerified' /\ PreviousIsGood' /\ RunningIsGood'
<1> DEFINE Good == FinishedIsVerified /\ PreviousIsGood /\ RunningIsGood
<1> USE DEF FinishedIsVerified, PreviousIsGood, RunningIsGood
<1>0. Types /\ Good /\ slot \in Slot /\ app \in Image
  BY DEF IInv, Types
<1>1. CASE Boot
  BY <1>0, <1>1 DEF Boot, Slot, Image
<1>2. CASE Quiet
  BY <1>0, <1>2 DEF Quiet, health
<1>3. CASE DownloadFails
  BY <1>0, <1>3 DEF DownloadFails, health, Empty, Slot
<1>4. CASE DownloadEnds
  BY <1>0, <1>4 DEF DownloadEnds, health
<1>5. CASE Verify
  BY <1>0, <1>5 DEF Verify, health, Empty, Slot
<1>6. CASE Commit
  BY <1>0, <1>6 DEF Commit, health, Empty, Slot
<1>7. CASE Mark
  BY <1>0, <1>7 DEF Mark, health
<1>8. CASE Reboot
  BY <1>0, <1>8 DEF Reboot, GoDown
<1>9. CASE Confirmed
  BY <1>0, <1>9 DEF Confirmed, Evaluating, allCriteriaMet, Image, link
<1>10. CASE Expired
  BY <1>0, <1>10 DEF Expired, Evaluating, link
<1>11. CASE NotYet
  BY <1>0, <1>11 DEF NotYet, Evaluating, link
<1>12. CASE RollBack
  BY <1>0, <1>12 DEF RollBack, Empty, Slot, health
<1>13. ASSUME NEW m \in Manifest, ManifestArrives(m) PROVE Good'
  <2>1. pc = "run" /\ UNCHANGED <<app, flag, trial>>
    BY <1>13 DEF ManifestArrives, health
  <2>2. CASE pc' = "health" /\ UNCHANGED <<slot, mishap>>
    BY <1>0, <2>1, <2>2
  <2>3. CASE pc' = "download" /\ slot' = [slot EXCEPT !.holds = "partial"]
             /\ mishap' = (mishap \/ trial)
    <3>1. ~mishap' => ~mishap /\ ~trial
      BY <2>3
    <3>2. ~mishap' => app.accepted
      BY <1>0, <2>1, <3>1
    <3>3. slot'.holds = "partial"
      BY <1>0, <2>3 DEF Slot
    <3>4. QED
      BY <1>0, <2>1, <2>3, <3>1, <3>2, <3>3
  <2>4. QED
    BY <1>13, <2>2, <2>3 DEF ManifestArrives
<1>14. CASE ConfirmArrives
  BY <1>0, <1>14 DEF ConfirmArrives, link
<1>15. CASE Clock \/ ControlTick
  BY <1>0, <1>15 DEF Clock, ControlTick, link
<1>16. CASE WifiUp \/ BrokerComesOrGoes
  BY <1>0, <1>16 DEF WifiUp, BrokerComesOrGoes, health
<1>17. CASE PowerCut
  BY <1>0, <1>17 DEF PowerCut, GoDown, Unprotected
<1>18. CASE FactoryReset
  BY <1>0, <1>18 DEF FactoryReset, GoDown, Unprotected
<1>19. QED
  BY <1>1, <1>2, <1>3, <1>4, <1>5, <1>6, <1>7, <1>8, <1>9, <1>10, <1>11, <1>12, <1>13, <1>14,
     <1>15, <1>16, <1>17, <1>18 DEF Next, NetTask

LEMMA Inductive == IInv /\ [Next]_vars => IInv'
<1> SUFFICES ASSUME IInv, [Next]_vars PROVE IInv'
  OBVIOUS
<1>1. CASE Next
  BY <1>1, TypesKeep, OffersKeepFitting, ImagesStayGood DEF IInv
<1>2. CASE UNCHANGED vars
  <2>1. UNCHANGED <<pc, app, slot, manifest, flag, trial, age, criteria, operational, online,
                    mishap>>
    BY <1>2 DEF vars, health, link
  <2>2. Types' /\ OffersFit'
    BY <2>1 DEF IInv, Types, OffersFit
  <2>3. FinishedIsVerified' /\ PreviousIsGood' /\ RunningIsGood'
    BY <2>1 DEF IInv, FinishedIsVerified, PreviousIsGood, RunningIsGood
  <2>4. QED
    BY <2>2, <2>3 DEF IInv
<1>3. QED
  BY <1>1, <1>2

----------------------------------------------------------------------------
(* The update's state keeps its types, and the device is never online      *)
(* before it is operational.                                               *)
THEOREM TypeCorrect == Spec => []TypeOK
<1>1. IInv => TypeOK
  BY DEF IInv, TypeOK, FinishedIsVerified
<1>2. QED
  BY <1>1, InitEstablishes, Inductive, PTL DEF Spec

(* Only a signed image made for this hardware and this slot ever runs, but *)
(* for the mishaps and the oversized numbers OnlyVerifiedRuns excepts      *)
(* (ota_service.h:53-81).                                                  *)
THEOREM RunsOnlyVerified == Spec => []OnlyVerifiedRuns
<1>1. IInv => OnlyVerifiedRuns
  BY DEF IInv, OffersFit, RunningIsGood, OnlyVerifiedRuns
<1>2. QED
  BY <1>1, InitEstablishes, Inductive, PTL DEF Spec

(* An image that has not been accepted cannot slip past its trial by being *)
(* restarted (composition_root.h:199-204, 400-412).                        *)
THEOREM UnprovenStaysOnTrial == Spec => []UnprovenIsOnTrial
<1>1. IInv => UnprovenIsOnTrial
  BY DEF IInv, RunningIsGood, UnprovenIsOnTrial
<1>2. QED
  BY <1>1, InitEstablishes, Inductive, PTL DEF Spec

(* However a trial ends there is an image to end it with: while the one    *)
(* that runs has not proved itself the slot keeps one that has, signed and *)
(* made for this hardware (ota_impl.h:52-62, composition_root.h:407-412).  *)
WayBack ==
  ~mishap /\ ~app.accepted =>
    /\ slot.holds = "previous"
    /\ slot.image.accepted /\ slot.image.sound /\ slot.image.origin # "foreign"

THEOREM TrialsHaveWayBack == Spec => []WayBack
<1>1. IInv => WayBack
  BY DEF IInv, OffersFit, PreviousIsGood, WayBack
<1>2. QED
  BY <1>1, InitEstablishes, Inductive, PTL DEF Spec

----------------------------------------------------------------------------
(* Step by step, an update is a SafeUpdate.                                *)
OursOnly == {i \in Image : i.sound /\ i.origin # "foreign"}

LEMMA UpdateStarts == Init => Update!Init
<1> SUFFICES ASSUME Init PROVE Update!Init
  OBVIOUS
<1>1. PICK v \in Versions : app = [ver |-> v, origin |-> "fits", sound |-> TRUE, accepted |-> TRUE]
  BY DEF Init
<1>2. app \in OursOnly /\ app.accepted
  BY <1>1 DEF OursOnly, Image, Origin
<1>3. slot.holds = "nothing" /\ mishap = FALSE
  BY DEF Init
<1>4. QED
  BY <1>2, <1>3 DEF Update!Init, OursOnly, Waiting

LEMMA MishapsStay ==
  ASSUME Types, Next, ~mishap'
  PROVE  mishap = FALSE /\ mishap' = FALSE
<1> USE DEF Types, health, link
<1>1. ASSUME NEW m \in Manifest, ManifestArrives(m) PROVE mishap = FALSE /\ mishap' = FALSE
  <2>1. mishap' = mishap \/ mishap' = (mishap \/ trial)
    BY <1>1 DEF ManifestArrives
  <2>2. QED
    BY <2>1
<1>2. CASE \/ Boot \/ Quiet \/ DownloadFails \/ DownloadEnds \/ Verify \/ Commit \/ Mark \/ Reboot
  BY <1>2 DEF Boot, Quiet, DownloadFails, DownloadEnds, Verify, Commit, Mark, Reboot
<1>3. CASE Confirmed \/ Expired \/ NotYet \/ RollBack
  BY <1>3 DEF Confirmed, Expired, NotYet, RollBack, Evaluating
<1>4. CASE \/ ConfirmArrives \/ Clock \/ ControlTick \/ WifiUp \/ BrokerComesOrGoes
           \/ PowerCut \/ FactoryReset
  BY <1>4 DEF ConfirmArrives, Clock, ControlTick, WifiUp, BrokerComesOrGoes, PowerCut, FactoryReset
<1>5. QED
  BY <1>1, <1>2, <1>3, <1>4 DEF Next, NetTask

(* What a step that ends in no mishap does to the two images.              *)
LEMMA BootStarts ==
  ASSUME IInv, ~mishap', Boot
  PROVE  Update!Start \/ UNCHANGED Update!vars
<1>1. mishap' = mishap
  BY DEF Boot
<1>2. CASE slot.holds = "finished"
  <2>1. app' = slot.image /\ slot' = [holds |-> "previous", image |-> app]
    BY <1>2 DEF Boot
  <2>2. Waiting /\ ~Waiting' /\ slot.holds # "previous" /\ slot'.holds = "previous"
        /\ slot'.image = app
    BY <1>2, <2>1 DEF Boot, Waiting
  <2>3. QED
    BY <2>1, <2>2 DEF Update!Start
<1>3. CASE slot.holds # "finished"
  <2>1. UNCHANGED <<app, slot, mishap>> /\ ~Waiting /\ ~Waiting'
    BY <1>3 DEF Boot, Waiting
  <2>2. QED
    BY <2>1 DEF Update!vars
<1>4. QED
  BY <1>2, <1>3

(* Emptying the slot of a device whose image is accepted.                  *)
LEMMA EmptyingGivesUp ==
  ASSUME Types, app.accepted, slot' = Empty(slot), UNCHANGED <<app, mishap>>, ~Waiting
  PROVE  Update!GiveUp
<1>1. slot'.holds = "nothing"
  BY DEF Empty, Types, Slot
<1>2. ~Waiting'
  BY <1>1 DEF Waiting
<1>3. QED
  BY <1>1, <1>2 DEF Update!GiveUp

LEMMA CommitStages ==
  ASSUME IInv, ~mishap', Commit
  PROVE  Update!Stage \/ Update!GiveUp \/ UNCHANGED Update!vars
<1>0. pc = "commit" /\ UNCHANGED <<app, mishap>> /\ ~Waiting /\ slot \in Slot /\ ~mishap
  BY DEF Commit, Waiting, IInv, Types
<1>1. CASE pc' = "mark" /\ slot' = slot /\ slot.holds = "finished"
  <2>1. slot.image \in OursOnly /\ ~slot.image.accepted /\ app.accepted
    BY <1>0, <1>1 DEF IInv, FinishedIsVerified, PreviousIsGood, OffersFit, OursOnly, Slot
  <2>2. Waiting' /\ slot'.image = slot.image /\ slot.holds # "previous" /\ slot'.holds # "previous"
    BY <1>1 DEF Waiting
  <2>3. QED
    BY <1>0, <2>1, <2>2 DEF Update!Stage, OursOnly
<1>2. CASE pc' = "mark" /\ slot' = slot /\ slot.holds # "finished"
  <2>1. ~Waiting'
    BY <1>2 DEF Waiting
  <2>2. QED
    BY <1>0, <1>2, <2>1 DEF Update!vars
<1>3. CASE pc' = "health" /\ slot' = Empty(slot)
  <2>1. app.accepted /\ Types
    BY <1>0 DEF IInv, PreviousIsGood
  <2>2. QED
    BY <1>0, <1>3, <2>1, EmptyingGivesUp
<1>4. QED
  BY <1>1, <1>2, <1>3 DEF Commit

LEMMA DownloadsStayOutside ==
  ASSUME IInv, ~mishap', DownloadFails \/ DownloadEnds \/ Verify
  PROVE  Update!GiveUp \/ UNCHANGED Update!vars
<1>1. UNCHANGED <<app, mishap>> /\ pc \in {"download", "verify"} /\ ~Waiting /\ ~mishap /\ Types
  BY DEF DownloadFails, DownloadEnds, Verify, Waiting, IInv
<1>2. app.accepted
  BY <1>1 DEF IInv, PreviousIsGood
<1>3. CASE slot' = Empty(slot)
  BY <1>1, <1>2, <1>3, EmptyingGivesUp
<1>4. CASE DownloadEnds
  <2>1. slot'.holds = "finished" /\ pc' = "verify"
    BY <1>4 DEF DownloadEnds
  <2>2. ~Waiting' /\ slot'.holds # "previous"
    BY <2>1 DEF Waiting
  <2>3. QED
    BY <1>1, <1>2, <2>2 DEF Update!GiveUp
<1>5. CASE Verify /\ slot' = slot
  <2>1. pc' \in {"commit", "health"}
    BY <1>5 DEF Verify
  <2>2. ~Waiting'
    BY <2>1 DEF Waiting
  <2>3. QED
    BY <1>1, <1>5, <2>2 DEF Update!vars
<1>6. QED
  BY <1>3, <1>4, <1>5 DEF DownloadFails, Verify

LEMMA ManifestGivesUp ==
  ASSUME IInv, ~mishap', NEW m \in Manifest, ManifestArrives(m)
  PROVE  Update!GiveUp \/ UNCHANGED Update!vars
<1>1. app' = app /\ pc = "run" /\ ~Waiting
  BY DEF ManifestArrives, Waiting
<1>2. CASE pc' = "health" /\ UNCHANGED <<slot, mishap>>
  <2>1. ~Waiting'
    BY <1>2 DEF Waiting
  <2>2. QED
    BY <1>1, <1>2, <2>1 DEF Update!vars
<1>3. CASE slot' = [slot EXCEPT !.holds = "partial"] /\ mishap' = (mishap \/ trial)
  <2>1. ~mishap /\ ~trial
    BY <1>3
  <2>2. app.accepted
    BY <1>1, <2>1 DEF IInv, RunningIsGood
  <2>3. slot'.holds = "partial"
    BY <1>3 DEF IInv, Types, Slot
  <2>4. ~Waiting'
    BY <2>3 DEF Waiting
  <2>5. mishap' = mishap
    BY <1>3, <2>1 DEF IInv, Types
  <2>6. QED
    BY <1>1, <2>2, <2>3, <2>4, <2>5 DEF Update!GiveUp
<1>4. QED
  BY <1>2, <1>3 DEF ManifestArrives

LEMMA RollBackGoesBack ==
  ASSUME IInv, ~mishap', RollBack
  PROVE  Update!GoBack
<1>1. slot.holds = "previous" /\ app' = slot.image /\ slot' = Empty(slot)
  BY DEF RollBack
<1>2. slot'.holds = "nothing"
  BY <1>1 DEF Empty, IInv, Types, Slot
<1>3. ~Waiting /\ ~Waiting'
  BY <1>1, <1>2 DEF Waiting
<1>4. QED
  BY <1>1, <1>2, <1>3 DEF Update!GoBack

LEMMA ConfirmedProves ==
  ASSUME IInv, Confirmed
  PROVE  Update!Prove
<1>1. AllCriteria \subseteq Observed /\ UNCHANGED <<slot, mishap>> /\ pc = "health" /\ pc' = "run"
  BY DEF Confirmed, Evaluating, allCriteriaMet, link
<1>2. app' = [app EXCEPT !.accepted = TRUE]
  BY <1>1 DEF Confirmed
<1>3. ~Waiting /\ ~Waiting'
  BY <1>1 DEF Waiting
<1>4. QED
  BY <1>1, <1>2, <1>3 DEF Update!Prove

(* The other steps leave the images alone, and a finished one where it     *)
(* was, unless power goes before anybody has verified and flagged it.      *)
LEMMA RestStutters ==
  ASSUME IInv, ~mishap', UNCHANGED <<app, slot>>,
         \/ Quiet \/ Mark \/ Reboot \/ Expired \/ NotYet \/ ConfirmArrives
         \/ Clock \/ ControlTick \/ WifiUp \/ BrokerComesOrGoes \/ PowerCut \/ FactoryReset
  PROVE  UNCHANGED Update!vars
<1>1. CASE Quiet \/ ConfirmArrives \/ WifiUp \/ BrokerComesOrGoes
  BY <1>1 DEF Quiet, ConfirmArrives, WifiUp, BrokerComesOrGoes, Update!vars, Waiting
<1>2. CASE Clock \/ ControlTick
  BY <1>2 DEF Clock, ControlTick, Update!vars, Waiting
<1>3. CASE Expired \/ NotYet
  BY <1>3 DEF Expired, NotYet, Evaluating, Update!vars, Waiting
<1>4. CASE Mark
  BY <1>4 DEF Mark, Update!vars, Waiting, IInv, Types
<1>5. CASE Reboot
  BY <1>5 DEF Reboot, GoDown, Update!vars, Waiting
<1>6. CASE PowerCut \/ FactoryReset
  <2>1. mishap' = mishap /\ ~Unprotected /\ pc' = "off" /\ pc # "off"
    BY <1>6 DEF PowerCut, FactoryReset, GoDown, IInv, Types
  <2>2. slot.holds = "finished" => pc = "reboot"
    BY <2>1 DEF IInv, FinishedIsVerified, Unprotected
  <2>3. Waiting' <=> Waiting
    BY <2>1, <2>2 DEF Waiting
  <2>4. QED
    BY <2>1, <2>3 DEF Update!vars
<1>7. QED
  BY <1>1, <1>2, <1>3, <1>4, <1>5, <1>6

LEMMA UpdateSteps == IInv /\ [Next]_vars => [Update!Next]_(Update!vars)
<1> SUFFICES ASSUME IInv, [Next]_vars
             PROVE  Update!Next \/ UNCHANGED Update!vars
  OBVIOUS
<1>1. CASE UNCHANGED vars
  <2>1. UNCHANGED <<pc, app, slot, mishap>>
    BY <1>1 DEF vars
  <2>2. QED
    BY <2>1 DEF Update!vars, Waiting
<1>2. CASE mishap'
  BY <1>2 DEF Update!Next
<1>3. CASE Next /\ ~mishap'
  <2>1. ~mishap /\ mishap' = mishap
    BY <1>3, MishapsStay DEF IInv
  <2> SUFFICES \/ Update!Stage \/ Update!GiveUp \/ Update!Start \/ Update!Prove \/ Update!GoBack
               \/ UNCHANGED Update!vars
    BY <2>1 DEF Update!Next
  <2>2. CASE Boot \/ Commit \/ RollBack \/ Confirmed
    BY <1>3, <2>2, BootStarts, CommitStages, RollBackGoesBack, ConfirmedProves
  <2>3. CASE DownloadFails \/ DownloadEnds \/ Verify
    BY <1>3, <2>3, DownloadsStayOutside
  <2>4. ASSUME NEW m \in Manifest, ManifestArrives(m)
        PROVE  Update!GiveUp \/ UNCHANGED Update!vars
    BY <1>3, <2>4, ManifestGivesUp
  <2>5. CASE \/ Quiet \/ Mark \/ Reboot \/ Expired \/ NotYet \/ ConfirmArrives
             \/ Clock \/ ControlTick \/ WifiUp \/ BrokerComesOrGoes \/ PowerCut \/ FactoryReset
    <3>1. UNCHANGED <<app, slot>>
      BY <2>5 DEF Quiet, Mark, Reboot, Expired, NotYet, ConfirmArrives, Clock, ControlTick, WifiUp,
                  BrokerComesOrGoes, PowerCut, FactoryReset
    <3>2. QED
      BY <1>3, <2>5, <3>1, RestStutters
  <2>6. QED
    BY <1>3, <2>2, <2>3, <2>4, <2>5 DEF Next, NetTask
<1>4. QED
  BY <1>1, <1>2, <1>3

(* A genuine image runs, proved or with a proved one beside it, and is     *)
(* replaced only by way of stage, start, prove or go back, at whatever     *)
(* points downloads fail, images are refused and power goes, until the     *)
(* first mishap (ota_service.h:45-69, composition_root.h:193-204, 399-412).*)
THEOREM UpdatesAreSafe == Spec => UpdateIsSafe
<1>1. Init => Update!Init
  BY UpdateStarts
<1>2. IInv /\ [Next]_vars => [Update!Next]_(Update!vars)
  BY UpdateSteps
<1>3. QED
  BY <1>1, <1>2, InitEstablishes, Inductive, PTL DEF Spec, UpdateIsSafe, Update!Spec

----------------------------------------------------------------------------
(* What TrialEndsOnWifi rests on.  Where the Net task stands in a netTick, *)
(* counted down to the restart that ends a trial.                          *)
Left == [run |-> 8, download |-> 7, verify |-> 6, commit |-> 5, mark |-> 4,
         health |-> 3, rollback |-> 2, reboot |-> 1, off |-> 0]

(* A trial that goes on has not gained time, or lost the criterion it has  *)
(* met, and once its window is over the Net task has nowhere to go but     *)
(* down.                                                                   *)
TrialAdvances ==
  trial /\ trial' =>
    /\ age' >= age
    /\ "localControl" \in criteria => "localControl" \in criteria'
    /\ age = Window => pc' = pc \/ Left[pc'] < Left[pc]

TrialRunsOut == [][TrialAdvances]_vars

(* No trial is under way without power.                                    *)
TrialHasPower == pc = "off" => trial = FALSE

LEMMA TrialKeepsPower ==
  /\ Init => TrialHasPower
  /\ TrialHasPower /\ [Next]_vars => TrialHasPower'
<1>1. Init => TrialHasPower
  BY DEF Init, TrialHasPower
<1> SUFFICES ASSUME TrialHasPower, [Next]_vars, pc' = "off" PROVE trial' = FALSE
  BY <1>1 DEF TrialHasPower
<1>2. CASE UNCHANGED vars
  BY <1>2 DEF vars, health, TrialHasPower
<1>3. CASE Reboot \/ PowerCut \/ FactoryReset
  BY <1>3 DEF Reboot, PowerCut, FactoryReset, GoDown
<1>4. CASE Clock \/ ControlTick \/ WifiUp \/ BrokerComesOrGoes
  BY <1>4 DEF Clock, ControlTick, WifiUp, BrokerComesOrGoes, health, TrialHasPower
<1>5. CASE \/ Boot \/ Quiet \/ ConfirmArrives \/ DownloadFails \/ DownloadEnds \/ Verify \/ Commit
           \/ Mark \/ Confirmed \/ Expired \/ NotYet \/ RollBack
  BY <1>5 DEF Boot, Quiet, ConfirmArrives, DownloadFails, DownloadEnds, Verify, Commit, Mark,
         Confirmed, Expired, NotYet, RollBack
<1>6. CASE \E m \in Manifest : ManifestArrives(m)
  BY <1>6 DEF ManifestArrives
<1>7. QED
  BY <1>2, <1>3, <1>4, <1>5, <1>6 DEF Next, NetTask

LEMMA TrialSteps ==
  ASSUME Types, TrialHasPower, Next
  PROVE  TrialAdvances
<1> SUFFICES ASSUME trial, trial'
             PROVE  /\ age' >= age
                    /\ "localControl" \in criteria => "localControl" \in criteria'
                    /\ age = Window => pc' = pc \/ Left[pc'] < Left[pc]
  BY DEF TrialAdvances
<1>1. age \in Nat /\ Window \in Nat /\ age <= Window
  BY WindowAssumption DEF Types
<1>2. CASE Boot \/ Reboot \/ PowerCut \/ FactoryReset
  <2>1. CASE Boot
    BY <2>1 DEF Boot, TrialHasPower
  <2>2. CASE Reboot \/ PowerCut \/ FactoryReset
    BY <2>2 DEF Reboot, PowerCut, FactoryReset, GoDown
  <2>3. QED
    BY <1>2, <2>1, <2>2
<1>3. CASE \E m \in Manifest : ManifestArrives(m)
  <2>1. pc = "run" /\ pc' \in {"health", "download"} /\ UNCHANGED health
    BY <1>3 DEF ManifestArrives
  <2>2. QED
    BY <1>1, <2>1 DEF health, Left
<1>4. CASE Quiet \/ ConfirmArrives
  BY <1>1, <1>4 DEF Quiet, ConfirmArrives, health, Left
<1>5. CASE DownloadFails \/ DownloadEnds \/ Verify \/ Commit \/ Mark
  BY <1>1, <1>5 DEF DownloadFails, DownloadEnds, Verify, Commit, Mark, health, Left
<1>6. CASE Confirmed \/ Expired \/ NotYet
  <2>1. criteria' = Observed /\ age' = age /\ criteria \subseteq Observed /\ pc = "health"
    BY <1>6 DEF Confirmed, Expired, NotYet, Evaluating, Observed
  <2>2. age = Window => pc' = "rollback"
    <3>1. ~Confirmed
      BY DEF Confirmed
    <3>2. NotYet => age < Window
      BY DEF NotYet
    <3>3. Expired => pc' = "rollback"
      BY DEF Expired
    <3>4. QED
      BY <1>1, <1>6, <3>1, <3>2, <3>3
  <2>3. QED
    BY <1>1, <2>1, <2>2 DEF Left
<1>7. CASE RollBack
  BY <1>1, <1>7 DEF RollBack, health, Left
<1>8. CASE Clock \/ ControlTick \/ WifiUp \/ BrokerComesOrGoes
  BY <1>1, <1>8 DEF Clock, ControlTick, WifiUp, BrokerComesOrGoes, health
<1>9. QED
  BY <1>2, <1>3, <1>4, <1>5, <1>6, <1>7, <1>8 DEF Next, NetTask

(* A trial is never given more time: its window only closes, what it has   *)
(* proved stays proved, and past the window every step of the Net task goes*)
(* nearer to the restart, with no way back to the next netTick             *)
(* (composition_root.h:260, 399-412, ota_health_confirm.h:42-47).          *)
THEOREM TrialsRunOut == Spec => TrialRunsOut
<1>1. Types /\ TrialHasPower /\ [Next]_vars => [TrialAdvances]_vars
  BY TrialSteps
<1>2. TypeOK => Types
  BY DEF TypeOK
<1>3. QED
  BY TypeCorrect, TrialKeepsPower, <1>1, <1>2, PTL DEF Spec, TrialRunsOut
==============================================================================
