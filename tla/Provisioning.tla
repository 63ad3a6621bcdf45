---------------------------- MODULE Provisioning ----------------------------
(***************************************************************************)
(* Getting the switch onto a network and giving it an identity: the        *)
(* provisioning state machine of the Net task                              *)
(* (net/provisioning_service.h), both enrollments (net/provisioning_impl.h,*)
(* HttpEnrollment and the KvsDevEnrollment stand-in), the keys they leave  *)
(* in the key-value store and what the next boot makes of them, under      *)
(* power cuts, flash writes that fail and factory resets by the Control    *)
(* task.  Every flash write is a step of its own, since power can fail     *)
(* between any two; a single key is written whole or not at all (FlashDB). *)
(***************************************************************************)
EXTENDS Naturals, Sequences, FiniteSets

CONSTANTS
  Network,       (* the Wi-Fi networks somebody may enter                  *)
  NoValue,       (* a key that is absent                                   *)
  Wrong,         (* a password that opens no network                       *)
  Cut,           (* a key whose end did not arrive                         *)
  MaxFaults,     (* bound: flash failures, power cuts between writes, and
                    answers cut short                                      *)
  MaxIdentities  (* bound: identities the enrollment server hands out      *)

ASSUME ValueAssumption    == /\ Cardinality({NoValue, Wrong, Cut}) = 3
                             /\ {NoValue, Wrong, Cut} \cap (Network \cup 0 .. MaxIdentities) = {}
ASSUME NetworkAssumption  == Network # {}
ASSUME FaultsAssumption   == MaxFaults \in Nat
ASSUME IdentityAssumption == MaxIdentities \in Nat

(* The keys factoryReset wipes, in its order; enroll_token stands as 0.    *)
(* mqtt_root is as optional as device_id and left out; relay_state and     *)
(* ota_pending are in ControlPlane and OtaUpdate.                          *)
Identity == {"tls_ca", "tls_cert", "tls_key", "mqtt_host", "device_id"}
WipeOrderForgetsKey ==
  <<"sta_ssid", "sta_pass", "enroll_token", "mqtt_host", "device_id", "tls_ca", "tls_cert">>
WipeOrder ==
  <<"sta_ssid", "sta_pass", "enroll_token", "mqtt_host", "device_id",
    "tls_ca", "tls_cert", "tls_key">>
Key == Identity \cup {"sta_ssid", "sta_pass", "enroll_token"}

Credentials == [ssid : Network, pass : Network \cup {Wrong}, token : BOOLEAN]
Value       == Network \cup {Wrong, NoValue, Cut} \cup 0 .. MaxIdentities

VARIABLES
  build,         (* "http" with ENROLL_URL set, else "dev"                 *)
  power,         (* TRUE: running                                          *)
  air,           (* the networks in reach                                  *)
  npc,           (* where the Net task stands                              *)
  state,         (* ProvisioningService::state_                            *)
  ap, portal,    (* SoftAP up; form being served                           *)
  sta,           (* joined to a network                                    *)
  pending,       (* pending_, the credentials under test                   *)
  todo,          (* <<key, value>> writes persistCreds or store still has  *)
  ok,            (* store's ok                                             *)
  mqtt,          (* what bringUpMqtt has loaded; {}: MQTT is off           *)
  kv,            (* the key-value store                                    *)
  wipe,          (* keys factoryReset has still to erase; <<>>: no reset   *)
  issued,        (* history: identities handed out                         *)
  faults         (* history: writes and erases that failed or were cut off,
                    and answers cut short                                  *)

radio == <<ap, portal, sta>>
ram   == <<npc, state, radio, pending, todo, ok, wipe>>
vars  == <<build, power, air, ram, mqtt, kv, issued, faults>>

Has(key)  == kv[key] # NoValue
NoPending == [ssid |-> CHOOSE n \in Network : TRUE, pass |-> Wrong, token |-> FALSE]

(* No group of writes or erases is in progress.                            *)
Settled == todo = << >> /\ wipe = << >>

(* One more write or erase that fails, or group of them cut short.         *)
Fault == faults < MaxFaults /\ faults' = faults + 1

(* connectSta: the password fits and the network is there.                 *)
Joins(ssid, pass) == ssid = pass /\ ssid \in air

hasStoredCreds     == Has("sta_ssid")
hasOperationalCert == Has("tls_cert") \/ (build = "dev" /\ Has("enroll_token"))

Init ==
  /\ build \in {"http", "dev"}
  /\ power = TRUE
  /\ air \in SUBSET Network
  /\ npc = "begin" /\ state = "ApPortal"
  /\ ap = FALSE /\ portal = FALSE /\ sta = FALSE
  /\ pending = NoPending /\ todo = << >> /\ ok = TRUE /\ wipe = << >>
  /\ \E seed \in {NoValue, 0} :                        (* seedEnrollToken *)
       kv = [k \in Key |-> IF k = "enroll_token" THEN seed ELSE NoValue]
  /\ mqtt = {} /\ issued = 0 /\ faults = 0

----------------------------------------------------------------------------
(* The Net task, which runs only while the Control task is not resetting.  *)

Running == power /\ wipe = << >>

GoOperational(joined) ==
  /\ npc' = "run" /\ state' = "Operational"
  /\ sta' = joined /\ pending' = NoPending       (* nobody reads it again *)
  /\ UNCHANGED <<ap, portal>>

(* openPortal: startAp gives up the STA first.                             *)
OpenPortal ==
  /\ npc' = "portal" /\ state' = "ApPortal"
  /\ sta' = FALSE /\ ap' = TRUE /\ portal' = TRUE /\ pending' = NoPending

FailedStuck ==
  /\ npc' = "run" /\ state' = "Failed"
  /\ sta' = FALSE
  /\ UNCHANGED <<ap, portal, pending>>

(* onTestFailed passes through Failed to the portal.                       *)
TestFailed == OpenPortal

Begin ==
  /\ Running /\ npc = "begin"
  /\ IF hasStoredCreds /\ hasOperationalCert /\ Joins(kv["sta_ssid"], kv["sta_pass"])
       THEN GoOperational(TRUE)
       ELSE OpenPortal
  /\ UNCHANGED <<build, power, air, mqtt, todo, ok, wipe, kv, issued, faults>>

(* onCredentialsSubmitted with an SSID: AP down before anything else.      *)
SubmitKeepsAp(creds) ==
  /\ Running /\ npc = "portal"
  /\ pending' = creds
  /\ npc' = "join" /\ state' = "TestingCreds"
  /\ portal' = FALSE
  /\ UNCHANGED <<build, power, air, mqtt, ap, sta, todo, ok, wipe, kv, issued, faults>>

Submit(creds) ==
  /\ Running /\ npc = "portal"
  /\ pending' = creds
  /\ npc' = "join" /\ state' = "TestingCreds"
  /\ portal' = FALSE /\ ap' = FALSE
  /\ UNCHANGED <<build, power, air, mqtt, sta, todo, ok, wipe, kv, issued, faults>>

CredWrites == << <<"sta_ssid", pending.ssid>>, <<"sta_pass", pending.pass>> >>

JoinStoresFirst ==
  /\ Running /\ npc = "join"
  /\ todo' = CredWrites /\ ok' = TRUE
  /\ npc' = "creds" /\ sta' = Joins(pending.ssid, pending.pass)
  /\ UNCHANGED <<state, ap, portal, pending>>
  /\ UNCHANGED <<build, power, air, mqtt, wipe, kv, issued, faults>>

Join ==
  /\ Running /\ npc = "join"
  /\ \/ /\ Joins(pending.ssid, pending.pass)
        /\ sta' = TRUE
        /\ todo' = CredWrites /\ ok' = TRUE
        /\ npc' = "creds"
        /\ UNCHANGED <<state, ap, portal, pending>>
     \/ /\ ~Joins(pending.ssid, pending.pass)
        /\ TestFailed
        /\ UNCHANGED <<todo, ok>>
  /\ UNCHANGED <<build, power, air, mqtt, wipe, kv, issued, faults>>

(* setBlob, the next of the writes in progress; store goes on after a      *)
(* failure and only remembers it.                                          *)
WriteKey ==
  /\ Running /\ todo # << >>
  /\ todo' = Tail(todo)
  /\ \/ /\ kv' = [kv EXCEPT ![Head(todo)[1]] = Head(todo)[2]]
        /\ UNCHANGED <<ok, faults>>
     \/ /\ Fault
        /\ ok' = FALSE
        /\ UNCHANGED kv
  /\ UNCHANGED <<build, power, air, mqtt, npc, state, radio, pending, wipe, issued>>

(* persistCreds done, whatever setBlob returned: on to runEnrollment.      *)
CredsStored ==
  /\ Running /\ npc = "creds" /\ todo = << >>
  /\ npc' = "enroll" /\ state' = "IdentityBootstrap"
  /\ UNCHANGED <<build, power, air, mqtt, radio, pending, todo, ok, wipe, kv, issued, faults>>

(* enroll: nothing to do, nothing to do it with, or no usable answer.      *)
AlreadyEnrolled ==
  /\ Running /\ npc = "enroll"
  /\ build = "http" /\ hasOperationalCert
  /\ GoOperational(sta)
  /\ UNCHANGED <<build, power, air, mqtt, todo, ok, wipe, kv, issued, faults>>

EnrollFails ==
  /\ Running /\ npc = "enroll"
  /\ \/ build = "dev" /\ ~pending.token
     \/ build = "http" /\ ~hasOperationalCert
  /\ TestFailed
  /\ UNCHANGED <<build, power, air, mqtt, todo, ok, wipe, kv, issued, faults>>

DevEnroll ==
  /\ Running /\ npc = "enroll"
  /\ build = "dev" /\ pending.token
  /\ todo' = << <<"enroll_token", 0>> >> /\ ok' = TRUE
  /\ npc' = "store"
  /\ UNCHANGED <<build, power, air, mqtt, state, radio, pending, wipe, kv, issued, faults>>

(* The server answers with a complete identity, device_id being optional.  *)
(* An answer cut short in its last field, the key, is as good as a whole   *)
(* one to the parser; cut any earlier it lacks a field and EnrollFails.    *)
RequiredWithoutHost(g, key) == << <<"tls_ca", g>>, <<"tls_cert", g>>, <<"tls_key", key>> >>
Required(g, key) ==
  << <<"tls_ca", g>>, <<"tls_cert", g>>, <<"tls_key", key>>, <<"mqtt_host", g>> >>
Enroll(withId) ==
  LET g == issued + 1 IN
  /\ Running /\ npc = "enroll"
  /\ build = "http" /\ ~hasOperationalCert
  /\ pending.token \/ Has("enroll_token")
  /\ issued < MaxIdentities
  /\ issued' = g
  /\ \E key \in {g, Cut} :
       /\ IF key = Cut THEN Fault ELSE UNCHANGED faults
       /\ todo' = IF withId THEN Append(Required(g, key), <<"device_id", g>>)
                            ELSE Required(g, key)
  /\ ok' = TRUE
  /\ npc' = "store"
  /\ UNCHANGED <<build, power, air, mqtt, state, radio, pending, wipe, kv>>

Stored ==
  /\ Running /\ npc = "store" /\ todo = << >>
  /\ IF ok THEN GoOperational(sta) ELSE TestFailed
  /\ UNCHANGED <<build, power, air, mqtt, todo, ok, wipe, kv, issued, faults>>

----------------------------------------------------------------------------
(* The Control task's factory reset, power and the neighbourhood.          *)

ResetBegins ==
  /\ Running
  /\ wipe' = WipeOrder
  /\ UNCHANGED <<build, power, air, mqtt, npc, state, radio, pending, todo, ok, kv, issued, faults>>

SwitchOff ==
  /\ power' = FALSE
  /\ npc' = "begin" /\ state' = "ApPortal"
  /\ ap' = FALSE /\ portal' = FALSE /\ sta' = FALSE
  /\ pending' = NoPending /\ todo' = << >> /\ ok' = TRUE /\ wipe' = << >>
  /\ mqtt' = {}
  /\ UNCHANGED <<build, air, issued>>

(* Erasing the last key ends in a reboot; erase's result is ignored.       *)
Erase ==
  /\ power /\ wipe # << >>
  /\ \/ kv' = [kv EXCEPT ![Head(wipe)] = NoValue] /\ UNCHANGED faults
     \/ Fault /\ UNCHANGED kv
  /\ IF Len(wipe) = 1
       THEN SwitchOff
       ELSE /\ wipe' = Tail(wipe)
            /\ UNCHANGED <<build, power, air, mqtt, npc, state, radio, pending, todo, ok, issued>>

PowerCut ==
  /\ power
  /\ SwitchOff
  /\ UNCHANGED kv
  /\ IF Settled THEN UNCHANGED faults ELSE Fault

(* begin: bringUpMqtt takes all of the identity, or stays off.             *)
Loaded == {kv[k] : k \in Identity}
PowerOn ==
  /\ ~power
  /\ power' = TRUE
  /\ mqtt' = IF NoValue \in Loaded THEN {} ELSE Loaded
  /\ UNCHANGED <<build, air, ram, kv, issued, faults>>

NetworkComesOrGoes(n) ==
  /\ air' = IF n \in air THEN air \ {n} ELSE air \cup {n}
  /\ UNCHANGED <<build, power, ram, mqtt, kv, issued, faults>>

NetTask ==
  \/ Begin \/ Join \/ WriteKey \/ CredsStored
  \/ AlreadyEnrolled \/ EnrollFails \/ DevEnroll \/ Stored
  \/ \E withId \in BOOLEAN : Enroll(withId)

Next ==
  \/ NetTask
  \/ \E creds \in Credentials : Submit(creds)
  \/ ResetBegins \/ Erase \/ PowerCut \/ PowerOn
  \/ \E n \in Network : NetworkComesOrGoes(n)

(* The Net task gets its turn, and the Control task finishes a reset.      *)
Spec == Init /\ [][Next]_vars /\ WF_vars(NetTask) /\ WF_vars(Erase) /\ WF_vars(PowerOn)

----------------------------------------------------------------------------
(* Type invariant.                                                         *)
TypeOK ==
  /\ build \in {"http", "dev"} /\ power \in BOOLEAN /\ air \in SUBSET Network
  /\ npc \in {"begin", "portal", "join", "creds", "enroll", "store", "run"}
  /\ state \in {"ApPortal", "TestingCreds", "IdentityBootstrap", "Operational"}
  /\ ap \in BOOLEAN /\ portal \in BOOLEAN /\ sta \in BOOLEAN
  /\ pending \in Credentials
  /\ todo \in Seq(Key \X Value) /\ wipe \in Seq(Key)
  /\ mqtt \subseteq 1 .. MaxIdentities \cup {Cut}
  /\ ok \in BOOLEAN /\ faults \in 0 .. MaxFaults /\ issued \in 0 .. MaxIdentities
  /\ kv \in [Key -> Value]

(* The radio is never access point and station at once, and the form is    *)
(* served exactly while the access point is up                             *)
(* (provisioning_service.h:10-11, 72-104).                                 *)
ApNeverWithSta == (ap => ~sta /\ npc # "join") /\ (portal = ap)

(* A flash that keeps what it was told holds only credentials that joined  *)
(* together and only complete identities of one enrollment: nothing is     *)
(* stored untested, nothing mixed, nothing half                            *)
(* (provisioning_service.h:12-13, provisioning_impl.h:253-267).            *)
WholeIdentity ==
  /\ \A k \in Identity \ {"device_id"} : kv[k] = kv["tls_cert"]
  /\ kv["device_id"] \in {NoValue, kv["tls_cert"]}
FlashIsWhole ==
  faults = 0 /\ Settled => kv["sta_ssid"] = kv["sta_pass"] /\ WholeIdentity

(* "MQTT then connects on the next boot" (README.md:181-182): every boot   *)
(* with a flash that kept what it was told brings MQTT up with what one    *)
(* enrollment gave, if that enrollment named the device, and else leaves   *)
(* it off (provisioning_impl.h:253-267, composition_root.h:324-336).       *)
MqttIsIdentified ==
  faults = 0 /\ Running /\ npc = "begin" =>
    mqtt = IF Has("device_id") THEN {kv["tls_cert"]} ELSE {}

(* To its owner all of this is Commissioning.  What is remembered changes  *)
(* with the last write of its group and is forgotten when a reset begins   *)
(* (provisioning_service.h:42-111, provisioning_impl.h:133-149, 170-267,   *)
(* composition_root.h:324-336, 414-427).                                   *)
Stage == [begin |-> "starting", portal |-> "portal", join |-> "testing",
          creds |-> "joined", enroll |-> "joined", store |-> "joined", run |-> "service"]
Phase == IF ~power THEN "off" ELSE IF wipe # << >> THEN "resetting" ELSE Stage[npc]

Remembered(key) ==
  IF wipe # << >> \/ (npc = "store" /\ todo # << >>) THEN NoValue ELSE kv[key]

Joined        == IF Phase = "joined" THEN pending.ssid ELSE NoValue
OwnedNetwork  == IF wipe # << >> THEN NoValue ELSE kv["sta_pass"]
OwnedIdentity == IF build = "http" THEN Remembered("tls_cert")
                 ELSE IF wipe # << >> THEN NoValue ELSE kv["enroll_token"]
OwnedName     == Remembered("device_id") # NoValue

Owned == INSTANCE Commissioning WITH
  Id <- 0 .. MaxIdentities, phase <- Phase, joined <- Joined, network <- OwnedNetwork,
  identity <- OwnedIdentity, named <- OwnedName, client <- mqtt, void <- faults > 0

IsCommissioning == Owned!Spec

(* A factory reset that was not cut short leaves nothing of the owner, so  *)
(* that the device comes up in the portal (composition_root.h:417-427).    *)
ResetForgets ==
  [][wipe # << >> /\ power /\ ~power' /\ faults' = 0 => \A k \in Key : kv'[k] = NoValue]_vars

(* Whatever was submitted, the user is not left without a way in: the      *)
(* device becomes operational or serves the form again, unless it is       *)
(* restarted first (provisioning_service.h:79-104).                        *)
WayIn == (npc = "join") ~> (state = "Operational" \/ portal \/ ~power)

(* "Operational: connected + identified" (provisioning_types.h:22), which  *)
(* for an enrolled device means all that mTLS needs                        *)
(* (enrollment_response.h:36-38).                                          *)
OperationalIsIdentified ==
  build = "http" /\ power /\ wipe = << >> /\ state = "Operational" =>
    \A k \in Identity \ {"device_id"} : Has(k)

==============================================================================
