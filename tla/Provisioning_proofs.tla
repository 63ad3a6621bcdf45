------------------------- MODULE Provisioning_proofs -------------------------
(***************************************************************************)
(* For any networks, any number of identities and any number of faults:    *)
(* the radio does one thing at a time, and a flash that keeps what it was  *)
(* told is never left with half a group of keys, so that a reset forgets   *)
(* everything and MQTT boots with one whole identity or with none.         *)
(***************************************************************************)
EXTENDS Provisioning, SequenceTheorems, TLAPS

(* A group of writes, full, of which t is still to do, as it shows in m.   *)
Half(full, t, m) ==
  /\ Len(t) <= Len(full)
  /\ \A i \in 1 .. Len(t) : t[i] = full[i + (Len(full) - Len(t))]
  /\ \A i \in 1 .. Len(full) - Len(t) : m[full[i][1]] = full[i][2]

(* The same of a factory reset.                                            *)
Wiped(w, m) ==
  /\ Len(w) <= Len(WipeOrder)
  /\ \A i \in 1 .. Len(w) : w[i] = WipeOrder[i + (Len(WipeOrder) - Len(w))]
  /\ \A i \in 1 .. Len(WipeOrder) - Len(w) : m[WipeOrder[i]] = NoValue

Writes == Seq(Key \X Value)
DevWrites == << <<"enroll_token", 0>> >>
BareIdentity(g)  == Required(g, g)
NamedIdentity(g) == Append(Required(g, g), <<"device_id", g>>)

CredsAgree == kv["sta_ssid"] = kv["sta_pass"]

(* Each group of keys is whole, or on its way there.                       *)
Writing ==
  /\ npc \notin {"creds", "store"} => CredsAgree /\ WholeIdentity
  /\ npc = "creds" => /\ WholeIdentity /\ pending.ssid = pending.pass
                      /\ Half(CredWrites, todo, kv)
  /\ npc = "store" /\ build = "dev" => /\ CredsAgree /\ WholeIdentity
                                       /\ Half(DevWrites, todo, kv)
  /\ npc = "store" /\ build = "http" =>
       /\ CredsAgree
       /\ \/ Half(BareIdentity(issued), todo, kv) /\ kv["device_id"] = NoValue
          \/ Half(NamedIdentity(issued), todo, kv)

NothingIsBroken ==
  faults = 0 => /\ wipe # << >> => Wiped(wipe, kv)
                /\ wipe = << >> => Writing

(* Only enrollments write the identity.                                    *)
Enrolled == 1 .. MaxIdentities \cup {Cut}
IdentityIsEnrolled ==
  /\ \A k \in Identity : kv[k] \in Enrolled \cup {NoValue}
  /\ \A i \in 1 .. Len(todo) : todo[i][1] \in Identity => todo[i][2] \in Enrolled

(* Where the task may stand.                                               *)
Placed ==
  /\ todo # << >> => npc \in {"creds", "store"}
  /\ ~power => npc = "begin" /\ wipe = << >>
  /\ npc = "begin" => ~ap

IInv == /\ TypeOK /\ Placed /\ ApNeverWithSta
        /\ IdentityIsEnrolled /\ NothingIsBroken /\ MqttIsIdentified

----------------------------------------------------------------------------
(* Writing a group key by key, and erasing.                                *)

LEMMA Step ==
  ASSUME NEW S, NEW t \in Seq(S), t # << >>
  PROVE  /\ Tail(t) \in Seq(S) /\ Len(t) \in Nat \ {0} /\ Len(Tail(t)) = Len(t) - 1
         /\ Head(t) = t[1] /\ Head(t) \in S
         /\ \A i \in 1 .. Len(t) - 1 : Tail(t)[i] = t[i + 1]
<1>1. Len(t) \in Nat /\ Len(t) # 0
  BY EmptySeq
<1>2. QED
  BY <1>1, HeadTailProperties

Distinct(full) == \A i, j \in 1 .. Len(full) : i # j => full[i][1] # full[j][1]

LEMMA WriteAdvances ==
  ASSUME NEW full \in Writes, Distinct(full), NEW t \in Writes, t # << >>,
         NEW m \in [Key -> Value], Half(full, t, m)
  PROVE  Half(full, Tail(t), [m EXCEPT ![Head(t)[1]] = Head(t)[2]])
<1> DEFINE k == Len(t)
           d == Len(full) - Len(t)
           n == [m EXCEPT ![Head(t)[1]] = Head(t)[2]]
<1>1. k \in Nat \ {0} /\ Len(Tail(t)) = k - 1 /\ Head(t) = t[1]
      /\ \A i \in 1 .. k - 1 : Tail(t)[i] = t[i + 1]
  BY Step DEF Writes
<1>2. Len(full) \in Nat /\ d \in Nat /\ Len(full) = k + d
  BY <1>1, LenProperties DEF Half, Writes
<1>3. \A i \in 1 .. Len(full) : full[i] \in Key \X Value
  BY ElementOfSeq DEF Writes
<1>4. Head(t) = full[d + 1]
  BY <1>1, <1>2 DEF Half
<1>5. n[full[d + 1][1]] = full[d + 1][2]
  BY <1>1, <1>2, <1>3, <1>4
<1>6. \A i \in 1 .. d : n[full[i][1]] = full[i][2]
  <2> SUFFICES ASSUME NEW i \in 1 .. d PROVE n[full[i][1]] = full[i][2]
    OBVIOUS
  <2>1. i \in 1 .. Len(full) /\ d + 1 \in 1 .. Len(full) /\ i # d + 1
    BY <1>1, <1>2
  <2>2. full[i][1] # full[d + 1][1] /\ full[i][1] \in Key
    BY <1>3, <2>1 DEF Distinct
  <2>3. m[full[i][1]] = full[i][2]
    BY <1>2 DEF Half
  <2>4. QED
    BY <1>4, <2>2, <2>3
<1>7. \A i \in 1 .. k - 1 : Tail(t)[i] = full[i + (d + 1)]
  BY <1>1, <1>2 DEF Half
<1>8. Len(full) - Len(Tail(t)) = d + 1 /\ Len(Tail(t)) <= Len(full)
  BY <1>1, <1>2
<1>9. \A i \in 1 .. d + 1 : n[full[i][1]] = full[i][2]
  BY <1>2, <1>5, <1>6
<1>10. QED
  BY <1>1, <1>7, <1>8, <1>9 DEF Half

LEMMA WipeOrderIsComplete ==
  /\ WipeOrder \in Seq(Key) /\ Len(WipeOrder) = 8
  /\ \A k \in Key : \E i \in 1 .. 8 : WipeOrder[i] = k
BY DEF WipeOrder, Key, Identity

LEMMA EraseAdvances ==
  ASSUME NEW w \in Seq(Key), w # << >>, NEW m \in [Key -> Value], Wiped(w, m)
  PROVE  Wiped(Tail(w), [m EXCEPT ![Head(w)] = NoValue])
<1> DEFINE k == Len(w)
           d == 8 - Len(w)
           n == [m EXCEPT ![Head(w)] = NoValue]
<1>1. k \in Nat \ {0} /\ Len(Tail(w)) = k - 1 /\ Head(w) = w[1]
      /\ \A i \in 1 .. k - 1 : Tail(w)[i] = w[i + 1]
  BY Step
<1>2. Len(WipeOrder) = 8 /\ d \in Nat /\ 8 = k + d
  BY <1>1, WipeOrderIsComplete DEF Wiped
<1>3. \A i \in 1 .. 8 : WipeOrder[i] \in Key
  BY WipeOrderIsComplete, ElementOfSeq
<1>4. Head(w) = WipeOrder[d + 1]
  BY <1>1, <1>2 DEF Wiped
<1>5. \A i \in 1 .. d + 1 : n[WipeOrder[i]] = NoValue
  BY <1>1, <1>2, <1>3, <1>4 DEF Wiped
<1>6. \A i \in 1 .. k - 1 : Tail(w)[i] = WipeOrder[i + (d + 1)]
  BY <1>1, <1>2 DEF Wiped
<1>7. 8 - Len(Tail(w)) = d + 1 /\ Len(Tail(w)) <= 8
  BY <1>1, <1>2
<1>8. QED
  BY <1>1, <1>2, <1>5, <1>6, <1>7 DEF Wiped

(* Nothing done yet, and all done.                                         *)
LEMMA WriteBegins == ASSUME NEW full \in Writes, NEW m PROVE Half(full, full, m)
<1>1. Len(full) \in Nat
  BY LenProperties DEF Writes
<1>2. QED
  BY <1>1 DEF Half

LEMMA WriteEnds ==
  ASSUME NEW full \in Writes, NEW m, Half(full, << >>, m)
  PROVE  \A i \in 1 .. Len(full) : m[full[i][1]] = full[i][2]
<1>1. Len(full) \in Nat /\ Len(<< >>) = 0
  BY LenProperties DEF Writes
<1>2. QED
  BY <1>1 DEF Half

LEMMA WipeEnds ==
  ASSUME NEW m, Wiped(<< >>, m)
  PROVE  \A k \in Key : m[k] = NoValue
<1>1. \A i \in 1 .. 8 : m[WipeOrder[i]] = NoValue
  BY WipeOrderIsComplete DEF Wiped
<1>2. QED
  BY <1>1, WipeOrderIsComplete

(* A named identity is the required keys and one more.                     *)
NamedShape(g) ==
  /\ NamedIdentity(g) \in Writes
  /\ Len(NamedIdentity(g)) = 5 /\ NamedIdentity(g)[5] = <<"device_id", g>>
  /\ \A i \in 1 .. 4 : NamedIdentity(g)[i] = Required(g, g)[i]

LEMMA NamedIsRequired == \A g \in 0 .. MaxIdentities : NamedShape(g)
<1> SUFFICES ASSUME NEW g \in 0 .. MaxIdentities PROVE NamedShape(g)
  OBVIOUS
<1> DEFINE r == Required(g, g)
           e == <<"device_id", g>>
           S == Key \X Value
<1>1. r \in Seq(S) /\ e \in S
  BY DEF Required, Key, Identity, Value
<1>2. Len(r) = 4
  BY DEF Required
<1> HIDE DEF r, e, S
<1>3. /\ Append(r, e) \in Seq(S) /\ Len(Append(r, e)) = Len(r) + 1
      /\ Append(r, e)[Len(r) + 1] = e /\ \A i \in 1 .. Len(r) : Append(r, e)[i] = r[i]
  BY <1>1, AppendProperties
<1>4. QED
  BY <1>1, <1>2, <1>3 DEF NamedShape, NamedIdentity, Writes, r, e, S

LEMMA Groups ==
  /\ DevWrites \in Writes /\ Distinct(DevWrites)
  /\ pending \in Credentials => CredWrites \in Writes /\ Distinct(CredWrites)
  /\ \A g \in 0 .. MaxIdentities :
       /\ BareIdentity(g) \in Writes /\ Distinct(BareIdentity(g))
       /\ NamedIdentity(g) \in Writes /\ Distinct(NamedIdentity(g))
<1>1. DevWrites \in Writes /\ Distinct(DevWrites)
  BY IdentityAssumption DEF DevWrites, Writes, Distinct, Key, Value
<1>2. ASSUME pending \in Credentials PROVE CredWrites \in Writes /\ Distinct(CredWrites)
  BY <1>2 DEF CredWrites, Credentials, Writes, Distinct, Key, Value
<1>3. ASSUME NEW g \in 0 .. MaxIdentities PROVE BareIdentity(g) \in Writes /\ Distinct(BareIdentity(g))
  BY DEF BareIdentity, Required, Writes, Distinct, Key, Identity, Value
<1>4. ASSUME NEW g \in 0 .. MaxIdentities
      PROVE  NamedIdentity(g) \in Writes /\ Distinct(NamedIdentity(g))
  <2> DEFINE r == Required(g, g)
             n == NamedIdentity(g)
  <2>1. /\ n \in Writes /\ Len(n) = 5 /\ n[5][1] = "device_id"
        /\ \A i \in 1 .. 4 : n[i] = r[i]
    BY NamedIsRequired DEF NamedShape
  <2>2. Len(r) = 4 /\ \A i \in 1 .. 4 : r[i][1] # "device_id"
    BY DEF Required
  <2>3. Distinct(r)
    BY <1>3 DEF BareIdentity
  <2> HIDE DEF r, n
  <2>4. Distinct(n)
    BY <2>1, <2>2, <2>3 DEF Distinct
  <2>5. QED
    BY <2>1, <2>4 DEF n
<1>5. QED
  BY <1>1, <1>2, <1>3, <1>4

----------------------------------------------------------------------------
(* Types.                                                                  *)

LEMMA NoPendingIsOne == NoPending \in Credentials
BY NetworkAssumption DEF NoPending, Credentials

LEMMA InitEstablishes == Init => IInv
<1> SUFFICES ASSUME Init PROVE IInv
  OBVIOUS
<1>1. TypeOK
  <2>1. PICK seed \in {NoValue, 0} : kv = [k \in Key |-> IF k = "enroll_token" THEN seed ELSE NoValue]
    BY DEF Init
  <2>2. kv \in [Key -> Value]
    BY <2>1, IdentityAssumption DEF Value
  <2>3. /\ faults \in 0 .. MaxFaults /\ issued \in 0 .. MaxIdentities
        /\ mqtt \subseteq 1 .. MaxIdentities \cup {Cut}
    BY FaultsAssumption, IdentityAssumption DEF Init
  <2>4. todo \in Seq(Key \X Value) /\ wipe \in Seq(Key) /\ pending \in Credentials
    BY NoPendingIsOne DEF Init
  <2>5. /\ power \in BOOLEAN /\ ap \in BOOLEAN /\ portal \in BOOLEAN
        /\ sta \in BOOLEAN /\ ok \in BOOLEAN
    BY DEF Init
  <2>6. /\ build \in {"http", "dev"} /\ air \in SUBSET Network /\ npc = "begin" /\ state = "ApPortal"
    BY DEF Init
  <2>7. QED
    BY <2>2, <2>3, <2>4, <2>5, <2>6 DEF TypeOK
<1>2. \A k \in Key \ {"enroll_token"} : kv[k] = NoValue
  BY DEF Init
<1>3. kv["sta_ssid"] = NoValue /\ kv["sta_pass"] = NoValue /\ \A k \in Identity : kv[k] = NoValue
  BY <1>2 DEF Key, Identity
<1>4. "tls_cert" \in Identity /\ "device_id" \in Identity
  BY DEF Identity
<1>5. Placed /\ ApNeverWithSta
  BY DEF Init, Placed, ApNeverWithSta
<1>6. IdentityIsEnrolled
  BY <1>3 DEF Init, IdentityIsEnrolled
<1>7. NothingIsBroken
  BY <1>3, <1>4 DEF Init, NothingIsBroken, Writing, CredsAgree, WholeIdentity
<1>8. MqttIsIdentified
  BY <1>3, <1>4 DEF Init, MqttIsIdentified, Has
<1>9. QED
  BY <1>1, <1>5, <1>6, <1>7, <1>8 DEF IInv

(* The next write.                                                         *)
LEMMA HeadIsWrite ==
  ASSUME todo \in Writes, todo # << >>
  PROVE  Head(todo)[1] \in Key /\ Head(todo)[2] \in Value /\ Tail(todo) \in Writes
<1>1. Head(todo) \in Key \X Value /\ Tail(todo) \in Writes
  BY Step DEF Writes
<1>2. QED
  BY <1>1

LEMMA SwitchedOff ==
  SwitchOff => /\ power' = FALSE /\ npc' = "begin" /\ todo' = << >> /\ wipe' = << >> /\ ap' = FALSE
               /\ portal' = FALSE /\ mqtt' = {} /\ UNCHANGED <<build, air, issued>>
BY DEF SwitchOff

LEMMA TypeStep == TypeOK /\ IdentityIsEnrolled /\ [Next]_vars => TypeOK'
<1> SUFFICES ASSUME TypeOK, IdentityIsEnrolled, [Next]_vars PROVE TypeOK'
  OBVIOUS
<1> USE DEF radio, ram, Fault
<1>1. NoPending \in Credentials /\ MaxFaults \in Nat /\ MaxIdentities \in Nat
      /\ << >> \in Seq(Key \X Value) /\ << >> \in Seq(Key) /\ todo \in Writes
  BY NoPendingIsOne, FaultsAssumption, IdentityAssumption DEF TypeOK, Writes
<1>2. CASE UNCHANGED vars
  BY <1>2 DEF TypeOK, vars
<1>3. CASE Begin
  BY <1>1, <1>3 DEF TypeOK, Begin, GoOperational, OpenPortal
<1>4. CASE Join
  <2>1. CredWrites \in Writes
    BY Groups DEF TypeOK
  <2>2. QED
    BY <1>1, <1>4, <2>1 DEF TypeOK, Join, TestFailed, OpenPortal, Writes, Joins
<1>5. CASE WriteKey
  <2>1. Head(todo)[1] \in Key /\ Head(todo)[2] \in Value /\ Tail(todo) \in Writes
    BY <1>1, <1>5, HeadIsWrite DEF WriteKey
  <2>2. kv' \in [Key -> Value]
    BY <1>5, <2>1 DEF TypeOK, WriteKey
  <2>3. faults' \in 0 .. MaxFaults
    BY <1>1, <1>5 DEF TypeOK, WriteKey
  <2>4. ok' \in BOOLEAN
    <3>1. ok' = ok \/ ok' = FALSE
      BY <1>5 DEF WriteKey
    <3>2. ok \in BOOLEAN
      BY DEF TypeOK
    <3>3. QED
      BY <3>1, <3>2
  <2>5. QED
    BY <1>5, <2>1, <2>2, <2>3, <2>4 DEF TypeOK, WriteKey, Writes
<1>6. CASE CredsStored
  BY <1>6 DEF TypeOK, CredsStored
<1>7. CASE AlreadyEnrolled
  BY <1>1, <1>7 DEF TypeOK, AlreadyEnrolled, GoOperational
<1>8. CASE EnrollFails
  BY <1>1, <1>8 DEF TypeOK, EnrollFails, TestFailed, OpenPortal
<1>9. CASE DevEnroll
  <2>1. todo' \in Seq(Key \X Value)
    BY <1>9, Groups DEF DevEnroll, DevWrites, Writes
  <2>2. QED
    BY <1>9, <2>1 DEF TypeOK, DevEnroll
<1>10. CASE Stored
  BY <1>1, <1>10 DEF TypeOK, Stored, GoOperational, TestFailed, OpenPortal
<1>11. ASSUME NEW withId \in BOOLEAN, Enroll(withId) PROVE TypeOK'
  <2>1. PICK key \in {issued + 1, Cut} :
          /\ IF key = Cut THEN Fault ELSE UNCHANGED faults
          /\ todo' = IF withId THEN Append(Required(issued + 1, key), <<"device_id", issued + 1>>)
                               ELSE Required(issued + 1, key)
    BY <1>11 DEF Enroll
  <2>2. issued + 1 \in 0 .. MaxIdentities
    BY <1>1, <1>11 DEF TypeOK, Enroll
  <2>3. Required(issued + 1, key) \in Seq(Key \X Value)
        /\ <<"device_id", issued + 1>> \in Key \X Value
    BY <2>2 DEF Required, Key, Identity, Value
  <2>4. todo' \in Seq(Key \X Value)
    BY <2>1, <2>3, AppendProperties
  <2>5. faults' \in 0 .. MaxFaults
    BY <1>1, <2>1 DEF TypeOK
  <2>6. QED
    BY <1>11, <2>2, <2>4, <2>5 DEF TypeOK, Enroll
<1>12. ASSUME NEW creds \in Credentials, Submit(creds) PROVE TypeOK'
  BY <1>12 DEF TypeOK, Submit
<1>13. CASE ResetBegins
  BY <1>13, WipeOrderIsComplete DEF TypeOK, ResetBegins
<1>14. CASE Erase
  <2>1. Head(wipe) \in Key /\ Tail(wipe) \in Seq(Key)
    BY <1>14, Step DEF TypeOK, Erase
  <2>2. NoValue \in Value
    BY DEF Value
  <2>3. kv' \in [Key -> Value] /\ faults' \in 0 .. MaxFaults
    BY <1>1, <1>14, <2>1, <2>2 DEF TypeOK, Erase
  <2>4. CASE SwitchOff
    BY <1>1, <2>3, <2>4 DEF TypeOK, SwitchOff
  <2>5. CASE ~SwitchOff
    BY <1>14, <2>1, <2>3, <2>5 DEF TypeOK, Erase
  <2>6. QED
    BY <2>4, <2>5
<1>15. CASE PowerCut
  <2>1. faults' \in 0 .. MaxFaults
    BY <1>1, <1>15 DEF TypeOK, PowerCut
  <2>2. QED
    BY <1>1, <1>15, <2>1 DEF TypeOK, PowerCut, SwitchOff
<1>16. CASE PowerOn
  <2>1. NoValue \notin Loaded => Loaded \subseteq 1 .. MaxIdentities \cup {Cut}
    BY DEF Loaded, IdentityIsEnrolled, Enrolled
  <2>2. mqtt' \subseteq 1 .. MaxIdentities \cup {Cut}
    BY <1>16, <2>1 DEF PowerOn
  <2>3. QED
    BY <1>16, <2>2 DEF TypeOK, PowerOn
<1>17. ASSUME NEW n \in Network, NetworkComesOrGoes(n) PROVE TypeOK'
  BY <1>17 DEF TypeOK, NetworkComesOrGoes
<1>18. QED
  BY <1>2, <1>3, <1>4, <1>5, <1>6, <1>7, <1>8, <1>9, <1>10, <1>11, <1>12, <1>13, <1>14, <1>15,
     <1>16, <1>17 DEF Next, NetTask

----------------------------------------------------------------------------
(* Where the task stands, and the radio.                                   *)

LEMMA Opened ==
  ASSUME OpenPortal, todo' = << >>, power'
  PROVE  Placed' /\ ApNeverWithSta'
<1>1. npc' = "portal" /\ ap' = TRUE /\ portal' = TRUE /\ sta' = FALSE
  BY DEF OpenPortal
<1>2. QED
  BY <1>1 DEF Placed, ApNeverWithSta

LEMMA Arrived ==
  ASSUME ApNeverWithSta, NEW joined, GoOperational(joined), joined => ~ap, todo' = << >>, power'
  PROVE  Placed' /\ ApNeverWithSta'
<1>1. npc' = "run" /\ ap' = ap /\ portal' = portal /\ sta' = joined
  BY DEF GoOperational
<1>2. portal' = ap'
  BY <1>1 DEF ApNeverWithSta
<1>3. QED
  BY <1>1, <1>2 DEF Placed, ApNeverWithSta

LEMMA PlaceStep == IInv /\ [Next]_vars => Placed' /\ ApNeverWithSta'
<1> SUFFICES ASSUME IInv, [Next]_vars PROVE Placed' /\ ApNeverWithSta'
  OBVIOUS
<1> USE DEF radio, ram
<1>1. Placed /\ ApNeverWithSta /\ power \in BOOLEAN
  BY DEF IInv, TypeOK
<1>2. CASE UNCHANGED vars
  BY <1>1, <1>2 DEF Placed, ApNeverWithSta, vars
<1>3. CASE Begin
  <2>1. todo' = << >> /\ power' /\ ~ap
    BY <1>1, <1>3 DEF Placed, Begin, Running
  <2>2. GoOperational(TRUE) \/ OpenPortal
    BY <1>3 DEF Begin
  <2>3. QED
    BY <1>1, <2>1, <2>2, Opened, Arrived
<1>4. CASE Join
  <2>1. power' /\ npc = "join" /\ todo = << >>
    BY <1>1, <1>4 DEF Placed, Join, Running
  <2>2. CASE OpenPortal /\ todo' = todo
    BY <2>1, <2>2, Opened
  <2>3. CASE npc' = "creds" /\ UNCHANGED <<ap, portal>>
    <3>1. ~ap /\ ap' = ap /\ portal' = portal
      BY <1>1, <2>1, <2>3 DEF ApNeverWithSta
    <3>2. portal' = ap'
      BY <1>1, <3>1 DEF ApNeverWithSta
    <3>3. QED
      BY <2>1, <2>3, <3>1, <3>2 DEF Placed, ApNeverWithSta
  <2>4. QED
    BY <1>4, <2>2, <2>3 DEF Join, TestFailed
<1>5. CASE WriteKey
  BY <1>1, <1>5 DEF Placed, ApNeverWithSta, WriteKey, Running
<1>6. CASE CredsStored
  BY <1>1, <1>6 DEF Placed, ApNeverWithSta, CredsStored, Running
<1>7. CASE AlreadyEnrolled \/ EnrollFails \/ Stored
  <2>1. todo' = << >> /\ power' /\ (sta => ~ap)
    BY <1>1, <1>7 DEF Placed, ApNeverWithSta, AlreadyEnrolled, EnrollFails, Stored, Running
  <2>2. GoOperational(sta) \/ OpenPortal
    BY <1>7 DEF AlreadyEnrolled, EnrollFails, Stored, TestFailed
  <2>3. QED
    BY <1>1, <2>1, <2>2, Opened, Arrived
<1>8. CASE DevEnroll
  BY <1>1, <1>8 DEF Placed, ApNeverWithSta, DevEnroll, Running
<1>9. ASSUME NEW withId \in BOOLEAN, Enroll(withId) PROVE Placed' /\ ApNeverWithSta'
  BY <1>1, <1>9 DEF Placed, ApNeverWithSta, Enroll, Running
<1>10. ASSUME NEW creds \in Credentials, Submit(creds) PROVE Placed' /\ ApNeverWithSta'
  BY <1>1, <1>10 DEF Placed, ApNeverWithSta, Submit, Running
<1>11. CASE ResetBegins
  BY <1>1, <1>11 DEF Placed, ApNeverWithSta, ResetBegins, Running
<1>12. CASE Erase
  BY <1>1, <1>12 DEF Placed, ApNeverWithSta, Erase, SwitchOff
<1>13. CASE PowerCut
  BY <1>13 DEF Placed, ApNeverWithSta, PowerCut, SwitchOff
<1>14. CASE PowerOn
  BY <1>1, <1>14 DEF Placed, ApNeverWithSta, PowerOn
<1>15. ASSUME NEW n \in Network, NetworkComesOrGoes(n) PROVE Placed' /\ ApNeverWithSta'
  BY <1>1, <1>15 DEF Placed, ApNeverWithSta, NetworkComesOrGoes
<1>16. QED
  BY <1>2, <1>3, <1>4, <1>5, <1>6, <1>7, <1>8, <1>9, <1>10, <1>11, <1>12, <1>13, <1>14, <1>15
     DEF Next, NetTask

LEMMA EnrolledStep == IInv /\ [Next]_vars => IdentityIsEnrolled'
<1> SUFFICES ASSUME IInv, [Next]_vars PROVE IdentityIsEnrolled'
  OBVIOUS
<1> USE DEF radio, ram
<1>1. IdentityIsEnrolled /\ todo \in Writes /\ wipe \in Seq(Key) /\ kv \in [Key -> Value]
      /\ Identity \subseteq Key
  BY DEF IInv, TypeOK, Writes, Key
<1>2. ASSUME kv' = kv, todo' = todo \/ todo' = << >> PROVE IdentityIsEnrolled'
  BY <1>1, <1>2 DEF IdentityIsEnrolled
<1>3. ASSUME kv' = kv, \A i \in 1 .. Len(todo') : todo'[i][1] \in Identity => todo'[i][2] \in Enrolled
      PROVE  IdentityIsEnrolled'
  BY <1>1, <1>3 DEF IdentityIsEnrolled
<1>4. CASE Join
  <2>1. CASE todo' = CredWrites
    BY <1>3, <1>4, <2>1 DEF Join, CredWrites, Identity
  <2>2. QED
    BY <1>2, <1>4, <2>1 DEF Join
<1>5. CASE WriteKey
  <2> DEFINE k == Head(todo)[1]
             v == Head(todo)[2]
  <2>1. todo # << >> /\ todo' = Tail(todo)
        /\ (kv' = kv \/ kv' = [kv EXCEPT ![k] = v])
    BY <1>5 DEF WriteKey
  <2>2. /\ Len(todo) \in Nat \ {0} /\ Len(Tail(todo)) = Len(todo) - 1 /\ Head(todo) = todo[1]
        /\ \A i \in 1 .. Len(todo) - 1 : Tail(todo)[i] = todo[i + 1]
    BY <1>1, <2>1, Step DEF Writes
  <2>3. k \in Identity => v \in Enrolled
    BY <1>1, <2>2 DEF IdentityIsEnrolled
  <2>4. \A i \in 1 .. Len(todo') : todo'[i][1] \in Identity => todo'[i][2] \in Enrolled
    BY <1>1, <2>1, <2>2 DEF IdentityIsEnrolled
  <2> HIDE DEF k, v
  <2>5. \A j \in Identity : kv'[j] \in Enrolled \cup {NoValue}
    BY <1>1, <2>1, <2>3 DEF IdentityIsEnrolled
  <2>6. QED
    BY <2>4, <2>5 DEF IdentityIsEnrolled
<1>6. CASE DevEnroll
  BY <1>3, <1>6 DEF DevEnroll, Identity
<1>7. ASSUME NEW withId \in BOOLEAN, Enroll(withId) PROVE IdentityIsEnrolled'
  <2> DEFINE g == issued + 1
  <2>1. PICK key \in {g, Cut} :
          todo' = IF withId THEN Append(Required(g, key), <<"device_id", g>>) ELSE Required(g, key)
    BY <1>7 DEF Enroll
  <2>2. kv' = kv /\ g \in Enrolled /\ key \in Enrolled
    BY <1>7, IdentityAssumption DEF Enroll, Enrolled, IInv, TypeOK
  <2> HIDE DEF g
  <2>3. Required(g, key) \in Seq(Key \X Enrolled) /\ <<"device_id", g>> \in Key \X Enrolled
    BY <2>2 DEF Required, Key, Identity
  <2>4. todo' \in Seq(Key \X Enrolled)
    BY <2>1, <2>3, AppendProperties
  <2>5. \A i \in 1 .. Len(todo') : todo'[i] \in Key \X Enrolled
    BY <2>4, ElementOfSeq
  <2>6. \A i \in 1 .. Len(todo') : todo'[i][2] \in Enrolled
    BY <2>5
  <2>7. QED
    BY <1>3, <2>2, <2>6
<1>8. CASE Erase
  <2>1. kv' = kv \/ kv' = [kv EXCEPT ![Head(wipe)] = NoValue]
    BY <1>8 DEF Erase
  <2>2. \A j \in Identity : kv'[j] \in Enrolled \cup {NoValue}
    BY <1>1, <2>1 DEF IdentityIsEnrolled
  <2>3. todo' = todo \/ todo' = << >>
    BY <1>8 DEF Erase, SwitchOff
  <2>4. QED
    BY <1>1, <2>2, <2>3 DEF IdentityIsEnrolled
<1>9. CASE UNCHANGED vars
  BY <1>2, <1>9 DEF vars
<1>10. CASE Begin \/ CredsStored \/ AlreadyEnrolled \/ EnrollFails \/ Stored
  BY <1>2, <1>10 DEF Begin, CredsStored, AlreadyEnrolled, EnrollFails, Stored
<1>11. CASE ResetBegins \/ PowerCut \/ PowerOn
  BY <1>2, <1>11 DEF ResetBegins, PowerCut, SwitchOff, PowerOn
<1>12. ASSUME NEW creds \in Credentials, Submit(creds) PROVE IdentityIsEnrolled'
  BY <1>2, <1>12 DEF Submit
<1>13. ASSUME NEW n \in Network, NetworkComesOrGoes(n) PROVE IdentityIsEnrolled'
  BY <1>2, <1>13 DEF NetworkComesOrGoes
<1>14. QED
  BY <1>4, <1>5, <1>6, <1>7, <1>8, <1>9, <1>10, <1>11, <1>12, <1>13 DEF Next, NetTask

----------------------------------------------------------------------------
(* What the flash holds.                                                   *)

(* With every group written or erased to its end, nothing is half.         *)
LEMMA SettledIsWhole ==
  ASSUME IInv, faults = 0, todo = << >>, wipe = << >>
  PROVE  CredsAgree /\ WholeIdentity
<1>1. Writing /\ pending \in Credentials /\ issued \in 0 .. MaxIdentities
      /\ build \in {"http", "dev"}
  BY DEF IInv, NothingIsBroken, TypeOK
<1>2. CASE npc \notin {"creds", "store"}
  BY <1>1, <1>2 DEF Writing
<1>3. CASE npc = "creds"
  <2>1. \A i \in 1 .. Len(CredWrites) : kv[CredWrites[i][1]] = CredWrites[i][2]
    BY <1>1, <1>3, Groups, WriteEnds DEF Writing
  <2>2. kv["sta_ssid"] = pending.ssid /\ kv["sta_pass"] = pending.pass
    BY <2>1 DEF CredWrites
  <2>3. QED
    BY <1>1, <1>3, <2>2 DEF Writing, CredsAgree
<1>4. CASE npc = "store" /\ build = "dev"
  BY <1>1, <1>4 DEF Writing
<1>5. CASE npc = "store" /\ build = "http"
  <2> DEFINE g == issued
  <2>1. CASE Half(BareIdentity(g), todo, kv) /\ kv["device_id"] = NoValue
    <3>1. \A i \in 1 .. Len(BareIdentity(g)) : kv[BareIdentity(g)[i][1]] = BareIdentity(g)[i][2]
      BY <1>1, <2>1, Groups, WriteEnds
    <3>2. /\ kv["tls_ca"] = g /\ kv["tls_cert"] = g /\ kv["tls_key"] = g /\ kv["mqtt_host"] = g
      BY <3>1 DEF BareIdentity, Required
    <3>3. QED
      BY <1>1, <1>5, <2>1, <3>2 DEF Writing, WholeIdentity, Identity
  <2>2. CASE Half(NamedIdentity(g), todo, kv)
    <3>1. \A i \in 1 .. Len(NamedIdentity(g)) : kv[NamedIdentity(g)[i][1]] = NamedIdentity(g)[i][2]
      BY <1>1, <2>2, Groups, WriteEnds
    <3>2. NamedShape(g)
      BY <1>1, NamedIsRequired
    <3>3. /\ kv["tls_ca"] = g /\ kv["tls_cert"] = g /\ kv["tls_key"] = g /\ kv["mqtt_host"] = g
          /\ kv["device_id"] = g
      BY <3>1, <3>2 DEF NamedShape, Required
    <3>4. QED
      BY <1>1, <1>5, <3>3 DEF Writing, WholeIdentity, Identity
  <2>3. QED
    BY <1>1, <1>5, <2>1, <2>2 DEF Writing
<1>6. QED
  BY <1>1, <1>2, <1>3, <1>4, <1>5

Kept == NothingIsBroken' /\ MqttIsIdentified'

(* A fault excuses everything.                                             *)
LEMMA Excused == ASSUME IInv, Fault PROVE Kept
<1>1. faults \in Nat /\ faults' = faults + 1
  BY DEF Fault, IInv, TypeOK
<1>2. QED
  BY <1>1 DEF Kept, NothingIsBroken, MqttIsIdentified

(* The Net task moves on and leaves the flash alone.                       *)
LEMMA MovesOn ==
  ASSUME IInv, kv' = kv, faults' = faults, todo = << >>, wipe = << >>, wipe' = << >>,
         npc' \notin {"begin", "creds", "store"}
  PROVE  Kept
<1>1. faults = 0 => CredsAgree' /\ WholeIdentity'
  BY SettledIsWhole DEF CredsAgree, WholeIdentity
<1>2. QED
  BY <1>1 DEF Kept, NothingIsBroken, Writing, MqttIsIdentified

(* It begins a group of writes.                                            *)
LEMMA JoinBreaksNothing == IInv /\ Join => Kept
<1> SUFFICES ASSUME IInv, Join PROVE Kept
  OBVIOUS
<1>1. /\ wipe = << >> /\ npc = "join" /\ UNCHANGED <<wipe, kv, faults>>
      /\ pending \in Credentials
  BY DEF Join, Running, IInv, TypeOK
<1>2. todo = << >>
  BY <1>1 DEF IInv, Placed
<1>3. CASE npc' = "portal"
  BY <1>1, <1>2, <1>3, MovesOn
<1>4. CASE npc' = "creds" /\ todo' = CredWrites /\ pending' = pending
           /\ Joins(pending.ssid, pending.pass)
  <2>1. CredWrites' = CredWrites /\ Half(CredWrites, CredWrites, kv)
    BY <1>1, <1>4, Groups, WriteBegins DEF CredWrites
  <2>2. faults = 0 => WholeIdentity'
    BY <1>1, <1>2, SettledIsWhole DEF WholeIdentity
  <2>3. faults = 0 => Writing'
    BY <1>1, <1>4, <2>1, <2>2 DEF Writing, Joins
  <2>4. QED
    BY <1>1, <1>4, <2>3 DEF Kept, NothingIsBroken, MqttIsIdentified
<1>5. QED
  BY <1>3, <1>4 DEF Join, TestFailed, OpenPortal

LEMMA DevEnrollBreaksNothing == IInv /\ DevEnroll => Kept
<1> SUFFICES ASSUME IInv, DevEnroll PROVE Kept
  OBVIOUS
<1>1. /\ wipe = << >> /\ npc = "enroll" /\ npc' = "store" /\ build = "dev"
      /\ todo' = DevWrites /\ UNCHANGED <<wipe, kv, faults, build>>
  BY DEF DevEnroll, DevWrites, Running
<1>2. todo = << >>
  BY <1>1 DEF IInv, Placed
<1>3. Half(DevWrites, DevWrites, kv)
  BY Groups, WriteBegins
<1>4. faults = 0 => CredsAgree' /\ WholeIdentity'
  BY <1>1, <1>2, SettledIsWhole DEF CredsAgree, WholeIdentity
<1>5. faults = 0 => Writing'
  BY <1>1, <1>3, <1>4 DEF Writing
<1>6. QED
  BY <1>1, <1>5 DEF Kept, NothingIsBroken, MqttIsIdentified

LEMMA EnrollBreaksNothing == ASSUME IInv, NEW withId \in BOOLEAN, Enroll(withId) PROVE Kept
<1> DEFINE g == issued + 1
<1>1. /\ wipe = << >> /\ npc = "enroll" /\ npc' = "store" /\ build = "http" /\ ~hasOperationalCert
      /\ issued' = g /\ UNCHANGED <<wipe, kv, build>>
      /\ issued < MaxIdentities
  BY DEF Enroll, Running
<1>2. todo = << >> /\ g \in 0 .. MaxIdentities
  BY <1>1, IdentityAssumption DEF IInv, Placed, TypeOK
<1>3. PICK key \in {g, Cut} :
        /\ IF key = Cut THEN Fault ELSE UNCHANGED faults
        /\ todo' = IF withId THEN Append(Required(g, key), <<"device_id", g>>) ELSE Required(g, key)
  BY DEF Enroll
<1>4. CASE key = Cut
  BY <1>3, <1>4, Excused
<1>5. CASE key # Cut
  <2>1. faults' = faults /\ todo' = IF withId THEN NamedIdentity(g) ELSE BareIdentity(g)
    BY <1>3, <1>5 DEF NamedIdentity, BareIdentity
  <2>2. Half(NamedIdentity(g), NamedIdentity(g), kv) /\ Half(BareIdentity(g), BareIdentity(g), kv)
    BY <1>2, Groups, WriteBegins
  <2> HIDE DEF g
  <2>3. faults = 0 => CredsAgree' /\ WholeIdentity'
    BY <1>1, <1>2, SettledIsWhole DEF CredsAgree, WholeIdentity
  <2>4. kv["tls_cert"] = NoValue
    BY <1>1 DEF hasOperationalCert, Has
  <2>5. faults = 0 => kv'["device_id"] = NoValue
    BY <1>1, <2>3, <2>4 DEF WholeIdentity
  <2>6. faults = 0 => Writing'
    <3>1. CASE withId
      BY <1>1, <2>1, <2>2, <2>3, <3>1 DEF Writing
    <3>2. CASE ~withId
      BY <1>1, <2>1, <2>2, <2>3, <2>5, <3>2 DEF Writing
    <3>3. QED
      BY <3>1, <3>2
  <2>7. QED
    BY <1>1, <2>1, <2>6 DEF Kept, NothingIsBroken, MqttIsIdentified
<1>6. QED
  BY <1>4, <1>5

(* It writes the next key of a group, which touches no other group.        *)
LEMMA HeadIsOfGroup ==
  ASSUME NEW full \in Writes, NEW t \in Writes, t # << >>, NEW m, Half(full, t, m)
  PROVE  \E i \in 1 .. Len(full) : Head(t) = full[i]
<1>1. Len(t) \in Nat \ {0} /\ Head(t) = t[1]
  BY Step DEF Writes
<1>2. Len(full) \in Nat
  BY LenProperties DEF Writes
<1>3. Len(full) - Len(t) + 1 \in 1 .. Len(full) /\ Head(t) = full[1 + (Len(full) - Len(t))]
  BY <1>1, <1>2 DEF Half
<1>4. QED
  BY <1>1, <1>2, <1>3

LEMMA WriteBreaksNothing == IInv /\ WriteKey => Kept
<1> SUFFICES ASSUME IInv, WriteKey PROVE Kept
  OBVIOUS
<1>1. CASE Fault
  BY <1>1, Excused
<1>2. CASE UNCHANGED faults /\ kv' = [kv EXCEPT ![Head(todo)[1]] = Head(todo)[2]]
  <2> DEFINE k == Head(todo)[1]
  <2>1. /\ wipe = << >> /\ todo # << >> /\ todo' = Tail(todo)
        /\ UNCHANGED <<wipe, npc, build, pending, issued>>
    BY DEF WriteKey, Running
  <2>2. /\ todo \in Writes /\ kv \in [Key -> Value] /\ pending \in Credentials
        /\ issued \in 0 .. MaxIdentities /\ build \in {"http", "dev"}
        /\ npc \in {"creds", "store"}
    BY <2>1 DEF IInv, TypeOK, Placed, Writes
  <2>3. \A j \in Key : j # k => kv'[j] = kv[j]
    BY <1>2, <2>2
  <2>4. {"sta_ssid", "sta_pass"} \cup Identity \subseteq Key
    BY DEF Key
  <2>5. k \notin Identity /\ WholeIdentity => WholeIdentity'
    <3> SUFFICES ASSUME k \notin Identity, WholeIdentity PROVE WholeIdentity'
      OBVIOUS
    <3>1. \A j \in Identity : kv'[j] = kv[j]
      BY <2>3, <2>4
    <3>2. "tls_cert" \in Identity /\ "device_id" \in Identity
      BY DEF Identity
    <3> HIDE DEF k
    <3>3. QED
      BY <3>1, <3>2 DEF WholeIdentity
  <2>6. k \notin {"sta_ssid", "sta_pass"} /\ CredsAgree => CredsAgree'
    BY <2>3, <2>4 DEF CredsAgree
  <2>7. ASSUME NEW full \in Writes, Distinct(full), Half(full, todo, kv) PROVE Half(full, todo', kv')
    BY <1>2, <2>1, <2>2, <2>7, WriteAdvances
  <2>8. ASSUME faults = 0, npc = "creds" PROVE Writing'
    <3>1. WholeIdentity /\ pending.ssid = pending.pass /\ Half(CredWrites, todo, kv)
      BY <2>1, <2>8 DEF IInv, NothingIsBroken, Writing
    <3>2. CredWrites' = CredWrites /\ CredWrites \in Writes /\ Distinct(CredWrites)
      BY <2>1, <2>2, Groups DEF CredWrites
    <3>3. k \in {"sta_ssid", "sta_pass"}
      <4>1. PICK i \in 1 .. Len(CredWrites) : Head(todo) = CredWrites[i]
        BY <2>1, <2>2, <3>1, <3>2, HeadIsOfGroup
      <4>2. QED
        BY <4>1 DEF CredWrites
    <3>4. WholeIdentity'
      BY <2>5, <3>1, <3>3 DEF Identity
    <3>5. Half(CredWrites, todo, kv)'
      BY <2>7, <3>1, <3>2
    <3>6. QED
      BY <2>1, <2>8, <3>1, <3>4, <3>5 DEF Writing
  <2>9. ASSUME faults = 0, npc = "store", build = "dev" PROVE Writing'
    <3>1. CredsAgree /\ WholeIdentity /\ Half(DevWrites, todo, kv)
      BY <2>1, <2>9 DEF IInv, NothingIsBroken, Writing
    <3>2. k = "enroll_token"
      <4>1. PICK i \in 1 .. Len(DevWrites) : Head(todo) = DevWrites[i]
        BY <2>1, <2>2, <3>1, Groups, HeadIsOfGroup
      <4>2. QED
        BY <4>1 DEF DevWrites
    <3>3. CredsAgree' /\ WholeIdentity'
      BY <2>5, <2>6, <3>1, <3>2 DEF Identity
    <3>4. Half(DevWrites, todo', kv')
      BY <2>7, <3>1, Groups
    <3>5. QED
      BY <2>1, <2>9, <3>3, <3>4 DEF Writing
  <2>10. ASSUME faults = 0, npc = "store", build = "http" PROVE Writing'
    <3> DEFINE g == issued
    <3>1. CredsAgree /\ \/ Half(BareIdentity(g), todo, kv) /\ kv["device_id"] = NoValue
                        \/ Half(NamedIdentity(g), todo, kv)
      BY <2>1, <2>10 DEF IInv, NothingIsBroken, Writing
    <3>2. CASE Half(BareIdentity(g), todo, kv) /\ kv["device_id"] = NoValue
      <4>1. PICK i \in 1 .. Len(BareIdentity(g)) : Head(todo) = BareIdentity(g)[i]
        BY <2>1, <2>2, <3>2, Groups, HeadIsOfGroup
      <4>2. k \in {"tls_ca", "tls_cert", "tls_key", "mqtt_host"}
        BY <4>1 DEF BareIdentity, Required
      <4>3. Half(BareIdentity(g), todo', kv')
        BY <2>2, <2>7, <3>2, Groups
      <4>4. kv'["device_id"] = NoValue /\ CredsAgree'
        BY <2>3, <2>4, <2>6, <3>1, <3>2, <4>2 DEF Identity
      <4>5. QED
        BY <2>1, <2>10, <4>3, <4>4 DEF Writing
    <3>3. CASE Half(NamedIdentity(g), todo, kv)
      <4>1. PICK i \in 1 .. Len(NamedIdentity(g)) : Head(todo) = NamedIdentity(g)[i]
        BY <2>1, <2>2, <3>3, Groups, HeadIsOfGroup
      <4>2. k \in {"tls_ca", "tls_cert", "tls_key", "mqtt_host", "device_id"}
        BY <2>2, <4>1, NamedIsRequired DEF NamedShape, Required
      <4>3. Half(NamedIdentity(g), todo', kv')
        BY <2>2, <2>7, <3>3, Groups
      <4>4. CredsAgree'
        BY <2>6, <3>1, <4>2
      <4>5. QED
        BY <2>1, <2>10, <4>3, <4>4 DEF Writing
    <3>4. QED
      BY <3>1, <3>2, <3>3
  <2>11. faults = 0 => Writing'
    BY <2>2, <2>8, <2>9, <2>10
  <2>12. QED
    BY <1>2, <2>1, <2>2, <2>11 DEF Kept, NothingIsBroken, MqttIsIdentified
<1>3. QED
  BY <1>1, <1>2 DEF WriteKey

----------------------------------------------------------------------------
(* Resets, power and the neighbourhood.                                    *)

(* A wipe that came to its end without a fault has erased everything.      *)
LEMMA WipeForgets ==
  ASSUME IInv, Erase, ~power', faults' = 0
  PROVE  \A k \in Key : kv'[k] = NoValue
<1>1. /\ wipe # << >> /\ wipe \in Seq(Key) /\ kv \in [Key -> Value] /\ faults \in Nat /\ power
  BY DEF Erase, IInv, TypeOK
<1>2. faults = 0 /\ kv' = [kv EXCEPT ![Head(wipe)] = NoValue]
  BY <1>1 DEF Erase, Fault
<1>3. Len(wipe) = 1
  BY <1>1 DEF Erase
<1>4. Tail(wipe) = << >>
  <2>1. Tail(wipe) \in Seq(Key) /\ Len(Tail(wipe)) = 0
    BY <1>1, <1>3, Step
  <2>2. QED
    BY <2>1, EmptySeq
<1>5. Wiped(wipe, kv)
  BY <1>1, <1>2 DEF IInv, NothingIsBroken
<1>6. QED
  BY <1>1, <1>2, <1>4, <1>5, EraseAdvances, WipeEnds

LEMMA EraseLeavesSome ==
  ASSUME wipe \in Seq(Key), wipe # << >>, Len(wipe) # 1
  PROVE  Tail(wipe) # << >>
<1> DEFINE rest == Tail(wipe)
<1>1. Len(wipe) \in Nat \ {0} /\ Len(rest) = Len(wipe) - 1
  BY Step
<1> HIDE DEF rest
<1>2. Len(rest) # 0
  BY <1>1
<1>3. rest # << >>
  BY <1>2
<1>4. QED
  BY <1>3 DEF rest

LEMMA EraseBreaksNothing == IInv /\ Erase => Kept
<1> SUFFICES ASSUME IInv, Erase PROVE Kept
  OBVIOUS
<1>1. /\ wipe # << >> /\ wipe \in Seq(Key) /\ kv \in [Key -> Value] /\ power
  BY DEF Erase, IInv, TypeOK
<1>2. CASE Fault
  BY <1>2, Excused
<1>3. CASE UNCHANGED faults /\ kv' = [kv EXCEPT ![Head(wipe)] = NoValue] /\ Len(wipe) = 1
  <2>1. power' = FALSE /\ npc' = "begin" /\ wipe' = << >>
    BY <1>3, SwitchedOff DEF Erase
  <2>2. faults' = 0 => \A k \in Key : kv'[k] = NoValue
    BY <2>1, WipeForgets
  <2>3. faults' = 0 => CredsAgree' /\ WholeIdentity'
    BY <2>2 DEF CredsAgree, WholeIdentity, Key, Identity
  <2>4. QED
    BY <2>1, <2>3 DEF Kept, NothingIsBroken, Writing, MqttIsIdentified, Running
<1>4. CASE UNCHANGED faults /\ kv' = [kv EXCEPT ![Head(wipe)] = NoValue] /\ Len(wipe) # 1
  <2>1. wipe' = Tail(wipe)
    BY <1>4 DEF Erase
  <2>2. wipe' # << >>
    BY <1>1, <1>4, <2>1, EraseLeavesSome
  <2>3. faults = 0 => Wiped(wipe', kv')
    BY <1>1, <1>4, <2>1, EraseAdvances DEF IInv, NothingIsBroken
  <2>4. QED
    BY <1>4, <2>2, <2>3 DEF Kept, NothingIsBroken, MqttIsIdentified, Running
<1>5. QED
  BY <1>2, <1>3, <1>4 DEF Erase

LEMMA PowerBreaksNothing == IInv /\ (ResetBegins \/ PowerCut \/ PowerOn) => Kept
<1> SUFFICES ASSUME IInv, ResetBegins \/ PowerCut \/ PowerOn PROVE Kept
  OBVIOUS
<1>1. CASE ResetBegins
  <2>1. wipe' = WipeOrder /\ kv' = kv
    BY <1>1 DEF ResetBegins
  <2>2. Wiped(WipeOrder, kv) /\ WipeOrder # << >>
    BY WipeOrderIsComplete DEF Wiped
  <2>3. QED
    BY <2>1, <2>2 DEF Kept, NothingIsBroken, MqttIsIdentified, Running
<1>2. CASE PowerCut
  <2>1. power' = FALSE /\ npc' = "begin" /\ wipe' = << >> /\ kv' = kv
    BY <1>2, SwitchedOff DEF PowerCut
  <2>2. CASE ~Settled
    BY <1>2, <2>2, Excused DEF PowerCut
  <2>3. CASE Settled
    <3>1. faults' = faults
      BY <1>2, <2>3 DEF PowerCut
    <3>2. faults = 0 => CredsAgree' /\ WholeIdentity'
      BY <2>1, <2>3, SettledIsWhole DEF Settled, CredsAgree, WholeIdentity
    <3>3. QED
      BY <2>1, <3>1, <3>2 DEF Kept, NothingIsBroken, Writing, MqttIsIdentified, Running
  <2>4. QED
    BY <2>2, <2>3
<1>3. CASE PowerOn
  <2>1. /\ npc = "begin" /\ wipe = << >> /\ todo = << >>
        /\ UNCHANGED <<npc, wipe, todo, kv, faults, build, pending, issued>>
    BY <1>3 DEF PowerOn, ram, IInv, Placed
  <2>2. faults = 0 => NothingIsBroken'
    BY <2>1, SettledIsWhole DEF NothingIsBroken, Writing, CredsAgree, WholeIdentity
  <2>3. ASSUME WholeIdentity PROVE mqtt' = IF Has("device_id") THEN {kv["tls_cert"]} ELSE {}
    <3>1. CASE Has("device_id")
      <4>1. \A k \in Identity : kv[k] = kv["tls_cert"] /\ kv[k] # NoValue
        BY <2>3, <3>1 DEF WholeIdentity, Has, Identity
      <4>2. Loaded = {kv["tls_cert"]} /\ NoValue \notin Loaded
        BY <4>1 DEF Loaded, Identity
      <4>3. QED
        BY <1>3, <3>1, <4>2 DEF PowerOn
    <3>2. CASE ~Has("device_id")
      <4>1. NoValue \in Loaded
        BY <3>2 DEF Loaded, Has, Identity
      <4>2. QED
        BY <1>3, <3>2, <4>1 DEF PowerOn
    <3>3. QED
      BY <3>1, <3>2
  <2>4. MqttIsIdentified'
    BY <2>1, <2>3, SettledIsWhole DEF MqttIsIdentified, Has
  <2>5. QED
    BY <2>1, <2>2, <2>4 DEF Kept, NothingIsBroken
<1>4. QED
  BY <1>1, <1>2, <1>3

----------------------------------------------------------------------------
LEMMA FlashStep == IInv /\ [Next]_vars => Kept
<1> SUFFICES ASSUME IInv, [Next]_vars PROVE Kept
  OBVIOUS
<1> USE DEF radio, ram
<1>1. NothingIsBroken /\ MqttIsIdentified /\ Placed
  BY DEF IInv
<1>2. ASSUME UNCHANGED <<build, power, npc, pending, todo, wipe, mqtt, kv, issued, faults>> PROVE Kept
  BY <1>1, <1>2 DEF Kept, NothingIsBroken, Writing, CredsAgree, WholeIdentity, CredWrites,
                    MqttIsIdentified, Running, Has
<1>3. CASE UNCHANGED vars
  BY <1>2, <1>3 DEF vars
<1>4. ASSUME NEW n \in Network, NetworkComesOrGoes(n) PROVE Kept
  BY <1>2, <1>4 DEF NetworkComesOrGoes
<1>5. CASE Begin
  <2>1. npc = "begin" /\ wipe = << >> /\ UNCHANGED <<wipe, kv, faults>> /\ npc' \in {"run", "portal"}
    BY <1>5 DEF Begin, Running, GoOperational, OpenPortal
  <2>2. QED
    BY <1>1, <2>1, MovesOn DEF Placed
<1>6. CASE CredsStored
  BY <1>6, MovesOn DEF CredsStored, Running
<1>7. CASE AlreadyEnrolled \/ EnrollFails \/ Stored
  <2>1. wipe = << >> /\ UNCHANGED <<wipe, kv, faults>> /\ npc' \in {"run", "portal"}
    BY <1>7 DEF AlreadyEnrolled, EnrollFails, Stored, Running, GoOperational, TestFailed, OpenPortal
  <2>2. todo = << >>
    BY <1>1, <1>7 DEF AlreadyEnrolled, EnrollFails, Stored, Placed
  <2>3. QED
    BY <2>1, <2>2, MovesOn
<1>8. ASSUME NEW creds \in Credentials, Submit(creds) PROVE Kept
  <2>1. npc = "portal" /\ npc' = "join" /\ wipe = << >> /\ UNCHANGED <<wipe, kv, faults>>
    BY <1>8 DEF Submit, Running
  <2>2. QED
    BY <1>1, <2>1, MovesOn DEF Placed
<1>9. QED
  BY <1>3, <1>4, <1>5, <1>6, <1>7, <1>8, JoinBreaksNothing, WriteBreaksNothing,
     DevEnrollBreaksNothing, EnrollBreaksNothing, EraseBreaksNothing, PowerBreaksNothing
     DEF Next, NetTask

LEMMA NextKeeps == IInv /\ [Next]_vars => IInv'
BY TypeStep, PlaceStep, EnrolledStep, FlashStep DEF IInv, Kept

THEOREM Inductive == Spec => []IInv
BY InitEstablishes, NextKeeps, PTL DEF Spec

(* Every variable keeps its type; the credentials in use are some that     *)
(* were entered, and what MQTT loads is some enrollment's.                 *)
THEOREM TypeCorrect == Spec => []TypeOK
<1>1. IInv => TypeOK
  BY DEF IInv
<1>2. QED
  BY Inductive, <1>1, PTL

(* The radio is never access point and station at once                     *)
(* (provisioning_service.h:10-11).                                         *)
THEOREM RadioDoesOneThing == Spec => []ApNeverWithSta
<1>1. IInv => ApNeverWithSta
  BY DEF IInv
<1>2. QED
  BY Inductive, <1>1, PTL

(* A flash that keeps what it was told holds nothing half, mixed or        *)
(* untested (provisioning_impl.h:253-267).                                 *)
THEOREM FlashStaysWhole == Spec => []FlashIsWhole
<1>1. IInv => FlashIsWhole
  BY SettledIsWhole DEF FlashIsWhole, Settled, CredsAgree
<1>2. QED
  BY Inductive, <1>1, PTL

(* Every boot brings MQTT up with one whole identity, or leaves it off     *)
(* (composition_root.h:324-336).                                           *)
THEOREM BootsIdentified == Spec => []MqttIsIdentified
<1>1. IInv => MqttIsIdentified
  BY DEF IInv
<1>2. QED
  BY Inductive, <1>1, PTL

(* A factory reset that came to its end has erased every key               *)
(* (composition_root.h:417-427).                                           *)
THEOREM ResetsForget == Spec => ResetForgets
<1>1. IInv /\ [Next]_vars
      => [wipe # << >> /\ power /\ ~power' /\ faults' = 0 => \A k \in Key : kv'[k] = NoValue]_vars
  <2> SUFFICES ASSUME IInv, [Next]_vars, wipe # << >>, power, ~power', faults' = 0
               PROVE  \A k \in Key : kv'[k] = NoValue
    OBVIOUS
  <2>1. Erase \/ PowerCut
    <3>1. power' # power
      BY DEF IInv, TypeOK
    <3>2. QED
      BY <3>1 DEF Next, NetTask, vars, Begin, Join, WriteKey, CredsStored, AlreadyEnrolled,
         EnrollFails, DevEnroll, Stored, Enroll, Submit, ResetBegins, PowerOn, NetworkComesOrGoes
  <2>2. ~PowerCut
    <3>1. PowerCut => Fault
      BY DEF PowerCut, Settled
    <3>2. ~Fault
      BY DEF Fault, IInv, TypeOK
    <3>3. QED
      BY <3>1, <3>2
  <2>3. QED
    BY <2>1, <2>2, WipeForgets
<1>2. QED
  BY Inductive, <1>1, PTL DEF Spec, ResetForgets

----------------------------------------------------------------------------
(* Commissioning.  What is known of the keys beyond their being whole: a   *)
(* dev build is given no identity but the token, and what is enrolled on   *)
(* is the network that was joined.                                         *)
DevBuildTakesNone ==
  build = "dev" => /\ \A k \in Identity : kv[k] = NoValue
                   /\ \A i \in 1 .. Len(todo) : todo[i][1] \notin Identity
TokenIsToken ==
  /\ kv["enroll_token"] \in {NoValue, 0}
  /\ \A i \in 1 .. Len(todo) : todo[i][1] = "enroll_token" => todo[i][2] = 0
JoinedIsKept ==
  faults = 0 /\ wipe = << >> /\ npc \in {"enroll", "store"} => kv["sta_pass"] = pending.ssid

CInv == IInv /\ DevBuildTakesNone /\ TokenIsToken /\ JoinedIsKept

LEMMA StartsCommissioned == Init => CInv
<1> SUFFICES ASSUME Init PROVE CInv
  OBVIOUS
<1>1. PICK seed \in {NoValue, 0} : kv = [k \in Key |-> IF k = "enroll_token" THEN seed ELSE NoValue]
  BY DEF Init
<1>2. todo = << >> /\ npc = "begin"
  BY DEF Init
<1>3. QED
  BY <1>1, <1>2, InitEstablishes DEF CInv, DevBuildTakesNone, TokenIsToken, JoinedIsKept, Key, Identity

(* A write takes one of the pairs of todo, and leaves the others.          *)
LEMMA WriteTakes ==
  ASSUME IInv, WriteKey
  PROVE  /\ todo # << >> /\ 1 \in 1 .. Len(todo) /\ Head(todo) = todo[1] /\ todo[1][1] \in Key
         /\ \A i \in 1 .. Len(todo') : i + 1 \in 1 .. Len(todo) /\ todo'[i] = todo[i + 1]
         /\ \A k \in Key : kv'[k] = kv[k] \/ (k = todo[1][1] /\ kv'[k] = todo[1][2])
<1>1. todo \in Writes /\ kv \in [Key -> Value] /\ todo # << >> /\ todo' = Tail(todo)
  BY DEF WriteKey, IInv, TypeOK, Writes
<1>2. /\ Len(todo) \in Nat \ {0} /\ Len(todo') = Len(todo) - 1 /\ Head(todo) = todo[1]
      /\ \A i \in 1 .. Len(todo) - 1 : Tail(todo)[i] = todo[i + 1]
  BY <1>1, Step DEF Writes
<1>3. Head(todo)[1] \in Key
  BY <1>1, HeadIsWrite
<1>4. \A i \in 1 .. Len(todo') : i + 1 \in 1 .. Len(todo) /\ todo'[i] = todo[i + 1]
  BY <1>1, <1>2
<1>5. kv' = kv \/ kv' = [kv EXCEPT ![todo[1][1]] = todo[1][2]]
  BY <1>2 DEF WriteKey
<1>6. QED
  BY <1>1, <1>2, <1>3, <1>4, <1>5

LEMMA KeysStep ==
  ASSUME CInv, [Next]_vars
  PROVE  DevBuildTakesNone' /\ TokenIsToken'
<1> USE DEF DevBuildTakesNone, TokenIsToken, radio, ram
<1>0. DevBuildTakesNone /\ TokenIsToken /\ IInv /\ Identity \subseteq Key /\ "enroll_token" \in Key
      /\ kv \in [Key -> Value]
  BY DEF CInv, Key, IInv, TypeOK
<1>1. ASSUME UNCHANGED <<build, kv>>, todo' = todo \/ todo' = << >>
      PROVE  DevBuildTakesNone' /\ TokenIsToken'
  BY <1>0, <1>1
<1>2. CASE WriteKey
  <2>1. build' = build
    BY <1>2 DEF WriteKey
  <2>2. QED
    BY <1>0, <1>2, <2>1, WriteTakes
<1>3. CASE Join
  <2>1. CASE todo' = CredWrites
    BY <1>0, <1>3, <2>1 DEF Join, CredWrites, Identity
  <2>2. QED
    BY <1>1, <1>3, <2>1 DEF Join
<1>4. CASE DevEnroll
  BY <1>0, <1>4 DEF DevEnroll, Identity
<1>5. ASSUME NEW withId \in BOOLEAN, Enroll(withId) PROVE DevBuildTakesNone' /\ TokenIsToken'
  <2> DEFINE g == issued + 1
  <2>1. PICK key \in {g, Cut} :
          todo' = IF withId THEN Append(Required(g, key), <<"device_id", g>>) ELSE Required(g, key)
    BY <1>5 DEF Enroll
  <2>2. UNCHANGED <<build, kv>> /\ build = "http"
    BY <1>5 DEF Enroll
  <2> HIDE DEF g
  <2>3. Required(g, key) \in Seq(Identity \X {g, key}) /\ <<"device_id", g>> \in Identity \X {g, key}
    BY DEF Required, Identity
  <2>4. todo' \in Seq(Identity \X {g, key})
    BY <2>1, <2>3, AppendProperties
  <2>5. \A i \in 1 .. Len(todo') : todo'[i] \in Identity \X {g, key}
    BY <2>4, ElementOfSeq
  <2>6. \A i \in 1 .. Len(todo') : todo'[i][1] # "enroll_token"
    BY <2>5 DEF Identity
  <2>7. QED
    BY <1>0, <2>2, <2>6
<1>6. CASE Erase
  <2>1. kv' = kv \/ kv' = [kv EXCEPT ![Head(wipe)] = NoValue]
    BY <1>6 DEF Erase
  <2>2. \A k \in Key : kv'[k] = kv[k] \/ kv'[k] = NoValue
    BY <1>0, <2>1
  <2>3. build' = build /\ (todo' = todo \/ todo' = << >>)
    BY <1>6 DEF Erase, SwitchOff
  <2>4. QED
    BY <1>0, <2>2, <2>3
<1>7. CASE UNCHANGED vars
  BY <1>1, <1>7 DEF vars
<1>8. CASE Begin \/ CredsStored \/ AlreadyEnrolled \/ EnrollFails \/ Stored
  BY <1>1, <1>8 DEF Begin, CredsStored, AlreadyEnrolled, EnrollFails, Stored
<1>9. CASE ResetBegins \/ PowerCut \/ PowerOn
  BY <1>1, <1>9 DEF ResetBegins, PowerCut, SwitchOff, PowerOn
<1>10. ASSUME NEW creds \in Credentials, Submit(creds) PROVE DevBuildTakesNone' /\ TokenIsToken'
  BY <1>1, <1>10 DEF Submit
<1>11. ASSUME NEW n \in Network, NetworkComesOrGoes(n) PROVE DevBuildTakesNone' /\ TokenIsToken'
  BY <1>1, <1>11 DEF NetworkComesOrGoes
<1>12. QED
  BY <1>2, <1>3, <1>4, <1>5, <1>6, <1>7, <1>8, <1>9, <1>10, <1>11 DEF Next, NetTask

(* The credentials that have been stored are those that were tested.       *)
LEMMA CredsStoredAreJoined ==
  ASSUME IInv, faults = 0, wipe = << >>, todo = << >>, npc = "creds"
  PROVE  kv["sta_ssid"] = pending.ssid /\ kv["sta_pass"] = pending.ssid
<1>1. Writing /\ pending \in Credentials
  BY DEF IInv, NothingIsBroken, TypeOK
<1>2. \A i \in 1 .. Len(CredWrites) : kv[CredWrites[i][1]] = CredWrites[i][2]
  BY <1>1, Groups, WriteEnds DEF Writing
<1>3. QED
  BY <1>1, <1>2 DEF CredWrites, Writing

(* A store's writes are none of the credentials.                           *)
LEMMA StoreSparesCreds ==
  ASSUME IInv, faults = 0, wipe = << >>, todo # << >>, npc = "store"
  PROVE  Head(todo)[1] \notin {"sta_ssid", "sta_pass"}
<1>1. Writing /\ issued \in 0 .. MaxIdentities /\ build \in {"http", "dev"} /\ todo \in Writes
  BY DEF IInv, NothingIsBroken, TypeOK, Writes
<1>2. CASE build = "dev"
  <2>1. \E i \in 1 .. Len(DevWrites) : Head(todo) = DevWrites[i]
    BY <1>1, <1>2, Groups, HeadIsOfGroup DEF Writing
  <2>2. QED
    BY <2>1 DEF DevWrites
<1>3. CASE build = "http"
  <2>1. CASE Half(BareIdentity(issued), todo, kv)
    <3>1. \E i \in 1 .. Len(BareIdentity(issued)) : Head(todo) = BareIdentity(issued)[i]
      BY <1>1, <2>1, Groups, HeadIsOfGroup
    <3>2. QED
      BY <3>1 DEF BareIdentity, Required
  <2>2. CASE Half(NamedIdentity(issued), todo, kv)
    <3>1. PICK i \in 1 .. Len(NamedIdentity(issued)) : Head(todo) = NamedIdentity(issued)[i]
      BY <1>1, <2>2, Groups, HeadIsOfGroup
    <3>2. NamedShape(issued)
      BY <1>1, NamedIsRequired
    <3>3. Len(Required(issued, issued)) = 4
      BY DEF Required
    <3>4. i = 5 \/ i \in 1 .. 4
      BY <3>2 DEF NamedShape
    <3>5. \A j \in 1 .. 4 : Required(issued, issued)[j][1] \notin {"sta_ssid", "sta_pass"}
      BY DEF Required
    <3>6. QED
      BY <3>1, <3>2, <3>4, <3>5 DEF NamedShape
  <2>3. QED
    BY <1>1, <1>3, <2>1, <2>2 DEF Writing
<1>4. QED
  BY <1>1, <1>2, <1>3

LEMMA FaultsGrow ==
  ASSUME IInv, [Next]_vars, faults' = 0
  PROVE  faults = 0 /\ ~Fault
<1>1. faults \in Nat
  BY DEF IInv, TypeOK
<1>2. faults' = faults \/ faults' = faults + 1
  BY DEF Next, NetTask, vars, Begin, Join, WriteKey, CredsStored, AlreadyEnrolled, EnrollFails,
     DevEnroll, Stored, Enroll, Submit, ResetBegins, Erase, PowerCut, PowerOn, NetworkComesOrGoes,
     Fault
<1>3. QED
  BY <1>1, <1>2 DEF Fault

LEMMA JoinedStep ==
  ASSUME CInv, [Next]_vars
  PROVE  JoinedIsKept'
<1> SUFFICES ASSUME faults' = 0, wipe' = << >>, npc' \in {"enroll", "store"}
             PROVE  kv'["sta_pass"] = pending'.ssid
  BY DEF JoinedIsKept
<1> USE DEF radio, ram
<1>0. faults = 0 /\ ~Fault /\ IInv
  BY FaultsGrow DEF CInv
<1>1. ASSUME wipe = << >>, npc \in {"enroll", "store"}, UNCHANGED <<kv, pending>>
      PROVE  kv'["sta_pass"] = pending'.ssid
  BY <1>0, <1>1 DEF CInv, JoinedIsKept
<1>2. CASE WriteKey
  <2>1. /\ wipe = << >> /\ todo # << >> /\ UNCHANGED <<npc, pending>>
        /\ kv' = [kv EXCEPT ![Head(todo)[1]] = Head(todo)[2]]
    BY <1>0, <1>2 DEF WriteKey, Running
  <2>2. npc = "store"
    BY <1>0, <2>1 DEF IInv, Placed
  <2>3. Head(todo)[1] \notin {"sta_ssid", "sta_pass"} /\ kv \in [Key -> Value] /\ "sta_pass" \in Key
    BY <1>0, <2>1, <2>2, StoreSparesCreds DEF IInv, TypeOK, Key
  <2>4. kv'["sta_pass"] = kv["sta_pass"]
    BY <2>1, <2>3
  <2>5. QED
    BY <1>0, <2>1, <2>2, <2>4 DEF CInv, JoinedIsKept
<1>3. CASE CredsStored
  BY <1>0, <1>3, CredsStoredAreJoined DEF CredsStored, Running
<1>4. CASE DevEnroll
  BY <1>1, <1>4 DEF DevEnroll, Running
<1>5. ASSUME NEW withId \in BOOLEAN, Enroll(withId) PROVE kv'["sta_pass"] = pending'.ssid
  BY <1>1, <1>5 DEF Enroll, Running
<1>6. CASE UNCHANGED vars
  BY <1>1, <1>6 DEF vars
<1>7. CASE Begin \/ Join \/ AlreadyEnrolled \/ EnrollFails \/ Stored \/ ResetBegins
  BY <1>7, WipeOrderIsComplete DEF Begin, Join, AlreadyEnrolled, EnrollFails, Stored, TestFailed, OpenPortal, GoOperational,
              ResetBegins
<1>8. CASE Erase \/ PowerCut
  <2>1. npc' = "begin" \/ (wipe # << >> /\ Len(wipe) # 1 /\ wipe' = Tail(wipe))
    BY <1>8, SwitchedOff DEF Erase, PowerCut
  <2>2. wipe \in Seq(Key)
    BY <1>0 DEF IInv, TypeOK
  <2>3. QED
    BY <2>1, <2>2, EraseLeavesSome
<1>9. CASE PowerOn
  BY <1>0, <1>9 DEF PowerOn, IInv, Placed
<1>10. ASSUME NEW creds \in Credentials, Submit(creds) PROVE kv'["sta_pass"] = pending'.ssid
  BY <1>10 DEF Submit
<1>11. ASSUME NEW n \in Network, NetworkComesOrGoes(n) PROVE kv'["sta_pass"] = pending'.ssid
  BY <1>1, <1>11 DEF NetworkComesOrGoes
<1>12. QED
  BY <1>2, <1>3, <1>4, <1>5, <1>6, <1>7, <1>8, <1>9, <1>10, <1>11 DEF Next, NetTask

LEMMA CInvKept == CInv /\ [Next]_vars => CInv'
BY NextKeeps, KeysStep, JoinedStep DEF CInv

----------------------------------------------------------------------------
(* What the owner sees.                                                    *)
View == <<Phase, Joined, OwnedNetwork, OwnedIdentity, OwnedName, mqtt>>

(* Nothing hides what the keys say.                                        *)
Plain == wipe = << >> /\ (npc = "store" => todo = << >>)

LEMMA Shown ==
  /\ Plain => /\ OwnedNetwork = kv["sta_pass"]
              /\ OwnedIdentity = IF build = "http" THEN kv["tls_cert"] ELSE kv["enroll_token"]
              /\ OwnedName = (kv["device_id"] # NoValue)
  /\ Plain' => /\ OwnedNetwork' = kv'["sta_pass"]
               /\ OwnedIdentity' = IF build' = "http" THEN kv'["tls_cert"] ELSE kv'["enroll_token"]
               /\ OwnedName' = (kv'["device_id"] # NoValue)
BY DEF Plain, OwnedNetwork, OwnedIdentity, OwnedName, Remembered

LEMMA Forgotten ==
  /\ wipe # << >> => OwnedNetwork = NoValue /\ OwnedIdentity = NoValue /\ OwnedName = FALSE
  /\ wipe' # << >> => OwnedNetwork' = NoValue /\ OwnedIdentity' = NoValue /\ OwnedName' = FALSE
BY DEF OwnedNetwork, OwnedIdentity, OwnedName, Remembered

LEMMA Storing ==
  /\ npc = "store" /\ todo # << >> => Remembered("tls_cert") = NoValue /\ OwnedName = FALSE
  /\ npc' = "store" /\ todo' # << >> =>
       /\ OwnedName' = FALSE
       /\ build' = "http" => OwnedIdentity' = NoValue
BY DEF OwnedIdentity, OwnedName, Remembered

LEMMA Standing ==
  /\ power /\ wipe = << >> /\ npc \in DOMAIN Stage =>
       Phase = Stage[npc] /\ Joined = IF Stage[npc] = "joined" THEN pending.ssid ELSE NoValue
  /\ power' /\ wipe' = << >> /\ npc' \in DOMAIN Stage =>
       Phase' = Stage[npc'] /\ Joined' = IF Stage[npc'] = "joined" THEN pending'.ssid ELSE NoValue
BY DEF Phase, Joined, Stage

LEMMA Resting ==
  /\ ~power => Phase = "off" /\ Joined = NoValue
  /\ power /\ wipe # << >> => Phase = "resetting" /\ Joined = NoValue
  /\ ~power' => Phase' = "off" /\ Joined' = NoValue
  /\ power' /\ wipe' # << >> => Phase' = "resetting" /\ Joined' = NoValue
BY DEF Phase, Joined

(* The memory stands as it does while the task moves about.                *)
LEMMA MemoryStands ==
  ASSUME Plain, Plain', UNCHANGED <<build, kv>>
  PROVE  UNCHANGED <<OwnedNetwork, OwnedIdentity, OwnedName>>
BY Shown

LEMMA Absent == /\ NoValue \notin Network /\ NoValue \notin 0 .. MaxIdentities
                /\ Cut \notin 0 .. MaxIdentities
BY ValueAssumption

Does == \/ Owned!Serve \/ Owned!Portal \/ Owned!Submit \/ Owned!Join \/ Owned!Remember
        \/ Owned!Enroll \/ Owned!Forget \/ Owned!SwitchOff \/ Owned!SwitchOn
        \/ UNCHANGED View

(* The network joined is remembered, and an enrolled device is identified. *)
LEMMA EnrolledOnJoined ==
  ASSUME CInv, faults = 0, wipe = << >>, npc \in {"enroll", "store"}
  PROVE  kv["sta_pass"] = pending.ssid /\ pending.ssid # NoValue
<1>1. pending.ssid \in Network
  BY DEF CInv, IInv, TypeOK, Credentials
<1>2. QED
  BY <1>1, Absent DEF CInv, JoinedIsKept

LEMMA CertIdentifies ==
  ASSUME CInv, Plain, hasOperationalCert
  PROVE  OwnedIdentity # NoValue
<1>1. build = "dev" => ~Has("tls_cert")
  BY DEF CInv, DevBuildTakesNone, Has, Identity
<1>2. QED
  BY <1>1, Shown DEF hasOperationalCert, Has, CInv, IInv, TypeOK

(* The end of a test, or a start, with what is remembered.                 *)
LEMMA Serves ==
  ASSUME CInv, faults = 0, Plain, Plain', UNCHANGED <<build, power, kv, mqtt>>, power,
         npc \in {"begin", "enroll", "store"}, npc' = "run",
         kv["sta_pass"] # NoValue, OwnedIdentity # NoValue
  PROVE  Owned!Serve
<1>1. UNCHANGED <<OwnedNetwork, OwnedIdentity, OwnedName>> /\ OwnedNetwork = kv["sta_pass"]
  BY MemoryStands, Shown
<1>2. Phase' = "service" /\ Joined' = NoValue /\ mqtt' = mqtt
  BY Standing DEF Plain, Stage
<1>3. CASE npc = "begin"
  <2>1. Phase = "starting"
    BY <1>3, Standing DEF Plain, Stage
  <2>2. QED
    BY <1>1, <1>2, <2>1 DEF Owned!Serve, Owned!Becomes, Owned!memory
<1>4. CASE npc # "begin"
  <2>1. Phase = "joined" /\ Joined = pending.ssid
    BY <1>4, Standing DEF Plain, Stage
  <2>2. OwnedNetwork = Joined
    BY <1>1, <1>4, <2>1, EnrolledOnJoined DEF Plain
  <2>3. QED
    BY <1>1, <1>2, <2>1, <2>2 DEF Owned!Serve, Owned!Becomes, Owned!memory
<1>5. QED
  BY <1>3, <1>4

LEMMA Opens ==
  ASSUME CInv, faults = 0, Plain, Plain', UNCHANGED <<build, power, kv, mqtt>>, power,
         npc \in {"begin", "join", "enroll", "store"}, npc' = "portal"
  PROVE  Owned!Portal
<1>1. UNCHANGED <<OwnedNetwork, OwnedIdentity, OwnedName>> /\ OwnedNetwork = kv["sta_pass"]
  BY MemoryStands, Shown
<1>2. Phase' = "portal" /\ Joined' = NoValue /\ mqtt' = mqtt
  BY Standing DEF Plain, Stage
<1>3. CASE npc \in {"begin", "join"}
  <2>1. Phase \in {"starting", "testing"}
    BY <1>3, Standing DEF Plain, Stage
  <2>2. QED
    BY <1>1, <1>2, <2>1 DEF Owned!Portal, Owned!Becomes, Owned!memory
<1>4. CASE npc \in {"enroll", "store"}
  <2>1. Phase = "joined" /\ Joined = pending.ssid
    BY <1>4, Standing DEF Plain, Stage
  <2>2. OwnedNetwork = Joined
    BY <1>1, <1>4, <2>1, EnrolledOnJoined DEF Plain
  <2>3. QED
    BY <1>1, <1>2, <2>1, <2>2 DEF Owned!Portal, Owned!Becomes, Owned!memory
<1>5. QED
  BY <1>3, <1>4

LEMMA BeginDoes == ASSUME CInv, faults = 0, Begin PROVE Does
<1>1. /\ power /\ wipe = << >> /\ npc = "begin" /\ todo = << >>
      /\ UNCHANGED <<build, power, kv, mqtt, todo, wipe>>
  BY DEF Begin, Running, CInv, IInv, Placed
<1>2. Plain /\ Plain'
  BY <1>1 DEF Plain
<1>3. CASE GoOperational(TRUE) /\ hasStoredCreds /\ hasOperationalCert
  <2>1. kv["sta_pass"] # NoValue
    BY <1>1, <1>3, SettledIsWhole DEF CInv, CredsAgree, hasStoredCreds, Has
  <2>2. npc' = "run" /\ OwnedIdentity # NoValue
    BY <1>2, <1>3, CertIdentifies DEF GoOperational
  <2>3. QED
    BY <1>1, <1>2, <2>1, <2>2, Serves DEF Does
<1>4. CASE OpenPortal
  BY <1>1, <1>2, <1>4, Opens DEF Does, OpenPortal
<1>5. QED
  BY <1>3, <1>4 DEF Begin

LEMMA SubmitDoes == ASSUME CInv, NEW creds \in Credentials, Submit(creds) PROVE Does
<1>1. /\ power /\ wipe = << >> /\ npc = "portal" /\ npc' = "join"
      /\ UNCHANGED <<build, power, kv, mqtt, todo, wipe>>
  BY DEF Submit, Running
<1>2. Phase = "portal" /\ Phase' = "testing" /\ Joined' = NoValue
  BY <1>1, Standing DEF Stage
<1>3. UNCHANGED <<OwnedNetwork, OwnedIdentity, OwnedName>>
  BY <1>1, MemoryStands DEF Plain
<1>4. QED
  BY <1>1, <1>2, <1>3 DEF Does, Owned!Submit, Owned!Becomes, Owned!memory

LEMMA JoinDoes == ASSUME CInv, faults = 0, Join PROVE Does
<1>1. /\ power /\ wipe = << >> /\ npc = "join" /\ todo = << >>
      /\ UNCHANGED <<build, power, kv, mqtt, wipe>>
  BY DEF Join, Running, CInv, IInv, Placed
<1>2. CASE npc' = "creds" /\ pending' = pending
  <2>1. Phase = "testing" /\ Phase' = "joined" /\ Joined' = pending.ssid
    BY <1>1, <1>2, Standing DEF Stage
  <2>2. Joined' \in Network
    BY <2>1 DEF CInv, IInv, TypeOK, Credentials
  <2>3. UNCHANGED <<OwnedNetwork, OwnedIdentity, OwnedName>>
    BY <1>1, <1>2, MemoryStands DEF Plain
  <2>4. QED
    BY <1>1, <2>1, <2>2, <2>3 DEF Does, Owned!Join, Owned!memory
<1>3. CASE npc' = "portal"
  BY <1>1, <1>3, Opens DEF Does, Plain
<1>4. QED
  BY <1>2, <1>3 DEF Join, TestFailed, OpenPortal

LEMMA CredsStoredDoes == ASSUME CInv, CredsStored PROVE Does
<1>1. /\ power /\ wipe = << >> /\ npc = "creds" /\ npc' = "enroll"
      /\ UNCHANGED <<build, power, kv, mqtt, todo, wipe, pending>>
  BY DEF CredsStored, Running
<1>2. Phase' = Phase /\ Joined' = Joined
  BY <1>1, Standing DEF Stage
<1>3. UNCHANGED <<OwnedNetwork, OwnedIdentity, OwnedName>>
  BY <1>1, MemoryStands DEF Plain
<1>4. QED
  BY <1>1, <1>2, <1>3 DEF Does, View

LEMMA EnrolledDoes == ASSUME CInv, faults = 0, AlreadyEnrolled \/ EnrollFails PROVE Does
<1>1. /\ power /\ wipe = << >> /\ npc = "enroll"
      /\ UNCHANGED <<build, power, kv, mqtt, todo, wipe>>
  BY DEF AlreadyEnrolled, EnrollFails, Running
<1>2. kv["sta_pass"] # NoValue
  BY <1>1, EnrolledOnJoined
<1>3. CASE AlreadyEnrolled
  <2>1. npc' = "run" /\ Plain /\ Plain' /\ hasOperationalCert
    BY <1>1, <1>3 DEF AlreadyEnrolled, GoOperational, Plain
  <2>2. QED
    BY <1>1, <1>2, <2>1, CertIdentifies, Serves DEF Does
<1>4. CASE EnrollFails
  BY <1>1, <1>4, Opens DEF Does, Plain, EnrollFails, TestFailed, OpenPortal
<1>5. QED
  BY <1>3, <1>4

(* A dev build's keys of the identity stay absent, so it has no name.      *)
LEMMA DevIsNameless ==
  /\ CInv /\ build = "dev" => kv["device_id"] = NoValue /\ OwnedName = FALSE
  /\ CInv' /\ build' = "dev" => kv'["device_id"] = NoValue /\ OwnedName' = FALSE
BY DEF CInv, DevBuildTakesNone, Identity, OwnedName, Remembered

LEMMA NetworkShown ==
  /\ wipe = << >> => OwnedNetwork = kv["sta_pass"]
  /\ wipe' = << >> => OwnedNetwork' = kv'["sta_pass"]
  /\ wipe = << >> /\ build = "dev" => OwnedIdentity = kv["enroll_token"]
  /\ wipe' = << >> /\ build' = "dev" => OwnedIdentity' = kv'["enroll_token"]
BY DEF OwnedNetwork, OwnedIdentity

(* An enrollment begins: nothing to be seen yet.                           *)
LEMMA DevEnrollDoes == ASSUME CInv, CInv', DevEnroll PROVE Does
<1>1. /\ power /\ wipe = << >> /\ npc = "enroll" /\ npc' = "store" /\ build = "dev"
      /\ UNCHANGED <<build, power, kv, mqtt, wipe, pending>>
  BY DEF DevEnroll, Running
<1>2. Phase' = Phase /\ Joined' = Joined
  BY <1>1, Standing DEF Stage
<1>3. UNCHANGED <<OwnedNetwork, OwnedIdentity, OwnedName>>
  BY <1>1, NetworkShown, DevIsNameless
<1>4. QED
  BY <1>1, <1>2, <1>3 DEF Does, View

LEMMA EnrollDoes ==
  ASSUME CInv, faults = 0, NEW withId \in BOOLEAN, Enroll(withId), ~Fault
  PROVE  Does
<1>1. /\ power /\ wipe = << >> /\ npc = "enroll" /\ npc' = "store" /\ build = "http"
      /\ UNCHANGED <<build, power, kv, mqtt, wipe, pending>> /\ ~Has("tls_cert")
  BY DEF Enroll, Running, hasOperationalCert
<1>2. Phase' = Phase /\ Joined' = Joined
  BY <1>1, Standing DEF Stage
<1>3. kv["tls_cert"] = NoValue /\ kv["device_id"] = NoValue
  <2>1. todo = << >> /\ IInv
    BY <1>1 DEF CInv, IInv, Placed
  <2>2. WholeIdentity
    BY <1>1, <2>1, SettledIsWhole
  <2>3. QED
    BY <1>1, <2>2 DEF WholeIdentity, Has
<1>4. OwnedIdentity = NoValue /\ OwnedName = FALSE
  BY <1>1, <1>3, Shown DEF Plain
<1>5. todo' # << >>
  <2> DEFINE g == issued + 1
  <2>1. PICK key \in {g, Cut} :
          todo' = IF withId THEN Append(Required(g, key), <<"device_id", g>>) ELSE Required(g, key)
    BY DEF Enroll
  <2> HIDE DEF g
  <2>2. /\ Required(g, key) \in Seq(Identity \X {g, key})
        /\ <<"device_id", g>> \in Identity \X {g, key} /\ Len(Required(g, key)) = 4
    BY DEF Required, Identity
  <2> DEFINE r == Required(g, key)
             e == <<"device_id", g>>
             S == Identity \X {g, key}
  <2> HIDE DEF r, e, S
  <2>3. r \in Seq(S) /\ e \in S /\ Len(r) = 4
    BY <2>2 DEF r, e, S
  <2>4. Len(Append(r, e)) = Len(r) + 1
    BY <2>3, AppendProperties
  <2>5. Len(todo') \in {4, 5}
    BY <2>1, <2>3, <2>4 DEF r, e
  <2>6. QED
    BY <2>5
<1>6. OwnedIdentity' = NoValue /\ OwnedName' = FALSE
  BY <1>1, <1>5, Storing
<1>7. OwnedNetwork' = OwnedNetwork
  BY <1>1, NetworkShown
<1>8. QED
  BY <1>1, <1>2, <1>4, <1>6, <1>7 DEF Does, View

(* The writes, of which the last of its group shows.                       *)
LEMMA CredWriteDoes ==
  ASSUME CInv, faults = 0, WriteKey, ~Fault, npc = "creds"
  PROVE  Does
<1>1. /\ power /\ wipe = << >> /\ todo # << >> /\ kv' = [kv EXCEPT ![Head(todo)[1]] = Head(todo)[2]]
      /\ UNCHANGED <<build, power, mqtt, wipe, pending, npc>>
  BY DEF WriteKey, Running
<1>2. Phase' = Phase /\ Phase = "joined" /\ Joined' = Joined /\ Joined = pending.ssid
  BY <1>1, Standing DEF Stage
<1>3. /\ todo \in Writes /\ kv \in [Key -> Value] /\ pending \in Credentials
      /\ pending.ssid = pending.pass /\ Half(CredWrites, todo, kv)
  BY <1>1 DEF CInv, IInv, TypeOK, Writes, NothingIsBroken, Writing
<1>4. \E i \in 1 .. Len(CredWrites) : Head(todo) = CredWrites[i]
  BY <1>1, <1>3, Groups, HeadIsOfGroup
<1>5. Head(todo) \in {<<"sta_ssid", pending.ssid>>, <<"sta_pass", pending.ssid>>}
  BY <1>3, <1>4 DEF CredWrites
<1>6. /\ kv'["tls_cert"] = kv["tls_cert"] /\ kv'["device_id"] = kv["device_id"]
      /\ kv'["enroll_token"] = kv["enroll_token"]
      /\ kv'["sta_pass"] \in {kv["sta_pass"], pending.ssid}
  BY <1>1, <1>3, <1>5 DEF Key, Identity
<1>7. OwnedIdentity' = OwnedIdentity /\ OwnedName' = OwnedName
      /\ OwnedNetwork' \in {OwnedNetwork, Joined}
  BY <1>1, <1>2, <1>6, Shown DEF Plain
<1>8. QED
  BY <1>1, <1>2, <1>7 DEF Does, View, Owned!Remember

LEMMA StoreWrites ==
  ASSUME CInv, faults = 0, WriteKey, ~Fault, npc = "store"
  PROVE  /\ power /\ wipe = << >> /\ todo # << >> /\ UNCHANGED <<build, power, mqtt, wipe, pending, npc>>
         /\ todo' = Tail(todo) /\ kv' = [kv EXCEPT ![Head(todo)[1]] = Head(todo)[2]]
         /\ todo \in Writes /\ kv \in [Key -> Value] /\ issued \in 0 .. MaxIdentities
         /\ Phase' = Phase /\ Joined' = Joined
         /\ Phase = "joined" /\ OwnedNetwork = Joined /\ OwnedNetwork' = OwnedNetwork
<1>1. /\ power /\ wipe = << >> /\ todo # << >> /\ kv' = [kv EXCEPT ![Head(todo)[1]] = Head(todo)[2]]
      /\ UNCHANGED <<build, power, mqtt, wipe, pending, npc>> /\ todo' = Tail(todo)
  BY DEF WriteKey, Running
<1>2. Phase' = Phase /\ Phase = "joined" /\ Joined' = Joined /\ Joined = pending.ssid
  BY <1>1, Standing DEF Stage
<1>3. todo \in Writes /\ kv \in [Key -> Value] /\ "sta_pass" \in Key /\ issued \in 0 .. MaxIdentities
  BY DEF CInv, IInv, TypeOK, Writes, Key
<1>4. Head(todo)[1] # "sta_pass"
  BY <1>1, StoreSparesCreds DEF CInv
<1>5. kv'["sta_pass"] = kv["sta_pass"]
  BY <1>1, <1>3, <1>4
<1>6. OwnedNetwork = Joined /\ OwnedNetwork' = OwnedNetwork
  BY <1>1, <1>2, <1>5, NetworkShown, EnrolledOnJoined
<1>7. QED
  BY <1>1, <1>2, <1>3, <1>6

LEMMA DevWriteDoes ==
  ASSUME CInv, CInv', faults = 0, WriteKey, ~Fault, npc = "store", build = "dev"
  PROVE  Does
<1>1. /\ UNCHANGED <<build, wipe, mqtt>> /\ wipe = << >> /\ todo # << >> /\ todo \in Writes
      /\ kv \in [Key -> Value] /\ kv' = [kv EXCEPT ![Head(todo)[1]] = Head(todo)[2]]
      /\ UNCHANGED <<Phase, Joined, OwnedNetwork>> /\ Phase = "joined" /\ OwnedNetwork = Joined
  BY StoreWrites
<1>2. Half(DevWrites, todo, kv)
  BY <1>1 DEF CInv, IInv, NothingIsBroken, Writing
<1>3. Head(todo) = <<"enroll_token", 0>>
  BY <1>1, <1>2, Groups, HeadIsOfGroup DEF DevWrites
<1>4. kv'["enroll_token"] = 0
  BY <1>1, <1>3 DEF Key
<1>5. OwnedIdentity \in {NoValue, 0} /\ OwnedIdentity' = 0
  BY <1>1, <1>4, NetworkShown DEF CInv, TokenIsToken
<1>6. OwnedName = FALSE /\ OwnedName' = FALSE
  BY <1>1, DevIsNameless
<1>7. 0 \in 0 .. MaxIdentities
  BY IdentityAssumption
<1>8. QED
  BY <1>1, <1>5, <1>6, <1>7 DEF Does, View, Owned!Enroll

LEMMA StoredIsIssued ==
  ASSUME NEW g \in 0 .. MaxIdentities, NEW m,
         Half(BareIdentity(g), << >>, m) \/ Half(NamedIdentity(g), << >>, m)
  PROVE  m["tls_cert"] = g
<1>1. CASE Half(BareIdentity(g), << >>, m)
  <2>1. \A i \in 1 .. Len(BareIdentity(g)) : m[BareIdentity(g)[i][1]] = BareIdentity(g)[i][2]
    BY <1>1, Groups, WriteEnds
  <2>2. QED
    BY <2>1 DEF BareIdentity, Required
<1>2. CASE Half(NamedIdentity(g), << >>, m)
  <2>1. \A i \in 1 .. Len(NamedIdentity(g)) : m[NamedIdentity(g)[i][1]] = NamedIdentity(g)[i][2]
    BY <1>2, Groups, WriteEnds
  <2>2. NamedShape(g) /\ Required(g, g)[2] = <<"tls_cert", g>>
    BY NamedIsRequired DEF Required
  <2>3. QED
    BY <2>1, <2>2 DEF NamedShape
<1>3. QED
  BY <1>1, <1>2

LEMMA HttpWriteDoes ==
  ASSUME CInv, faults = 0, WriteKey, ~Fault, npc = "store", build = "http"
  PROVE  Does
<1>1. /\ UNCHANGED <<build, wipe, mqtt, npc>> /\ wipe = << >> /\ todo # << >> /\ todo \in Writes
      /\ kv \in [Key -> Value] /\ kv' = [kv EXCEPT ![Head(todo)[1]] = Head(todo)[2]]
      /\ issued \in 0 .. MaxIdentities /\ todo' = Tail(todo)
      /\ UNCHANGED <<Phase, Joined, OwnedNetwork>> /\ Phase = "joined" /\ OwnedNetwork = Joined
  BY StoreWrites
<1>2. OwnedIdentity = NoValue /\ OwnedName = FALSE
  BY <1>1, Storing DEF OwnedIdentity
<1>3. CASE todo' # << >>
  <2>1. OwnedIdentity' = NoValue /\ OwnedName' = FALSE
    BY <1>1, <1>3, Storing
  <2>2. QED
    BY <1>1, <1>2, <2>1 DEF Does, View
<1>4. CASE todo' = << >>
  <2>1. /\ OwnedIdentity' = kv'["tls_cert"] /\ OwnedName' \in BOOLEAN
    BY <1>1, <1>4, Shown DEF Plain
  <2>2. kv'["tls_cert"] = issued
    <3>1. Half(BareIdentity(issued), todo, kv) \/ Half(NamedIdentity(issued), todo, kv)
      BY <1>1 DEF CInv, IInv, NothingIsBroken, Writing
    <3>2. Half(BareIdentity(issued), << >>, kv') \/ Half(NamedIdentity(issued), << >>, kv')
      BY <1>1, <1>4, <3>1, Groups, WriteAdvances
    <3>3. QED
      BY <1>1, <3>2, StoredIsIssued
  <2>3. QED
    BY <1>1, <1>2, <2>1, <2>2 DEF Does, Owned!Enroll
<1>5. QED
  BY <1>3, <1>4

LEMMA StoredDoes == ASSUME CInv, faults = 0, Stored PROVE Does
<1>1. /\ power /\ wipe = << >> /\ npc = "store" /\ todo = << >>
      /\ UNCHANGED <<build, power, kv, mqtt, todo, wipe>>
      /\ Writing /\ issued \in 0 .. MaxIdentities /\ build \in {"http", "dev"} /\ pending \in Credentials
  BY DEF Stored, Running, CInv, IInv, NothingIsBroken, TypeOK
<1>2. Plain /\ Plain'
  BY <1>1 DEF Plain
<1>3. kv["sta_pass"] # NoValue
  BY <1>1, EnrolledOnJoined
<1>4. CASE npc' = "portal"
  BY <1>1, <1>2, <1>4, Opens DEF Does
<1>5. CASE npc' = "run"
  <2>1. OwnedIdentity \in 0 .. MaxIdentities
    <3>1. CASE build = "dev"
      <4>1. \A i \in 1 .. Len(DevWrites) : kv[DevWrites[i][1]] = DevWrites[i][2]
        BY <1>1, <3>1, Groups, WriteEnds DEF Writing
      <4>2. kv["enroll_token"] = 0
        BY <4>1 DEF DevWrites
      <4>3. QED
        BY <1>2, <3>1, <4>2, Shown, IdentityAssumption
    <3>2. CASE build = "http"
      <4>1. kv["tls_cert"] = issued
        BY <1>1, <3>2, StoredIsIssued DEF Writing
      <4>2. QED
        BY <1>1, <1>2, <3>2, <4>1, Shown
    <3>3. QED
      BY <1>1, <3>1, <3>2
  <2>2. OwnedIdentity # NoValue
    BY <2>1, Absent
  <2>3. QED
    BY <1>1, <1>2, <1>3, <1>5, <2>2, Serves DEF Does
<1>6. QED
  BY <1>4, <1>5 DEF Stored, GoOperational, TestFailed, OpenPortal

(* Resets, power and the neighbourhood.                                    *)
LEMMA ResetDoes == ASSUME CInv, ResetBegins PROVE Does
<1>0. WipeOrder # << >>
  BY WipeOrderIsComplete
<1>1. /\ power /\ wipe = << >> /\ UNCHANGED <<power, mqtt>> /\ wipe' # << >>
  BY <1>0 DEF ResetBegins, Running
<1>2. npc \in DOMAIN Stage
  BY DEF Stage, CInv, IInv, TypeOK
<1>3. Phase \notin {"off", "resetting"}
  BY <1>1, <1>2, Standing DEF Stage
<1>4. Phase' = "resetting" /\ Joined' = NoValue
  BY <1>1, Resting
<1>5. QED
  BY <1>1, <1>3, <1>4, Forgotten DEF Does, Owned!Forget, Owned!Becomes

LEMMA EraseDoes == ASSUME CInv, Erase, faults' = 0 PROVE Does
<1>1. /\ power /\ wipe # << >> /\ wipe \in Seq(Key) /\ Phase = "resetting" /\ Joined = NoValue
      /\ OwnedNetwork = NoValue /\ OwnedIdentity = NoValue /\ OwnedName = FALSE
  BY Forgotten, Resting DEF Erase, CInv, IInv, TypeOK
<1>2. CASE Len(wipe) = 1
  <2>1. ~power' /\ wipe' = << >> /\ npc' = "begin" /\ mqtt' = {}
    BY <1>2, SwitchedOff DEF Erase
  <2>2. \A k \in Key : kv'[k] = NoValue
    BY <2>1, WipeForgets DEF CInv
  <2>3. /\ kv'["sta_pass"] = NoValue /\ kv'["tls_cert"] = NoValue /\ kv'["device_id"] = NoValue
        /\ kv'["enroll_token"] = NoValue
    BY <2>2 DEF Key, Identity
  <2>4. OwnedNetwork' = NoValue /\ OwnedIdentity' = NoValue /\ OwnedName' = FALSE
    BY <2>1, <2>3, Shown DEF Plain
  <2>5. Phase' = "off" /\ Joined' = NoValue
    BY <2>1, Resting
  <2>6. QED
    BY <1>1, <2>1, <2>4, <2>5 DEF Does, Owned!SwitchOff, Owned!Becomes, Owned!memory
<1>3. CASE Len(wipe) # 1
  <2>1. power' /\ wipe' # << >> /\ mqtt' = mqtt
    BY <1>1, <1>3, EraseLeavesSome DEF Erase
  <2>2. QED
    BY <1>1, <2>1, Forgotten, Resting DEF Does, View
<1>4. QED
  BY <1>2, <1>3

LEMMA PowerCutDoes == ASSUME CInv, PowerCut, ~Fault PROVE Does
<1>1. todo = << >> /\ wipe = << >> /\ power /\ UNCHANGED kv
  BY DEF PowerCut, Settled
<1>2. ~power' /\ wipe' = << >> /\ todo' = << >> /\ build' = build /\ mqtt' = {}
  BY SwitchedOff DEF PowerCut
<1>3. UNCHANGED <<OwnedNetwork, OwnedIdentity, OwnedName>>
  BY <1>1, <1>2, MemoryStands DEF Plain
<1>4. Phase # "off"
  <2>1. npc \in DOMAIN Stage
    BY DEF Stage, CInv, IInv, TypeOK
  <2>2. QED
    BY <1>1, <2>1, Standing DEF Stage
<1>5. Phase' = "off" /\ Joined' = NoValue
  BY <1>2, Resting
<1>6. QED
  BY <1>2, <1>3, <1>4, <1>5 DEF Does, Owned!SwitchOff, Owned!Becomes, Owned!memory

LEMMA PowerOnDoes == ASSUME CInv, CInv', PowerOn, faults = 0 PROVE Does
<1>1. /\ ~power /\ power' /\ npc = "begin" /\ wipe = << >> /\ todo = << >>
      /\ UNCHANGED <<npc, wipe, todo, kv, build, faults>>
  BY DEF PowerOn, ram, CInv, IInv, Placed
<1>2. Phase = "off" /\ Phase' = "starting" /\ Joined' = NoValue
  BY <1>1, Resting, Standing DEF Stage
<1>3. Plain /\ Plain'
  BY <1>1 DEF Plain
<1>4. UNCHANGED <<OwnedNetwork, OwnedIdentity, OwnedName>>
  BY <1>1, <1>3, MemoryStands
<1>5. mqtt' = IF kv["device_id"] # NoValue THEN {kv["tls_cert"]} ELSE {}
  BY <1>1 DEF CInv, IInv, MqttIsIdentified, Running, Has
<1>6. mqtt' = IF OwnedName THEN {OwnedIdentity} ELSE {}
  <2>1. CASE build = "dev"
    BY <1>5, <2>1, DevIsNameless
  <2>2. CASE build # "dev"
    <3>1. build = "http"
      BY <2>2 DEF CInv, IInv, TypeOK
    <3>2. QED
      BY <1>3, <1>5, <3>1, Shown
  <2>3. QED
    BY <2>1, <2>2
<1>7. QED
  BY <1>2, <1>4, <1>6 DEF Does, Owned!SwitchOn, Owned!Becomes, Owned!memory

LEMMA Elsewhere ==
  ASSUME UNCHANGED <<build, power, npc, pending, todo, wipe, mqtt, kv>>
  PROVE  Does
<1>1. Phase' = Phase
  BY DEF Phase, Stage
<1>2. Joined' = Joined
  BY <1>1 DEF Joined
<1>3. UNCHANGED <<OwnedNetwork, OwnedIdentity, OwnedName>>
  BY DEF OwnedNetwork, OwnedIdentity, OwnedName, Remembered
<1>4. QED
  BY <1>1, <1>2, <1>3 DEF Does, View

----------------------------------------------------------------------------
LEMMA CommissioningStarts == Init => Owned!Init
<1> SUFFICES ASSUME Init PROVE Owned!Init
  OBVIOUS
<1>1. PICK seed \in {NoValue, 0} : kv = [k \in Key |-> IF k = "enroll_token" THEN seed ELSE NoValue]
  BY DEF Init
<1>2. /\ kv["sta_pass"] = NoValue /\ kv["tls_cert"] = NoValue /\ kv["device_id"] = NoValue
      /\ kv["enroll_token"] \in {NoValue, 0}
  BY <1>1 DEF Key, Identity
<1>3. power /\ wipe = << >> /\ todo = << >> /\ npc = "begin" /\ mqtt = {} /\ faults = 0
  BY DEF Init
<1>4. Phase = "starting" /\ Joined = NoValue
  BY <1>3, Standing DEF Stage
<1>5. OwnedNetwork = NoValue /\ OwnedIdentity \in {NoValue, 0} /\ OwnedName = FALSE
  BY <1>2, <1>3, Shown DEF Plain
<1>6. 0 \in 0 .. MaxIdentities
  BY IdentityAssumption
<1>7. QED
  BY <1>3, <1>4, <1>5, <1>6 DEF Owned!Init

LEMMA CommissioningSteps == CInv /\ CInv' /\ [Next]_vars => [Owned!Next]_(Owned!vars)
<1> SUFFICES ASSUME CInv, CInv', [Next]_vars
             PROVE  Owned!Next \/ UNCHANGED Owned!vars
  OBVIOUS
<1> USE DEF radio, ram
<1>1. CASE faults' = 0
  <2>1. faults = 0 /\ ~Fault
    BY <1>1, FaultsGrow DEF CInv
  <2>2. Does
    <3>1. CASE Begin \/ Join \/ CredsStored \/ AlreadyEnrolled \/ EnrollFails \/ DevEnroll \/ Stored
      BY <2>1, <3>1, BeginDoes, JoinDoes, CredsStoredDoes, EnrolledDoes, DevEnrollDoes, StoredDoes
    <3>2. CASE WriteKey
      <4>1. npc \in {"creds", "store"} /\ build \in {"http", "dev"}
        BY <3>2 DEF WriteKey, CInv, IInv, Placed, TypeOK
      <4>2. QED
        BY <2>1, <3>2, <4>1, CredWriteDoes, DevWriteDoes, HttpWriteDoes
    <3>3. ASSUME NEW withId \in BOOLEAN, Enroll(withId) PROVE Does
      BY <2>1, <3>3, EnrollDoes
    <3>4. ASSUME NEW creds \in Credentials, Submit(creds) PROVE Does
      BY <3>4, SubmitDoes
    <3>5. CASE ResetBegins \/ Erase \/ PowerCut \/ PowerOn
      BY <1>1, <2>1, <3>5, ResetDoes, EraseDoes, PowerCutDoes, PowerOnDoes
    <3>6. ASSUME NEW n \in Network, NetworkComesOrGoes(n) PROVE Does
      BY <3>6, Elsewhere DEF NetworkComesOrGoes
    <3>7. CASE UNCHANGED vars
      BY <3>7, Elsewhere DEF vars
    <3>8. QED
      BY <3>1, <3>2, <3>3, <3>4, <3>5, <3>6, <3>7 DEF Next, NetTask
  <2>3. (faults > 0) = FALSE /\ (faults' > 0) = FALSE
    BY <1>1, <2>1
  <2>4. CASE UNCHANGED View
    BY <2>3, <2>4 DEF View, Owned!vars, Owned!memory
  <2>5. CASE ~UNCHANGED View
    BY <2>2, <2>3, <2>5 DEF Does, Owned!Next
  <2>6. QED
    BY <2>4, <2>5
<1>2. CASE faults' # 0
  <2>1. faults' > 0
    BY <1>2 DEF CInv, IInv, TypeOK
  <2>2. QED
    BY <2>1 DEF Owned!Next
<1>3. QED
  BY <1>1, <1>2

(* Whatever is entered, joined, enrolled and reset, and whenever power     *)
(* goes between the groups of writes, the device remembers a network and   *)
(* an identity only in the ways and the order Commissioning allows, and    *)
(* MQTT is what it was switched on with, until the first fault             *)
(* (provisioning_service.h:42-111, provisioning_impl.h:170-267,            *)
(* composition_root.h:324-336, 414-427).                                   *)
THEOREM ProvisioningIsCommissioning == Spec => IsCommissioning
<1>1. Init => Owned!Init
  BY CommissioningStarts
<1>2. CInv /\ CInv' /\ [Next]_vars => [Owned!Next]_(Owned!vars)
  BY CommissioningSteps
<1>3. QED
  BY <1>1, <1>2, StartsCommissioned, CInvKept, PTL DEF Spec, IsCommissioning, Owned!Spec


----------------------------------------------------------------------------
(* What WayIn rests on.  An attempt with submitted credentials goes through*)
(* its stages once, and in a stage through its writes.                     *)
Left == [begin |-> 0, portal |-> 0, run |-> 0, store |-> 1, enroll |-> 2, creds |-> 3, join |-> 4]

Attempting == power /\ wipe = << >> /\ npc \in {"join", "creds", "enroll", "store"}

AttemptAdvances ==
  \/ ~power' \/ wipe' # << >>
  \/ portal' \/ state' = "Operational"
  \/ Left[npc'] < Left[npc] /\ npc' \in {"creds", "enroll", "store"}
  \/ npc' = npc /\ Len(todo') < Len(todo)
  \/ air' # air /\ UNCHANGED <<npc, todo>>

AttemptRunsOut == [][Attempting => AttemptAdvances]_vars

(* A reset that has begun runs to the reboot.                              *)
ResetRunsOut ==
  [][power /\ wipe # << >> => \/ ~power' \/ Len(wipe') < Len(wipe)
                              \/ air' # air /\ UNCHANGED <<wipe, kv>>]_vars

LEMMA AttemptSteps ==
  ASSUME TypeOK, Next, Attempting
  PROVE  AttemptAdvances
<1>1. CASE Join
  BY <1>1 DEF Join, TestFailed, OpenPortal, Left, AttemptAdvances
<1>2. CASE WriteKey
  <2>1. Len(Tail(todo)) < Len(todo)
    BY <1>2 DEF WriteKey, TypeOK
  <2>2. QED
    BY <1>2, <2>1 DEF WriteKey, AttemptAdvances
<1>3. CASE CredsStored
  BY <1>3 DEF CredsStored, Left, AttemptAdvances
<1>4. CASE AlreadyEnrolled \/ EnrollFails
  BY <1>4 DEF AlreadyEnrolled, EnrollFails, GoOperational, TestFailed, OpenPortal, AttemptAdvances
<1>5. CASE DevEnroll \/ \E withId \in BOOLEAN : Enroll(withId)
  BY <1>5 DEF DevEnroll, Enroll, Left, AttemptAdvances
<1>6. CASE Stored
  BY <1>6 DEF Stored, GoOperational, TestFailed, OpenPortal, AttemptAdvances
<1>7. CASE Begin \/ \E creds \in Credentials : Submit(creds)
  BY <1>7 DEF Begin, Submit, Attempting
<1>8. CASE ResetBegins \/ Erase \/ PowerCut \/ PowerOn
  <2>1. WipeOrder # << >>
    BY DEF WipeOrder
  <2>2. QED
    BY <1>8, <2>1 DEF ResetBegins, Erase, PowerCut, PowerOn, SwitchOff, Attempting, AttemptAdvances
<1>9. CASE \E n \in Network : NetworkComesOrGoes(n)
  BY <1>9 DEF NetworkComesOrGoes, ram, AttemptAdvances
<1>10. QED
  BY <1>1, <1>2, <1>3, <1>4, <1>5, <1>6, <1>7, <1>8, <1>9 DEF Next, NetTask

LEMMA ResetSteps ==
  ASSUME TypeOK, Next, power, wipe # << >>
  PROVE  ~power' \/ Len(wipe') < Len(wipe) \/ (air' # air /\ UNCHANGED <<wipe, kv>>)
<1>1. CASE Erase
  <2>1. Len(Tail(wipe)) < Len(wipe)
    BY DEF TypeOK
  <2>2. QED
    BY <1>1, <2>1 DEF Erase, SwitchOff
<1>2. CASE PowerCut \/ PowerOn
  BY <1>2 DEF PowerCut, SwitchOff, PowerOn
<1>3. CASE \E n \in Network : NetworkComesOrGoes(n)
  BY <1>3 DEF NetworkComesOrGoes, ram
<1>4. CASE NetTask \/ ResetBegins \/ \E creds \in Credentials : Submit(creds)
  BY <1>4 DEF NetTask, Begin, Join, WriteKey, CredsStored, AlreadyEnrolled, EnrollFails, DevEnroll,
         Stored, Enroll, ResetBegins, Submit, Running
<1>5. QED
  BY <1>1, <1>2, <1>3, <1>4 DEF Next

(* An attempt cannot go round in circles: each step of the device takes it *)
(* to a later stage or does one of the stage's writes, until there is a    *)
(* portal again or the device is operational, or a reset or a power cut    *)
(* ends it (provisioning_service.h:79-104).                                *)
THEOREM AttemptsRunOut == Spec => AttemptRunsOut
<1>1. TypeOK /\ [Next]_vars => [Attempting => AttemptAdvances]_vars
  BY AttemptSteps
<1>2. QED
  BY TypeCorrect, <1>1, PTL DEF Spec, AttemptRunsOut

(* A reset that has begun is not interrupted by the Net task: each step    *)
(* erases one key more or takes the power (composition_root.h:417-427).    *)
THEOREM ResetsRunOut == Spec => ResetRunsOut
<1>1. TypeOK /\ [Next]_vars
        => [power /\ wipe # << >> => \/ ~power' \/ Len(wipe') < Len(wipe)
                                     \/ air' # air /\ UNCHANGED <<wipe, kv>>]_vars
  BY ResetSteps
<1>2. QED
  BY TypeCorrect, <1>1, PTL DEF Spec, ResetRunsOut
=============================================================================
