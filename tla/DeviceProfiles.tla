---------------------------- MODULE DeviceProfiles ----------------------------
(***************************************************************************)
(* The table of hardware variants (profiles/) and the look-up the boot     *)
(* sequence and the update's compatibility check make in it.  A byte the   *)
(* table does not have is a fault: pins are never guessed.                 *)
(***************************************************************************)
EXTENDS Naturals, FiniteSets

kMaxChannels  == 4
kNoPin        == 255
kStatusLedPin == 22
kBacklightPin == 23
RelayPin == <<6, 8, 9, 26>>      (* kRefCh0 .. kRefCh3, the default build   *)
TouchPin == <<24, 20, 7, 14>>

(* The switch with n gangs uses the first n channels; a single gang has no *)
(* pair of pads to hold for a factory reset.                               *)
Profile(n) ==
  [id |-> n, channelCount |-> n,
   relay |-> [c \in 0 .. kMaxChannels - 1 |-> IF c < n THEN RelayPin[c + 1] ELSE kNoPin],
   touch |-> [c \in 0 .. kMaxChannels - 1 |-> IF c < n THEN TouchPin[c + 1] ELSE kNoPin],
   resetPairValid |-> n > 1]

kProfiles == {Profile(n) : n \in 1 .. kMaxChannels}

(* No profile at all stands for the structured error.                      *)
NoProfile == [id |-> 0, channelCount |-> 0]

resolveRaw(raw) ==
  IF \E p \in kProfiles : p.id = raw THEN CHOOSE p \in kProfiles : p.id = raw ELSE NoProfile

Channels(p) == {c \in 0 .. kMaxChannels - 1 : c < p.channelCount}

(* An image is for this device when both the family and the number of      *)
(* channels are.                                                           *)
hwCompatMatchesByFamily(p, ours, family, channels) == p.channelCount > 0 /\ family = ours
hwCompatMatches(p, ours, family, channels) == channels = p.channelCount /\ family = ours

(* Every pin has one use, whatever the variant.                            *)
PinsInUse(p) == {p.relay[c] : c \in Channels(p)} \cup {p.touch[c] : c \in Channels(p)}
                \cup {kStatusLedPin, kBacklightPin}
ASSUME PinsAssumption ==
  \A p \in kProfiles : Cardinality(PinsInUse(p)) = 2 * p.channelCount + 2
==============================================================================
