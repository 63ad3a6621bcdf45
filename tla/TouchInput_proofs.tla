--------------------------- MODULE TouchInput_proofs ---------------------------
(***************************************************************************)
(* The touch engine announces only debounced levels, each once, and asks   *)
(* for a factory reset only after a full hold and never for a pair stuck   *)
(* since boot: for any number of pads, any timings and any scan rhythm     *)
(* within the assumptions of TouchInput.  And it misses neither: a level   *)
(* that has been steady is known after one poll of its pad, and a hold that*)
(* is long enough is answered by the next poll.                            *)
(***************************************************************************)
EXTENDS TouchInput, TLAPS

(* What the engine knows of a pad is what the pad read: the candidate is   *)
(* the last level, a candidate not yet confirmed is exactly as old as that *)
(* reading, and by the pad's poll it is not as old as the debounce time.   *)
FollowsRaw ==
  \A c \in Pads :
    /\ pad[c].candidate = raw[c].level
    /\ pad[c].candidate # pad[c].stable =>
         /\ pad[c].age = raw[c].for
         /\ c < polled => pad[c].age < Debounce

(* The last event of a pad can be told from its state.                     *)
LastOf(p) == IF p.stable = "Released" THEN "Released"
             ELSE IF p.longFired THEN "LongPress" ELSE "Pressed"

EventsFollowPads ==
  \A c \in Pads : /\ lastEvent[c] = LastOf(pad[c])
                  /\ pad[c].longFired => pad[c].stable = "Pressed"

(* The window is open over a pair held all the while, for as long as it    *)
(* has been held, and over no less once the baseline, which saw a pad      *)
(* released, is known; the hold is marked as fired when it has been        *)
(* answered, and it has been by the first poll after it was long enough.   *)
HoldIsTracked ==
  /\ active => resetPairValid /\ Held(pad) /\ start = heldFor
  /\ baseline /\ Held(pad) => active
  /\ resetPairValid /\ ~Held(pad) => heldFor = 0
  /\ answered => fired /\ baseline
  /\ fired => active /\ answered
  /\ active /\ polled > 0 /\ start >= FactoryHold => fired
  /\ baseline => resetPairValid /\ seenReleased \cap Pair # {} /\ firstPoll # NoTime

(* A pad that has read Pressed at every poll since boot: until a scan has  *)
(* confirmed the press, the settle window has not run out.                 *)
StuckIsSeen ==
  resetPairValid => \A c \in Pair : c \notin seenReleased /\ pad[c].stable = "Released" =>
    \/ /\ pad[c].candidate = "Released"
       /\ polled <= c
       /\ firstPoll \in {0, NoTime}
    \/ /\ pad[c].candidate = "Pressed"
       /\ pad[c].age = firstPoll
       /\ firstPoll < Settle
       /\ c < polled => firstPoll < Debounce

PropertyInv == PressIsDebounced /\ GestureIsFullHold /\ StuckPairNeverResets

IInv == Types /\ FollowsRaw /\ EventsFollowPads /\ HoldIsTracked /\ StuckIsSeen /\ PropertyInv

PadState == [stable : Levels, candidate : Levels, age : Ages, longFired : BOOLEAN]

----------------------------------------------------------------------------
LEMMA AgesGrow ==
  ASSUME NEW age \in Ages, NEW gap \in Gaps
  PROVE  /\ Older(age, gap) \in Ages
         /\ age <= Older(age, gap)
         /\ \A other \in Ages : age <= other => Older(age, gap) <= Older(other, gap)
         /\ age + gap <= Cap => Older(age, gap) = age + gap
BY TimingAssumption DEF Older, Ages

(* What a poll of pad ch does to that pad, and to no other.                *)
LEMMA PollPad ==
  ASSUME IInv, NEW ch \in Pads, NEW level \in Levels, DebouncePad(ch, level)
  PROVE  /\ pad' \in [Pads -> PadState]
         /\ \A c \in Pads \ {ch} : pad'[c] = pad[c]
         /\ pad'[ch].candidate = level
         /\ event' \in [kind : Levels \cup {"None", "LongPress"}, ch : Pads]
         /\ event' = Quiet \/ event'.ch = ch
<1>1. pad \in [Pads -> PadState] /\ pad[ch] \in PadState
  BY DEF IInv, Types, PadState
<1>2. 0 \in Ages /\ 0 \in Pads /\ Quiet \in [kind : Levels \cup {"None", "LongPress"}, ch : Pads]
  BY TimingAssumption, PadAssumption DEF Ages, Pads, Quiet
<1>3. CASE LevelChanged(ch, level)
  BY <1>1, <1>2, <1>3 DEF LevelChanged, PadState
<1>4. CASE LongPressFires(ch, level)
  BY <1>1, <1>2, <1>4 DEF LongPressFires, PadState
<1>5. CASE LevelConfirmed(ch, level)
  BY <1>1, <1>2, <1>5 DEF LevelConfirmed, PadState
<1>6. CASE StillBouncing(ch, level)
  BY <1>1, <1>2, <1>6 DEF StillBouncing, PadState
<1>7. CASE CommitTransition(ch, level)
  BY <1>1, <1>2, <1>7 DEF CommitTransition, PadState
<1>8. QED
  BY <1>3, <1>4, <1>5, <1>6, <1>7 DEF DebouncePad

(* The gesture's half of a poll, whichever pad was polled.                 *)
LEMMA PollGesture ==
  ASSUME IInv, UpdateResetGesture
  PROVE  /\ firstPoll' \in Ages \cup {NoTime}
         /\ baseline' \in BOOLEAN /\ active' \in BOOLEAN /\ fired' \in BOOLEAN
         /\ start' \in Ages /\ progress' \in Ages
         /\ signal' \in {"None", "Progress", "Gesture"}
         /\ signal' = "Gesture" => /\ active /\ baseline /\ ~fired
                                   /\ Held(pad') /\ FactoryHold <= start
         /\ active' => /\ resetPairValid /\ Held(pad')
                       /\ (start' = start /\ active) \/ (start' = 0 /\ ~active /\ baseline)
         /\ active' /\ FactoryHold <= start' => fired'
         /\ fired' => active' /\ (fired \/ signal' = "Gesture")
         /\ baseline' /\ Held(pad') => active'
         /\ baseline' => resetPairValid
         /\ baseline' => baseline \/ (Settled /\ ~Held(pad'))
         /\ baseline => baseline'
         /\ baseline /\ fired /\ Held(pad') => fired'
         /\ signal' = "Gesture" => fired' /\ baseline'
         /\ firstPoll' = firstPoll \/ (firstPoll = NoTime /\ firstPoll' = 0)
         /\ resetPairValid /\ ~baseline' => firstPoll' # NoTime
<1> USE DEF Ages, NoTime, Settled
<1>1. 0 \in Ages /\ {baseline, active, fired, answered} \subseteq BOOLEAN /\ start \in Ages
      /\ progress \in Ages /\ firstPoll \in Ages \cup {NoTime}
  BY TimingAssumption DEF IInv, Types
<1>2. (active => resetPairValid /\ Held(pad)) /\ (fired => active) /\ (baseline => resetPairValid)
  BY DEF IInv, HoldIsTracked
<1>3. FactoryHold \in Nat \ {0} /\ ProgressEvery \in Nat /\ Cap \in Nat
  BY TimingAssumption
<1>4. CASE resetPairValid /\ AwaitBaseline
  <2>1. /\ baseline' \in BOOLEAN
        /\ baseline' => Settled /\ ~Held(pad')
        /\ ~baseline
    BY <1>4 DEF AwaitBaseline
  <2>2. firstPoll' = (IF firstPoll = NoTime THEN 0 ELSE firstPoll) /\ signal' = "None"
        /\ active' = FALSE /\ fired' = FALSE /\ start' = start /\ progress' = progress
    BY <1>4 DEF AwaitBaseline
  <2>3. /\ firstPoll' \in Ages \cup {NoTime}
        /\ firstPoll' # NoTime
    BY <1>1, <1>3, <2>2
  <2>4. firstPoll' = firstPoll \/ (firstPoll = NoTime /\ firstPoll' = 0)
    BY <2>2
  <2>5. active' \in BOOLEAN /\ fired' \in BOOLEAN /\ start' \in Ages /\ progress' \in Ages
    BY <1>1, <2>2
  <2>6. QED
    BY <1>4, <2>1, <2>2, <2>3, <2>4, <2>5
<1>5. CASE resetPairValid /\ PairReleased
  BY <1>1, <1>3, <1>5 DEF PairReleased
<1>6. CASE resetPairValid /\ HoldBegins
  BY <1>1, <1>2, <1>3, <1>6 DEF HoldBegins
<1>7. CASE resetPairValid /\ HoldContinues
  BY <1>1, <1>3, <1>7 DEF HoldContinues
<1>8. CASE ~resetPairValid /\ UNCHANGED <<firstPoll, baseline, active, fired, start, progress>>
           /\ signal' = "None"
  BY <1>1, <1>2, <1>8
<1>9. QED
  BY <1>4, <1>5, <1>6, <1>7, <1>8 DEF UpdateResetGesture

LEMMA PollTypes ==
  ASSUME IInv, NEW ch \in Pads, NEW level \in Levels, Poll(ch, level)
  PROVE  Types'
<1>1. DebouncePad(ch, level) /\ UpdateResetGesture /\ Observe(ch, level)
  BY DEF Poll
<1>2. 0 \in Ages /\ N \in Nat /\ Cap \in Nat
  BY TimingAssumption, PadAssumption DEF Ages
<1>3. /\ raw \in [Pads -> [level : Levels, for : Ages]] /\ heldFor \in Ages
      /\ lastEvent \in [Pads -> Levels \cup {"LongPress"}] /\ seenReleased \subseteq Pads
  BY DEF IInv, Types
<1>4. /\ pad' \in [Pads -> PadState]
      /\ event' \in [kind : Levels \cup {"None", "LongPress"}, ch : Pads]
  BY <1>1, PollPad
<1>5. raw' \in [Pads -> [level : Levels, for : Ages]]
  BY <1>1, <1>2, <1>3 DEF Observe
<1>6. lastEvent' \in [Pads -> Levels \cup {"LongPress"}]
  <2>1. event' # Quiet => event'.kind \in Levels \cup {"LongPress"}
    <3>1. CASE LongPressFires(ch, level)
      BY <3>1 DEF LongPressFires
    <3>2. CASE CommitTransition(ch, level)
      BY <3>2 DEF CommitTransition
    <3>3. CASE LevelChanged(ch, level) \/ LevelConfirmed(ch, level) \/ StillBouncing(ch, level)
      BY <3>3 DEF LevelChanged, LevelConfirmed, StillBouncing
    <3>4. QED
      BY <1>1, <3>1, <3>2, <3>3 DEF DebouncePad
  <2>2. QED
    BY <1>1, <1>3, <2>1 DEF Observe
<1>7. heldFor' \in Ages
  BY <1>1, <1>2, <1>3 DEF Observe
<1>8. answered' \in BOOLEAN
  BY <1>1 DEF Observe
<1>9. seenReleased' \subseteq Pads
  BY <1>1, <1>3 DEF Observe
<1>10. polled' \in 0 .. N
  BY <1>2 DEF Poll, Pads
<1>11. /\ firstPoll' \in Ages \cup {NoTime}
       /\ baseline' \in BOOLEAN /\ active' \in BOOLEAN /\ fired' \in BOOLEAN
       /\ start' \in Ages /\ progress' \in Ages
       /\ signal' \in {"None", "Progress", "Gesture"}
  BY <1>1, PollGesture
<1>12. QED
  BY <1>4, <1>5, <1>6, <1>7, <1>8, <1>9, <1>10, <1>11 DEF Types, PadState

(* Each way out of debounce() keeps what the candidate and the last event  *)
(* say; only a commit announces a level, and then for a debounced one.     *)
LEMMA PollFollows ==
  ASSUME IInv, NEW ch \in Pads, NEW level \in Levels, Poll(ch, level)
  PROVE  FollowsRaw' /\ EventsFollowPads' /\ PressIsDebounced'
         /\ MayFollow(event'.kind, lastEvent[event'.ch])
<1>1. DebouncePad(ch, level) /\ Observe(ch, level)
  BY DEF Poll
<1>2. /\ pad' \in [Pads -> PadState] /\ \A c \in Pads \ {ch} : pad'[c] = pad[c]
      /\ pad'[ch].candidate = level
  BY <1>1, PollPad
<1>3. /\ pad \in [Pads -> PadState] /\ pad[ch] \in PadState
      /\ raw \in [Pads -> [level : Levels, for : Ages]]
      /\ lastEvent \in [Pads -> Levels \cup {"LongPress"}]
      /\ Debounce \in Nat /\ Cap \in Nat /\ Quiet.kind = "None"
  BY TimingAssumption DEF IInv, Types, PadState, Quiet
<1>4. /\ pad[ch].candidate = raw[ch].level
      /\ pad[ch].candidate # pad[ch].stable => pad[ch].age = raw[ch].for
      /\ lastEvent[ch] = LastOf(pad[ch])
      /\ pad[ch].longFired => pad[ch].stable = "Pressed"
  BY DEF IInv, FollowsRaw, EventsFollowPads
<1>5. /\ \A c \in Pads \ {ch} : raw'[c] = raw[c] /\ lastEvent'[c] = lastEvent[c]
      /\ raw'[ch].level = level
      /\ raw'[ch].for = IF level = raw[ch].level THEN raw[ch].for ELSE 0
      /\ lastEvent'[ch] = IF event' = Quiet THEN lastEvent[ch] ELSE event'.kind
  BY <1>1, <1>3 DEF Observe
<1>6. \A c \in Pads \ {ch} :
        /\ pad'[c].candidate = raw'[c].level
        /\ pad'[c].candidate # pad'[c].stable =>
             /\ pad'[c].age = raw'[c].for
             /\ c < polled' => pad'[c].age < Debounce
        /\ lastEvent'[c] = LastOf(pad'[c])
        /\ pad'[c].longFired => pad'[c].stable = "Pressed"
  <2>1. \A c \in Pads \ {ch} : c < polled' => c < polled
    BY PadAssumption DEF Poll, Pads
  <2>2. QED
    BY <1>2, <1>5, <2>1 DEF IInv, FollowsRaw, EventsFollowPads
<1> DEFINE Kept ==
      /\ pad'[ch].candidate # pad'[ch].stable =>
           /\ pad'[ch].age = raw'[ch].for
           /\ pad'[ch].age < Debounce
      /\ lastEvent'[ch] = LastOf(pad'[ch])
      /\ pad'[ch].longFired => pad'[ch].stable = "Pressed"
      /\ event'.kind \in Levels => /\ raw'[event'.ch].level = event'.kind
                                   /\ raw'[event'.ch].for >= Debounce
      /\ MayFollow(event'.kind, lastEvent[event'.ch])
<1>7. ASSUME LevelChanged(ch, level) PROVE Kept
  <2>1. /\ pad'[ch].age = 0 /\ Debounce > 0 /\ pad'[ch].stable = pad[ch].stable
        /\ pad'[ch].longFired = pad[ch].longFired /\ event' = Quiet /\ level # raw[ch].level
    BY <1>3, <1>4, <1>7, TimingAssumption DEF LevelChanged, PadState
  <2>2. QED
    BY <1>3, <1>4, <1>5, <2>1 DEF LastOf, MayFollow, Levels
<1>8. ASSUME LongPressFires(ch, level) PROVE Kept
  <2>1. /\ pad'[ch].stable = pad[ch].stable /\ pad'[ch].longFired = TRUE
        /\ pad[ch].stable = "Pressed" /\ ~pad[ch].longFired /\ level = pad[ch].stable
        /\ event' = [kind |-> "LongPress", ch |-> ch]
    BY <1>3, <1>8 DEF LongPressFires, PadState
  <2>2. event' # Quiet
    BY <2>1, <1>3
  <2>3. QED
    BY <1>2, <1>4, <1>5, <2>1, <2>2 DEF LastOf, MayFollow, Levels
<1>9. ASSUME LevelConfirmed(ch, level) \/ StillBouncing(ch, level) PROVE Kept
  <2>1. /\ pad' = pad /\ event' = Quiet /\ level = pad[ch].candidate
        /\ pad[ch].candidate = pad[ch].stable \/ pad[ch].age < Debounce
    BY <1>9 DEF LevelConfirmed, StillBouncing
  <2>2. QED
    BY <1>3, <1>4, <1>5, <2>1 DEF MayFollow, Levels
<1>10. ASSUME CommitTransition(ch, level) PROVE Kept
  <2>1. /\ pad'[ch].stable = level /\ pad'[ch].longFired = FALSE
        /\ level = pad[ch].candidate /\ level # pad[ch].stable /\ pad[ch].age >= Debounce
        /\ event' = [kind |-> level, ch |-> ch]
    BY <1>3, <1>10 DEF CommitTransition, PadState
  <2>2. event' # Quiet
    BY <2>1, <1>3 DEF Levels
  <2>3. raw'[ch].for >= Debounce
    BY <1>3, <1>4, <1>5, <2>1 DEF PadState, Ages
  <2>4. QED
    BY <1>2, <1>3, <1>4, <1>5, <2>1, <2>2, <2>3 DEF LastOf, MayFollow, Levels, PadState
<1>11. Kept
  BY <1>1, <1>7, <1>8, <1>9, <1>10 DEF DebouncePad
<1>12. pad'[ch].candidate = raw'[ch].level
  BY <1>2, <1>5
<1> HIDE DEF Kept
<1>13. FollowsRaw' /\ EventsFollowPads'
  BY <1>6, <1>11, <1>12 DEF FollowsRaw, EventsFollowPads, Kept
<1>14. PressIsDebounced'
  <2>1. ASSUME NEW c \in Pads, c < polled', raw'[c].for >= Debounce
        PROVE  pad'[c].stable = raw'[c].level
    <3>1. raw'[c].for \in Ages
      BY PollTypes DEF Types
    <3>2. QED
      BY <1>3, <1>13, <2>1, <3>1 DEF FollowsRaw, Ages
  <2>2. QED
    BY <1>11, <2>1 DEF PressIsDebounced, Kept
<1>15. QED
  BY <1>11, <1>13, <1>14 DEF Kept

(* A stuck pad is seen pressed by the scan after its debounce time, which  *)
(* the cadence makes earlier than the end of the settle window; so when    *)
(* that ends, a pair that has never read Released is held.                 *)
LEMMA SettledPairIsSeen ==
  ASSUME IInv, NEW ch \in Pads, NEW level \in Levels, Poll(ch, level),
         resetPairValid, Settled, ~Held(pad')
  PROVE  seenReleased' \cap Pair # {}
<1>1. DebouncePad(ch, level) /\ Observe(ch, level) /\ polled = ch
  BY DEF Poll
<1>2. PICK c \in Pair : pad'[c].stable # "Pressed"
  BY DEF Held
<1>3. /\ c \in Pads /\ pad \in [Pads -> PadState] /\ pad' \in [Pads -> PadState]
      /\ \A d \in Pads \ {ch} : pad'[d] = pad[d]
  BY <1>1, PollPad DEF resetPairValid, IInv, Types, PadState
<1>4. pad'[c].stable = "Released"
  BY <1>2, <1>3 DEF PadState, Levels
<1> SUFFICES ASSUME c \notin seenReleased' PROVE FALSE
  BY <1>2
<1>5. c \notin seenReleased /\ (ch = c => level = "Pressed")
  BY <1>1, <1>3 DEF Observe, Levels
<1>6. firstPoll # NoTime /\ firstPoll >= Settle /\ Settle \in Nat \ {0}
      /\ Debounce \in Nat /\ firstPoll \in Ages \cup {NoTime} /\ Cap \in Nat
  BY TimingAssumption DEF Settled, IInv, Types
<1>7. pad[c].stable = "Pressed"
  <2>1. pad[c].stable = "Released" => firstPoll \in {0, NoTime} \/ firstPoll < Settle
    BY <1>2, <1>3, <1>5 DEF IInv, StuckIsSeen
  <2>2. QED
    BY <1>3, <1>6, <2>1 DEF PadState, Levels, Ages, NoTime
<1>8. ch = c
  BY <1>3, <1>4, <1>7
<1>9. level = "Pressed"
  BY <1>5, <1>8
<1>10. CASE LevelChanged(ch, level)
  BY <1>3, <1>4, <1>7, <1>8, <1>10 DEF LevelChanged, PadState
<1>11. CASE LongPressFires(ch, level)
  BY <1>3, <1>4, <1>7, <1>8, <1>11 DEF LongPressFires, PadState
<1>12. CASE LevelConfirmed(ch, level) \/ StillBouncing(ch, level)
  BY <1>4, <1>7, <1>8, <1>12 DEF LevelConfirmed, StillBouncing
<1>13. CASE CommitTransition(ch, level)
  BY <1>7, <1>8, <1>9, <1>13 DEF CommitTransition
<1>14. QED
  BY <1>1, <1>10, <1>11, <1>12, <1>13 DEF DebouncePad

LEMMA PollTracks ==
  ASSUME IInv, NEW ch \in Pads, NEW level \in Levels, Poll(ch, level)
  PROVE  /\ HoldIsTracked' /\ GestureIsFullHold' /\ StuckPairNeverResets'
         /\ signal' = "Gesture" => ~answered
<1>1. UpdateResetGesture /\ Observe(ch, level)
  BY DEF Poll
<1>2. /\ heldFor' = IF resetPairValid /\ Held(pad') THEN heldFor ELSE 0
      /\ answered' = ((resetPairValid /\ Held(pad')) /\ (answered \/ signal' = "Gesture"))
      /\ seenReleased \subseteq seenReleased'
  BY <1>1 DEF Observe
<1>3. /\ active => resetPairValid /\ start = heldFor
      /\ baseline /\ Held(pad) => active
      /\ resetPairValid /\ ~Held(pad) => heldFor = 0
      /\ answered => fired /\ baseline
      /\ fired => active /\ answered
      /\ baseline => resetPairValid /\ seenReleased \cap Pair # {} /\ firstPoll # NoTime
      /\ start \in Nat /\ heldFor \in Nat /\ FactoryHold \in Nat \ {0} /\ 0 # NoTime
  BY TimingAssumption DEF IInv, HoldIsTracked, Types, Ages, NoTime
<1>4. /\ signal' = "Gesture" => /\ active /\ baseline /\ ~fired /\ Held(pad')
                                /\ FactoryHold <= start
                                /\ fired' /\ baseline'
      /\ active' => /\ resetPairValid /\ Held(pad')
                    /\ (start' = start /\ active) \/ (start' = 0 /\ ~active /\ baseline)
      /\ active' /\ FactoryHold <= start' => fired'
      /\ fired' => active' /\ (fired \/ signal' = "Gesture")
      /\ baseline' /\ Held(pad') => active'
      /\ baseline' => resetPairValid
      /\ baseline' => baseline \/ (Settled /\ ~Held(pad'))
      /\ baseline => baseline'
      /\ baseline /\ fired /\ Held(pad') => fired'
      /\ firstPoll' = firstPoll \/ (firstPoll = NoTime /\ firstPoll' = 0)
      /\ start' \in Nat
  BY <1>1, PollGesture DEF Ages
<1>5. baseline' => seenReleased' \cap Pair # {} /\ firstPoll' # NoTime
  <2>1. CASE baseline
    BY <1>2, <1>3, <1>4, <2>1
  <2>2. CASE baseline' /\ ~baseline
    BY <1>3, <1>4, <2>2, SettledPairIsSeen DEF Settled
  <2>3. QED
    BY <2>1, <2>2
<1>6. (answered' => fired' /\ baseline') /\ (fired' => active' /\ answered')
  BY <1>2, <1>3, <1>4
<1>7. active' => resetPairValid /\ Held(pad') /\ start' = heldFor'
  BY <1>2, <1>3, <1>4
<1>8. signal' = "Gesture" => heldFor' >= FactoryHold /\ ~answered
  BY <1>2, <1>3, <1>4
<1>9. active' /\ start' >= FactoryHold => fired'
  BY <1>3, <1>4
<1>10. resetPairValid /\ ~Held(pad') => heldFor' = 0
  BY <1>2
<1>11. HoldIsTracked'
  BY <1>4, <1>5, <1>6, <1>7, <1>9, <1>10 DEF HoldIsTracked, resetPairValid
<1>12. baseline' /\ Held(pad') /\ heldFor' >= FactoryHold => answered'
  BY <1>4, <1>6, <1>7, <1>9
<1>13. QED
  BY <1>4, <1>5, <1>8, <1>11, <1>12 DEF GestureIsFullHold, StuckPairNeverResets

LEMMA PollSeesStuck ==
  ASSUME IInv, NEW ch \in Pads, NEW level \in Levels, Poll(ch, level)
  PROVE  StuckIsSeen'
<1>1. DebouncePad(ch, level) /\ UpdateResetGesture /\ Observe(ch, level)
      /\ polled = ch /\ polled' = ch + 1
  BY DEF Poll
<1> SUFFICES ASSUME resetPairValid, NEW c \in Pair,
                    c \notin seenReleased', pad'[c].stable = "Released"
             PROVE  \/ /\ pad'[c].candidate = "Released"
                       /\ polled' <= c
                       /\ firstPoll' \in {0, NoTime}
                    \/ /\ pad'[c].candidate = "Pressed"
                       /\ pad'[c].age = firstPoll'
                       /\ firstPoll' < Settle
                       /\ c < polled' => firstPoll' < Debounce
  BY DEF StuckIsSeen
<1>2. c \in Pads /\ c \notin seenReleased /\ (ch = c => level = "Pressed")
  BY <1>1 DEF Observe, Levels, resetPairValid
<1>3. /\ pad \in [Pads -> PadState] /\ pad' \in [Pads -> PadState]
      /\ \A d \in Pads \ {ch} : pad'[d] = pad[d]
      /\ pad'[ch].candidate = level
  BY <1>1, PollPad DEF IInv, Types, PadState
<1>4. ch \in Nat /\ c \in Nat /\ polled \in Nat /\ Cap \in Nat /\ Settle \in 1 .. Cap
      /\ Debounce \in 1 .. Cap /\ firstPoll \in Ages \cup {NoTime}
  BY <1>2, TimingAssumption, PadAssumption DEF Pads, IInv, Types
<1>5. firstPoll' = firstPoll \/ (firstPoll = NoTime /\ firstPoll' = 0)
  BY <1>1, PollGesture
<1>6. pad[c].stable = "Released" =>
        \/ /\ pad[c].candidate = "Released"
           /\ polled <= c
           /\ firstPoll \in {0, NoTime}
        \/ /\ pad[c].candidate = "Pressed"
           /\ pad[c].age = firstPoll
           /\ firstPoll < Settle
           /\ c < polled => firstPoll < Debounce
  BY <1>2 DEF IInv, StuckIsSeen
<1>7. firstPoll' # NoTime
  <2>1. ~baseline => firstPoll' # NoTime
    BY <1>1, PollGesture, <1>4 DEF UpdateResetGesture, AwaitBaseline, PairReleased, HoldBegins,
       HoldContinues, NoTime, Ages
  <2>2. QED
    BY <1>4, <1>5, <2>1 DEF IInv, HoldIsTracked, NoTime
<1>8. CASE ch # c
  <2>1. pad'[c] = pad[c] /\ (c < polled' <=> c < polled) /\ (polled <= c => polled' <= c)
    BY <1>1, <1>2, <1>3, <1>4, <1>8
  <2>2. QED
    BY <1>4, <1>5, <1>6, <2>1 DEF NoTime, Ages
<1>9. CASE ch = c
  <2>1. level = "Pressed" /\ pad[c] \in PadState
    BY <1>2, <1>3, <1>9
  <2>2. CASE LevelChanged(ch, level)
    <3>1. pad'[c].age = 0 /\ pad[c].stable = "Released" /\ pad[c].candidate # "Pressed"
      BY <1>3, <1>4, <1>9, <2>1, <2>2 DEF LevelChanged, PadState
    <3>2. firstPoll' = 0
      BY <1>5, <1>6, <1>7, <3>1
    <3>3. QED
      BY <1>3, <1>4, <1>9, <2>1, <3>1, <3>2
  <2>3. CASE LongPressFires(ch, level)
    BY <1>3, <1>9, <2>1, <2>3 DEF LongPressFires, PadState
  <2>4. CASE LevelConfirmed(ch, level)
    BY <1>9, <2>1, <2>4 DEF LevelConfirmed
  <2>5. CASE StillBouncing(ch, level)
    <3>1. pad' = pad /\ pad[c].candidate = "Pressed" /\ pad[c].age < Debounce
      BY <1>9, <2>1, <2>5 DEF StillBouncing
    <3>2. pad[c].age = firstPoll /\ firstPoll < Settle
      BY <1>6, <3>1
    <3>3. firstPoll' = firstPoll
      BY <1>4, <1>5, <3>2 DEF NoTime, Ages
    <3>4. QED
      BY <3>1, <3>2, <3>3
  <2>6. CASE CommitTransition(ch, level)
    BY <1>3, <1>9, <2>1, <2>6 DEF CommitTransition, PadState
  <2>7. QED
    BY <1>1, <2>2, <2>3, <2>4, <2>5, <2>6 DEF DebouncePad
<1>10. QED
  BY <1>8, <1>9

(* Between two scans every age grows alike.                                *)
LEMMA ScanGapKeeps ==
  ASSUME IInv, NEW gap \in Gaps, NextScan(gap)
  PROVE  IInv'
<1>1. /\ pad \in [Pads -> PadState] /\ polled = N /\ polled' = 0
      /\ raw \in [Pads -> [level : Levels, for : Ages]]
      /\ firstPoll \in Ages \cup {NoTime} /\ start \in Ages /\ progress \in Ages
      /\ heldFor \in Ages
  BY DEF IInv, Types, PadState, NextScan
<1>2. Cap \in Nat /\ Settle \in 1 .. Cap /\ Debounce \in 1 .. Cap /\ gap \in Nat \ {0}
      /\ gap + Debounce <= Settle /\ N \in Nat \ {0} /\ 0 \in Ages /\ 0 \in Pads
  BY TimingAssumption, CadenceAssumption, PadAssumption DEF Ages, Pads
<1>3. /\ pad' \in [Pads -> PadState]
      /\ \A c \in Pads : /\ pad'[c].stable = pad[c].stable
                         /\ pad'[c].candidate = pad[c].candidate
                         /\ pad'[c].longFired = pad[c].longFired
                         /\ pad'[c].age = Older(pad[c].age, gap)
  <2>1. \A c \in Pads : Older(pad[c].age, gap) \in Ages
    BY <1>1, AgesGrow DEF PadState
  <2>2. pad' = [c \in Pads |-> [pad[c] EXCEPT !.age = Older(pad[c].age, gap)]]
    BY DEF NextScan
  <2>3. QED
    BY <1>1, <2>1, <2>2 DEF PadState
<1>4. /\ raw' \in [Pads -> [level : Levels, for : Ages]]
      /\ \A c \in Pads : /\ raw'[c].level = raw[c].level
                         /\ raw'[c].for = Older(raw[c].for, gap)
  <2>1. \A c \in Pads : Older(raw[c].for, gap) \in Ages
    BY <1>1, AgesGrow
  <2>2. raw' = [c \in Pads |-> [raw[c] EXCEPT !.for = Older(raw[c].for, gap)]]
    BY DEF NextScan
  <2>3. QED
    BY <1>1, <2>1, <2>2
<1>5. /\ firstPoll' \in Ages \cup {NoTime} /\ start' \in Ages /\ progress' \in Ages
      /\ heldFor' \in Ages
  BY <1>1, <1>2, AgesGrow DEF NextScan
<1>6. /\ event' = Quiet /\ signal' = "None"
      /\ UNCHANGED <<baseline, active, fired, lastEvent, answered, seenReleased>>
  BY DEF NextScan
<1>7. Types'
  <2>1. Quiet \in [kind : Levels \cup {"None", "LongPress"}, ch : Pads]
    BY <1>2 DEF Quiet
  <2>2. QED
    BY <1>1, <1>2, <1>3, <1>4, <1>5, <1>6, <2>1 DEF IInv, Types, PadState
<1>8. FollowsRaw'
  <2>1. \A c \in Pads : pad[c].age = raw[c].for => pad'[c].age = raw'[c].for
    BY <1>3, <1>4
  <2>2. \A c \in Pads : ~(c < polled')
    BY <1>1, <1>2 DEF Pads
  <2>3. QED
    BY <1>3, <1>4, <2>1, <2>2 DEF IInv, FollowsRaw
<1>9. EventsFollowPads'
  BY <1>3, <1>6 DEF IInv, EventsFollowPads, LastOf
<1>10. HoldIsTracked'
  <2>1. resetPairValid => \A c \in Pair : c \in Pads
    BY DEF resetPairValid
  <2>2. resetPairValid => (Held(pad) <=> Held(pad'))
    BY <1>3, <2>1 DEF Held
  <2>3. /\ active' = active /\ (active => start' = heldFor')
        /\ resetPairValid /\ ~Held(pad) => heldFor' = 0
        /\ ~(polled' > 0)
    BY <1>1, <1>2 DEF IInv, HoldIsTracked, NextScan
  <2>4. firstPoll # NoTime => firstPoll' # NoTime
    BY <1>1, <1>2, AgesGrow DEF NextScan, NoTime, Ages
  <2>5. QED
    BY <1>6, <2>2, <2>3, <2>4 DEF IInv, HoldIsTracked, resetPairValid
<1>11. StuckIsSeen'
  <2> SUFFICES ASSUME resetPairValid, NEW c \in Pair,
                      c \notin seenReleased', pad'[c].stable = "Released"
               PROVE  \/ /\ pad'[c].candidate = "Released"
                         /\ polled' <= c
                         /\ firstPoll' \in {0, NoTime}
                      \/ /\ pad'[c].candidate = "Pressed"
                         /\ pad'[c].age = firstPoll'
                         /\ firstPoll' < Settle
                         /\ c < polled' => firstPoll' < Debounce
    BY DEF StuckIsSeen
  <2>1. c \in Pads /\ c \in 0 .. N - 1
    BY DEF resetPairValid, Pads
  <2>2. /\ pad[c].candidate = "Pressed" /\ pad[c].age = firstPoll /\ firstPoll < Debounce
    BY <1>1, <1>2, <1>3, <1>6, <2>1 DEF IInv, StuckIsSeen
  <2>3. firstPoll # NoTime /\ firstPoll \in Ages
    BY <1>1, <1>2, <2>2 DEF NoTime, Ages
  <2>4. firstPoll' = Older(firstPoll, gap) /\ pad'[c].age = Older(firstPoll, gap)
    BY <1>3, <2>1, <2>2, <2>3 DEF NextScan
  <2>5. firstPoll' = firstPoll + gap
    BY <1>2, <2>2, <2>3, <2>4, AgesGrow DEF Ages
  <2>6. QED
    BY <1>1, <1>2, <1>3, <2>1, <2>2, <2>3, <2>4, <2>5 DEF Ages
<1>12. PropertyInv'
  <2>1. \A c \in Pads : ~(c < polled')
    BY <1>1, <1>2 DEF Pads
  <2>2. ~(polled' > 0)
    BY <1>1
  <2>3. QED
    BY <1>6, <2>1, <2>2 DEF PropertyInv, PressIsDebounced, GestureIsFullHold,
       StuckPairNeverResets, Quiet, Levels
<1>13. QED
  BY <1>7, <1>8, <1>9, <1>10, <1>11, <1>12 DEF IInv

LEMMA InitEstablishes == Init => IInv
<1> SUFFICES ASSUME Init PROVE IInv
  OBVIOUS
<1>1. N \in Nat \ {0} /\ Cap \in Nat /\ 0 \in Pads /\ 0 \in Ages /\ Cap \in Ages
  BY PadAssumption, TimingAssumption DEF Pads, Ages
<1>2. Types
  <2>1. /\ pad \in [Pads -> PadState]
        /\ raw \in [Pads -> [level : Levels, for : Ages]]
        /\ lastEvent \in [Pads -> Levels \cup {"LongPress"}]
    BY <1>1 DEF Init, Levels, PadState
  <2>2. /\ event \in [kind : Levels \cup {"None", "LongPress"}, ch : Pads]
        /\ signal \in {"None", "Progress", "Gesture"}
        /\ baseline \in BOOLEAN /\ active \in BOOLEAN /\ fired \in BOOLEAN
        /\ answered \in BOOLEAN
    BY <1>1 DEF Init, Quiet
  <2>3. polled \in 0 .. N /\ firstPoll \in Ages \cup {NoTime} /\ seenReleased \subseteq Pads
        /\ start \in Ages /\ progress \in Ages /\ heldFor \in Ages
    BY <1>1 DEF Init
  <2>4. QED
    BY <2>1, <2>2, <2>3 DEF Types, PadState
<1>3. FollowsRaw /\ EventsFollowPads
  BY DEF Init, FollowsRaw, EventsFollowPads, LastOf
<1>4. HoldIsTracked
  BY DEF Init, HoldIsTracked
<1>5. StuckIsSeen
  BY DEF Init, StuckIsSeen, resetPairValid, Pair
<1>6. PropertyInv
  BY DEF Init, PropertyInv, PressIsDebounced, GestureIsFullHold, StuckPairNeverResets,
         Quiet, Levels
<1>7. QED
  BY <1>2, <1>3, <1>4, <1>5, <1>6 DEF IInv

LEMMA PollKeeps ==
  ASSUME IInv, NEW ch \in Pads, NEW level \in Levels, Poll(ch, level)
  PROVE  IInv'
BY PollTypes, PollFollows, PollTracks, PollSeesStuck DEF IInv, PropertyInv

LEMMA Inductive == IInv /\ [Next]_vars => IInv'
<1> SUFFICES ASSUME IInv, [Next]_vars PROVE IInv'
  OBVIOUS
<1>1. CASE \E ch \in Pads, level \in Levels : Poll(ch, level)
  BY <1>1, PollKeeps
<1>2. CASE \E gap \in Gaps : NextScan(gap)
  BY <1>2, ScanGapKeeps
<1>3. CASE UNCHANGED vars
  <2>1. Types' /\ FollowsRaw' /\ EventsFollowPads'
    BY <1>3 DEF IInv, Types, FollowsRaw, EventsFollowPads, LastOf, vars, engine, history
  <2>2. HoldIsTracked' /\ StuckIsSeen'
    BY <1>3 DEF IInv, HoldIsTracked, StuckIsSeen, Held, resetPairValid, vars, engine, history
  <2>3. PropertyInv'
    BY <1>3 DEF IInv, PropertyInv, PressIsDebounced, GestureIsFullHold, StuckPairNeverResets,
                Held, vars, engine, history
  <2>4. QED
    BY <2>1, <2>2, <2>3 DEF IInv
<1>4. QED
  BY <1>1, <1>2, <1>3 DEF Next

----------------------------------------------------------------------------
(* The engine's state keeps its types, whatever the pads read.             *)
THEOREM TypeCorrect == Spec => []TypeOK
<1>1. IInv => TypeOK
  BY DEF IInv, TypeOK, EventsFollowPads, HoldIsTracked
<1>2. QED
  BY <1>1, InitEstablishes, Inductive, PTL DEF Spec

(* No press or release is announced for a level that has not read the same *)
(* for the whole debounce time, and a level that has is never missed by    *)
(* the poll of its pad (touch_input.h:78-102).                             *)
THEOREM PressesAreDebounced == Spec => []PressIsDebounced
<1>1. IInv => PressIsDebounced
  BY DEF IInv, PropertyInv
<1>2. QED
  BY <1>1, InitEstablishes, Inductive, PTL DEF Spec

(* The factory-reset gesture completes only after an unbroken hold of both *)
(* pads for the whole hold time, and after such a hold, once the baseline  *)
(* is known, it has completed by the next poll (touch_input.h:140-159).    *)
THEOREM GesturesAreHeld == Spec => []GestureIsFullHold
<1>1. IInv => GestureIsFullHold
  BY DEF IInv, PropertyInv
<1>2. QED
  BY <1>1, InitEstablishes, Inductive, PTL DEF Spec

(* A pair that has never read Released since boot never completes the      *)
(* gesture, for any scan rhythm that debounces a pad within the settle     *)
(* window (touch_input.h:120-138).                                         *)
THEOREM StuckPairsNeverReset == Spec => []StuckPairNeverResets
<1>1. IInv => StuckPairNeverResets
  BY DEF IInv, PropertyInv
<1>2. QED
  BY <1>1, InitEstablishes, Inductive, PTL DEF Spec

(* Presses and releases of a pad alternate with at most one long press     *)
(* between them, and one hold asks for one reset (touch_input.h:94-168).   *)
THEOREM NothingIsAnnouncedTwice == Spec => NothingTwice
<1>1. IInv /\ [Next]_vars
        => [/\ event' # event => MayFollow(event'.kind, lastEvent[event'.ch])
            /\ signal' = "Gesture" /\ signal # "Gesture" => ~answered]_vars
  <2> SUFFICES ASSUME IInv, Next
               PROVE  /\ event' # event => MayFollow(event'.kind, lastEvent[event'.ch])
                      /\ signal' = "Gesture" /\ signal # "Gesture" => ~answered
    OBVIOUS
  <2>1. CASE \E ch \in Pads, level \in Levels : Poll(ch, level)
    BY <2>1, PollFollows, PollTracks
  <2>2. CASE \E gap \in Gaps : NextScan(gap)
    BY <2>2 DEF NextScan, Quiet, MayFollow
  <2>3. QED
    BY <2>1, <2>2 DEF Next
<1>2. QED
  BY <1>1, InitEstablishes, Inductive, PTL DEF Spec, NothingTwice
==============================================================================
