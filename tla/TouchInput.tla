------------------------------ MODULE TouchInput ------------------------------
(***************************************************************************)
(* The touch engine (domain/touch_input.h) under GpioTouchSource::scan:    *)
(* debounce, long press and the two-pad factory-reset gesture.             *)
(*                                                                         *)
(* A scan polls every pad with one reading of the clock.  Timestamps       *)
(* appear as ages, what elapsed(now, since) returns, which stop counting   *)
(* at Cap: no comparison of the code tells ages above its thresholds       *)
(* apart.  What a pad reads is arbitrary at every poll, so presses, noise  *)
(* and stuck pins are all there.                                           *)
(***************************************************************************)
EXTENDS Naturals

CONSTANTS
  N,              (* count_: pads of the profile                           *)
  Debounce,       (* cfg_.debounceMs                                       *)
  LongPress,      (* cfg_.longPressMs                                      *)
  FactoryHold,    (* cfg_.factoryHoldMs                                    *)
  ProgressEvery,  (* cfg_.progressEveryMs                                  *)
  Settle,         (* kResetArmSettleMs                                     *)
  Gaps,           (* the times there may be between two scans              *)
  Cap             (* where ages stop counting                              *)

ASSUME PadAssumption == N \in Nat \ {0}
ASSUME TimingAssumption ==
  /\ {Debounce, LongPress, FactoryHold, ProgressEvery, Settle} \subseteq 1 .. Cap
  /\ Cap \in Nat
  /\ Gaps \subseteq Nat \ {0}
(* A pad pressed since boot is debounced before the settle window ends.    *)
ASSUME CadenceAssumption == \A g \in Gaps : g + Debounce <= Settle

Pads   == 0 .. N - 1
Pair   == {0, 1}                (* resetChannelA, resetChannelB             *)
Levels == {"Released", "Pressed"}
Ages   == 0 .. Cap

resetPairValid == Pair \subseteq Pads

VARIABLES
  pad,            (* ch_: stable, candidate, age of since, longFired       *)
  polled,         (* next pad of the scan                                  *)
  firstPoll,      (* age of firstPollMs_; NoTime until the first poll      *)
  baseline,       (* baselineReleased_                                     *)
  active, fired,  (* resetActive_, resetFired_                             *)
  start,          (* age of resetStart_                                    *)
  progress,       (* age of lastProgress_                                  *)
  event,          (* touch event of the last poll                          *)
  signal,         (* gesture event of the last poll                        *)
  raw,            (* history: what each pad read last, and for how long    *)
  lastEvent,      (* history: last event of each pad                       *)
  heldFor,        (* history: how long the pair has been held together     *)
  answered,       (* history: this hold has fired the gesture              *)
  seenReleased    (* history: the pads that have read Released since boot  *)

engine  == <<pad, firstPoll, baseline, active, fired, start, progress>>
history == <<raw, lastEvent, heldFor, answered, seenReleased>>
vars    == <<engine, polled, event, signal, history>>

NoTime  == Cap + 1
Quiet   == [kind |-> "None", ch |-> 0]

Init ==
  /\ pad = [c \in Pads |->
       [stable |-> "Released", candidate |-> "Released", age |-> Cap, longFired |-> FALSE]]
  /\ polled = 0
  /\ firstPoll = NoTime
  /\ baseline = FALSE /\ active = FALSE /\ fired = FALSE
  /\ start = Cap /\ progress = Cap
  /\ event = Quiet /\ signal = "None"
  /\ raw = [c \in Pads |-> [level |-> "Released", for |-> 0]]
  /\ lastEvent = [c \in Pads |-> "Released"]
  /\ heldFor = 0 /\ answered = FALSE
  /\ seenReleased = {}

----------------------------------------------------------------------------
(* debounce(): one disjunct for each way out of it.                        *)

LevelChanged(ch, level) ==
  /\ level # pad[ch].candidate
  /\ pad' = [pad EXCEPT ![ch].candidate = level, ![ch].age = 0]
  /\ event' = Quiet

LongPressRepeats(ch, level) ==
  /\ level = pad[ch].candidate
  /\ level = pad[ch].stable
  /\ level = "Pressed" /\ pad[ch].age >= LongPress
  /\ pad' = pad
  /\ event' = [kind |-> "LongPress", ch |-> ch]

LongPressFires(ch, level) ==
  /\ level = pad[ch].candidate
  /\ level = pad[ch].stable
  /\ level = "Pressed" /\ ~pad[ch].longFired /\ pad[ch].age >= LongPress
  /\ pad' = [pad EXCEPT ![ch].longFired = TRUE]
  /\ event' = [kind |-> "LongPress", ch |-> ch]

LevelConfirmed(ch, level) ==
  /\ level = pad[ch].candidate
  /\ level = pad[ch].stable
  /\ ~(level = "Pressed" /\ ~pad[ch].longFired /\ pad[ch].age >= LongPress)
  /\ pad' = pad
  /\ event' = Quiet

StillBouncing(ch, level) ==
  /\ level = pad[ch].candidate
  /\ level # pad[ch].stable
  /\ pad[ch].age < Debounce
  /\ pad' = pad
  /\ event' = Quiet

CommitUndebounced(ch, level) ==
  /\ level # pad[ch].stable
  /\ pad' = [pad EXCEPT ![ch].candidate = level, ![ch].stable = level,
                        ![ch].longFired = FALSE, ![ch].age = 0]
  /\ event' = [kind |-> level, ch |-> ch]

CommitKeepsLongFired(ch, level) ==
  /\ level = pad[ch].candidate
  /\ level # pad[ch].stable
  /\ pad[ch].age >= Debounce
  /\ pad' = [pad EXCEPT ![ch].stable = level, ![ch].age = 0]
  /\ event' = [kind |-> level, ch |-> ch]

CommitTransition(ch, level) ==
  /\ level = pad[ch].candidate
  /\ level # pad[ch].stable
  /\ pad[ch].age >= Debounce
  /\ pad' = [pad EXCEPT ![ch].stable = level, ![ch].longFired = FALSE, ![ch].age = 0]
  /\ event' = [kind |-> level, ch |-> ch]

DebouncePad(ch, level) ==
  \/ LevelChanged(ch, level)
  \/ LongPressFires(ch, level)
  \/ LevelConfirmed(ch, level)
  \/ StillBouncing(ch, level)
  \/ CommitTransition(ch, level)

----------------------------------------------------------------------------
(* updateResetGesture(): likewise; it runs after debounce, so on pad'.     *)

Held(p) == \A c \in Pair : p[c].stable = "Pressed"

SettledAtOnce == TRUE
Settled       == firstPoll # NoTime /\ firstPoll >= Settle

AwaitBaseline ==
  /\ ~baseline
  /\ firstPoll' = IF firstPoll = NoTime THEN 0 ELSE firstPoll
  /\ baseline' = (Settled /\ ~Held(pad'))
  /\ active' = FALSE /\ fired' = FALSE
  /\ signal' = "None"
  /\ UNCHANGED <<start, progress>>

PairReleasedKeepsWindow ==
  /\ baseline /\ ~Held(pad')
  /\ fired' = FALSE
  /\ signal' = "None"
  /\ UNCHANGED <<firstPoll, baseline, active, start, progress>>

PairReleased ==
  /\ baseline /\ ~Held(pad')
  /\ active' = FALSE /\ fired' = FALSE
  /\ signal' = "None"
  /\ UNCHANGED <<firstPoll, baseline, start, progress>>

HoldRestarts ==
  /\ baseline /\ Held(pad')
  /\ active' = TRUE
  /\ start' = 0 /\ progress' = 0
  /\ signal' = "None"
  /\ UNCHANGED <<firstPoll, baseline, fired>>

HoldBegins ==
  /\ baseline /\ Held(pad') /\ ~active
  /\ active' = TRUE
  /\ start' = 0 /\ progress' = 0
  /\ signal' = "None"
  /\ UNCHANGED <<firstPoll, baseline, fired>>

HoldContinuesForgetful ==
  /\ baseline /\ Held(pad') /\ active
  /\ progress' = progress
  /\ signal' = IF start >= FactoryHold THEN "Gesture" ELSE "None"
  /\ UNCHANGED <<firstPoll, baseline, active, fired, start>>

(* Progress may be reported in the poll that also completes the gesture,   *)
(* which is then the signal recorded.                                      *)
HoldContinues ==
  LET due      == ~fired /\ progress >= ProgressEvery
      complete == ~fired /\ start >= FactoryHold
  IN /\ baseline /\ Held(pad') /\ active
     /\ progress' = IF due THEN 0 ELSE progress
     /\ fired' = (fired \/ complete)
     /\ signal' = CASE complete -> "Gesture" [] due /\ ~complete -> "Progress"
                    [] OTHER -> "None"
     /\ UNCHANGED <<firstPoll, baseline, active, start>>

UpdateResetGesture ==
  \/ /\ resetPairValid
     /\ AwaitBaseline \/ PairReleased \/ HoldBegins \/ HoldContinues
  \/ /\ ~resetPairValid
     /\ signal' = "None"
     /\ UNCHANGED <<firstPoll, baseline, active, fired, start, progress>>

----------------------------------------------------------------------------
(* What the history variables remember of a poll of pad ch reading level.  *)
Observe(ch, level) ==
  /\ raw' = [raw EXCEPT ![ch] =
       [level |-> level, for |-> IF level = @.level THEN @.for ELSE 0]]
  /\ lastEvent' = [lastEvent EXCEPT ![ch] = IF event' = Quiet THEN @ ELSE event'.kind]
  /\ LET held == resetPairValid /\ Held(pad') IN
       /\ heldFor' = IF held THEN heldFor ELSE 0
       /\ answered' = (held /\ (answered \/ signal' = "Gesture"))
  /\ seenReleased' = IF level = "Released" THEN seenReleased \cup {ch} ELSE seenReleased

Poll(ch, level) ==
  /\ polled = ch
  /\ polled' = ch + 1
  /\ DebouncePad(ch, level)
  /\ UpdateResetGesture
  /\ Observe(ch, level)

Older(age, gap) == IF age + gap > Cap THEN Cap ELSE age + gap

(* The next scan comes gap later.                                          *)
NextScan(gap) ==
  /\ polled = N
  /\ polled' = 0
  /\ pad' = [c \in Pads |-> [pad[c] EXCEPT !.age = Older(@, gap)]]
  /\ firstPoll' = IF firstPoll = NoTime THEN NoTime ELSE Older(firstPoll, gap)
  /\ start' = Older(start, gap)
  /\ progress' = Older(progress, gap)
  /\ raw' = [c \in Pads |-> [raw[c] EXCEPT !.for = Older(@, gap)]]
  /\ heldFor' = IF resetPairValid /\ Held(pad) THEN Older(heldFor, gap) ELSE 0
  /\ event' = Quiet /\ signal' = "None"
  /\ UNCHANGED <<baseline, active, fired, lastEvent, answered, seenReleased>>

Next ==
  \/ \E ch \in Pads, level \in Levels : Poll(ch, level)
  \/ \E gap \in Gaps : NextScan(gap)

(* The Control task scans for ever.                                        *)
Spec == Init /\ [][Next]_vars /\ WF_vars(Next)

----------------------------------------------------------------------------
(* Type invariant.                                                         *)
Types ==
  /\ pad \in [Pads -> [stable : Levels, candidate : Levels, age : Ages, longFired : BOOLEAN]]
  /\ polled \in 0 .. N
  /\ firstPoll \in Ages \cup {NoTime}
  /\ {baseline, active, fired, answered} \subseteq BOOLEAN
  /\ seenReleased \subseteq Pads
  /\ start \in Ages /\ progress \in Ages /\ heldFor \in Ages
  /\ event \in [kind : Levels \cup {"None", "LongPress"}, ch : Pads]
  /\ signal \in {"None", "Progress", "Gesture"}
  /\ raw \in [Pads -> [level : Levels, for : Ages]]
  /\ lastEvent \in [Pads -> Levels \cup {"LongPress"}]

(* A long press is remembered only while its pad is pressed, and an        *)
(* answered gesture only while its window is open                          *)
(* (touch_input.h:94-111, 140-144).                                        *)
TypeOK ==
  /\ Types
  /\ \A c \in Pads : pad[c].longFired => pad[c].stable = "Pressed"
  /\ fired => active

(* A press toggles a relay: it is announced once per touch and only for a  *)
(* level that has read the same for the whole debounce time, whatever the  *)
(* bounce pattern; and one that has is known by the end of the pad's poll  *)
(* (touch_input.h:78-102).                                                 *)
PressIsDebounced ==
  /\ event.kind \in Levels =>
       /\ raw[event.ch].level = event.kind
       /\ raw[event.ch].for >= Debounce
  /\ \A c \in Pads : c < polled /\ raw[c].for >= Debounce =>
       pad[c].stable = raw[c].level

(* Nothing is announced twice for one touch: presses and releases of a pad *)
(* alternate, with at most one long press between them, and however long   *)
(* the pair is held, one hold asks for one reset (touch_input.h:94-168).   *)
MayFollow(kind, last) ==
  /\ kind = "Pressed"   => last = "Released"
  /\ kind = "Released"  => last \in {"Pressed", "LongPress"}
  /\ kind = "LongPress" => last = "Pressed"

NothingTwice ==
  [][/\ event' # event => MayFollow(event'.kind, lastEvent[event'.ch])
     /\ signal' = "Gesture" /\ signal # "Gesture" => ~answered]_vars

(* The gesture completes only after the two pads have been held together,  *)
(* without a break, for the whole hold time; and once the baseline is known*)
(* no poll leaves such a hold unanswered (touch_input.h:140-159).          *)
GestureIsFullHold ==
  /\ signal = "Gesture" => heldFor >= FactoryHold
  /\ polled > 0 /\ baseline /\ Held(pad) /\ heldFor >= FactoryHold => answered

(* A pair of pads stuck since boot never completes the gesture, the boot   *)
(* loop of the on-device finding (touch_input.h:120-138).                  *)
StuckPairNeverResets == signal = "Gesture" => seenReleased \cap Pair # {}

(* "A stuck/boot-time press can never trigger a reset" (CHANGELOG.md:41):  *)
(* neither pad of a completed gesture has been pressed ever since boot.    *)
StuckPadNeverResets == signal = "Gesture" => Pair \subseteq seenReleased

(* Holding the pair from a released baseline does complete the gesture, so *)
(* the safety rules have not disabled it (touch_input.h:146-159).          *)
HoldCompletes ==
  <>[](baseline /\ \A c \in Pads : raw[c].level = "Pressed") => <>fired
==============================================================================
