-------------------------- MODULE MqttService_proofs --------------------------
(***************************************************************************)
(* What the cloud is told is true and what it asks is done: for every      *)
(* number of channels, queue depth, backoff and command topic, across lost *)
(* sessions, full queues, updates and restarts.                            *)
(***************************************************************************)
EXTENDS MqttService, SequenceTheorems, WellFoundedInduction, TLAPS

(* The queue holds each channel's changes in the order they were made, all *)
(* of them later than what is retained.                                    *)
QueueInOrder ==
  /\ \A i \in 1 .. Len(queue) :
       retained[queue[i].ch] <= queue[i].n /\ queue[i].n <= relay[queue[i].ch]
  /\ \A i, j \in 1 .. Len(queue) :
       i < j /\ queue[i].ch = queue[j].ch => queue[i].n <= queue[j].n
  /\ \A ch \in Ch : retained[ch] <= relay[ch]

(* A latest change that was not thrown away is retained or queued.         *)
LatestIsKept ==
  \A ch \in Ch : ~missing[ch] /\ ch \notin news =>
    \/ retained[ch] = relay[ch]
    \/ \E i \in 1 .. Len(queue) : queue[i].ch = ch /\ queue[i].n = relay[ch]

(* The last command waiting for a channel is what the cloud last asked.    *)
Affects(c, ch) == c.kind = "SetAll" \/ c.ch = ch
Asks(c, ch)    == c.on <=> wish[ch] = "on"
LastFor(i, ch) == /\ Affects(commands[i], ch)
                  /\ \A j \in 1 .. Len(commands) : i < j => ~Affects(commands[j], ch)
LastWaitingIsWish ==
  ~aliased => \A ch \in Ch : wish[ch] # "none" =>
    /\ Pending(ch) \/ (On(relay[ch]) <=> wish[ch] = "on")
    /\ \A i \in 1 .. Len(commands) : LastFor(i, ch) => Asks(commands[i], ch)

(* A session exists only past the connection, and has its will.            *)
SessionHasWill ==
  /\ session => will /\ connected
  /\ subscribed => session

IInv == /\ TypeOK /\ QueueInOrder /\ LatestIsKept /\ LastWaitingIsWish
        /\ OnlineIsTrue /\ SessionHasWill

----------------------------------------------------------------------------
(* The backoff's jitter is a part of the delay, and grows with it.         *)
LEMMA SpanBounds ==
  ASSUME NEW d \in Nat
  PROVE  /\ Span(d) \in 0 .. d
         /\ \A e \in Nat : d <= e => Span(d) <= Span(e)
<1>1. JitterPct \in 0 .. 100 /\ d * JitterPct \in Nat /\ d * JitterPct <= d * 100
  BY JitterAssumption
<1>2. \A p \in Nat : p \div 100 \in Nat /\ 100 * (p \div 100) <= p /\ p < 100 * (p \div 100) + 100
  OBVIOUS
<1>3. Span(d) \in 0 .. d
  BY <1>1, <1>2 DEF Span
<1>4. ASSUME NEW e \in Nat, d <= e PROVE Span(d) <= Span(e)
  <2>1. e * JitterPct \in Nat /\ d * JitterPct <= e * JitterPct
    BY <1>1, <1>4
  <2>2. \A p, q \in Nat : p <= q => p \div 100 <= q \div 100
    OBVIOUS
  <2>3. QED
    BY <1>1, <2>1, <2>2 DEF Span
<1>5. QED
  BY <1>3, <1>4

LEMMA TailIndexed ==
  ASSUME NEW S, NEW s \in Seq(S), s # << >>
  PROVE  /\ Len(s) \in Nat \ {0} /\ Head(s) = s[1] /\ s[1] \in S
         /\ Tail(s) \in Seq(S) /\ Len(Tail(s)) = Len(s) - 1
         /\ \A i \in 1 .. Len(s) - 1 : Tail(s)[i] = s[i + 1]
BY HeadTailProperties, EmptySeq, LenProperties

LEMMA ArithmeticOfChannels ==
  /\ 0 \in Ch /\ Ch \subseteq 0 .. IdValues - 1 /\ Ch \subseteq Nat
  /\ \A n \in Nat : n % IdValues \in 0 .. IdValues - 1
  /\ \A n \in Nat : n < IdValues => n % IdValues = n
<1>1. Channels \in Nat \ {0} /\ IdValues \in Nat \ {0} /\ Channels <= IdValues
  BY ChannelsAssumption
<1>2. QED
  BY <1>1 DEF Ch

(* The least of a set of channels.                                         *)
LEMMA LowestIsLeast ==
  ASSUME NEW S \in SUBSET Ch, S # {}
  PROVE  Lowest(S) \in S
<1>1. \E ch \in S : \A other \in S : ch <= other
  <2>1. S \in SUBSET Nat
    BY ArithmeticOfChannels
  <2> DEFINE Less == {p \in Nat \X Nat : p[1] < p[2]}
  <2>2. IsWellFoundedOn(Less, Nat)
    BY NatLessThanWellFounded DEF OpToRel
  <2>3. PICK ch \in S : \A other \in S : <<other, ch>> \notin Less
    <3> HIDE DEF Less
    <3>1. QED
      BY <2>1, <2>2, WFMin
  <2>4. \A other \in S : ~(other < ch)
    BY <2>1, <2>3
  <2>5. QED
    BY <2>1, <2>4
<1>2. QED
  BY <1>1 DEF Lowest

----------------------------------------------------------------------------
(* Types.                                                                  *)

QueueTypes ==
  /\ relay \in [Ch -> 0 .. MaxChanges] /\ retained \in [Ch -> 0 .. MaxChanges]
  /\ news \subseteq Ch /\ missing \in [Ch -> BOOLEAN]
  /\ queue \in Seq(Change) /\ Len(queue) <= QueueDepth

CommandTypes ==
  /\ commands \in Seq(Command) /\ Len(commands) <= CommandDepth
  /\ wish \in [Ch -> {"none", "on", "off"}] /\ aliased \in BOOLEAN

DelayTypes ==
  /\ current \in BaseDelay .. MaxDelay
  /\ wait \in 0 .. MaxDelay + Span(MaxDelay)

TickTypes ==
  /\ pc \in {"idle", "greet", "loop", "drain"} /\ budget \in 0 .. QueueDepth
  /\ connected \in BOOLEAN /\ reach \in BOOLEAN
  /\ session \in BOOLEAN /\ subscribed \in BOOLEAN /\ will \in BOOLEAN
  /\ yielded \in BOOLEAN /\ online \in BOOLEAN

LEMMA TypeParts == TypeOK <=> QueueTypes /\ CommandTypes /\ DelayTypes /\ TickTypes
BY DEF TypeOK, QueueTypes, CommandTypes, DelayTypes, TickTypes

(* Only these steps concern the queue of changes ...                       *)
QueueAlone == UNCHANGED <<relay, news, missing, queue, retained>>

LEMMA QueueSteps ==
  ASSUME Next
  PROVE  \/ QueueAlone
         \/ \E changed \in SUBSET Ch : news = {} /\ Switch(changed)
         \/ Announce \/ DrainOne \/ Restart
<1> USE DEF QueueAlone, control, tick, broker
<1>1. CASE BeginConnected \/ BackOff \/ Connect \/ ConnectFails \/ Greet \/ DrainDone
  BY <1>1 DEF BeginConnected, BackOff, Connect, ConnectFails, Greet, DrainDone
<1>2. CASE Loop \/ LoopYields
  BY <1>2 DEF Loop, LoopYields, EnterDrain
<1>3. CASE \E on \in BOOLEAN : routeAllSet(on) \/ \E n \in Numbers : routeChannelSet(n, on)
  BY <1>3 DEF routeAllSet, routeChannelSet, Delivered, EnterDrain
<1>4. CASE Outage \/ Recovery \/ WillPublished
  BY <1>4 DEF Outage, Recovery, WillPublished
<1>5. CASE \E ch \in Ch : Touch(ch)
  BY <1>5 DEF Touch
<1>6. CASE Obey
  <2>1. Targets(Head(commands)) \in SUBSET Ch
    BY DEF Targets
  <2>2. QED
    BY <1>6, <2>1 DEF Obey
<1>7. QED
  BY <1>1, <1>2, <1>3, <1>4, <1>5, <1>6 DEF Next, NetTask, ControlTask

(* ... and only these the commands.                                        *)
CommandsAlone == UNCHANGED <<relay, commands, wish, aliased>>

LEMMA CommandSteps ==
  ASSUME Next
  PROVE  \/ CommandsAlone
         \/ \E ch \in Ch : Touch(ch)
         \/ Obey \/ Restart
         \/ \E on \in BOOLEAN : routeAllSet(on) \/ \E n \in Numbers : routeChannelSet(n, on)
<1> USE DEF CommandsAlone, control, tick, broker
<1>1. CASE BeginConnected \/ BackOff \/ Connect \/ ConnectFails \/ Greet \/ DrainDone
           \/ DrainOne \/ Announce
  BY <1>1 DEF BeginConnected, BackOff, Connect, ConnectFails, Greet, DrainDone, DrainOne, Announce
<1>2. CASE Loop \/ LoopYields
  BY <1>2 DEF Loop, LoopYields, EnterDrain
<1>3. CASE Outage \/ Recovery \/ WillPublished
  BY <1>3 DEF Outage, Recovery, WillPublished
<1>4. QED
  BY <1>1, <1>2, <1>3 DEF Next, NetTask, ControlTask

LEMMA QueueTypesKeep ==
  ASSUME IInv, Next
  PROVE  QueueTypes'
<1>1. QueueTypes /\ QueueDepth \in Nat \ {0} /\ MaxChanges \in Nat
  BY TypeParts, DepthAssumption, ChangesAssumption DEF IInv
<1>2. CASE QueueAlone
  BY <1>1, <1>2 DEF QueueTypes, QueueAlone
<1>3. ASSUME NEW changed \in SUBSET Ch, Switch(changed) PROVE QueueTypes'
  <2>1. relay' \in [Ch -> 0 .. MaxChanges]
    BY <1>1, <1>3 DEF QueueTypes, Switch
  <2>2. missing' \in [Ch -> BOOLEAN]
    BY <1>3 DEF Switch
  <2>3. QED
    BY <1>1, <1>3, <2>1, <2>2 DEF QueueTypes, Switch
<1>4. CASE Announce
  <2>1. Lowest(news) \in news
    BY <1>1, <1>4, LowestIsLeast DEF Announce, QueueTypes
  <2>2. [ch |-> Lowest(news), n |-> relay[Lowest(news)]] \in Change
    BY <1>1, <2>1 DEF Change, QueueTypes
  <2> DEFINE kept == IF Len(queue) = QueueDepth THEN Tail(queue) ELSE queue
  <2>3. kept \in Seq(Change) /\ Len(kept) + 1 <= QueueDepth
    <3>1. Len(queue) \in Nat
      BY <1>1, LenProperties DEF QueueTypes
    <3>2. CASE Len(queue) = QueueDepth
      BY <1>1, <3>1, <3>2, EmptySeq, TailIndexed DEF QueueTypes
    <3>3. CASE Len(queue) # QueueDepth
      BY <1>1, <3>1, <3>3 DEF QueueTypes
    <3>4. QED
      BY <3>2, <3>3
  <2>4. queue' = Append(kept, [ch |-> Lowest(news), n |-> relay[Lowest(news)]])
    BY <1>4 DEF Announce
  <2> HIDE DEF kept
  <2>5. queue' \in Seq(Change) /\ Len(queue') <= QueueDepth
    BY <2>2, <2>3, <2>4, AppendProperties
  <2>6. missing' \in [Ch -> BOOLEAN] /\ news' \subseteq Ch
    BY <1>1, <1>4 DEF Announce, QueueTypes
  <2>7. QED
    BY <1>1, <1>4, <2>5, <2>6 DEF Announce, QueueTypes
<1>5. CASE DrainOne
  <2>1. queue \in Seq(Change) /\ queue # << >>
    BY <1>1, <1>5 DEF DrainOne, QueueTypes
  <2>2. Head(queue) \in Change /\ queue' \in Seq(Change) /\ Len(queue') <= QueueDepth
    BY <1>1, <1>5, <2>1, TailIndexed DEF DrainOne, QueueTypes
  <2>3. retained' \in [Ch -> 0 .. MaxChanges] /\ missing' \in [Ch -> BOOLEAN]
    BY <1>1, <1>5, <2>2 DEF DrainOne, QueueTypes, Change
  <2>4. QED
    BY <1>1, <1>5, <2>2, <2>3 DEF DrainOne, QueueTypes
<1>6. CASE Restart
  <2>1. relay' \in [Ch -> 0 .. MaxChanges]
    BY <1>1, <1>6 DEF QueueTypes, Restart
  <2>2. missing' \in [Ch -> BOOLEAN]
    BY <1>6 DEF Restart
  <2>3. QED
    BY <1>1, <1>6, <2>1, <2>2, EmptySeq DEF QueueTypes, Restart
<1>7. QED
  BY <1>2, <1>3, <1>4, <1>5, <1>6, QueueSteps

LEMMA CommandTypesKeep ==
  ASSUME IInv, Next
  PROVE  CommandTypes'
<1>1. CommandTypes /\ CommandDepth \in Nat \ {0}
  BY TypeParts, DepthAssumption DEF IInv
<1>2. CASE CommandsAlone
  BY <1>1, <1>2 DEF CommandTypes, CommandsAlone
<1>3. CASE \E ch \in Ch : Touch(ch)
  BY <1>1, <1>3 DEF CommandTypes, Touch, Switch
<1>4. CASE Obey
  <2>1. commands' \in Seq(Command) /\ Len(commands') <= CommandDepth
    BY <1>1, <1>4, TailIndexed DEF CommandTypes, Obey
  <2>2. QED
    BY <1>1, <1>4, <2>1 DEF CommandTypes, Obey, Switch
<1>5. CASE Restart
  <2>1. commands' \in Seq(Command) /\ Len(commands') <= CommandDepth
    BY <1>1, <1>5, EmptySeq DEF Restart
  <2>2. wish' \in [Ch -> {"none", "on", "off"}] /\ aliased' \in BOOLEAN
    BY <1>5 DEF Restart
  <2>3. QED
    BY <2>1, <2>2 DEF CommandTypes
<1>6. ASSUME NEW cmd \in Command, NEW named \in SUBSET Ch, NEW over \in BOOLEAN,
             Delivered(cmd, named, over)
      PROVE  CommandTypes'
  <2>1. CASE UNCHANGED <<commands, wish, aliased>>
    BY <1>1, <2>1 DEF CommandTypes
  <2>2. CASE Len(commands) < CommandDepth /\ commands' = Append(commands, cmd)
    <3>1. commands' \in Seq(Command) /\ Len(commands') <= CommandDepth
      BY <1>1, <2>2, AppendProperties, LenProperties DEF CommandTypes
    <3>2. wish' \in [Ch -> {"none", "on", "off"}]
      BY <1>1, <1>6, <2>2 DEF CommandTypes, Delivered
    <3>3. aliased' \in BOOLEAN
      <4>1. aliased' = (aliased \/ over) \/ aliased' = aliased
        BY <1>6 DEF Delivered
      <4>2. QED
        BY <1>1, <4>1 DEF CommandTypes
    <3>4. QED
      BY <3>1, <3>2, <3>3 DEF CommandTypes
  <2>3. QED
    BY <1>6, <2>1, <2>2 DEF Delivered
<1>7. CASE \E on \in BOOLEAN : routeAllSet(on)
  <2>1. PICK on \in BOOLEAN : routeAllSet(on)
    BY <1>7
  <2>2. [kind |-> "SetAll", ch |-> 0, on |-> on] \in Command
    BY ArithmeticOfChannels DEF Command
  <2>3. QED
    BY <1>6, <2>1, <2>2 DEF routeAllSet
<1>8. CASE \E on \in BOOLEAN : \E n \in Numbers : routeChannelSet(n, on)
  <2>1. PICK on \in BOOLEAN, n \in Numbers : routeChannelSet(n, on)
    BY <1>8
  <2>2. [kind |-> "SetChannel", ch |-> n % IdValues, on |-> on] \in Command
    BY ArithmeticOfChannels, ChannelsAssumption DEF Command
  <2>3. (n >= IdValues) \in BOOLEAN /\ {n} \cap Ch \in SUBSET Ch
    OBVIOUS
  <2>4. QED
    BY <1>6, <2>1, <2>2, <2>3 DEF routeChannelSet
<1>9. QED
  BY <1>2, <1>3, <1>4, <1>5, <1>7, <1>8, CommandSteps

(* A jittered delay is no longer than the longest one's.                   *)
LEMMA DelayTypesKeep ==
  ASSUME IInv, Next
  PROVE  DelayTypes'
<1>1. DelayTypes /\ BaseDelay \in Nat \ {0} /\ MaxDelay \in Nat /\ BaseDelay <= MaxDelay
  BY TypeParts, DelayAssumption DEF IInv
<1>2. /\ current \in Nat /\ Span(current) \in 0 .. current /\ Span(MaxDelay) \in 0 .. MaxDelay
      /\ Span(current) <= Span(MaxDelay)
  BY <1>1, SpanBounds DEF DelayTypes
<1>3. CASE ConnectFails
  <2>1. wait' \in 0 .. MaxDelay + Span(MaxDelay)
    BY <1>1, <1>2, <1>3 DEF ConnectFails, Jittered, DelayTypes
  <2>2. current' \in BaseDelay .. MaxDelay
    BY <1>1, <1>2, <1>3 DEF ConnectFails, nextDouble, DelayTypes
  <2>3. QED
    BY <2>1, <2>2 DEF DelayTypes
<1>4. CASE BackOff
  BY <1>1, <1>2, <1>4 DEF BackOff, DelayTypes
<1>5. CASE Connect \/ Restart
  BY <1>1, <1>2, <1>5 DEF Connect, Restart, DelayTypes
<1>6. CASE UNCHANGED <<wait, current>>
  BY <1>1, <1>6 DEF DelayTypes
<1>7. CASE BeginConnected \/ Greet \/ DrainDone \/ DrainOne \/ Announce \/ Loop \/ LoopYields
  BY <1>6, <1>7 DEF BeginConnected, Greet, DrainDone, DrainOne, Announce, Loop, LoopYields,
     EnterDrain, tick
<1>8. CASE \E on \in BOOLEAN : routeAllSet(on) \/ \E n \in Numbers : routeChannelSet(n, on)
  BY <1>6, <1>8 DEF routeAllSet, routeChannelSet, Delivered, EnterDrain
<1>9. CASE Outage \/ Recovery \/ WillPublished \/ Obey \/ \E ch \in Ch : Touch(ch)
  BY <1>6, <1>9 DEF Outage, Recovery, WillPublished, Obey, Touch, Switch, tick
<1>10. QED
  BY <1>3, <1>4, <1>5, <1>7, <1>8, <1>9 DEF Next, NetTask, ControlTask

(* Types of the tick and the broker, and what they know of each other.     *)
Online == TickTypes /\ SessionHasWill /\ OnlineIsTrue

LEMMA OnlineKeeps ==
  ASSUME IInv, Next
  PROVE  Online'
<1> USE DEF Online, TickTypes, SessionHasWill, OnlineIsTrue
<1>1. Online /\ QueueDepth \in Nat \ {0}
  BY TypeParts, DepthAssumption DEF IInv
<1> DEFINE Counted  == pc \in {"idle", "greet", "loop", "drain"} /\ budget \in 0 .. QueueDepth
           Booleans == /\ connected \in BOOLEAN /\ reach \in BOOLEAN
                       /\ session \in BOOLEAN /\ subscribed \in BOOLEAN /\ will \in BOOLEAN
                       /\ yielded \in BOOLEAN /\ online \in BOOLEAN
<1>0. ASSUME EnterDrain
      PROVE  /\ Counted' /\ pc' = "drain" /\ pc = "loop" /\ reach' = reach /\ online' = online
  BY <1>0, <1>1 DEF EnterDrain
<1>2. CASE BeginConnected
  BY <1>1, <1>2 DEF BeginConnected, broker
<1>3. CASE BackOff \/ ConnectFails
  BY <1>1, <1>3 DEF BackOff, ConnectFails, broker
<1>4. CASE Connect
  BY <1>1, <1>4 DEF Connect
<1>5. CASE Greet
  BY <1>1, <1>5 DEF Greet
<1>6. CASE Loop
  <2>1. Counted' /\ pc' = "drain" /\ pc = "loop" /\ reach' = reach /\ online' = online
    BY <1>0, <1>6 DEF Loop
  <2>2. Booleans'
    BY <1>1, <1>6, <2>1 DEF Loop
  <2>3. SessionHasWill' /\ OnlineIsTrue'
    BY <1>1, <1>6, <2>1 DEF Loop
  <2>4. QED
    BY <2>1, <2>2, <2>3
<1>7. CASE LoopYields
  <2>1. Counted' /\ pc' = "drain" /\ pc = "loop" /\ reach' = reach /\ online' = online
    BY <1>0, <1>7 DEF LoopYields
  <2>2. Booleans'
    BY <1>1, <1>7, <2>1 DEF LoopYields
  <2>3. SessionHasWill' /\ OnlineIsTrue'
    BY <1>1, <1>7, <2>1 DEF LoopYields
  <2>4. QED
    BY <2>1, <2>2, <2>3
<1>8. CASE \E on \in BOOLEAN : routeAllSet(on) \/ \E n \in Numbers : routeChannelSet(n, on)
  <2>1. EnterDrain /\ session /\ connected' = TRUE /\ UNCHANGED <<session, subscribed, will, yielded>>
    BY <1>8 DEF routeAllSet, routeChannelSet, Delivered
  <2>2. Counted' /\ pc' = "drain" /\ pc = "loop" /\ reach' = reach /\ online' = online
    BY <1>0, <2>1
  <2>3. Booleans'
    BY <1>1, <2>1, <2>2
  <2>4. SessionHasWill' /\ OnlineIsTrue'
    BY <1>1, <2>1, <2>2
  <2>5. QED
    BY <2>2, <2>3, <2>4
<1>9. CASE DrainOne
  <2>1. /\ pc = "drain" /\ budget > 0 /\ budget' = budget - 1
        /\ UNCHANGED <<pc, reach, session, subscribed, will, yielded, online>>
    BY <1>9 DEF DrainOne, broker
  <2>2. Counted'
    BY <1>1, <2>1
  <2>3. connected' = connected \/ (~(connected /\ session) /\ connected' = FALSE)
    BY <1>9 DEF DrainOne
  <2>4. Booleans'
    BY <1>1, <2>1, <2>3
  <2>5. SessionHasWill'
    BY <1>1, <2>1, <2>3
  <2>6. OnlineIsTrue'
    BY <1>1, <2>1
  <2>7. QED
    BY <2>2, <2>4, <2>5, <2>6
<1>10. CASE DrainDone
  BY <1>1, <1>10 DEF DrainDone, broker
<1>11. CASE Announce \/ Obey \/ \E ch \in Ch : Touch(ch)
  BY <1>1, <1>11 DEF Announce, Obey, Touch, Switch, tick, broker
<1>12. CASE Outage
  BY <1>1, <1>12 DEF Outage, tick
<1>13. CASE Recovery
  BY <1>1, <1>13 DEF Recovery, tick, broker
<1>14. CASE WillPublished
  BY <1>1, <1>14 DEF WillPublished, tick
<1>15. CASE Restart
  <2>1. Counted'
    BY <1>1, <1>15 DEF Restart
  <2>0. Booleans'
    BY <1>1, <1>15 DEF Restart
  <2>2. SessionHasWill' /\ OnlineIsTrue'
    BY <1>1, <1>15 DEF Restart
  <2>3. QED
    BY <2>0, <2>1, <2>2
<1>16. QED
  BY <1>2, <1>3, <1>4, <1>5, <1>6, <1>7, <1>8, <1>9, <1>10, <1>11, <1>12, <1>13, <1>14, <1>15
     DEF Next, NetTask, ControlTask

----------------------------------------------------------------------------
(* What is retained: news waits its turn, the oldest of a full queue is    *)
(* given up, and what leaves the queue is retained or known to be gone.    *)

Retains == QueueInOrder /\ LatestIsKept

LEMMA QueuedChanges ==
  ASSUME QueueTypes
  PROVE  \A i \in 1 .. Len(queue) : queue[i].ch \in Ch /\ queue[i].n \in Nat
<1>1. \A i \in 1 .. Len(queue) : queue[i] \in Change
  BY ElementOfSeq DEF QueueTypes
<1>2. QED
  BY <1>1, ChangesAssumption DEF Change

LEMMA SwitchRetains ==
  ASSUME IInv, NEW changed \in SUBSET Ch, news = {}, Switch(changed)
  PROVE  Retains' /\ retained' = retained
<1>1. QueueTypes /\ Retains /\ QueueTypes'
  <2>1. QueueTypes /\ Retains
    BY TypeParts DEF IInv, Retains
  <2>2. relay' \in [Ch -> 0 .. MaxChanges]
    BY <2>1, ChangesAssumption DEF QueueTypes, Switch
  <2>3. missing' \in [Ch -> BOOLEAN]
    BY DEF Switch
  <2>4. QED
    BY <2>1, <2>2, <2>3 DEF QueueTypes, Switch
<1>2. queue' = queue /\ retained' = retained /\ news' = changed
  BY DEF Switch
<1>3. \A ch \in Ch : /\ relay[ch] \in Nat /\ relay'[ch] \in Nat /\ relay[ch] <= relay'[ch]
                     /\ retained[ch] \in Nat
                     /\ ch \notin changed => relay'[ch] = relay[ch] /\ missing'[ch] = missing[ch]
  BY <1>1, ChangesAssumption DEF QueueTypes, Switch
<1>4. \A i \in 1 .. Len(queue) : queue[i].ch \in Ch /\ queue[i].n \in Nat
  BY <1>1, QueuedChanges
<1>5. QueueInOrder'
  BY <1>1, <1>2, <1>3, <1>4 DEF Retains, QueueInOrder
<1>6. LatestIsKept'
  BY <1>1, <1>2, <1>3 DEF Retains, LatestIsKept
<1>7. QED
  BY <1>2, <1>5, <1>6 DEF Retains

(* Appending the latest change of a channel to what is left of the queue.  *)
LEMMA AnnounceRetains ==
  ASSUME IInv, Announce
  PROVE  Retains' /\ retained' = retained
<1> DEFINE ch   == Lowest(news)
           full == Len(queue) = QueueDepth
           kept == IF full THEN Tail(queue) ELSE queue
           c    == [ch |-> ch, n |-> relay[ch]]
           skip == IF full THEN 1 ELSE 0
<1>1. QueueTypes /\ Retains /\ QueueDepth \in Nat \ {0} /\ Len(queue) \in Nat
  BY TypeParts, DepthAssumption, LenProperties DEF IInv, Retains, QueueTypes
<1>2. ch \in news /\ ch \in Ch /\ c \in Change /\ news' = news \ {ch}
  <2>1. ch \in news
    BY <1>1, LowestIsLeast DEF Announce, QueueTypes
  <2>2. QED
    BY <1>1, <2>1 DEF Change, QueueTypes, Announce
<1>3. /\ kept \in Seq(Change) /\ Len(kept) = Len(queue) - skip
      /\ \A i \in 1 .. Len(kept) : kept[i] = queue[i + skip]
  <2>1. CASE full
    BY <1>1, <2>1, EmptySeq, TailIndexed DEF QueueTypes
  <2>2. CASE ~full
    <3>1. kept = queue /\ skip = 0
      BY <2>2
    <3>2. \A i \in 1 .. Len(kept) : i + skip = i
      BY <3>1
    <3>3. QED
      BY <1>1, <3>1, <3>2 DEF QueueTypes
  <2>3. QED
    BY <2>1, <2>2
<1>4. UNCHANGED <<relay, retained>>
  BY DEF Announce, broker
<1>5. queue' = Append(kept, c)
  BY DEF Announce
<1> HIDE DEF kept
<1>6. /\ Len(queue') = Len(kept) + 1 /\ queue'[Len(kept) + 1] = c
      /\ \A i \in 1 .. Len(kept) : queue'[i] = queue[i + skip]
      /\ Len(kept) \in Nat /\ skip \in {0, 1} /\ Len(kept) + skip = Len(queue)
  BY <1>1, <1>2, <1>3, <1>5, AppendProperties, LenProperties
<1> HIDE DEF skip, ch
<1>7. \A i \in 1 .. Len(queue) : queue[i].ch \in Ch /\ queue[i].n \in Nat
  BY <1>1, QueuedChanges
<1>8. \A d \in Ch : relay[d] \in Nat /\ retained[d] \in Nat
  BY <1>1, ChangesAssumption DEF QueueTypes
<1>9. QueueInOrder'
  <2>1. \A i \in 1 .. Len(kept) : i + skip \in 1 .. Len(queue)
    BY <1>6
  <2>2. \A i \in 1 .. Len(queue') : i \in 1 .. Len(kept) \/ i = Len(kept) + 1
    BY <1>6
  <2>3. \A i \in 1 .. Len(queue') :
          /\ retained[queue'[i].ch] <= queue'[i].n /\ queue'[i].n <= relay[queue'[i].ch]
    BY <1>1, <1>2, <1>6, <1>8, <2>1, <2>2 DEF Retains, QueueInOrder
  <2>4. ASSUME NEW i \in 1 .. Len(queue'), NEW j \in 1 .. Len(queue'),
               i < j, queue'[i].ch = queue'[j].ch
        PROVE  queue'[i].n <= queue'[j].n
    <3>1. i \in 1 .. Len(kept)
      BY <1>6, <2>4
    <3>2. CASE j \in 1 .. Len(kept)
      BY <1>1, <1>6, <2>1, <2>4, <3>1, <3>2 DEF Retains, QueueInOrder
    <3>3. CASE j = Len(kept) + 1
      BY <1>6, <2>3, <2>4, <3>3
    <3>4. QED
      BY <2>2, <3>2, <3>3
  <2>5. QED
    BY <1>1, <1>4, <2>3, <2>4 DEF Retains, QueueInOrder
<1>10. LatestIsKept'
  <2> SUFFICES ASSUME NEW d \in Ch, ~missing'[d], d \notin news'
               PROVE  \/ retained[d] = relay[d]
                      \/ \E i \in 1 .. Len(queue') : queue'[i].ch = d /\ queue'[i].n = relay[d]
    BY <1>4 DEF LatestIsKept
  <2>1. CASE d = ch
    <3>1. queue'[Len(kept) + 1].ch = d /\ queue'[Len(kept) + 1].n = relay[d]
      BY <1>6, <2>1
    <3>2. QED
      BY <1>6, <3>1
  <2>2. CASE d # ch
    <3>1. d \notin news
      BY <1>2, <2>2
    <3>2. ~missing[d] /\ (full => d \notin LatestOf(Head(queue)))
      BY <3>1 DEF Announce, ch
    <3>3. CASE retained[d] = relay[d]
      BY <3>3
    <3>4. CASE \E i \in 1 .. Len(queue) : queue[i].ch = d /\ queue[i].n = relay[d]
      <4>1. PICK i \in 1 .. Len(queue) : queue[i].ch = d /\ queue[i].n = relay[d]
        BY <3>4
      <4>2. ~(full /\ i = 1)
        <5>1. full => Head(queue) = queue[1]
          BY <1>1, EmptySeq, TailIndexed DEF QueueTypes
        <5>2. QED
          BY <3>2, <4>1, <5>1 DEF LatestOf
      <4>3. i - skip \in 1 .. Len(kept) /\ queue'[i - skip] = queue[i]
        <5>1. i - skip \in 1 .. Len(kept)
          BY <1>6, <4>2 DEF skip
        <5>2. (i - skip) + skip = i
          BY <1>6
        <5>3. QED
          BY <1>6, <5>1, <5>2
      <4>4. QED
        BY <1>6, <4>1, <4>3
    <3>5. QED
      BY <1>1, <3>1, <3>2, <3>3, <3>4 DEF Retains, LatestIsKept
  <2>3. QED
    BY <2>1, <2>2
<1>11. QED
  BY <1>4, <1>9, <1>10 DEF Retains

LEMMA DrainRetains ==
  ASSUME IInv, DrainOne
  PROVE  Retains' /\ \A ch \in Ch : retained'[ch] >= retained[ch]
<1> DEFINE item == Head(queue)
<1>1. QueueTypes /\ Retains /\ queue # << >> /\ queue \in Seq(Change)
  BY TypeParts DEF IInv, Retains, QueueTypes, DrainOne
<1>2. /\ Len(queue) \in Nat \ {0} /\ item = queue[1] /\ item \in Change
      /\ queue' = Tail(queue) /\ Len(queue') = Len(queue) - 1
      /\ \A i \in 1 .. Len(queue') : queue'[i] = queue[i + 1]
  BY <1>1, TailIndexed DEF DrainOne
<1>3. \A i \in 1 .. Len(queue) : queue[i].ch \in Ch /\ queue[i].n \in Nat
  BY <1>1, QueuedChanges
<1>4. UNCHANGED <<relay, news>>
  BY DEF DrainOne
<1>5. \A d \in Ch : relay[d] \in Nat /\ retained[d] \in Nat
  BY <1>1, ChangesAssumption DEF QueueTypes
<1>6. /\ item.ch \in Ch /\ item.n \in Nat /\ retained[item.ch] <= item.n /\ item.n <= relay[item.ch]
      /\ \A i \in 1 .. Len(queue') : i + 1 \in 1 .. Len(queue)
      /\ 1 \in 1 .. Len(queue)
  BY <1>1, <1>2, <1>3 DEF Retains, QueueInOrder
<1>7. \A i \in 1 .. Len(queue') : queue'[i].ch = item.ch => item.n <= queue'[i].n
  BY <1>1, <1>2, <1>6 DEF Retains, QueueInOrder
<1>8. \A i, j \in 1 .. Len(queue') :
        i < j /\ queue'[i].ch = queue'[j].ch => queue'[i].n <= queue'[j].n
  BY <1>1, <1>2, <1>6 DEF Retains, QueueInOrder
<1> HIDE DEF item
<1>9. CASE missing' = missing /\ retained' = [retained EXCEPT ![item.ch] = item.n]
  <2>1. \A d \in Ch : retained'[d] = IF d = item.ch THEN item.n ELSE retained[d]
    BY <1>1, <1>6, <1>9 DEF QueueTypes
  <2>2. \A d \in Ch : retained'[d] >= retained[d] /\ retained'[d] <= relay[d]
    BY <1>1, <1>5, <1>6, <2>1 DEF Retains, QueueInOrder
  <2>3. \A i \in 1 .. Len(queue') :
          retained'[queue'[i].ch] <= queue'[i].n /\ queue'[i].n <= relay[queue'[i].ch]
    BY <1>1, <1>2, <1>3, <1>6, <1>7, <2>1 DEF Retains, QueueInOrder
  <2>4. QueueInOrder'
    BY <1>4, <1>8, <2>2, <2>3 DEF QueueInOrder
  <2>5. ASSUME NEW d \in Ch, ~missing[d], d \notin news
        PROVE  \/ retained'[d] = relay[d]
               \/ \E i \in 1 .. Len(queue') : queue'[i].ch = d /\ queue'[i].n = relay[d]
    <3>1. CASE retained[d] = relay[d]
      BY <1>5, <2>2, <2>5, <3>1, <2>1, <1>6
    <3>2. CASE \E i \in 1 .. Len(queue) : queue[i].ch = d /\ queue[i].n = relay[d]
      <4>1. PICK i \in 1 .. Len(queue) : queue[i].ch = d /\ queue[i].n = relay[d]
        BY <3>2
      <4>2. CASE i = 1
        BY <1>2, <2>1, <2>5, <4>1, <4>2
      <4>3. CASE i # 1
        <5>1. i - 1 \in 1 .. Len(queue') /\ (i - 1) + 1 = i
          BY <1>2, <4>3
        <5>2. queue'[i - 1] = queue[i]
          BY <1>2, <5>1
        <5>3. QED
          BY <4>1, <5>1, <5>2
      <4>4. QED
        BY <4>2, <4>3
    <3>3. QED
      BY <1>1, <2>5, <3>1, <3>2 DEF Retains, LatestIsKept
  <2>6. LatestIsKept'
    BY <1>4, <1>9, <2>5 DEF LatestIsKept
  <2>7. QED
    BY <2>2, <2>4, <2>6 DEF Retains
<1>10. CASE /\ missing' = [ch \in Ch |-> missing[ch] \/ ch \in LatestOf(item)]
            /\ retained' = retained
  <2>1. QueueInOrder'
    BY <1>1, <1>2, <1>4, <1>6, <1>8, <1>10 DEF Retains, QueueInOrder
  <2>2. ASSUME NEW d \in Ch, ~missing'[d], d \notin news
        PROVE  \/ retained[d] = relay[d]
               \/ \E i \in 1 .. Len(queue') : queue'[i].ch = d /\ queue'[i].n = relay[d]
    <3>1. ~missing[d] /\ d \notin LatestOf(item)
      BY <1>10, <2>2
    <3>2. CASE \E i \in 1 .. Len(queue) : queue[i].ch = d /\ queue[i].n = relay[d]
      <4>1. PICK i \in 1 .. Len(queue) : queue[i].ch = d /\ queue[i].n = relay[d]
        BY <3>2
      <4>2. i # 1
        BY <1>2, <3>1, <4>1 DEF LatestOf
      <4>3. i - 1 \in 1 .. Len(queue') /\ (i - 1) + 1 = i
        BY <1>2, <4>2
      <4>4. queue'[i - 1] = queue[i]
        BY <1>2, <4>3
      <4>5. QED
        BY <4>1, <4>3, <4>4
    <3>3. QED
      BY <1>1, <2>2, <3>1, <3>2 DEF Retains, LatestIsKept
  <2>3. LatestIsKept'
    BY <1>4, <1>10, <2>2 DEF LatestIsKept
  <2>4. QED
    BY <1>5, <1>10, <2>1, <2>3 DEF Retains
<1>11. QED
  BY <1>9, <1>10 DEF DrainOne, item

(* A restart empties the queue; the changes it held are gone, and known to.*)
LEMMA RestartRetains ==
  ASSUME IInv, Restart
  PROVE  Retains' /\ retained' = retained
<1>1. QueueTypes /\ Retains
  BY TypeParts DEF IInv, Retains
<1>2. queue' = << >> /\ Len(queue') = 0 /\ retained' = retained /\ news' = {}
  BY DEF Restart
<1>3. \A ch \in Ch : /\ relay[ch] \in Nat /\ relay'[ch] \in Nat /\ relay[ch] <= relay'[ch]
                     /\ retained[ch] \in Nat
  BY <1>1, ChangesAssumption DEF QueueTypes, Restart
<1>4. QueueInOrder'
  BY <1>1, <1>2, <1>3 DEF Retains, QueueInOrder
<1>5. \A ch \in Ch : ~missing'[ch] => /\ ~missing[ch] /\ ch \notin news /\ relay'[ch] = relay[ch]
                                     /\ \A i \in 1 .. Len(queue) : ch \notin LatestOf(queue[i])
  BY DEF Restart
<1>6. ASSUME NEW ch \in Ch, ~missing'[ch] PROVE retained[ch] = relay'[ch]
  <2>1. \A i \in 1 .. Len(queue) : ~(queue[i].ch = ch /\ queue[i].n = relay[ch])
    BY <1>5, <1>6 DEF LatestOf
  <2>2. QED
    BY <1>1, <1>5, <1>6, <2>1 DEF Retains, LatestIsKept
<1>7. LatestIsKept'
  BY <1>2, <1>6 DEF LatestIsKept
<1>8. QED
  BY <1>2, <1>4, <1>7 DEF Retains

LEMMA RetainsKeeps ==
  ASSUME IInv, Next
  PROVE  Retains' /\ \A ch \in Ch : retained'[ch] >= retained[ch]
<1>1. QueueTypes /\ Retains /\ \A ch \in Ch : retained[ch] \in Nat
  BY TypeParts, ChangesAssumption DEF IInv, Retains, QueueTypes
<1>2. CASE QueueAlone
  BY <1>1, <1>2 DEF QueueAlone, Retains, QueueInOrder, LatestIsKept
<1>3. CASE \E changed \in SUBSET Ch : news = {} /\ Switch(changed)
  BY <1>1, <1>3, SwitchRetains
<1>4. CASE Announce \/ Restart
  BY <1>1, <1>4, AnnounceRetains, RestartRetains
<1>5. CASE DrainOne
  BY <1>5, DrainRetains
<1>6. QED
  BY <1>2, <1>3, <1>4, <1>5, QueueSteps

----------------------------------------------------------------------------
(* What the cloud asks is done.                                            *)

LEMMA Toggles == \A n \in Nat : On(n + 1) <=> ~On(n)
BY DEF On

LEMMA TouchObeys ==
  ASSUME IInv, NEW c \in Ch, Touch(c)
  PROVE  LastWaitingIsWish'
<1>1. CommandTypes /\ LastWaitingIsWish /\ relay \in [Ch -> 0 .. MaxChanges]
  BY TypeParts DEF IInv, QueueTypes
<1>2. /\ commands' = commands /\ aliased' = aliased
      /\ \A ch \in Ch \ {c} : relay'[ch] = relay[ch] /\ wish'[ch] = wish[ch]
      /\ wish'[c] = IF Pending(c) THEN wish[c] ELSE "none"
  BY <1>1 DEF Touch, Switch, CommandTypes
<1> SUFFICES ASSUME ~aliased, NEW ch \in Ch, wish'[ch] # "none"
             PROVE  /\ Pending(ch)' \/ (On(relay'[ch]) <=> wish'[ch] = "on")
                    /\ \A i \in 1 .. Len(commands) : LastFor(i, ch)' => (commands[i].on <=> wish'[ch] = "on")
  BY <1>2 DEF LastWaitingIsWish, Asks
<1>3. wish'[ch] = wish[ch] /\ (ch = c => Pending(ch))
  BY <1>2
<1>4. Pending(ch)' <=> Pending(ch)
  BY <1>2 DEF Pending
<1>5. \A i \in 1 .. Len(commands) : LastFor(i, ch)' <=> LastFor(i, ch)
  BY <1>2 DEF LastFor
<1>6. QED
  BY <1>1, <1>2, <1>3, <1>4, <1>5 DEF LastWaitingIsWish, Asks

LEMMA ObeyObeys ==
  ASSUME IInv, Obey
  PROVE  LastWaitingIsWish'
<1> DEFINE head == Head(commands)
<1>1. /\ CommandTypes /\ LastWaitingIsWish /\ relay \in [Ch -> 0 .. MaxChanges]
      /\ \A ch \in Ch : relay[ch] \in Nat
  BY TypeParts, ChangesAssumption DEF IInv, QueueTypes
<1>2. /\ commands \in Seq(Command) /\ commands # << >>
      /\ commands' = Tail(commands) /\ aliased' = aliased /\ wish' = wish
  BY <1>1 DEF Obey, Switch, CommandTypes
<1>3. /\ Len(commands) \in Nat \ {0} /\ head = commands[1] /\ head \in Command
      /\ Len(commands') = Len(commands) - 1
      /\ \A i \in 1 .. Len(commands') : commands'[i] = commands[i + 1]
  BY <1>2, TailIndexed
<1>4. \A ch \in Ch : relay'[ch] = relay[ch] + (IF ch \in Targets(head) THEN 1 ELSE 0)
  BY DEF Obey, Switch
<1> HIDE DEF head
<1>5. \A ch \in Ch : Affects(head, ch) => (On(relay'[ch]) <=> head.on)
  <2> SUFFICES ASSUME NEW ch \in Ch, Affects(head, ch)
               PROVE  On(relay'[ch]) <=> head.on
    OBVIOUS
  <2>1. head.on \in BOOLEAN /\ On(relay[ch]) \in BOOLEAN
    BY <1>3 DEF Command, On
  <2>2. CASE ch \in Targets(head)
    <3>1. On(relay[ch]) # head.on
      BY <2>2 DEF Targets
    <3>2. relay'[ch] = relay[ch] + 1
      BY <1>4, <2>2
    <3>3. On(relay'[ch]) <=> ~On(relay[ch])
      BY <1>1, <3>2, Toggles
    <3>4. QED
      BY <2>1, <3>1, <3>3
  <2>3. CASE ch \notin Targets(head)
    <3>1. On(relay[ch]) = head.on
      BY <2>3 DEF Targets, Affects
    <3>2. relay'[ch] = relay[ch]
      BY <1>1, <1>4, <2>3
    <3>3. QED
      BY <2>1, <3>1, <3>2
  <2>4. QED
    BY <2>2, <2>3
<1>6. \A ch \in Ch : ~Affects(head, ch) => relay'[ch] = relay[ch]
  BY <1>1, <1>4 DEF Targets, Affects
<1>7. \A i \in 1 .. Len(commands') : i + 1 \in 1 .. Len(commands)
  BY <1>3
<1>8. \A j \in 1 .. Len(commands) : j = 1 \/ (j - 1 \in 1 .. Len(commands') /\ (j - 1) + 1 = j)
  BY <1>3
<1> SUFFICES ASSUME ~aliased, NEW ch \in Ch, wish[ch] # "none"
             PROVE  /\ Pending(ch)' \/ (On(relay'[ch]) <=> wish[ch] = "on")
                    /\ \A i \in 1 .. Len(commands') : LastFor(i, ch)' => Asks(commands'[i], ch)
  BY <1>2 DEF LastWaitingIsWish, Asks
<1>9. ASSUME NEW i \in 1 .. Len(commands'), LastFor(i, ch)' PROVE Asks(commands'[i], ch)
  <2>1. Affects(commands[i + 1], ch)
    BY <1>3, <1>9 DEF LastFor
  <2>2. ASSUME NEW j \in 1 .. Len(commands), i + 1 < j PROVE ~Affects(commands[j], ch)
    <3>1. j - 1 \in 1 .. Len(commands') /\ (j - 1) + 1 = j /\ i < j - 1
      BY <1>3, <1>8, <2>2
    <3>2. commands'[j - 1] = commands[j]
      BY <1>3, <3>1
    <3>3. QED
      BY <1>9, <3>1, <3>2 DEF LastFor
  <2>3. LastFor(i + 1, ch)
    BY <2>1, <2>2 DEF LastFor
  <2>4. QED
    BY <1>1, <1>3, <1>7, <2>3 DEF LastWaitingIsWish
<1>10. ASSUME ~Pending(ch)' PROVE On(relay'[ch]) <=> wish[ch] = "on"
  <2>1. \A i \in 1 .. Len(commands') : ~Affects(commands'[i], ch)
    BY <1>10 DEF Pending, Affects
  <2>2. \A j \in 1 .. Len(commands) : j # 1 => ~Affects(commands[j], ch)
    BY <1>3, <1>8, <2>1
  <2>3. CASE Affects(head, ch)
    <3>1. LastFor(1, ch) /\ 1 \in 1 .. Len(commands)
      BY <1>3, <2>2, <2>3 DEF LastFor
    <3>2. Asks(head, ch)
      BY <1>1, <1>3, <3>1 DEF LastWaitingIsWish
    <3>3. QED
      BY <1>5, <2>3, <3>2 DEF Asks
  <2>4. CASE ~Affects(head, ch)
    <3>1. ~Pending(ch)
      BY <1>3, <2>2, <2>4 DEF Pending, Affects
    <3>2. QED
      BY <1>1, <1>6, <2>4, <3>1 DEF LastWaitingIsWish
  <2>5. QED
    BY <2>3, <2>4
<1>11. QED
  BY <1>9, <1>10

LEMMA DeliveryObeys ==
  ASSUME IInv, NEW c \in Command, NEW named \in SUBSET Ch, NEW over \in BOOLEAN,
         Delivered(c, named, over),
         ~over => \A ch \in Ch : Affects(c, ch) <=> ch \in named
  PROVE  LastWaitingIsWish'
<1>1. /\ CommandTypes /\ LastWaitingIsWish /\ commands \in Seq(Command) /\ Len(commands) \in Nat
      /\ relay' = relay
  BY TypeParts, LenProperties DEF IInv, CommandTypes, Delivered, EnterDrain
<1>2. CASE UNCHANGED <<commands, wish, aliased>>
  BY <1>1, <1>2 DEF LastWaitingIsWish, Pending, LastFor, Asks
<1>3. CASE /\ commands' = Append(commands, c)
           /\ wish' = [ch \in Ch |-> IF ch \in named THEN (IF c.on THEN "on" ELSE "off") ELSE wish[ch]]
           /\ aliased' = (aliased \/ over)
  <2>1. /\ Len(commands') = Len(commands) + 1 /\ commands'[Len(commands) + 1] = c
        /\ \A i \in 1 .. Len(commands) : commands'[i] = commands[i]
    BY <1>1, <1>3, AppendProperties
  <2>2. \A i \in 1 .. Len(commands') : i \in 1 .. Len(commands) \/ i = Len(commands) + 1
    BY <1>1, <2>1
  <2>3. Len(commands) + 1 \in 1 .. Len(commands') /\ 1 .. Len(commands) \subseteq 1 .. Len(commands')
        /\ \A i \in 1 .. Len(commands) : i < Len(commands) + 1
    BY <1>1, <2>1
  <2>4. aliased' <=> aliased \/ over
    BY <1>3
  <2> SUFFICES ASSUME ~aliased', NEW ch \in Ch, wish'[ch] # "none"
               PROVE  /\ Pending(ch)' \/ (On(relay'[ch]) <=> wish'[ch] = "on")
                      /\ \A i \in 1 .. Len(commands') : LastFor(i, ch)' => (commands'[i].on <=> wish'[ch] = "on")
    BY DEF LastWaitingIsWish, Asks
  <2>5. ~aliased /\ (Affects(c, ch) <=> ch \in named)
    BY <2>4
  <2>6. CASE Affects(c, ch)
    <3>1. Pending(ch)'
      BY <2>1, <2>3, <2>6 DEF Pending, Affects
    <3>2. \A i \in 1 .. Len(commands') : LastFor(i, ch)' => i = Len(commands) + 1
      BY <2>1, <2>2, <2>3, <2>6 DEF LastFor
    <3>3. c.on <=> wish'[ch] = "on"
      BY <1>3, <2>5, <2>6 DEF Asks
    <3>4. QED
      BY <2>1, <3>1, <3>2, <3>3
  <2>7. CASE ~Affects(c, ch)
    <3>1. wish'[ch] = wish[ch]
      BY <1>3, <2>5, <2>7
    <3>2. Pending(ch) => Pending(ch)'
      BY <2>1, <2>3 DEF Pending
    <3>3. ASSUME NEW i \in 1 .. Len(commands'), LastFor(i, ch)'
          PROVE  i \in 1 .. Len(commands) /\ LastFor(i, ch)
      <4>1. i # Len(commands) + 1
        BY <2>1, <2>7, <3>3 DEF LastFor
      <4>2. i \in 1 .. Len(commands)
        BY <2>2, <4>1
      <4>3. QED
        BY <2>1, <2>3, <3>3, <4>2 DEF LastFor
    <3>4. QED
      BY <1>1, <2>1, <2>5, <3>1, <3>2, <3>3 DEF LastWaitingIsWish, Asks
  <2>8. QED
    BY <2>6, <2>7
<1>4. QED
  BY <1>2, <1>3 DEF Delivered

LEMMA WishesKeep ==
  ASSUME IInv, Next
  PROVE  LastWaitingIsWish'
<1>1. LastWaitingIsWish
  BY DEF IInv
<1>2. CASE CommandsAlone
  BY <1>1, <1>2 DEF CommandsAlone, LastWaitingIsWish, Pending, LastFor, Asks
<1>3. CASE \E ch \in Ch : Touch(ch)
  BY <1>3, TouchObeys
<1>4. CASE Obey
  BY <1>4, ObeyObeys
<1>5. CASE Restart
  BY <1>5 DEF Restart, LastWaitingIsWish
<1>6. CASE \E on \in BOOLEAN : routeAllSet(on)
  <2>1. PICK on \in BOOLEAN : routeAllSet(on)
    BY <1>6
  <2> DEFINE c == [kind |-> "SetAll", ch |-> 0, on |-> on]
  <2>2. c \in Command /\ \A ch \in Ch : Affects(c, ch)
    BY ArithmeticOfChannels DEF Command, Affects
  <2>3. Delivered(c, Ch, FALSE)
    BY <2>1 DEF routeAllSet
  <2> HIDE DEF c
  <2>4. QED
    BY <2>2, <2>3, DeliveryObeys
<1>7. CASE \E on \in BOOLEAN : \E n \in Numbers : routeChannelSet(n, on)
  <2>1. PICK on \in BOOLEAN, n \in Numbers : routeChannelSet(n, on)
    BY <1>7
  <2> DEFINE c == [kind |-> "SetChannel", ch |-> n % IdValues, on |-> on]
             named == {n} \cap Ch
             over  == n >= IdValues
  <2>2. n \in Nat /\ IdValues \in Nat
    BY ChannelsAssumption
  <2>3. c \in Command
    BY <2>2, ArithmeticOfChannels DEF Command
  <2>4. ~over => \A ch \in Ch : Affects(c, ch) <=> ch \in named
    <3>1. ~over => n % IdValues = n
      BY <2>2, ArithmeticOfChannels
    <3>2. \A ch \in Ch : Affects(c, ch) <=> ch = n % IdValues
      BY DEF Affects
    <3>3. QED
      BY <3>1, <3>2
  <2>5. Delivered(c, named, over)
    BY <2>1 DEF routeChannelSet
  <2>6. over \in BOOLEAN /\ named \in SUBSET Ch
    OBVIOUS
  <2> HIDE DEF c, named, over
  <2>7. QED
    BY <2>3, <2>4, <2>5, <2>6, DeliveryObeys
<1>8. QED
  BY <1>2, <1>3, <1>4, <1>5, <1>6, <1>7, CommandSteps

----------------------------------------------------------------------------
LEMMA InitEstablishes == Init => IInv
<1> SUFFICES ASSUME Init PROVE IInv
  OBVIOUS
<1>1. /\ QueueDepth \in Nat \ {0} /\ CommandDepth \in Nat \ {0} /\ MaxChanges \in Nat
      /\ BaseDelay \in Nat \ {0} /\ MaxDelay \in Nat /\ BaseDelay <= MaxDelay
      /\ Span(MaxDelay) \in Nat
  BY DepthAssumption, ChangesAssumption, DelayAssumption, SpanBounds
<1>2. QueueTypes
  BY <1>1, EmptySeq DEF Init, QueueTypes
<1>3. CommandTypes
  <2>1. commands \in Seq(Command) /\ Len(commands) <= CommandDepth
    BY <1>1, EmptySeq DEF Init
  <2>2. wish \in [Ch -> {"none", "on", "off"}] /\ aliased \in BOOLEAN
    BY DEF Init
  <2>3. QED
    BY <2>1, <2>2 DEF CommandTypes
<1>4. DelayTypes
  BY <1>1 DEF Init, DelayTypes
<1>5. TickTypes
  <2>1. pc \in {"idle", "greet", "loop", "drain"} /\ budget \in 0 .. QueueDepth
    BY <1>1 DEF Init
  <2>2. /\ connected \in BOOLEAN /\ reach \in BOOLEAN
        /\ session \in BOOLEAN /\ subscribed \in BOOLEAN /\ will \in BOOLEAN
        /\ yielded \in BOOLEAN /\ online \in BOOLEAN
    BY DEF Init
  <2>3. QED
    BY <2>1, <2>2 DEF TickTypes
<1>6. QueueInOrder /\ LatestIsKept
  BY <1>1 DEF Init, QueueInOrder, LatestIsKept
<1>7. LastWaitingIsWish
  BY DEF Init, LastWaitingIsWish
<1>8. OnlineIsTrue /\ SessionHasWill
  BY DEF Init, OnlineIsTrue, SessionHasWill
<1>9. QED
  BY <1>2, <1>3, <1>4, <1>5, <1>6, <1>7, <1>8, TypeParts DEF IInv

LEMMA NextKeeps ==
  ASSUME IInv, Next
  PROVE  IInv'
<1>1. QueueTypes' /\ CommandTypes' /\ DelayTypes' /\ TickTypes'
  BY QueueTypesKeep, CommandTypesKeep, DelayTypesKeep, OnlineKeeps DEF Online
<1>2. TypeOK'
  BY <1>1 DEF TypeOK, QueueTypes, CommandTypes, DelayTypes, TickTypes
<1>3. QED
  BY <1>2, RetainsKeeps, WishesKeep, OnlineKeeps DEF IInv, Retains, Online

LEMMA Inductive == IInv /\ [Next]_vars => IInv'
<1> SUFFICES ASSUME IInv, UNCHANGED vars PROVE IInv'
  BY NextKeeps
<1> USE DEF IInv, vars, control, tick, broker
<1>1. TypeOK'
  BY DEF TypeOK
<1>2. QueueInOrder' /\ LatestIsKept'
  BY DEF QueueInOrder, LatestIsKept
<1>3. LastWaitingIsWish'
  BY DEF LastWaitingIsWish, Pending, LastFor, Asks
<1>4. OnlineIsTrue' /\ SessionHasWill'
  BY DEF OnlineIsTrue, SessionHasWill
<1>5. QED
  BY <1>1, <1>2, <1>3, <1>4

----------------------------------------------------------------------------
(* The queues stay within their depths and the jittered backoff within its *)
(* band, for every base, maximum and percentage.                           *)
THEOREM TypeCorrect == Spec => []TypeOK
<1>1. IInv => TypeOK
  BY DEF IInv
<1>2. QED
  BY <1>1, InitEstablishes, Inductive, PTL DEF Spec

(* A latest change that was neither evicted, drained into a dead session   *)
(* nor lost with the RAM is what the broker retains once it has left the   *)
(* queue, for every depth of the queue (mqtt_service.h:60-62, 144-148).    *)
THEOREM LatestIsRetained == Spec => []RetainedIsLatest
<1>1. IInv => RetainedIsLatest
  BY DEF IInv, LatestIsKept, RetainedIsLatest, Queued
<1>2. QED
  BY <1>1, InitEstablishes, Inductive, PTL DEF Spec

(* Publications keep the order of the changes, so that no subscriber sees  *)
(* a relay go back (mqtt_service.h:144-148).                               *)
THEOREM RetainedMovesOn == Spec => RetainedNeverGoesBack
<1>1. IInv /\ [Next]_vars => [\A ch \in Ch : retained'[ch] >= retained[ch]]_vars
  BY RetainsKeeps
<1>2. QED
  BY <1>1, InitEstablishes, Inductive, PTL DEF Spec, RetainedNeverGoesBack

(* The retained online flag never outlives a session without a will to     *)
(* take it back, but for a yield (mqtt_service.h:84-87, 113-142).          *)
THEOREM OnlineStaysTrue == Spec => []OnlineIsTrue
<1>1. IInv => OnlineIsTrue
  BY DEF IInv
<1>2. QED
  BY <1>1, InitEstablishes, Inductive, PTL DEF Spec

(* Once no command for it waits, a channel nobody has touched since is as  *)
(* the cloud asked, for all command queues and topics that name channels   *)
(* within a ChannelId (mqtt_service.h:158-170).                            *)
THEOREM CloudIsAlwaysObeyed == Spec => []CloudIsObeyed
<1>1. IInv => CloudIsObeyed
  BY DEF IInv, LastWaitingIsWish, CloudIsObeyed
<1>2. QED
  BY <1>1, InitEstablishes, Inductive, PTL DEF Spec
==============================================================================
