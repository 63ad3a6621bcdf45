----------------------------- MODULE MqttService -----------------------------
(***************************************************************************)
(* The MQTT adapter of the Net task (net/mqtt_service.h) with its          *)
(* ReconnectBackoff, topics and payloads, its two ends in the Control task *)
(* (the publish queue that task fills, the command queue it empties), and  *)
(* as much of the broker as others see: the retained state of each channel *)
(* and the retained online flag with its last will.  A publication is      *)
(* QoS 0: one handed to a session that is already dead is gone.            *)
(*                                                                         *)
(* Each push and pop is one step here, as critical_section.h requires;     *)
(* module PublishQueueRace has what happens without the guard.             *)
(***************************************************************************)
EXTENDS Integers, Sequences

CONSTANTS
  Channels,      (* how many relay channels                                *)
  IdValues,      (* how many values a ChannelId has (256)                  *)
  Numbers,       (* the channel numbers that appear in command topics      *)
  QueueDepth,    (* kPublishQueueDepth                                     *)
  CommandDepth,  (* kCommandQueueDepth                                     *)
  BaseDelay,     (* ReconnectBackoff base_, in Net cycles                  *)
  MaxDelay,      (* max_                                                   *)
  JitterPct,     (* jitterPct_                                             *)
  MaxChanges     (* bound: changes of each relay in a behaviour            *)

ASSUME ChannelsAssumption == /\ Channels \in Nat \ {0}
                             /\ IdValues \in Nat
                             /\ Channels <= IdValues
                             /\ Numbers \subseteq Nat
ASSUME DepthAssumption    == QueueDepth \in Nat \ {0} /\ CommandDepth \in Nat \ {0}
ASSUME DelayAssumption    == /\ BaseDelay \in Nat \ {0}
                             /\ MaxDelay \in Nat
                             /\ BaseDelay <= MaxDelay
ASSUME JitterAssumption   == JitterPct \in 0 .. 100
ASSUME ChangesAssumption  == MaxChanges \in Nat

VARIABLES
  relay,         (* how often each relay has changed; odd means On         *)
  news,          (* the channels changed and not yet announced             *)
  commands,      (* the command queue                                      *)
  missing,       (* history: the channel's latest change was thrown away   *)
  wish,          (* history: what the cloud last asked of each channel, if
                    nobody has touched it since                            *)
  aliased,       (* history: a number no ChannelId can hold was used       *)
  queue,         (* publishQ_                                              *)
  pc,            (* where the Net task's tick stands                       *)
  budget,        (* drainPublishes' budget                                 *)
  connected,     (* client_.connected()                                    *)
  wait,          (* cycles until ready() says yes (0: not armed, or due)   *)
  current,       (* ReconnectBackoff::current_                             *)
  reach,         (* the broker can be reached                              *)
  session,       (* the broker still serves the connection                 *)
  subscribed,    (* ... and has the subscription to cmd/#                  *)
  will,          (* the broker holds a last will it has not had to publish *)
  yielded,       (* history: the last session was ended by the device      *)
  online,        (* the retained evt/system/online                         *)
  retained       (* the change last published, per channel, at the broker  *)

control == <<relay, news, commands, missing, wish, aliased>>
tick    == <<pc, budget, connected, wait, current>>
broker  == <<session, subscribed, will, yielded, online>>
vars    == <<control, queue, tick, reach, broker, retained>>

Ch      == 0 .. Channels - 1
Change  == [ch : Ch, n : 0 .. MaxChanges]
Command == [kind : {"SetChannel", "SetAll"}, ch : 0 .. IdValues - 1, on : BOOLEAN]

On(n) == n % 2 = 1

(* The channels a command would change, and the least of a set of them.    *)
Targets(c) == {ch \in Ch : (c.kind = "SetAll" \/ c.ch = ch) /\ On(relay[ch]) # c.on}
Lowest(S)  == CHOOSE ch \in S : \A other \in S : ch <= other

(* The channels whose latest change is c.                                  *)
LatestOf(c) == {ch \in Ch : c.ch = ch /\ c.n = relay[ch]}

Span(d)       == (d * JitterPct) \div 100
Jittered(d)   == d - Span(d) .. d + Span(d)
nextDoubleUncapped(d) == 2 * d
nextDouble(d) == IF 2 * d > MaxDelay THEN MaxDelay ELSE 2 * d

Init ==
  /\ relay = [ch \in Ch |-> 0] /\ news = {} /\ commands = << >>
  /\ missing = [ch \in Ch |-> FALSE] /\ wish = [ch \in Ch |-> "none"] /\ aliased = FALSE
  /\ queue = << >> /\ pc = "idle" /\ budget = 0
  /\ connected = FALSE /\ wait = 0 /\ current = BaseDelay
  /\ reach = TRUE
  /\ session = FALSE /\ subscribed = FALSE /\ will = FALSE /\ yielded = FALSE /\ online = FALSE
  /\ retained = [ch \in Ch |-> 0]

----------------------------------------------------------------------------
(* The Control task.  A touch or a command changes relays; each change is  *)
(* then announced, lowest channel first, and the next operation waits for  *)
(* that.                                                                   *)

Pending(ch) == \E i \in 1 .. Len(commands) :
                 commands[i].kind = "SetAll" \/ commands[i].ch = ch

Switch(changed) ==
  /\ \A ch \in changed : relay[ch] < MaxChanges
  /\ relay' = [ch \in Ch |-> relay[ch] + (IF ch \in changed THEN 1 ELSE 0)]
  /\ missing' = [ch \in Ch |-> missing[ch] /\ ch \notin changed]
  /\ news' = changed
  /\ UNCHANGED <<aliased, queue, tick, reach, broker, retained>>

Touch(ch) ==
  /\ news = {}
  /\ Switch({ch})
  /\ wish' = [wish EXCEPT ![ch] = IF Pending(ch) THEN @ ELSE "none"]
  /\ UNCHANGED commands

ObeyNewestFirst ==
  /\ news = {} /\ commands # << >>
  /\ commands' = SubSeq(commands, 1, Len(commands) - 1)
  /\ Switch(Targets(commands[Len(commands)]))
  /\ UNCHANGED wish

(* The commands are taken in the order they were accepted in.              *)
Obey ==
  /\ news = {} /\ commands # << >>
  /\ commands' = Tail(commands)
  /\ Switch(Targets(Head(commands)))
  /\ UNCHANGED wish

(* onStateChanged queues the news, giving up the oldest when it is full.   *)
AnnounceDropsNewest ==
  /\ news # {}
  /\ news' = news \ {Lowest(news)}
  /\ queue' = IF Len(queue) = QueueDepth THEN queue
              ELSE Append(queue, [ch |-> Lowest(news), n |-> relay[Lowest(news)]])
  /\ UNCHANGED <<relay, commands, missing, wish, aliased, tick, reach, broker, retained>>

Announce ==
  LET ch   == Lowest(news)
      full == Len(queue) = QueueDepth
      gone == IF full THEN LatestOf(Head(queue)) ELSE {}
  IN  /\ news # {}
      /\ news' = news \ {ch}
      /\ queue' = Append(IF full THEN Tail(queue) ELSE queue, [ch |-> ch, n |-> relay[ch]])
      /\ missing' = [c \in Ch |-> missing[c] \/ c \in gone \ news]
      /\ UNCHANGED <<relay, commands, wish, aliased, tick, reach, broker, retained>>

----------------------------------------------------------------------------
(* The Net task: MqttService::tick.                                        *)

BeginConnected ==
  /\ pc = "idle"
  /\ connected
  /\ pc' = "loop"
  /\ UNCHANGED <<control, queue, budget, connected, wait, current, reach, broker, retained>>

(* Not connected: the backoff window is still open.                        *)
BackOffRearmed ==
  /\ pc = "idle"
  /\ ~connected
  /\ wait > 0
  /\ wait' \in Jittered(current)
  /\ UNCHANGED <<control, queue, pc, budget, connected, current, reach, broker, retained>>

BackOff ==
  /\ pc = "idle"
  /\ ~connected
  /\ wait > 0
  /\ wait' = wait - 1
  /\ UNCHANGED <<control, queue, pc, budget, connected, current, reach, broker, retained>>

(* attemptConnect.  The new session takes the old one's place at the       *)
(* broker, which publishes the will it still holds, and leaves its own.    *)
ConnectWithoutWill ==
  /\ pc = "idle"
  /\ ~connected /\ wait = 0 /\ reach
  /\ connected' = TRUE /\ current' = BaseDelay
  /\ pc' = "greet"
  /\ session' = TRUE /\ subscribed' = FALSE /\ yielded' = FALSE
  /\ will' = FALSE
  /\ online' = (online /\ ~will)
  /\ UNCHANGED <<control, queue, budget, wait, reach, retained>>

Connect ==
  /\ pc = "idle"
  /\ ~connected /\ wait = 0 /\ reach
  /\ connected' = TRUE /\ current' = BaseDelay
  /\ pc' = "greet"
  /\ session' = TRUE /\ subscribed' = FALSE /\ yielded' = FALSE
  /\ will' = TRUE
  /\ online' = (online /\ ~will)
  /\ UNCHANGED <<control, queue, budget, wait, reach, retained>>

ConnectFails ==
  /\ pc = "idle"
  /\ ~connected /\ wait = 0 /\ ~reach
  /\ wait' \in Jittered(current)
  /\ current' = nextDouble(current)
  /\ UNCHANGED <<control, queue, pc, budget, connected, reach, broker, retained>>

(* onConnected: online:true and the subscription, neither of them checked. *)
Greet ==
  /\ pc = "greet"
  /\ pc' = "idle"
  /\ IF session
       THEN online' = TRUE /\ subscribed' = TRUE /\ UNCHANGED connected
       ELSE connected' \in {TRUE, FALSE} /\ UNCHANGED <<online, subscribed>>
  /\ UNCHANGED <<control, queue, budget, wait, current, reach, session, will, yielded, retained>>

EnterDrain ==
  /\ pc = "loop"
  /\ pc' = "drain"
  /\ budget' = QueueDepth
  /\ UNCHANGED <<relay, news, missing, queue, wait, current, reach, online, retained>>

(* client_.loop() serves the session, or finds it dead sooner or later.    *)
Loop ==
  /\ EnterDrain
  /\ UNCHANGED <<commands, wish, aliased, session, subscribed, will, yielded>>
  /\ \/ connected' = TRUE
     \/ ~session /\ connected' = FALSE

(* It delivers a relay command: onMessage routes it to the command queue,  *)
(* which refuses it when full.  A number is cut to a ChannelId's width.    *)
Delivered(command, named, over) ==
  /\ EnterDrain
  /\ session /\ subscribed /\ connected' = TRUE
  /\ \/ /\ Len(commands) < CommandDepth
        /\ commands' = Append(commands, command)
        /\ wish' = [ch \in Ch |-> IF ch \in named THEN (IF command.on THEN "on" ELSE "off")
                                                  ELSE wish[ch]]
        /\ aliased' = (aliased \/ over)
     \/ /\ Len(commands) = CommandDepth
        /\ UNCHANGED <<commands, wish, aliased>>
  /\ UNCHANGED <<session, subscribed, will, yielded>>

routeChannelSet(n, on) ==
  Delivered([kind |-> "SetChannel", ch |-> n % IdValues, on |-> on], {n} \cap Ch, n >= IdValues)

routeAllSet(on) == Delivered([kind |-> "SetAll", ch |-> 0, on |-> on], Ch, FALSE)

(* It delivers an OTA manifest: handleOtaManifest yields the connection,   *)
(* which tells the broker to forget the will, the update is refused or     *)
(* fails, and the tick goes on.                                            *)
LoopYields ==
  /\ EnterDrain
  /\ session /\ subscribed
  /\ connected' = FALSE
  /\ session' = FALSE /\ subscribed' = FALSE /\ will' = FALSE /\ yielded' = TRUE
  /\ UNCHANGED <<commands, wish, aliased>>

(* drainPublishes, one change at a time; publish may notice a dead session.*)
DrainOneRequeues ==
  LET item == Head(queue) IN
  /\ pc = "drain" /\ budget > 0 /\ queue # << >>
  /\ budget' = budget - 1
  /\ IF connected /\ session
       THEN retained' = [retained EXCEPT ![item.ch] = item.n] /\ queue' = Tail(queue)
       ELSE queue' = Append(Tail(queue), item) /\ UNCHANGED retained
  /\ UNCHANGED <<control, connected, pc, wait, current, reach, broker>>

DrainOne ==
  LET item == Head(queue) IN
  /\ pc = "drain" /\ budget > 0 /\ queue # << >>
  /\ queue' = Tail(queue)
  /\ budget' = budget - 1
  /\ \/ /\ connected /\ session
        /\ retained' = [retained EXCEPT ![item.ch] = item.n]
        /\ UNCHANGED <<missing, connected>>
     \/ /\ ~(connected /\ session)
        /\ missing' = [ch \in Ch |-> missing[ch] \/ ch \in LatestOf(item)]
        /\ connected' \in {connected, FALSE}
        /\ UNCHANGED retained
  /\ UNCHANGED <<relay, news, commands, wish, aliased, pc, wait, current, reach, broker>>

DrainDone ==
  /\ pc = "drain"
  /\ budget = 0 \/ queue = << >>
  /\ pc' = "idle" /\ budget' = 0
  /\ UNCHANGED <<control, queue, connected, wait, current, reach, broker, retained>>

----------------------------------------------------------------------------
(* The network, the broker, and the device's own restarts.                 *)

Outage ==
  /\ reach
  /\ reach' = FALSE
  /\ session' = FALSE /\ subscribed' = FALSE
  /\ UNCHANGED <<control, queue, tick, will, yielded, online, retained>>

Recovery ==
  /\ ~reach
  /\ reach' = TRUE
  /\ UNCHANGED <<control, queue, tick, broker, retained>>

(* The keep-alive runs out on a session that is gone.                      *)
WillPublished ==
  /\ ~session /\ will
  /\ will' = FALSE
  /\ online' = FALSE
  /\ UNCHANGED <<control, queue, tick, reach, session, subscribed, yielded, retained>>

(* RAM is lost, the queues with it.  The relays come back as saved, which  *)
(* for any that was changing, or could not be saved, may be one change on. *)
Restart ==
  /\ \E back \in SUBSET {ch \in Ch : relay[ch] < MaxChanges} :
       relay' = [ch \in Ch |-> relay[ch] + (IF ch \in back THEN 1 ELSE 0)]
  /\ missing' = [ch \in Ch |-> \/ missing[ch] \/ ch \in news
                               \/ relay'[ch] # relay[ch]
                               \/ \E i \in 1 .. Len(queue) : ch \in LatestOf(queue[i])]
  /\ news' = {} /\ commands' = << >> /\ wish' = [ch \in Ch |-> "none"] /\ aliased' = FALSE
  /\ queue' = << >> /\ pc' = "idle" /\ budget' = 0
  /\ connected' = FALSE /\ wait' = 0 /\ current' = BaseDelay
  /\ session' = FALSE /\ subscribed' = FALSE
  /\ UNCHANGED <<reach, will, yielded, online, retained>>

NetTask ==
  \/ BeginConnected \/ BackOff \/ Connect \/ ConnectFails \/ Greet
  \/ Loop \/ LoopYields \/ DrainOne \/ DrainDone
  \/ \E on \in BOOLEAN : routeAllSet(on) \/ \E n \in Numbers : routeChannelSet(n, on)

ControlTask == Obey \/ Announce \/ \E ch \in Ch : Touch(ch)

Next == NetTask \/ ControlTask \/ Outage \/ Recovery \/ WillPublished \/ Restart

(* The Net task has the lowest priority, but the Control task sleeps most  *)
(* of each 10 ms cycle, so it keeps getting its turn.                      *)
Spec == Init /\ [][Next]_vars /\ WF_vars(NetTask)

----------------------------------------------------------------------------
(* Type invariant: the queues are bounded, the delay stays in its band.    *)
TypeOK ==
  /\ relay \in [Ch -> 0 .. MaxChanges] /\ retained \in [Ch -> 0 .. MaxChanges]
  /\ news \subseteq Ch
  /\ commands \in Seq(Command) /\ Len(commands) <= CommandDepth
  /\ missing \in [Ch -> BOOLEAN] /\ wish \in [Ch -> {"none", "on", "off"}]
  /\ aliased \in BOOLEAN
  /\ queue \in Seq(Change) /\ Len(queue) <= QueueDepth
  /\ pc \in {"idle", "greet", "loop", "drain"} /\ budget \in 0 .. QueueDepth
  /\ connected \in BOOLEAN /\ reach \in BOOLEAN
  /\ session \in BOOLEAN /\ subscribed \in BOOLEAN /\ will \in BOOLEAN
  /\ yielded \in BOOLEAN /\ online \in BOOLEAN
  /\ current \in BaseDelay .. MaxDelay
  /\ wait \in 0 .. MaxDelay + Span(MaxDelay)

(* A subscriber never sees a channel go back to an earlier state: across   *)
(* overflows, lost sessions and restarts, publications keep the order in   *)
(* which the relays changed (mqtt_service.h:60-62, 144-148).               *)
RetainedNeverGoesBack == [][\A ch \in Ch : retained'[ch] >= retained[ch]]_vars

(* What the broker retains is the relay's state unless the latest change   *)
(* is being announced, still queued, or was thrown away in one of three    *)
(* ways: evicted by newer changes, drained into a dead connection, or lost *)
(* with the RAM.                                                           *)
Queued(ch) == \E i \in 1 .. Len(queue) : queue[i].ch = ch
RetainedIsLatest ==
  \A ch \in Ch : ~missing[ch] /\ ch \notin news /\ ~Queued(ch) => retained[ch] = relay[ch]

(* The retained online flag: a session past its greeting is announced and  *)
(* hears commands, and nobody is left believing in a session that is gone: *)
(* its will is still to come, unless the device itself hung up for an      *)
(* update (mqtt_service.h:84-87, 113-142).                                 *)
OnlineIsTrue ==
  /\ session /\ pc # "greet" => online /\ subscribed
  /\ online => session \/ will \/ yielded

(* What the last accepted command asked of a channel is how the relay      *)
(* stands, once no command for it waits and until somebody touches it:     *)
(* whatever commands and touches came between its acceptance and its turn  *)
(* (mqtt_service.h:158-170, control_coordinator.h:91-104).  A command that *)
(* the full queue refused asks nothing, and it takes that no topic has     *)
(* named a number beyond a ChannelId (mqtt_topics.h:73).                   *)
CloudIsObeyed ==
  ~aliased => \A ch \in Ch : wish[ch] # "none" /\ ~Pending(ch) =>
                              (On(relay[ch]) <=> wish[ch] = "on")

(* Once the broker can be reached for good the service connects, however   *)
(* long the outage made the backoff, and works the queue off               *)
(* (mqtt_service.h:90-98, reconnect_backoff.h:43-45).                      *)
CatchesUp == <>[]reach => []<>(connected /\ queue = << >>)
==============================================================================
