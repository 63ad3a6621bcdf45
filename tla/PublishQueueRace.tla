--------------------------- MODULE PublishQueueRace ---------------------------
(***************************************************************************)
(* MqttService::publishQ_ as the two tasks really share it: a bare         *)
(* BoundedQueue (net/mqtt_service.h:42, 176), without the critical section *)
(* SyncQueue puts round every access to the command queue.  The Control    *)
(* task pushes (onStateChanged) and has the higher priority on the single  *)
(* core, so a push is never interrupted; the Net task pops, and a push may *)
(* come between any two of the pop's loads and stores.                     *)
(***************************************************************************)
EXTENDS Naturals, Sequences

CONSTANTS Item, Nothing, Capacity         (* as in module BoundedQueue     *)

VARIABLES
  buf, head, tail, count,   (* the fields of the ring                      *)
  pc,                       (* what the Net task's pop does next           *)
  reg,                      (* the index or count it has loaded            *)
  owed                      (* history: pushed, not popped and not evicted *)

ring == <<buf, head, tail, count>>
vars == <<ring, pc, reg, owed>>

Slots   == 0 .. Capacity - 1
next(i) == (i + 1) % Capacity

Init ==
  /\ buf = [i \in Slots |-> Nothing]
  /\ head = 0 /\ tail = 0 /\ count = 0
  /\ pc = "out" /\ reg = 0
  /\ owed = << >>

(* The Control task: push of a DropOldest queue, popInternal included.     *)
Push(x) ==
  LET full == count = Capacity IN
  /\ head'  = IF full THEN next(head) ELSE head
  /\ buf'   = [buf EXCEPT ![tail] = x]
  /\ tail'  = next(tail)
  /\ count' = IF full THEN count ELSE count + 1
  /\ owed'  = Append(IF Len(owed) = Capacity THEN Tail(owed) ELSE owed, x)
  /\ UNCHANGED <<pc, reg>>

(* The Net task: pop, one memory access at a time in source order.         *)
PopBegins ==                                  (* if (empty()) return false *)
  /\ pc = "out"
  /\ count # 0
  /\ pc' = "copy"
  /\ UNCHANGED <<ring, reg, owed>>

CopyOut ==                                               (* out = buf_[head_] *)
  /\ pc = "copy"
  /\ pc' = "loadHead"
  /\ owed' = IF owed = << >> THEN owed ELSE Tail(owed)
  /\ UNCHANGED <<ring, reg>>

LoadHead ==
  /\ pc = "loadHead"
  /\ reg' = head
  /\ pc' = "storeHead"
  /\ UNCHANGED <<ring, owed>>

StoreHead ==                                         (* head_ = next(head_) *)
  /\ pc = "storeHead"
  /\ head' = next(reg)
  /\ pc' = "loadCount"
  /\ UNCHANGED <<buf, tail, count, reg, owed>>

LoadCount ==
  /\ pc = "loadCount"
  /\ reg' = count
  /\ pc' = "storeCount"
  /\ UNCHANGED <<ring, owed>>

StoreCount ==                                                   (* --count_ *)
  /\ pc = "storeCount"
  /\ count' = reg - 1
  /\ pc' = "out"
  /\ UNCHANGED <<buf, head, tail, reg, owed>>

Next ==
  \/ \E x \in Item : Push(x)
  \/ PopBegins \/ CopyOut \/ LoadHead \/ StoreHead \/ LoadCount \/ StoreCount

Spec == Init /\ [][Next]_vars

Contents == [k \in 1 .. count |-> buf[(head + k - 1) % Capacity]]

(* Between two pops the queue holds exactly the state changes that were    *)
(* queued and neither taken nor evicted, so that each is published         *)
(* (mqtt_service.h:10-12).                                                 *)
NoChangeVanishes == pc = "out" => Contents = owed
==============================================================================
