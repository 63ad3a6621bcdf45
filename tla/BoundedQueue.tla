----------------------------- MODULE BoundedQueue -----------------------------
(***************************************************************************)
(* The ring buffer behind every queue of the firmware                      *)
(* (platform/bounded_queue.h), called one operation at a time: SyncQueue   *)
(* (platform/sync_queue.h) wraps each call in a critical section, so a     *)
(* call is one step here.  Calls that are not so wrapped are the subject   *)
(* of module PublishQueueRace.                                             *)
(***************************************************************************)
EXTENDS Naturals, Sequences

CONSTANTS Item, Nothing, Capacity

ASSUME CapacityAssumption == Capacity \in Nat \ {0}
ASSUME NothingAssumption  == Nothing \notin Item

VARIABLES buf, head, tail, count, policy, answer

vars == <<buf, head, tail, count, policy, answer>>

Slots    == 0 .. Capacity - 1
Policies == {"RejectWhenFull", "DropOldest"}

Accepted == [ok |-> TRUE,  out |-> Nothing]
Refused  == [ok |-> FALSE, out |-> Nothing]
Got(x)   == [ok |-> TRUE,  out |-> x]

nextUnwrapped(i) == i + 1
next(i)          == (i + 1) % Capacity

empty == count = 0
full  == count = Capacity

Init ==
  /\ buf = [i \in Slots |-> Nothing]
  /\ head = 0
  /\ tail = 0
  /\ count = 0
  /\ policy \in Policies
  /\ answer = Refused

(* push: a full queue either refuses the item or gives up its oldest one.  *)
PushRejected ==
  /\ full
  /\ policy = "RejectWhenFull"
  /\ answer' = Refused
  /\ UNCHANGED <<buf, head, tail, count, policy>>

PushEvictingHeadKept(x) ==
  /\ full
  /\ policy = "DropOldest"
  /\ buf'    = [buf EXCEPT ![tail] = x]
  /\ tail'   = next(tail)
  /\ answer' = Accepted
  /\ UNCHANGED <<head, count, policy>>

PushEvicting(x) ==
  /\ full
  /\ policy = "DropOldest"
  /\ head'   = next(head)
  /\ buf'    = [buf EXCEPT ![tail] = x]
  /\ tail'   = next(tail)
  /\ answer' = Accepted
  /\ UNCHANGED <<count, policy>>          (* popInternal took one, push adds one *)

PushStored(x) ==
  /\ ~full
  /\ buf'    = [buf EXCEPT ![tail] = x]
  /\ tail'   = next(tail)
  /\ count'  = count + 1
  /\ answer' = Accepted
  /\ UNCHANGED <<head, policy>>

PopEmpty ==
  /\ empty
  /\ answer' = Refused
  /\ UNCHANGED <<buf, head, tail, count, policy>>

PopOldest ==
  /\ ~empty
  /\ answer' = Got(buf[head])
  /\ head'   = next(head)
  /\ count'  = count - 1
  /\ UNCHANGED <<buf, tail, policy>>

Next ==
  \/ \E x \in Item : PushEvicting(x) \/ PushStored(x)
  \/ PushRejected
  \/ PopEmpty
  \/ PopOldest

Spec == Init /\ [][Next]_vars

(***************************************************************************)
(* The abstract queue this implements.  SlotOf(h, k) is the slot of the    *)
(* k-th oldest item (from 0), counted round the ring from head h.          *)
(***************************************************************************)
SlotOf(h, k) == IF h + k < Capacity THEN h + k ELSE (h + k) - Capacity
Contents     == [k \in 1 .. count |-> buf[SlotOf(head, k - 1)]]

Fifo == INSTANCE FifoQueue WITH items <- Contents

(* The ring implements the abstract queue: every push and pop has, for its *)
(* caller, exactly the effect and the result the policy documents, however *)
(* often head and tail have wrapped (bounded_queue.h:36-53).               *)
FifoSpec == Fifo!Spec

(* Type invariant: indices stay in the ring and count within capacity.     *)
TypeOK ==
  /\ buf \in [Slots -> Item \cup {Nothing}]
  /\ head \in Slots
  /\ tail \in Slots
  /\ count \in 0 .. Capacity
  /\ policy \in Policies
  /\ answer \in [ok : BOOLEAN, out : Item \cup {Nothing}]

(* head, tail and count describe the same region (the tail is count slots  *)
(* ahead of the head), and every slot of that region holds a pushed item:  *)
(* a pop never returns an untouched slot (bounded_queue.h:61-65).          *)
RingConsistent ==
  /\ tail = SlotOf(head, count)
  /\ \A k \in Slots : k < count => buf[SlotOf(head, k)] \in Item
==============================================================================
