------------------------------ MODULE FifoQueue ------------------------------
(***************************************************************************)
(* What a fixed-capacity queue of the firmware promises its two tasks: the *)
(* items come out once each, in the order they went in, and the overflow   *)
(* policy alone decides what a full queue loses.  Every call is atomic and *)
(* its result is part of the promise.                                      *)
(***************************************************************************)
EXTENDS Naturals, Sequences

CONSTANTS
  Item,        (* what is queued                                           *)
  Nothing,     (* the value of an untouched slot and of a failed pop       *)
  Capacity     (* the template parameter Capacity                          *)

VARIABLES
  items,       (* the queued items, oldest first                           *)
  policy,      (* "RejectWhenFull" or "DropOldest", fixed at construction  *)
  answer       (* what the last call returned                              *)

Policies == {"RejectWhenFull", "DropOldest"}

Accepted == [ok |-> TRUE,  out |-> Nothing]
Refused  == [ok |-> FALSE, out |-> Nothing]
Got(x)   == [ok |-> TRUE,  out |-> x]

Init == items = << >> /\ policy \in Policies /\ answer = Refused

Push(x) ==
  /\ policy' = policy
  /\ \/ /\ Len(items) < Capacity
        /\ items'  = Append(items, x)
        /\ answer' = Accepted
     \/ /\ Len(items) = Capacity
        /\ policy = "RejectWhenFull"
        /\ items'  = items
        /\ answer' = Refused
     \/ /\ Len(items) = Capacity
        /\ policy = "DropOldest"
        /\ items'  = Append(Tail(items), x)
        /\ answer' = Accepted

Pop ==
  /\ policy' = policy
  /\ \/ /\ items = << >>
        /\ items'  = items
        /\ answer' = Refused
     \/ /\ items # << >>
        /\ items'  = Tail(items)
        /\ answer' = Got(Head(items))

Next == Pop \/ \E x \in Item : Push(x)

Spec == Init /\ [][Next]_<<items, policy, answer>>
==============================================================================
