-------------------------- MODULE BoundedQueue_proofs --------------------------
(***************************************************************************)
(* BoundedQueue keeps its ring consistent and implements FifoQueue, for    *)
(* every capacity, item set and overflow policy.                           *)
(***************************************************************************)
EXTENDS BoundedQueue, SequenceTheorems, TLAPS

(* The slot after the last one is the first one (bounded_queue.h:62).      *)
LEMMA NextWraps ==
  ASSUME NEW i \in Slots
  PROVE  next(i) = IF i = Capacity - 1 THEN 0 ELSE i + 1
BY CapacityAssumption, SMT DEF Slots, next

LEMMA NextInSlots ==
  ASSUME NEW i \in Slots
  PROVE  next(i) \in Slots
BY NextWraps, CapacityAssumption, SMT DEF Slots

LEMMA SlotInSlots ==
  ASSUME NEW h \in Slots, NEW k \in Slots
  PROVE  SlotOf(h, k) \in Slots
BY CapacityAssumption, SMT DEF Slots, SlotOf

(* Different ages live in different slots.                                 *)
LEMMA SlotInjective ==
  ASSUME NEW h \in Slots, NEW j \in 0 .. Capacity, NEW k \in Slots,
         j # k, ~(j = Capacity /\ k = 0)
  PROVE  SlotOf(h, j) # SlotOf(h, k)
BY CapacityAssumption, SMT DEF Slots, SlotOf

(* Moving the head on by one makes every item one place older.             *)
LEMMA SlotShift ==
  ASSUME NEW h \in Slots, NEW k \in Slots
  PROVE  SlotOf(next(h), k) = SlotOf(h, k + 1)
BY NextWraps, CapacityAssumption, SMT DEF Slots, SlotOf

LEMMA NextOfSlot ==
  ASSUME NEW h \in Slots, NEW k \in Slots
  PROVE  next(SlotOf(h, k)) = SlotOf(h, k + 1)
BY NextWraps, SlotInSlots, CapacityAssumption, SMT DEF Slots, SlotOf

LEMMA SlotOfEnds ==
  ASSUME NEW h \in Slots
  PROVE  SlotOf(h, 0) = h /\ SlotOf(h, Capacity) = h
BY CapacityAssumption, SMT DEF Slots, SlotOf

IInv == TypeOK /\ RingConsistent

LEMMA InitInv == Init => IInv
BY CapacityAssumption, SMT DEF Init, IInv, TypeOK, RingConsistent, Slots, SlotOf, Refused

LEMMA NextInv == IInv /\ [Next]_vars => IInv'
<1> SUFFICES ASSUME IInv, [Next]_vars PROVE IInv'
  OBVIOUS
<1> USE CapacityAssumption DEF IInv
<1>1. ASSUME NEW x \in Item, PushEvicting(x) PROVE IInv'
  <2>1. next(head) \in Slots /\ next(tail) \in Slots
    BY NextInSlots DEF TypeOK
  <2>2. TypeOK'
    BY <1>1, <2>1 DEF PushEvicting, TypeOK, Accepted
  <2>3. tail = head
    BY <1>1, SlotOfEnds DEF PushEvicting, full, RingConsistent, TypeOK
  <2>4. tail' = SlotOf(head, count)'
    BY <1>1, <2>1, <2>3, SlotOfEnds DEF PushEvicting, full, TypeOK
  <2>5. ASSUME NEW k \in Slots PROVE buf'[SlotOf(head', k)] \in Item
    <3>1. SlotOf(head', k) = SlotOf(head, k + 1)
      BY <1>1, SlotShift DEF PushEvicting, TypeOK
    <3>2. CASE k + 1 = Capacity
      <4>1. SlotOf(head', k) = tail
        BY <3>1, <3>2, <2>3, SlotOfEnds DEF TypeOK
      <4>2. QED
        BY <4>1, <1>1 DEF PushEvicting, TypeOK
    <3>3. CASE k + 1 # Capacity
      <4>1. k + 1 \in Slots
        BY <3>3 DEF Slots
      <4>2. SlotOf(head, k + 1) \in Slots /\ SlotOf(head, k + 1) # tail
        <5>1. 0 \in Slots /\ k + 1 \in 0 .. Capacity /\ k + 1 # 0
          BY <4>1 DEF Slots
        <5>2. SlotOf(head, k + 1) # SlotOf(head, 0)
          BY <5>1, <3>3, SlotInjective DEF TypeOK
        <5>3. QED
          BY <4>1, <5>2, <2>3, SlotInSlots, SlotOfEnds DEF TypeOK
      <4>3. buf[SlotOf(head, k + 1)] \in Item
        BY <4>1, <1>1 DEF RingConsistent, PushEvicting, full, Slots
      <4>4. QED
        BY <3>1, <4>2, <4>3, <1>1 DEF PushEvicting, TypeOK
    <3>4. QED
      BY <3>2, <3>3
  <2>6. QED
    BY <2>2, <2>4, <2>5 DEF RingConsistent
<1>2. ASSUME NEW x \in Item, PushStored(x) PROVE IInv'
  <2>1. count \in Slots /\ count + 1 \in 0 .. Capacity
    BY <1>2 DEF PushStored, full, TypeOK, Slots
  <2>2. TypeOK'
    BY <1>2, <2>1, NextInSlots DEF PushStored, TypeOK, Accepted
  <2>3. tail' = SlotOf(head, count)'
    BY <1>2, <2>1, NextOfSlot DEF PushStored, RingConsistent, TypeOK
  <2>4. ASSUME NEW k \in Slots, k < count + 1 PROVE buf'[SlotOf(head, k)] \in Item
    <3>1. SlotOf(head, k) \in Slots
      BY SlotInSlots DEF TypeOK
    <3>2. CASE k = count
      BY <3>1, <3>2, <1>2 DEF PushStored, RingConsistent, TypeOK
    <3>3. CASE k # count
      <4>1. SlotOf(head, k) # tail
        BY <3>3, <2>1, SlotInjective DEF RingConsistent, TypeOK, Slots
      <4>2. buf[SlotOf(head, k)] \in Item
        BY <3>3, <2>4 DEF RingConsistent, TypeOK, Slots
      <4>3. QED
        BY <3>1, <4>1, <4>2, <1>2 DEF PushStored, TypeOK
    <3>4. QED
      BY <3>2, <3>3
  <2>5. QED
    BY <2>2, <2>3, <2>4, <1>2 DEF RingConsistent, PushStored
<1>3. ASSUME PushRejected PROVE IInv'
  BY <1>3 DEF PushRejected, TypeOK, RingConsistent, Refused
<1>4. ASSUME PopEmpty PROVE IInv'
  BY <1>4 DEF PopEmpty, TypeOK, RingConsistent, Refused
<1>5. ASSUME PopOldest PROVE IInv'
  <2>1. count \in 1 .. Capacity /\ count - 1 \in Slots
    BY <1>5 DEF PopOldest, empty, TypeOK, Slots
  <2>2. TypeOK'
    <3>1. buf[head] \in Item \cup {Nothing} /\ next(head) \in Slots
      BY NextInSlots DEF TypeOK
    <3>2. QED
      BY <1>5, <2>1, <3>1 DEF PopOldest, TypeOK, Got, Slots
  <2>3. tail' = SlotOf(head, count)'
    <3>1. SlotOf(next(head), count - 1) = SlotOf(head, (count - 1) + 1)
      BY <2>1, SlotShift DEF TypeOK
    <3>2. (count - 1) + 1 = count
      BY <2>1
    <3>3. QED
      BY <1>5, <3>1, <3>2 DEF PopOldest, RingConsistent
  <2>4. ASSUME NEW k \in Slots, k < count - 1 PROVE buf[SlotOf(next(head), k)] \in Item
    <3>1. k + 1 \in Slots /\ k + 1 < count
      BY <2>1, <2>4 DEF Slots
    <3>2. QED
      BY <3>1, SlotShift DEF RingConsistent, TypeOK
  <2>5. QED
    BY <2>2, <2>3, <2>4, <1>5 DEF RingConsistent, PopOldest
<1>6. CASE UNCHANGED vars
  BY <1>6 DEF vars, TypeOK, RingConsistent
<1>7. QED
  BY <1>1, <1>2, <1>3, <1>4, <1>5, <1>6 DEF Next
(* The type invariant holds of every reachable state, for every capacity.  *)
THEOREM TypeCorrect == Spec => []TypeOK
<1>1. IInv => TypeOK
  BY DEF IInv
<1>2. QED
  BY InitInv, NextInv, <1>1, PTL DEF Spec

(* The bookkeeping of the ring never drifts, for every capacity, item set  *)
(* and policy: tail stays count slots ahead of head and every counted slot *)
(* holds a pushed item (bounded_queue.h:36-62).                            *)
THEOREM RingStaysConsistent == Spec => []RingConsistent
<1>1. IInv => RingConsistent
  BY DEF IInv
<1>2. QED
  BY InitInv, NextInv, <1>1, PTL DEF Spec

(***************************************************************************)
(* The refinement.  Contents is a sequence of items, and each ring         *)
(* operation changes it as the abstract operation does.                    *)
(***************************************************************************)
LEMMA ContentsSeq ==
  ASSUME IInv
  PROVE  /\ Contents \in Seq(Item)
         /\ Len(Contents) = count
         /\ DOMAIN Contents = 1 .. count
<1>1. count \in Nat
  BY CapacityAssumption DEF IInv, TypeOK
<1>2. ASSUME NEW k \in 1 .. count PROVE buf[SlotOf(head, k - 1)] \in Item
  <2>1. k - 1 \in Slots /\ k - 1 < count
    BY CapacityAssumption DEF IInv, TypeOK, Slots
  <2>2. QED
    BY <2>1 DEF IInv, RingConsistent
<1>3. Contents \in [1 .. count -> Item]
  BY <1>2 DEF Contents
<1>4. QED
  BY <1>1, <1>3

(* A function from 1 .. n is a sequence of length n.                        *)
LEMMA FcnIsSeq ==
  ASSUME NEW n \in Nat, NEW f \in [1 .. n -> Item]
  PROVE  f \in Seq(Item) /\ Len(f) = n
OBVIOUS

(* Storing below capacity appends.                                         *)
LEMMA StoreAppends ==
  ASSUME IInv, NEW x \in Item, PushStored(x)
  PROVE  Contents' = Append(Contents, x)
<1> USE CapacityAssumption
<1>1. count \in Slots /\ count + 1 \in 0 .. Capacity /\ count \in Nat
  BY DEF PushStored, full, IInv, TypeOK, Slots
<1>2. /\ Append(Contents, x) \in Seq(Item)
      /\ Len(Append(Contents, x)) = count + 1
      /\ \A k \in 1 .. count + 1 :
           Append(Contents, x)[k] = IF k = count + 1 THEN x ELSE Contents[k]
  BY <1>1, ContentsSeq, AppendProperties
<1>3. ASSUME NEW k \in 1 .. count + 1
      PROVE  buf'[SlotOf(head, k - 1)] = IF k = count + 1 THEN x ELSE Contents[k]
  <2>1. k - 1 \in Slots
    BY <1>1 DEF Slots
  <2>2. SlotOf(head, k - 1) \in Slots /\ tail \in Slots /\ buf \in [Slots -> Item \cup {Nothing}]
    BY <2>1, SlotInSlots DEF IInv, TypeOK
  <2>3. CASE k = count + 1
    <3>1. SlotOf(head, k - 1) = tail
      BY <2>3, <1>1 DEF IInv, RingConsistent
    <3>2. QED
      BY <2>2, <2>3, <3>1 DEF PushStored
  <2>4. CASE k # count + 1
    <3>1. k \in 1 .. count /\ k - 1 # count
      BY <2>4, <1>1
    <3>2. SlotOf(head, count) # SlotOf(head, k - 1)
      BY <2>1, <3>1, <1>1, SlotInjective DEF IInv, TypeOK, Slots
    <3>3. SlotOf(head, k - 1) # tail
      BY <3>2 DEF IInv, RingConsistent
    <3>4. Contents[k] = buf[SlotOf(head, k - 1)]
      BY <3>1 DEF Contents
    <3>5. QED
      BY <2>2, <2>4, <3>3, <3>4 DEF PushStored
  <2>5. QED
    BY <2>3, <2>4
<1>4. Contents' = [k \in 1 .. count + 1 |-> buf'[SlotOf(head, k - 1)]]
  BY DEF PushStored, Contents
<1>5. Contents' \in Seq(Item) /\ Len(Contents') = count + 1
  <2>1. ASSUME NEW k \in 1 .. count + 1 PROVE buf'[SlotOf(head, k - 1)] \in Item
    <3>1. k # count + 1 => k \in 1 .. count
      BY <1>1
    <3>2. QED
      BY <3>1, <1>3, ContentsSeq
  <2>2. QED
    BY <1>1, <1>4, <2>1, FcnIsSeq
<1>6. QED
  BY <1>2, <1>3, <1>4, <1>5, SeqEqual

(* Removing the oldest item is Tail, and what is removed is Head.          *)
LEMMA PopTails ==
  ASSUME IInv, PopOldest
  PROVE  Contents' = Tail(Contents) /\ buf[head] = Head(Contents) /\ Contents # << >>
<1> USE CapacityAssumption
<1>1. count \in 1 .. Capacity /\ count - 1 \in Nat
  BY DEF PopOldest, empty, IInv, TypeOK
<1>2. Contents # << >> /\ Head(Contents) = Contents[1]
  BY <1>1, ContentsSeq
<1>3. Contents[1] = buf[head]
  BY <1>1, SlotOfEnds DEF Contents, IInv, TypeOK
<1>4. /\ Tail(Contents) \in Seq(Item)
      /\ Len(Tail(Contents)) = count - 1
      /\ \A k \in 1 .. count - 1 : Tail(Contents)[k] = Contents[k + 1]
  BY <1>1, <1>2, ContentsSeq, HeadTailProperties
<1>5. ASSUME NEW k \in 1 .. count - 1
      PROVE  buf[SlotOf(next(head), k - 1)] = Contents[k + 1]
  <2>1. k - 1 \in Slots /\ (k - 1) + 1 = (k + 1) - 1 /\ k + 1 \in 1 .. count
    BY <1>1 DEF Slots
  <2>2. SlotOf(next(head), k - 1) = SlotOf(head, (k - 1) + 1)
    BY <2>1, SlotShift DEF IInv, TypeOK
  <2>3. QED
    BY <2>1, <2>2 DEF Contents
<1>6. Contents' = [k \in 1 .. count - 1 |-> buf[SlotOf(next(head), k - 1)]]
  BY DEF PopOldest, Contents
<1>7. Contents' \in Seq(Item) /\ Len(Contents') = count - 1
  <2>1. ASSUME NEW k \in 1 .. count - 1 PROVE buf[SlotOf(next(head), k - 1)] \in Item
    BY <1>1, <1>5, ContentsSeq
  <2>2. QED
    BY <1>1, <1>6, <2>1, FcnIsSeq
<1>8. QED
  BY <1>2, <1>3, <1>4, <1>5, <1>6, <1>7, SeqEqual

(* Evicting removes the oldest item and appends the new one.               *)
LEMMA EvictShifts ==
  ASSUME IInv, NEW x \in Item, PushEvicting(x)
  PROVE  Contents' = Append(Tail(Contents), x)
<1> USE CapacityAssumption
<1>1. count = Capacity /\ count \in Nat \ {0} /\ tail = head
  BY SlotOfEnds DEF PushEvicting, full, IInv, TypeOK, RingConsistent
<1>2. Contents # << >>
  BY <1>1, ContentsSeq
<1>3. /\ Tail(Contents) \in Seq(Item)
      /\ Len(Tail(Contents)) = count - 1
      /\ \A k \in 1 .. count - 1 : Tail(Contents)[k] = Contents[k + 1]
  BY <1>1, <1>2, ContentsSeq, HeadTailProperties
<1>4. /\ Append(Tail(Contents), x) \in Seq(Item)
      /\ Len(Append(Tail(Contents), x)) = count
      /\ \A k \in 1 .. count :
           Append(Tail(Contents), x)[k] = IF k = count THEN x ELSE Contents[k + 1]
  BY <1>1, <1>3, AppendProperties
<1>5. ASSUME NEW k \in 1 .. count
      PROVE  buf'[SlotOf(next(head), k - 1)] = IF k = count THEN x ELSE Contents[k + 1]
  <2>1. k - 1 \in Slots /\ (k - 1) + 1 = k
    BY <1>1 DEF Slots
  <2>2. SlotOf(next(head), k - 1) = SlotOf(head, k)
    BY <2>1, SlotShift DEF IInv, TypeOK
  <2>3. /\ head \in Slots
        /\ tail \in Slots
        /\ buf \in [Slots -> Item \cup {Nothing}]
    BY DEF IInv, TypeOK
  <2>4. CASE k = count
    <3>1. SlotOf(head, k) = tail
      BY <2>3, <2>4, <1>1, SlotOfEnds
    <3>2. QED
      BY <2>2, <2>3, <2>4, <3>1 DEF PushEvicting
  <2>5. CASE k # count
    <3>1. k \in Slots /\ 0 \in Slots /\ k \in 0 .. Capacity /\ k # 0 /\ k # Capacity
      BY <2>5, <1>1 DEF Slots
    <3>2. SlotOf(head, k) # SlotOf(head, 0)
      BY <2>3, <3>1, SlotInjective
    <3>3. SlotOf(head, k) \in Slots /\ SlotOf(head, k) # tail
      BY <2>3, <3>1, <3>2, <1>1, SlotInSlots, SlotOfEnds
    <3>4. Contents[k + 1] = buf[SlotOf(head, k)]
      <4>1. k + 1 \in 1 .. count /\ (k + 1) - 1 = k
        BY <2>5, <1>1
      <4>2. QED
        BY <4>1 DEF Contents
    <3>5. QED
      BY <2>2, <2>3, <2>5, <3>3, <3>4 DEF PushEvicting
  <2>6. QED
    BY <2>4, <2>5
<1>6. Contents' = [k \in 1 .. count |-> buf'[SlotOf(next(head), k - 1)]]
  BY DEF PushEvicting, Contents
<1>7. Contents' \in Seq(Item) /\ Len(Contents') = count
  <2>1. ASSUME NEW k \in 1 .. count PROVE buf'[SlotOf(next(head), k - 1)] \in Item
    BY <1>1, <1>5, ContentsSeq
  <2>2. QED
    BY <1>1, <1>6, <2>1, FcnIsSeq
<1>8. QED
  BY <1>4, <1>5, <1>6, <1>7, SeqEqual

LEMMA RefinesInit == Init => Fifo!Init
<1> SUFFICES ASSUME Init PROVE Fifo!Init
  OBVIOUS
<1>1. Contents = << >>
  BY DEF Init, Contents
<1>2. QED
  BY <1>1 DEF Init, Fifo!Init, Refused, Fifo!Refused, Policies, Fifo!Policies

LEMMA RefinesNext == IInv /\ [Next]_vars => [Fifo!Next]_<<Contents, policy, answer>>
<1> SUFFICES ASSUME IInv, [Next]_vars PROVE [Fifo!Next]_<<Contents, policy, answer>>
  OBVIOUS
<1>1. Len(Contents) = count /\ Contents \in Seq(Item) /\ count \in 0 .. Capacity /\ Capacity \in Nat \ {0}
  BY ContentsSeq, CapacityAssumption DEF IInv, TypeOK
<1>2. ASSUME NEW x \in Item, PushEvicting(x) PROVE Fifo!Push(x)
  BY <1>1, <1>2, EvictShifts DEF PushEvicting, full, Fifo!Push, Accepted, Fifo!Accepted
<1>3. ASSUME NEW x \in Item, PushStored(x) PROVE Fifo!Push(x)
  <2>1. Len(Contents) < Capacity
    BY <1>1, <1>3 DEF PushStored, full
  <2>2. QED
    BY <1>3, <2>1, StoreAppends DEF PushStored, Fifo!Push, Accepted, Fifo!Accepted
<1>4. ASSUME PushRejected PROVE \A x \in Item : Fifo!Push(x)
  <2>1. Contents' = Contents
    BY <1>4 DEF PushRejected, Contents
  <2>2. QED
    BY <1>1, <1>4, <2>1 DEF PushRejected, full, Fifo!Push, Refused, Fifo!Refused
<1>5. ASSUME PopEmpty PROVE Fifo!Pop
  <2>1. Contents' = Contents
    BY <1>5 DEF PopEmpty, Contents
  <2>2. Contents = << >>
    BY <1>1, <1>5 DEF PopEmpty, empty
  <2>3. QED
    BY <1>5, <2>1, <2>2 DEF PopEmpty, Fifo!Pop, Refused, Fifo!Refused
<1>6. ASSUME PopOldest PROVE Fifo!Pop
  BY <1>6, PopTails DEF PopOldest, Fifo!Pop, Got, Fifo!Got
<1>7. CASE UNCHANGED vars
  BY <1>7 DEF vars, Contents
<1>8. CASE PushRejected
  <2>1. CASE Item # {}
    BY <1>4, <1>8, <2>1 DEF Fifo!Next
  <2>2. CASE Item = {}
    BY <1>1, <1>8, <2>2, ContentsSeq DEF PushRejected, full, IInv, RingConsistent
  <2>3. QED
    BY <2>1, <2>2
<1>9. QED
  BY <1>2, <1>3, <1>5, <1>6, <1>7, <1>8 DEF Next, Fifo!Next

(* The ring buffer implements the abstract queue for every capacity, item  *)
(* set and policy: no call loses, repeats, reorders or invents an item     *)
(* beyond what the policy says (bounded_queue.h:36-53).                    *)
THEOREM RingImplementsFifo == Spec => FifoSpec
<1>1. Spec => []IInv
  BY InitInv, NextInv, PTL DEF Spec
<1>2. QED
  BY <1>1, RefinesInit, RefinesNext, PTL DEF Spec, FifoSpec, Fifo!Spec
==============================================================================
