---------------------------- MODULE BatcherProofs ----------------------------
(***************************************************************************)
(* Machine-checked proofs about Batcher, for any number of producers and   *)
(* flushers, any ring of at least two buffers and any buffer length.       *)
(*                                                                         *)
(* The argument: the sealed buffers are exactly a cyclic interval that     *)
(* ends at the active buffer and begins at the oldest undrained one.       *)
(* Rotation extends it at its end, draining shortens it at its start, and  *)
(* the tests of rotate_buffer keep the two from meeting.  A producer past  *)
(* its rechecks is inside the interval or on the active buffer, so that a  *)
(* flusher past its wait can never be on the same one.                     *)
(***************************************************************************)
EXTENDS Batcher, TLAPS

Checks == {"r_index", "r_adding", "r_seal", "r_swap"}
Rotating == Checks \cup {"r_sealed", "r_fail"}

\* A producer that found its buffer active after incrementing `adding`.
Bound(p) == pc[p] \in {"resealed", "slot", "write", "rotated", "stuck"} \cup Rotating
Holding(p) == Bound(p) \/ pc[p] \in {"recheck", "undo"}

\* A flusher that has seen `adding` at zero and not yet reopened the buffer.
Draining(f) == pc[f] \in {"take", "read", "unseal"}
\* A flusher that works on the oldest buffer.
OnDrain(f) == Draining(f) \/ pc[f] \in {"active", "count", "wait", "rotated",
                                        "stuck", "advance"} \cup Rotating

\* The oldest undrained buffer: drain_idx, or its successor once the buffer
\* at drain_idx has been reopened.
Oldest == IF \E f \in Flushers : At(f, "advance") THEN Succ(drain) ELSE drain

\* b lies in the cyclic interval from d up to, not including, a.
InRange(d, a, b) == IF d <= a THEN d <= b /\ b < a ELSE d <= b \/ b < a

AddersInv == \A p \in Producers : \A b \in Buffers :
               p \in adders[b] <=> buf[p] = b /\ Holding(p)

GuardInv == /\ \A f \in Flushers : pc[f] # "idle" => flushing
            /\ \A f, g \in Flushers : f # g => pc[f] = "idle" \/ pc[g] = "idle"
            /\ \A f \in Flushers : OnDrain(f) => buf[f] = drain

\* The sealed buffers: the whole interval, nothing outside it, and the active
\* one only between the seal and the swap of a rotation.
SealInv == /\ \A b \in Buffers : InRange(Oldest, active, b) => sealed[b]
           /\ \A b \in Buffers : sealed[b] => b = active \/ InRange(Oldest, active, b)
           /\ sealed[active] => \E a \in Actors : At(a, "r_swap") /\ buf[a] = active
           /\ \A a \in Actors : At(a, "r_swap") => sealed[buf[a]]

\* A rotation past its first test still has a free buffer ahead, unless
\* another thread rotated first.
RoomInv == \A a \in Actors :
             pc[a] \in Checks /\ active = buf[a] => Oldest # Succ(active)

BoundInv == \A p \in Producers : Bound(p) =>
              /\ buf[p] = active \/ InRange(Oldest, active, buf[p])
              /\ \A f \in Flushers : Draining(f) => buf[f] # buf[p]

DrainInv == \A f \in Flushers :
              /\ Draining(f) \/ pc[f] = "rotated" => active # drain
              /\ pc[f] = "wait" => sealed[drain]

SlotInv == \A p \in Producers : At(p, "write") =>
             /\ slot[p] < index[buf[p]] /\ slot[p] < QueueLength
             /\ \A q \in Producers : q # p /\ At(q, "write") /\ buf[q] = buf[p]
                                       => slot[q] # slot[p]

IInv == /\ RingTypes /\ ThreadTypes /\ AddersInv /\ GuardInv /\ SealInv
        /\ RoomInv /\ BoundInv /\ DrainInv /\ SlotInv

(***************************************************************************)
(* The ring.                                                               *)
(***************************************************************************)
\* Succ (the `% SENTRY_BATCHER_BUFFER_COUNT` of the code) stays in the ring,
\* moves, and is injective.
LEMMA SuccFacts ==
  /\ \A a \in Buffers : Succ(a) \in Buffers /\ Succ(a) # a
  /\ \A a, b \in Buffers : Succ(a) = Succ(b) => a = b
  BY BatcherAssumption DEF Buffers, Succ

\* The interval ends before its end, starts at its start, grows at its end and
\* shrinks at its start.
LEMMA RangeFacts ==
  \A d, a, b \in Buffers :
    /\ ~InRange(d, a, a)
    /\ d # a => InRange(d, a, d)
    /\ InRange(d, a, Succ(a)) => d = Succ(a)
    /\ d = Succ(a) => InRange(d, a, Succ(a))
    /\ d # Succ(a) => (InRange(d, Succ(a), b) <=> InRange(d, a, b) \/ b = a)
    /\ d # a => (InRange(Succ(d), a, b) <=> InRange(d, a, b) /\ b # d)
  BY BatcherAssumption DEF Buffers, InRange, Succ

\* The oldest undrained buffer is a buffer.
LEMMA OldestInRing == drain \in Buffers => Oldest \in Buffers
  BY SuccFacts DEF Oldest

\* The interval's start only moves when the flusher reopens a buffer.
LEMMA OldestStable ==
  ASSUME drain' = drain,
         \A f \in Flushers : pc'[f] = "advance" <=> pc[f] = "advance"
  PROVE  Oldest' = Oldest
  BY DEF Oldest, At

\* A step that leaves the producers where they are leaves `adding` exact.
LEMMA AddersStable ==
  ASSUME AddersInv, adders' = adders,
         \A p \in Producers : pc'[p] = pc[p] /\ buf'[p] = buf[p]
  PROVE  AddersInv'
  <1>1. \A p \in Producers : Holding(p)' <=> Holding(p)
    BY DEF Holding, Bound
  <1> QED  BY <1>1 DEF AddersInv

\* A step that leaves the writing producers and their buffers' indices alone
\* leaves the slots distinct.
LEMMA SlotStable ==
  ASSUME SlotInv,
         \A p \in Producers : pc'[p] = pc[p] /\ buf'[p] = buf[p] /\ slot'[p] = slot[p],
         \A p \in Producers : pc[p] = "write" => index'[buf[p]] = index[buf[p]]
  PROVE  SlotInv'
  BY DEF SlotInv, At

\* The empty queue satisfies the invariant.
LEMMA InitIInv == Init => IInv
  <1> SUFFICES ASSUME Init PROVE IInv
    OBVIOUS
  <1>0. drain = 0 /\ active = 0 /\ Oldest = 0 /\ 0 \in Buffers
    BY BatcherAssumption DEF Init, Oldest, At, Actors, Buffers
  <1>0a. \A b \in Buffers : ~InRange(0, 0, b)
    BY DEF InRange, Buffers
  <1>1. RingTypes  BY <1>0, Zenon DEF Init, RingTypes
  <1>2. ThreadTypes
    BY <1>0 DEF Init, ThreadTypes, ProducerPc, FlusherPc, Actors
  <1>3. AddersInv
    BY DEF Init, AddersInv, Holding, Bound, Rotating, Checks, Actors
  <1>4. GuardInv
    BY DEF Init, GuardInv, OnDrain, Draining, Rotating, Checks, Actors
  <1>5. SealInv  BY <1>0, <1>0a DEF Init, SealInv, At, Actors
  <1>6. RoomInv /\ BoundInv /\ DrainInv /\ SlotInv
    BY DEF Init, RoomInv, BoundInv, DrainInv, SlotInv, Checks, Bound, Draining,
       Rotating, At, Actors
  <1> QED  BY <1>1, <1>2, <1>3, <1>4, <1>5, <1>6 DEF IInv

\* What an invariant says of the threads depends on the shared state only
\* through these variables.
shared == <<active, drain, flushing, index, adders, sealed, items>>

\* Moving one thread to a label of its own keeps the labels' types.
LEMMA PcTypes ==
  ASSUME ThreadTypes, NEW a \in Actors, NEW l,
         pc' = [pc EXCEPT ![a] = l],
         a \in Producers => l \in ProducerPc,
         a \in Flushers => l \in FlusherPc
  PROVE  /\ pc' \in [Actors -> ProducerPc \cup FlusherPc]
         /\ \A p \in Producers : pc'[p] \in ProducerPc
         /\ \A f \in Flushers : pc'[f] \in FlusherPc
         /\ pc'[a] = l
         /\ \A b \in Actors : b # a => pc'[b] = pc[b]
  BY DEF ThreadTypes, Actors

\* A producer's step outside `adding` (or giving up its place) preserves the
\* invariant: it is not bound to a buffer before or after.
LEMMA FreeProducerInv ==
  ASSUME IInv, NEW p \in Producers,
         Enqueue(p) \/ LoadActive(p) \/ CheckSealed(p) \/ RetryOrDrop(p)
  PROVE  IInv'
  <1>0. /\ RingTypes /\ ThreadTypes /\ AddersInv /\ GuardInv /\ SealInv
        /\ RoomInv /\ BoundInv /\ DrainInv /\ SlotInv
    BY DEF IInv
  <1>1. /\ UNCHANGED shared
        /\ pc[p] \in {"idle", "load", "sealed", "last"}
        /\ pc'[p] \in {"idle", "load", "sealed", "add"}
        /\ pc' = [pc EXCEPT ![p] = pc'[p]]
        /\ \A a \in Actors : a # p => buf'[a] = buf[a] /\ pc'[a] = pc[a]
        /\ UNCHANGED slot
    BY <1>0 DEF Enqueue, LoadActive, CheckSealed, RetryOrDrop, At, Goto, ring,
       shared, ThreadTypes, Actors
  <1>2. \A f \in Flushers : f # p /\ pc'[f] = pc[f] /\ buf'[f] = buf[f]
    BY <1>1, BatcherAssumption DEF Actors
  <1>3. Oldest' = Oldest
    BY <1>1, <1>2, OldestStable DEF shared
  <1>4. RingTypes'  BY <1>0, <1>1 DEF RingTypes, shared
  <1>5. ThreadTypes'
    <2>1. /\ buf' \in [Actors -> Buffers] /\ slot' \in [Actors -> Nat]
          /\ item' \in [Producers -> Nat] /\ flushIdx' \in Buffers
          /\ calls' \in Nat
      <3>1. CASE Enqueue(p)
        BY <1>0, <3>1 DEF ThreadTypes, Enqueue
      <3>2. CASE LoadActive(p)
        BY <1>0, <3>2, Zenon DEF ThreadTypes, RingTypes, LoadActive, history
      <3>3. CASE CheckSealed(p) \/ RetryOrDrop(p)
        BY <1>0, <3>3 DEF ThreadTypes, CheckSealed, RetryOrDrop, history
      <3> QED  BY <3>1, <3>2, <3>3
    <2>2. p \in Actors /\ p \notin Flushers /\ pc'[p] \in ProducerPc
      BY <1>1, BatcherAssumption DEF Actors, ProducerPc
    <2> QED  BY <1>0, <1>1, <2>1, <2>2, PcTypes, Zenon DEF ThreadTypes
  <1>6. AddersInv'
    BY <1>0, <1>1 DEF AddersInv, Holding, Bound, Rotating, Checks, shared, Actors
  <1>7. GuardInv'
    BY <1>0, <1>1, <1>2 DEF GuardInv, OnDrain, Draining, shared
  <1>8. SealInv'
    BY <1>0, <1>1, <1>3 DEF SealInv, At, shared
  <1>9. RoomInv'
    BY <1>0, <1>1, <1>3 DEF RoomInv, Checks, shared
  <1>10. BoundInv'
    BY <1>0, <1>1, <1>2, <1>3 DEF BoundInv, Bound, Draining, Rotating, Checks,
       shared, Actors
  <1>11. DrainInv'
    BY <1>0, <1>1, <1>2 DEF DrainInv, Draining, shared
  <1>12. SlotInv'
    BY <1>0, <1>1 DEF SlotInv, At, shared, Actors
  <1> QED  BY <1>4, <1>5, <1>6, <1>7, <1>8, <1>9, <1>10, <1>11, <1>12 DEF IInv

\* Incrementing `adding` and failing a recheck preserve the invariant.
LEMMA AddingIncrementInv ==
  ASSUME IInv, NEW p \in Producers, AddingIncrement(p)
  PROVE  IInv'
  <1>0. /\ RingTypes /\ ThreadTypes /\ AddersInv /\ GuardInv /\ SealInv
        /\ RoomInv /\ BoundInv /\ DrainInv /\ SlotInv
    BY DEF IInv
  <1>1. /\ UNCHANGED <<active, drain, flushing, index, sealed, items, buf, slot,
                       item, flushIdx, calls>>
        /\ adders' = [adders EXCEPT ![buf[p]] = @ \cup {p}]
        /\ pc[p] = "add" /\ pc' = [pc EXCEPT ![p] = "recheck"]
        /\ p \in Actors /\ p \notin Flushers /\ buf[p] \in Buffers
    BY <1>0, BatcherAssumption
       DEF AddingIncrement, At, Goto, history, Actors, ThreadTypes
  <1>2. /\ pc'[p] = "recheck"
        /\ \A a \in Actors : a # p => pc'[a] = pc[a]
        /\ \A f \in Flushers : f \in Actors /\ f # p /\ pc'[f] = pc[f]
        /\ \A q \in Producers : q \in Actors
    BY <1>0, <1>1 DEF ThreadTypes, Actors
  <1>3. Oldest' = Oldest
    BY <1>1, <1>2, OldestStable
  <1>4. RingTypes'  BY <1>0, <1>1 DEF RingTypes
  <1>5. ThreadTypes'
    BY <1>0, <1>1, PcTypes, Zenon DEF ThreadTypes, ProducerPc
  <1>6. AddersInv'
    BY <1>0, <1>1, <1>2 DEF RingTypes, AddersInv, Holding, Bound, Rotating, Checks
  <1>7. GuardInv'
    BY <1>0, <1>1, <1>2 DEF GuardInv, OnDrain, Draining
  <1>8. SealInv'  BY <1>0, <1>1, <1>2, <1>3, Zenon DEF SealInv, At
  <1>9. RoomInv'  BY <1>0, <1>1, <1>2, <1>3 DEF RoomInv, Checks
  <1>10. BoundInv'
    BY <1>0, <1>1, <1>2, <1>3 DEF BoundInv, Bound, Draining, Rotating, Checks
  <1>11. DrainInv'  BY <1>0, <1>1, <1>2 DEF DrainInv, Draining
  <1>12. SlotInv'  BY <1>0, <1>1, <1>2 DEF SlotInv, At
  <1> QED  BY <1>4, <1>5, <1>6, <1>7, <1>8, <1>9, <1>10, <1>11, <1>12 DEF IInv

\* The rechecks preserve the invariant: a producer that finds its buffer active
\* is not on the buffer a flusher drains.
LEMMA RecheckInv ==
  ASSUME IInv, NEW p \in Producers, Recheck(p)
  PROVE  IInv'
  <1>0. /\ RingTypes /\ ThreadTypes /\ AddersInv /\ GuardInv /\ SealInv
        /\ RoomInv /\ BoundInv /\ DrainInv /\ SlotInv
    BY DEF IInv
  <1>1. PICK l : /\ pc' = [pc EXCEPT ![p] = l]
                 /\ \/ pc[p] = "recheck" /\ active = buf[p] /\ l = "resealed"
                    \/ pc[p] = "recheck" /\ l = "undo"
                    \/ pc[p] = "resealed" /\ l \in {"slot", "undo"}
    BY DEF Recheck, At, Goto, StillActive
  <1>1a. /\ UNCHANGED <<active, drain, flushing, index, sealed, items, buf, slot,
                        adders, item, flushIdx, calls>>
         /\ p \in Actors /\ p \notin Flushers
    BY BatcherAssumption DEF Recheck, ring, history, Actors
  <1>2. /\ pc'[p] = l
        /\ \A a \in Actors : a # p => pc'[a] = pc[a]
        /\ \A f \in Flushers : f \in Actors /\ f # p /\ pc'[f] = pc[f]
        /\ \A q \in Producers : q \in Actors
    BY <1>0, <1>1, <1>1a DEF ThreadTypes, Actors
  <1>3. Oldest' = Oldest
    BY <1>1a, <1>2, OldestStable
  <1>4. RingTypes'  BY <1>0, <1>1a DEF RingTypes
  <1>5. ThreadTypes'
    BY <1>0, <1>1, <1>1a, PcTypes, Zenon DEF ThreadTypes, ProducerPc
  <1>6. AddersInv'
    BY <1>0, <1>1, <1>1a, <1>2 DEF AddersInv, Holding, Bound, Rotating, Checks
  <1>7. GuardInv'
    BY <1>0, <1>1a, <1>2 DEF GuardInv, OnDrain, Draining
  <1>8. SealInv'  BY <1>0, <1>1, <1>1a, <1>2, <1>3, Zenon DEF SealInv, At
  <1>9. RoomInv'  BY <1>0, <1>1, <1>1a, <1>2, <1>3 DEF RoomInv, Checks
  <1>10. BoundInv'
    BY <1>0, <1>1, <1>1a, <1>2, <1>3
       DEF BoundInv, Bound, Draining, Rotating, Checks, DrainInv, GuardInv, OnDrain
  <1>11. DrainInv'  BY <1>0, <1>1a, <1>2, Zenon DEF DrainInv, Draining
  <1>12. SlotInv'  BY <1>0, <1>1, <1>1a, <1>2 DEF SlotInv, At
  <1> QED  BY <1>4, <1>5, <1>6, <1>7, <1>8, <1>9, <1>10, <1>11, <1>12 DEF IInv

\* Taking a slot preserves the invariant: the slot is above those that other
\* producers still write.
LEMMA FetchSlotInv ==
  ASSUME IInv, NEW p \in Producers, FetchSlot(p)
  PROVE  IInv'
  <1>0. /\ RingTypes /\ ThreadTypes /\ AddersInv /\ GuardInv /\ SealInv
        /\ RoomInv /\ BoundInv /\ DrainInv /\ SlotInv
    BY DEF IInv
  <1> DEFINE n == index[buf[p]]
  <1> DEFINE l == IF n < QueueLength THEN "write" ELSE "r_sealed"
  <1>1. pc' = [pc EXCEPT ![p] = l] /\ pc[p] = "slot"
    BY DEF FetchSlot, At, Goto
  <1>1a. /\ UNCHANGED <<active, drain, flushing, sealed, items, buf, adders, item,
                        flushIdx, calls>>
         /\ slot' = [slot EXCEPT ![p] = n]
         /\ index' = [index EXCEPT ![buf[p]] = n + 1]
         /\ p \in Actors /\ p \notin Flushers /\ buf[p] \in Buffers /\ n \in Nat
    BY <1>0, BatcherAssumption
       DEF FetchSlot, history, Actors, RingTypes, ThreadTypes
  <1>2. /\ pc'[p] = l
        /\ \A a \in Actors : a # p => pc'[a] = pc[a]
        /\ \A f \in Flushers : f \in Actors /\ f # p /\ pc'[f] = pc[f]
        /\ \A q \in Producers : q \in Actors
    BY <1>0, <1>1, <1>1a DEF ThreadTypes, Actors
  <1>3. Oldest' = Oldest
    BY <1>1a, <1>2, OldestStable
  <1>4. RingTypes'  BY <1>0, <1>1a DEF RingTypes
  <1>5. ThreadTypes'
    <2>1. slot' \in [Actors -> Nat]  BY <1>0, <1>1a DEF ThreadTypes
    <2> QED  BY <1>0, <1>1, <1>1a, <2>1, PcTypes, Zenon DEF ThreadTypes, ProducerPc
  <1>6. AddersInv'
    BY <1>0, <1>1, <1>1a, <1>2 DEF AddersInv, Holding, Bound, Rotating, Checks
  <1>7. GuardInv'  BY <1>0, <1>1a, <1>2, Zenon DEF GuardInv, OnDrain, Draining
  <1>8. SealInv'  BY <1>0, <1>1, <1>1a, <1>2, <1>3 DEF SealInv, At
  <1>9. RoomInv'  BY <1>0, <1>1, <1>1a, <1>2, <1>3 DEF RoomInv, Checks
  <1>10. BoundInv'
    BY <1>0, <1>1, <1>1a, <1>2, <1>3, Zenon DEF BoundInv, Bound, Draining, Rotating, Checks
  <1>11. DrainInv'  BY <1>0, <1>1a, <1>2, Zenon DEF DrainInv, Draining
  <1>12. SlotInv'
    <2>1. \A q \in Producers : q # p => slot'[q] = slot[q] /\ buf[q] \in Buffers
      BY <1>0, <1>1a, <1>2 DEF ThreadTypes
    <2>2. slot'[p] = n /\ index'[buf[p]] = n + 1
      BY <1>0, <1>1a DEF ThreadTypes, RingTypes
    <2>3. \A b \in Buffers : b # buf[p] => index'[b] = index[b]
      BY <1>0, <1>1a DEF RingTypes
    <2>4. \A q \in Producers : slot[q] \in Nat
      BY <1>0, <1>2 DEF ThreadTypes
    <2>5. \A q \in Producers : q # p /\ At(q, "write")' =>
            /\ At(q, "write")
            /\ slot[q] < index'[buf[q]]
            /\ buf[q] = buf[p] => slot[q] # n
      BY <1>0, <1>1a, <1>2, <2>1, <2>2, <2>3, <2>4 DEF SlotInv, At
    <2> QED
      BY <1>0, <1>1, <1>1a, <1>2, <2>1, <2>2, <2>5 DEF SlotInv, At
  <1> QED  BY <1>4, <1>5, <1>6, <1>7, <1>8, <1>9, <1>10, <1>11, <1>12 DEF IInv

\* Writing the slot preserves the invariant.
LEMMA WriteSlotInv ==
  ASSUME IInv, NEW p \in Producers, WriteSlot(p)
  PROVE  IInv'
  <1>0. /\ RingTypes /\ ThreadTypes /\ AddersInv /\ GuardInv /\ SealInv
        /\ RoomInv /\ BoundInv /\ DrainInv /\ SlotInv
    BY DEF IInv
  <1>1. PICK l : /\ pc' = [pc EXCEPT ![p] = l] /\ pc[p] = "write"
                 /\ l \in {"rotated", "r_sealed"}
    BY Zenon DEF WriteSlot, At, Goto
  <1>1a. /\ UNCHANGED <<active, drain, flushing, index, sealed, buf, slot, adders,
                        item, flushIdx, calls>>
         /\ items' = [items EXCEPT ![buf[p]][slot[p]] = item[p]]
         /\ p \in Actors /\ p \notin Flushers
    BY BatcherAssumption DEF WriteSlot, history, Actors
  <1>2. /\ pc'[p] = l
        /\ \A a \in Actors : a # p => pc'[a] = pc[a]
        /\ \A f \in Flushers : f \in Actors /\ f # p /\ pc'[f] = pc[f]
        /\ \A q \in Producers : q \in Actors
    BY <1>0, <1>1, <1>1a DEF ThreadTypes, Actors
  <1>3. Oldest' = Oldest
    BY <1>1a, <1>2, OldestStable
  <1>4. RingTypes'
    <2>1. /\ buf[p] \in Buffers /\ item[p] \in Nat
          /\ items \in [Buffers -> [Slots -> Nat]]
      BY <1>0, <1>1a DEF RingTypes, ThreadTypes
    <2>2. items' \in [Buffers -> [Slots -> Nat]]
      BY <1>1a, <2>1, Zenon
    <2> QED  BY <1>0, <1>1a, <2>2, Zenon DEF RingTypes
  <1>5. ThreadTypes'
    BY <1>0, <1>1, <1>1a, PcTypes, Zenon DEF ThreadTypes, ProducerPc
  <1>6. AddersInv'
    BY <1>0, <1>1, <1>1a, <1>2 DEF AddersInv, Holding, Bound, Rotating, Checks
  <1>7. GuardInv'  BY <1>0, <1>1a, <1>2 DEF GuardInv, OnDrain, Draining
  <1>8. SealInv'  BY <1>0, <1>1, <1>1a, <1>2, <1>3 DEF SealInv, At
  <1>9. RoomInv'  BY <1>0, <1>1, <1>1a, <1>2, <1>3 DEF RoomInv, Checks
  <1>10. BoundInv'
    BY <1>0, <1>1, <1>1a, <1>2, <1>3 DEF BoundInv, Bound, Draining, Rotating, Checks
  <1>11. DrainInv'  BY <1>0, <1>1a, <1>2 DEF DrainInv, Draining
  <1>12. SlotInv'  BY <1>0, <1>1, <1>1a, <1>2 DEF SlotInv, At
  <1> QED  BY <1>4, <1>5, <1>6, <1>7, <1>8, <1>9, <1>10, <1>11, <1>12 DEF IInv

\* Giving `adding` back preserves the invariant.
LEMMA AddingDecrementInv ==
  ASSUME IInv, NEW p \in Producers, AddingDecrement(p)
  PROVE  IInv'
  <1>0. /\ RingTypes /\ ThreadTypes /\ AddersInv /\ GuardInv /\ SealInv
        /\ RoomInv /\ BoundInv /\ DrainInv /\ SlotInv
    BY DEF IInv
  <1>1. PICK l : /\ pc' = [pc EXCEPT ![p] = l]
                 /\ pc[p] \in {"undo", "rotated", "stuck"}
                 /\ l \in {"idle", "load", "last"}
    BY Zenon DEF AddingDecrement, At, Goto
  <1>1a. /\ UNCHANGED <<active, drain, flushing, index, sealed, items, buf, slot,
                        item, flushIdx, calls>>
         /\ adders' = [adders EXCEPT ![buf[p]] = @ \ {p}]
         /\ p \in Actors /\ p \notin Flushers /\ buf[p] \in Buffers
    BY <1>0, BatcherAssumption DEF AddingDecrement, Actors, ThreadTypes
  <1>2. /\ pc'[p] = l
        /\ \A a \in Actors : a # p => pc'[a] = pc[a]
        /\ \A f \in Flushers : f \in Actors /\ f # p /\ pc'[f] = pc[f]
        /\ \A q \in Producers : q \in Actors
    BY <1>0, <1>1, <1>1a DEF ThreadTypes, Actors
  <1>3. Oldest' = Oldest
    BY <1>1a, <1>2, OldestStable
  <1>4. RingTypes'  BY <1>0, <1>1a DEF RingTypes
  <1>5. ThreadTypes'
    BY <1>0, <1>1, <1>1a, PcTypes, Zenon DEF ThreadTypes, ProducerPc
  <1>6. AddersInv'
    BY <1>0, <1>1, <1>1a, <1>2
       DEF RingTypes, AddersInv, Holding, Bound, Rotating, Checks
  <1>7. GuardInv'  BY <1>0, <1>1a, <1>2, Zenon DEF GuardInv, OnDrain, Draining
  <1>8. SealInv'  BY <1>0, <1>1, <1>1a, <1>2, <1>3, Zenon DEF SealInv, At
  <1>9. RoomInv'  BY <1>0, <1>1, <1>1a, <1>2, <1>3 DEF RoomInv, Checks
  <1>10. BoundInv'
    BY <1>0, <1>1, <1>1a, <1>2, <1>3 DEF BoundInv, Bound, Draining, Rotating, Checks
  <1>11. DrainInv'  BY <1>0, <1>1a, <1>2, Zenon DEF DrainInv, Draining
  <1>12. SlotInv'  BY <1>0, <1>1, <1>1a, <1>2 DEF SlotInv, At
  <1> QED  BY <1>4, <1>5, <1>6, <1>7, <1>8, <1>9, <1>10, <1>11, <1>12 DEF IInv

(***************************************************************************)
(* Rotation.                                                               *)
(***************************************************************************)
\* While a flusher is inside a flush and not about to advance drain_idx, the
\* interval starts at drain_idx.
LEMMA OldestIsDrain ==
  ASSUME GuardInv, NEW f \in Flushers, pc[f] # "idle", pc[f] # "advance"
  PROVE  Oldest = drain
  BY DEF GuardInv, Oldest, At

\* A thread inside rotate_buffer works on the active buffer or inside the
\* interval.
LEMMA RotatorPlace ==
  ASSUME IInv, NEW a \in Actors, pc[a] \in Rotating
  PROVE  buf[a] = active \/ InRange(Oldest, active, buf[a])
  <1>1. CASE a \in Producers
    BY <1>1 DEF IInv, BoundInv, Bound
  <1>2. CASE a \in Flushers
    <2>1. pc[a] # "idle" /\ pc[a] # "advance" /\ OnDrain(a)
      BY DEF OnDrain, Rotating, Checks
    <2>2. buf[a] = drain /\ Oldest = drain /\ drain \in Buffers /\ active \in Buffers
      BY <1>2, <2>1, OldestIsDrain DEF IInv, GuardInv, RingTypes
    <2> QED  BY <2>2, RangeFacts
  <1> QED  BY <1>1, <1>2 DEF Actors

\* The tests of rotate_buffer preserve the invariant; passing the first one
\* shows that the next buffer is outside the interval.
LEMMA RotateCheckInv ==
  ASSUME IInv, NEW a \in Actors, RotateCheck(a) \/ RotateFail(a)
  PROVE  IInv'
  <1>0. /\ RingTypes /\ ThreadTypes /\ AddersInv /\ GuardInv /\ SealInv
        /\ RoomInv /\ BoundInv /\ DrainInv /\ SlotInv
    BY DEF IInv
  <1>1. PICK l : /\ pc' = [pc EXCEPT ![a] = l]
                 /\ \/ /\ pc[a] = "r_sealed" /\ l = "r_index"
                       /\ ~sealed[Succ(buf[a])]
                    \/ pc[a] = "r_index" /\ l = "r_adding"
                    \/ pc[a] = "r_adding" /\ l = "r_seal"
                    \/ pc[a] \in {"r_sealed", "r_index", "r_adding"} /\ l = "r_fail"
                    \/ pc[a] = "r_fail" /\ l = "stuck"
                    \/ pc[a] = "r_fail" /\ l = "rotated" /\ active # buf[a]
    BY Zenon DEF RotateCheck, RotateFail, At, Goto
  <1>1a. UNCHANGED <<active, drain, flushing, index, sealed, items, buf, slot,
                     adders, item, flushIdx, calls>>
    BY Zenon DEF RotateCheck, RotateFail, ring, history
  <1>2. /\ pc'[a] = l
        /\ \A b \in Actors : b # a => pc'[b] = pc[b]
        /\ \A f \in Flushers : f \in Actors /\ f \notin Producers
        /\ \A q \in Producers : q \in Actors /\ q \notin Flushers
    BY <1>0, <1>1, BatcherAssumption DEF ThreadTypes, Actors
  <1>3. Oldest' = Oldest
    BY <1>1, <1>1a, <1>2, OldestStable
  <1>4. RingTypes'  BY <1>0, <1>1a DEF RingTypes
  <1>5. ThreadTypes'
    BY <1>0, <1>1, <1>1a, PcTypes, Zenon DEF ThreadTypes, ProducerPc, FlusherPc
  <1>6. AddersInv'
    BY <1>0, <1>1, <1>1a, <1>2 DEF AddersInv, Holding, Bound, Rotating, Checks
  <1>7. GuardInv'
    BY <1>0, <1>1, <1>1a, <1>2 DEF GuardInv, OnDrain, Draining, Rotating, Checks
  <1>8. SealInv'  BY <1>0, <1>1, <1>1a, <1>2, <1>3, Zenon DEF SealInv, At
  <1>9. RoomInv'
    <2>1. pc[a] = "r_sealed" /\ l = "r_index" /\ active = buf[a]
            => Oldest # Succ(active)
      BY <1>0, <1>1, RangeFacts, SuccFacts, OldestInRing, Zenon DEF SealInv, RingTypes
    <2> QED  BY <1>0, <1>1, <1>1a, <1>2, <1>3, <2>1 DEF RoomInv, Checks
  <1>10. BoundInv'
    BY <1>0, <1>1, <1>1a, <1>2, <1>3 DEF BoundInv, Bound, Draining, Rotating, Checks
  <1>11. DrainInv'
    BY <1>0, <1>1, <1>1a, <1>2, Zenon
       DEF DrainInv, Draining, GuardInv, OnDrain, Rotating, Checks
  <1>12. SlotInv'  BY <1>0, <1>1, <1>1a, <1>2 DEF SlotInv, At
  <1> QED  BY <1>4, <1>5, <1>6, <1>7, <1>8, <1>9, <1>10, <1>11, <1>12 DEF IInv

\* Sealing the old buffer preserves the invariant: the rotation's own swap is
\* the witness that an active buffer may be sealed.
LEMMA RotateSealInv ==
  ASSUME IInv, NEW a \in Actors, RotateSeal(a)
  PROVE  IInv'
  <1>0. /\ RingTypes /\ ThreadTypes /\ AddersInv /\ GuardInv /\ SealInv
        /\ RoomInv /\ BoundInv /\ DrainInv /\ SlotInv
    BY DEF IInv
  <1>1. pc' = [pc EXCEPT ![a] = "r_swap"] /\ pc[a] = "r_seal"
    BY DEF RotateSeal, At, Goto
  <1>1a. /\ UNCHANGED <<active, drain, flushing, index, items, buf, slot, adders,
                        item, flushIdx, calls>>
         /\ sealed' = [sealed EXCEPT ![buf[a]] = TRUE] /\ buf[a] \in Buffers
    BY <1>0 DEF RotateSeal, SealedByRotation, history, ThreadTypes
  <1>2. /\ pc'[a] = "r_swap"
        /\ \A b \in Actors : b # a => pc'[b] = pc[b]
        /\ \A f \in Flushers : f \in Actors /\ f \notin Producers
        /\ \A q \in Producers : q \in Actors /\ q \notin Flushers
    BY <1>0, <1>1, BatcherAssumption DEF ThreadTypes, Actors
  <1>3. Oldest' = Oldest
    BY <1>1, <1>1a, <1>2, OldestStable
  <1>4. RingTypes'  BY <1>0, <1>1a DEF RingTypes
  <1>5. ThreadTypes'
    BY <1>0, <1>1, <1>1a, PcTypes, Zenon DEF ThreadTypes, ProducerPc, FlusherPc
  <1>6. AddersInv'
    BY <1>0, <1>1, <1>1a, <1>2 DEF AddersInv, Holding, Bound, Rotating, Checks
  <1>7. GuardInv'
    BY <1>0, <1>1, <1>1a, <1>2 DEF GuardInv, OnDrain, Draining, Rotating, Checks
  <1>8. SealInv'
    <2>1. buf[a] = active \/ InRange(Oldest, active, buf[a])
      BY <1>1, RotatorPlace DEF Rotating, Checks
    <2>2. \A b \in Buffers : sealed'[b] <=> sealed[b] \/ b = buf[a]
      BY <1>0, <1>1a DEF RingTypes
    <2>3. (\A b \in Buffers : InRange(Oldest, active, b) => sealed[b])'
      BY <1>0, <1>1a, <1>3, <2>2 DEF SealInv
    <2>4. (\A b \in Buffers : sealed[b] => b = active \/ InRange(Oldest, active, b))'
      BY <1>0, <1>1a, <1>3, <2>1, <2>2 DEF SealInv
    <2>5. (sealed[active] => \E x \in Actors : At(x, "r_swap") /\ buf[x] = active)'
      BY <1>0, <1>1, <1>1a, <1>2, <2>2 DEF SealInv, At, RingTypes
    <2>6. (\A x \in Actors : At(x, "r_swap") => sealed[buf[x]])'
      BY <1>0, <1>1a, <1>2, <2>2 DEF SealInv, At, ThreadTypes
    <2> QED  BY <2>3, <2>4, <2>5, <2>6, Zenon DEF SealInv
  <1>9. RoomInv'  BY <1>0, <1>1, <1>1a, <1>2, <1>3, Zenon DEF RoomInv, Checks
  <1>10. BoundInv'
    BY <1>0, <1>1, <1>1a, <1>2, <1>3, Zenon DEF BoundInv, Bound, Draining, Rotating, Checks
  <1>11. DrainInv'
    BY <1>0, <1>1, <1>1a, <1>2, Zenon DEF DrainInv, Draining, RingTypes
  <1>12. SlotInv'  BY <1>0, <1>1, <1>1a, <1>2 DEF SlotInv, At
  <1> QED  BY <1>4, <1>5, <1>6, <1>7, <1>8, <1>9, <1>10, <1>11, <1>12 DEF IInv

\* The swap of active_idx preserves the invariant: the interval grows by the
\* old active buffer and does not reach its own start.
LEMMA RotateSwapInv ==
  ASSUME IInv, NEW a \in Actors, RotateSwap(a)
  PROVE  IInv'
  <1>0. /\ RingTypes /\ ThreadTypes /\ AddersInv /\ GuardInv /\ SealInv
        /\ RoomInv /\ BoundInv /\ DrainInv /\ SlotInv
    BY DEF IInv
  <1>1. PICK l : /\ pc' = [pc EXCEPT ![a] = l] /\ pc[a] = "r_swap"
                 /\ \/ active # buf[a] /\ l = "r_fail" /\ active' = active
                    \/ active = buf[a] /\ l = "rotated" /\ active' = Succ(active)
    BY DEF RotateSwap, At, Goto
  <1>1a. UNCHANGED <<drain, flushing, index, sealed, items, buf, slot, adders,
                     item, flushIdx, calls>>
    BY DEF RotateSwap, history
  <1>2. /\ pc'[a] = l
        /\ \A b \in Actors : b # a => pc'[b] = pc[b]
        /\ \A f \in Flushers : f \in Actors /\ f \notin Producers
        /\ \A q \in Producers : q \in Actors /\ q \notin Flushers
    BY <1>0, <1>1, BatcherAssumption DEF ThreadTypes, Actors
  <1>3. Oldest' = Oldest /\ Oldest \in Buffers /\ active \in Buffers
    BY <1>0, <1>1, <1>1a, <1>2, OldestStable, OldestInRing DEF RingTypes
  <1>4. RingTypes'  BY <1>0, <1>1, <1>1a, <1>3, SuccFacts DEF RingTypes
  <1>5. ThreadTypes'
    BY <1>0, <1>1, <1>1a, PcTypes, Zenon DEF ThreadTypes, ProducerPc, FlusherPc
  <1>6. AddersInv'
    BY <1>0, <1>1, <1>1a, <1>2 DEF AddersInv, Holding, Bound, Rotating, Checks
  <1>7. GuardInv'
    BY <1>0, <1>1, <1>1a, <1>2 DEF GuardInv, OnDrain, Draining, Rotating, Checks
  <1>12. SlotInv'  BY <1>0, <1>1, <1>1a, <1>2 DEF SlotInv, At
  <1>a. CASE active # buf[a]
    <2>8. SealInv'  BY <1>0, <1>1, <1>1a, <1>2, <1>3, <1>a, Zenon DEF SealInv, At
    <2>9. RoomInv'  BY <1>0, <1>1, <1>1a, <1>2, <1>3, <1>a DEF RoomInv, Checks
    <2>10. BoundInv'
      BY <1>0, <1>1, <1>1a, <1>2, <1>3, <1>a, Zenon
         DEF BoundInv, Bound, Draining, Rotating, Checks
    <2>11. DrainInv'
      BY <1>0, <1>1, <1>1a, <1>2, <1>a, Zenon DEF DrainInv, Draining
    <2> QED  BY <1>4, <1>5, <1>6, <1>7, <2>8, <2>9, <2>10, <2>11, <1>12 DEF IInv
  <1>b. CASE active = buf[a]
    <2>1. active' = Succ(active) /\ l = "rotated"
      BY <1>1, <1>b
    <2>2. Oldest # Succ(active) /\ sealed[active]
      BY <1>0, <1>1, <1>b, Zenon DEF RoomInv, Checks, SealInv, At
    <2>3. \A b \in Buffers : InRange(Oldest, Succ(active), b)
                              <=> InRange(Oldest, active, b) \/ b = active
      BY <1>3, <2>2, RangeFacts
    <2>4. ~InRange(Oldest, active, Succ(active)) /\ Succ(active) # active
      BY <1>3, <2>2, RangeFacts, SuccFacts
    <2>8. SealInv'
      <3>1. (\A b \in Buffers : InRange(Oldest, active, b) => sealed[b])'
        BY <1>0, <1>1a, <1>3, <2>1, <2>2, <2>3, Zenon DEF SealInv
      <3>2. (\A b \in Buffers : sealed[b] => b = active \/ InRange(Oldest, active, b))'
        BY <1>0, <1>1a, <1>3, <2>1, <2>3, Zenon DEF SealInv
      <3>3. ~sealed[Succ(active)]
        BY <1>0, <1>3, <2>4, SuccFacts, Zenon DEF SealInv
      <3>4. (\A x \in Actors : At(x, "r_swap") => sealed[buf[x]])'
        BY <1>0, <1>1a, <1>2, <2>1, Zenon DEF SealInv, At
      <3> QED  BY <1>1a, <2>1, <3>1, <3>2, <3>3, <3>4, Zenon DEF SealInv
    <2>9. RoomInv'
      <3>1. \A x \in Actors : pc[x] \in Checks => buf[x] # Succ(active)
        BY <2>4, RotatorPlace DEF Rotating
      <3> QED  BY <1>1a, <1>2, <2>1, <3>1, Zenon DEF RoomInv, Checks
    <2>10. BoundInv'
      <3>1. \A p \in Producers : Bound(p)' => Bound(p)
        BY <1>1, <1>2, <2>1 DEF Bound, Rotating, Checks
      <3>2. \A f \in Flushers : Draining(f)' => Draining(f)
        BY <1>1, <1>2, <2>1 DEF Draining
      <3>3. \A p \in Producers : buf[p] \in Buffers
        BY <1>0, <1>2 DEF ThreadTypes
      <3> QED  BY <1>0, <1>1a, <1>3, <2>1, <2>3, <3>1, <3>2, <3>3, Zenon DEF BoundInv
    <2>11. DrainInv'
      <3>1. \A f \in Flushers : Draining(f)' \/ pc'[f] = "rotated"
               => drain # Succ(active)
        <4>1. \A f \in Flushers : f # a /\ (Draining(f) \/ pc[f] = "rotated")
                 => Oldest = drain
          BY <1>0, OldestIsDrain DEF Draining
        <4>2. a \in Flushers => drain = active
          BY <1>0, <1>1, <1>b DEF GuardInv, OnDrain, Rotating, Checks
        <4> QED  BY <1>2, <2>1, <2>2, <2>4, <4>1, <4>2, Zenon DEF Draining
      <3> QED  BY <1>0, <1>1a, <1>2, <2>1, <3>1, Zenon DEF DrainInv, Draining
    <2> QED  BY <1>4, <1>5, <1>6, <1>7, <2>8, <2>9, <2>10, <2>11, <1>12 DEF IInv
  <1> QED  BY <1>a, <1>b

(***************************************************************************)
(* Flushing.                                                               *)
(***************************************************************************)
\* Beginning and ending a flush, finding the buffer through which to flush,
\* inspecting the oldest buffer and collecting items preserve the invariant.
LEMMA QuietFlushInv ==
  ASSUME IInv, NEW f \in Flushers,
         BeginFlush(f) \/ ReadFlushIdx(f) \/ InspectDrain(f) \/ ReadItems(f)
           \/ EndFlush(f)
  PROVE  IInv'
  <1>0. /\ RingTypes /\ ThreadTypes /\ AddersInv /\ GuardInv /\ SealInv
        /\ RoomInv /\ BoundInv /\ DrainInv /\ SlotInv
    BY DEF IInv
  <1>1. PICK l : /\ pc' = [pc EXCEPT ![f] = l]
                 /\ \/ pc[f] = "idle" /\ l = "begin" /\ ~flushing /\ flushing'
                    \/ pc[f] = "begin" /\ l = "look" /\ flushing' = flushing
                    \/ pc[f] = "active" /\ l = "count" /\ flushing' = flushing
                    \/ /\ pc[f] = "active" /\ l = "wait" /\ active # buf[f]
                       /\ flushing' = flushing
                    \/ /\ pc[f] = "count" /\ l \in {"done", "r_sealed"}
                       /\ flushing' = flushing
                    \/ pc[f] = "read" /\ l = "unseal" /\ flushing' = flushing
                    \/ pc[f] \in {"done", "stuck"} /\ l = "idle" /\ ~flushing'
    BY Zenon DEF BeginFlush, ReadFlushIdx, InspectDrain, ReadItems, EndFlush, At, Goto,
       MayFlush, ring
  <1>1a. /\ UNCHANGED <<active, drain, index, sealed, items, buf, slot, adders,
                        item, calls>>
         /\ flushIdx' \in {flushIdx, active} /\ flushing' \in BOOLEAN
    BY <1>0, Zenon DEF BeginFlush, ReadFlushIdx, InspectDrain, ReadItems, EndFlush, ring,
       history, RingTypes
  <1>2. /\ pc'[f] = l
        /\ \A b \in Actors : b # f => pc'[b] = pc[b]
        /\ \A g \in Flushers : g \in Actors /\ g \notin Producers
        /\ \A q \in Producers : q \in Actors /\ q \notin Flushers
    BY <1>0, <1>1, BatcherAssumption, Zenon DEF ThreadTypes, Actors
  <1>3. Oldest' = Oldest
    BY <1>1, <1>1a, <1>2, OldestStable, Zenon
  <1>4. RingTypes'  BY <1>0, <1>1a, Zenon DEF RingTypes
  <1>5. ThreadTypes'
    <2>1. flushIdx' \in Buffers  BY <1>0, <1>1a DEF ThreadTypes, RingTypes
    <2>2. l \in FlusherPc /\ f \in Actors /\ f \notin Producers
      BY <1>1, <1>2 DEF FlusherPc
    <2> QED  BY <1>0, <1>1, <1>1a, <2>1, <2>2, PcTypes, Zenon DEF ThreadTypes
  <1>6. AddersInv'  BY <1>0, <1>1a, <1>2, AddersStable, Zenon
  <1>7. GuardInv'
    BY <1>0, <1>1, <1>1a, <1>2 DEF GuardInv, OnDrain, Draining, Rotating, Checks
  <1>8. SealInv'  BY <1>0, <1>1, <1>1a, <1>2, <1>3, Zenon DEF SealInv, At
  <1>9. RoomInv'  BY <1>0, <1>1, <1>1a, <1>2, <1>3, Zenon DEF RoomInv, Checks
  <1>10. BoundInv'
    BY <1>0, <1>1, <1>1a, <1>2, <1>3, Zenon DEF BoundInv, Bound, Draining
  <1>11. DrainInv'
    <2>1. pc[f] = "active" /\ active # buf[f] => sealed[drain]
      <3>1. pc[f] = "active" => Oldest = drain /\ buf[f] = drain
        BY <1>0, OldestIsDrain, Zenon DEF GuardInv, OnDrain
      <3>2. /\ active \in Buffers /\ drain \in Buffers
            /\ \A b \in Buffers : InRange(Oldest, active, b) => sealed[b]
        BY <1>0, Zenon DEF SealInv, RingTypes
      <3> QED  BY <3>1, <3>2, RangeFacts
    <2> QED  BY <1>0, <1>1, <1>1a, <1>2, <2>1, Zenon DEF DrainInv, Draining
  <1>12. SlotInv'  BY <1>0, <1>1a, <1>2, SlotStable, Zenon
  <1> QED  BY <1>4, <1>5, <1>6, <1>7, <1>8, <1>9, <1>10, <1>11, <1>12 DEF IInv

\* Turning to the oldest buffer preserves the invariant: the flusher waits
\* for writers only on a sealed one.
LEMMA LookAtDrainInv ==
  ASSUME IInv, NEW f \in Flushers, LookAtDrain(f)
  PROVE  IInv'
  <1>0. /\ RingTypes /\ ThreadTypes /\ AddersInv /\ GuardInv /\ SealInv
        /\ RoomInv /\ BoundInv /\ DrainInv /\ SlotInv
    BY DEF IInv
  <1>1. PICK l : /\ pc' = [pc EXCEPT ![f] = l] /\ pc[f] = "look"
                 /\ \/ l = "wait" /\ sealed[drain]
                    \/ l = "active"
    BY Zenon DEF LookAtDrain, At, Goto
  <1>1a. /\ UNCHANGED <<active, drain, flushing, index, sealed, items, slot,
                        adders, item, flushIdx, calls>>
         /\ buf' = [buf EXCEPT ![f] = drain]
    BY Zenon DEF LookAtDrain, ring, history
  <1>2. /\ pc'[f] = l
        /\ \A b \in Actors : b # f => pc'[b] = pc[b]
        /\ \A g \in Flushers : g \in Actors /\ g \notin Producers
        /\ \A q \in Producers : q \in Actors /\ q \notin Flushers
        /\ buf'[f] = drain
        /\ \A b \in Actors : b # f => buf'[b] = buf[b]
    BY <1>0, <1>1, <1>1a, BatcherAssumption, Zenon DEF ThreadTypes, Actors
  <1>3. Oldest' = Oldest
    BY <1>1, <1>1a, <1>2, OldestStable, Zenon
  <1>4. RingTypes'  BY <1>0, <1>1a, Zenon DEF RingTypes
  <1>5. ThreadTypes'
    <2>1. buf' \in [Actors -> Buffers]
      BY <1>0, <1>1a, Zenon DEF ThreadTypes, RingTypes
    <2>2. l \in FlusherPc /\ f \in Actors /\ f \notin Producers
      BY <1>1, <1>2, Zenon DEF FlusherPc
    <2> QED  BY <1>0, <1>1, <1>1a, <2>1, <2>2, PcTypes, Zenon DEF ThreadTypes
  <1>6. AddersInv'  BY <1>0, <1>1a, <1>2, AddersStable, Zenon
  <1>7. GuardInv'
    <2>1. \A g \in Flushers : g # f => pc[g] = "idle" /\ pc'[g] = "idle"
      BY <1>0, <1>1, <1>2, Zenon DEF GuardInv
    <2>2. flushing'  BY <1>0, <1>1, <1>1a, Zenon DEF GuardInv
    <2>3. \A g \in Flushers : OnDrain(g)' => g = f
      BY <2>1, Zenon DEF OnDrain, Draining, Rotating, Checks
    <2>4. buf'[f] = drain'  BY <1>1a, <1>2, Zenon
    <2> QED  BY <2>1, <2>2, <2>3, <2>4, Zenon DEF GuardInv
  <1>8. SealInv'
    BY <1>0, <1>1, <1>1a, <1>2, <1>3, Zenon DEF SealInv, At
  <1>9. RoomInv'  BY <1>0, <1>1, <1>1a, <1>2, <1>3, Zenon DEF RoomInv, Checks
  <1>10. BoundInv'
    BY <1>0, <1>1, <1>1a, <1>2, <1>3 DEF BoundInv, Bound, Draining
  <1>11. DrainInv'
    BY <1>0, <1>1, <1>1a, <1>2, Zenon DEF DrainInv, Draining
  <1>12. SlotInv'  BY <1>0, <1>1a, <1>2, SlotStable, Zenon
  <1> QED  BY <1>4, <1>5, <1>6, <1>7, <1>8, <1>9, <1>10, <1>11, <1>12 DEF IInv

\* The end of the wait for writers preserves the invariant: no producer that
\* passed its rechecks is on the oldest buffer, and a rotation that had sealed
\* it while it was active has since made its successor active.
LEMMA WaitForWritersInv ==
  ASSUME IInv, NEW f \in Flushers, WaitForWriters(f)
  PROVE  IInv'
  <1>0. /\ RingTypes /\ ThreadTypes /\ AddersInv /\ GuardInv /\ SealInv
        /\ RoomInv /\ BoundInv /\ DrainInv /\ SlotInv
    BY DEF IInv
  <1>1. /\ pc' = [pc EXCEPT ![f] = "take"] /\ pc[f] \in {"wait", "rotated"}
        /\ adders[buf[f]] = {}
    BY Zenon DEF WaitForWriters, Goto, NoWriters
  <1>1a. UNCHANGED <<active, drain, flushing, index, sealed, items, slot, buf,
                     adders, item, flushIdx, calls>>
    BY Zenon DEF WaitForWriters, ring, history
  <1>2. /\ pc'[f] = "take"
        /\ \A b \in Actors : b # f => pc'[b] = pc[b]
        /\ \A g \in Flushers : g \in Actors /\ g \notin Producers
        /\ \A q \in Producers : q \in Actors /\ q \notin Flushers
    BY <1>0, <1>1, BatcherAssumption, Zenon DEF ThreadTypes, Actors
  <1>3. Oldest' = Oldest
    BY <1>1, <1>1a, <1>2, OldestStable, Zenon
  <1>3a. /\ buf[f] = drain /\ drain \in Buffers /\ active \in Buffers
         /\ \A g \in Flushers : g # f => pc[g] = "idle"
    BY <1>0, <1>1 DEF GuardInv, OnDrain, RingTypes
  <1>3b. \A p \in Producers : Holding(p) => buf[p] # drain
    BY <1>0, <1>1, <1>3a, Zenon DEF AddersInv
  <1>3c. active # drain
    <2>1. CASE pc[f] = "rotated"
      BY <1>0, <2>1 DEF DrainInv
    <2>2. CASE pc[f] = "wait"
      <3>1. sealed[drain]  BY <1>0, <2>2 DEF DrainInv
      <3>2. ASSUME NEW a \in Actors, At(a, "r_swap"), buf[a] = drain
            PROVE  FALSE
        <4>1. a \in Producers
          BY <1>3a, <2>2, <3>2 DEF At, Actors
        <4>2. Holding(a)
          BY <3>2 DEF At, Holding, Bound, Rotating, Checks
        <4> QED  BY <1>3b, <3>2, <4>1, <4>2
      <3> QED  BY <1>0, <3>1, <3>2, Zenon DEF SealInv
    <2> QED  BY <1>1, <2>1, <2>2, Zenon
  <1>4. RingTypes'  BY <1>0, <1>1a DEF RingTypes
  <1>5. ThreadTypes'
    <2>2. "take" \in FlusherPc /\ f \in Actors /\ f \notin Producers
      BY <1>2 DEF FlusherPc
    <2> QED  BY <1>0, <1>1, <1>1a, <2>2, PcTypes, Zenon DEF ThreadTypes
  <1>6. AddersInv'  BY <1>0, <1>1a, <1>2, AddersStable, Zenon
  <1>7. GuardInv'
    BY <1>0, <1>1, <1>1a, <1>2, Zenon DEF GuardInv, OnDrain, Draining, Rotating, Checks
  <1>8. SealInv'  BY <1>0, <1>1, <1>1a, <1>2, <1>3, Zenon DEF SealInv, At
  <1>9. RoomInv'  BY <1>0, <1>1, <1>1a, <1>2, <1>3, Zenon DEF RoomInv, Checks
  <1>10. BoundInv'
    <2>1. \A p \in Producers : Bound(p)' <=> Bound(p)
      BY <1>2 DEF Bound
    <2>2. \A p \in Producers : Bound(p) => buf[p] # drain
      BY <1>3b DEF Holding
    <2>3. \A g \in Flushers : Draining(g)' => buf[g] = drain
      BY <1>2, <1>3a DEF Draining
    <2> QED  BY <1>0, <1>1a, <1>3, <2>1, <2>2, <2>3, Zenon DEF BoundInv
  <1>11. DrainInv'
    BY <1>1, <1>1a, <1>2, <1>3a, <1>3c, Zenon DEF DrainInv, Draining
  <1>12. SlotInv'  BY <1>0, <1>1a, <1>2, SlotStable, Zenon
  <1> QED  BY <1>4, <1>5, <1>6, <1>7, <1>8, <1>9, <1>10, <1>11, <1>12 DEF IInv

\* Resetting the index preserves the invariant: no slot above it is in use.
LEMMA TakeIndexInv ==
  ASSUME IInv, NEW f \in Flushers, TakeIndex(f)
  PROVE  IInv'
  <1>0. /\ RingTypes /\ ThreadTypes /\ AddersInv /\ GuardInv /\ SealInv
        /\ RoomInv /\ BoundInv /\ DrainInv /\ SlotInv
    BY DEF IInv
  <1>1. /\ pc' = [pc EXCEPT ![f] = "read"] /\ pc[f] = "take"
    BY Zenon DEF TakeIndex, Goto, At
  <1>1a. /\ UNCHANGED <<active, drain, flushing, sealed, items, buf, adders,
                        item, flushIdx, calls>>
         /\ index' = [index EXCEPT ![buf[f]] = 0]
    BY Zenon DEF TakeIndex, history
  <1>1b. f \in Actors /\ buf[f] \in Buffers
    BY <1>0 DEF ThreadTypes, Actors
  <1>1c. PICK n \in Nat : slot' = [slot EXCEPT ![f] = n]
    BY <1>0, <1>1b, BatcherAssumption, Zenon DEF TakeIndex, RingTypes
  <1>2. /\ pc'[f] = "read"
        /\ \A b \in Actors : b # f => pc'[b] = pc[b]
        /\ \A g \in Flushers : g \in Actors /\ g \notin Producers
        /\ \A q \in Producers : q \in Actors /\ q \notin Flushers
    BY <1>0, <1>1, BatcherAssumption, Zenon DEF ThreadTypes, Actors
  <1>3. Oldest' = Oldest
    BY <1>1, <1>1a, <1>2, OldestStable, Zenon
  <1>4. RingTypes'  BY <1>0, <1>1a, Zenon DEF RingTypes
  <1>5. ThreadTypes'
    <2>1. slot' \in [Actors -> Nat]  BY <1>0, <1>1c, Zenon DEF ThreadTypes
    <2>2. "read" \in FlusherPc /\ f \in Actors /\ f \notin Producers
      BY <1>2 DEF FlusherPc
    <2> QED  BY <1>0, <1>1, <1>1a, <2>1, <2>2, PcTypes, Zenon DEF ThreadTypes
  <1>6. AddersInv'  BY <1>0, <1>1a, <1>2, AddersStable, Zenon
  <1>7. GuardInv'
    BY <1>0, <1>1, <1>1a, <1>2, Zenon DEF GuardInv, OnDrain, Draining, Rotating, Checks
  <1>8. SealInv'  BY <1>0, <1>1, <1>1a, <1>2, <1>3, Zenon DEF SealInv, At
  <1>9. RoomInv'  BY <1>0, <1>1, <1>1a, <1>2, <1>3, Zenon DEF RoomInv, Checks
  <1>10. BoundInv'
    BY <1>0, <1>1, <1>1a, <1>2, <1>3, Zenon DEF BoundInv, Bound, Draining
  <1>11. DrainInv'
    BY <1>0, <1>1, <1>1a, <1>2, Zenon DEF DrainInv, Draining
  <1>12. SlotInv'
    <2>1. \A p \in Producers : At(p, "write") => buf[p] # buf[f]
      BY <1>0, <1>1 DEF BoundInv, Bound, Draining, At
    <2>2. \A p \in Producers : At(p, "write") =>
             index'[buf[p]] = index[buf[p]] /\ slot'[p] = slot[p]
      BY <1>0, <1>1a, <1>1c, <1>2, <2>1, Zenon DEF RingTypes, ThreadTypes
    <2> QED  BY <1>0, <1>1a, <1>1c, <1>2, <2>2, SlotStable, Zenon DEF At, ThreadTypes
  <1> QED  BY <1>4, <1>5, <1>6, <1>7, <1>8, <1>9, <1>10, <1>11, <1>12 DEF IInv

\* Reopening the drained buffer preserves the invariant: the interval of sealed
\* buffers loses its first member, on which nobody rotates or writes.
LEMMA UnsealInv ==
  ASSUME IInv, NEW f \in Flushers, Unseal(f)
  PROVE  IInv'
  <1>0. /\ RingTypes /\ ThreadTypes /\ AddersInv /\ GuardInv /\ SealInv
        /\ RoomInv /\ BoundInv /\ DrainInv /\ SlotInv
    BY DEF IInv
  <1>1. /\ pc' = [pc EXCEPT ![f] = "advance"] /\ pc[f] = "unseal"
    BY Zenon DEF Unseal, Goto, At
  <1>1a. /\ UNCHANGED <<active, drain, flushing, index, items, buf, slot, adders,
                        item, flushIdx, calls>>
         /\ sealed' = [sealed EXCEPT ![buf[f]] = FALSE]
    BY Zenon DEF Unseal, Reopened, history
  <1>2. /\ pc'[f] = "advance"
        /\ \A b \in Actors : b # f => pc'[b] = pc[b]
        /\ \A g \in Flushers : g \in Actors /\ g \notin Producers
        /\ \A q \in Producers : q \in Actors /\ q \notin Flushers
    BY <1>0, <1>1, BatcherAssumption, Zenon DEF ThreadTypes, Actors
  <1>3. /\ buf[f] = drain /\ drain \in Buffers /\ active \in Buffers
        /\ \A g \in Flushers : g # f => pc[g] = "idle"
        /\ active # drain /\ Oldest = drain
    BY <1>0, <1>1, OldestIsDrain, Zenon DEF GuardInv, OnDrain, Draining, RingTypes, DrainInv
  <1>3a. Oldest' = Succ(drain)
    BY <1>1a, <1>2, Zenon DEF Oldest, At, Succ
  <1>3b. \A b \in Buffers : InRange(Succ(drain), active, b)
                             <=> InRange(drain, active, b) /\ b # drain
    BY <1>3, RangeFacts, Zenon
  <1>3c. /\ ~sealed'[drain]
         /\ \A b \in Buffers : b # drain => sealed'[b] = sealed[b]
    BY <1>0, <1>1a, <1>3, Zenon DEF RingTypes
  <1>4. RingTypes'  BY <1>0, <1>1a, Zenon DEF RingTypes
  <1>5. ThreadTypes'
    <2>2. "advance" \in FlusherPc /\ f \in Actors /\ f \notin Producers
      BY <1>2, Zenon DEF FlusherPc
    <2> QED  BY <1>0, <1>1, <1>1a, <2>2, PcTypes, Zenon DEF ThreadTypes
  <1>6. AddersInv'  BY <1>0, <1>1a, <1>2, AddersStable, Zenon
  <1>7. GuardInv'
    BY <1>0, <1>1, <1>1a, <1>2, Zenon DEF GuardInv, OnDrain, Draining, Rotating, Checks
  <1>8. SealInv'
    <2>0. /\ \A b \in Buffers : InRange(drain, active, b) => sealed[b]
          /\ \A b \in Buffers : sealed[b] => b = active \/ InRange(drain, active, b)
          /\ active' = active
      BY <1>0, <1>1a, <1>3, Zenon DEF SealInv
    <2>1. (\A b \in Buffers : InRange(Oldest, active, b) => sealed[b])'
      BY <1>3a, <1>3b, <1>3c, <2>0, Zenon
    <2>2. (\A b \in Buffers : sealed[b] => b = active \/ InRange(Oldest, active, b))'
      BY <1>3a, <1>3b, <1>3c, <2>0, Zenon
    <2>3. (sealed[active] => \E a \in Actors : At(a, "r_swap") /\ buf[a] = active)'
      BY <1>0, <1>1, <1>1a, <1>2, <1>3, <1>3c, Zenon DEF SealInv, At
    <2>4. ASSUME NEW a \in Actors, At(a, "r_swap")'  PROVE sealed'[buf[a]]
      <3>1. pc[a] = "r_swap" /\ a \in Producers
        BY <1>2, <1>3, <2>4, Zenon DEF At, Actors
      <3>2. buf[a] # drain /\ buf[a] \in Buffers
        BY <1>0, <1>1, <1>3, <3>1, Zenon
           DEF BoundInv, Bound, Rotating, Checks, Draining, ThreadTypes
      <3> QED  BY <1>0, <1>3c, <3>1, <3>2, Zenon DEF SealInv, At
    <2> QED  BY <1>1a, <2>1, <2>2, <2>3, <2>4, Zenon DEF SealInv
  <1>9. RoomInv'
    <2>1. Succ(drain) # Succ(active)  BY <1>3, SuccFacts, Zenon
    <2> QED  BY <1>1a, <1>2, <1>3a, <2>1, Zenon DEF RoomInv, Succ
  <1>10. BoundInv'
    <2>1. \A p \in Producers : Bound(p)' <=> Bound(p)
      BY <1>2, Zenon DEF Bound
    <2>2. \A p \in Producers : Bound(p) => buf[p] # drain /\ buf[p] \in Buffers
      BY <1>0, <1>1, <1>2, <1>3, Zenon DEF BoundInv, Draining, ThreadTypes
    <2>3. \A g \in Flushers : ~Draining(g)'
      BY <1>2, <1>3, Zenon DEF Draining
    <2> QED  BY <1>0, <1>1a, <1>3, <1>3a, <1>3b, <2>1, <2>2, <2>3, Zenon DEF BoundInv
  <1>11. DrainInv'
    BY <1>1, <1>1a, <1>2, <1>3, Zenon DEF DrainInv, Draining
  <1>12. SlotInv'  BY <1>0, <1>1a, <1>2, SlotStable, Zenon
  <1> QED  BY <1>4, <1>5, <1>6, <1>7, <1>8, <1>9, <1>10, <1>11, <1>12 DEF IInv

\* Moving drain_idx on preserves the invariant: it catches up with the
\* interval's start.
LEMMA AdvanceDrainInv ==
  ASSUME IInv, NEW f \in Flushers, AdvanceDrain(f)
  PROVE  IInv'
  <1>0. /\ RingTypes /\ ThreadTypes /\ AddersInv /\ GuardInv /\ SealInv
        /\ RoomInv /\ BoundInv /\ DrainInv /\ SlotInv
    BY DEF IInv
  <1>1. /\ pc' = [pc EXCEPT ![f] = "look"] /\ pc[f] = "advance"
    BY DEF AdvanceDrain, Goto, At
  <1>1a. /\ UNCHANGED <<active, sealed, flushing, index, items, buf, slot, adders,
                        item, flushIdx, calls>>
         /\ drain' = Succ(buf[f])
    BY Zenon DEF AdvanceDrain, NextDrain, history
  <1>2. /\ pc'[f] = "look"
        /\ \A b \in Actors : b # f => pc'[b] = pc[b]
        /\ \A g \in Flushers : g \in Actors /\ g \notin Producers
        /\ \A q \in Producers : q \in Actors /\ q \notin Flushers
    BY <1>0, <1>1, BatcherAssumption, Zenon DEF ThreadTypes, Actors
  <1>3. /\ buf[f] = drain /\ drain \in Buffers
        /\ \A g \in Flushers : g # f => pc[g] = "idle"
    BY <1>0, <1>1, Zenon DEF GuardInv, OnDrain, RingTypes
  <1>3a. Oldest' = Oldest
    <2>1. Oldest = Succ(drain)  BY <1>1 DEF Oldest, At
    <2>2. Oldest' = drain'  BY <1>2, <1>3, Zenon DEF Oldest, At
    <2> QED  BY <1>1a, <1>3, <2>1, <2>2, Zenon
  <1>4. RingTypes'  BY <1>0, <1>1a, <1>3, SuccFacts, Zenon DEF RingTypes
  <1>5. ThreadTypes'
    <2>2. "look" \in FlusherPc /\ f \in Actors /\ f \notin Producers
      BY <1>2 DEF FlusherPc
    <2> QED  BY <1>0, <1>1, <1>1a, <2>2, PcTypes, Zenon DEF ThreadTypes
  <1>6. AddersInv'  BY <1>0, <1>1a, <1>2, AddersStable, Zenon
  <1>7. GuardInv'
    BY <1>0, <1>1, <1>1a, <1>2, <1>3, Zenon
       DEF GuardInv, OnDrain, Draining, Rotating, Checks
  <1>8. SealInv'  BY <1>0, <1>1, <1>1a, <1>2, <1>3a, Zenon DEF SealInv, At
  <1>9. RoomInv'  BY <1>0, <1>1, <1>1a, <1>2, <1>3a, Zenon DEF RoomInv, Checks
  <1>10. BoundInv'
    BY <1>0, <1>1, <1>1a, <1>2, <1>3a, Zenon DEF BoundInv, Bound, Draining
  <1>11. DrainInv'
    BY <1>1, <1>1a, <1>2, <1>3, Zenon DEF DrainInv, Draining
  <1>12. SlotInv'  BY <1>0, <1>1a, <1>2, SlotStable, Zenon
  <1> QED  BY <1>4, <1>5, <1>6, <1>7, <1>8, <1>9, <1>10, <1>11, <1>12 DEF IInv

(***************************************************************************)
(* The theorems.                                                           *)
(***************************************************************************)
\* Every step of every thread preserves the invariant.
LEMMA NextIInv == IInv /\ [Next]_vars => IInv'
  <1> SUFFICES ASSUME IInv, [Next]_vars PROVE IInv'
    OBVIOUS
  <1>1. ASSUME NEW p \in Producers, Enqueue(p) \/ ProducerStep(p) PROVE IInv'
    <2>1. p \in Actors  BY DEF Actors
    <2> QED  BY <1>1, <2>1, FreeProducerInv, AddingIncrementInv, RecheckInv,
                FetchSlotInv, WriteSlotInv, AddingDecrementInv, RotateCheckInv,
                RotateSealInv, RotateSwapInv, Zenon DEF ProducerStep, Rotate
  <1>2. ASSUME NEW f \in Flushers, BeginFlush(f) \/ FlushStep(f) PROVE IInv'
    <2>1. f \in Actors  BY DEF Actors
    <2> QED  BY <1>2, <2>1, QuietFlushInv, LookAtDrainInv, WaitForWritersInv,
                TakeIndexInv, UnsealInv, AdvanceDrainInv, RotateCheckInv,
                RotateSealInv, RotateSwapInv, Zenon DEF FlushStep, Rotate
  <1>3. CASE UNCHANGED vars
    <2>1. UNCHANGED <<active, drain, flushing, index, adders, sealed, items, pc,
                      buf, slot, item, flushIdx, calls>>
      BY <1>3, Zenon DEF vars, ring, threads, history
    <2>2. RingTypes' /\ ThreadTypes'
      BY <2>1, Zenon DEF IInv, RingTypes, ThreadTypes
    <2>3. AddersInv' /\ GuardInv'
      BY <2>1 DEF IInv, AddersInv, GuardInv, Holding, Bound, Draining, OnDrain
    <2>4. SealInv'  BY <2>1, Zenon DEF IInv, SealInv, Oldest, At
    <2>5. RoomInv'  BY <2>1, Zenon DEF IInv, RoomInv, Oldest, At
    <2>6. BoundInv'  BY <2>1, Zenon DEF IInv, BoundInv, Bound, Draining, Oldest, At
    <2>7. DrainInv'  BY <2>1, Zenon DEF IInv, DrainInv, Draining
    <2>8. SlotInv'  BY <2>1, Zenon DEF IInv, SlotInv, At
    <2> QED  BY <2>2, <2>3, <2>4, <2>5, <2>6, <2>7, <2>8 DEF IInv
  <1> QED  BY <1>1, <1>2, <1>3 DEF Next

\* The ring's inductive invariant: the sealed buffers are the interval from the
\* oldest undrained buffer to the active one, in every interleaving of
\* sentry__batcher_enqueue, rotate_buffer and sentry__batcher_flush.
THEOREM BatcherInvariant == Spec => []IInv
  BY InitIInv, NextIInv, PTL DEF Spec

\* The indices of the ring stay inside it and every counter keeps its type.
THEOREM BatcherTypes == Spec => []TypeOK
  <1>1. IInv => TypeOK  BY DEF IInv, TypeOK
  <1> QED  BY <1>1, BatcherInvariant, PTL

\* The invariant separates the slots that are written from those that are read.
LEMMA SlotsDisjoint == IInv => NoSlotRace
  <1> SUFFICES ASSUME IInv, NEW p \in Producers, NEW b \in Buffers, Writing(p, b)
               PROVE  /\ \A f \in Flushers : ~Reading(f, b)
                      /\ \A q \in Producers \ {p} :
                           Writing(q, b) => slot[q] # slot[p]
    BY Zenon DEF NoSlotRace
  <1>1. \A f \in Flushers : ~Reading(f, b)
    BY Zenon DEF IInv, BoundInv, Bound, Draining, Writing, Reading, At
  <1>2. \A q \in Producers \ {p} : Writing(q, b) => slot[q] # slot[p]
    BY Zenon DEF IInv, SlotInv, Writing, At
  <1> QED  BY <1>1, <1>2

\* No producer writes a slot of a buffer that a flusher collects, and no two
\* producers write the same slot, although the slots are plain memory and a
\* buffer is reused as soon as it is drained.
THEOREM BatcherNoSlotRace == Spec => []NoSlotRace
  BY SlotsDisjoint, BatcherInvariant, PTL
==============================================================================
