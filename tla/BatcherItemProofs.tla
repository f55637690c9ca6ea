-------------------------- MODULE BatcherItemProofs --------------------------
(***************************************************************************)
(* Machine-checked proof that the ring of Batcher keeps every accepted     *)
(* item exactly once, for any number of producers and flushers, any ring   *)
(* of at least two buffers and any buffer length.                          *)
(*                                                                         *)
(* The argument, on top of the invariant of BatcherProofs: an item has a   *)
(* place (a filled slot or a position of what was sent) from the moment    *)
(* its producer wrote it, and only one.  A producer that has not written   *)
(* its item yet has it nowhere; one that has is still counted by `adding`, *)
(* so that its slot cannot be collected before enqueue returns.  Fetching  *)
(* a slot and resetting the index fill and empty nothing: the first is not *)
(* filled before it is written, the second hands the slots to the reader.  *)
(*                                                                         *)
(* For the order (BatcherRingOrder): what must be sent before an item lies *)
(* before it in the ring, counted from the oldest buffer in use, and what  *)
(* a flush must send lies in the buffers up to the one it began with.      *)
(***************************************************************************)
EXTENDS BatcherProofs

\* The filled slots, per buffer.
full == [b \in Buffers |-> Filled(b)]
Sent == 1 .. Len(sent)

\* A producer whose item is in its slot, enqueue not having returned.
Written(p) == pc[p] \in Rotating \cup {"rotated", "stuck"} /\ slot[p] < QueueLength

HistoryInv == /\ sent \in Seq(Nat)
              /\ accepted \subseteq 1 .. calls /\ dropped \subseteq 1 .. calls

\* The items being enqueued are distinct, and neither accepted nor dropped.
OwnInv == \A p \in Producers : pc[p] # "idle" =>
            /\ item[p] \in 1 .. calls /\ item[p] \notin accepted /\ item[p] \notin dropped
            /\ \A q \in Producers : q # p /\ pc[q] # "idle" => item[q] # item[p]

WrittenInv == \A p \in Producers : Written(p) =>
                slot[p] \in full[buf[p]] /\ items[buf[p]][slot[p]] = item[p]

\* No item has two places.
UniqueInv == /\ \A b, c \in Buffers : \A s \in full[b], r \in full[c] :
                  items[b][s] = items[c][r] => b = c /\ s = r
             /\ \A k, l \in Sent : sent[k] = sent[l] => k = l
             /\ \A b \in Buffers : \A s \in full[b] : \A k \in Sent : items[b][s] # sent[k]

\* What has a place was enqueued, not dropped, and is written.
Placed(i) == /\ i \in 1 .. calls /\ i \notin dropped
             /\ \A p \in Producers : pc[p] # "idle" /\ item[p] = i => Written(p)
PlacedInv == /\ \A b \in Buffers : \A s \in full[b] : Placed(items[b][s])
             /\ \A k \in Sent : Placed(sent[k])

\* What was accepted has a place.
KeptInv == \A i \in accepted : \/ \E b \in Buffers : \E s \in full[b] : items[b][s] = i
                               \/ \E k \in Sent : sent[k] = i

\* The reader holds what the index said when it was reset.
ReadInv == \A f \in Flushers : At(f, "read") => slot[f] <= QueueLength /\ index[buf[f]] = 0

CopyInv == /\ HistoryInv /\ OwnInv /\ WrittenInv /\ UniqueInv /\ PlacedInv
           /\ KeptInv /\ ReadInv

(***************************************************************************)
(* The filled slots.                                                       *)
(***************************************************************************)
\* The slots of b below n that no producer is writing.
Below(b, n) == {s \in Slots : s < n /\ \A p \in Producers : Writing(p, b) => slot[p] # s}

FullIs == /\ full = [b \in Buffers |-> full[b]]
          /\ \A b \in Buffers :
               /\ (\A f \in Flushers : ~Reading(f, b)) => full[b] = Below(b, index[b])
               /\ \A f \in Flushers : Reading(f, b) => full[b] = Below(b, slot[f])

\* The filled slots are counted by the index or, while a flusher collects
\* them, by its n, for only one flusher can be there.
LEMMA FullFacts == IInv => FullIs
  <1> SUFFICES ASSUME IInv PROVE FullIs
    OBVIOUS
  <1>1. full = [b \in Buffers |-> full[b]]
    BY DEF full
  <1>2. ASSUME NEW b \in Buffers, \A f \in Flushers : ~Reading(f, b)
        PROVE  full[b] = Below(b, index[b])
    BY <1>2 DEF full, Filled, Below
  <1>3. ASSUME NEW b \in Buffers, NEW f \in Flushers, Reading(f, b)
        PROVE  full[b] = Below(b, slot[f])
    <2> DEFINE g == CHOOSE h \in Flushers : Reading(h, b)
    <2>1. g \in Flushers /\ Reading(g, b)
      BY <1>3
    <2>2. g = f
      BY <1>3, <2>1 DEF IInv, GuardInv, Reading, At
    <2>3. Filled(b) = Below(b, slot[g])
      BY <1>3 DEF Filled, Below
    <2> QED  BY <2>2, <2>3, Zenon DEF full
  <1> QED  BY <1>1, <1>2, <1>3, Zenon DEF FullIs

\* A step that neither changes an index nor moves a writer or a reader fills
\* and empties no slot.
LEMMA FullStable ==
  ASSUME IInv, IInv', index' = index,
         \A p \in Producers : pc'[p] = "write" <=> pc[p] = "write",
         \A f \in Flushers : pc'[f] = "read" <=> pc[f] = "read",
         \A a \in Actors : pc[a] \in {"write", "read"} => buf'[a] = buf[a] /\ slot'[a] = slot[a]
  PROVE  full' = full
  <1>1. FullIs /\ FullIs'
    BY FullFacts, PTL
  <1>2. \A p \in Producers : \A b \in Buffers : Writing(p, b)' <=> Writing(p, b)
    BY DEF Writing, At, Actors
  <1>3. \A f \in Flushers : \A b \in Buffers : Reading(f, b)' <=> Reading(f, b)
    BY DEF Reading, At, Actors
  <1>4. ASSUME NEW b \in Buffers PROVE full'[b] = full[b]
    <2>1. CASE \E f \in Flushers : Reading(f, b)
      <3>1. PICK f \in Flushers : Reading(f, b)
        BY <2>1
      <3>2. Reading(f, b)' /\ slot'[f] = slot[f]
        BY <1>3, <3>1 DEF Reading, At, Actors
      <3>3. full'[b] = Below(b, slot[f])' /\ full[b] = Below(b, slot[f])
        BY <1>1, <3>1, <3>2 DEF FullIs
      <3>4. Below(b, slot[f])' = Below(b, slot[f])
        BY <1>2, <3>2 DEF Below, Writing, At, Actors
      <3> QED  BY <3>3, <3>4
    <2>2. CASE \A f \in Flushers : ~Reading(f, b)
      <3>1. full'[b] = Below(b, index[b])' /\ full[b] = Below(b, index[b])
        BY <1>1, <1>3, <2>2 DEF FullIs
      <3>2. Below(b, index[b])' = Below(b, index[b])
        BY <1>2 DEF Below, Writing, At, Actors
      <3> QED  BY <3>1, <3>2
    <2> QED  BY <2>1, <2>2
  <1> QED  BY <1>1, <1>4 DEF FullIs

\* A fetched slot is not filled before it is written.
LEMMA FetchSlotFull ==
  ASSUME IInv, IInv', NEW p \in Producers, FetchSlot(p)
  PROVE  full' = full
  <1> DEFINE n == index[buf[p]]
  <1>1. FullIs /\ FullIs'
    BY FullFacts, PTL
  <1>2. /\ p \in Actors /\ p \notin Flushers /\ pc[p] = "slot" /\ buf[p] \in Buffers
        /\ n \in Nat /\ buf' = buf
        /\ slot' = [slot EXCEPT ![p] = n]
        /\ index' = [index EXCEPT ![buf[p]] = n + 1]
        /\ pc' = [pc EXCEPT ![p] = IF n < QueueLength THEN "write" ELSE "r_sealed"]
    BY BatcherAssumption, Zenon
       DEF FetchSlot, IInv, RingTypes, ThreadTypes, Actors, At, Goto
  <1>3. /\ \A a \in Actors : a # p => pc'[a] = pc[a] /\ slot'[a] = slot[a]
        /\ slot'[p] = n
        /\ pc'[p] = "write" <=> n < QueueLength
        /\ \A b \in Buffers : index'[b] = IF b = buf[p] THEN n + 1 ELSE index[b]
    BY <1>2 DEF IInv, RingTypes, ThreadTypes
  <1>4. /\ \A f \in Flushers : \A b \in Buffers : Reading(f, b)' <=> Reading(f, b)
        /\ \A f \in Flushers : slot'[f] = slot[f]
        /\ \A f \in Flushers : ~Reading(f, buf[p])
    BY <1>2, <1>3 DEF Reading, At, Actors, IInv, BoundInv, Bound, Draining
  <1>5. \A q \in Producers : \A b \in Buffers :
          Writing(q, b)' <=> IF q = p THEN b = buf[p] /\ n < QueueLength ELSE Writing(q, b)
    BY <1>2, <1>3 DEF Writing, At, Actors
  <1>5a. \A b \in Buffers : ~Writing(p, b)
    BY <1>2 DEF Writing, At
  <1>6. ASSUME NEW b \in Buffers PROVE full'[b] = full[b]
    <2>1. CASE b = buf[p]
      <3>1. full'[b] = Below(b, index[b])' /\ full[b] = Below(b, n)
        BY <1>1, <1>4, <2>1 DEF FullIs
      <3>2. Below(b, index[b])' = {s \in Slots : s < n + 1 /\
              \A q \in Producers : Writing(q, b)' => slot'[q] # s}
        BY <1>3, <2>1 DEF Below
      <3>3. ASSUME NEW s \in Slots
            PROVE  s < n + 1 /\ (\A q \in Producers : Writing(q, b)' => slot'[q] # s)
                   <=> s < n /\ (\A q \in Producers : Writing(q, b) => slot[q] # s)
        <4>1. s \in Int /\ s < QueueLength
          BY BatcherAssumption DEF Slots
        <4>2. \A q \in Producers : q # p => (Writing(q, b)' <=> Writing(q, b)) /\ slot'[q] = slot[q]
          BY <1>3, <1>5 DEF Actors
        <4>3. Writing(p, b)' => slot'[p] = n
          BY <1>3
        <4>4. Writing(p, b)' <=> n < QueueLength
          BY <1>5, <2>1
        <4> QED  BY <1>2, <1>5a, <4>1, <4>2, <4>3, <4>4, BatcherAssumption
      <3> QED  BY <3>1, <3>2, <3>3 DEF Below
    <2>2. CASE b # buf[p]
      <3>1. \A m : {s \in Slots : s < m /\ \A q \in Producers : Writing(q, b)' => slot'[q] # s}
                   = Below(b, m)
        BY <1>3, <1>5, <1>5a, <2>2 DEF Below, Actors
      <3>2. CASE \E f \in Flushers : Reading(f, b)
        <4>1. PICK f \in Flushers : Reading(f, b)
          BY <3>2
        <4>2. full'[b] = Below(b, slot[f])' /\ full[b] = Below(b, slot[f])
          BY <1>1, <1>4, <4>1 DEF FullIs
        <4>3. Below(b, slot[f])' = Below(b, slot[f])
          BY <1>4, <3>1 DEF Below
        <4> QED  BY <4>2, <4>3
      <3>3. CASE \A f \in Flushers : ~Reading(f, b)
        <4>1. full'[b] = Below(b, index[b])' /\ full[b] = Below(b, index[b])
          BY <1>1, <1>4, <3>3 DEF FullIs
        <4>2. Below(b, index[b])' = Below(b, index[b])
          BY <1>3, <2>2, <3>1 DEF Below
        <4> QED  BY <4>1, <4>2
      <3> QED  BY <3>2, <3>3
    <2> QED  BY <2>1, <2>2
  <1> QED  BY <1>1, <1>6 DEF FullIs

\* Resetting the index hands the filled slots to the reader.
LEMMA TakeIndexFull ==
  ASSUME IInv, IInv', NEW f \in Flushers, TakeIndex(f)
  PROVE  /\ full' = full
         /\ slot'[f] <= QueueLength /\ index'[buf[f]] = 0
  <1> DEFINE n == index[buf[f]]
  <1> DEFINE m == IF n > QueueLength THEN QueueLength ELSE n
  <1>1. FullIs /\ FullIs'
    BY FullFacts, PTL
  <1>2. /\ f \in Actors /\ f \notin Producers /\ pc[f] = "take" /\ buf[f] \in Buffers
        /\ n \in Nat /\ m \in Nat /\ m <= QueueLength /\ buf' = buf
        /\ slot' = [slot EXCEPT ![f] = m]
        /\ index' = [index EXCEPT ![buf[f]] = 0]
        /\ pc' = [pc EXCEPT ![f] = "read"]
    BY BatcherAssumption
       DEF TakeIndex, IInv, RingTypes, ThreadTypes, Actors, At, Goto
  <1> HIDE DEF m
  <1>3. /\ \A a \in Actors : a # f => pc'[a] = pc[a] /\ slot'[a] = slot[a]
        /\ slot'[f] = m /\ pc'[f] = "read"
        /\ \A b \in Buffers : index'[b] = IF b = buf[f] THEN 0 ELSE index[b]
    BY <1>2, Zenon DEF IInv, RingTypes, ThreadTypes
  <1>4. \A b \in Buffers : \A g \in Flushers :
          ~Reading(g, b) /\ (Reading(g, b)' <=> g = f /\ b = buf[f])
    BY <1>2, <1>3, Zenon DEF Reading, At, Actors, IInv, GuardInv
  <1>5. \A b \in Buffers : \A k :
          {s \in Slots : s < k /\ \A q \in Producers : Writing(q, b)' => slot'[q] # s} = Below(b, k)
    BY <1>2, <1>3 DEF Below, Writing, At, Actors
  <1>6. ASSUME NEW b \in Buffers PROVE full'[b] = full[b]
    <2>1. full[b] = Below(b, index[b])
      BY <1>1, <1>4 DEF FullIs
    <2>2. CASE b = buf[f]
      <3>1. full'[b] = Below(b, slot[f])'
        BY <1>1, <1>4, <2>2 DEF FullIs
      <3>2. Below(b, slot[f])' = Below(b, m)
        BY <1>3, <1>5 DEF Below
      <3>3. \A s \in Slots : s < m <=> s < n
        BY <1>2, BatcherAssumption DEF m, Slots
      <3> QED  BY <2>1, <2>2, <3>1, <3>2, <3>3 DEF Below
    <2>3. CASE b # buf[f]
      <3>1. full'[b] = Below(b, index[b])'
        BY <1>1, <1>4, <2>3 DEF FullIs
      <3>2. Below(b, index[b])' = Below(b, index[b])
        BY <1>3, <1>5, <2>3 DEF Below
      <3> QED  BY <2>1, <3>1, <3>2
    <2> QED  BY <2>2, <2>3
  <1> QED  BY <1>1, <1>2, <1>3, <1>6 DEF FullIs

\* Writing a slot fills it, and no other.
LEMMA WriteSlotFull ==
  ASSUME IInv, IInv', NEW p \in Producers, WriteSlot(p)
  PROVE  /\ buf[p] \in Buffers /\ slot[p] \in Slots /\ slot[p] \notin full[buf[p]]
         /\ full' = [full EXCEPT ![buf[p]] = @ \cup {slot[p]}]
         /\ items' = [items EXCEPT ![buf[p]][slot[p]] = item[p]]
  <1>1. FullIs /\ FullIs'
    BY FullFacts, PTL
  <1>2. /\ p \in Actors /\ p \notin Flushers /\ pc[p] = "write" /\ buf[p] \in Buffers
        /\ slot[p] \in Slots /\ slot[p] < index[buf[p]]
        /\ UNCHANGED <<buf, slot, index>>
        /\ pc' = [pc EXCEPT ![p] = IF slot[p] = QueueLength - 1 THEN "r_sealed" ELSE "rotated"]
        /\ items' = [items EXCEPT ![buf[p]][slot[p]] = item[p]]
    BY BatcherAssumption
       DEF WriteSlot, IInv, RingTypes, ThreadTypes, SlotInv, Slots, Actors, At, Goto
  <1>3. pc'[p] # "write" /\ \A a \in Actors : a # p => pc'[a] = pc[a]
    BY <1>2 DEF IInv, ThreadTypes
  <1>4. /\ \A f \in Flushers : \A b \in Buffers : Reading(f, b)' <=> Reading(f, b)
        /\ \A f \in Flushers : ~Reading(f, buf[p])
    BY <1>2, <1>3 DEF Reading, At, Actors, IInv, BoundInv, Bound, Draining
  <1>5. \A q \in Producers : \A b \in Buffers :
          Writing(q, b)' <=> q # p /\ Writing(q, b)
    BY <1>2, <1>3 DEF Writing, At, Actors
  <1>6. /\ Writing(p, buf[p])
        /\ \A b \in Buffers : Writing(p, b) => b = buf[p]
        /\ \A q \in Producers : q # p /\ Writing(q, buf[p]) => slot[q] # slot[p]
    BY <1>2, Zenon DEF Writing, At, IInv, SlotInv
  <1>7. full[buf[p]] = Below(buf[p], index[buf[p]]) /\ slot[p] \notin full[buf[p]]
    BY <1>1, <1>2, <1>4, <1>6 DEF FullIs, Below
  <1>8. ASSUME NEW b \in Buffers
        PROVE  full'[b] = IF b = buf[p] THEN full[b] \cup {slot[p]} ELSE full[b]
    <2>1. CASE b = buf[p]
      <3>1. full'[b] = Below(b, index[b])'
        BY <1>1, <1>4, <2>1 DEF FullIs
      <3>2. Below(b, index[b])' =
              {s \in Slots : s < index[b] /\ \A q \in Producers : Writing(q, b)' => slot[q] # s}
        BY <1>2 DEF Below
      <3>3. ASSUME NEW s \in Slots
            PROVE  s < index[b] /\ (\A q \in Producers : Writing(q, b)' => slot[q] # s)
                   <=> s \in Below(b, index[b]) \/ s = slot[p]
        BY <1>2, <1>5, <1>6, <2>1 DEF Below
      <3>4. Below(b, index[b]) \subseteq Slots
        BY DEF Below
      <3> QED  BY <1>2, <1>7, <2>1, <3>1, <3>2, <3>3, <3>4
    <2>2. CASE b # buf[p]
      <3>1. \A m : {s \in Slots : s < m /\ \A q \in Producers : Writing(q, b)' => slot'[q] # s}
                   = Below(b, m)
        BY <1>2, <1>5, <1>6, <2>2 DEF Below
      <3>2. CASE \E f \in Flushers : Reading(f, b)
        <4>1. PICK f \in Flushers : Reading(f, b)
          BY <3>2
        <4>2. full'[b] = Below(b, slot[f])' /\ full[b] = Below(b, slot[f])
          BY <1>1, <1>4, <4>1 DEF FullIs
        <4>3. Below(b, slot[f])' = Below(b, slot[f])
          BY <1>2, <3>1 DEF Below
        <4> QED  BY <2>2, <4>2, <4>3
      <3>3. CASE \A f \in Flushers : ~Reading(f, b)
        <4>1. full'[b] = Below(b, index[b])' /\ full[b] = Below(b, index[b])
          BY <1>1, <1>4, <3>3 DEF FullIs
        <4>2. Below(b, index[b])' = Below(b, index[b])
          BY <1>2, <3>1 DEF Below
        <4> QED  BY <2>2, <4>1, <4>2, Zenon
      <3> QED  BY <3>2, <3>3
    <2> QED  BY <2>1, <2>2, Zenon
  <1>9. full' = [full EXCEPT ![buf[p]] = @ \cup {slot[p]}]
    BY <1>1, <1>2, <1>8 DEF FullIs
  <1> QED  BY <1>2, <1>7, <1>9

\* What the slots then hold.
LEMMA WriteSlotPlaces ==
  ASSUME IInv, IInv', NEW p \in Producers, WriteSlot(p)
  PROVE  /\ \A b \in Buffers : full'[b] = IF b = buf[p] THEN full[b] \cup {slot[p]} ELSE full[b]
         /\ items'[buf[p]][slot[p]] = item[p]
         /\ \A b \in Buffers : \A s \in full[b] : items'[b][s] = items[b][s]
  <1>0. /\ buf[p] \in Buffers /\ slot[p] \in Slots /\ slot[p] \notin full[buf[p]]
        /\ full' = [full EXCEPT ![buf[p]] = @ \cup {slot[p]}]
        /\ items' = [items EXCEPT ![buf[p]][slot[p]] = item[p]]
    BY WriteSlotFull
  <1>1. items \in [Buffers -> [Slots -> Nat]] /\ \A b \in Buffers : full[b] \subseteq Slots
    BY DEF full, Filled, IInv, RingTypes
  <1>2. \A b \in Buffers : full'[b] = IF b = buf[p] THEN full[b] \cup {slot[p]} ELSE full[b]
    <2>1. full = [b \in Buffers |-> full[b]]
      BY DEF full
    <2> QED  BY <1>0, <2>1, Zenon
  <1>3. items'[buf[p]][slot[p]] = item[p]
    BY <1>0, <1>1
  <1>4. ASSUME NEW b \in Buffers, NEW s \in full[b] PROVE items'[b][s] = items[b][s]
    <2>1. CASE b = buf[p]
      <3>1. s # slot[p] /\ s \in Slots
        BY <1>0, <1>1, <2>1
      <3> QED  BY <1>0, <1>1, <2>1, <3>1, Zenon
    <2>2. CASE b # buf[p]
      BY <1>0, <1>1, <2>2
    <2> QED  BY <2>1, <2>2
  <1> QED  BY <1>2, <1>3, <1>4, Zenon

\* Collecting a buffer empties it: what its slots held is now at the end of
\* what was sent.
LEMMA ReadItemsFull ==
  ASSUME IInv, IInv', HistoryInv, ReadInv, NEW f \in Flushers, ReadItems(f)
  PROVE  /\ buf[f] \in Buffers /\ slot[f] \in 0 .. QueueLength
         /\ full[buf[f]] = 0 .. slot[f] - 1
         /\ full' = [full EXCEPT ![buf[f]] = {}]
         /\ items' = items
         /\ sent' \in Seq(Nat) /\ Len(sent') = Len(sent) + slot[f]
         /\ \A k \in Sent : sent'[k] = sent[k]
         /\ \A s \in 0 .. slot[f] - 1 : sent'[Len(sent) + s + 1] = items[buf[f]][s]
  <1>1. FullIs /\ FullIs'
    BY FullFacts, PTL
  <1>2. /\ f \in Actors /\ f \notin Producers /\ pc[f] = "read" /\ buf[f] \in Buffers
        /\ slot[f] \in 0 .. QueueLength /\ index[buf[f]] = 0
        /\ UNCHANGED <<buf, slot, index, items>>
        /\ pc' = [pc EXCEPT ![f] = "unseal"]
    BY BatcherAssumption
       DEF ReadItems, IInv, RingTypes, ThreadTypes, ReadInv, Actors, At, Goto, ring
  <1>3. pc'[f] = "unseal" /\ \A a \in Actors : a # f => pc'[a] = pc[a]
    BY <1>2, Zenon DEF IInv, ThreadTypes
  <1>4. /\ Reading(f, buf[f])
        /\ \A g \in Flushers : \A b \in Buffers : ~Reading(g, b)'
        /\ \A g \in Flushers : \A b \in Buffers : Reading(g, b) => b = buf[f]
    BY <1>2, <1>3, Zenon DEF Reading, At, Actors, IInv, GuardInv
  <1>5. /\ \A q \in Producers : \A b \in Buffers : Writing(q, b)' <=> Writing(q, b)
        /\ \A q \in Producers : ~Writing(q, buf[f])
    BY <1>2, <1>3, Zenon DEF Writing, At, Actors, IInv, BoundInv, Bound, Draining
  <1>6. full[buf[f]] = 0 .. slot[f] - 1
    <2>1. full[buf[f]] = {s \in Slots : s < slot[f]}
      BY <1>1, <1>2, <1>4, <1>5 DEF FullIs, Below
    <2> QED  BY <1>2, <2>1, BatcherAssumption DEF Slots
  <1>7. ASSUME NEW b \in Buffers PROVE full'[b] = IF b = buf[f] THEN {} ELSE full[b]
    <2>1. full'[b] = Below(b, index[b])'
      BY <1>1, <1>4 DEF FullIs
    <2>2. Below(b, index[b])' = Below(b, index[b])
      BY <1>2, <1>5 DEF Below
    <2>3. CASE b = buf[f]
      <3>1. \A s \in Slots : ~(s < 0)
        BY BatcherAssumption DEF Slots
      <3> QED  BY <1>2, <2>1, <2>2, <2>3, <3>1, Zenon DEF Below
    <2>4. CASE b # buf[f]
      BY <1>1, <1>4, <2>1, <2>2, <2>4 DEF FullIs
    <2> QED  BY <2>3, <2>4
  <1>8. full' = [full EXCEPT ![buf[f]] = {}]
    BY <1>1, <1>2, <1>7 DEF FullIs
  <1>9. /\ sent' \in Seq(Nat) /\ Len(sent') = Len(sent) + slot[f]
        /\ \A k \in Sent : sent'[k] = sent[k]
        /\ \A s \in 0 .. slot[f] - 1 : sent'[Len(sent) + s + 1] = items[buf[f]][s]
    <2> DEFINE batch == [s \in 1 .. slot[f] |-> items[buf[f]][s - 1]]
    <2>1. \A s \in 1 .. slot[f] : s - 1 \in Slots /\ items[buf[f]][s - 1] \in Nat
      <3>1. \A s \in 1 .. slot[f] : s - 1 \in Slots
        BY <1>2, BatcherAssumption DEF Slots
      <3>2. items[buf[f]] \in [Slots -> Nat]
        BY <1>2, Zenon DEF IInv, RingTypes
      <3> QED  BY <3>1, <3>2
    <2>2. batch \in Seq(Nat) /\ Len(batch) = slot[f]
      <3>1. slot[f] \in Nat /\ batch \in [1 .. slot[f] -> Nat]
        BY <1>2, <2>1
      <3> HIDE DEF batch
      <3>2. batch \in Seq(Nat)
        BY <3>1
      <3>3. Len(batch) \in Nat /\ DOMAIN batch = 1 .. Len(batch)
        BY <3>2
      <3> QED  BY <3>1, <3>2, <3>3
    <2>3. \A s \in 0 .. slot[f] - 1 : batch[s + 1] = items[buf[f]][s]
      BY <1>2
    <2>4. sent' = sent \o batch
      BY Zenon DEF ReadItems
    <2> HIDE DEF batch
    <2> QED  BY <1>2, <2>2, <2>3, <2>4 DEF HistoryInv, Sent
  <1> QED  BY <1>2, <1>6, <1>8, <1>9, Zenon

(***************************************************************************)
(* The steps.                                                              *)
(***************************************************************************)
\* The empty queue satisfies the invariant.
LEMMA InitCopyInv == IInv /\ Init => CopyInv
  <1> SUFFICES ASSUME IInv, Init PROVE CopyInv
    OBVIOUS
  <1>1. Sent = {} /\ sent \in Seq(Nat)
    BY DEF Init, Sent
  <1>2. \A b \in Buffers : full[b] = {}
    <2>1. \A s \in Slots : ~(s < 0)
      BY BatcherAssumption DEF Slots
    <2>2. IInv => FullIs
      BY FullFacts
    <2>3. \A f \in Flushers : \A b \in Buffers : ~Reading(f, b)
      BY DEF Init, Reading, At, Actors
    <2>4. \A b \in Buffers : full[b] = Below(b, 0)
      BY <2>2, <2>3 DEF Init, FullIs
    <2> QED  BY <2>1, <2>4 DEF Below
  <1>3. HistoryInv /\ OwnInv /\ WrittenInv
    BY <1>1 DEF Init, HistoryInv, OwnInv, WrittenInv, Written, Rotating, Checks, Actors
  <1>4. UniqueInv /\ PlacedInv /\ KeptInv
    BY <1>1, <1>2, Zenon DEF Init, UniqueInv, PlacedInv, KeptInv
  <1>5. ReadInv
    BY DEF Init, ReadInv, At, Actors
  <1> QED  BY <1>3, <1>4, <1>5 DEF CopyInv

\* A step that places no item, and neither begins nor ends a call of enqueue,
\* preserves the invariant.
LEMMA QuietCopyInv ==
  ASSUME CopyInv, full' = full, ReadInv', UNCHANGED <<items, sent, item, calls, accepted, dropped>>,
         \A p \in Producers : pc'[p] = "idle" <=> pc[p] = "idle",
         \A p \in Producers : Written(p)' <=> Written(p),
         \A p \in Producers : Written(p) => buf'[p] = buf[p] /\ slot'[p] = slot[p]
  PROVE  CopyInv'
  <1> USE DEF CopyInv
  <1>1. HistoryInv' /\ OwnInv'
    BY Zenon DEF HistoryInv, OwnInv
  <1>2. WrittenInv'
    BY Zenon DEF WrittenInv
  <1>3. Sent' = Sent
    BY DEF Sent
  <1>4. UniqueInv' /\ KeptInv'
    BY <1>3 DEF UniqueInv, KeptInv
  <1>5. PlacedInv'
    BY <1>3, Zenon DEF PlacedInv, Placed
  <1> QED  BY <1>1, <1>2, <1>4, <1>5, Zenon

\* The steps of a producer before and after its item is placed.
LEMMA QuietProducerCopyInv ==
  ASSUME IInv, IInv', CopyInv, NEW p \in Producers,
         LoadActive(p) \/ CheckSealed(p) \/ AddingIncrement(p) \/ Recheck(p) \/ Rotate(p)
  PROVE  CopyInv'
  <1>1. /\ p \in Actors /\ p \notin Flushers
        /\ UNCHANGED <<index, items, slot, sent, item, calls, accepted, dropped>>
        /\ \A a \in Actors : a # p => buf'[a] = buf[a]
        /\ pc[p] # "load" => buf' = buf
    BY BatcherAssumption, Zenon
       DEF Actors, IInv, ThreadTypes, LoadActive, CheckSealed, AddingIncrement, Recheck,
           Rotate, RotateCheck, RotateSeal, RotateSwap, RotateFail, ring, history, At
  <1>2. PICK l : /\ pc' = [pc EXCEPT ![p] = l]
                 /\ \/ /\ pc[p] \in {"load", "sealed", "add", "recheck", "resealed"}
                       /\ l \in {"load", "sealed", "add", "recheck", "resealed", "undo", "slot"}
                    \/ pc[p] \in Rotating /\ l \in Rotating \cup {"rotated", "stuck"}
    BY Zenon DEF LoadActive, CheckSealed, AddingIncrement, Recheck, Rotate, RotateCheck, RotateSeal,
           RotateSwap, RotateFail, Rotating, Checks, At, Goto
  <1>3. pc'[p] = l /\ \A a \in Actors : a # p => pc'[a] = pc[a]
    BY <1>1, <1>2, Zenon DEF IInv, ThreadTypes
  <1>4. full' = full
    BY <1>1, <1>2, <1>3, FullStable, Zenon DEF Actors, Rotating, Checks
  <1>5. ReadInv'
    BY <1>1, <1>3, Zenon DEF CopyInv, ReadInv, At, Actors
  <1>6. \A q \in Producers : (pc'[q] = "idle" <=> pc[q] = "idle") /\ (Written(q)' <=> Written(q))
    BY <1>1, <1>2, <1>3, Zenon DEF Written, Rotating, Checks, Actors
  <1>7. \A q \in Producers : Written(q) => buf'[q] = buf[q] /\ slot'[q] = slot[q]
    BY <1>1, Zenon DEF Written, Rotating, Checks, Actors
  <1> QED  BY <1>1, <1>4, <1>5, <1>6, <1>7, QuietCopyInv, Zenon

\* Fetching a slot.
LEMMA FetchSlotCopyInv ==
  ASSUME IInv, IInv', CopyInv, NEW p \in Producers, FetchSlot(p)
  PROVE  CopyInv'
  <1>1. /\ p \in Actors /\ p \notin Flushers /\ pc[p] = "slot" /\ index[buf[p]] \in Nat
        /\ UNCHANGED <<buf, items, sent, item, calls, accepted, dropped>>
        /\ slot' = [slot EXCEPT ![p] = index[buf[p]]]
        /\ pc' = [pc EXCEPT ![p] = IF index[buf[p]] < QueueLength THEN "write" ELSE "r_sealed"]
        /\ index' = [index EXCEPT ![buf[p]] = index[buf[p]] + 1]
    BY BatcherAssumption, Zenon
       DEF Actors, IInv, RingTypes, ThreadTypes, FetchSlot, history, At, Goto
  <1>2. /\ pc'[p] = IF index[buf[p]] < QueueLength THEN "write" ELSE "r_sealed"
        /\ slot'[p] = index[buf[p]]
        /\ \A a \in Actors : a # p => pc'[a] = pc[a] /\ slot'[a] = slot[a]
    BY <1>1, Zenon DEF IInv, ThreadTypes
  <1>3. ReadInv'
    <2>1. \A f \in Flushers : At(f, "read") => buf[f] # buf[p]
      BY <1>1, Zenon DEF IInv, BoundInv, Bound, Draining, At
    <2>2. \A b \in Buffers : b # buf[p] => index'[b] = index[b]
      BY <1>1, Zenon DEF IInv, RingTypes
    <2>3. \A f \in Flushers : buf[f] \in Buffers /\ f \in Actors
      BY DEF IInv, ThreadTypes, Actors
    <2> QED  BY <1>1, <1>2, <2>1, <2>2, <2>3 DEF CopyInv, ReadInv, At
  <1>4. ~Written(p) /\ ~Written(p)'
    BY <1>1, <1>2, BatcherAssumption DEF Written, Rotating, Checks
  <1>5. \A q \in Producers : /\ pc'[q] = "idle" <=> pc[q] = "idle"
                             /\ Written(q)' <=> Written(q)
                             /\ Written(q) => buf'[q] = buf[q] /\ slot'[q] = slot[q]
    BY <1>1, <1>2, <1>4 DEF Written, Actors
  <1> QED  BY <1>1, <1>3, <1>5, FetchSlotFull, QuietCopyInv, Zenon

\* A call of enqueue begins, with an item that is nowhere yet.
LEMMA EnqueueCopyInv ==
  ASSUME IInv, IInv', CopyInv, NEW p \in Producers, Enqueue(p)
  PROVE  CopyInv'
  <1> USE DEF CopyInv
  <1>1. /\ p \in Actors /\ p \notin Flushers /\ pc[p] = "idle" /\ calls \in Nat
        /\ UNCHANGED <<index, buf, slot, items, sent, accepted, dropped>>
        /\ calls' = calls + 1
        /\ item' = [item EXCEPT ![p] = calls + 1]
        /\ pc' = [pc EXCEPT ![p] = "load"]
    BY BatcherAssumption, Zenon DEF Actors, IInv, ThreadTypes, Enqueue, ring, At, Goto
  <1>2. /\ pc'[p] = "load" /\ item'[p] = calls + 1
        /\ \A a \in Actors : a # p => pc'[a] = pc[a]
        /\ \A q \in Producers : q # p => item'[q] = item[q]
    BY <1>1, Zenon DEF IInv, ThreadTypes
  <1>3. full' = full /\ Sent' = Sent
    BY <1>1, <1>2, FullStable, Zenon DEF Actors, Sent
  <1>4. \A q \in Producers : Written(q)' <=> Written(q)
    BY <1>1, <1>2 DEF Written, Rotating, Checks, Actors
  <1>5. 1 .. calls' = (1 .. calls) \cup {calls + 1} /\ calls + 1 \notin 1 .. calls
    BY <1>1
  <1>6. HistoryInv' /\ OwnInv'
    BY <1>1, <1>2, <1>5 DEF HistoryInv, OwnInv, Actors
  <1>7. WrittenInv'
    BY <1>1, <1>2, <1>3, <1>4, Zenon DEF WrittenInv, Written, Rotating, Checks
  <1>8. UniqueInv' /\ KeptInv'
    BY <1>1, <1>3 DEF UniqueInv, KeptInv
  <1>9. PlacedInv'
    BY <1>1, <1>2, <1>3, <1>4, <1>5 DEF PlacedInv, Placed, Actors
  <1>10. ReadInv'
    BY <1>1, <1>2, Zenon DEF ReadInv, At, Actors
  <1> QED  BY <1>6, <1>7, <1>8, <1>9, <1>10

\* The end of an attempt: the item that was written is accepted where it is,
\* one that was not is tried again.
LEMMA AddingDecrementCopyInv ==
  ASSUME IInv, IInv', CopyInv, NEW p \in Producers, AddingDecrement(p)
  PROVE  CopyInv'
  <1>1. /\ p \in Actors /\ p \notin Flushers /\ pc[p] \in {"undo", "rotated", "stuck"}
        /\ slot[p] \in Nat
        /\ UNCHANGED <<index, buf, slot, items, item, sent, calls, dropped>>
    BY BatcherAssumption, Zenon DEF Actors, IInv, ThreadTypes, AddingDecrement, At
  <1>2. PICK l : /\ pc' = [pc EXCEPT ![p] = l]
                 /\ \/ l = "idle" /\ Written(p) /\ accepted' = accepted \cup {item[p]}
                    \/ l \in {"load", "last"} /\ ~Written(p) /\ UNCHANGED accepted
    BY <1>1, BatcherAssumption DEF AddingDecrement, Written, Rotating, Checks, At, Goto
  <1>3. pc'[p] = l /\ \A a \in Actors : a # p => pc'[a] = pc[a]
    BY <1>1, <1>2, Zenon DEF IInv, ThreadTypes
  <1>4. full' = full /\ Sent' = Sent
    BY <1>1, <1>2, <1>3, FullStable, Zenon DEF Actors, Sent
  <1>5. ReadInv'
    BY <1>1, <1>3, Zenon DEF CopyInv, ReadInv, At, Actors
  <1>6. /\ ~Written(p)'
        /\ \A q \in Producers : q # p => (Written(q)' <=> Written(q)) /\ pc'[q] = pc[q]
    BY <1>1, <1>2, <1>3, Zenon DEF Written, Rotating, Checks, Actors
  <1>7. CASE l # "idle"
    BY <1>1, <1>2, <1>3, <1>4, <1>5, <1>6, <1>7, QuietCopyInv, Zenon
  <1>8. CASE l = "idle"
    <2> USE DEF CopyInv
    <2>1. HistoryInv' /\ OwnInv'
      BY <1>1, <1>2, <1>3, <1>6, <1>8, ZenonT(60) DEF HistoryInv, OwnInv
    <2>2. WrittenInv'
      BY <1>1, <1>4, <1>6, Zenon DEF WrittenInv
    <2>3. UniqueInv'
      BY <1>1, <1>4 DEF UniqueInv
    <2>4. PlacedInv'
      BY <1>1, <1>3, <1>4, <1>6, <1>8, Zenon DEF PlacedInv, Placed
    <2>5. KeptInv'
      <3>1. \E b \in Buffers : \E s \in full[b] : items[b][s] = item[p]
        BY <1>1, <1>2, <1>8, Zenon DEF WrittenInv, IInv, ThreadTypes
      <3> QED  BY <1>1, <1>2, <1>4, <1>8, <3>1, Zenon DEF KeptInv
    <2> QED  BY <1>5, <2>1, <2>2, <2>3, <2>4, <2>5
  <1> QED  BY <1>7, <1>8

\* An item is dropped that was placed nowhere.
LEMMA RetryOrDropCopyInv ==
  ASSUME IInv, IInv', CopyInv, NEW p \in Producers, RetryOrDrop(p)
  PROVE  CopyInv'
  <1>1. /\ p \in Actors /\ p \notin Flushers /\ pc[p] = "last"
        /\ UNCHANGED <<index, buf, slot, items, item, sent, calls, accepted>>
    BY BatcherAssumption, Zenon DEF Actors, IInv, ThreadTypes, RetryOrDrop, ring, At
  <1>2. PICK l : /\ pc' = [pc EXCEPT ![p] = l]
                 /\ \/ l = "idle" /\ dropped' = dropped \cup {item[p]}
                    \/ l = "load" /\ UNCHANGED dropped
    BY Zenon DEF RetryOrDrop, Goto
  <1>3. pc'[p] = l /\ \A a \in Actors : a # p => pc'[a] = pc[a]
    BY <1>1, <1>2, Zenon DEF IInv, ThreadTypes
  <1>4. full' = full /\ Sent' = Sent
    BY <1>1, <1>2, <1>3, FullStable, Zenon DEF Actors, Sent
  <1>5. ReadInv'
    BY <1>1, <1>3, Zenon DEF CopyInv, ReadInv, At, Actors
  <1>6. /\ ~Written(p) /\ ~Written(p)'
        /\ \A q \in Producers : q # p => (Written(q)' <=> Written(q)) /\ pc'[q] = pc[q]
    BY <1>1, <1>2, <1>3, Zenon DEF Written, Rotating, Checks, Actors
  <1>7. CASE l # "idle"
    BY <1>1, <1>2, <1>3, <1>4, <1>5, <1>6, <1>7, QuietCopyInv, Zenon
  <1>8. CASE l = "idle"
    <2> USE DEF CopyInv
    <2>1. HistoryInv' /\ OwnInv'
      BY <1>1, <1>2, <1>3, <1>6, <1>8, Zenon DEF HistoryInv, OwnInv
    <2>2. WrittenInv'
      BY <1>1, <1>4, <1>6, Zenon DEF WrittenInv
    <2>3. UniqueInv' /\ KeptInv'
      BY <1>1, <1>4 DEF UniqueInv, KeptInv
    <2>4. PlacedInv'
      BY <1>1, <1>2, <1>3, <1>4, <1>6, <1>8 DEF PlacedInv, Placed
    <2> QED  BY <1>5, <2>1, <2>2, <2>3, <2>4
  <1> QED  BY <1>7, <1>8

\* The item gets its place.
LEMMA WriteSlotCopyInv ==
  ASSUME IInv, IInv', CopyInv, NEW p \in Producers, WriteSlot(p)
  PROVE  CopyInv'
  <1> USE DEF CopyInv
  <1> DEFINE l == IF slot[p] = QueueLength - 1 THEN "r_sealed" ELSE "rotated"
  <1>1. /\ p \in Actors /\ p \notin Flushers /\ pc[p] = "write"
        /\ UNCHANGED <<index, buf, slot, item, sent, calls, accepted, dropped>>
        /\ pc' = [pc EXCEPT ![p] = l]
    BY BatcherAssumption, Zenon DEF Actors, IInv, ThreadTypes, WriteSlot, history, At, Goto
  <1>2. pc'[p] = l /\ \A a \in Actors : a # p => pc'[a] = pc[a]
    BY <1>1, Zenon DEF IInv, ThreadTypes
  <1>3. /\ buf[p] \in Buffers /\ slot[p] \in Slots /\ slot[p] \notin full[buf[p]]
        /\ full' = [full EXCEPT ![buf[p]] = @ \cup {slot[p]}]
        /\ items' = [items EXCEPT ![buf[p]][slot[p]] = item[p]]
    BY WriteSlotFull, Zenon
  <1>4. /\ \A b \in Buffers : full'[b] = IF b = buf[p] THEN full[b] \cup {slot[p]} ELSE full[b]
        /\ items'[buf[p]][slot[p]] = item[p]
        /\ \A b \in Buffers : \A s \in full[b] : items'[b][s] = items[b][s]
    BY WriteSlotPlaces, Zenon
  <1>5. /\ ~Written(p) /\ Written(p)'
        /\ \A q \in Producers : q # p => (Written(q)' <=> Written(q)) /\ pc'[q] = pc[q]
    BY <1>1, <1>2, <1>3, BatcherAssumption DEF Written, Rotating, Checks, Actors, Slots
  <1>6. /\ \A b \in Buffers : \A s \in full[b] : items[b][s] # item[p]
        /\ \A k \in Sent : sent[k] # item[p]
        /\ Sent' = Sent
    BY <1>1, <1>5, Zenon DEF PlacedInv, Placed, Sent
  <1>7. HistoryInv' /\ OwnInv'
    BY <1>1, <1>2, <1>5, Zenon DEF HistoryInv, OwnInv
  <1>8. WrittenInv'
    <2>1. \A q \in Producers : buf[q] \in Buffers
      BY Zenon DEF IInv, ThreadTypes, Actors
    <2> QED  BY <1>1, <1>4, <1>5, <2>1, ZenonT(60) DEF WrittenInv
  <1> HIDE DEF l
  <1>9. UniqueInv'
    <2>1. ASSUME NEW b \in Buffers, NEW c \in Buffers, NEW s \in full'[b], NEW r \in full'[c],
                 items'[b][s] = items'[c][r]
          PROVE  b = c /\ s = r
      <3>1. s \in full[b] \/ (b = buf[p] /\ s = slot[p])
        BY <1>4, ZenonT(60)
      <3>2. r \in full[c] \/ (c = buf[p] /\ r = slot[p])
        BY <1>4, ZenonT(60)
      <3> QED  BY <1>4, <1>6, <2>1, <3>1, <3>2 DEF UniqueInv
    <2>2. ASSUME NEW b \in Buffers, NEW s \in full'[b], NEW k \in Sent
          PROVE  items'[b][s] # sent[k]
      <3>1. s \in full[b] \/ (b = buf[p] /\ s = slot[p])
        BY <1>4, Zenon
      <3> QED  BY <1>4, <1>6, <3>1 DEF UniqueInv
    <2> QED  BY <1>1, <1>6, <2>1, <2>2 DEF UniqueInv
  <1>10. PlacedInv'
    <2>1. \A i : Placed(i) => Placed(i)'
      BY <1>1, <1>2, <1>5, Zenon DEF Placed
    <2>2. Placed(item[p])'
      BY <1>1, <1>5, Zenon DEF Placed, OwnInv
    <2>3. ASSUME NEW b \in Buffers, NEW s \in full'[b] PROVE Placed(items[b][s])'
      <3>1. CASE s \in full[b]
        <4>1. Placed(items[b][s]) /\ items'[b][s] = items[b][s]
          BY <1>4, <3>1, Zenon DEF PlacedInv
        <4> QED  BY <1>1, <1>2, <1>5, <4>1, Zenon DEF Placed
      <3>2. CASE s \notin full[b]
        <4>1. items'[b][s] = item[p] /\ item'[p] = item[p]
          BY <1>1, <1>4, <3>2, ZenonT(60)
        <4> QED  BY <2>2, <4>1, Zenon DEF Placed
      <3> QED  BY <3>1, <3>2
    <2>4. \A k \in Sent : Placed(sent[k])'
      BY <1>1, <1>2, <1>5, Zenon DEF PlacedInv, Placed
    <2> QED  BY <1>6, <2>3, <2>4, Zenon DEF PlacedInv
  <1>11. KeptInv'
    <2>1. \A b \in Buffers : \A s \in full[b] : s \in full'[b] /\ items'[b][s] = items[b][s]
      BY <1>4, Zenon
    <2> QED  BY <1>1, <1>6, <2>1 DEF KeptInv
  <1>12. ReadInv'
    BY <1>1, <1>2, Zenon DEF ReadInv, At, Actors
  <1> QED  BY <1>7, <1>8, <1>9, <1>10, <1>11, <1>12

\* The items of a buffer move to what was sent.
LEMMA ReadItemsCopyInv ==
  ASSUME IInv, IInv', CopyInv, NEW f \in Flushers, ReadItems(f)
  PROVE  CopyInv'
  <1> USE DEF CopyInv
  <1>1. /\ f \in Actors /\ f \notin Producers /\ pc[f] = "read"
        /\ UNCHANGED <<index, buf, slot, item, calls, accepted, dropped>>
        /\ pc' = [pc EXCEPT ![f] = "unseal"]
    BY BatcherAssumption, Zenon DEF Actors, IInv, ThreadTypes, ReadItems, ring, At, Goto
  <1>2. pc'[f] = "unseal" /\ \A a \in Actors : a # f => pc'[a] = pc[a]
    BY <1>1, Zenon DEF IInv, ThreadTypes
  <1>3. /\ buf[f] \in Buffers /\ slot[f] \in 0 .. QueueLength
        /\ full[buf[f]] = 0 .. slot[f] - 1
        /\ full' = [full EXCEPT ![buf[f]] = {}]
        /\ items' = items
        /\ sent' \in Seq(Nat) /\ Len(sent') = Len(sent) + slot[f]
        /\ \A k \in Sent : sent'[k] = sent[k]
        /\ \A s \in 0 .. slot[f] - 1 : sent'[Len(sent) + s + 1] = items[buf[f]][s]
    BY ReadItemsFull, Zenon
  <1>4. /\ \A b \in Buffers : full'[b] = IF b = buf[f] THEN {} ELSE full[b]
        /\ Len(sent) \in Nat
    BY <1>3 DEF full, HistoryInv
  <1>5. ASSUME NEW k \in Sent'
        PROVE  \/ k \in Sent /\ sent'[k] = sent[k]
               \/ /\ k \notin Sent /\ k - Len(sent) - 1 \in full[buf[f]]
                  /\ sent'[k] = items[buf[f]][k - Len(sent) - 1]
    <2>1. CASE k \in Sent
      BY <1>3, <2>1, Zenon
    <2>2. CASE k \notin Sent
      <3>1. k - Len(sent) - 1 \in 0 .. slot[f] - 1
        BY <1>3, <1>4, <2>2 DEF Sent
      <3>2. Len(sent) + (k - Len(sent) - 1) + 1 = k
        BY <1>3, <1>4 DEF Sent
      <3> QED  BY <1>3, <2>2, <3>1, <3>2, Zenon
    <2> QED  BY <2>1, <2>2, Zenon
  <1>6. \A q \in Producers : pc'[q] = pc[q] /\ (Written(q)' <=> Written(q))
    BY <1>1, <1>2 DEF Written, Actors
  <1>7. HistoryInv' /\ OwnInv'
    BY <1>1, <1>3, <1>6, Zenon DEF HistoryInv, OwnInv
  <1>8. WrittenInv'
    <2>1. \A q \in Producers : Written(q) => buf[q] # buf[f] /\ buf[q] \in Buffers
      BY <1>1, Zenon DEF Written, IInv, ThreadTypes, BoundInv, Bound, Draining, Rotating, Actors
    <2> QED  BY <1>1, <1>3, <1>4, <1>6, <2>1 DEF WrittenInv
  <1>9. UniqueInv'
    <2>0. \A s \in full[buf[f]] :
            /\ \A r \in full[buf[f]] : items[buf[f]][s] = items[buf[f]][r] => s = r
            /\ \A k \in Sent : items[buf[f]][s] # sent[k]
            /\ \A b \in Buffers : \A r \in full[b] : b # buf[f] => items[b][r] # items[buf[f]][s]
      <3>1. UniqueInv /\ buf[f] \in Buffers
        BY <1>3, Zenon
      <3>2. ASSUME NEW s \in full[buf[f]], NEW b \in Buffers, NEW r \in full[b],
                   items[b][r] = items[buf[f]][s]
            PROVE  b = buf[f] /\ r = s
        BY <3>1, <3>2 DEF UniqueInv
      <3>3. ASSUME NEW s \in full[buf[f]], NEW k \in Sent PROVE items[buf[f]][s] # sent[k]
        BY <3>1, Zenon DEF UniqueInv
      <3> QED  BY <3>1, <3>2, <3>3, Zenon
    <2>1. ASSUME NEW b \in Buffers, NEW c \in Buffers, NEW s \in full'[b], NEW r \in full'[c],
                 items'[b][s] = items'[c][r]
          PROVE  b = c /\ s = r
      BY <1>3, <1>4, <2>1 DEF UniqueInv
    <2>2. ASSUME NEW k \in Sent', NEW m \in Sent', sent'[k] = sent'[m]
          PROVE  k = m
      <3>1. k \in Int /\ m \in Int
        BY DEF Sent
      <3>2. CASE k \in Sent /\ m \in Sent
        BY <1>5, <2>2, <3>2, Zenon DEF UniqueInv
      <3>3. CASE k \notin Sent /\ m \notin Sent
        <4>1. k - Len(sent) - 1 = m - Len(sent) - 1
          <5>1. /\ k - Len(sent) - 1 \in full[buf[f]] /\ m - Len(sent) - 1 \in full[buf[f]]
                /\ items[buf[f]][k - Len(sent) - 1] = items[buf[f]][m - Len(sent) - 1]
            <6>1. /\ k - Len(sent) - 1 \in full[buf[f]]
                  /\ sent'[k] = items[buf[f]][k - Len(sent) - 1]
              BY <1>5, <3>3, Zenon
            <6>2. /\ m - Len(sent) - 1 \in full[buf[f]]
                  /\ sent'[m] = items[buf[f]][m - Len(sent) - 1]
              BY <1>5, <3>3, Zenon
            <6> QED  BY <2>2, <6>1, <6>2, Zenon
          <5> QED  BY <2>0, <5>1, Zenon
        <4> QED  BY <1>4, <3>1, <4>1
      <3>4. CASE ~(k \in Sent <=> m \in Sent)
        <4>1. ASSUME NEW x \in Sent', x \in Sent, NEW y \in Sent', y \notin Sent
              PROVE  sent'[x] # sent'[y]
          <5>1. sent'[x] = sent[x]
            BY <1>5, <4>1, Zenon
          <5>2. /\ y - Len(sent) - 1 \in full[buf[f]]
                /\ sent'[y] = items[buf[f]][y - Len(sent) - 1]
            BY <1>5, <4>1, Zenon
          <5> QED  BY <2>0, <4>1, <5>1, <5>2, Zenon
        <4> QED  BY <2>2, <3>4, <4>1
      <3> QED  BY <3>2, <3>3, <3>4
    <2>3. ASSUME NEW b \in Buffers, NEW s \in full'[b], NEW k \in Sent'
          PROVE  items'[b][s] # sent'[k]
      <3>1. b # buf[f] /\ s \in full[b] /\ items'[b][s] = items[b][s]
        BY <1>3, <1>4
      <3>2. CASE k \in Sent
        BY <1>3, <3>1, <3>2 DEF UniqueInv
      <3>3. CASE k \notin Sent
        <4>1. /\ k - Len(sent) - 1 \in full[buf[f]]
              /\ sent'[k] = items[buf[f]][k - Len(sent) - 1]
          BY <1>5, <3>3, Zenon
        <4> QED  BY <2>0, <3>1, <4>1
      <3> QED  BY <3>2, <3>3, Zenon
    <2> QED  BY <2>1, <2>2, <2>3, Zenon DEF UniqueInv
  <1>10. PlacedInv'
    <2>1. ASSUME NEW b \in Buffers, NEW s \in full'[b] PROVE Placed(items[b][s])'
      <3>1. Placed(items[b][s]) /\ items'[b][s] = items[b][s]
        BY <1>3, <1>4 DEF PlacedInv
      <3> QED  BY <1>1, <1>6, <3>1, Zenon DEF Placed
    <2>2. ASSUME NEW k \in Sent' PROVE Placed(sent[k])'
      <3>1. Placed(sent'[k])
        BY <1>3, <1>5, Zenon DEF PlacedInv
      <3> QED  BY <1>1, <1>6, <3>1 DEF Placed
    <2> QED  BY <2>1, <2>2, Zenon DEF PlacedInv
  <1>11. KeptInv'
    <2> SUFFICES ASSUME NEW i \in accepted
                 PROVE  \/ \E b \in Buffers : \E s \in full'[b] : items'[b][s] = i
                        \/ \E k \in Sent' : sent'[k] = i
      BY <1>1, Zenon DEF KeptInv
    <2>1. CASE \E k \in Sent : sent[k] = i
      <3>1. Sent \subseteq Sent'
        BY <1>3, <1>4 DEF Sent
      <3> QED  BY <1>3, <2>1, <3>1, Zenon
    <2>2. CASE \E b \in Buffers : \E s \in full[b] : items[b][s] = i
      <3>1. PICK b \in Buffers : \E s \in full[b] : items[b][s] = i
        BY <2>2, Zenon
      <3>2. PICK s \in full[b] : items[b][s] = i
        BY <3>1
      <3>3. CASE b = buf[f]
        <4>1. s \in 0 .. slot[f] - 1
          BY <1>3, <3>3, Zenon
        <4>2. Len(sent) + s + 1 \in Sent'
          BY <1>3, <1>4, <4>1 DEF Sent
        <4> QED  BY <1>3, <3>2, <3>3, <4>1, <4>2, Zenon
      <3>4. CASE b # buf[f]
        BY <1>3, <1>4, <3>2, <3>4, Zenon
      <3> QED  BY <3>3, <3>4, Zenon
    <2> QED  BY <2>1, <2>2, Zenon DEF KeptInv
  <1>12. ReadInv'
    BY <1>1, <1>2, Zenon DEF ReadInv, At, Actors
  <1> QED  BY <1>7, <1>8, <1>9, <1>10, <1>11, <1>12

\* The flusher's other steps place and move nothing.
LEMMA QuietFlushCopyInv ==
  ASSUME IInv, IInv', CopyInv, NEW f \in Flushers,
         \/ BeginFlush(f) \/ ReadFlushIdx(f) \/ LookAtDrain(f) \/ InspectDrain(f)
         \/ WaitForWriters(f) \/ Unseal(f) \/ AdvanceDrain(f) \/ EndFlush(f) \/ Rotate(f)
  PROVE  CopyInv'
  <1>1. /\ f \in Actors /\ f \notin Producers /\ pc[f] # "read"
        /\ UNCHANGED <<index, items, slot, sent, item, calls, accepted, dropped>>
        /\ \A a \in Actors : a # f => buf'[a] = buf[a]
    BY BatcherAssumption, Zenon
       DEF Actors, IInv, ThreadTypes, BeginFlush, ReadFlushIdx, LookAtDrain, InspectDrain,
           WaitForWriters, Unseal, AdvanceDrain, EndFlush, Rotate, RotateCheck, RotateSeal,
           RotateSwap, RotateFail, ring, history, At
  <1>2. PICK l : pc' = [pc EXCEPT ![f] = l] /\ l # "read"
    <2>1. PICK l \in {"idle", "begin", "look", "active", "count", "r_sealed", "r_index",
                      "r_adding", "r_seal", "r_swap", "r_fail", "rotated", "stuck", "done",
                      "wait", "take", "advance"} : pc' = [pc EXCEPT ![f] = l]
      BY Zenon DEF BeginFlush, ReadFlushIdx, LookAtDrain, InspectDrain, WaitForWriters, Unseal,
         AdvanceDrain, EndFlush, Rotate, RotateCheck, RotateSeal, RotateSwap, RotateFail, Goto
    <2> QED  BY <2>1, Zenon
  <1>3. pc'[f] = l /\ \A a \in Actors : a # f => pc'[a] = pc[a]
    BY <1>1, <1>2, Zenon DEF IInv, ThreadTypes
  <1>4. full' = full
    <2>1. \A p \in Producers : pc'[p] = pc[p]
      BY <1>1, <1>3, Zenon DEF Actors
    <2>2. \A g \in Flushers : pc'[g] = "read" <=> pc[g] = "read"
      BY <1>1, <1>2, <1>3, Zenon DEF Actors
    <2>3. \A a \in Actors : pc[a] \in {"write", "read"} => buf'[a] = buf[a] /\ slot'[a] = slot[a]
      <3>1. pc[f] # "write"
        BY Zenon DEF IInv, ThreadTypes, FlusherPc
      <3> QED  BY <1>1, <3>1, Zenon
    <2> QED  BY <1>1, <2>1, <2>2, <2>3, FullStable, Zenon
  <1>5. ReadInv'
    BY <1>1, <1>2, <1>3, Zenon DEF CopyInv, ReadInv, At, Actors
  <1>6. \A q \in Producers : pc'[q] = pc[q] /\ buf'[q] = buf[q] /\ (Written(q)' <=> Written(q))
    BY <1>1, <1>3, Zenon DEF Written, Actors
  <1> QED  BY <1>1, <1>4, <1>5, <1>6, QuietCopyInv, Zenon

\* Nor does the reset of the index.
LEMMA TakeIndexCopyInv ==
  ASSUME IInv, IInv', CopyInv, NEW f \in Flushers, TakeIndex(f)
  PROVE  CopyInv'
  <1>1. /\ f \in Actors /\ f \notin Producers /\ pc[f] = "take"
        /\ UNCHANGED <<items, buf, sent, item, calls, accepted, dropped>>
        /\ pc' = [pc EXCEPT ![f] = "read"]
        /\ \A a \in Actors : a # f => slot'[a] = slot[a]
    BY BatcherAssumption, Zenon DEF Actors, IInv, ThreadTypes, TakeIndex, history, At, Goto
  <1>2. pc'[f] = "read" /\ \A a \in Actors : a # f => pc'[a] = pc[a]
    BY <1>1, Zenon DEF IInv, ThreadTypes
  <1>3. ReadInv'
    <2>1. \A g \in Flushers : At(g, "read")' => g = f
      BY <1>1, <1>2, Zenon DEF At, Actors, IInv, GuardInv
    <2>2. slot'[f] <= QueueLength /\ index'[buf'[f]] = 0
      BY <1>1, TakeIndexFull, Zenon
    <2> QED  BY <2>1, <2>2, Zenon DEF ReadInv
  <1>4. \A q \in Producers : /\ pc'[q] = pc[q] /\ buf'[q] = buf[q] /\ slot'[q] = slot[q]
                             /\ Written(q)' <=> Written(q)
    BY <1>1, <1>2, Zenon DEF Written, Actors
  <1> QED  BY <1>1, <1>3, <1>4, TakeIndexFull, QuietCopyInv, Zenon

\* Every step keeps the places of the items.
LEMMA NextCopyInv == IInv /\ IInv' /\ CopyInv /\ [Next]_vars => CopyInv'
  <1> SUFFICES ASSUME IInv, IInv', CopyInv, [Next]_vars PROVE CopyInv'
    OBVIOUS
  <1>1. ASSUME NEW p \in Producers, Enqueue(p) \/ ProducerStep(p) PROVE CopyInv'
    BY <1>1, EnqueueCopyInv, QuietProducerCopyInv, FetchSlotCopyInv, WriteSlotCopyInv,
       AddingDecrementCopyInv, RetryOrDropCopyInv, Zenon DEF ProducerStep
  <1>2. ASSUME NEW f \in Flushers, BeginFlush(f) \/ FlushStep(f) PROVE CopyInv'
    BY <1>2, QuietFlushCopyInv, TakeIndexCopyInv, ReadItemsCopyInv, Zenon DEF FlushStep
  <1>3. CASE UNCHANGED vars
    <2>1. UNCHANGED <<index, items, buf, slot, pc, sent, item, calls, accepted, dropped>>
      BY <1>3, Zenon DEF vars, ring, threads, history
    <2>2. full' = full
      BY <2>1, FullStable, Zenon
    <2>3. ReadInv'
      BY <2>1, Zenon DEF CopyInv, ReadInv, At
    <2>4. \A q \in Producers : Written(q)' <=> Written(q)
      BY <2>1, Zenon DEF Written
    <2> QED  BY <2>1, <2>2, <2>3, <2>4, QuietCopyInv, Zenon
  <1> QED  BY <1>1, <1>2, <1>3 DEF Next

\* What a sequence of naturals holds at one of its positions.
LEMMA ElementIsNat ==
  ASSUME NEW s \in Seq(Nat), NEW m \in 1 .. Len(s)
  PROVE  s[m] \in Nat
  OBVIOUS

(***************************************************************************)
(* The order of the items.  What has to be sent before an item lies before *)
(* it in the ring, counted from the oldest undrained buffer; what a flush  *)
(* has to send lies in the buffers through which it flushes.               *)
(***************************************************************************)
\* A buffer of the interval, or the active one.
InUse(b) == b = active \/ InRange(Oldest, active, b)
\* Buffer c is b or comes before it.
UpTo(b, c) == c = b \/ InRange(Oldest, b, c)

\* A producer that works on the buffer it loaded and has not placed its item.
Early(p) == pc[p] \in {"sealed", "add", "recheck", "resealed", "slot", "write"}
\* A flusher that knows how far it has to flush.
Flushing(f) == pc[f] \notin {"idle", "begin"}

UsedInv == /\ calls <= MaxItems
           /\ \A b \in Buffers : full[b] # {} => InUse(b)
           /\ \A f \in Flushers : At(f, "unseal") => index[buf[f]] = 0

WaitingInv == /\ before \in [Items -> SUBSET accepted] /\ due \subseteq accepted
              /\ \A k \in Sent : sent[k] \notin due /\ \A i \in Items : sent[k] \notin before[i]

PlacedOrder ==
  \A b, c \in Buffers : \A s \in full[b], r \in full[c] :
    items[c][r] \in before[items[b][s]] => IF c = b THEN r < s ELSE InRange(Oldest, b, c)

Ahead(p) ==
  \A c \in Buffers : \A r \in full[c] : items[c][r] \in before[item[p]] =>
    /\ InUse(buf[p]) /\ UpTo(buf[p], c)
    /\ At(p, "write") /\ c = buf[p] => r < slot[p]
EarlyOrder == \A p \in Producers : Early(p) => Ahead(p)

InReach(f) ==
  \A c \in Buffers : \A r \in full[c] : items[c][r] \in due =>
    /\ InUse(flushIdx) /\ UpTo(flushIdx, c)
    /\ At(f, "count") => flushIdx = buf[f]
    /\ ~At(f, "done")
DueOrder == \A f \in Flushers : Flushing(f) => InReach(f)

OrderInv == UsedInv /\ WaitingInv /\ PlacedOrder /\ EarlyOrder /\ DueOrder

\* The items of the calls so far are items.
LEMMA CallsInItems ==
  ASSUME IInv, UsedInv
  PROVE  1 .. calls \subseteq Items
  BY BatcherAssumption DEF UsedInv, IInv, ThreadTypes, Items

\* The empty queue satisfies the invariant.
LEMMA InitOrderInv == IInv /\ Init => OrderInv
  <1> SUFFICES ASSUME IInv, Init PROVE OrderInv
    OBVIOUS
  <1>1. Sent = {}
    BY DEF Init, Sent
  <1>2. \A b \in Buffers : full[b] = {}
    <2>1. CopyInv /\ accepted = {} /\ calls = 0
      BY InitCopyInv, Zenon DEF Init
    <2> QED  BY <2>1 DEF CopyInv, PlacedInv, Placed
  <1>3. UsedInv
    BY <1>2, BatcherAssumption DEF Init, UsedInv, At, Actors
  <1>4. WaitingInv
    BY <1>1 DEF Init, WaitingInv
  <1>5. PlacedOrder /\ EarlyOrder /\ DueOrder
    BY <1>2, Zenon DEF PlacedOrder, EarlyOrder, DueOrder, Ahead, InReach
  <1> QED  BY <1>3, <1>4, <1>5 DEF OrderInv

\* A step that moves no item and no start of the interval preserves the
\* invariant, if whoever it brings into a position of which the invariant
\* speaks satisfies it there.
LEMMA QuietOrderInv ==
  ASSUME OrderInv, WaitingInv', full' = full, Oldest' = Oldest,
         UNCHANGED <<items, before, calls>>,
         active' = active \/ \A b \in Buffers : InUse(b) => InUse(b)',
         buf \in [Actors -> Buffers], flushIdx \in Buffers,
         \A p \in Producers : Early(p)' =>
           \/ Ahead(p)'
           \/ /\ Early(p) /\ item'[p] = item[p] /\ buf'[p] = buf[p]
              /\ At(p, "write")' => At(p, "write") /\ slot'[p] = slot[p],
         \A f \in Flushers : Flushing(f)' =>
           \/ InReach(f)'
           \/ /\ Flushing(f) /\ due' \subseteq due /\ flushIdx' = flushIdx
              /\ At(f, "count")' => At(f, "count") /\ buf'[f] = buf[f]
              /\ At(f, "done")' => At(f, "done"),
         \A f \in Flushers : At(f, "unseal")' => index'[buf'[f]] = 0
  PROVE  OrderInv'
  <1> USE DEF OrderInv
  <1>1. \A b \in Buffers : InUse(b) => InUse(b)'
    BY DEF InUse
  <1>2. \A b, c \in Buffers : UpTo(b, c)' <=> UpTo(b, c)
    BY Zenon DEF UpTo
  <1>3. UsedInv'
    BY <1>1, Zenon DEF UsedInv
  <1>4. PlacedOrder'
    BY Zenon DEF PlacedOrder
  <1>5. EarlyOrder'
    <2> SUFFICES ASSUME NEW p \in Producers, Early(p)', ~Ahead(p)',
                        NEW c \in Buffers, NEW r \in full[c], items[c][r] \in before[item[p]]
                 PROVE  /\ InUse(buf[p])' /\ UpTo(buf[p], c)'
                        /\ At(p, "write")' /\ c = buf'[p] => r < slot'[p]
      BY Zenon DEF EarlyOrder, Ahead
    <2>1. /\ InUse(buf[p]) /\ UpTo(buf[p], c) /\ buf[p] \in Buffers /\ buf'[p] = buf[p]
          /\ At(p, "write") /\ c = buf[p] => r < slot[p]
      BY Zenon DEF EarlyOrder, Ahead, Actors
    <2>2. InUse(buf[p])' /\ UpTo(buf[p], c)'
      BY <1>1, <1>2, <2>1, Zenon DEF InUse, UpTo
    <2> QED  BY <2>1, <2>2, Zenon
  <1>6. DueOrder'
    <2> SUFFICES ASSUME NEW f \in Flushers, Flushing(f)', ~InReach(f)',
                        NEW c \in Buffers, NEW r \in full[c], items[c][r] \in due'
                 PROVE  /\ InUse(flushIdx)' /\ UpTo(flushIdx, c)'
                        /\ At(f, "count")' => flushIdx' = buf'[f]
                        /\ ~At(f, "done")'
      BY Zenon DEF DueOrder, InReach
    <2>1. /\ InUse(flushIdx) /\ UpTo(flushIdx, c)
          /\ At(f, "count") => flushIdx = buf[f]
          /\ ~At(f, "done")
      BY Zenon DEF DueOrder, InReach
    <2>2. InUse(flushIdx)' /\ UpTo(flushIdx, c)'
      BY <1>1, <1>2, <2>1, Zenon DEF InUse, UpTo
    <2> QED  BY <2>1, <2>2, Zenon
  <1> QED  BY <1>3, <1>4, <1>5, <1>6, Zenon

\* A rotation leaves what is in use in use.
LEMMA RotateSwapUse ==
  ASSUME IInv, NEW a \in Actors, RotateSwap(a)
  PROVE  active' = active \/ \A b \in Buffers : InUse(b) => InUse(b)'
  <1>1. CASE active = buf[a]
    <2>1. /\ active' = Succ(active) /\ Oldest # Succ(active) /\ active \in Buffers
          /\ Oldest \in Buffers
      BY <1>1, OldestInRing, Zenon DEF RotateSwap, IInv, RoomInv, RingTypes, Checks, At
    <2>2. Oldest' = Oldest
      <3>1. drain' = drain
        BY DEF RotateSwap
      <3>2. \A f \in Flushers : pc'[f] = "advance" <=> pc[f] = "advance"
        BY <1>1, Zenon DEF RotateSwap, At, Goto, IInv, ThreadTypes, Actors
      <3> QED  BY <3>1, <3>2, OldestStable
    <2> QED  BY <2>1, <2>2, RangeFacts, Zenon DEF InUse
  <1>2. CASE active # buf[a]
    BY <1>2, Zenon DEF RotateSwap
  <1> QED  BY <1>1, <1>2

\* The steps that move nothing.
LEMMA QuietStepOrderInv ==
  ASSUME IInv, IInv', CopyInv, CopyInv', OrderInv, NEW a \in Actors,
         \/ a \in Producers /\ (CheckSealed(a) \/ AddingIncrement(a) \/ Recheck(a) \/ RetryOrDrop(a)
                                \/ AddingDecrement(a))
         \/ a \in Flushers /\ (LookAtDrain(a) \/ WaitForWriters(a))
         \/ Rotate(a)
  PROVE  OrderInv'
  <1>1. /\ UNCHANGED <<index, drain, items, slot, sent, before, due, flushIdx, calls, item>>
        /\ accepted \subseteq accepted'
        /\ \A b \in Actors : b # a => buf'[b] = buf[b]
        /\ a \in Producers => buf' = buf
    BY BatcherAssumption, Zenon
       DEF IInv, ThreadTypes, CheckSealed, AddingIncrement, Recheck, RetryOrDrop, AddingDecrement,
           LookAtDrain, WaitForWriters, Rotate, RotateCheck, RotateSeal, RotateFail, RotateSwap,
           ring, history
  <1>1a. active' = active \/ \A b \in Buffers : InUse(b) => InUse(b)'
    <2>1. CASE RotateSwap(a)
      BY <2>1, RotateSwapUse
    <2>2. CASE ~RotateSwap(a)
      BY <2>2, Zenon
         DEF CheckSealed, AddingIncrement, Recheck, RetryOrDrop, AddingDecrement, LookAtDrain,
                  WaitForWriters, Rotate, RotateCheck, RotateSeal, RotateFail, ring
    <2> QED  BY <2>1, <2>2
  <1>2. PICK l : /\ pc' = [pc EXCEPT ![a] = l]
                 /\ \/ /\ a \in Producers /\ pc[a] \in {"sealed", "add", "recheck", "resealed"}
                       /\ l \in {"load", "add", "recheck", "resealed", "slot", "undo"}
                    \/ /\ a \in Producers /\ pc[a] \in {"undo", "rotated", "stuck", "last"}
                       /\ l \in {"idle", "load", "last"}
                    \/ /\ a \in Flushers /\ pc[a] \in {"look", "wait", "rotated"}
                       /\ l \in {"wait", "active", "take"}
                    \/ pc[a] \in Rotating /\ l \in Rotating \cup {"rotated", "stuck"}
    BY Zenon DEF CheckSealed, AddingIncrement, Recheck, RetryOrDrop, AddingDecrement, LookAtDrain,
           WaitForWriters, Rotate, RotateCheck, RotateSeal, RotateFail, RotateSwap, Rotating,
           Checks, At, Goto
  <1>3. pc'[a] = l /\ \A b \in Actors : b # a => pc'[b] = pc[b]
    BY <1>2, Zenon DEF IInv, ThreadTypes
  <1>4. /\ a \in Producers => a \notin Flushers
        /\ \A p \in Producers : p \in Actors
        /\ \A f \in Flushers : f \in Actors
    BY BatcherAssumption DEF Actors
  <1>5. full' = full
    <2>1. pc[a] \notin {"write", "read"} /\ l \notin {"write", "read"}
      BY <1>2, Zenon DEF Rotating, Checks
    <2>2. /\ \A p \in Producers : pc'[p] = "write" <=> pc[p] = "write"
          /\ \A f \in Flushers : pc'[f] = "read" <=> pc[f] = "read"
      BY <1>3, <1>4, <2>1, Zenon
    <2>3. \A b \in Actors : pc[b] \in {"write", "read"} => buf'[b] = buf[b] /\ slot'[b] = slot[b]
      BY <1>1, <2>1, Zenon
    <2> QED  BY <1>1, <2>2, <2>3, FullStable, Zenon
  <1>6. Oldest' = Oldest
    BY <1>1, <1>2, <1>3, <1>4, OldestStable, Zenon DEF Rotating, Checks
  <1>7. \A p \in Producers : Early(p)' =>
          /\ Early(p) /\ item'[p] = item[p] /\ buf'[p] = buf[p]
          /\ At(p, "write")' => At(p, "write") /\ slot'[p] = slot[p]
    BY <1>1, <1>2, <1>3, <1>4, Zenon DEF Early, At, Rotating, Checks
  <1>8. \A f \in Flushers : Flushing(f)' =>
          /\ Flushing(f)
          /\ At(f, "count")' => At(f, "count") /\ buf'[f] = buf[f]
          /\ At(f, "done")' => At(f, "done")
    BY <1>1, <1>2, <1>3, <1>4, Zenon DEF Flushing, At, Rotating, Checks
  <1>9. \A f \in Flushers : At(f, "unseal")' => index'[buf'[f]] = 0
    BY <1>1, <1>2, <1>3, <1>4, Zenon DEF OrderInv, UsedInv, At, Rotating, Checks
  <1>10. buf \in [Actors -> Buffers] /\ flushIdx \in Buffers
    BY Zenon DEF IInv, ThreadTypes
  <1>11. WaitingInv'
    BY <1>1, Zenon DEF OrderInv, WaitingInv, Sent
  <1> QED  BY <1>1, <1>1a, <1>5, <1>6, <1>7, <1>8, <1>9, <1>10, <1>11, QuietOrderInv, Zenon

\* A producer that loads the active buffer has before it all that is filled.
LEMMA LoadActiveOrderInv ==
  ASSUME IInv, IInv', CopyInv, OrderInv, NEW p \in Producers, LoadActive(p)
  PROVE  OrderInv'
  <1>1. /\ p \in Actors /\ p \notin Flushers /\ pc[p] = "load" /\ active \in Buffers
        /\ UNCHANGED <<active, drain, index, items, slot, sent, before, due, flushIdx, calls, item,
                       accepted>>
        /\ pc' = [pc EXCEPT ![p] = "sealed"] /\ buf' = [buf EXCEPT ![p] = active]
    BY BatcherAssumption, Zenon
       DEF IInv, RingTypes, ThreadTypes, LoadActive, ring, history, At, Goto, Actors
  <1>2. /\ pc'[p] = "sealed" /\ buf'[p] = active
        /\ \A a \in Actors : a # p => pc'[a] = pc[a] /\ buf'[a] = buf[a]
        /\ \A q \in Producers : q \in Actors
        /\ \A f \in Flushers : f \in Actors
    BY <1>1, Zenon DEF IInv, ThreadTypes, Actors
  <1>3. full' = full
    BY <1>1, <1>2, FullStable, Zenon
  <1>4. Oldest' = Oldest
    BY <1>1, <1>2, OldestStable, Zenon
  <1>5. Ahead(p)'
    BY <1>1, <1>2, <1>3, <1>4, Zenon DEF Ahead, OrderInv, UsedInv, InUse, UpTo, At
  <1>6. \A q \in Producers : Early(q)' =>
          \/ Ahead(q)'
          \/ /\ Early(q) /\ item'[q] = item[q] /\ buf'[q] = buf[q]
             /\ At(q, "write")' => At(q, "write") /\ slot'[q] = slot[q]
    BY <1>1, <1>2, <1>5, Zenon DEF Early, At
  <1>7. \A f \in Flushers : /\ Flushing(f)' <=> Flushing(f)
                            /\ At(f, "count")' <=> At(f, "count")
                            /\ At(f, "done")' <=> At(f, "done")
                            /\ At(f, "unseal")' <=> At(f, "unseal")
                            /\ buf'[f] = buf[f]
    BY <1>1, <1>2, Zenon DEF Flushing, At
  <1>8. WaitingInv'
    BY <1>1, Zenon DEF OrderInv, WaitingInv, Sent
  <1>9. buf \in [Actors -> Buffers] /\ flushIdx \in Buffers
    BY Zenon DEF IInv, ThreadTypes
  <1>10. \A f \in Flushers : At(f, "unseal")' => index'[buf'[f]] = 0
    BY <1>1, <1>7, Zenon DEF OrderInv, UsedInv
  <1> QED  BY <1>1, <1>3, <1>4, <1>6, <1>7, <1>8, <1>9, <1>10, QuietOrderInv, Zenon

\* A fetched slot comes after all that is filled in its buffer.
LEMMA FetchSlotOrderInv ==
  ASSUME IInv, IInv', CopyInv, OrderInv, NEW p \in Producers, FetchSlot(p)
  PROVE  OrderInv'
  <1>1. /\ p \in Actors /\ p \notin Flushers /\ pc[p] = "slot" /\ buf[p] \in Buffers
        /\ UNCHANGED <<active, drain, items, buf, sent, before, due, flushIdx, calls, item,
                       accepted>>
        /\ pc' = [pc EXCEPT ![p] = IF index[buf[p]] < QueueLength THEN "write" ELSE "r_sealed"]
        /\ slot' = [slot EXCEPT ![p] = index[buf[p]]]
        /\ index' = [index EXCEPT ![buf[p]] = index[buf[p]] + 1]
    BY BatcherAssumption, Zenon
       DEF IInv, RingTypes, ThreadTypes, FetchSlot, history, At, Goto, Actors
  <1>2. /\ pc'[p] \in {"write", "r_sealed"} /\ slot'[p] = index[buf[p]]
        /\ \A a \in Actors : a # p => pc'[a] = pc[a] /\ slot'[a] = slot[a]
        /\ \A b \in Buffers : b # buf[p] => index'[b] = index[b]
        /\ \A q \in Producers : q \in Actors
        /\ \A f \in Flushers : f \in Actors /\ buf[f] \in Buffers
    BY <1>1, Zenon DEF IInv, RingTypes, ThreadTypes, Actors
  <1>3. full' = full
    BY FetchSlotFull
  <1>4. Oldest' = Oldest
    BY <1>1, <1>2, OldestStable, Zenon
  <1>5. Ahead(p)'
    <2>1. \A f \in Flushers : ~Reading(f, buf[p])
      BY <1>1, Zenon DEF Reading, At, IInv, BoundInv, Bound, Draining
    <2>2. full[buf[p]] = Below(buf[p], index[buf[p]])
      BY <1>1, <2>1, FullFacts, Zenon DEF FullIs
    <2>3. \A r \in full[buf[p]] : r < slot'[p]
      BY <1>2, <2>2, Zenon DEF Below
    <2>4. Ahead(p)
      BY <1>1, Zenon DEF OrderInv, EarlyOrder, Early
    <2> QED  BY <1>1, <1>3, <1>4, <2>3, <2>4, Zenon DEF Ahead, InUse, UpTo
  <1>6. \A q \in Producers : Early(q)' =>
          \/ Ahead(q)'
          \/ /\ Early(q) /\ item'[q] = item[q] /\ buf'[q] = buf[q]
             /\ At(q, "write")' => At(q, "write") /\ slot'[q] = slot[q]
    BY <1>1, <1>2, <1>5, Zenon DEF Early, At
  <1>7. \A f \in Flushers : /\ Flushing(f)' <=> Flushing(f)
                            /\ At(f, "count")' <=> At(f, "count")
                            /\ At(f, "done")' <=> At(f, "done")
                            /\ At(f, "unseal")' <=> At(f, "unseal")
    BY <1>1, <1>2, Zenon DEF Flushing, At
  <1>8. WaitingInv'
    BY <1>1, Zenon DEF OrderInv, WaitingInv, Sent
  <1>9. buf \in [Actors -> Buffers] /\ flushIdx \in Buffers
    BY DEF IInv, ThreadTypes
  <1>10. \A f \in Flushers : At(f, "unseal")' => index'[buf'[f]] = 0
    <2>1. \A f \in Flushers : At(f, "unseal") => buf[f] # buf[p]
      BY <1>1, Zenon DEF At, IInv, BoundInv, Bound, Draining
    <2> QED  BY <1>1, <1>2, <1>7, <2>1, Zenon DEF OrderInv, UsedInv
  <1> QED  BY <1>1, <1>3, <1>4, <1>6, <1>7, <1>8, <1>9, <1>10, QuietOrderInv, Zenon

\* Where a flush begins, how far it reaches and when it has nothing to do.
LEMMA FlushOrderInv ==
  ASSUME IInv, IInv', CopyInv, CopyInv', OrderInv, NEW f \in Flushers,
         \/ BeginFlush(f) \/ ReadFlushIdx(f) \/ InspectDrain(f) \/ TakeIndex(f)
         \/ AdvanceDrain(f) \/ EndFlush(f)
  PROVE  OrderInv'
  <1>1. /\ f \in Actors /\ f \notin Producers /\ active \in Buffers /\ flushIdx \in Buffers
        /\ UNCHANGED <<active, items, buf, sent, before, calls, item, accepted>>
        /\ \A a \in Actors : a # f => slot'[a] = slot[a]
        /\ buf \in [Actors -> Buffers]
    BY BatcherAssumption, Zenon
       DEF IInv, RingTypes, ThreadTypes, BeginFlush, ReadFlushIdx, InspectDrain, TakeIndex,
           AdvanceDrain, EndFlush, ring, history, Actors
  <1>2. PICK l : /\ pc' = [pc EXCEPT ![f] = l]
                 /\ l \notin {"write", "unseal", "advance"}
                 /\ pc[f] \notin {"write", "read"}
    BY Zenon DEF BeginFlush, ReadFlushIdx, InspectDrain, TakeIndex, AdvanceDrain, EndFlush, At, Goto
  <1>3. /\ pc'[f] = l
        /\ \A a \in Actors : a # f => pc'[a] = pc[a]
        /\ \A q \in Producers : q \in Actors /\ q # f
        /\ \A g \in Flushers : g \in Actors
        /\ \A g \in Flushers : g # f => pc[g] = "idle" /\ pc'[g] = "idle"
    <2>1. pc'[f] = l /\ \A a \in Actors : a # f => pc'[a] = pc[a]
      BY <1>1, <1>2, Zenon DEF IInv, ThreadTypes
    <2>2. \A g \in Flushers : g # f => pc[g] = "idle"
      <3>1. CASE BeginFlush(f)
        BY <3>1, Zenon DEF BeginFlush, MayFlush, IInv, GuardInv
      <3>2. CASE ~BeginFlush(f)
        <4>1. pc[f] # "idle"
          BY <3>2, Zenon DEF ReadFlushIdx, InspectDrain, TakeIndex, AdvanceDrain, EndFlush, At
        <4> QED  BY <4>1, Zenon DEF IInv, GuardInv
      <3> QED  BY <3>1, <3>2, Zenon
    <2> QED  BY <1>1, <2>1, <2>2, Zenon DEF Actors
  <1>4. full' = full
    <2>1. CASE TakeIndex(f)
      BY <2>1, TakeIndexFull, Zenon
    <2>2. CASE ~TakeIndex(f)
      <3>1. index' = index /\ slot' = slot /\ l # "read"
        <4>1. index' = index /\ slot' = slot /\ pc'[f] # "read"
          BY <1>1, <2>2, Zenon DEF BeginFlush, ReadFlushIdx, InspectDrain, AdvanceDrain, EndFlush,
             ring, Goto, IInv, ThreadTypes
        <4> QED  BY <1>3, <4>1, Zenon
      <3> QED  BY <1>1, <1>2, <1>3, <3>1, FullStable, Zenon
    <2> QED  BY <2>1, <2>2
  <1>5. Oldest' = Oldest
    <2>1. CASE AdvanceDrain(f)
      <3>1. pc[f] = "advance" /\ drain' = Succ(buf[f]) /\ buf[f] = drain /\ pc'[f] = "look"
        BY <1>1, <2>1, Zenon
           DEF AdvanceDrain, NextDrain, At, Goto, IInv, ThreadTypes, GuardInv, OnDrain
      <3>2. Oldest = Succ(drain)
        BY <3>1, Zenon DEF Oldest, At
      <3>3. Oldest' = drain'
        BY <1>3, <3>1, Zenon DEF Oldest, At
      <3> QED  BY <3>1, <3>2, <3>3, Zenon
    <2>2. CASE ~AdvanceDrain(f)
      <3>1. drain' = drain /\ pc[f] # "advance"
        BY <2>2, Zenon DEF BeginFlush, ReadFlushIdx, InspectDrain, TakeIndex, EndFlush, ring, At
      <3> QED  BY <1>2, <1>3, <3>1, OldestStable, Zenon
    <2> QED  BY <2>1, <2>2
  <1>6. WaitingInv'
    <2>1. CASE BeginFlush(f)
      BY <1>1, <2>1, Zenon DEF BeginFlush, Waiting, ItemsOf, OrderInv, WaitingInv, Sent
    <2>2. CASE ~BeginFlush(f)
      <3>1. due' \subseteq due
        BY <2>2, Zenon DEF ReadFlushIdx, InspectDrain, TakeIndex, AdvanceDrain, EndFlush, history
      <3> QED  BY <1>1, <3>1, Zenon DEF OrderInv, WaitingInv, Sent
    <2> QED  BY <2>1, <2>2
  <1>7. \A q \in Producers : Early(q)' =>
          /\ Early(q) /\ item'[q] = item[q] /\ buf'[q] = buf[q]
          /\ At(q, "write")' => At(q, "write") /\ slot'[q] = slot[q]
    BY <1>1, <1>3, Zenon DEF Early, At
  <1>8. Flushing(f)' =>
          \/ InReach(f)'
          \/ /\ Flushing(f) /\ due' \subseteq due /\ flushIdx' = flushIdx
             /\ At(f, "count")' => At(f, "count") /\ buf'[f] = buf[f]
             /\ At(f, "done")' => At(f, "done")
    <2>1. CASE BeginFlush(f)
      BY <1>1, <2>1, Zenon DEF BeginFlush, Goto, Flushing, IInv, ThreadTypes
    <2>2. CASE EndFlush(f)
      BY <1>1, <2>2, Zenon DEF EndFlush, Goto, Flushing, IInv, ThreadTypes
    <2>3. CASE ReadFlushIdx(f)
      <3>1. due' = due /\ flushIdx' = active /\ pc'[f] = "look"
        BY <1>1, <2>3, Zenon DEF ReadFlushIdx, Goto, history, IInv, ThreadTypes
      <3>2. InReach(f)'
        BY <1>1, <1>4, <1>5, <3>1, Zenon DEF InReach, InUse, UpTo, OrderInv, UsedInv, At
      <3> QED  BY <3>2, Zenon
    <2>4. CASE TakeIndex(f) \/ AdvanceDrain(f)
      <3>1. /\ due' = due /\ flushIdx' = flushIdx
            /\ pc'[f] \in {"read", "look"} /\ pc[f] \in {"take", "advance"}
        BY <1>1, <2>4, Zenon DEF TakeIndex, AdvanceDrain, Goto, At, history, IInv, ThreadTypes
      <3> QED  BY <3>1, Zenon DEF Flushing, At
    <2>5. CASE InspectDrain(f)
      <3>1. /\ due' = due /\ flushIdx' = flushIdx /\ Flushing(f) /\ drain \in Buffers
            /\ pc[f] \in {"active", "count"} /\ buf[f] = drain /\ Oldest = drain
        <4>1. pc[f] \in {"active", "count"}
          BY <2>5, Zenon DEF InspectDrain, At
        <4>2. Oldest = drain
          BY <1>3, <4>1, Zenon DEF Oldest, At
        <4> QED  BY <2>5, <4>1, <4>2, Zenon
                 DEF InspectDrain, history, Flushing, IInv, RingTypes, GuardInv, OnDrain
      <3>2. InReach(f)
        BY <3>1, Zenon DEF OrderInv, DueOrder
      <3>3. \A c \in Buffers : ~InRange(drain, drain, c)
        BY <3>1, BatcherAssumption DEF InRange, Buffers
      <3>4. CASE pc'[f] = "count"
        <4>1. active = buf[f]
          BY <1>1, <2>5, <3>1, <3>4, Zenon DEF InspectDrain, At, Goto, IInv, ThreadTypes
        <4>2. ASSUME NEW c \in Buffers, NEW r \in full[c], items[c][r] \in due
              PROVE  InUse(flushIdx) /\ UpTo(flushIdx, c) /\ flushIdx = buf[f]
          BY <1>1, <3>1, <3>2, <3>3, <4>1, <4>2, Zenon DEF InReach, InUse
        <4> QED  BY <1>1, <1>4, <1>5, <3>1, <3>4, <4>2, Zenon DEF InReach, InUse, UpTo, At
      <3>5. CASE pc'[f] = "done"
        <4>1. pc[f] = "count" /\ NothingDue(buf[f], index[buf[f]])
          BY <1>1, <2>5, <3>1, <3>5, Zenon DEF InspectDrain, At, Goto, IInv, ThreadTypes
        <4>2. ASSUME NEW c \in Buffers, NEW r \in full[c], items[c][r] \in due
              PROVE  FALSE
          <5>1. flushIdx = buf[f] /\ UpTo(flushIdx, c)
            BY <3>2, <4>1, <4>2, Zenon DEF InReach, At
          <5>2. c = buf[f]
            BY <3>1, <3>3, <5>1, Zenon DEF UpTo
          <5>3. \A g \in Flushers : ~Reading(g, c)
            BY <1>3, <4>1, Zenon DEF Reading, At
          <5>4. full[c] = Below(c, index[c])
            BY <5>3, FullFacts, Zenon DEF FullIs
          <5>5. index[c] <= 0 /\ r < index[c] /\ r \in Slots /\ index[c] \in Nat
            BY <4>1, <5>1, <5>2, <5>4, Zenon DEF NothingDue, Below, IInv, RingTypes
          <5> QED  BY <5>5, BatcherAssumption DEF Slots
        <4> QED  BY <1>1, <1>4, <3>1, <4>2, Zenon DEF InReach
      <3>6. CASE pc'[f] \notin {"count", "done"}
        BY <3>1, <3>6, Zenon DEF At
      <3> QED  BY <3>4, <3>5, <3>6, Zenon
    <2> QED  BY <2>1, <2>2, <2>3, <2>4, <2>5, Zenon
  <1>9. \A g \in Flushers : g # f => ~Flushing(g)'
    BY <1>3, Zenon DEF Flushing
  <1>10. \A g \in Flushers : ~At(g, "unseal")'
    BY <1>2, <1>3, Zenon DEF At
  <1> QED  BY <1>1, <1>4, <1>5, <1>6, <1>7, <1>8, <1>9, <1>10, QuietOrderInv, Zenon

\* A new item: what waits is before it, and it is before nothing.
LEMMA EnqueueOrderInv ==
  ASSUME IInv, IInv', CopyInv, CopyInv', OrderInv, NEW p \in Producers, Enqueue(p)
  PROVE  OrderInv'
  <1> USE DEF OrderInv
  <1>1. /\ p \in Actors /\ p \notin Flushers /\ pc[p] = "idle" /\ calls \in Nat /\ calls < MaxItems
        /\ UNCHANGED <<active, drain, index, items, buf, slot, sent, due, flushIdx, accepted>>
        /\ calls' = calls + 1 /\ item' = [item EXCEPT ![p] = calls + 1]
        /\ before' = [before EXCEPT ![calls + 1] = Waiting]
        /\ pc' = [pc EXCEPT ![p] = "load"]
    BY BatcherAssumption, Zenon DEF IInv, ThreadTypes, Enqueue, ring, At, Goto, Actors
  <1>2. /\ pc'[p] = "load"
        /\ \A a \in Actors : a # p => pc'[a] = pc[a]
        /\ \A q \in Producers : q \in Actors /\ (q # p => item'[q] = item[q])
        /\ \A f \in Flushers : f \in Actors /\ f # p
    BY <1>1, Zenon DEF IInv, ThreadTypes, Actors
  <1>3. full' = full /\ Sent' = Sent
    BY <1>1, <1>2, FullStable, Zenon DEF Sent
  <1>4. Oldest' = Oldest
    BY <1>1, <1>2, OldestStable, Zenon
  <1>5. calls + 1 \in Items /\ 1 .. calls \subseteq Items
    BY <1>1, BatcherAssumption DEF Items
  <1>6. \A i \in Items : before'[i] = IF i = calls + 1 THEN Waiting ELSE before[i]
    BY <1>1, <1>5, Zenon DEF WaitingInv
  <1>7. \A i \in 1 .. calls : before'[i] = before[i]
    BY <1>1, <1>5, <1>6
  <1>8. \A b \in Buffers : (InUse(b)' <=> InUse(b)) /\ \A c \in Buffers : UpTo(b, c)' <=> UpTo(b, c)
    BY <1>1, <1>4, Zenon DEF InUse, UpTo
  <1>9. UsedInv'
    <2>1. calls' <= MaxItems
      BY <1>1, BatcherAssumption
    <2>2. \A f \in Flushers : At(f, "unseal")' => At(f, "unseal")
      BY <1>2, Zenon DEF At
    <2> QED  BY <1>1, <1>3, <1>8, <2>1, <2>2, Zenon DEF UsedInv
  <1>10. WaitingInv'
    <2>1. Waiting \subseteq accepted /\ \A k \in Sent : sent[k] \notin Waiting
      BY Zenon DEF Waiting, ItemsOf, Sent
    <2>2. before' \in [Items -> SUBSET accepted]
      BY <1>1, <2>1, Zenon DEF WaitingInv
    <2> QED  BY <1>1, <1>3, <1>6, <2>1, <2>2, Zenon DEF WaitingInv
  <1>11. PlacedOrder'
    <2>1. \A b \in Buffers : \A s \in full[b] : before'[items[b][s]] = before[items[b][s]]
      BY <1>7, Zenon DEF CopyInv, PlacedInv, Placed
    <2> SUFFICES ASSUME NEW b \in Buffers, NEW c \in Buffers, NEW s \in full'[b], NEW r \in full'[c],
                        items'[c][r] \in before'[items'[b][s]]
                 PROVE  IF c = b THEN r < s ELSE InRange(Oldest', b, c)
      BY Zenon DEF PlacedOrder
    <2>2. s \in full[b] /\ r \in full[c] /\ items[c][r] \in before[items[b][s]]
      BY <1>1, <1>3, <2>1, Zenon
    <2> QED  BY <1>4, <2>2, Zenon DEF PlacedOrder
  <1>12. EarlyOrder'
    <2> SUFFICES ASSUME NEW q \in Producers, Early(q)' PROVE Ahead(q)'
      BY Zenon DEF EarlyOrder
    <2>1. q # p /\ pc'[q] = pc[q] /\ Early(q) /\ item'[q] = item[q]
      BY <1>2, Zenon DEF Early
    <2>2. before'[item[q]] = before[item[q]] /\ buf[q] \in Buffers
      BY <1>2, <1>7, <2>1, Zenon DEF CopyInv, OwnInv, Early, IInv, ThreadTypes
    <2>3. Ahead(q)
      BY <2>1, Zenon DEF EarlyOrder
    <2> QED  BY <1>1, <1>3, <1>4, <2>1, <2>2, <2>3, Zenon DEF Ahead, At, InUse, UpTo
  <1>13. DueOrder'
    BY <1>1, <1>2, <1>3, <1>4, Zenon DEF DueOrder, InReach, Flushing, At, InUse, UpTo
  <1> QED  BY <1>9, <1>10, <1>11, <1>12, <1>13, Zenon

\* The item is written after those before it.
LEMMA WriteSlotOrderInv ==
  ASSUME IInv, IInv', CopyInv, CopyInv', OrderInv, NEW p \in Producers, WriteSlot(p)
  PROVE  OrderInv'
  <1> USE DEF OrderInv
  <1>1. /\ p \in Actors /\ p \notin Flushers /\ pc[p] = "write"
        /\ UNCHANGED <<active, drain, index, buf, slot, item, sent, before, due, flushIdx, calls,
                       accepted>>
        /\ pc' = [pc EXCEPT ![p] = IF slot[p] = QueueLength - 1 THEN "r_sealed" ELSE "rotated"]
    BY BatcherAssumption, Zenon DEF IInv, ThreadTypes, WriteSlot, history, At, Goto, Actors
  <1>2. /\ pc'[p] \in {"r_sealed", "rotated"}
        /\ \A a \in Actors : a # p => pc'[a] = pc[a]
        /\ \A q \in Producers : q \in Actors
        /\ \A f \in Flushers : f \in Actors /\ f # p
    BY <1>1, Zenon DEF IInv, ThreadTypes, Actors
  <1>3. /\ buf[p] \in Buffers /\ slot[p] \in Slots /\ slot[p] \notin full[buf[p]]
        /\ full' = [full EXCEPT ![buf[p]] = @ \cup {slot[p]}]
        /\ items' = [items EXCEPT ![buf[p]][slot[p]] = item[p]]
    BY WriteSlotFull, Zenon
  <1>4. /\ \A b \in Buffers : full'[b] = IF b = buf[p] THEN full[b] \cup {slot[p]} ELSE full[b]
        /\ items'[buf[p]][slot[p]] = item[p]
        /\ \A b \in Buffers : \A s \in full[b] : items'[b][s] = items[b][s]
    BY WriteSlotPlaces, Zenon
  <1>5. ASSUME NEW b \in Buffers, NEW s \in full'[b]
        PROVE  \/ s \in full[b] /\ items'[b][s] = items[b][s]
               \/ b = buf[p] /\ s = slot[p] /\ items'[b][s] = item[p]
    BY <1>4, Zenon
  <1>6. /\ \A i \in Items : item[p] \notin before[i]
        /\ item[p] \notin due
    BY <1>1, Zenon DEF WaitingInv, CopyInv, OwnInv
  <1>7. Oldest' = Oldest
    BY <1>1, <1>2, OldestStable, Zenon
  <1>8. \A b \in Buffers : InUse(b)' <=> InUse(b)
    BY <1>1, <1>7, Zenon DEF InUse
  <1>9. UsedInv'
    <2>1. InUse(buf[p])
      BY <1>1, Zenon DEF IInv, BoundInv, Bound, InUse
    <2>2. \A f \in Flushers : At(f, "unseal")' => At(f, "unseal")
      BY <1>2, Zenon DEF At
    <2> QED  BY <1>1, <1>4, <1>8, <2>1, <2>2, Zenon DEF UsedInv
  <1>10. WaitingInv'
    BY <1>1, Zenon DEF WaitingInv, Sent
  <1>11. 1 .. calls \subseteq Items
    BY CallsInItems, Zenon
  <1>12. \A b \in Buffers : \A s \in full'[b] : items'[b][s] \in Items
    BY <1>1, <1>11, Zenon DEF CopyInv, PlacedInv, Placed
  <1>13. PlacedOrder'
    <2> SUFFICES ASSUME NEW b \in Buffers, NEW c \in Buffers, NEW s \in full'[b], NEW r \in full'[c],
                        items'[c][r] \in before[items'[b][s]]
                 PROVE  IF c = b THEN r < s ELSE InRange(Oldest, b, c)
      BY <1>1, <1>7, Zenon DEF PlacedOrder
    <2>1. r \in full[c] /\ items'[c][r] = items[c][r]
      BY <1>5, <1>6, <1>12, Zenon
    <2>2. CASE s \in full[b] /\ items'[b][s] = items[b][s]
      BY <2>1, <2>2, Zenon DEF PlacedOrder
    <2>3. CASE b = buf[p] /\ s = slot[p] /\ items'[b][s] = item[p]
      <3>1. Ahead(p)
        BY <1>1, Zenon DEF EarlyOrder, Early
      <3>2. UpTo(b, c) /\ (c = b => r < s)
        BY <1>1, <2>1, <2>3, <3>1, Zenon DEF Ahead, At
      <3> QED  BY <3>2, Zenon DEF UpTo
    <2> QED  BY <1>5, <2>2, <2>3, Zenon
  <1>14. EarlyOrder'
    <2> SUFFICES ASSUME NEW q \in Producers, Early(q)', NEW c \in Buffers, NEW r \in full'[c],
                        items'[c][r] \in before[item[q]]
                 PROVE  /\ InUse(buf[q])' /\ UpTo(buf[q], c)'
                        /\ At(q, "write")' /\ c = buf[q] => r < slot[q]
      BY <1>1, Zenon DEF EarlyOrder, Ahead
    <2>1. q # p /\ pc'[q] = pc[q] /\ Early(q)
      BY <1>2, Zenon DEF Early
    <2>2. item[q] \in Items
      BY <1>11, <2>1, Zenon DEF CopyInv, OwnInv, Early
    <2>3. r \in full[c] /\ items'[c][r] = items[c][r]
      BY <1>5, <1>6, <2>2, Zenon
    <2>4. Ahead(q)
      BY <2>1, Zenon DEF EarlyOrder
    <2> QED  BY <1>1, <1>7, <2>1, <2>3, <2>4, Zenon DEF Ahead, At, InUse, UpTo
  <1>15. DueOrder'
    <2> SUFFICES ASSUME NEW f \in Flushers, Flushing(f)', NEW c \in Buffers, NEW r \in full'[c],
                        items'[c][r] \in due
                 PROVE  /\ InUse(flushIdx)' /\ UpTo(flushIdx, c)'
                        /\ At(f, "count")' => flushIdx = buf[f]
                        /\ ~At(f, "done")'
      BY <1>1, Zenon DEF DueOrder, InReach
    <2>1. r \in full[c] /\ items'[c][r] = items[c][r]
      BY <1>5, <1>6, Zenon
    <2>2. pc'[f] = pc[f] /\ InReach(f)
      BY <1>2, Zenon DEF DueOrder, Flushing
    <2> QED  BY <1>1, <1>7, <2>1, <2>2, Zenon DEF InReach, At, InUse, UpTo
  <1> QED  BY <1>9, <1>10, <1>13, <1>14, <1>15

\* What is sent is no longer before anything, nor due.
LEMMA ReadItemsOrderInv ==
  ASSUME IInv, IInv', CopyInv, CopyInv', OrderInv, NEW f \in Flushers, ReadItems(f)
  PROVE  OrderInv'
  <1> USE DEF OrderInv
  <1>1. /\ f \in Actors /\ f \notin Producers /\ pc[f] = "read" /\ index[buf[f]] = 0
        /\ UNCHANGED <<active, drain, index, items, buf, slot, item, flushIdx, calls, accepted>>
        /\ before' = [i \in Items |-> IF i \in ItemsOf(sent') THEN {}
                                                          ELSE before[i] \ ItemsOf(sent')]
        /\ due' = due \ ItemsOf(sent')
        /\ pc' = [pc EXCEPT ![f] = "unseal"]
    BY BatcherAssumption, Zenon
       DEF IInv, ThreadTypes, ReadItems, ring, At, Goto, Actors, CopyInv, ReadInv
  <1>2. /\ pc'[f] = "unseal"
        /\ \A a \in Actors : a # f => pc'[a] = pc[a]
        /\ \A q \in Producers : q \in Actors /\ q # f
        /\ \A g \in Flushers : g \in Actors
    BY <1>1, Zenon DEF IInv, ThreadTypes, Actors
  <1>3. \A b \in Buffers : full'[b] \subseteq full[b]
    <2>1. full' = [full EXCEPT ![buf[f]] = {}] /\ full = [b \in Buffers |-> full[b]]
      BY ReadItemsFull, Zenon DEF CopyInv, full
    <2> QED  BY <2>1
  <1>4. Oldest' = Oldest
    BY <1>1, <1>2, OldestStable, Zenon
  <1>5. \A b \in Buffers : InUse(b)' <=> InUse(b)
    BY <1>1, <1>4, Zenon DEF InUse
  <1>6. /\ \A i \in Items : before'[i] \subseteq before[i]
        /\ due' \subseteq due
        /\ 1 .. calls \subseteq Items
    <2>1. \A i \in Items : before'[i] \subseteq before[i]
      BY <1>1, Zenon
    <2>2. due' \subseteq due
      BY <1>1, Zenon
    <2> QED  BY <2>1, <2>2, CallsInItems, Zenon
  <1>7. UsedInv'
    <2>1. \A g \in Flushers : At(g, "unseal")' => g = f \/ At(g, "unseal")
      BY <1>2, Zenon DEF At
    <2> QED  BY <1>1, <1>3, <1>5, <2>1, Zenon DEF UsedInv
  <1>8. WaitingInv'
    <2>1. \A k \in Sent' : sent'[k] \in ItemsOf(sent')
      BY Zenon DEF Sent, ItemsOf
    <2>2. before' \in [Items -> SUBSET accepted]
      BY <1>1, Zenon DEF WaitingInv
    <2>3. \A i \in Items : \A x \in ItemsOf(sent') : x \notin before'[i]
      BY <1>1, Zenon
    <2> QED  BY <1>1, <2>1, <2>2, <2>3, Zenon DEF WaitingInv
  <1>9. PlacedOrder'
    <2>1. \A b \in Buffers : \A s \in full[b] : items[b][s] \in Items
      BY <1>6, Zenon DEF CopyInv, PlacedInv, Placed
    <2> QED  BY <1>1, <1>3, <1>4, <1>6, <2>1, Zenon DEF PlacedOrder
  <1>10. EarlyOrder'
    <2> SUFFICES ASSUME NEW q \in Producers, Early(q)', NEW c \in Buffers, NEW r \in full'[c],
                        items[c][r] \in before'[item[q]]
                 PROVE  /\ InUse(buf[q])' /\ UpTo(buf[q], c)'
                        /\ At(q, "write")' /\ c = buf[q] => r < slot[q]
      BY <1>1, Zenon DEF EarlyOrder, Ahead
    <2>1. pc'[q] = pc[q] /\ Early(q) /\ Ahead(q)
      BY <1>2, Zenon DEF Early, EarlyOrder
    <2>2. item[q] \in Items
      BY <1>6, <2>1, Zenon DEF CopyInv, OwnInv, Early
    <2>3. r \in full[c] /\ items[c][r] \in before[item[q]]
      BY <1>3, <1>6, <2>2, Zenon
    <2> QED  BY <1>1, <1>4, <2>1, <2>3, Zenon DEF Ahead, At, InUse, UpTo
  <1>11. DueOrder'
    <2> SUFFICES ASSUME NEW g \in Flushers, Flushing(g)', NEW c \in Buffers, NEW r \in full'[c],
                        items[c][r] \in due'
                 PROVE  /\ InUse(flushIdx)' /\ UpTo(flushIdx, c)'
                        /\ At(g, "count")' => flushIdx = buf[g]
                        /\ ~At(g, "done")'
      BY <1>1, Zenon DEF DueOrder, InReach
    <2>1. r \in full[c] /\ items[c][r] \in due
      BY <1>3, <1>6, Zenon
    <2>2. InReach(g) /\ (At(g, "count")' => At(g, "count")) /\ (At(g, "done")' => At(g, "done"))
      BY <1>1, <1>2, Zenon DEF DueOrder, Flushing, At
    <2> QED  BY <1>1, <1>4, <2>1, <2>2, Zenon DEF InReach, InUse, UpTo
  <1> QED  BY <1>7, <1>8, <1>9, <1>10, <1>11

\* The interval loses a buffer that is empty.
LEMMA UnsealOrderInv ==
  ASSUME IInv, IInv', CopyInv, CopyInv', OrderInv, NEW f \in Flushers, Unseal(f)
  PROVE  OrderInv'
  <1> USE DEF OrderInv
  <1>1. /\ f \in Actors /\ f \notin Producers /\ pc[f] = "unseal" /\ buf[f] = drain
        /\ index[drain] = 0 /\ drain \in Buffers /\ active \in Buffers
        /\ UNCHANGED <<active, drain, index, items, buf, slot, sent, item, before, due, flushIdx,
                       calls, accepted>>
        /\ pc' = [pc EXCEPT ![f] = "advance"]
    BY BatcherAssumption, Zenon
       DEF IInv, RingTypes, ThreadTypes, GuardInv, OnDrain, Draining, UsedInv, Unseal, history,
           At, Goto, Actors
  <1>2. /\ pc'[f] = "advance"
        /\ \A a \in Actors : a # f => pc'[a] = pc[a]
        /\ \A q \in Producers : q \in Actors /\ q # f
        /\ \A g \in Flushers : g \in Actors
        /\ \A g \in Flushers : g # f => pc[g] = "idle"
    BY <1>1, Zenon DEF IInv, ThreadTypes, GuardInv, Actors
  <1>3. full' = full
    BY <1>1, <1>2, FullStable, Zenon
  <1>4. full[drain] = {}
    <2>1. full[drain] = Below(drain, 0)
      <3>1. \A g \in Flushers : ~Reading(g, drain)
        BY <1>1, <1>2, Zenon DEF Reading, At
      <3> QED  BY <1>1, <3>1, FullFacts, Zenon DEF FullIs
    <2>2. \A s \in Slots : ~(s < 0)
      BY BatcherAssumption DEF Slots
    <2> QED  BY <2>1, <2>2, Zenon DEF Below
  <1>5. Oldest = drain /\ Oldest' = Succ(drain) /\ Succ(drain) \in Buffers
    BY <1>1, <1>2, SuccFacts, Zenon DEF Oldest, At
  <1>6. \A b, c \in Buffers : b # drain /\ c # drain =>
          (InRange(Succ(drain), b, c) <=> InRange(drain, b, c))
    BY <1>1, RangeFacts, Zenon
  <1>7. /\ active # drain
        /\ \A b \in Buffers : b # drain /\ InUse(b) => InUse(b)'
        /\ \A b, c \in Buffers : b # drain /\ c # drain /\ UpTo(b, c) => UpTo(b, c)'
    <2>1. active # drain
      BY <1>1, Zenon DEF IInv, DrainInv, Draining
    <2> QED  BY <1>1, <1>5, <1>6, <2>1, Zenon DEF InUse, UpTo
  <1>8. \A c \in Buffers : c # drain => ~UpTo(drain, c)
    BY <1>1, <1>5 DEF UpTo, InRange, Buffers
  <1>9. \A c \in Buffers : full[c] # {} => c # drain
    BY <1>4, Zenon
  <1>10. UsedInv'
    <2>1. \A g \in Flushers : ~At(g, "unseal")'
      BY <1>2, Zenon DEF At
    <2> QED  BY <1>1, <1>3, <1>7, <1>9, <2>1, Zenon DEF UsedInv
  <1>11. WaitingInv'
    BY <1>1, Zenon DEF WaitingInv, Sent
  <1>12. PlacedOrder'
    BY <1>1, <1>3, <1>5, <1>6, <1>9, Zenon DEF PlacedOrder
  <1>13. EarlyOrder'
    <2> SUFFICES ASSUME NEW q \in Producers, Early(q)', NEW c \in Buffers, NEW r \in full[c],
                        items[c][r] \in before[item[q]]
                 PROVE  /\ InUse(buf[q])' /\ UpTo(buf[q], c)'
                        /\ At(q, "write")' /\ c = buf[q] => r < slot[q]
      BY <1>1, <1>3, Zenon DEF EarlyOrder, Ahead
    <2>1. pc'[q] = pc[q] /\ Early(q) /\ Ahead(q) /\ buf[q] \in Buffers
      BY <1>2, Zenon DEF Early, EarlyOrder, IInv, ThreadTypes
    <2>2. /\ InUse(buf[q]) /\ UpTo(buf[q], c) /\ c # drain
          /\ At(q, "write") /\ c = buf[q] => r < slot[q]
      BY <1>9, <2>1, Zenon DEF Ahead
    <2>3. buf[q] # drain
      BY <1>8, <2>2, Zenon
    <2>4. InUse(buf[q])' /\ UpTo(buf[q], c)'
      BY <1>1, <1>7, <2>1, <2>2, <2>3, Zenon DEF InUse, UpTo
    <2> QED  BY <2>1, <2>2, <2>4, Zenon DEF At
  <1>14. DueOrder'
    <2> SUFFICES ASSUME NEW g \in Flushers, Flushing(g)', NEW c \in Buffers, NEW r \in full[c],
                        items[c][r] \in due
                 PROVE  /\ InUse(flushIdx)' /\ UpTo(flushIdx, c)'
                        /\ At(g, "count")' => flushIdx = buf[g]
                        /\ ~At(g, "done")'
      BY <1>1, <1>3, Zenon DEF DueOrder, InReach
    <2>1. /\ InReach(g) /\ (At(g, "count")' => At(g, "count")) /\ (At(g, "done")' => At(g, "done"))
          /\ flushIdx \in Buffers
      BY <1>1, <1>2, Zenon DEF DueOrder, Flushing, At, IInv, ThreadTypes
    <2>2. InUse(flushIdx) /\ UpTo(flushIdx, c) /\ c # drain
      BY <1>9, <2>1, Zenon DEF InReach
    <2>3. flushIdx # drain
      BY <1>8, <2>2, Zenon
    <2>4. InUse(flushIdx)' /\ UpTo(flushIdx, c)'
      BY <1>1, <1>7, <2>1, <2>2, <2>3, Zenon DEF InUse, UpTo
    <2> QED  BY <2>1, <2>4, Zenon DEF InReach
  <1> QED  BY <1>10, <1>11, <1>12, <1>13, <1>14

\* Every step keeps their order.
LEMMA NextOrderInv ==
  IInv /\ IInv' /\ CopyInv /\ CopyInv' /\ OrderInv /\ [Next]_vars => OrderInv'
  <1> SUFFICES ASSUME IInv, IInv', CopyInv, CopyInv', OrderInv, [Next]_vars PROVE OrderInv'
    OBVIOUS
  <1>1. ASSUME NEW p \in Producers, Enqueue(p) \/ ProducerStep(p) PROVE OrderInv'
    <2>1. p \in Actors
      BY DEF Actors
    <2> QED  BY <1>1, <2>1, EnqueueOrderInv, LoadActiveOrderInv, FetchSlotOrderInv,
                WriteSlotOrderInv, QuietStepOrderInv, Zenon DEF ProducerStep
  <1>2. ASSUME NEW f \in Flushers, BeginFlush(f) \/ FlushStep(f) PROVE OrderInv'
    <2>1. f \in Actors
      BY DEF Actors
    <2> QED  BY <1>2, <2>1, FlushOrderInv, ReadItemsOrderInv, UnsealOrderInv, QuietStepOrderInv, Zenon
                DEF FlushStep
  <1>3. CASE UNCHANGED vars
    <2>1. UNCHANGED <<active, drain, index, items, buf, slot, pc, sent, item, calls, accepted,
                      before, due, flushIdx>>
      BY <1>3, Zenon DEF vars, ring, threads, history
    <2>2. full' = full /\ Oldest' = Oldest
      BY <2>1, FullStable, OldestStable, Zenon
    <2>3. WaitingInv'
      BY <2>1, Zenon DEF OrderInv, WaitingInv, Sent
    <2>4. buf \in [Actors -> Buffers] /\ flushIdx \in Buffers
      BY Zenon DEF IInv, ThreadTypes
    <2>5. \A f \in Flushers : At(f, "unseal")' => index'[buf'[f]] = 0
      BY <2>1, Zenon DEF OrderInv, UsedInv, At
    <2>6. \A p \in Producers : (Early(p)' <=> Early(p)) /\ (At(p, "write")' <=> At(p, "write"))
      BY <2>1, Zenon DEF Early, At
    <2>7. \A f \in Flushers : /\ Flushing(f)' <=> Flushing(f)
                              /\ At(f, "count")' <=> At(f, "count")
                              /\ At(f, "done")' <=> At(f, "done")
      BY <2>1, Zenon DEF Flushing, At
    <2> QED  BY <2>1, <2>2, <2>3, <2>4, <2>5, <2>6, <2>7, QuietOrderInv, Zenon
  <1> QED  BY <1>1, <1>2, <1>3, Zenon DEF Next

\* The three invariants together; an item sent by a step is preceded by what
\* must go first; a flush that ends has nothing more to send.
Good == IInv /\ CopyInv /\ OrderInv
InOrder == \A k \in Len(sent) + 1 .. Len(sent') :
             sent'[k] \in Items => before[sent'[k]] \subseteq ItemsOf(SubSeq(sent', 1, k - 1))
Covers == \A f \in Flushers : At(f, "done") /\ At(f, "idle")' => DueSent

\* A step hands process_batch an item after all that must be sent before it.
LEMMA OrderStep == Good /\ Good' /\ [Next]_vars => [InOrder]_vars
  <1> SUFFICES ASSUME IInv, IInv', CopyInv, OrderInv, [Next]_vars PROVE InOrder \/ UNCHANGED vars
    BY DEF Good
  <1>1. CASE \E f \in Flushers : ReadItems(f)
    <2>1. PICK f \in Flushers : ReadItems(f)
      BY <1>1
    <2> SUFFICES ASSUME NEW k \in Len(sent) + 1 .. Len(sent'), sent'[k] \in Items,
                        NEW j \in before[sent'[k]]
                 PROVE  j \in ItemsOf(SubSeq(sent', 1, k - 1))
      BY Zenon DEF InOrder
    <2>2. /\ buf[f] \in Buffers /\ slot[f] \in 0 .. QueueLength
          /\ full[buf[f]] = 0 .. slot[f] - 1
          /\ sent' \in Seq(Nat) /\ Len(sent') = Len(sent) + slot[f]
          /\ \A s \in 0 .. slot[f] - 1 : sent'[Len(sent) + s + 1] = items[buf[f]][s]
      BY <2>1, ReadItemsFull, Zenon DEF CopyInv
    <2>3. Len(sent) \in Nat /\ pc[f] = "read" /\ buf[f] = drain /\ Oldest = drain
      <3>1. pc[f] = "read" /\ Len(sent) \in Nat
        BY <2>1 DEF ReadItems, At, CopyInv, HistoryInv
      <3>2. buf[f] = drain
        BY <3>1, Zenon DEF IInv, GuardInv, OnDrain, Draining
      <3>3. \A g \in Flushers : pc[g] # "advance"
        BY <3>1, Zenon DEF IInv, GuardInv
      <3> QED  BY <3>1, <3>2, <3>3, Zenon DEF Oldest, At
    <2>4. PICK s \in 0 .. slot[f] - 1 : k = Len(sent) + s + 1
      <3>1. k - Len(sent) - 1 \in 0 .. slot[f] - 1 /\ k = Len(sent) + (k - Len(sent) - 1) + 1
        BY <2>2, <2>3
      <3> QED  BY <3>1, Zenon
    <2>5. j \in accepted /\ \A m \in Sent : sent[m] # j
      BY Zenon DEF OrderInv, WaitingInv
    <2>6. PICK c \in Buffers : \E r \in full[c] : items[c][r] = j
      BY <2>5, Zenon DEF CopyInv, KeptInv
    <2>7. PICK r \in full[c] : items[c][r] = j
      BY <2>6, Zenon
    <2>8. IF c = buf[f] THEN r < s ELSE InRange(drain, drain, c)
      <3>1. sent'[k] = items[buf[f]][s] /\ s \in full[buf[f]]
        BY <2>2, <2>4, Zenon
      <3> QED  BY <2>2, <2>3, <2>7, <3>1, Zenon DEF OrderInv, PlacedOrder
    <2>9. c = buf[f] /\ r < s /\ r \in 0 .. slot[f] - 1
      <3>1. ~InRange(drain, drain, c)
        BY <2>2, <2>3, BatcherAssumption DEF InRange, Buffers
      <3> QED  BY <2>2, <2>8, <2>7, <3>1, Zenon
    <2>10. sent'[Len(sent) + r + 1] = j /\ Len(sent) + r + 1 \in 1 .. k - 1
      <3>1. sent'[Len(sent) + r + 1] = j
        BY <2>2, <2>7, <2>9, Zenon
      <3>2. r \in Int /\ s \in Int /\ 0 <= r /\ r < s
        BY <2>2, <2>9
      <3>3. Len(sent) + r + 1 \in 1 .. k - 1
        BY <2>3, <2>4, <3>2
      <3> QED  BY <3>1, <3>3, Zenon
    <2>11. /\ Len(SubSeq(sent', 1, k - 1)) = k - 1
           /\ \A m \in 1 .. k - 1 : SubSeq(sent', 1, k - 1)[m] = sent'[m]
      <3>1. \A m \in 1 .. k - 1 : sent'[m] \in Nat
        <4>1. \A m \in 1 .. k - 1 : m \in 1 .. Len(sent')
          BY <2>2, <2>3
        <4> QED  BY <2>2, <4>1, ElementIsNat, Zenon
      <3>2. k - 1 \in Int /\ 1 <= k
        BY <2>3
      <3>3. /\ Len(SubSeq(sent', 1, k - 1)) = IF 1 <= k - 1 THEN k - 1 - 1 + 1 ELSE 0
            /\ \A m \in 1 .. k - 1 - 1 + 1 : SubSeq(sent', 1, k - 1)[m] = sent'[1 + m - 1]
        BY <3>1, <3>2
      <3> QED  BY <3>2, <3>3
    <2> QED  BY <2>10, <2>11, Zenon DEF ItemsOf
  <1>2. CASE ~\E f \in Flushers : ReadItems(f)
    <2>1. sent' = sent \/ UNCHANGED vars
      BY <1>2, Zenon DEF Next, ProducerStep, FlushStep, Enqueue, LoadActive, CheckSealed,
         AddingIncrement, Recheck, FetchSlot, WriteSlot, AddingDecrement, RetryOrDrop, Rotate,
         RotateCheck, RotateSeal, RotateSwap, RotateFail, BeginFlush, ReadFlushIdx, LookAtDrain,
         InspectDrain, WaitForWriters, TakeIndex, Unseal, AdvanceDrain, EndFlush, history
    <2>2. Len(sent) + 1 .. Len(sent) = {}
      BY DEF CopyInv, HistoryInv
    <2> QED  BY <2>1, <2>2, Zenon DEF InOrder
  <1> QED  BY <1>1, <1>2

\* A flush whose flush_idx is passed has nothing due left.
LEMMA CoversStep == Good => Covers
  <1> SUFFICES ASSUME IInv, CopyInv, OrderInv, NEW f \in Flushers, At(f, "done") PROVE due = {}
    BY DEF DueSent, Good, Covers
  <1>1. \A c \in Buffers : \A r \in full[c] : items[c][r] \notin due
    BY Zenon DEF OrderInv, DueOrder, InReach, Flushing, At
  <1>2. due \subseteq accepted /\ \A m \in Sent : sent[m] \notin due
    BY DEF OrderInv, WaitingInv
  <1> QED  BY <1>1, <1>2, Zenon DEF CopyInv, KeptInv

(***************************************************************************)
(* The number of places.  The cardinality of finite sets is only needed    *)
(* from here on.                                                           *)
(***************************************************************************)
INSTANCE FiniteSetTheorems

\* One place, counted.
LEMMA OnePlace ==
  ASSUME NEW S, NEW x \in S, \A y \in S : y = x
  PROVE  Cardinality(S) = 1
  <1>1. S = {x}
    OBVIOUS
  <1> QED  BY <1>1, FS_Singleton, Zenon

\* An accepted item has one place, a dropped one none.
LEMMA OneCopy == IInv /\ CopyInv => ExactlyOnce
  <1> SUFFICES ASSUME IInv, CopyInv PROVE ExactlyOnce
    OBVIOUS
  <1> DEFINE Cells(i) == {x \in Buffers \X Slots : x[2] \in Filled(x[1]) /\ items[x[1]][x[2]] = i}
  <1> DEFINE Posts(i) == {k \in 1 .. Len(sent) : sent[k] = i}
  <1>1. \A b \in Buffers : full[b] = Filled(b) /\ full[b] \subseteq Slots
    BY Zenon DEF full, Filled
  <1>2. Cardinality({}) = 0
    BY FS_EmptySet, Zenon
  <1>3. ASSUME NEW i, NEW x \in Cells(i)
        PROVE  (\A y \in Cells(i) : y = x) /\ Posts(i) = {}
    <2>1. \A y \in Cells(i) : /\ y = <<y[1], y[2]>> /\ y[1] \in Buffers
                              /\ y[2] \in full[y[1]] /\ items[y[1]][y[2]] = i
      BY <1>1
    <2>2. \A y \in Cells(i) : y[1] = x[1] /\ y[2] = x[2]
      BY <2>1 DEF CopyInv, UniqueInv
    <2>3. Posts(i) = {}
      BY <2>1 DEF CopyInv, UniqueInv, Sent
    <2> QED  BY <2>1, <2>2, <2>3, Zenon
  <1>4. ASSUME NEW i, NEW k \in Posts(i) PROVE \A m \in Posts(i) : m = k
    BY Zenon DEF CopyInv, UniqueInv, Sent
  <1>5. ASSUME NEW i \in accepted PROVE Copies(i) = 1
    <2>1. Cells(i) # {} \/ Posts(i) # {}
      <3>1. CASE \E b \in Buffers : \E s \in full[b] : items[b][s] = i
        <4>1. PICK b \in Buffers : \E s \in full[b] : items[b][s] = i
          BY <3>1, Zenon
        <4>2. PICK s \in full[b] : items[b][s] = i
          BY <4>1, Zenon
        <4>3. <<b, s>> \in Cells(i)
          BY <1>1, <4>2, Zenon
        <4> QED  BY <4>3, Zenon
      <3>2. CASE \E k \in Sent : sent[k] = i
        BY <3>2, Zenon DEF Sent
      <3> QED  BY <3>1, <3>2, Zenon DEF CopyInv, KeptInv
    <2>2. CASE Cells(i) # {}
      <3>1. PICK x \in Cells(i) : TRUE
        BY <2>2, Zenon
      <3>2. Cardinality(Cells(i)) = 1 /\ Cardinality(Posts(i)) = 0
        <4>1. (\A y \in Cells(i) : y = x) /\ Posts(i) = {}
          BY <1>3, Zenon
        <4> HIDE DEF Cells, Posts
        <4> QED  BY <1>2, <4>1, OnePlace, Zenon
      <3> QED  BY <3>2 DEF Copies
    <2>3. CASE Cells(i) = {}
      <3>1. PICK k \in Posts(i) : TRUE
        BY <2>1, <2>3, Zenon
      <3>2. Cardinality(Cells(i)) = 0 /\ Cardinality(Posts(i)) = 1
        <4>1. \A m \in Posts(i) : m = k
          BY <1>4, Zenon
        <4> HIDE DEF Cells, Posts
        <4> QED  BY <1>2, <2>3, <4>1, OnePlace, Zenon
      <3> QED  BY <3>2 DEF Copies
    <2> QED  BY <2>2, <2>3, Zenon
  <1>6. ASSUME NEW i \in dropped PROVE Copies(i) = 0
    <2>1. Cells(i) = {} /\ Posts(i) = {}
      BY <1>1 DEF CopyInv, PlacedInv, Placed, Sent
    <2>2. Cardinality(Cells(i)) = 0 /\ Cardinality(Posts(i)) = 0
      <3> HIDE DEF Cells, Posts
      <3> QED  BY <1>2, <2>1, Zenon
    <2> QED  BY <2>2 DEF Copies
  <1> QED  BY <1>5, <1>6 DEF ExactlyOnce

(***************************************************************************)
(* The theorems.                                                           *)
(***************************************************************************)
\* The ring, the places of the items and their order, in every reachable state.
THEOREM BatcherItems == Spec => []Good
  <1>1. Init => IInv /\ CopyInv /\ OrderInv
    BY InitIInv, InitCopyInv, InitOrderInv, Zenon
  <1>2. (IInv /\ CopyInv /\ OrderInv) /\ [Next]_vars => (IInv /\ CopyInv /\ OrderInv)'
    BY NextIInv, NextCopyInv, NextOrderInv, Zenon
  <1> QED  BY <1>1, <1>2, PTL DEF Spec, Good

\* The queue is first in, first out, and a flush that ends with nothing more due
\* has sent all that was accepted before it began ("Prep the oldest buffer first
\* to preserve FIFO order"): for any number of producers and flushers, any ring
\* and any buffer length.
THEOREM BatcherRingOrder == Spec => RingOrder
  <1>1. Spec => [][InOrder]_vars
    BY BatcherItems, OrderStep, PTL DEF Spec
  <1>2. Spec => [][Covers]_vars
    BY BatcherItems, CoversStep, PTL DEF Spec
  <1> QED  BY <1>1, <1>2, PTL DEF RingOrder, SentInOrder, FlushCovers, InOrder, Covers

\* The ring is memory safe and loses nothing, for any number of producers and
\* flushers, any ring and any buffer length: an item for which
\* sentry__batcher_enqueue returned true is in one filled slot or was handed to
\* process_batch once, and one for which it returned false is nowhere.
THEOREM BatcherRingSafe == Spec => []RingSafe
  <1>1. Good => TypeOK
    BY DEF Good, IInv, TypeOK
  <1>2. Good => ExactlyOnce
    BY OneCopy DEF Good
  <1>3. Good => NoSlotRace
    BY SlotsDisjoint, Zenon DEF Good
  <1>4. Good => RingSafe
    BY <1>1, <1>2, <1>3 DEF RingSafe
  <1> QED  BY <1>4, BatcherItems, PTL
=============================================================================
