------------------------------- MODULE Batcher -------------------------------
(***************************************************************************)
(* The lock-free telemetry queue of src/src/sentry_batcher.c: a ring of    *)
(* buffers that producers fill with sentry__batcher_enqueue and that one   *)
(* flusher at a time drains with sentry__batcher_flush.                    *)
(*                                                                         *)
(* Every access to a shared atomic is a step of its own (the code uses     *)
(* sequentially consistent atomics throughout), except a read of drain_idx *)
(* by the flusher, the only one to write it.  The counter `adding` of a    *)
(* buffer is the set of the producers that incremented it.                 *)
(***************************************************************************)
EXTENDS Integers, Sequences, FiniteSets

CONSTANTS Producers,   \* threads that call sentry__batcher_enqueue
          Flushers,    \* threads that call sentry__batcher_flush
          BufferCount, \* SENTRY_BATCHER_BUFFER_COUNT
          QueueLength, \* SENTRY_BATCHER_QUEUE_LENGTH
          MaxItems     \* bound: calls of enqueue in a behaviour

ASSUME BatcherAssumption == /\ BufferCount \in Nat /\ BufferCount >= 2
                            /\ QueueLength \in Nat /\ QueueLength >= 1
                            /\ MaxItems \in Nat
                            /\ Producers \cap Flushers = {}

VARIABLES active, drain,   \* active_idx, drain_idx
          flushing,        \* the reentrancy guard of flush
          index,           \* per buffer: the next free slot
          adders,          \* per buffer: the producers counted by `adding`
          sealed,          \* per buffer: closed for producers
          items,           \* per buffer: the slots
          pc,              \* program counter of every thread
          buf,             \* per thread: the buffer it works on
          slot,            \* per thread: item_idx, the flusher's n
          item,            \* per producer: the item being enqueued
          flushIdx,        \* flush_idx of the running flush
          calls,           \* number of enqueue calls so far
          accepted,        \* history: items for which enqueue returned true
          dropped,         \* history: items for which it returned false
          before,          \* history: per item not yet sent, those that must go first
          due,             \* history: waiting when the flush began
          sent             \* history: items handed to process_batch, in order

ring == <<active, drain, flushing, index, adders, sealed, items>>
threads == <<pc, buf, slot, item, flushIdx>>
history == <<calls, accepted, dropped, before, due, sent>>
vars == <<ring, threads, history>>

Buffers == 0 .. BufferCount - 1
Slots == 0 .. QueueLength - 1
Actors == Producers \cup Flushers
Items == 1 .. MaxItems

\* (b + 1) % SENTRY_BATCHER_BUFFER_COUNT for a buffer b.
Succ(b) == IF b = BufferCount - 1 THEN 0 ELSE b + 1

Init == /\ active = 0 /\ drain = 0
        /\ flushing = FALSE
        /\ index = [b \in Buffers |-> 0]
        /\ adders = [b \in Buffers |-> {}]
        /\ sealed = [b \in Buffers |-> FALSE]
        /\ items = [b \in Buffers |-> [s \in Slots |-> 0]]
        /\ pc = [a \in Actors |-> "idle"]
        /\ buf = [a \in Actors |-> 0]
        /\ slot = [a \in Actors |-> 0]
        /\ item = [p \in Producers |-> 0]
        /\ flushIdx = 0
        /\ calls = 0
        /\ accepted = {} /\ dropped = {}
        /\ before = [i \in Items |-> {}]
        /\ due = {}
        /\ sent = <<>>

At(a, l) == pc[a] = l
Goto(a, l) == pc' = [pc EXCEPT ![a] = l]

\* The items of a sequence, and those accepted that have not been sent.
ItemsOf(s) == {s[k] : k \in 1 .. Len(s)}
Waiting == accepted \ ItemsOf(sent)

(***************************************************************************)
(* rotate_buffer, called by a producer on a full buffer and by the flusher *)
(* on the buffer it drains.  It leaves at "rotated" or "stuck" according   *)
(* to the value it returns.                                                *)
(***************************************************************************)
\* The three tests that the next buffer is empty and unused, in order.
RotateCheck(a) ==
  LET new == Succ(buf[a]) IN
  /\ \/ At(a, "r_sealed") /\ Goto(a, IF sealed[new] THEN "r_fail" ELSE "r_index")
     \/ At(a, "r_index") /\ Goto(a, IF index[new] # 0 THEN "r_fail" ELSE "r_adding")
     \/ At(a, "r_adding") /\ Goto(a, IF adders[new] # {} THEN "r_fail" ELSE "r_seal")
  /\ UNCHANGED <<ring, buf, slot, item, flushIdx, history>>

\* Seal the old buffer before publishing the new one.
SealedByRotation(b) == [sealed EXCEPT ![b] = TRUE]
RotateSeal(a) ==
  /\ At(a, "r_seal")
  /\ sealed' = SealedByRotation(buf[a])
  /\ Goto(a, "r_swap")
  /\ UNCHANGED <<active, drain, flushing, index, adders, items, buf, slot,
                 item, flushIdx, history>>

\* The compare-and-swap of active_idx.
RotateSwap(a) ==
  /\ At(a, "r_swap")
  /\ IF active = buf[a] THEN active' = Succ(active) /\ Goto(a, "rotated")
                        ELSE UNCHANGED active /\ Goto(a, "r_fail")
  /\ UNCHANGED <<drain, flushing, index, adders, sealed, items, buf, slot,
                 item, flushIdx, history>>

\* A rotation that did not happen succeeds if another thread rotated.
RotateFail(a) ==
  /\ At(a, "r_fail")
  /\ Goto(a, IF active # buf[a] THEN "rotated" ELSE "stuck")
  /\ UNCHANGED <<ring, buf, slot, item, flushIdx, history>>

Rotate(a) == RotateCheck(a) \/ RotateSeal(a) \/ RotateSwap(a) \/ RotateFail(a)

(***************************************************************************)
(* sentry__batcher_enqueue.                                                *)
(***************************************************************************)
Enqueue(p) ==
  /\ At(p, "idle") /\ calls < MaxItems
  /\ calls' = calls + 1
  /\ item' = [item EXCEPT ![p] = calls + 1]
  /\ before' = [before EXCEPT ![calls + 1] = Waiting]
  /\ Goto(p, "load")
  /\ UNCHANGED <<ring, buf, slot, flushIdx, accepted, dropped, due, sent>>

LoadActive(p) ==
  /\ At(p, "load")
  /\ buf' = [buf EXCEPT ![p] = active]
  /\ Goto(p, "sealed")
  /\ UNCHANGED <<ring, slot, item, flushIdx, history>>

CheckSealed(p) ==
  /\ At(p, "sealed")
  /\ Goto(p, IF sealed[buf[p]] THEN "load" ELSE "add")
  /\ UNCHANGED <<ring, buf, slot, item, flushIdx, history>>

AddingIncrement(p) ==
  /\ At(p, "add")
  /\ adders' = [adders EXCEPT ![buf[p]] = @ \cup {p}]
  /\ Goto(p, "recheck")
  /\ UNCHANGED <<active, drain, flushing, index, sealed, items, buf, slot,
                 item, flushIdx, history>>

\* The two rechecks behind `adding`: the buffer must still be the active one
\* and not sealed.
StillActive_Skipped(p) == TRUE
StillActive(p) == active = buf[p]
StillOpen(p) == ~sealed[buf[p]]
Recheck(p) ==
  /\ \/ At(p, "recheck") /\ Goto(p, IF StillActive(p) THEN "resealed" ELSE "undo")
     \/ At(p, "resealed") /\ Goto(p, IF StillOpen(p) THEN "slot" ELSE "undo")
  /\ UNCHANGED <<ring, buf, slot, item, flushIdx, history>>

\* Request a slot; a buffer without room is rotated away.
FetchSlot(p) ==
  LET n == index[buf[p]] IN
  /\ At(p, "slot")
  /\ slot' = [slot EXCEPT ![p] = n]
  /\ index' = [index EXCEPT ![buf[p]] = n + 1]
  /\ Goto(p, IF n < QueueLength THEN "write" ELSE "r_sealed")
  /\ UNCHANGED <<active, drain, flushing, adders, sealed, items, buf, item,
                 flushIdx, history>>

\* Write the item; the producer that fills the last slot rotates.
WriteSlot(p) ==
  /\ At(p, "write")
  /\ items' = [items EXCEPT ![buf[p]][slot[p]] = item[p]]
  /\ Goto(p, IF slot[p] = QueueLength - 1 THEN "r_sealed" ELSE "rotated")
  /\ UNCHANGED <<active, drain, flushing, index, adders, sealed, buf, slot,
                 item, flushIdx, history>>

\* `adding` is given back: to start over, to return, or to decide on a retry.
AddingDecrement(p) ==
  /\ pc[p] \in {"undo", "rotated", "stuck"}
  /\ adders' = [adders EXCEPT ![buf[p]] = @ \ {p}]
  /\ \/ /\ ~At(p, "undo") /\ slot[p] < QueueLength
        /\ accepted' = accepted \cup {item[p]}
        /\ Goto(p, "idle")
     \/ /\ At(p, "undo") \/ (At(p, "rotated") /\ slot[p] >= QueueLength)
        /\ Goto(p, "load")
        /\ UNCHANGED accepted
     \/ /\ At(p, "stuck") /\ slot[p] >= QueueLength
        /\ Goto(p, "last")
        /\ UNCHANGED accepted
  /\ UNCHANGED <<active, drain, flushing, index, sealed, items, buf, slot,
                 item, flushIdx, calls, dropped, before, due, sent>>

\* Retry when another thread rotated after all, otherwise drop the item.
RetryOrDrop(p) ==
  /\ At(p, "last")
  /\ IF active # buf[p]
       THEN Goto(p, "load") /\ UNCHANGED dropped
       ELSE Goto(p, "idle") /\ dropped' = dropped \cup {item[p]}
  /\ UNCHANGED <<ring, buf, slot, item, flushIdx, calls, accepted, before, due,
                 sent>>

ProducerStep(p) == \/ LoadActive(p) \/ CheckSealed(p) \/ AddingIncrement(p)
                   \/ Recheck(p) \/ FetchSlot(p) \/ WriteSlot(p)
                   \/ AddingDecrement(p) \/ RetryOrDrop(p) \/ Rotate(p)

(***************************************************************************)
(* sentry__batcher_flush.                                                  *)
(***************************************************************************)
\* The exchange on `flushing`: a second flush returns at once (and in
\* crash-safe mode tries again).
MayFlush == ~flushing
BeginFlush(f) ==
  /\ At(f, "idle") /\ MayFlush
  /\ flushing' = TRUE
  /\ due' = Waiting
  /\ Goto(f, "begin")
  /\ UNCHANGED <<active, drain, index, adders, sealed, items, buf, slot, item,
                 flushIdx, calls, accepted, dropped, before, sent>>

\* flush_idx: the buffer through which this call flushes.
ReadFlushIdx(f) ==
  /\ At(f, "begin")
  /\ flushIdx' = active
  /\ Goto(f, "look")
  /\ UNCHANGED <<ring, buf, slot, item, history>>

\* Is the oldest buffer sealed already?
LookAtDrain(f) ==
  /\ At(f, "look")
  /\ buf' = [buf EXCEPT ![f] = drain]
  /\ Goto(f, IF sealed[drain] THEN "wait" ELSE "active")
  /\ UNCHANGED <<ring, slot, item, flushIdx, history>>

\* If not, and it is the active one, rotate it away, unless it is empty or a
\* partly filled buffer that became active after the call began.
NothingDue(b, n) == n <= 0 \/ (b # flushIdx /\ n < QueueLength)
InspectDrain(f) ==
  /\ \/ At(f, "active") /\ Goto(f, IF active = buf[f] THEN "count" ELSE "wait")
     \/ At(f, "count") /\ Goto(f, IF NothingDue(buf[f], index[buf[f]])
                                    THEN "done" ELSE "r_sealed")
  /\ UNCHANGED <<ring, buf, slot, item, flushIdx, history>>

\* Wait for the producers that are still writing to the buffer.
NoWriters_Assumed(b) == TRUE
NoWriters(b) == adders[b] = {}
WaitForWriters(f) ==
  /\ pc[f] \in {"wait", "rotated"}
  /\ NoWriters(buf[f])
  /\ Goto(f, "take")
  /\ UNCHANGED <<ring, buf, slot, item, flushIdx, history>>

\* The exchange that resets the index and tells how many slots to read.
TakeIndex(f) ==
  /\ At(f, "take")
  /\ slot' = [slot EXCEPT ![f] = IF index[buf[f]] > QueueLength
                                  THEN QueueLength ELSE index[buf[f]]]
  /\ index' = [index EXCEPT ![buf[f]] = 0]
  /\ Goto(f, "read")
  /\ UNCHANGED <<active, drain, flushing, adders, sealed, items, buf, item,
                 flushIdx, history>>

\* Collect the items and hand them to process_batch.
ReadItems(f) ==
  /\ At(f, "read")
  /\ sent' = sent \o [s \in 1 .. slot[f] |-> items[buf[f]][s - 1]]
  /\ before' = [i \in Items |-> IF i \in ItemsOf(sent') THEN {}
                                                    ELSE before[i] \ ItemsOf(sent')]
  /\ due' = due \ ItemsOf(sent')
  /\ Goto(f, "unseal")
  /\ UNCHANGED <<ring, buf, slot, item, flushIdx, calls, accepted, dropped>>

\* The drained buffer is open again ...
Reopened_Not(b) == sealed
Reopened(b) == [sealed EXCEPT ![b] = FALSE]
Unseal(f) ==
  /\ At(f, "unseal")
  /\ sealed' = Reopened(buf[f])
  /\ Goto(f, "advance")
  /\ UNCHANGED <<active, drain, flushing, index, adders, items, buf, slot,
                 item, flushIdx, history>>

\* ... and the next one is the oldest.
NextDrain(b) == Succ(b)
AdvanceDrain(f) ==
  /\ At(f, "advance")
  /\ drain' = NextDrain(buf[f])
  /\ Goto(f, "look")
  /\ UNCHANGED <<active, flushing, index, adders, sealed, items, buf, slot,
                 item, flushIdx, history>>

EndFlush(f) ==
  /\ pc[f] \in {"done", "stuck"}
  /\ flushing' = FALSE
  /\ due' = {}
  /\ Goto(f, "idle")
  /\ UNCHANGED <<active, drain, index, adders, sealed, items, buf, slot, item,
                 flushIdx, calls, accepted, dropped, before, sent>>

FlushStep(f) == \/ ReadFlushIdx(f) \/ LookAtDrain(f) \/ InspectDrain(f)
                \/ WaitForWriters(f) \/ TakeIndex(f) \/ ReadItems(f)
                \/ Unseal(f) \/ AdvanceDrain(f) \/ EndFlush(f) \/ Rotate(f)

Next == \/ \E p \in Producers : Enqueue(p) \/ ProducerStep(p)
        \/ \E f \in Flushers : BeginFlush(f) \/ FlushStep(f)

Spec == Init /\ [][Next]_vars

\* Threads are scheduled, and the batching thread flushes again and again
\* (on its timer, or when request_flush is set).
Fairness == /\ \A p \in Producers : WF_vars(ProducerStep(p))
            /\ \A f \in Flushers : WF_vars(BeginFlush(f) \/ FlushStep(f))
FairSpec == Spec /\ Fairness

(***************************************************************************)
(* Properties.                                                             *)
(***************************************************************************)
RingTypes == /\ active \in Buffers /\ drain \in Buffers
             /\ flushing \in BOOLEAN
             /\ index \in [Buffers -> Nat]
             /\ adders \in [Buffers -> SUBSET Producers]
             /\ sealed \in [Buffers -> BOOLEAN]
             /\ items \in [Buffers -> [Slots -> Nat]]

ProducerPc == {"idle", "load", "sealed", "add", "recheck", "resealed", "undo",
               "slot", "write", "r_sealed", "r_index", "r_adding", "r_seal",
               "r_swap", "r_fail", "rotated", "stuck", "last"}
FlusherPc == {"idle", "begin", "look", "active", "count", "r_sealed",
              "r_index", "r_adding", "r_seal", "r_swap", "r_fail", "rotated",
              "stuck", "done", "wait", "take", "read", "unseal", "advance"}

ThreadTypes == /\ pc \in [Actors -> ProducerPc \cup FlusherPc]
               /\ \A p \in Producers : pc[p] \in ProducerPc
               /\ \A f \in Flushers : pc[f] \in FlusherPc
               /\ buf \in [Actors -> Buffers]
               /\ slot \in [Actors -> Nat]
               /\ item \in [Producers -> Nat]
               /\ flushIdx \in Buffers /\ calls \in Nat

\* The indices stay inside the ring, and every counter keeps its type.
TypeOK == RingTypes /\ ThreadTypes

\* The flusher reads a buffer's slots.
Reading(f, b) == At(f, "read") /\ buf[f] = b

\* A producer owns a slot of b that it has not finished writing.
Writing(p, b) == At(p, "write") /\ buf[p] = b

\* The slots are plain memory: no producer writes to a buffer while a flusher
\* reads it, and no two producers write to the same slot.
NoSlotRace ==
  \A p \in Producers : \A b \in Buffers :
    Writing(p, b) => /\ \A f \in Flushers : ~Reading(f, b)
                     /\ \A q \in Producers \ {p} :
                          Writing(q, b) => slot[q] # slot[p]

\* The filled slots of b: those below index, or, while a flusher collects
\* them, below its n; a slot still being written is not filled.
Filled(b) ==
  LET n == IF \E f \in Flushers : Reading(f, b)
             THEN slot[CHOOSE f \in Flushers : Reading(f, b)] ELSE index[b]
  IN {s \in Slots : s < n /\ \A p \in Producers :
                              Writing(p, b) => slot[p] # s}

\* An item that enqueue accepted exists exactly once: in one filled slot or,
\* once, among the items sent.  Nothing is lost, doubled or read stale when
\* buffers are rotated, drained and reused under the producers.
Copies(i) == Cardinality({x \in Buffers \X Slots :
                            x[2] \in Filled(x[1]) /\ items[x[1]][x[2]] = i})
             + Cardinality({k \in 1 .. Len(sent) : sent[k] = i})
ExactlyOnce == /\ \A i \in accepted : Copies(i) = 1
               /\ \A i \in dropped : Copies(i) = 0

\* The ring is memory safe and loses nothing: the three above together.
RingSafe == TypeOK /\ NoSlotRace /\ ExactlyOnce

\* Telemetry keeps its order ("Prep the oldest buffer first to preserve FIFO
\* order"): an item waiting when another's enqueue began is sent before it.
SentInOrder ==
  [][\A k \in Len(sent) + 1 .. Len(sent') :
       sent'[k] \in Items => before[sent'[k]] \subseteq ItemsOf(SubSeq(sent', 1, k - 1))]_vars

\* Every accepted item is eventually sent: a sealed buffer is not forgotten
\* and a full one does not stop the queue.
ItemsSent == []<>(Waiting = {})

\* What the flush of f had to send has been sent.
DueSent == due = {}

\* A flush that ends because nothing more is due has sent everything accepted
\* before it began, although buffers rotate and fill again while it runs.
FlushCovers == [][\A f \in Flushers : At(f, "done") /\ At(f, "idle")' => DueSent]_vars

\* The order of the items and the cover of a flush together.
RingOrder == SentInOrder /\ FlushCovers

\* "Flush through the buffer that was active when this call began": all of it
\* has been sent whenever a flush returns.
FlushThrough ==
  [][\A f \in Flushers : flushing /\ ~flushing' => DueSent]_vars
==============================================================================
