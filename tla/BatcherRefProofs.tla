-------------------------- MODULE BatcherRefProofs ---------------------------
(***************************************************************************)
(* Machine-checked proofs about BatcherRef, for any finite number of       *)
(* producers and crash handlers and any set of batchers.                   *)
(*                                                                         *)
(* The argument: a batcher's count is one for the ref, the startup or the  *)
(* swap that has it in hand, and one for every producer that has counted   *)
(* itself in.  A producer that has not counted itself in yet holds the     *)
(* lock, so that the ref still counts for it.  A handler counts for        *)
(* nothing, but what it holds is still in the ref, or in the hands of a    *)
(* swap that waits for the pins.                                           *)
(***************************************************************************)
EXTENDS BatcherRef, FiniteSetTheorems, TLAPS

(***************************************************************************)
(* The inductive invariant, part by part.                                  *)
(***************************************************************************)
\* Where each kind of thread may be, and when it has a batcher in hand.
PlaceInv ==
  /\ \A p \in Producers :
       /\ ref_pc[p] \in {"idle", "load", "incref", "unlock", "use"}
       /\ ref_pc[p] \in {"idle", "load"} => held[p] = NoBatcher
       /\ ref_pc[p] = "use" => held[p] # NoBatcher
  /\ \A h \in Handlers :
       /\ ref_pc[h] \in {"idle", "load", "unpin", "use"}
       /\ held[h] # NoBatcher <=> ref_pc[h] = "use"
  /\ ref_pc[RefOwner] \in {"idle", "swap", "exchange", "unlock", "wait", "old", "release"}
  /\ ref_pc[RefOwner] \in {"idle", "swap", "exchange"} => held[RefOwner] = NoBatcher
  /\ ref_pc[RefOwner] \in {"wait", "old", "release"} => held[RefOwner] # NoBatcher
  /\ ref_pc[RefOwner] \notin {"swap", "exchange"} => fresh = NoBatcher

\* The spinlock is held by one thread at a time, and while a producer has it
\* the ref does not change under it.
Locked(t) == \/ t \in Producers /\ ref_pc[t] \in {"load", "incref", "unlock"}
             \/ t = RefOwner /\ ref_pc[t] \in {"exchange", "unlock"}
LockInv ==
  /\ \A t \in Threads : Locked(t) => lock = 1
  /\ \A t, u \in Threads : Locked(t) /\ Locked(u) => t = u
  /\ \A p \in Producers : ref_pc[p] = "incref" => held[p] = ptr /\ ptr # NoBatcher

\* The count of a batcher.
RefCounted(b) == {p \in Producers : held[p] = b /\ ref_pc[p] \in {"unlock", "use"}}
Kept(b) == b \in {ptr, fresh, held[RefOwner]}
RefCountInv ==
  /\ \A b \in Batchers :
       refs[b] = Cardinality(RefCounted(b)) + IF Kept(b) THEN 1 ELSE 0
  /\ ptr # NoBatcher => ptr # fresh /\ ptr # held[RefOwner]
  /\ fresh # NoBatcher => fresh # held[RefOwner]

\* The pins, and what the threads that took one may hold.
PinInv ==
  /\ pins = Cardinality({h \in Handlers : ref_pc[h] # "idle"})
  /\ \A h \in Handlers : held[h] # NoBatcher =>
       held[h] = ptr \/ (held[h] = held[RefOwner] /\ ref_pc[RefOwner] \in {"unlock", "wait"})

\* A batcher is alive while it is counted, and shut down last by the owner.
AliveInv ==
  /\ \A b \in Batchers : life[b] \in {"live", "shut"} <=> refs[b] # 0
  /\ \A b \in Batchers : b \in {ptr, fresh} => life[b] = "live"
  /\ held[RefOwner] # NoBatcher /\ ref_pc[RefOwner] # "release" => life[held[RefOwner]] = "live"

RefIInv == /\ RefTypeOK /\ PlaceInv /\ LockInv /\ RefCountInv /\ PinInv /\ AliveInv

(***************************************************************************)
(* Lemmas.                                                                 *)
(***************************************************************************)
\* The producers that have counted themselves in, and the handlers that have
\* pinned, are finitely many.
LEMMA FiniteCounts ==
  /\ \A b : IsFiniteSet(RefCounted(b)) /\ Cardinality(RefCounted(b)) \in Nat
  /\ IsFiniteSet({h \in Handlers : ref_pc[h] # "idle"})
  /\ Cardinality({h \in Handlers : ref_pc[h] # "idle"}) \in Nat
  <1>1. \A b : RefCounted(b) \in SUBSET Producers
    BY DEF RefCounted
  <1>2. {h \in Handlers : ref_pc[h] # "idle"} \in SUBSET Handlers
    OBVIOUS
  <1> QED  BY <1>1, <1>2, FS_Subset, FS_CardinalityType, RefAssumption, Zenon

\* A thread that counts itself in, and out.
LEMMA CountIn ==
  ASSUME NEW S, NEW x, IsFiniteSet(S), x \notin S
  PROVE  Cardinality(S \cup {x}) = Cardinality(S) + 1
  BY FS_AddElement
\* One member less.
LEMMA CountOut ==
  ASSUME NEW S, NEW x, IsFiniteSet(S), x \in S
  PROVE  Cardinality(S \ {x}) = Cardinality(S) - 1 /\ Cardinality(S) # 0
  BY FS_RemoveElement, FS_EmptySet

\* Nobody else is counted when a producer keeps its place among the counted.
LEMMA Uncounted ==
  ASSUME \A p \in Producers : /\ held'[p] = held[p]
                              /\ ref_pc'[p] \in {"unlock", "use"} <=> ref_pc[p] \in {"unlock", "use"}
  PROVE  \A b : RefCounted(b)' = RefCounted(b)
  BY DEF RefCounted

(***************************************************************************)
(* The steps of a producer.                                                *)
(***************************************************************************)
LEMMA AcquireStep ==
  ASSUME RefIInv, NEW p \in Producers, Acquire(p)
  PROVE  RefIInv'
  <1> USE RefAssumption DEF RefIInv, Threads, Acquire, LockRef, RefAt, RefGoto
  <1>1. RefTypeOK'
    BY Zenon DEF RefTypeOK
  <1>2. PlaceInv'
    BY Zenon DEF RefTypeOK, PlaceInv
  <1>3. LockInv'
    BY DEF RefTypeOK, PlaceInv, LockInv, Locked
  <1>4. RefCountInv'
    <2>1. \A b : RefCounted(b)' = RefCounted(b)
      BY Uncounted, Zenon DEF RefTypeOK
    <2> QED  BY <2>1, Zenon DEF RefTypeOK, RefCountInv, Kept
  <1>5. PinInv'
    <2>1. {h \in Handlers : ref_pc[h] # "idle"}' = {h \in Handlers : ref_pc[h] # "idle"}
      BY DEF RefTypeOK
    <2> QED  BY <2>1, Zenon DEF RefTypeOK, PinInv
  <1>6. AliveInv'
    BY Zenon DEF RefTypeOK, AliveInv
  <1> QED  BY <1>1, <1>2, <1>3, <1>4, <1>5, <1>6

\* sentry__batcher_acquire loads the ref under the lock.
LEMMA AcquireLoadStep ==
  ASSUME RefIInv, NEW p \in Producers, AcquireLoad(p)
  PROVE  RefIInv'
  <1> USE RefAssumption DEF RefIInv, Threads, AcquireLoad, RefAt, RefGoto, Hold
  <1>1. RefTypeOK'
    BY Zenon DEF RefTypeOK, PlaceInv
  <1>2. PlaceInv'
    BY Zenon DEF RefTypeOK, PlaceInv
  <1>3. LockInv'
    BY Zenon DEF RefTypeOK, PlaceInv, LockInv, Locked
  <1>4. RefCountInv'
    <2>1. \A b \in Batchers : RefCounted(b)' = RefCounted(b)
      BY Zenon DEF RefTypeOK, PlaceInv, RefCounted
    <2> QED  BY <2>1 DEF RefTypeOK, PlaceInv, RefCountInv, Kept
  <1>5. PinInv'
    <2>1. {h \in Handlers : ref_pc[h] # "idle"}' = {h \in Handlers : ref_pc[h] # "idle"}
      BY Zenon DEF RefTypeOK
    <2> QED  BY <2>1, Zenon DEF RefTypeOK, PlaceInv, PinInv
  <1>6. AliveInv'
    BY Zenon DEF RefTypeOK, PlaceInv, AliveInv
  <1> QED  BY <1>1, <1>2, <1>3, <1>4, <1>5, <1>6

\* The batcher that the ref still counts is counted once more.
LEMMA AcquireIncrefStep ==
  ASSUME RefIInv, NEW p \in Producers, AcquireIncref(p)
  PROVE  RefIInv'
  <1> USE RefAssumption DEF RefIInv, Threads, AcquireIncref, RefAt, RefGoto
  <1>0. held[p] = ptr /\ ptr \in Batchers /\ p \notin RefCounted(ptr)
    BY Zenon DEF RefTypeOK, LockInv, RefCounted
  <1>1. RefTypeOK'
    BY <1>0 DEF RefTypeOK
  <1>2. PlaceInv'
    BY Zenon DEF RefTypeOK, PlaceInv
  <1>3. LockInv'
    BY Zenon DEF RefTypeOK, PlaceInv, LockInv, Locked
  <1>4. RefCountInv'
    <2>1. RefCounted(ptr)' = RefCounted(ptr) \cup {p}
      BY <1>0, Zenon DEF RefTypeOK, RefCounted
    <2>2. \A b \in Batchers : b # ptr => RefCounted(b)' = RefCounted(b)
      BY <1>0, Zenon DEF RefTypeOK, RefCounted
    <2>3. Cardinality(RefCounted(ptr)') = Cardinality(RefCounted(ptr)) + 1
      BY <1>0, <2>1, FiniteCounts, CountIn, Zenon
    <2>4. Cardinality(RefCounted(ptr)) \in Nat
      BY FiniteCounts, Zenon
    <2> QED  BY <1>0, <2>2, <2>3, <2>4 DEF RefTypeOK, RefCountInv, Kept
  <1>5. PinInv'
    <2>1. {h \in Handlers : ref_pc[h] # "idle"}' = {h \in Handlers : ref_pc[h] # "idle"}
      BY Zenon DEF RefTypeOK
    <2> QED  BY <2>1, Zenon DEF RefTypeOK, PlaceInv, PinInv
  <1>6. AliveInv'
    BY <1>0 DEF RefTypeOK, PlaceInv, AliveInv
  <1> QED  BY <1>1, <1>2, <1>3, <1>4, <1>5, <1>6, Zenon

\* The producer is counted by itself when it gives up the lock.
LEMMA AcquireUnlockStep ==
  ASSUME RefIInv, NEW p \in Producers, AcquireUnlock(p)
  PROVE  RefIInv'
  <1> USE RefAssumption DEF RefIInv, Threads, AcquireUnlock, UnlockRef, RefAt, RefGoto
  <1>1. RefTypeOK'
    BY Zenon DEF RefTypeOK, PlaceInv
  <1>2. PlaceInv'
    BY Zenon DEF RefTypeOK, PlaceInv
  <1>3. LockInv'
    BY Zenon DEF RefTypeOK, PlaceInv, LockInv, Locked
  <1>4. RefCountInv'
    <2>1. \A b \in Batchers : RefCounted(b)' = RefCounted(b)
      BY DEF RefTypeOK, PlaceInv, RefCounted
    <2> QED  BY <2>1 DEF RefTypeOK, PlaceInv, RefCountInv, Kept
  <1>5. PinInv'
    <2>1. {h \in Handlers : ref_pc[h] # "idle"}' = {h \in Handlers : ref_pc[h] # "idle"}
      BY Zenon DEF RefTypeOK
    <2> QED  BY <2>1, Zenon DEF RefTypeOK, PlaceInv, PinInv
  <1>6. AliveInv'
    BY Zenon DEF RefTypeOK, PlaceInv, AliveInv
  <1> QED  BY <1>1, <1>2, <1>3, <1>4, <1>5, <1>6, Zenon

\* The last one out frees the batcher: no ref leads to it any more.
LEMMA ProducerReleaseStep ==
  ASSUME RefIInv, NEW p \in Producers, ProducerRelease(p)
  PROVE  RefIInv'
  <1> USE RefAssumption DEF RefIInv, Threads, ProducerRelease, Release, RefAt, RefGoto, Hold
  <1>0. /\ held[p] \in Batchers /\ p \in RefCounted(held[p])
        /\ Cardinality(RefCounted(held[p])) \in Nat \ {0} /\ refs[held[p]] \in Nat \ {0}
    <2>1. held[p] \in Batchers /\ p \in RefCounted(held[p])
      BY Zenon DEF RefTypeOK, PlaceInv, RefCounted
    <2>2. Cardinality(RefCounted(held[p])) \in Nat \ {0}
      BY <2>1, FiniteCounts, CountOut, Zenon
    <2> QED  BY <2>1, <2>2 DEF RefCountInv
  <1>1. RefTypeOK'
    BY <1>0 DEF RefTypeOK, Freed
  <1>2. PlaceInv'
    BY Zenon DEF RefTypeOK, PlaceInv
  <1>3. LockInv'
    BY DEF RefTypeOK, PlaceInv, LockInv, Locked
  <1>4. RefCountInv'
    <2>0. PICK b0 \in Batchers : b0 = held[p]
      BY <1>0, Zenon
    <2>1. RefCounted(b0)' = RefCounted(b0) \ {p}
      BY <2>0, Zenon DEF RefTypeOK, RefCounted
    <2>2. ASSUME NEW b \in Batchers, b # b0 PROVE RefCounted(b)' = RefCounted(b)
      <3>1. p \notin RefCounted(b) /\ p \notin RefCounted(b)'
        BY <2>0, <2>2, Zenon DEF RefTypeOK, RefCounted
      <3>2. \A q \in Producers : q # p => ref_pc'[q] = ref_pc[q] /\ held'[q] = held[q]
        BY Zenon DEF RefTypeOK
      <3> QED  BY <3>1, <3>2, Zenon DEF RefCounted
    <2>3. Cardinality(RefCounted(b0)') = Cardinality(RefCounted(b0)) - 1
      BY <1>0, <2>0, <2>1, FiniteCounts, CountOut, Zenon
    <2>4. refs' = [refs EXCEPT ![b0] = @ - 1]
      BY <2>0, Zenon
    <2>5. Cardinality(RefCounted(b0)) \in Nat
      BY FiniteCounts, Zenon
    <2>6. \A b : Kept(b)' <=> Kept(b)
      BY Zenon DEF RefTypeOK, Kept
    <2>7. ASSUME NEW b \in Batchers
          PROVE  refs'[b] = Cardinality(RefCounted(b)') + IF Kept(b)' THEN 1 ELSE 0
      BY <2>2, <2>3, <2>4, <2>5, <2>6 DEF RefTypeOK, RefCountInv
    <2> QED  BY <2>7, Zenon DEF RefTypeOK, RefCountInv
  <1>5. PinInv'
    <2>1. {h \in Handlers : ref_pc[h] # "idle"}' = {h \in Handlers : ref_pc[h] # "idle"}
      BY Zenon DEF RefTypeOK
    <2> QED  BY <2>1, Zenon DEF RefTypeOK, PlaceInv, PinInv
  <1>6. AliveInv'
    <2>1. ASSUME NEW b \in Batchers PROVE life'[b] \in {"live", "shut"} <=> refs'[b] # 0
      BY <1>0 DEF RefTypeOK, AliveInv, Freed
    <2>2. ASSUME NEW b \in Batchers, Kept(b) PROVE life'[b] = life[b]
      <3>1. CASE b = held[p]
        <4>1. refs[b] # 1
          BY <1>0, <2>2, <3>1 DEF RefCountInv
        <4> QED  BY <3>1, <4>1, <1>0, Zenon DEF RefTypeOK, Freed
      <3> QED  BY <1>0, <3>1, Zenon DEF RefTypeOK, Freed
    <2> QED  BY <2>1, <2>2 DEF RefTypeOK, PlaceInv, AliveInv, Kept
  <1> QED  BY <1>1, <1>2, <1>3, <1>4, <1>5, <1>6, Zenon

(***************************************************************************)
(* The steps of a crash handler.                                           *)
(***************************************************************************)
LEMMA PinStep ==
  ASSUME RefIInv, NEW h \in Handlers, Pin(h)
  PROVE  RefIInv'
  <1> USE RefAssumption DEF RefIInv, Threads, Pin, Pinned, RefAt, RefGoto
  <1>1. RefTypeOK'
    BY DEF RefTypeOK
  <1>2. PlaceInv'
    BY Zenon DEF RefTypeOK, PlaceInv
  <1>3. LockInv'
    BY DEF RefTypeOK, PlaceInv, LockInv, Locked
  <1>4. RefCountInv'
    <2>1. \A b : RefCounted(b)' = RefCounted(b)
      BY Uncounted, Zenon DEF RefTypeOK, PlaceInv
    <2> QED  BY <2>1, Zenon DEF RefTypeOK, PlaceInv, RefCountInv, Kept
  <1>5. PinInv'
    <2> DEFINE Pinning == {g \in Handlers : ref_pc[g] # "idle"}
    <2>1. Pinning' = Pinning \cup {h} /\ h \notin Pinning
      BY Zenon DEF RefTypeOK
    <2>2. Cardinality(Pinning') = Cardinality(Pinning) + 1
      BY <2>1, FiniteCounts, CountIn, Zenon
    <2> QED  BY <2>2, Zenon DEF RefTypeOK, PlaceInv, PinInv
  <1>6. AliveInv'
    BY Zenon DEF RefTypeOK, PlaceInv, AliveInv
  <1> QED  BY <1>1, <1>2, <1>3, <1>4, <1>5, <1>6, Zenon

\* A handler takes what is in the ref, without counting itself.
LEMMA PinLoadStep ==
  ASSUME RefIInv, NEW h \in Handlers, PinLoad(h)
  PROVE  RefIInv'
  <1> USE RefAssumption DEF RefIInv, Threads, PinLoad, RefAt, RefGoto, Hold
  <1>1. RefTypeOK'
    BY Zenon DEF RefTypeOK, PlaceInv
  <1>2. PlaceInv'
    BY Zenon DEF RefTypeOK, PlaceInv
  <1>3. LockInv'
    BY DEF RefTypeOK, PlaceInv, LockInv, Locked
  <1>4. RefCountInv'
    <2>1. \A b : RefCounted(b)' = RefCounted(b)
      BY Uncounted, Zenon DEF RefTypeOK, PlaceInv
    <2> QED  BY <2>1, Zenon DEF RefTypeOK, PlaceInv, RefCountInv, Kept
  <1>5. PinInv'
    <2>1. {g \in Handlers : ref_pc[g] # "idle"}' = {g \in Handlers : ref_pc[g] # "idle"}
      BY Zenon DEF RefTypeOK
    <2> QED  BY <2>1, Zenon DEF RefTypeOK, PlaceInv, PinInv
  <1>6. AliveInv'
    BY Zenon DEF RefTypeOK, PlaceInv, AliveInv
  <1> QED  BY <1>1, <1>2, <1>3, <1>4, <1>5, <1>6, Zenon

\* A handler lets go of its batcher, if it has one, and of its pin.
LEMMA UnpinStep ==
  ASSUME RefIInv, NEW h \in Handlers, Unpin(h)
  PROVE  RefIInv'
  <1> USE RefAssumption DEF RefIInv, Threads, Unpin, RefAt, RefGoto, Hold
  <1> DEFINE Pinning == {g \in Handlers : ref_pc[g] # "idle"}
  <1>0. /\ Pinning' = Pinning \ {h} /\ h \in Pinning
        /\ Cardinality(Pinning') = Cardinality(Pinning) - 1
        /\ Cardinality(Pinning) \in Nat \ {0}
    <2>1. Pinning' = Pinning \ {h} /\ h \in Pinning
      BY Zenon DEF RefTypeOK
    <2> QED  BY <2>1, FiniteCounts, CountOut, Zenon
  <1> HIDE DEF Pinning
  <1>1. RefTypeOK'
    BY <1>0 DEF RefTypeOK, PinInv, Pinning
  <1>2. PlaceInv'
    BY Zenon DEF RefTypeOK, PlaceInv
  <1>3. LockInv'
    BY Zenon DEF RefTypeOK, PlaceInv, LockInv, Locked
  <1>4. RefCountInv'
    <2>1. \A b : RefCounted(b)' = RefCounted(b)
      BY Uncounted, Zenon DEF RefTypeOK, PlaceInv
    <2> QED  BY <2>1, Zenon DEF RefTypeOK, PlaceInv, RefCountInv, Kept
  <1>5. PinInv'
    BY <1>0, Zenon DEF RefTypeOK, PlaceInv, PinInv, Pinning
  <1>6. AliveInv'
    BY Zenon DEF RefTypeOK, PlaceInv, AliveInv
  <1> QED  BY <1>1, <1>2, <1>3, <1>4, <1>5, <1>6, Zenon

(***************************************************************************)
(* The steps of startup and shutdown.                                      *)
(***************************************************************************)
\* A batcher that was never used is counted by nobody.
LEMMA RefStartupStep ==
  ASSUME RefIInv, RefStartup
  PROVE  RefIInv'
  <1> USE RefAssumption DEF RefIInv, Threads, RefStartup, RefAt, RefGoto
  <1>0. PICK b0 \in Batchers : /\ life[b0] = "unused"
                               /\ life' = [life EXCEPT ![b0] = "live"]
                               /\ refs' = [refs EXCEPT ![b0] = 1]
                               /\ fresh' = b0
    BY Zenon
  <1>1. RefTypeOK'
    BY <1>0, Zenon DEF RefTypeOK
  <1>2. PlaceInv'
    BY <1>0, Zenon DEF RefTypeOK, PlaceInv
  <1>3. LockInv'
    BY <1>0, Zenon DEF RefTypeOK, PlaceInv, LockInv, Locked
  <1>4. RefCountInv'
    <2>1. \A b : RefCounted(b)' = RefCounted(b)
      BY Uncounted, Zenon DEF RefTypeOK
    <2>2. refs[b0] = 0
      BY <1>0, Zenon DEF RefTypeOK, AliveInv
    <2>3. Cardinality(RefCounted(b0)) = 0 /\ ~Kept(b0)
      BY <2>2, FiniteCounts DEF RefTypeOK, RefCountInv
    <2>4. fresh = NoBatcher /\ held[RefOwner] = NoBatcher
      BY Zenon DEF PlaceInv
    <2>5. ASSUME NEW b \in Batchers
          PROVE  refs'[b] = Cardinality(RefCounted(b)') + IF Kept(b)' THEN 1 ELSE 0
      <3>1. CASE b = b0
        BY <1>0, <2>1, <2>3, <3>1 DEF RefTypeOK, Kept
      <3>2. CASE b # b0
        BY <1>0, <2>1, <2>4, <3>2, Zenon DEF RefTypeOK, RefCountInv, Kept
      <3> QED  BY <3>1, <3>2, Zenon
    <2> QED  BY <1>0, <2>3, <2>4, <2>5, Zenon DEF RefTypeOK, RefCountInv, Kept
  <1>5. PinInv'
    <2>1. {h \in Handlers : ref_pc[h] # "idle"}' = {h \in Handlers : ref_pc[h] # "idle"}
      BY Zenon DEF RefTypeOK
    <2> QED  BY <2>1, Zenon DEF RefTypeOK, PinInv
  <1>6. AliveInv'
    BY <1>0 DEF RefTypeOK, PlaceInv, AliveInv
  <1> QED  BY <1>1, <1>2, <1>3, <1>4, <1>5, <1>6, Zenon

\* The swap begins with no batcher in hand to publish.
LEMMA RefShutdownStep ==
  ASSUME RefIInv, RefShutdown
  PROVE  RefIInv'
  <1> USE RefAssumption DEF RefIInv, Threads, RefShutdown, RefAt, RefGoto
  <1>1. RefTypeOK'
    BY Zenon DEF RefTypeOK, PlaceInv
  <1>2. PlaceInv'
    BY Zenon DEF RefTypeOK, PlaceInv
  <1>3. LockInv'
    BY Zenon DEF RefTypeOK, PlaceInv, LockInv, Locked
  <1>a. \A b : RefCounted(b)' = RefCounted(b)
    BY Uncounted, Zenon DEF RefTypeOK, PlaceInv
  <1>4. RefCountInv'
    BY <1>a, Zenon DEF RefTypeOK, PlaceInv, RefCountInv, Kept
  <1>b. {h \in Handlers : ref_pc[h] # "idle"}' = {h \in Handlers : ref_pc[h] # "idle"}
    BY Zenon DEF RefTypeOK
  <1>5. PinInv'
    BY <1>b, Zenon DEF RefTypeOK, PlaceInv, PinInv
  <1>6. AliveInv'
    BY Zenon DEF RefTypeOK, PlaceInv, AliveInv
  <1> QED  BY <1>1, <1>2, <1>3, <1>4, <1>5, <1>6, Zenon

\* The swap takes the lock.
LEMMA SwapLockStep ==
  ASSUME RefIInv, SwapLock
  PROVE  RefIInv'
  <1> USE RefAssumption DEF RefIInv, Threads, SwapLock, LockRef, RefAt, RefGoto
  <1>1. RefTypeOK'
    BY Zenon DEF RefTypeOK, PlaceInv
  <1>2. PlaceInv'
    BY Zenon DEF RefTypeOK, PlaceInv
  <1>3. LockInv'
    BY DEF RefTypeOK, PlaceInv, LockInv, Locked
  <1>a. \A b : RefCounted(b)' = RefCounted(b)
    BY Uncounted, Zenon DEF RefTypeOK, PlaceInv
  <1>4. RefCountInv'
    BY <1>a, Zenon DEF RefTypeOK, PlaceInv, RefCountInv, Kept
  <1>b. {h \in Handlers : ref_pc[h] # "idle"}' = {h \in Handlers : ref_pc[h] # "idle"}
    BY Zenon DEF RefTypeOK
  <1>5. PinInv'
    BY <1>b, Zenon DEF RefTypeOK, PlaceInv, PinInv
  <1>6. AliveInv'
    BY Zenon DEF RefTypeOK, PlaceInv, AliveInv
  <1> QED  BY <1>1, <1>2, <1>3, <1>4, <1>5, <1>6, Zenon

\* What the ref held moves into the hands of the owner, still alive.
LEMMA SwapStep ==
  ASSUME RefIInv, Swap
  PROVE  RefIInv'
  <1> USE RefAssumption DEF RefIInv, Threads, Swap, RefAt, RefGoto, Hold
  <1>1. RefTypeOK'
    BY Zenon DEF RefTypeOK, PlaceInv
  <1>2. PlaceInv'
    BY Zenon DEF RefTypeOK, PlaceInv
  <1>3. LockInv'
    BY Zenon DEF RefTypeOK, PlaceInv, LockInv, Locked
  <1>a. \A b : RefCounted(b)' = RefCounted(b)
    BY Uncounted, Zenon DEF RefTypeOK, PlaceInv
  <1>4. RefCountInv'
    <2>1. held[RefOwner] = NoBatcher /\ held'[RefOwner] = ptr /\ ptr' = fresh /\ fresh' = NoBatcher
      BY Zenon DEF RefTypeOK, PlaceInv
    <2>2. \A b \in Batchers : Kept(b)' <=> Kept(b)
      BY <2>1, Zenon DEF Kept
    <2> QED  BY <1>a, <2>1, <2>2, Zenon DEF RefTypeOK, RefCountInv
  <1>b. {h \in Handlers : ref_pc[h] # "idle"}' = {h \in Handlers : ref_pc[h] # "idle"}
    BY Zenon DEF RefTypeOK
  <1>5. PinInv'
    BY <1>b, Zenon DEF RefTypeOK, PlaceInv, PinInv
  <1>6. AliveInv'
    BY Zenon DEF RefTypeOK, PlaceInv, AliveInv
  <1> QED  BY <1>1, <1>2, <1>3, <1>4, <1>5, <1>6, Zenon

\* The swap goes on to wait for the pins, if it has an old batcher.
LEMMA SwapUnlockStep ==
  ASSUME RefIInv, SwapUnlock
  PROVE  RefIInv'
  <1> USE RefAssumption DEF RefIInv, Threads, SwapUnlock, UnlockRef, RefAt, RefGoto
  <1>1. RefTypeOK'
    BY Zenon DEF RefTypeOK, PlaceInv
  <1>2. PlaceInv'
    BY Zenon DEF RefTypeOK, PlaceInv
  <1>3. LockInv'
    BY Zenon DEF RefTypeOK, PlaceInv, LockInv, Locked
  <1>a. \A b : RefCounted(b)' = RefCounted(b)
    BY Uncounted, Zenon DEF RefTypeOK, PlaceInv
  <1>4. RefCountInv'
    BY <1>a, Zenon DEF RefTypeOK, PlaceInv, RefCountInv, Kept
  <1>b. {h \in Handlers : ref_pc[h] # "idle"}' = {h \in Handlers : ref_pc[h] # "idle"}
    BY Zenon DEF RefTypeOK
  <1>5. PinInv'
    BY <1>b, Zenon DEF RefTypeOK, PlaceInv, PinInv
  <1>6. AliveInv'
    BY Zenon DEF RefTypeOK, PlaceInv, AliveInv
  <1> QED  BY <1>1, <1>2, <1>3, <1>4, <1>5, <1>6, Zenon

\* No pin: no crash handler holds the batcher that goes.
LEMMA SwapWaitStep ==
  ASSUME RefIInv, SwapWait
  PROVE  RefIInv'
  <1> USE RefAssumption DEF RefIInv, Threads, SwapWait, PinsGone, RefAt, RefGoto
  <1>1. RefTypeOK'
    BY Zenon DEF RefTypeOK, PlaceInv
  <1>2. PlaceInv'
    BY Zenon DEF RefTypeOK, PlaceInv
  <1>3. LockInv'
    BY Zenon DEF RefTypeOK, PlaceInv, LockInv, Locked
  <1>a. \A b : RefCounted(b)' = RefCounted(b)
    BY Uncounted, Zenon DEF RefTypeOK, PlaceInv
  <1>4. RefCountInv'
    BY <1>a, Zenon DEF RefTypeOK, PlaceInv, RefCountInv, Kept
  <1>b. {h \in Handlers : ref_pc[h] # "idle"}' = {h \in Handlers : ref_pc[h] # "idle"}
    BY Zenon DEF RefTypeOK
  <1>5. PinInv'
    <2>1. {h \in Handlers : ref_pc[h] # "idle"} = {}
      BY FiniteCounts, FS_EmptySet, Zenon DEF PinInv
    <2>2. \A h \in Handlers : held[h] = NoBatcher
      BY <2>1, Zenon DEF PlaceInv
    <2> QED  BY <1>b, <2>2, Zenon DEF RefTypeOK, PinInv
  <1>6. AliveInv'
    BY Zenon DEF RefTypeOK, PlaceInv, AliveInv
  <1> QED  BY <1>1, <1>2, <1>3, <1>4, <1>5, <1>6, Zenon

\* The old batcher is shut down once nobody pins it.
LEMMA ShutdownOldStep ==
  ASSUME RefIInv, ShutdownOld
  PROVE  RefIInv'
  <1> USE RefAssumption DEF RefIInv, Threads, ShutdownOld, RefAt, RefGoto
  <1>0. held[RefOwner] \in Batchers /\ life[held[RefOwner]] = "live"
    BY Zenon DEF RefTypeOK, PlaceInv, AliveInv
  <1>1. RefTypeOK'
    BY <1>0, Zenon DEF RefTypeOK
  <1>2. PlaceInv'
    BY Zenon DEF RefTypeOK, PlaceInv
  <1>3. LockInv'
    BY Zenon DEF RefTypeOK, PlaceInv, LockInv, Locked
  <1>a. \A b : RefCounted(b)' = RefCounted(b)
    BY Uncounted, Zenon DEF RefTypeOK, PlaceInv
  <1>4. RefCountInv'
    BY <1>a, Zenon DEF RefTypeOK, PlaceInv, RefCountInv, Kept
  <1>b. {h \in Handlers : ref_pc[h] # "idle"}' = {h \in Handlers : ref_pc[h] # "idle"}
    BY Zenon DEF RefTypeOK
  <1>5. PinInv'
    BY <1>b, Zenon DEF RefTypeOK, PlaceInv, PinInv
  <1>6. AliveInv'
    <2>1. held[RefOwner] # ptr /\ held[RefOwner] # fresh
      BY <1>0, Zenon DEF RefCountInv
    <2>2. ref_pc'[RefOwner] = "release"
      BY Zenon DEF RefTypeOK
    <2> QED  BY <1>0, <2>1, <2>2, Zenon DEF RefTypeOK, AliveInv
  <1> QED  BY <1>1, <1>2, <1>3, <1>4, <1>5, <1>6, Zenon

\* The swap gives up its count.
LEMMA ReleaseOldStep ==
  ASSUME RefIInv, ReleaseOld
  PROVE  RefIInv'
  <1> USE RefAssumption DEF RefIInv, Threads, ReleaseOld, Release, RefAt, RefGoto, Hold
  <1>0. /\ held[RefOwner] \in Batchers /\ refs[held[RefOwner]] \in Nat \ {0}
        /\ held[RefOwner] # ptr /\ fresh = NoBatcher
    <2>1. held[RefOwner] \in Batchers /\ fresh = NoBatcher
      BY Zenon DEF RefTypeOK, PlaceInv
    <2>2. Cardinality(RefCounted(held[RefOwner])) \in Nat
      BY FiniteCounts, Zenon
    <2> QED  BY <2>1, <2>2 DEF RefCountInv, Kept
  <1>1. RefTypeOK'
    BY <1>0 DEF RefTypeOK, Freed
  <1>2. PlaceInv'
    BY Zenon DEF RefTypeOK, PlaceInv
  <1>3. LockInv'
    BY Zenon DEF RefTypeOK, PlaceInv, LockInv, Locked
  <1>a. \A b : RefCounted(b)' = RefCounted(b)
    BY Uncounted, Zenon DEF RefTypeOK, PlaceInv
  <1>4. RefCountInv'
    <2>1. PICK b0 \in Batchers : b0 = held[RefOwner]
      BY <1>0, Zenon
    <2>2. Kept(b0) /\ ~Kept(b0)'
      BY <1>0, <2>1, Zenon DEF RefTypeOK, Kept
    <2>3. \A b \in Batchers : b # b0 => (Kept(b)' <=> Kept(b))
      BY <1>0, <2>1, Zenon DEF RefTypeOK, Kept
    <2>4. refs' = [refs EXCEPT ![b0] = @ - 1] /\ Cardinality(RefCounted(b0)) \in Nat
      BY <2>1, FiniteCounts, Zenon
    <2>5. ASSUME NEW b \in Batchers
          PROVE  refs'[b] = Cardinality(RefCounted(b)') + IF Kept(b)' THEN 1 ELSE 0
      BY <1>a, <2>2, <2>3, <2>4 DEF RefTypeOK, RefCountInv
    <2> QED  BY <1>0, <2>5, Zenon DEF RefTypeOK, RefCountInv
  <1>b. {h \in Handlers : ref_pc[h] # "idle"}' = {h \in Handlers : ref_pc[h] # "idle"}
    BY Zenon DEF RefTypeOK
  <1>5. PinInv'
    BY <1>b, Zenon DEF RefTypeOK, PlaceInv, PinInv
  <1>6. AliveInv'
    <2>1. ASSUME NEW b \in Batchers PROVE life'[b] \in {"live", "shut"} <=> refs'[b] # 0
      BY <1>0 DEF RefTypeOK, AliveInv, Freed
    <2>2. life'[ptr] = life[ptr]
      BY <1>0 DEF RefTypeOK, Freed
    <2>3. held'[RefOwner] = NoBatcher
      BY Zenon DEF RefTypeOK
    <2> QED  BY <1>0, <2>1, <2>2, <2>3 DEF RefTypeOK, AliveInv
  <1> QED  BY <1>1, <1>2, <1>3, <1>4, <1>5, <1>6, Zenon

(***************************************************************************)
(* Theorems.                                                               *)
(***************************************************************************)
\* The inductive invariant holds in every state.
THEOREM RefInvariant == RefSpec => []RefIInv
  <1>1. RefInit => RefIInv
    <2> SUFFICES ASSUME RefInit PROVE RefIInv
      OBVIOUS
    <2> USE DEF RefInit, Threads
    <2>1. RefTypeOK
      BY Zenon DEF RefTypeOK
    <2>2. PlaceInv /\ LockInv
      BY RefAssumption, Zenon DEF PlaceInv, LockInv, Locked
    <2>3. \A b \in Batchers : RefCounted(b) = {} /\ ~Kept(b)
      BY RefAssumption, Zenon DEF RefCounted, Kept
    <2>4. RefCountInv
      BY <2>3, FS_EmptySet DEF RefCountInv
    <2>5. {h \in Handlers : ref_pc[h] # "idle"} = {}
      OBVIOUS
    <2>6. PinInv
      BY <2>5, FS_EmptySet, Zenon DEF PinInv
    <2>7. AliveInv
      BY RefAssumption, Zenon DEF AliveInv
    <2> QED  BY <2>1, <2>2, <2>4, <2>6, <2>7, Zenon DEF RefIInv
  <1>2. RefIInv /\ [RefNext]_ref_vars => RefIInv'
    <2> SUFFICES ASSUME RefIInv, [RefNext]_ref_vars PROVE RefIInv'
      OBVIOUS
    <2>1. CASE UNCHANGED ref_vars
      BY <2>1 DEF RefIInv, ref_vars, RefTypeOK, PlaceInv, LockInv, Locked, RefCountInv, RefCounted, Kept,
         PinInv, AliveInv
    <2>2. CASE \E p \in Producers : Acquire(p) \/ ProducerStep(p)
      BY <2>2, AcquireStep, AcquireLoadStep, AcquireIncrefStep, AcquireUnlockStep,
         ProducerReleaseStep, Zenon DEF ProducerStep
    <2>3. CASE \E h \in Handlers : Pin(h) \/ RefHandlerStep(h)
      BY <2>3, PinStep, PinLoadStep, UnpinStep, Zenon DEF RefHandlerStep
    <2>4. CASE RefStartup \/ RefShutdown \/ RefOwnerStep
      BY <2>4, RefStartupStep, RefShutdownStep, SwapLockStep, SwapStep, SwapUnlockStep,
         SwapWaitStep, ShutdownOldStep, ReleaseOldStep DEF RefOwnerStep
    <2> QED  BY <2>1, <2>2, <2>3, <2>4, Zenon DEF RefNext
  <1> QED  BY <1>1, <1>2, PTL DEF RefSpec

\* A batcher lives exactly as long as a thread or the ref can reach it
\* (sentry__batcher_acquire, sentry__batcher_pin, sentry__batcher_swap): no
\* producer and no crash handler touches a freed one, none is shut down under a
\* pin, and none is left behind.
THEOREM RefKeepsAlive == RefSpec => []RefSafe
  <1>1. RefIInv => RefSafe
    <2> SUFFICES ASSUME RefIInv PROVE RefSafe
      OBVIOUS
    <2>1. ASSUME NEW p \in Producers, held[p] # NoBatcher
          PROVE  life[held[p]] \in {"live", "shut"}
      <3>1. CASE ref_pc[p] = "incref"
        BY <2>1, <3>1, Zenon DEF RefIInv, RefTypeOK, LockInv, AliveInv
      <3>2. CASE ref_pc[p] # "incref"
        <4>1. held[p] \in Batchers /\ p \in RefCounted(held[p])
          BY <2>1, <3>2, Zenon DEF RefIInv, RefTypeOK, Threads, PlaceInv, RefCounted
        <4>2. Cardinality(RefCounted(held[p])) \in Nat \ {0}
          BY <4>1, FiniteCounts, CountOut, Zenon
        <4> QED  BY <4>1, <4>2 DEF RefIInv, RefCountInv, AliveInv
      <3> QED  BY <3>1, <3>2, Zenon
    <2>2. ASSUME NEW h \in Handlers, held[h] # NoBatcher
          PROVE  life[held[h]] = "live"
      BY <2>2, Zenon DEF RefIInv, RefTypeOK, Threads, PinInv, AliveInv
    <2>3. held[RefOwner] # NoBatcher => life[held[RefOwner]] \in {"live", "shut"}
      <3>1. CASE held[RefOwner] \in Batchers
        <4>1. refs[held[RefOwner]] # 0
          BY <3>1, FiniteCounts DEF RefIInv, RefCountInv, Kept
        <4> QED  BY <3>1, <4>1, Zenon DEF RefIInv, AliveInv
      <3> QED  BY <3>1, Zenon DEF RefIInv, RefTypeOK, Threads
    <2>4. NoUseAfterFree
      BY <2>1, <2>2, <2>3, Zenon DEF RefIInv, NoUseAfterFree, Threads
    <2>5. NothingLeaks
      <3> SUFFICES ASSUME NEW b \in Batchers, life[b] \in {"live", "shut"},
                          b \notin {ptr, fresh}, \A t \in Threads : held[t] # b
                   PROVE  FALSE
        BY Zenon DEF NothingLeaks
      <3>1. RefCounted(b) = {} /\ ~Kept(b)
        BY Zenon DEF RefCounted, Kept, Threads
      <3>2. refs[b] = 0
        BY <3>1, FS_EmptySet DEF RefIInv, RefCountInv
      <3> QED  BY <3>2, Zenon DEF RefIInv, AliveInv
    <2> QED  BY <2>4, <2>5 DEF RefSafe
  <1> QED  BY <1>1, RefInvariant, PTL
=============================================================================
