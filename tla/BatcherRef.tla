----------------------------- MODULE BatcherRef ------------------------------
(***************************************************************************)
(* The life of the batchers behind a sentry_batcher_ref_t (g_batcher of    *)
(* src/src/sentry_logs.c and sentry_metrics.c): threads that log acquire a *)
(* reference under the spinlock of the ref; a crash handler, which may not *)
(* wait for a lock, pins what the ref holds; startup and shutdown, which   *)
(* exclude each other by g_telemetry_lock, swap the batcher and then shut  *)
(* the old one down and release it.  Every atomic access is a step.        *)
(***************************************************************************)
EXTENDS Integers, FiniteSets

CONSTANTS Producers,  \* threads that acquire and release the batcher
          Handlers,   \* crash handlers
          Batchers,   \* the batchers startup allocates, at most once each
          NoBatcher,  \* NULL
          RefOwner    \* the thread in startup or shutdown

\* The threads are distinct, there are finitely many of them (an int counts
\* the pins and references), and NULL is no batcher.
ASSUME RefAssumption ==
  /\ IsFiniteSet(Producers) /\ IsFiniteSet(Handlers)
  /\ Producers \cap Handlers = {} /\ RefOwner \notin Producers \cup Handlers
  /\ NoBatcher \notin Batchers

VARIABLES ptr,    \* ref->ptr
          lock,   \* ref->lock
          pins,   \* ref->pins
          refs,   \* refcount of every batcher
          life,   \* of every batcher: "unused", "live", "shut", "freed"
          ref_pc, \* program counter of every thread
          held,   \* the batcher a thread has in hand
          fresh   \* the batcher startup is to publish

ref_vars == <<ptr, lock, pins, refs, life, ref_pc, held, fresh>>
Threads == Producers \cup Handlers \cup {RefOwner}

RefInit == /\ ptr = NoBatcher /\ lock = 0 /\ pins = 0
           /\ refs = [b \in Batchers |-> 0]
           /\ life = [b \in Batchers |-> "unused"]
           /\ ref_pc = [t \in Threads |-> "idle"]
           /\ held = [t \in Threads |-> NoBatcher]
           /\ fresh = NoBatcher

RefAt(t, l) == ref_pc[t] = l
RefGoto(t, l) == ref_pc' = [ref_pc EXCEPT ![t] = l]
Hold(t, b) == held' = [held EXCEPT ![t] = b]

(***************************************************************************)
(* sentry__batcher_acquire, use, sentry__batcher_release.                  *)
(***************************************************************************)
LockRef_Not == UNCHANGED lock
LockRef == lock = 0 /\ lock' = 1
UnlockRef_NotEmpty == lock' = IF ptr = NoBatcher THEN lock ELSE 0
UnlockRef == lock' = 0
Acquire(p) ==
  /\ RefAt(p, "idle")
  /\ LockRef
  /\ RefGoto(p, "load")
  /\ UNCHANGED <<ptr, pins, refs, life, held, fresh>>
AcquireLoad(p) ==
  /\ RefAt(p, "load")
  /\ Hold(p, ptr)
  /\ RefGoto(p, IF ptr = NoBatcher THEN "unlock" ELSE "incref")
  /\ UNCHANGED <<ptr, lock, pins, refs, life, fresh>>
AcquireIncref(p) ==
  /\ RefAt(p, "incref")
  /\ refs' = [refs EXCEPT ![held[p]] = @ + 1]
  /\ RefGoto(p, "unlock")
  /\ UNCHANGED <<ptr, lock, pins, life, held, fresh>>
AcquireUnlock(p) ==
  /\ RefAt(p, "unlock")
  /\ UnlockRef
  /\ RefGoto(p, IF held[p] = NoBatcher THEN "idle" ELSE "use")
  /\ UNCHANGED <<ptr, pins, refs, life, held, fresh>>

\* The thread that takes the last reference away frees the batcher.
Freed(b) == [life EXCEPT ![b] = IF refs[b] = 1 THEN "freed" ELSE @]
Release(t) ==
  /\ refs' = [refs EXCEPT ![held[t]] = @ - 1]
  /\ life' = Freed(held[t])
  /\ Hold(t, NoBatcher)
  /\ RefGoto(t, "idle")
  /\ UNCHANGED <<ptr, lock, pins, fresh>>
ProducerRelease(p) == RefAt(p, "use") /\ Release(p)

(***************************************************************************)
(* sentry__batcher_pin and sentry__batcher_unpin.                          *)
(***************************************************************************)
Pinned == pins + 1
Pin(h) ==
  /\ RefAt(h, "idle")
  /\ pins' = Pinned
  /\ RefGoto(h, "load")
  /\ UNCHANGED <<ptr, lock, refs, life, held, fresh>>
PinLoad(h) ==
  /\ RefAt(h, "load")
  /\ Hold(h, ptr)
  /\ RefGoto(h, IF ptr = NoBatcher THEN "unpin" ELSE "use")
  /\ UNCHANGED <<ptr, lock, pins, refs, life, fresh>>
\* The end of the crash flush, or of a pin that found nothing.
Unpin(h) ==
  /\ ref_pc[h] \in {"use", "unpin"}
  /\ pins' = pins - 1
  /\ Hold(h, NoBatcher)
  /\ RefGoto(h, "idle")
  /\ UNCHANGED <<ptr, lock, refs, life, fresh>>

(***************************************************************************)
(* sentry__logs_startup and sentry__logs_shutdown.                         *)
(***************************************************************************)
\* sentry__batcher_new and sentry__batcher_startup, before it is published.
RefStartup ==
  /\ RefAt(RefOwner, "idle")
  /\ \E b \in Batchers :
       /\ life[b] = "unused"
       /\ life' = [life EXCEPT ![b] = "live"]
       /\ refs' = [refs EXCEPT ![b] = 1]
       /\ fresh' = b
  /\ RefGoto(RefOwner, "swap")
  /\ UNCHANGED <<ptr, lock, pins, held>>
RefShutdown ==
  /\ RefAt(RefOwner, "idle")
  /\ fresh' = NoBatcher
  /\ RefGoto(RefOwner, "swap")
  /\ UNCHANGED <<ptr, lock, pins, refs, life, held>>

\* sentry__batcher_swap.
SwapLock ==
  /\ RefAt(RefOwner, "swap")
  /\ LockRef
  /\ RefGoto(RefOwner, "exchange")
  /\ UNCHANGED <<ptr, pins, refs, life, held, fresh>>
Swap ==
  /\ RefAt(RefOwner, "exchange")
  /\ Hold(RefOwner, ptr)
  /\ ptr' = fresh
  /\ fresh' = NoBatcher
  /\ RefGoto(RefOwner, "unlock")
  /\ UNCHANGED <<lock, pins, refs, life>>
SwapUnlock ==
  /\ RefAt(RefOwner, "unlock")
  /\ UnlockRef
  /\ RefGoto(RefOwner, IF held[RefOwner] = NoBatcher THEN "idle" ELSE "wait")
  /\ UNCHANGED <<ptr, pins, refs, life, held, fresh>>
PinsGone == pins = 0
SwapWait ==
  /\ RefAt(RefOwner, "wait") /\ PinsGone
  /\ RefGoto(RefOwner, "old")
  /\ UNCHANGED <<ptr, lock, pins, refs, life, held, fresh>>
\* sentry__batcher_shutdown of the old batcher, and its release.
ShutdownOld ==
  /\ RefAt(RefOwner, "old")
  /\ life' = [life EXCEPT ![held[RefOwner]] = "shut"]
  /\ RefGoto(RefOwner, "release")
  /\ UNCHANGED <<ptr, lock, pins, refs, held, fresh>>
ReleaseOld == RefAt(RefOwner, "release") /\ Release(RefOwner)

ProducerStep(p) == \/ AcquireLoad(p) \/ AcquireIncref(p) \/ AcquireUnlock(p)
                   \/ ProducerRelease(p)
RefHandlerStep(h) == PinLoad(h) \/ Unpin(h)
RefOwnerStep == SwapLock \/ Swap \/ SwapUnlock \/ SwapWait \/ ShutdownOld \/ ReleaseOld

RefNext == \/ \E p \in Producers : Acquire(p) \/ ProducerStep(p)
           \/ \E h \in Handlers : Pin(h) \/ RefHandlerStep(h)
           \/ RefStartup \/ RefShutdown \/ RefOwnerStep

RefSpec == RefInit /\ [][RefNext]_ref_vars

\* Threads are scheduled; the owner, which spins for the lock and waits for the
\* pins, is not starved for ever by new producers and new crash handlers.
RefFairness == /\ \A p \in Producers : WF_ref_vars(ProducerStep(p))
               /\ \A h \in Handlers : WF_ref_vars(RefHandlerStep(h))
               /\ SF_ref_vars(RefOwnerStep)
RefFairSpec == RefSpec /\ RefFairness

(***************************************************************************)
(* Properties.                                                             *)
(***************************************************************************)
\* The reference counts and pins are never negative.
RefTypeOK ==
  /\ ptr \in Batchers \cup {NoBatcher} /\ fresh \in Batchers \cup {NoBatcher}
  /\ lock \in {0, 1} /\ pins \in Nat
  /\ refs \in [Batchers -> Nat]
  /\ life \in [Batchers -> {"unused", "live", "shut", "freed"}]
  /\ ref_pc \in [Threads -> {"idle", "load", "incref", "unlock", "use", "unpin", "swap",
                         "exchange", "wait", "old", "release"}]
  /\ held \in [Threads -> Batchers \cup {NoBatcher}]

\* No thread touches a batcher that has been freed: not the one that is about
\* to count itself in, not one that uses it.  What a crash handler pins ("Keeps
\* the returned pointer alive until the caller passes ref to
\* sentry__batcher_unpin") is not even shut down.
NoUseAfterFree ==
  /\ RefTypeOK
  /\ \A t \in Threads : held[t] # NoBatcher => life[held[t]] \in {"live", "shut"}
  /\ \A h \in Handlers : held[h] # NoBatcher => life[held[h]] = "live"

\* A batcher that no thread, and not the ref, can reach any more is freed.
NothingLeaks ==
  \A b \in Batchers :
    life[b] \in {"live", "shut"} => b \in {ptr, fresh} \/ \E t \in Threads : held[t] = b

\* A batcher lives exactly as long as somebody can reach it.
RefSafe == NoUseAfterFree /\ NothingLeaks

\* Startup and shutdown come to an end, although the ref is in use all the time.
OwnerReturns == []<>RefAt(RefOwner, "idle")
==============================================================================
