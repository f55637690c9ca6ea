---------------------------- MODULE BatcherThread ----------------------------
(***************************************************************************)
(* The batching thread of src/src/sentry_batcher.c and those who start,    *)
(* wake, overtake and stop it: startup, shutdown, the producers'           *)
(* request_flush, sentry__batcher_force_flush and the crash flush.         *)
(*                                                                         *)
(* The ring of buffers is abstracted to what Batcher shows of it: a FIFO   *)
(* of full (sealed) buffers and the count of the active one.  Draining a   *)
(* buffer is a single step, and so is enqueueing an item: a producer sets  *)
(* the flush flag before it releases `adding`, so nobody drains the buffer *)
(* it filled before the flag is set.                                       *)
(***************************************************************************)
EXTENDS Integers

CONSTANTS QueueLength,  \* SENTRY_BATCHER_QUEUE_LENGTH
          BufferCount,  \* SENTRY_BATCHER_BUFFER_COUNT
          MaxItems      \* bound: items enqueued in a behaviour

\* A buffer holds an item, and there is one more buffer to rotate to.
ASSUME FlushAssumption == /\ QueueLength \in Nat \ {0} /\ BufferCount \in Nat \ {0, 1}
                          /\ MaxItems \in Nat

VARIABLES threadState,  \* thread_state
          request,      \* request_flush
          flushing,     \* the flush guard
          sealed,       \* number of full buffers waiting
          count,        \* items in the active buffer
          left,         \* buffers from drain_idx to the running flush's flush_idx
          seen,         \* the batching thread saw a full buffer
          pc,           \* program counter of every thread
          enqueued,     \* history: items enqueued
          flushed,      \* history: items flushed
          forced,       \* history: a flush has been forced
          due           \* history, per thread: items its flush must cover

ring == <<sealed, count, enqueued, flushed>>
flush_vars == <<threadState, request, flushing, ring, left, seen, pc, forced, due>>

Thread == "thread"    \* the batching thread
Owner == "owner"      \* starts and shuts down
Forcer == "forcer"    \* sentry_flush
Handler == "handler"  \* the crash handler
Flushers == {Thread, Owner, Forcer, Handler}

FlushInit == /\ threadState = "STOPPED"
             /\ request = FALSE /\ flushing = FALSE
             /\ sealed = 0 /\ count = 0 /\ left = 0 /\ seen = FALSE
             /\ pc = [t \in Flushers |-> IF t = Owner THEN "new" ELSE "idle"]
             /\ enqueued = 0 /\ flushed = 0 /\ forced = FALSE
             /\ due = [t \in Flushers |-> 0]

At(t, l) == pc[t] = l
FlushGoto(t, l) == pc' = [pc EXCEPT ![t] = l]

(***************************************************************************)
(* sentry__batcher_enqueue: the last item of a buffer, and one that finds  *)
(* the buffer full (and is dropped or tried again), try to rotate and set  *)
(* the flag.                                                               *)
(***************************************************************************)
Rotate(n) == IF n = QueueLength /\ sealed < BufferCount - 1
               THEN sealed' = sealed + 1 /\ count' = 0
               ELSE count' = n /\ UNCHANGED sealed
Requested(n) == request \/ n = QueueLength
Enqueue ==
  /\ ~At(Owner, "new") /\ enqueued < MaxItems
  /\ \/ /\ count < QueueLength
        /\ enqueued' = enqueued + 1
        /\ Rotate(count + 1)
        /\ request' = Requested(count + 1)
     \/ /\ count = QueueLength
        /\ Rotate(count)
        /\ request' = Requested(count)
        /\ UNCHANGED enqueued
  /\ UNCHANGED <<threadState, flushing, flushed, left, seen, forced, pc, due>>

(***************************************************************************)
(* sentry__batcher_flush, called by any of the flushers.                   *)
(***************************************************************************)
\* Where a call continues when it finds the guard taken: the crash handler
\* spins for it, and may time out.
Refused(t) == CASE t = Thread -> "loop" [] t = Forcer -> "spin" [] t = Owner -> "refused"
                [] t = Handler -> "timeout"
FlushTake(t) ==
  /\ At(t, "try") /\ ~flushing
  /\ flushing' = TRUE
  /\ left' = sealed
  /\ FlushGoto(t, "drain")
  /\ UNCHANGED <<threadState, request, ring, seen, forced, due>>
FlushRefused(t) ==
  /\ At(t, "try") /\ flushing
  /\ FlushGoto(t, Refused(t))
  /\ UNCHANGED <<threadState, request, flushing, ring, left, seen, forced, due>>

NothingDue == sealed = 0 /\ (count = 0 \/ (left # 0 /\ count < QueueLength))
FlushDrain(t) ==
  /\ At(t, "drain")
  /\ \/ /\ ~NothingDue
        /\ IF sealed > 0
             THEN /\ sealed' = sealed - 1 /\ flushed' = flushed + QueueLength
                  /\ UNCHANGED count
             ELSE /\ count' = 0 /\ flushed' = flushed + count
                  /\ UNCHANGED sealed
        /\ left' = (left - 1) % BufferCount
        /\ UNCHANGED pc
        /\ UNCHANGED due
     \/ /\ NothingDue
        /\ FlushGoto(t, "end")
        /\ UNCHANGED <<sealed, count, flushed, left, due>>
     \* A producer with a stale index holds `adding` of the next buffer: the
     \* rotation fails and the flush ends early (see FlushThrough of Batcher).
     \/ /\ ~NothingDue /\ sealed = 0
        /\ due' = [due EXCEPT ![t] = 0]
        /\ FlushGoto(t, "end")
        /\ UNCHANGED <<sealed, count, flushed, left>>
  /\ UNCHANGED <<threadState, request, flushing, enqueued, seen, forced>>

FlushEnd(t) ==
  /\ At(t, "end")
  /\ flushing' = FALSE /\ left' = 0
  /\ FlushGoto(t, IF t = Thread THEN "loop" ELSE "returned")
  /\ UNCHANGED <<threadState, request, ring, seen, forced, due>>

(***************************************************************************)
(* batcher_thread_func.                                                    *)
(***************************************************************************)
ThreadStart ==
  /\ At(Thread, "starting")
  /\ IF threadState = "STARTING"
       THEN threadState' = "RUNNING" /\ FlushGoto(Thread, "loop")
       ELSE UNCHANGED threadState /\ FlushGoto(Thread, "exited")
  /\ UNCHANGED <<request, flushing, ring, left, seen, forced, due>>

\* The loop's two tests of the state.
ThreadCheck ==
  /\ pc[Thread] \in {"loop", "woken"}
  /\ FlushGoto(Thread, CASE threadState # "RUNNING" -> "exited"
                    [] At(Thread, "loop") -> "wait"
                    [] OTHER -> "look")
  /\ UNCHANGED <<threadState, request, flushing, ring, left, seen, forced, due>>

\* sentry__waitable_flag_wait, with the flag set or on the timer.
ThreadWake ==
  /\ At(Thread, "wait") /\ request
  /\ request' = FALSE
  /\ FlushGoto(Thread, "woken")
  /\ UNCHANGED <<threadState, flushing, ring, left, seen, forced, due>>
ThreadTimer ==
  /\ At(Thread, "wait") /\ ~request
  /\ FlushGoto(Thread, "woken")
  /\ UNCHANGED <<threadState, request, flushing, ring, left, seen, forced, due>>

\* "flush if there's data, skip otherwise": the oldest buffer, then the active.
ThreadLook ==
  /\ \/ /\ At(Thread, "look")
        /\ seen' = (sealed > 0)
        /\ FlushGoto(Thread, "count")
     \/ /\ At(Thread, "count")
        /\ FlushGoto(Thread, IF ~seen /\ count <= 0 THEN "loop" ELSE "try")
        /\ seen' = FALSE
  /\ UNCHANGED <<threadState, request, flushing, ring, left, forced, due>>

(***************************************************************************)
(* Starting, forcing a flush, crashing, shutting down.                     *)
(***************************************************************************)
Startup ==
  /\ At(Owner, "new")
  /\ \/ /\ threadState' = "STARTING"
        /\ pc' = [pc EXCEPT ![Owner] = "up", ![Thread] = "starting"]
     \/ /\ UNCHANGED threadState
        /\ FlushGoto(Owner, "up")
  /\ UNCHANGED <<request, flushing, ring, left, seen, forced, due>>

\* sentry__telemetry_force_flush, which excludes shutdown by g_telemetry_lock:
\* wake the thread, then flush once nobody else does.
ForceFlushBegin ==
  /\ At(Forcer, "idle") /\ At(Owner, "up")
  /\ request' = TRUE
  /\ forced' = TRUE
  /\ due' = [due EXCEPT ![Forcer] = enqueued]
  /\ FlushGoto(Forcer, "spin")
  /\ UNCHANGED <<threadState, flushing, ring, left, seen>>
ForceFlushWait ==
  /\ At(Forcer, "spin") /\ ~flushing
  /\ FlushGoto(Forcer, "try")
  /\ UNCHANGED <<threadState, request, flushing, ring, left, seen, forced, due>>
ForceFlushReturn ==
  /\ At(Forcer, "returned")
  /\ due' = [due EXCEPT ![Forcer] = 0]
  /\ FlushGoto(Forcer, "idle")
  /\ UNCHANGED <<threadState, request, flushing, ring, left, seen, forced>>

\* sentry__batcher_flush_crash_safe, on a pinned batcher: stop the thread
\* without waiting for it, then flush.
Crash ==
  /\ At(Handler, "idle") /\ At(Owner, "up")
  /\ FlushGoto(Handler, IF threadState = "STOPPED" THEN "try" ELSE "stop")
  /\ due' = [due EXCEPT ![Handler] = enqueued]
  /\ UNCHANGED <<threadState, request, flushing, ring, left, seen, forced>>
CrashStop ==
  /\ At(Handler, "stop")
  /\ threadState' = "STOPPING"
  /\ FlushGoto(Handler, "try")
  /\ UNCHANGED <<request, flushing, ring, left, seen, forced, due>>
\* sentry__batcher_shutdown, after sentry__batcher_swap has waited for pins.
Shutdown ==
  /\ At(Owner, "up") /\ At(Forcer, "idle") /\ pc[Handler] \in {"idle", "returned", "timeout"}
  /\ threadState' = "STOPPED"
  /\ due' = [due EXCEPT ![Owner] = enqueued]
  /\ FlushGoto(Owner, IF threadState = "STOPPED" THEN "try" ELSE "signal")
  /\ UNCHANGED <<request, flushing, ring, left, seen, forced>>
Woken_Not == request
Woken == TRUE
ShutdownSignal ==
  /\ At(Owner, "signal")
  /\ request' = Woken
  /\ FlushGoto(Owner, "join")
  /\ UNCHANGED <<threadState, flushing, ring, left, seen, forced, due>>
Joinable_Now == TRUE
Joinable == At(Thread, "exited")
ShutdownJoin ==
  /\ At(Owner, "join") /\ Joinable
  /\ threadState' = "STOPPED"
  /\ FlushGoto(Owner, "try")
  /\ UNCHANGED <<request, flushing, ring, left, seen, forced, due>>

FlushStep(t) == FlushTake(t) \/ FlushRefused(t) \/ FlushDrain(t) \/ FlushEnd(t)
ThreadStep == ThreadStart \/ ThreadCheck \/ ThreadWake \/ ThreadLook \/ FlushStep(Thread)
OwnerStep == ShutdownSignal \/ ShutdownJoin \/ FlushStep(Owner)
ForcerStep == ForceFlushWait \/ ForceFlushReturn \/ FlushStep(Forcer)
HandlerStep == CrashStop \/ FlushStep(Handler)

FlushNext == \/ Enqueue
             \/ ThreadStep \/ ThreadTimer
             \/ Startup \/ Shutdown \/ OwnerStep
             \/ ForceFlushBegin \/ ForcerStep
             \/ Crash \/ HandlerStep

FlushSpec == FlushInit /\ [][FlushNext]_flush_vars

\* Threads are scheduled, and a forced flush does not find the guard taken on
\* each of infinitely many tries: the batching thread comes back only after the
\* timer or a full buffer.  Nothing depends on the timer.
FlushFairness == /\ WF_flush_vars(ThreadStep) /\ WF_flush_vars(OwnerStep)
                 /\ WF_flush_vars(HandlerStep) /\ WF_flush_vars(ForcerStep)
                 /\ SF_flush_vars(ForceFlushWait) /\ SF_flush_vars(FlushTake(Forcer))
FlushFairSpec == FlushSpec /\ FlushFairness

(***************************************************************************)
(* Properties.                                                             *)
(***************************************************************************)
\* The counters stay within the ring and no more is flushed than enqueued.
FlushTypeOK ==
  /\ threadState \in {"STOPPED", "STARTING", "RUNNING", "STOPPING"}
  /\ {request, flushing, seen, forced} \subseteq BOOLEAN
  /\ sealed \in 0 .. BufferCount - 1 /\ left \in 0 .. BufferCount - 1
  /\ count \in 0 .. QueueLength
  /\ enqueued \in 0 .. MaxItems /\ flushed = enqueued - count - sealed * QueueLength
  /\ \A t \in Flushers : due[t] \in 0 .. MaxItems

\* A forced flush, a crash flush and a shutdown that return (without a timeout
\* and not ended early) have flushed every item enqueued before they were
\* called, although another thread may have been in the middle of a flush.
ReturnCovers == FlushTypeOK /\ \A t \in Flushers : At(t, "returned") => flushed >= due[t]

\* "transport and run are non-owning refs, safe because they are only accessed
\* in flush() which is bound by the options lifetime": once shutdown is over,
\* nobody is or will be flushing, and its own final flush was not refused.
NoFlushAfterShutdown ==
  /\ ~At(Owner, "refused")
  /\ At(Owner, "returned") => ~flushing /\ pc[Thread] \in {"idle", "exited"}

\* What a call that returns has achieved: the two above together.
FlushesSafe == ReturnCovers /\ NoFlushAfterShutdown

\* Shutdown, forced flushes and crash flushes return; no wakeup is missed that
\* only the timer would make good.
FlushCallsReturn == /\ []<>(pc[Owner] \in {"new", "up", "returned"})
               /\ []<>At(Forcer, "idle")
               /\ []<>(pc[Handler] \in {"idle", "returned", "timeout"})

\* "Buffer full -> enqueue wakes us via request_flush (immediate flush)": a full
\* buffer is flushed without the timer while the batching thread runs, as long
\* as no forced flush takes the guard just when the thread answers the flag.
FlushedWhenFull == []<>(sealed = 0 \/ threadState # "RUNNING" \/ forced)

\* No caller and no full buffer waits for ever.
FlushesEnd == FlushCallsReturn /\ FlushedWhenFull
==============================================================================
