------------------------ MODULE BatcherThreadProofs --------------------------
(***************************************************************************)
(* Machine-checked proofs about BatcherThread, for any length and number   *)
(* of buffers and any number of items.                                     *)
(*                                                                         *)
(* The argument: what a flush has to cover when it takes the guard lies in *)
(* the sealed buffers up to the one that was active then, whose number is  *)
(* `left`; every buffer it drains brings that one closer, and what the     *)
(* producers seal meanwhile comes after it (DueInv).  Only the holder of   *)
(* the guard drains, so that no other flush moves what it counts           *)
(* (GuardInv).  A shutdown finds the guard free: the thread is joined, and *)
(* neither a forced nor a crash flush is under way (StopInv).              *)
(***************************************************************************)
EXTENDS BatcherThread, TLAPS

(***************************************************************************)
(* The inductive invariant, part by part.                                  *)
(***************************************************************************)
Inside == {"drain", "end"}
ThreadPlaces == {"idle", "starting", "loop", "wait", "woken", "look", "count", "try",
                 "exited"} \cup Inside
OwnerPlaces == {"new", "up", "signal", "join", "try", "returned"} \cup Inside
ForcerPlaces == {"idle", "spin", "try", "returned"} \cup Inside
HandlerPlaces == {"idle", "stop", "try", "timeout", "returned"} \cup Inside
Places == ThreadPlaces \cup OwnerPlaces \cup ForcerPlaces \cup HandlerPlaces

TypeInv ==
  /\ threadState \in {"STOPPED", "STARTING", "RUNNING", "STOPPING"}
  /\ left \in 0 .. BufferCount - 1
  /\ pc \in [Flushers -> Places]
  /\ pc[Thread] \in ThreadPlaces /\ pc[Owner] \in OwnerPlaces
  /\ pc[Forcer] \in ForcerPlaces /\ pc[Handler] \in HandlerPlaces
  /\ due \in [Flushers -> 0 .. MaxItems]
FlagInv == request \in BOOLEAN /\ flushing \in BOOLEAN /\ seen \in BOOLEAN /\ forced \in BOOLEAN

\* Nothing is lost between the counters.
QueueInv ==
  /\ sealed \in 0 .. BufferCount - 1 /\ count \in 0 .. QueueLength
  /\ enqueued \in 0 .. MaxItems /\ flushed \in Nat
  /\ enqueued = flushed + sealed * QueueLength + count

\* The guard is held by the one who flushes.
GuardInv ==
  /\ \A t \in Flushers : pc[t] \in Inside => flushing
  /\ flushing => \E t \in Flushers : pc[t] \in Inside
  /\ \A t, u \in Flushers : pc[t] \in Inside /\ pc[u] \in Inside => t = u

\* What a call has to flush was enqueued; a flush that has not got there yet finds
\* it in the buffers up to the one that was active when it began.
Covered(t) == flushed >= due[t]
DueInv ==
  \A t \in Flushers :
    /\ due[t] <= enqueued
    /\ pc[t] \in {"end", "returned"} => Covered(t)
    /\ pc[t] = "drain" =>
         Covered(t) \/ (left <= sealed /\ due[t] <= flushed + left * QueueLength + QueueLength)

\* When the owner shuts down, nobody else is left to flush.
StopInv ==
  /\ pc[Owner] \in {"new", "up"} /\ threadState = "STOPPED" => pc[Thread] = "idle"
  /\ pc[Owner] = "new" => threadState = "STOPPED" /\ pc[Forcer] = "idle" /\ pc[Handler] = "idle"
  /\ pc[Owner] \in {"signal", "join", "try", "returned"} \cup Inside =>
       pc[Forcer] = "idle" /\ pc[Handler] \in {"idle", "returned", "timeout"}
  /\ pc[Owner] \in {"try", "returned"} \cup Inside => pc[Thread] \in {"idle", "exited"}

FlushIInv == TypeInv /\ FlagInv /\ QueueInv /\ GuardInv /\ DueInv /\ StopInv

USE FlushAssumption
USE DEF Flushers, Thread, Owner, Forcer, Handler, ring, flush_vars, At, FlushGoto, Inside,
    ThreadPlaces, OwnerPlaces, ForcerPlaces, HandlerPlaces, Places

\* The exchange on `flushing` succeeds: what is due lies in the buffers to drain.
LEMMA FlushTakeStep ==
  ASSUME FlushIInv, NEW t \in Flushers, FlushTake(t)
  PROVE  FlushIInv'
  <1> USE DEF FlushIInv, FlushTake
  <1>1. TypeInv'
    BY DEF TypeInv, QueueInv
  <1>2. QueueInv'
    BY DEF QueueInv
  <1>3. GuardInv'
    BY DEF TypeInv, GuardInv
  <1>4. DueInv'
    BY DEF TypeInv, QueueInv, GuardInv, DueInv, Covered
  <1>5. StopInv'
    BY Zenon DEF TypeInv, GuardInv, StopInv
  <1>6. FlagInv'
    BY DEF FlagInv
  <1> QED  BY <1>1, <1>2, <1>3, <1>4, <1>5, <1>6

\* It fails: the caller did nothing and returns, or tries again.
LEMMA FlushRefusedStep ==
  ASSUME FlushIInv, NEW t \in Flushers, FlushRefused(t)
  PROVE  FlushIInv'
  <1> USE DEF FlushIInv, FlushRefused, Refused
  <1>0. /\ t # Owner /\ pc' = [pc EXCEPT ![t] = Refused(t)]
        /\ t = Thread => Refused(t) = "loop"
        /\ t = Forcer => Refused(t) = "spin"
        /\ t = Handler => Refused(t) = "timeout"
    BY DEF TypeInv, GuardInv, StopInv
  <1>1. TypeInv'
    BY <1>0 DEF TypeInv
  <1>2. QueueInv'
    BY DEF QueueInv
  <1>3. GuardInv'
    BY DEF TypeInv, GuardInv
  <1>4. DueInv'
    BY DEF TypeInv, QueueInv, GuardInv, DueInv, Covered
  <1>5. StopInv'
    BY Zenon DEF TypeInv, GuardInv, StopInv
  <1>6. FlagInv'
    BY DEF FlagInv
  <1> QED  BY <1>1, <1>2, <1>3, <1>4, <1>5, <1>6

\* The guard is given back by the one who holds it.
LEMMA FlushEndStep ==
  ASSUME FlushIInv, NEW t \in Flushers, FlushEnd(t)
  PROVE  FlushIInv'
  <1> USE DEF FlushIInv, FlushEnd
  <1>1. TypeInv'
    BY DEF TypeInv, QueueInv
  <1>2. QueueInv'
    BY DEF QueueInv
  <1>3. GuardInv'
    BY DEF TypeInv, GuardInv
  <1>4. DueInv'
    BY DEF TypeInv, QueueInv, GuardInv, DueInv, Covered
  <1>5. StopInv'
    BY DEF TypeInv, GuardInv, StopInv
  <1>6. FlagInv'
    BY Zenon DEF FlagInv
  <1> QED  BY <1>1, <1>2, <1>3, <1>4, <1>5, <1>6

\* The thread reports that it runs, unless it was stopped meanwhile.
LEMMA ThreadStartStep ==
  ASSUME FlushIInv, ThreadStart
  PROVE  FlushIInv'
  <1> USE DEF FlushIInv, ThreadStart
  <1>1. TypeInv'
    BY DEF TypeInv
  <1>2. QueueInv'
    BY DEF QueueInv
  <1>3. GuardInv'
    BY DEF TypeInv, GuardInv
  <1>4. DueInv'
    BY DEF TypeInv, QueueInv, GuardInv, DueInv, Covered
  <1>5. StopInv'
    BY Zenon DEF TypeInv, GuardInv, StopInv
  <1>6. FlagInv'
    BY DEF FlagInv
  <1> QED  BY <1>1, <1>2, <1>3, <1>4, <1>5, <1>6

\* The thread tests its state, before it waits and after.
LEMMA ThreadCheckStep ==
  ASSUME FlushIInv, ThreadCheck
  PROVE  FlushIInv'
  <1> USE DEF FlushIInv, ThreadCheck
  <1>1. TypeInv'
    BY DEF TypeInv
  <1>2. QueueInv'
    BY DEF QueueInv
  <1>3. GuardInv'
    BY DEF TypeInv, GuardInv
  <1>4. DueInv'
    BY Zenon DEF TypeInv, QueueInv, GuardInv, DueInv, Covered
  <1>5. StopInv'
    BY Zenon DEF TypeInv, GuardInv, StopInv
  <1>6. FlagInv'
    BY DEF FlagInv
  <1> QED  BY <1>1, <1>2, <1>3, <1>4, <1>5, <1>6

\* It is woken up by a request, which it takes.
LEMMA ThreadWakeStep ==
  ASSUME FlushIInv, ThreadWake
  PROVE  FlushIInv'
  <1> USE DEF FlushIInv, ThreadWake
  <1>1. TypeInv'
    BY Zenon DEF TypeInv
  <1>2. QueueInv'
    BY DEF QueueInv
  <1>3. GuardInv'
    BY DEF TypeInv, GuardInv
  <1>4. DueInv'
    BY Zenon DEF TypeInv, QueueInv, GuardInv, DueInv, Covered
  <1>5. StopInv'
    BY Zenon DEF TypeInv, GuardInv, StopInv
  <1>6. FlagInv'
    BY Zenon DEF FlagInv
  <1> QED  BY <1>1, <1>2, <1>3, <1>4, <1>5, <1>6

\* Its timer runs out.
LEMMA ThreadTimerStep ==
  ASSUME FlushIInv, ThreadTimer
  PROVE  FlushIInv'
  <1> USE DEF FlushIInv, ThreadTimer
  <1>1. TypeInv'
    BY DEF TypeInv
  <1>2. QueueInv'
    BY DEF QueueInv
  <1>3. GuardInv'
    BY DEF TypeInv, GuardInv
  <1>4. DueInv'
    BY Zenon DEF TypeInv, QueueInv, GuardInv, DueInv, Covered
  <1>5. StopInv'
    BY Zenon DEF TypeInv, GuardInv, StopInv
  <1>6. FlagInv'
    BY DEF FlagInv
  <1> QED  BY <1>1, <1>2, <1>3, <1>4, <1>5, <1>6

\* It looks at the oldest buffer, then at the active one.
LEMMA ThreadLookStep ==
  ASSUME FlushIInv, ThreadLook
  PROVE  FlushIInv'
  <1> USE DEF FlushIInv, ThreadLook
  <1>1. TypeInv'
    BY DEF TypeInv
  <1>2. QueueInv'
    BY DEF QueueInv
  <1>3. GuardInv'
    BY DEF TypeInv, GuardInv
  <1>4. DueInv'
    BY DEF TypeInv, QueueInv, GuardInv, DueInv, Covered
  <1>5. StopInv'
    BY Zenon DEF TypeInv, GuardInv, StopInv
  <1>6. FlagInv'
    <2>1. (sealed > 0) \in BOOLEAN
      OBVIOUS
    <2> QED  BY <2>1, Zenon DEF FlagInv
  <1> QED  BY <1>1, <1>2, <1>3, <1>4, <1>5, <1>6

\* sentry__batcher_startup, whether or not the thread can be spawned.
LEMMA StartupStep ==
  ASSUME FlushIInv, Startup
  PROVE  FlushIInv'
  <1> USE DEF FlushIInv, Startup
  <1>0. /\ pc'[Owner] = "up" /\ pc'[Thread] \in {pc[Thread], "starting"}
        /\ pc[Owner] = "new" /\ pc[Thread] = "idle"
        /\ pc'[Forcer] = pc[Forcer] /\ pc'[Handler] = pc[Handler]
    BY DEF TypeInv, StopInv
  <1>1. TypeInv'
    BY DEF TypeInv
  <1>2. QueueInv'
    BY DEF QueueInv
  <1>3. GuardInv'
    BY <1>0 DEF GuardInv
  <1>4. DueInv'
    BY DEF TypeInv, QueueInv, GuardInv, DueInv, Covered
  <1>5. StopInv'
    BY Zenon DEF TypeInv, GuardInv, StopInv
  <1>6. FlagInv'
    BY DEF FlagInv
  <1> QED  BY <1>1, <1>2, <1>3, <1>4, <1>5, <1>6

\* A forced flush notes what it has to cover.
LEMMA ForceFlushBeginStep ==
  ASSUME FlushIInv, ForceFlushBegin
  PROVE  FlushIInv'
  <1> USE DEF FlushIInv, ForceFlushBegin
  <1>1. TypeInv'
    BY Zenon DEF TypeInv, QueueInv
  <1>2. QueueInv'
    BY DEF QueueInv
  <1>3. GuardInv'
    BY Zenon DEF TypeInv, GuardInv
  <1>4. DueInv'
    BY DEF TypeInv, QueueInv, GuardInv, DueInv, Covered
  <1>5. StopInv'
    BY Zenon DEF TypeInv, GuardInv, StopInv
  <1>6. FlagInv'
    BY DEF FlagInv
  <1> QED  BY <1>1, <1>2, <1>3, <1>4, <1>5, <1>6

\* It waits for the flush under way.
LEMMA ForceFlushWaitStep ==
  ASSUME FlushIInv, ForceFlushWait
  PROVE  FlushIInv'
  <1> USE DEF FlushIInv, ForceFlushWait
  <1>1. TypeInv'
    BY Zenon DEF TypeInv
  <1>2. QueueInv'
    BY DEF QueueInv
  <1>3. GuardInv'
    BY DEF TypeInv, GuardInv
  <1>4. DueInv'
    BY Zenon DEF TypeInv, QueueInv, GuardInv, DueInv, Covered
  <1>5. StopInv'
    BY Zenon DEF TypeInv, GuardInv, StopInv
  <1>6. FlagInv'
    BY DEF FlagInv
  <1> QED  BY <1>1, <1>2, <1>3, <1>4, <1>5, <1>6

\* It returns, having flushed what it noted.
LEMMA ForceFlushReturnStep ==
  ASSUME FlushIInv, ForceFlushReturn
  PROVE  FlushIInv'
  <1> USE DEF FlushIInv, ForceFlushReturn
  <1>1. TypeInv'
    BY DEF TypeInv
  <1>2. QueueInv'
    BY DEF QueueInv
  <1>3. GuardInv'
    BY DEF TypeInv, GuardInv
  <1>4. DueInv'
    BY DEF TypeInv, QueueInv, GuardInv, DueInv, Covered
  <1>5. StopInv'
    BY Zenon DEF TypeInv, GuardInv, StopInv
  <1>6. FlagInv'
    BY DEF FlagInv
  <1> QED  BY <1>1, <1>2, <1>3, <1>4, <1>5, <1>6

\* A crash flush notes what it has to cover.
LEMMA CrashStep ==
  ASSUME FlushIInv, Crash
  PROVE  FlushIInv'
  <1> USE DEF FlushIInv, Crash
  <1>1. TypeInv'
    BY Zenon DEF TypeInv, QueueInv
  <1>2. QueueInv'
    BY DEF QueueInv
  <1>3. GuardInv'
    BY DEF TypeInv, GuardInv
  <1>4. DueInv'
    BY DEF TypeInv, QueueInv, GuardInv, DueInv, Covered
  <1>5. StopInv'
    BY Zenon DEF TypeInv, GuardInv, StopInv
  <1>6. FlagInv'
    BY DEF FlagInv
  <1> QED  BY <1>1, <1>2, <1>3, <1>4, <1>5, <1>6

\* It stops the thread.
LEMMA CrashStopStep ==
  ASSUME FlushIInv, CrashStop
  PROVE  FlushIInv'
  <1> USE DEF FlushIInv, CrashStop
  <1>1. TypeInv'
    BY Zenon DEF TypeInv
  <1>2. QueueInv'
    BY DEF QueueInv
  <1>3. GuardInv'
    BY DEF TypeInv, GuardInv
  <1>4. DueInv'
    BY Zenon DEF TypeInv, QueueInv, GuardInv, DueInv, Covered
  <1>5. StopInv'
    BY Zenon DEF TypeInv, GuardInv, StopInv
  <1>6. FlagInv'
    BY DEF FlagInv
  <1> QED  BY <1>1, <1>2, <1>3, <1>4, <1>5, <1>6

\* sentry__batcher_shutdown begins when no other call is under way.
LEMMA ShutdownStep ==
  ASSUME FlushIInv, Shutdown
  PROVE  FlushIInv'
  <1> USE DEF FlushIInv, Shutdown
  <1>1. TypeInv'
    BY Zenon DEF TypeInv, QueueInv
  <1>2. QueueInv'
    BY DEF QueueInv
  <1>3. GuardInv'
    BY DEF TypeInv, GuardInv
  <1>4. DueInv'
    BY DEF TypeInv, QueueInv, GuardInv, DueInv, Covered
  <1>5. StopInv'
    BY Zenon DEF TypeInv, GuardInv, StopInv
  <1>6. FlagInv'
    BY DEF FlagInv
  <1> QED  BY <1>1, <1>2, <1>3, <1>4, <1>5, <1>6

\* It signals the thread.
LEMMA ShutdownSignalStep ==
  ASSUME FlushIInv, ShutdownSignal
  PROVE  FlushIInv'
  <1> USE DEF FlushIInv, ShutdownSignal, Woken
  <1>1. TypeInv'
    BY Zenon DEF TypeInv
  <1>2. QueueInv'
    BY DEF QueueInv
  <1>3. GuardInv'
    BY DEF TypeInv, GuardInv
  <1>4. DueInv'
    BY Zenon DEF TypeInv, QueueInv, GuardInv, DueInv, Covered
  <1>5. StopInv'
    BY Zenon DEF TypeInv, GuardInv, StopInv
  <1>6. FlagInv'
    BY DEF FlagInv
  <1> QED  BY <1>1, <1>2, <1>3, <1>4, <1>5, <1>6

\* It joins the thread: nobody but itself is left to flush.
LEMMA ShutdownJoinStep ==
  ASSUME FlushIInv, ShutdownJoin
  PROVE  FlushIInv'
  <1> USE DEF FlushIInv, ShutdownJoin, Joinable
  <1>1. TypeInv'
    BY Zenon DEF TypeInv
  <1>2. QueueInv'
    BY DEF QueueInv
  <1>3. GuardInv'
    BY Zenon DEF TypeInv, GuardInv
  <1>4. DueInv'
    BY Zenon DEF TypeInv, QueueInv, GuardInv, DueInv, Covered
  <1>5. StopInv'
    BY Zenon DEF TypeInv, GuardInv, StopInv
  <1>6. FlagInv'
    BY DEF FlagInv
  <1> QED  BY <1>1, <1>2, <1>3, <1>4, <1>5, <1>6

(***************************************************************************)
(* Steps that move items.                                                  *)
(***************************************************************************)
LEMMA Products ==
  ASSUME NEW n \in Int
  PROVE  /\ n * QueueLength \in Int
         /\ (n + 1) * QueueLength = n * QueueLength + QueueLength
         /\ (n - 1) * QueueLength = n * QueueLength - QueueLength
         /\ 0 * QueueLength = 0
  OBVIOUS

\* A new item is counted, and a full buffer moved on, with nothing lost.
LEMMA EnqueueStep ==
  ASSUME FlushIInv, Enqueue
  PROVE  FlushIInv'
  <1> USE DEF FlushIInv, Enqueue
  <1>1. TypeInv'
    BY DEF TypeInv
  <1>2. QueueInv' /\ enqueued' >= enqueued /\ sealed' >= sealed
    <2>1. /\ sealed * QueueLength \in Int
          /\ (sealed + 1) * QueueLength = sealed * QueueLength + QueueLength
      BY Products DEF QueueInv
    <2>2. CASE sealed' = sealed
      BY <2>1, <2>2 DEF QueueInv, Rotate
    <2>3. CASE sealed' # sealed
      <3>1. sealed' = sealed + 1 /\ count' = 0
        BY <2>3 DEF Rotate
      <3> QED  BY <2>1, <2>3, <3>1 DEF QueueInv, Rotate
    <2> QED  BY <2>2, <2>3
  <1>3. GuardInv'
    BY Zenon DEF GuardInv
  <1>4. DueInv'
    <2>1. UNCHANGED <<pc, due, flushed, left>>
      OBVIOUS
    <2>2. /\ {enqueued, enqueued', sealed, sealed', left} \subseteq Int
          /\ due \in [Flushers -> Int]
      BY <1>1, <1>2 DEF TypeInv, QueueInv
    <2> QED  BY <1>2, <2>1, <2>2 DEF DueInv, Covered
  <1>5. StopInv'
    BY Zenon DEF StopInv
  <1>6. FlagInv'
    <2>1. \A n : Requested(n) \in BOOLEAN
      BY DEF Requested
    <2> QED  BY <2>1 DEF FlagInv
  <1> QED  BY <1>1, <1>2, <1>3, <1>4, <1>5, <1>6

\* One buffer less to drain: (left - 1) % SENTRY_BATCHER_BUFFER_COUNT.
LEMMA OneLess ==
  ASSUME NEW n \in 0 .. BufferCount - 1
  PROVE  (n - 1) % BufferCount = IF n = 0 THEN BufferCount - 1 ELSE n - 1
  <1>1. CASE n = 0
    BY <1>1
  <1>2. CASE n # 0
    BY <1>2
  <1> QED  BY <1>1, <1>2

\* A buffer drained brings what is due one buffer closer.
LEMMA FlushDrainStep ==
  ASSUME FlushIInv, NEW t \in Flushers, FlushDrain(t)
  PROVE  FlushIInv'
  <1> USE DEF FlushIInv, FlushDrain
  <1>0. /\ left' \in {left, IF left = 0 THEN BufferCount - 1 ELSE left - 1}
        /\ sealed * QueueLength \in Int /\ left * QueueLength \in Int
        /\ (sealed - 1) * QueueLength = sealed * QueueLength - QueueLength
        /\ (left - 1) * QueueLength = left * QueueLength - QueueLength
        /\ 0 * QueueLength = 0
    BY OneLess, Products DEF TypeInv, QueueInv
  <1>1. TypeInv'
    <2>1. pc' = pc \/ pc' = [pc EXCEPT ![t] = "end"]
      BY Zenon
    <2>2. due' = due \/ due' = [due EXCEPT ![t] = 0]
      BY Zenon
    <2>3. left' \in 0 .. BufferCount - 1
      BY <1>0 DEF TypeInv
    <2>4. due' \in [Flushers -> 0 .. MaxItems]
      BY <2>2 DEF TypeInv
    <2> QED  BY <2>1, <2>3, <2>4 DEF TypeInv
  <1>2. QueueInv' /\ flushed' >= flushed
    <2>1. CASE UNCHANGED <<sealed, count, flushed>>
      BY <2>1 DEF QueueInv
    <2>2. CASE sealed > 0 /\ sealed' = sealed - 1 /\ flushed' = flushed + QueueLength /\ count' = count
      BY <1>0, <2>2 DEF QueueInv
    <2>3. CASE sealed = 0 /\ sealed' = sealed /\ count' = 0 /\ flushed' = flushed + count
      BY <1>0, <2>3 DEF QueueInv
    <2> QED  BY <2>1, <2>2, <2>3 DEF QueueInv
  <1>3. GuardInv'
    BY DEF TypeInv, GuardInv
  <1>4. DueInv'
    <2>1. ASSUME NEW u \in Flushers, u # t
          PROVE  /\ (due[u] <= enqueued)' /\ (pc[u] \in {"end", "returned"} => Covered(u))'
                 /\ pc'[u] # "drain"
      BY <1>2, <2>1 DEF TypeInv, QueueInv, GuardInv, DueInv, Covered
    <2>2. due'[t] <= enqueued'
      BY DEF TypeInv, QueueInv, DueInv
    <2>3. CASE NothingDue
      <3>1. pc'[t] = "end" /\ UNCHANGED <<due, flushed>>
        BY <2>3, Zenon DEF TypeInv
      <3>2. Covered(t)
        BY <1>0, <2>3 DEF TypeInv, QueueInv, DueInv, Covered, NothingDue
      <3> QED  BY <2>1, <2>2, <3>1, <3>2, Zenon DEF DueInv, Covered
    <2>4. CASE ~NothingDue /\ pc' = pc
      <3>1. /\ left' = IF left = 0 THEN BufferCount - 1 ELSE left - 1
            /\ UNCHANGED due /\ pc[t] = "drain"
            /\ IF sealed > 0
                 THEN sealed' = sealed - 1 /\ flushed' = flushed + QueueLength
                 ELSE flushed' = flushed + count /\ sealed' = sealed
        BY <2>4, OneLess, Zenon DEF TypeInv
      <3>2. CASE Covered(t)
        BY <1>2, <2>1, <2>2, <2>4, <3>1, <3>2 DEF TypeInv, QueueInv, DueInv, Covered
      <3>3. CASE ~Covered(t)
        <4>1. left <= sealed /\ due[t] <= flushed + left * QueueLength + QueueLength
          BY <3>1, <3>3, Zenon DEF DueInv
        <4>2. CASE left = 0
          <5>1. Covered(t)'
            BY <1>0, <3>1, <4>1, <4>2 DEF TypeInv, QueueInv, DueInv, Covered
          <5> QED  BY <2>1, <2>2, <2>4, <3>1, <5>1, Zenon DEF DueInv
        <4>3. CASE left # 0
          <5>1. /\ left' <= sealed'
                /\ due'[t] <= flushed' + left' * QueueLength + QueueLength
            BY <1>0, <3>1, <4>1, <4>3 DEF TypeInv, QueueInv
          <5> QED  BY <2>1, <2>2, <2>4, <3>1, <5>1, Zenon DEF DueInv
        <4> QED  BY <4>2, <4>3, Zenon
      <3> QED  BY <3>2, <3>3, Zenon
    <2>5. CASE ~NothingDue /\ pc' # pc
      <3>1. pc'[t] = "end" /\ due'[t] = 0
        BY <2>5, Zenon DEF TypeInv
      <3> QED  BY <1>2, <2>1, <2>2, <3>1 DEF DueInv, Covered, QueueInv
    <2> QED  BY <2>3, <2>4, <2>5, Zenon
  <1>5. StopInv'
    BY Zenon DEF TypeInv, StopInv
  <1>6. FlagInv'
    BY Zenon DEF FlagInv
  <1> QED  BY <1>1, <1>2, <1>3, <1>4, <1>5, <1>6, Zenon

(***************************************************************************)
(* The theorems.                                                           *)
(***************************************************************************)
LEMMA InitInv ==
  ASSUME FlushInit
  PROVE  FlushIInv
  <1> USE DEF FlushInit
  <1>1. TypeInv
    BY DEF TypeInv
  <1>3. FlagInv
    BY Zenon DEF FlagInv
  <1>2. QueueInv /\ GuardInv /\ DueInv /\ StopInv
    BY Products DEF QueueInv, GuardInv, DueInv, Covered, StopInv
  <1> QED  BY <1>1, <1>2, <1>3 DEF FlushIInv

\* Every step keeps the invariant.
LEMMA NextInv ==
  ASSUME FlushIInv, [FlushNext]_flush_vars
  PROVE  FlushIInv'
  <1>1. ASSUME NEW t \in Flushers, FlushStep(t) PROVE FlushIInv'
    BY <1>1, FlushTakeStep, FlushRefusedStep, FlushDrainStep, FlushEndStep, Zenon DEF FlushStep
  <1>2. CASE Enqueue
    BY <1>2, EnqueueStep
  <1>3. CASE ThreadStep \/ ThreadTimer
    BY <1>1, <1>3, ThreadStartStep, ThreadCheckStep, ThreadWakeStep, ThreadLookStep,
       ThreadTimerStep, Zenon DEF ThreadStep
  <1>4. CASE Startup \/ Shutdown \/ OwnerStep
    BY <1>1, <1>4, StartupStep, ShutdownStep, ShutdownSignalStep, ShutdownJoinStep
       DEF OwnerStep
  <1>5. CASE ForceFlushBegin \/ ForcerStep
    BY <1>1, <1>5, ForceFlushBeginStep, ForceFlushWaitStep, ForceFlushReturnStep
       DEF ForcerStep
  <1>6. CASE Crash \/ HandlerStep
    BY <1>1, <1>6, CrashStep, CrashStopStep DEF HandlerStep
  <1>7. CASE UNCHANGED flush_vars
    BY <1>7 DEF FlushIInv, TypeInv, FlagInv, QueueInv, GuardInv, DueInv, Covered, StopInv
  <1> QED  BY <1>2, <1>3, <1>4, <1>5, <1>6, <1>7, Zenon DEF FlushNext

\* The invariant holds in every reachable state.
THEOREM FlushInvariant == FlushSpec => []FlushIInv
  <1>1. FlushInit => FlushIInv
    BY InitInv
  <1>2. FlushIInv /\ [FlushNext]_flush_vars => FlushIInv'
    BY NextInv
  <1> QED  BY <1>1, <1>2, PTL DEF FlushSpec

\* For every length and number of buffers: a forced flush, a crash flush and a
\* shutdown that return have flushed whatever was enqueued before they were
\* called, and once sentry__batcher_shutdown has returned nobody flushes.
THEOREM FlushesCover == FlushSpec => []FlushesSafe
  <1>1. FlushIInv => FlushesSafe
    <2> SUFFICES ASSUME FlushIInv PROVE FlushesSafe
      OBVIOUS
    <2> USE DEF FlushIInv
    <2>1. FlushTypeOK
      <3>1. sealed * QueueLength \in Int
        BY Products DEF QueueInv
      <3>2. flushed = enqueued - count - sealed * QueueLength
        BY <3>1 DEF QueueInv
      <3>3. {request, flushing, seen, forced} \subseteq BOOLEAN
        BY DEF FlagInv
      <3> QED  BY <3>2, <3>3, Zenon DEF TypeInv, QueueInv, FlushTypeOK
    <2>2. ReturnCovers
      BY <2>1, Zenon DEF ReturnCovers, DueInv, Covered
    <2>3. NoFlushAfterShutdown
      BY Zenon DEF NoFlushAfterShutdown, TypeInv, GuardInv, StopInv
    <2> QED  BY <2>2, <2>3 DEF FlushesSafe
  <1> QED  BY <1>1, FlushInvariant, PTL
=============================================================================
