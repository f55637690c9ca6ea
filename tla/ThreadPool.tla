----------------------------- MODULE ThreadPool -----------------------------
(***************************************************************************)
(* The thread pool of src/src/sentry_sync.c: pooled threads execute tasks  *)
(* in parallel, completion callbacks run one at a time in submission       *)
(* order, flush and shutdown wait for all accepted tasks.                  *)
(*                                                                         *)
(* Accepted tasks are numbered 1, 2, ... in submission order.  The linked  *)
(* list first_task .. last_task is the interval first .. last; next_task   *)
(* is the task numbered next, or NULL when next > last.  Every field is    *)
(* protected by pool->lock, so a critical section is one step; a thread    *)
(* blocked in sentry__cond_wait is a member of a wait set.                 *)
(***************************************************************************)
EXTENDS Integers, Sequences

CONSTANTS Workers,      \* the pooled threads (thread_count of them)
          Clients,      \* threads that submit, flush, start and shut down
          MaxPending,   \* max_pending of sentry__threadpool_new
          MaxTasks,     \* bound: tasks accepted in a behaviour
          MaxStarts     \* bound: successful or failed calls of start

ASSUME PoolAssumption == /\ MaxPending \in Nat \ {0}
                         /\ MaxTasks \in Nat
                         /\ MaxStarts \in Nat
                         /\ Workers # {}

VARIABLES first, next, last,   \* the task list and its unexecuted suffix
          done,                \* tasks whose `done` flag is set
          pending,             \* pool->pending
          committing,          \* pool->committing
          running, stopping,   \* pool->running, pool->stopping
          wpc, wtask,          \* program counter and task of a worker
          workWait,            \* workers blocked on work_signal
          cpc,                 \* program counter of a client
          stateWait,           \* clients blocked on state_signal
          accepted,            \* history: `last` when the client's call began
          completed,           \* history: tasks in order of complete_func
          starts               \* number of starts so far

queue == <<first, next, last, done, pending, committing>>
threads == <<wpc, wtask, workWait>>
callers == <<cpc, stateWait, accepted>>
vars == <<queue, running, stopping, threads, callers, completed, starts>>

WorkerPc == {"off", "loop", "exec", "commit", "exited"}
ClientPc == {"idle", "start", "startjoin", "flush", "flushing",
             "shutdown", "stop", "stopped", "stopjoin"}

Init == /\ first = 1 /\ next = 1 /\ last = 0
        /\ done = {}
        /\ pending = 0
        /\ committing = FALSE
        /\ running = FALSE /\ stopping = FALSE
        /\ wpc = [w \in Workers |-> "off"]
        /\ wtask = [w \in Workers |-> 0]
        /\ workWait = {}
        /\ cpc = [c \in Clients |-> "idle"]
        /\ stateWait = {}
        /\ accepted = [c \in Clients |-> 0]
        /\ completed = <<>>
        /\ starts = 0

(***************************************************************************)
(* Condition variables.                                                    *)
(***************************************************************************)
\* The wait sets that waking one waiter can leave behind.
WakeOne(waiting) == IF waiting = {} THEN {{}}
                                    ELSE {waiting \ {w} : w \in waiting}

\* pthread_cond_wait may return without a signal.
SpuriousWake == /\ \/ /\ workWait # {}
                      /\ workWait' \in WakeOne(workWait)
                      /\ UNCHANGED stateWait
                   \/ /\ stateWait # {}
                      /\ stateWait' \in WakeOne(stateWait)
                      /\ UNCHANGED workWait
                /\ UNCHANGED <<queue, running, stopping, wpc, wtask, cpc,
                               accepted, completed, starts>>

(***************************************************************************)
(* The conditions the pool decides by.                                     *)
(***************************************************************************)
\* Only one worker runs completion callbacks at a time.
MayCommit == ~committing

\* Submissions are refused before start and from shutdown on ...
Accepting_WhileStopping == running
Accepting == running /\ ~stopping

\* ... and when max_pending tasks are not yet completed.
HasRoom == pending < MaxPending

\* An accepted task is counted.
Counted == pending + 1

\* What sentry__threadpool_flush waits for to become false.
Unfinished_ListOnly == first <= last
Unfinished == pending > 0

\* The worker that brings pending to 0 wakes every waiting worker.
WorkWaitAfter(p) == IF p = 0 THEN {} ELSE workWait

\* It also wakes every client that waits for the pool to become idle.
StateWaitAfter(p) == IF p = 0 THEN {} ELSE stateWait

\* A submission wakes one waiting worker.
WakeForTask_Lost == {workWait}
WakeForTask == WakeOne(workWait)

(***************************************************************************)
(* The pooled threads.                                                     *)
(***************************************************************************)
\* threadpool_thread with the lock held: take next_task, exit, or wait.
TakeTask(w) ==
  /\ wpc[w] = "loop" /\ w \notin workWait
  /\ \/ /\ next <= last
        /\ wtask' = [wtask EXCEPT ![w] = next]
        /\ next' = next + 1
        /\ wpc' = [wpc EXCEPT ![w] = "exec"]
        /\ UNCHANGED workWait
     \/ /\ next > last /\ stopping /\ pending = 0
        /\ wpc' = [wpc EXCEPT ![w] = "exited"]
        /\ UNCHANGED <<wtask, next, workWait>>
     \/ /\ next > last /\ ~(stopping /\ pending = 0)
        /\ workWait' = workWait \cup {w}
        /\ UNCHANGED <<wtask, next, wpc>>
  /\ UNCHANGED <<first, last, done, pending, committing, running, stopping,
                 callers, completed, starts>>

\* The head of threadpool_commit_ready's loop, entered with the lock held:
\* pop a finished first task and leave the lock to complete it, or stop
\* committing.  d and p are the done flags and the pending count by then.
CommitStep(w, d, p) ==
  /\ done' = d
  /\ pending' = p
  /\ \/ /\ first <= last /\ first \in d
        /\ committing' = TRUE
        /\ first' = first + 1
        /\ wtask' = [wtask EXCEPT ![w] = first]
        /\ wpc' = [wpc EXCEPT ![w] = "commit"]
        /\ UNCHANGED <<workWait, stateWait>>
     \/ /\ ~(first <= last /\ first \in d)
        /\ committing' = FALSE
        /\ wtask' = [wtask EXCEPT ![w] = 0]
        /\ wpc' = [wpc EXCEPT ![w] = "loop"]
        /\ stateWait' = StateWaitAfter(p)
        /\ workWait' \in WakeOne(WorkWaitAfter(p))
        /\ UNCHANGED first

\* exec_func has returned: mark the task done; commit unless another worker
\* is committing, in which case that worker will find the flag set.
FinishTask(w) ==
  /\ wpc[w] = "exec"
  /\ \/ /\ MayCommit
        /\ CommitStep(w, done \cup {wtask[w]}, pending)
     \/ /\ ~MayCommit
        /\ done' = done \cup {wtask[w]}
        /\ wtask' = [wtask EXCEPT ![w] = 0]
        /\ wpc' = [wpc EXCEPT ![w] = "loop"]
        /\ workWait' \in WakeOne(workWait)
        /\ UNCHANGED <<first, pending, committing, stateWait>>
  /\ UNCHANGED <<next, last, running, stopping, cpc, accepted, completed,
                 starts>>

\* complete_func and cleanup_func have returned: take the lock again, count
\* the task as finished and look for the next one to commit.
CompleteTask(w) ==
  /\ wpc[w] = "commit"
  /\ completed' = Append(completed, wtask[w])
  /\ CommitStep(w, done, pending - 1)
  /\ UNCHANGED <<next, last, running, stopping, cpc, accepted, starts>>

(***************************************************************************)
(* The calls of the clients.                                               *)
(***************************************************************************)
\* sentry__threadpool_submit; a rejected task is cleaned up by the caller
\* and leaves the pool alone.
Submit(c) ==
  /\ cpc[c] = "idle"
  /\ last < MaxTasks
  /\ Accepting /\ HasRoom
  /\ last' = last + 1
  /\ pending' = Counted
  /\ workWait' \in WakeForTask
  /\ UNCHANGED <<first, next, done, committing, running, stopping, wpc, wtask,
                 callers, completed, starts>>

\* A client enters a blocking call; what had been accepted by then is noted.
Call(c, pc) ==
  /\ cpc[c] = "idle"
  /\ cpc' = [cpc EXCEPT ![c] = pc]
  /\ accepted' = [accepted EXCEPT ![c] = last]
  /\ UNCHANGED <<queue, running, stopping, threads, stateWait, completed>>

FlushCall(c) == Call(c, "flush") /\ UNCHANGED starts
ShutdownCall(c) == Call(c, "shutdown") /\ UNCHANGED starts
StartCall(c) == /\ starts < MaxStarts
                /\ starts' = starts + 1
                /\ Call(c, "start")

Goto(c, pc) == cpc' = [cpc EXCEPT ![c] = pc]

\* The unlocked test of `running` at the top of flush and shutdown.
CheckRunning(c, from, to) ==
  /\ cpc[c] = from
  /\ Goto(c, IF running THEN to ELSE "idle")
  /\ UNCHANGED <<queue, running, stopping, threads, stateWait, accepted,
                 completed, starts>>

\* Wait on state_signal while `blocked` holds, then go to pc.
WaitWhile(c, at, blocked, pc) ==
  /\ cpc[c] = at /\ c \notin stateWait
  /\ \/ /\ blocked
        /\ stateWait' = stateWait \cup {c}
        /\ UNCHANGED cpc
     \/ /\ ~blocked
        /\ Goto(c, pc)
        /\ UNCHANGED stateWait
  /\ UNCHANGED <<queue, running, stopping, threads, accepted, completed,
                 starts>>

FlushWait(c) == WaitWhile(c, "flushing", Unfinished, "idle")

\* sentry__threadpool_shutdown under the lock: the first caller stops the
\* pool and goes on to join, a later one waits for the first to finish.
ShutdownLock(c) ==
  /\ cpc[c] = "stop"
  /\ \/ /\ stopping
        /\ Goto(c, "stopped")
        /\ UNCHANGED <<stopping, workWait>>
     \/ /\ ~stopping
        /\ stopping' = TRUE
        /\ workWait' = {}
        /\ Goto(c, "stopjoin")
  /\ UNCHANGED <<queue, running, wpc, wtask, stateWait, accepted, completed,
                 starts>>

ShutdownWait(c) == WaitWhile(c, "stopped", running, "idle")

\* The pooled threads have been joined: the pool is no longer running.
Join(c) ==
  /\ cpc[c] \in {"stopjoin", "startjoin"}
  /\ \A w \in Workers : wpc[w] \in {"off", "exited"}
  /\ wpc' = [w \in Workers |-> "off"]
  /\ running' = FALSE
  /\ stateWait' = {}
  /\ Goto(c, "idle")
  /\ UNCHANGED <<queue, stopping, wtask, workWait, accepted, completed,
                 starts>>

\* sentry__threadpool_start: wait out a shutdown, return if already running,
\* else spawn the threads; when spawning fails after some of them, stop and
\* join those.
Start(c) ==
  /\ cpc[c] = "start" /\ c \notin stateWait
  /\ \/ /\ running /\ stopping
        /\ stateWait' = stateWait \cup {c}
        /\ UNCHANGED <<running, stopping, wpc, cpc>>
     \/ /\ running /\ ~stopping
        /\ Goto(c, "idle")
        /\ UNCHANGED <<running, stopping, wpc, stateWait>>
     \/ /\ ~running
        /\ running' = TRUE
        /\ \E S \in SUBSET Workers :
             /\ wpc' = [w \in Workers |-> IF w \in S THEN "loop" ELSE "off"]
             /\ stopping' = (S # Workers)
             /\ Goto(c, IF S = Workers THEN "idle" ELSE "startjoin")
        /\ UNCHANGED stateWait
  /\ UNCHANGED <<queue, wtask, workWait, accepted, completed, starts>>

WorkerStep(w) == TakeTask(w) \/ FinishTask(w) \/ CompleteTask(w)

\* The steps of a client that is inside a call.
CallStep(c) == \/ CheckRunning(c, "flush", "flushing")
               \/ FlushWait(c)
               \/ CheckRunning(c, "shutdown", "stop")
               \/ ShutdownLock(c)
               \/ ShutdownWait(c)
               \/ Join(c)
               \/ Start(c)

Next == \/ \E w \in Workers : WorkerStep(w)
        \/ \E c \in Clients : \/ Submit(c)
                              \/ FlushCall(c)
                              \/ ShutdownCall(c)
                              \/ StartCall(c)
                              \/ CallStep(c)
        \/ SpuriousWake

\* Threads keep running: callbacks return and a call that can go on does.
Fairness == /\ \A w \in Workers : WF_vars(WorkerStep(w))
            /\ \A c \in Clients : WF_vars(CallStep(c))

Spec == Init /\ [][Next]_vars
FairSpec == Spec /\ Fairness

(***************************************************************************)
(* Properties.                                                             *)
(***************************************************************************)
QueueTypes == /\ first \in Nat /\ next \in Nat /\ last \in Nat
              /\ done \subseteq 1 .. last
              /\ pending \in Nat
              /\ committing \in BOOLEAN
              /\ completed \in Seq(Nat)

ThreadTypes == /\ wpc \in [Workers -> WorkerPc]
               /\ wtask \in [Workers -> Nat]
               /\ workWait \subseteq Workers

CallerTypes == /\ running \in BOOLEAN /\ stopping \in BOOLEAN
               /\ cpc \in [Clients -> ClientPc]
               /\ stateWait \subseteq Clients
               /\ accepted \in [Clients -> Nat]
               /\ starts \in Nat

\* Every field of the pool keeps its type; pool->pending is never negative.
TypeOK == QueueTypes /\ ThreadTypes /\ CallerTypes

\* Completion callbacks run once per accepted task and in submission order
\* (sentry_sync.h: "completion callbacks run in submission order"), although
\* the tasks themselves finish in any order on several threads.
CommitOrder == \A i \in 1 .. Len(completed) : completed[i] = i

\* pool->pending counts exactly the accepted tasks whose callbacks have not
\* returned, wherever they are (queued, executing, done, completing), and
\* never passes max_pending.
PendingExact == /\ pending = last - Len(completed)
                /\ pending <= MaxPending

\* Once the pool is no longer running, shutdown has drained the queue: every
\* task ever accepted has completed, none is left for threadpool_free.
DrainedWhenStopped == ~running => /\ Len(completed) = last
                                  /\ first = last + 1

\* The pool keeps its promises to those who submit: the four above together.
PoolSafe == TypeOK /\ CommitOrder /\ PendingExact /\ DrainedWhenStopped

\* sentry__threadpool_flush and _shutdown return only after every task that
\* was accepted before the call has been executed and completed.
FlushBarrier ==
  [][\A c \in Clients :
       cpc[c] \in {"flush", "flushing", "shutdown", "stopped", "stopjoin"}
       /\ cpc'[c] = "idle" => accepted[c] <= Len(completed')]_vars

\* Every accepted task is eventually executed and completed: no wakeup of a
\* pooled thread is lost between submissions and ordered commits.
TasksComplete == []<>(Len(completed) = last)

\* Every blocking call (start, flush, shutdown) of a pool that is started once
\* returns.
CallsReturn == \A c \in Clients : []<>(cpc[c] = "idle")

\* Nobody waits for ever: neither a task nor a caller of the pool.
PoolLive == TasksComplete /\ CallsReturn
=============================================================================
