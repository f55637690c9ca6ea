------------------------------ MODULE BgWorker -------------------------------
(***************************************************************************)
(* The background worker of src/src/sentry_sync.c: a queue of reference    *)
(* counted tasks ordered by due time, one thread that executes them, and   *)
(* the calls that submit, flush, drop tasks and shut the thread down.      *)
(*                                                                         *)
(* A section under task_lock is one step; reading the clock or an atomic   *)
(* outside it is another.  Every wait of the code has a timeout, so a      *)
(* waiting thread looks at the state again whether or not it is signalled: *)
(* the waits are modelled by the guards of the steps that follow them.     *)
(***************************************************************************)
EXTENDS Integers, Sequences, FiniteSets, SequencesExt

CONSTANTS Clients,    \* threads that submit, flush and drop
          Droppers,   \* those of them that call foreach_matching
          MaxTasks,   \* bound: tasks submitted in a behaviour
          MaxTime,    \* bound: the last value of the monotonic clock
          Timeout,    \* the timeout of a flush and of the shutdown
          Delays,     \* the delays of submit_delayed
          MayReuse    \* whether SENTRY_MAKE returns the address of a freed task

VARIABLES now,                \* the monotonic clock
          running, draining,  \* the flags of the worker
          tasks,              \* every task submitted, by number
          refs,               \* refcount of every task
          queue,              \* first_task .. last_task
          current,            \* current_task, 0 for NULL
          wpc, mine,          \* the worker thread: where it is, its `task`
          pc,                 \* program counter of every caller
          call,               \* per caller: the locals of its call
          cancelled,          \* on_timeout has been called
          executed,           \* history: tasks whose exec_func has run, in order
          dropped,            \* history: tasks taken out by foreach_matching
          discarded           \* history: tasks freed with the worker

flags == <<running, draining, cancelled>>
list == <<tasks, refs, queue, current>>
worker == <<wpc, mine>>
callers == <<pc, call>>
history == <<executed, dropped, discarded>>
vars == <<now, flags, list, worker, callers, history>>

Owner == "owner"
Callers == Clients \cup {Owner}
Ids == 1 .. Len(tasks)
Executed == Range(executed)
Gone == Executed \cup dropped

\* The locals of a call: execute_after and exec_func of the task it submits,
\* that task, the start of its wait and (history) what it has to wait for.
NoCall == [after |-> 0, kind |-> "none", task |-> 0, started |-> 0, due |-> {}]
Call(t, k, D) == [NoCall EXCEPT !.after = t, !.kind = k, !.due = D]

Init == /\ now = 0
        /\ running = FALSE /\ draining = FALSE /\ cancelled = FALSE
        /\ tasks = <<>> /\ refs = <<>> /\ queue = <<>> /\ current = 0
        /\ wpc = "none" /\ mine = 0
        /\ pc = [c \in Callers |-> "new"]
        /\ call = [c \in Callers |-> NoCall]
        /\ executed = <<>> /\ dropped = {} /\ discarded = {}

At(c, l) == pc[c] = l
Goto(c, l) == pc' = [pc EXCEPT ![c] = l]
Set(c, x) == call' = [call EXCEPT ![c] = x]

Tick == /\ now < MaxTime
        /\ now' = now + 1
        /\ UNCHANGED <<flags, list, worker, callers, history>>

\* Addition that clamps at the end of time.
AddSaturate(a, b) == IF b <= MaxTime - a THEN a + b ELSE MaxTime

\* A deadline has passed; at the end of time all have.
TimedOut(c) == now - call[c].started > Timeout \/ now = MaxTime

\* What SENTRY_MAKE may return: a new address or that of a freed task.
Addresses == {Len(tasks) + 1} \cup
             (IF MayReuse THEN {tasks[i].addr : i \in Ids}
                               \ {tasks[i].addr : i \in {j \in Ids : refs[j] > 0}}
                          ELSE {})

(***************************************************************************)
(* Submitting.                                                             *)
(***************************************************************************)
Due(i) == tasks[i].after

\* How many queued tasks stay ahead of a new one: all of them, or those up to
\* the first that is due later, never counting the executing one (the head).
Ahead(t) ==
  IF queue = <<>> \/ Due(Last(queue)) <= t THEN Len(queue)
  ELSE LET k0 == IF current = 0 THEN 0 ELSE 1
       IN CHOOSE k \in k0 .. Len(queue) :
            /\ k = Len(queue) \/ Due(queue[k + 1]) > t
            /\ \A j \in k0 + 1 .. k : Due(queue[j]) <= t

\* bound: the tasks submitted or about to be
Room == Len(tasks) + Cardinality({c \in Clients : pc[c] \in {"scan", "insert"}}) < MaxTasks

\* sentry__bgworker_submit and submit_delayed: the due time is fixed first ...
Submit(c) ==
  /\ At(c, "idle") /\ Room
  /\ \E d \in Delays : Set(c, Call(AddSaturate(now, d), "work", {}))
  /\ Goto(c, "insert")
  /\ UNCHANGED <<now, flags, list, worker, history>>

\* ... then sentry__bgworker_submit_at links the task into the queue.
SubmitAt(c) ==
  /\ At(c, "insert")
  /\ \E a \in Addresses :
       tasks' = Append(tasks, [addr |-> a, after |-> call[c].after, kind |-> call[c].kind])
  /\ refs' = Append(refs, 1)
  /\ queue' = InsertAt(queue, Ahead(call[c].after) + 1, Len(tasks'))
  /\ \/ /\ call[c].kind = "work"
        /\ Goto(c, "idle") /\ Set(c, NoCall)
     \/ /\ call[c].kind # "work"
        /\ Goto(c, IF c = Owner THEN "stopping" ELSE "flushing")
        /\ Set(c, [call[c] EXCEPT !.task = Len(tasks'), !.started = now])
  /\ UNCHANGED <<now, flags, current, worker, history>>

(***************************************************************************)
(* The worker thread.                                                      *)
(***************************************************************************)
\* sentry__bgworker_start; when the spawn fails, the transport is not used.
Start ==
  /\ At(Owner, "new")
  /\ \/ /\ running' = TRUE /\ wpc' = "loop"
        /\ pc' = [c \in Callers |-> "idle"]
     \/ /\ UNCHANGED <<running, wpc>>
        /\ Goto(Owner, "stopped")
  /\ UNCHANGED <<now, draining, cancelled, list, mine, call, history>>

HeadDue == queue # <<>> /\ Due(Head(queue)) <= now

\* sentry__bgworker_is_done.
IsDone == draining \/ (~HeadDue /\ ~running)

\* Nothing more to do: leave the loop and drop the reference to the worker,
\* freeing it with what is still queued if the owner has let go of it.
FreeWorker == /\ queue' = <<>>
              /\ refs' = [i \in Ids |-> IF Contains(queue, i) THEN refs[i] - 1 ELSE refs[i]]
              /\ discarded' = discarded \cup Range(queue)
              /\ UNCHANGED <<tasks, current>>
WorkerExit ==
  /\ wpc = "loop" /\ IsDone
  /\ wpc' = "gone"
  /\ IF At(Owner, "released") THEN FreeWorker
                              ELSE UNCHANGED <<list, discarded>>
  /\ UNCHANGED <<now, flags, mine, callers, executed, dropped>>

\* Take the head for execution, with a reference of its own.
Taking(i) == [refs EXCEPT ![i] = @ + 1]
TakeTask ==
  /\ wpc = "loop" /\ ~IsDone /\ HeadDue
  /\ mine' = Head(queue) /\ current' = Head(queue)
  /\ refs' = Taking(Head(queue))
  /\ wpc' = "exec"
  /\ UNCHANGED <<now, flags, tasks, queue, callers, history>>

\* exec_func runs, and the reference for the execution goes, without the lock.
ExecTask ==
  /\ wpc = "exec"
  /\ executed' = Append(executed, mine)
  /\ running' = (running /\ tasks[mine].kind # "shutdown")
  /\ refs' = [refs EXCEPT ![mine] = @ - 1]
  /\ wpc' = "pop"
  /\ UNCHANGED <<now, draining, cancelled, tasks, queue, current, mine, callers,
                 dropped, discarded>>

\* If the queue still starts with the task's address, pop its head.
SameHead_Any == queue # <<>>
SameHead == queue # <<>> /\ tasks[Head(queue)].addr = tasks[mine].addr
PopTask ==
  /\ wpc = "pop"
  /\ current' = 0 /\ mine' = 0
  /\ IF SameHead THEN /\ queue' = Tail(queue)
                      /\ refs' = [refs EXCEPT ![Head(queue)] = @ - 1]
                 ELSE UNCHANGED <<queue, refs>>
  /\ wpc' = "loop"
  /\ UNCHANGED <<now, flags, tasks, callers, history>>

(***************************************************************************)
(* sentry__bgworker_flush.                                                 *)
(***************************************************************************)
\* Unless the worker is not running (an early return), the call's deadline
\* counts from here.
FlushBegin(c) ==
  /\ At(c, "idle") /\ running /\ Room
  /\ Set(c, Call(now, "flush", {}))
  /\ Goto(c, "scan")
  /\ UNCHANGED <<now, flags, list, worker, history>>

\* The sentinel is due with the last task that is due within the timeout.
SentinelAfter_Now(t, d) == t
SentinelAfter(t, d) ==
  LET k0 == IF current = 0 THEN 0 ELSE 1
      in(k) == \A j \in k0 + 1 .. k : Due(queue[j]) <= d
  IN Max({t} \cup {Due(queue[k]) : k \in {j \in k0 + 1 .. Len(queue) : in(j)}})
DueBy(d) == {i \in Range(queue) : Due(i) <= d}
FlushScan(c) ==
  /\ At(c, "scan")
  /\ LET t == call[c].after
         d == AddSaturate(t, Timeout)
     IN Set(c, Call(SentinelAfter(t, d), "flush", DueBy(d)))
  /\ Goto(c, "insert")
  /\ UNCHANGED <<now, flags, list, worker, history>>

\* was_flushed, or the timeout.
FlushReturn(c) ==
  /\ At(c, "flushing")
  /\ call[c].task \in Executed \/ TimedOut(c)
  /\ Goto(c, "idle") /\ Set(c, NoCall)
  /\ UNCHANGED <<now, flags, list, worker, history>>

(***************************************************************************)
(* sentry__bgworker_foreach_matching with a callback that drops some of    *)
(* the tasks it is meant for.                                              *)
(***************************************************************************)
CurrentAfter(S) == IF current \in S THEN 0 ELSE current
ForeachMatching(c) ==
  /\ c \in Droppers /\ At(c, "idle")
  /\ \E S \in SUBSET {i \in Range(queue) : tasks[i].kind = "work"} :
       /\ S # {}
       /\ queue' = SelectSeq(queue, LAMBDA i : i \notin S)
       /\ refs' = [i \in Ids |-> IF i \in S THEN refs[i] - 1 ELSE refs[i]]
       /\ current' = CurrentAfter(S)
       /\ dropped' = dropped \cup S
  /\ UNCHANGED <<now, flags, tasks, worker, callers, executed, discarded>>

(***************************************************************************)
(* sentry__bgworker_shutdown_cb and the release of the worker.             *)
(***************************************************************************)
\* The early return of a worker that is not running, or the shutdown task.
ShutdownBegin ==
  /\ At(Owner, "idle")
  /\ \/ /\ ~running
        /\ Goto(Owner, "stopped")
        /\ UNCHANGED call
     \/ /\ running
        /\ Set(Owner, Call(now, "shutdown", DueBy(now)))
        /\ Goto(Owner, "insert")
  /\ UNCHANGED <<now, flags, list, worker, history>>

\* The wait ends when the shutdown task has run; after that, or after a
\* cancellation, the thread is joined.
ShutdownJoin ==
  /\ \/ At(Owner, "stopping") /\ ~TimedOut(Owner)
     \/ At(Owner, "check")
  /\ Goto(Owner, IF ~running THEN "join" ELSE "stopping")
  /\ UNCHANGED <<now, flags, list, worker, call, history>>

\* The timeout: on_timeout without the lock, then `draining`.
ShutdownCancel ==
  /\ At(Owner, "stopping") /\ TimedOut(Owner) /\ ~cancelled
  /\ cancelled' = TRUE
  /\ Goto(Owner, "drain")
  /\ UNCHANGED <<now, running, draining, list, worker, call, history>>

ShutdownDrain ==
  /\ At(Owner, "drain")
  /\ draining' = TRUE
  /\ Goto(Owner, "check")
  /\ UNCHANGED <<now, running, cancelled, list, worker, call, history>>

\* One more wait later the thread is detached.
ShutdownDetach ==
  /\ At(Owner, "stopping") /\ TimedOut(Owner) /\ cancelled
  /\ running' = FALSE
  /\ Goto(Owner, "detached")
  /\ UNCHANGED <<now, draining, cancelled, list, worker, call, history>>

Joinable == wpc = "gone"
JoinReturns ==
  /\ At(Owner, "join") /\ Joinable
  /\ Goto(Owner, "stopped")
  /\ UNCHANGED <<now, flags, list, worker, call, history>>

\* sentry__bgworker_decref by the owner, when nobody else uses the worker.
Release ==
  /\ pc[Owner] \in {"stopped", "detached"}
  /\ \A c \in Clients : pc[c] \in {"new", "idle"}
  /\ pc' = [c \in Callers |-> "released"]
  /\ IF wpc \in {"none", "gone"} THEN FreeWorker ELSE UNCHANGED <<list, discarded>>
  /\ UNCHANGED <<now, flags, worker, call, executed, dropped>>

WorkerStep == WorkerExit \/ TakeTask \/ PopTask
FlushStep(c) == FlushScan(c) \/ FlushReturn(c)
Shutdown == ShutdownJoin \/ ShutdownCancel \/ ShutdownDrain \/ ShutdownDetach \/ JoinReturns

Next == \/ Tick
        \/ WorkerStep \/ ExecTask
        \/ \E c \in Callers : SubmitAt(c)
        \/ \E c \in Clients : Submit(c) \/ FlushBegin(c) \/ FlushStep(c) \/ ForeachMatching(c)
        \/ Start \/ ShutdownBegin \/ Shutdown \/ Release

Spec == Init /\ [][Next]_vars

\* Time passes, threads are scheduled and exec_func returns.
Fairness == /\ WF_vars(Tick) /\ WF_vars(WorkerStep) /\ WF_vars(ExecTask)
            /\ \A c \in Callers : WF_vars(SubmitAt(c))
            /\ \A c \in Clients : WF_vars(FlushStep(c))
            /\ WF_vars(Shutdown)
FairSpec == Spec /\ Fairness

(***************************************************************************)
(* Properties.                                                             *)
(***************************************************************************)
\* Indices, counters and program counters keep their types.
TypeOK ==
  /\ now \in 0 .. MaxTime
  /\ {running, draining, cancelled} \subseteq BOOLEAN
  /\ tasks \in Seq([addr : Nat, after : 0 .. MaxTime,
                    kind : {"work", "flush", "shutdown"}])
  /\ refs \in Seq(0 .. 2) /\ Len(refs) = Len(tasks)
  /\ queue \in Seq(Ids) /\ {current, mine} \subseteq Ids \cup {0}
  /\ wpc \in {"none", "loop", "exec", "pop", "gone"}
  /\ pc \in [Callers -> {"new", "idle", "scan", "insert", "flushing", "stopping",
                         "drain", "check", "join", "stopped", "detached", "released"}]
  /\ \A c \in Callers : /\ call[c].after \in 0 .. MaxTime /\ call[c].started \in 0 .. now
                         /\ call[c].task \in Ids \cup {0} /\ call[c].due \subseteq Ids

\* A task holds one reference for its place in the queue and one while the
\* worker executes it, no matter who takes it out of the queue meanwhile: its
\* data is cleaned up once, never under exec_func, and never left behind.
Held(i) == (IF Contains(queue, i) THEN 1 ELSE 0)
           + (IF mine = i /\ wpc = "exec" THEN 1 ELSE 0)
RefsExact == TypeOK /\ \A i \in Ids : refs[i] = Held(i)

\* Tasks run in the order of their due times, those of equal due time in the
\* order in which they were queued: a task overtakes one queued before it only
\* if it is due earlier.
TaskOrder == \A j, k \in 1 .. Len(executed) :
               j < k /\ executed[k] < executed[j] => Due(executed[j]) < Due(executed[k])

\* The sentinel of a flush runs after every task that was queued when the flush
\* looked and due within its timeout, whoever queues or drops others meanwhile.
FlushBarrier == \A c \in Clients :
                  At(c, "flushing") /\ call[c].task \in Executed => call[c].due \subseteq Gone

\* A shutdown that joins the worker has let every task finish that was due
\* when it was called; the worker is gone and runs nothing any more.
ShutdownDrained == At(Owner, "stopped") => call[Owner].due \subseteq Gone /\ wpc \in {"none", "gone"}

\* What the worker promises those who queue, flush and shut down: the four
\* above together.
WorkerSafe == RefsExact /\ TaskOrder /\ FlushBarrier /\ ShutdownDrained

\* "check if the queue has been modified concurrently. if not, we pop it": a
\* task is in the queue until it has run or was dropped.
NeverSkipped == \A i \in Ids : Contains(queue, i) \/ i \in Gone \cup discarded

\* A queued task is executed or dropped, unless the worker ends first.
TasksRun == []<>(wpc \in {"none", "gone"} \/ Ids \cap 1 .. MaxTasks \subseteq Gone)

\* Flush and shutdown return.
CallsReturn == \A c \in Callers : []<>(pc[c] \notin {"scan", "insert", "flushing", "stopping",
                                                    "drain", "check", "join"})

\* Neither a task nor a caller waits for ever.
WorkerLive == TasksRun /\ CallsReturn
==============================================================================
