----------------------------- MODULE BatchTasks ------------------------------
(***************************************************************************)
(* What happens to a batch after sentry__batcher_flush has collected it    *)
(* (process_batch in src/src/sentry_batcher.c): the serialization pool     *)
(* executes and completes its task, the fallbacks handle it synchronously, *)
(* and a crash handler takes over whatever it finds in the list of tasks.  *)
(*                                                                         *)
(* A section under task_lock is one step.  The crash handler runs on some  *)
(* thread and freezes it: at most one other thread never moves again, and  *)
(* may hold task_lock for ever (stuck).  The pool is taken for what        *)
(* ThreadPool shows of it: tasks run concurrently and complete one at a    *)
(* time in the order of submission.                                        *)
(***************************************************************************)
EXTENDS Integers, Sequences, FiniteSets, SequencesExt

CONSTANT MaxBatches   \* bound: batches collected in a behaviour

ASSUME TasksAssumption == MaxBatches \in Nat

VARIABLES hasPool,        \* the telemetry pool could be started
          batch_flushing, \* who holds the batcher's flush guard
          crashFlush,     \* crash_flush
          tasks,          \* the list of in-flight tasks, newest first
          state,          \* state of every batch's task
          pool,           \* batches submitted to the pool, in order
          fpc, fb,        \* the flushing thread and its batch
          bpc,            \* per batch: the pool thread that works on it
          hpc, hb,        \* the crash handler and the batch it dumps
          frozen,         \* the thread the handler runs on
          stuck,          \* that thread holds task_lock
          next_batch,     \* the next batch to be collected
          outcome,        \* history, per batch: where its envelope went
          sent,           \* history: batches sent, in order
          batch_due       \* history: batches the crash handler must save

control == <<hasPool, batch_flushing, crashFlush, frozen, stuck>>
list == <<tasks, state>>
history == <<outcome, sent, batch_due>>
tasks_vars == <<control, list, pool, fpc, fb, bpc, hpc, hb, next_batch, history>>

Batches == 1 .. MaxBatches
\* The threads: pool threads are known by the batch they work on.
Flusher == 0
TasksHandler == -1
Nobody == -2

TasksInit == /\ hasPool \in BOOLEAN
             /\ batch_flushing = Nobody /\ crashFlush = FALSE
             /\ frozen = Nobody /\ stuck = FALSE
             /\ tasks = <<>>
             /\ state = [b \in Batches |-> "NONE"]
             /\ pool = <<>>
             /\ fpc = "idle" /\ fb = 0
             /\ bpc = [b \in Batches |-> "none"]
             /\ hpc = "none" /\ hb = 0
             /\ next_batch = 1
             /\ outcome = [b \in Batches |-> <<>>]
             /\ sent = <<>>
             /\ batch_due = {}

\* The thread that executes and completes the task of b.
TasksThread(b) == IF hasPool THEN b ELSE Flusher

\* The thread may take a step, and may enter a section under task_lock.
Runs(t) == frozen # t
MayLock(t) == Runs(t) /\ ~stuck

\* sentry__run_write_envelope, sentry__transport_send_envelope, or neither when
\* the user's consent is missing.
WriteEnvelope(b) == /\ outcome' = [outcome EXCEPT ![b] = Append(@, "written")]
                    /\ UNCHANGED sent
SendEnvelope(b) == \/ /\ outcome' = [outcome EXCEPT ![b] = Append(@, "sent")]
                      /\ sent' = Append(sent, b)
                   \/ /\ outcome' = [outcome EXCEPT ![b] = Append(@, "skipped")]
                      /\ UNCHANGED sent

(***************************************************************************)
(* The flushing thread: process_batch.                                     *)
(***************************************************************************)
\* It holds the guard and has collected a buffer; the task is allocated and
\* linked, or the allocation fails.
ProcessBatch ==
  /\ Runs(Flusher) /\ fpc = "idle" /\ batch_flushing = Nobody /\ next_batch <= MaxBatches
  /\ batch_flushing' = Flusher
  /\ fb' = next_batch /\ next_batch' = next_batch + 1
  /\ fpc' \in {"link", "drain"}
  /\ UNCHANGED <<hasPool, crashFlush, frozen, stuck, list, pool, bpc, hpc, hb, history>>

BatchTaskLink ==
  /\ fpc = "link" /\ MayLock(Flusher)
  /\ tasks' = <<fb>> \o tasks
  /\ state' = [state EXCEPT ![fb] = "PENDING"]
  /\ fpc' = "submit"
  /\ UNCHANGED <<control, pool, fb, bpc, hpc, hb, next_batch, history>>

\* Without a pool the flushing thread executes and completes the task itself; a
\* pool may refuse it.
SubmitBatch ==
  /\ fpc = "submit" /\ Runs(Flusher)
  /\ \/ /\ pool' = Append(pool, fb)
        /\ bpc' = [bpc EXCEPT ![fb] = "exec"]
        /\ fpc' = IF hasPool THEN "release" ELSE "inline"
     \/ /\ hasPool
        /\ fpc' = "unlink"
        /\ UNCHANGED <<pool, bpc>>
  /\ UNCHANGED <<control, list, fb, hpc, hb, next_batch, history>>

InlineDone ==
  /\ fpc = "inline" /\ bpc[fb] = "freed"
  /\ fpc' = "release"
  /\ UNCHANGED <<control, list, pool, fb, bpc, hpc, hb, next_batch, history>>

\* batch_task_unlink.
Unlinked(b) == RemoveAt(tasks, CHOOSE i \in 1 .. Len(tasks) : tasks[i] = b)

\* The fallback: take the task back, wait for the others, do it here.
FallbackUnlink ==
  /\ fpc = "unlink" /\ MayLock(Flusher)
  /\ tasks' = Unlinked(fb)
  /\ fpc' = "drain"
  /\ UNCHANGED <<control, state, pool, fb, bpc, hpc, hb, next_batch, history>>

Drained == tasks = <<>>
WaitAll ==
  /\ fpc = "drain" /\ MayLock(Flusher) /\ Drained
  /\ fpc' = "sync"
  /\ UNCHANGED <<control, list, pool, fb, bpc, hpc, hb, next_batch, history>>

\* process_batch_sync: serialize and look at crash_flush, then write or send.
ProcessBatchSync ==
  /\ Runs(Flusher)
  /\ \/ /\ fpc = "sync"
        /\ fpc' = IF crashFlush THEN "write" ELSE "send"
        /\ UNCHANGED <<outcome, sent>>
     \/ fpc = "write" /\ WriteEnvelope(fb) /\ fpc' = "release"
     \/ fpc = "send" /\ SendEnvelope(fb) /\ fpc' = "release"
  /\ UNCHANGED <<control, list, pool, fb, bpc, hpc, hb, next_batch, batch_due>>

EndFlush ==
  /\ fpc = "release" /\ Runs(Flusher)
  /\ batch_flushing' = Nobody
  /\ fpc' = "idle" /\ fb' = 0
  /\ UNCHANGED <<hasPool, crashFlush, frozen, stuck, list, pool, bpc, hpc, hb, next_batch,
                 history>>

(***************************************************************************)
(* A pool thread: batch_task_exec and batch_task_complete_and_cleanup.     *)
(***************************************************************************)
\* Start, unless a crash handler has taken the task already.
ExecStart(b) ==
  /\ bpc[b] = "exec" /\ MayLock(TasksThread(b))
  /\ IF state[b] = "PENDING"
       THEN /\ state' = [state EXCEPT ![b] = "RUNNING"]
            /\ bpc' = [bpc EXCEPT ![b] = "serialize"]
       ELSE /\ bpc' = [bpc EXCEPT ![b] = "executed"]
            /\ UNCHANGED state
  /\ UNCHANGED <<control, tasks, pool, fpc, fb, hpc, hb, next_batch, history>>

ExecReady(b) ==
  /\ bpc[b] = "serialize" /\ MayLock(TasksThread(b))
  /\ state' = [state EXCEPT ![b] = "READY"]
  /\ bpc' = [bpc EXCEPT ![b] = "executed"]
  /\ UNCHANGED <<control, tasks, pool, fpc, fb, hpc, hb, next_batch, history>>

\* Completion, in the order of submission; nothing is left of a dumped task.
CompleteAs_Any(s) == "COMPLETING"
CompleteAs(s) == IF s = "DUMPED" THEN s ELSE "COMPLETING"
CompleteStart(b) ==
  /\ bpc[b] = "executed" /\ MayLock(TasksThread(b)) /\ Head(pool) = b
  /\ state' = [state EXCEPT ![b] = CompleteAs(@)]
  /\ bpc' = [bpc EXCEPT ![b] = IF state'[b] = "DUMPED" THEN "unlink" ELSE "complete"]
  /\ UNCHANGED <<control, tasks, pool, fpc, fb, hpc, hb, next_batch, history>>

CompleteOut(b) ==
  /\ Runs(TasksThread(b))
  /\ \/ /\ bpc[b] = "complete"
        /\ bpc' = [bpc EXCEPT ![b] = IF crashFlush THEN "write" ELSE "send"]
        /\ UNCHANGED <<outcome, sent>>
     \/ bpc[b] = "write" /\ WriteEnvelope(b) /\ bpc' = [bpc EXCEPT ![b] = "unlink"]
     \/ bpc[b] = "send" /\ SendEnvelope(b) /\ bpc' = [bpc EXCEPT ![b] = "unlink"]
  /\ UNCHANGED <<control, list, pool, fpc, fb, hpc, hb, next_batch, batch_due>>

BatchTaskUnlink(b) ==
  /\ bpc[b] = "unlink" /\ MayLock(TasksThread(b))
  /\ tasks' = Unlinked(b)
  /\ bpc' = [bpc EXCEPT ![b] = "freed"]
  /\ pool' = Tail(pool)
  /\ UNCHANGED <<control, state, fpc, fb, hpc, hb, next_batch, history>>

(***************************************************************************)
(* The crash handler: sentry__batcher_flush_crash_safe.                    *)
(***************************************************************************)
\* It may interrupt any thread, inside or outside a section under task_lock.
Locking == (IF fpc \in {"link", "unlink", "drain"} THEN {Flusher} ELSE {})
           \cup {TasksThread(b) : b \in {c \in Batches :
                bpc[c] \in {"exec", "serialize", "executed", "unlink"}}}
TasksCrash ==
  /\ hpc = "none"
  /\ crashFlush' = TRUE
  /\ frozen' \in {Nobody, Flusher}
                \cup {TasksThread(b) : b \in {c \in Batches : bpc[c] \notin {"none", "freed"}}}
  /\ \/ stuck' = FALSE
     \/ frozen' \in Locking /\ ~stuck /\ stuck' = TRUE
  /\ hpc' = "acquire"
  /\ UNCHANGED <<hasPool, batch_flushing, list, pool, fpc, fb, bpc, hb, next_batch, history>>

\* sentry__batcher_flush in crash-safe mode: the guard, or a timeout, ...
CrashAcquire ==
  /\ hpc = "acquire"
  /\ \/ /\ batch_flushing = Nobody
        /\ batch_flushing' = TasksHandler
        /\ hpc' = "collect"
        /\ batch_due' = 1 .. next_batch - 1
     \/ /\ batch_flushing # Nobody
        /\ hpc' = "scan"
        /\ UNCHANGED <<batch_flushing, batch_due>>
  /\ UNCHANGED <<hasPool, crashFlush, frozen, stuck, list, pool, fpc, fb, bpc, hb, next_batch,
                 outcome, sent>>

\* ... then what is in the buffers goes straight to disk.
CrashCollect ==
  /\ hpc = "collect"
  /\ \/ /\ next_batch <= MaxBatches
        /\ WriteEnvelope(next_batch)
        /\ next_batch' = next_batch + 1
        /\ UNCHANGED <<batch_flushing, hpc>>
     \/ /\ batch_flushing' = Nobody /\ hpc' = "scan"
        /\ UNCHANGED <<next_batch, outcome, sent>>
  /\ UNCHANGED <<hasPool, crashFlush, frozen, stuck, list, pool, fpc, fb, bpc, hb,
                 batch_due>>

\* batch_task_dump_pending_all: claim one task at a time, while others are busy
\* look again; a lock that stays taken, or too many attempts, end it.
Claimable == {"PENDING", "READY"}
Busy == {"RUNNING", "COMPLETING"}
Claimed(b) == [state EXCEPT ![b] = "DUMPED"]
ClaimDump ==
  /\ hpc = "scan" /\ ~stuck
  /\ \E i \in 1 .. Len(tasks) :
       /\ state[tasks[i]] \in Claimable
       /\ \A j \in 1 .. i - 1 : state[tasks[j]] \notin Claimable
       /\ hb' = tasks[i]
       /\ state' = Claimed(tasks[i])
  /\ hpc' = "dump"
  /\ UNCHANGED <<control, tasks, pool, fpc, fb, bpc, next_batch, history>>

BatchTaskDump ==
  /\ hpc = "dump"
  /\ WriteEnvelope(hb)
  /\ hpc' = "scan" /\ hb' = 0
  /\ UNCHANGED <<control, list, pool, fpc, fb, bpc, next_batch, batch_due>>

MayGiveUp_Never == FALSE
MayGiveUp == \E i \in 1 .. Len(tasks) : state[tasks[i]] \in Busy
NothingLeft == \A i \in 1 .. Len(tasks) : state[tasks[i]] \notin Claimable \cup Busy
DumpEnd ==
  /\ hpc = "scan"
  /\ \/ ~stuck /\ NothingLeft /\ hpc' = "done"
     \/ stuck /\ hpc' = "timeout"
     \/ /\ ~stuck /\ MayGiveUp
        /\ \A i \in 1 .. Len(tasks) : state[tasks[i]] \notin Claimable
        /\ hpc' = "timeout"
  /\ UNCHANGED <<control, list, pool, fpc, fb, bpc, hb, next_batch, history>>

FlushThread == \/ BatchTaskLink \/ SubmitBatch \/ InlineDone \/ FallbackUnlink
               \/ WaitAll \/ ProcessBatchSync \/ EndFlush
PoolThread(b) == \/ ExecStart(b) \/ ExecReady(b) \/ CompleteStart(b)
                 \/ CompleteOut(b) \/ BatchTaskUnlink(b)
CrashHandler == CrashAcquire \/ CrashCollect \/ ClaimDump \/ BatchTaskDump \/ DumpEnd

TasksNext == \/ ProcessBatch \/ FlushThread \/ (\E b \in Batches : PoolThread(b))
             \/ TasksCrash \/ CrashHandler

TasksSpec == TasksInit /\ [][TasksNext]_tasks_vars

\* Every thread is scheduled, as long as it is not frozen.
TasksFairness == /\ WF_tasks_vars(FlushThread) /\ WF_tasks_vars(CrashHandler)
                 /\ \A b \in Batches : WF_tasks_vars(PoolThread(b))
TasksFairSpec == TasksSpec /\ TasksFairness

(***************************************************************************)
(* Properties.                                                             *)
(***************************************************************************)
\* The variables keep their types; a task in the list has not been freed.
TasksTypeOK ==
  /\ batch_flushing \in {Nobody, Flusher, TasksHandler}
  /\ {hasPool, crashFlush, stuck} \subseteq BOOLEAN
  /\ frozen \in {Nobody, Flusher} \cup Batches
  /\ tasks \in Seq({b \in Batches : bpc[b] # "freed"}) /\ pool \in Seq(Batches)
  /\ state \in [Batches -> {"NONE", "DUMPED"} \cup Claimable \cup Busy]
  /\ fpc \in {"idle", "link", "submit", "inline", "unlink", "drain", "sync", "write",
              "send", "release"}
  /\ bpc \in [Batches -> {"none", "exec", "serialize", "executed", "complete", "write",
                          "send", "unlink", "freed"}]
  /\ hpc \in {"none", "acquire", "collect", "scan", "dump", "done", "timeout"}
  /\ {fb, hb} \subseteq Batches \cup {0} /\ next_batch \in 1 .. MaxBatches + 1

\* A batch's envelope is sent, written or skipped at most once, although the
\* pool, the fallback and the crash handler compete for it, and it is not lost:
\* a task that was freed had its outcome or is in the hands of the handler.
ExactlyOnce(b) == /\ Len(outcome[b]) <= 1
                  /\ bpc[b] = "freed" => outcome[b] # <<>> \/ hb = b

\* That is so for every batch but the one that the crash handler claims between
\* batch_task_link and a sentry__threadpool_submit that fails; and the list that
\* the crash handler walks holds no task that was freed.
TasksOnce == /\ TasksTypeOK
             /\ \A b \in Batches : bpc[b] # "none" \/ state[b] # "DUMPED" => ExactlyOnce(b)

\* "Preserve FIFO order when falling back after earlier batches were accepted by
\* the serialization pool": the transport receives batches in order.
SentInOrder == \A i, j \in 1 .. Len(sent) : i < j => sent[i] < sent[j]

\* A crash flush that got the guard and ends without a timeout leaves nothing
\* behind of what had been collected before: it is on disk or was sent.
CrashCovers == hpc = "done" => \A b \in batch_due : outcome[b] # <<>>

\* The safety of the tasks, of the pool's threads and of the crash handler's
\* walk over them: the three above together.
TasksSafe == TasksOnce /\ SentInOrder /\ CrashCovers

\* A crash flush ends, whatever thread it froze: the waits for the guard, for
\* task_lock and for the tasks in progress are bounded.
CrashReturns == []<>(hpc \in {"none", "done", "timeout"})

\* Unless a thread is frozen by a crash, every collected batch is dealt with.
BatchesEnd == []<>(\/ frozen # Nobody
                   \/ \A b \in Batches : next_batch > b => outcome[b] # <<>>)

\* Neither the crash handler nor a batch waits for ever.
TasksEnd == CrashReturns /\ BatchesEnd
==============================================================================
