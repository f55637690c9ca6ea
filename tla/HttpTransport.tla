---------------------------- MODULE HttpTransport ----------------------------
(***************************************************************************)
(* What becomes of an envelope that is handed to the transport             *)
(* (src/src/sentry_transport.c, transports/sentry_http_transport.c): it is *)
(* queued on the background worker, sent, kept in the retry store of       *)
(* src/src/sentry_retry.c while the network fails, dumped to the run       *)
(* directory when the process closes or crashes, and taken up again by the *)
(* next start (sentry__process_old_runs).                                  *)
(*                                                                         *)
(* The worker is taken for what BgWorker shows of it: it executes the head *)
(* of the queue, which stays there meanwhile, and pops it if it is still   *)
(* there.  A retry file is [env, count, era]: "old" files were written     *)
(* before this start.  Which have waited out their backoff is left open.   *)
(***************************************************************************)
EXTENDS Integers, Sequences, FiniteSets

CONSTANTS Envelopes,    \* the envelopes the application sends
          Refs,         \* those with attachment references
          Attempts,     \* SENTRY_RETRY_ATTEMPTS
          CacheKeep,    \* cache_keep: "NONE", "OFFLINE" or "ALWAYS"
          MaxStarts,    \* bound: starts of the process
          EarlyTrigger, \* whether sentry_transport_retry may overtake the startup poll
          None          \* no envelope

ASSUME TransportAssumption ==
  /\ Refs \subseteq Envelopes /\ None \notin Envelopes
  /\ Attempts \in Nat \ {0} /\ MaxStarts \in Nat \ {0}
  /\ CacheKeep \in {"NONE", "OFFLINE", "ALWAYS"} /\ EarlyTrigger \in BOOLEAN

VARIABLES queue,        \* the worker's queue: <<kind, envelope>>
          delayed,      \* delayed polls in that queue
          wpc, task,    \* the worker and the task in its hands
          todo, total,  \* sentry__retry_send: files to send, files left
          retryState,   \* retry->state
          scheduled,    \* retry->scheduled
          shuttingDown, \* state->shutting_down
          suspended,    \* transport->suspended
          mpc,          \* the thread that starts and closes the SDK
          cpc,          \* the crash handler
          spc, senv,    \* an application thread that sends, and what
          starts,       \* starts so far
          files,        \* the retry files in the cache directory
          cached,       \* envelopes kept in the cache directory
          run, oldRun,  \* envelopes in this run's directory and in old ones
          unsent,       \* envelopes not sent yet
          settled,      \* history: answered by the server, rate limited, given up, or
                        \* sent by a call that a crash or a close overtook
          refused       \* history: refused by the sealed store before the queue was dumped

retry == <<retryState, scheduled>>
worker == <<wpc, task, todo, total>>
sender == <<spc, senv, unsent>>
disk == <<files, cached, run, oldRun>>
vars == <<queue, delayed, worker, retry, shuttingDown, suspended, mpc, cpc, sender,
          starts, disk, settled, refused>>

Init == /\ queue = <<>> /\ delayed = 1
        /\ wpc = "idle" /\ task = <<>> /\ todo = {} /\ total = 0
        /\ retryState = "STARTUP" /\ scheduled = "SCHEDULED"
        /\ shuttingDown = FALSE /\ suspended = FALSE
        /\ mpc = "up" /\ cpc = "none"
        /\ spc = "idle" /\ senv = None /\ unsent = Envelopes
        /\ starts = 1
        /\ files = {} /\ cached = {} /\ run = {} /\ oldRun = {}
        /\ settled = {} /\ refused = {}

Alive == mpc # "down"
Running == wpc # "exited"

(***************************************************************************)
(* An application thread: sentry__transport_send_envelope.                 *)
(***************************************************************************)
SendBegin(e) ==
  /\ spc = "idle"
  /\ IF suspended
       THEN run' = run \cup {e} /\ UNCHANGED spc
       ELSE spc' = "submit" /\ UNCHANGED run
SendEnvelope(e) ==
  /\ Alive /\ mpc = "up" /\ e \in unsent
  /\ SendBegin(e)
  /\ unsent' = unsent \ {e}
  /\ senv' = IF suspended THEN None ELSE e
  /\ UNCHANGED <<queue, delayed, worker, retry, shuttingDown, suspended, mpc, cpc,
                 starts, files, cached, oldRun, settled, refused>>

\* A call that began before sentry_close may submit behind its dump of the
\* queue: nobody takes that envelope up.
SendSubmit ==
  /\ spc = "submit"
  /\ queue' = Append(queue, <<"send", senv>>)
  /\ settled' = IF mpc = "down" THEN settled \cup {senv} ELSE settled
  /\ spc' = "recheck"
  /\ UNCHANGED <<delayed, worker, retry, shuttingDown, suspended, mpc, cpc, senv, unsent,
                 starts, disk, refused>>

\* sentry__bgworker_foreach_matching: the tasks of a kind leave the queue, the
\* others keep their order.
Rest(kind) == {i \in 1 .. Len(queue) : queue[i][1] # kind}
Rank(kind, i) == Cardinality({j \in Rest(kind) : j <= i})
Without(kind) == [n \in 1 .. Cardinality(Rest(kind)) |->
                    queue[CHOOSE i \in Rest(kind) : Rank(kind, i) = n]]

\* http_dump_queue.
Dumped == {queue[i][2] : i \in {j \in 1 .. Len(queue) : queue[j][1] = "send"}}
DumpQueue ==
  /\ run' = run \cup Dumped
  /\ queue' = Without("send")

Recheck_Not == FALSE
Recheck == suspended
SendRecheck ==
  /\ spc = "recheck"
  /\ IF Recheck THEN DumpQueue ELSE UNCHANGED <<run, queue>>
  /\ spc' = "idle" /\ senv' = IF mpc = "remove" THEN senv ELSE None
  /\ UNCHANGED <<delayed, worker, retry, shuttingDown, suspended, mpc, cpc, unsent,
                 starts, files, cached, oldRun, settled, refused>>

(***************************************************************************)
(* The worker: http_send_task.                                             *)
(***************************************************************************)
TakeSend ==
  /\ Running /\ wpc = "idle" /\ queue # <<>> /\ Head(queue)[1] = "send"
  /\ wpc' = "http" /\ task' = Head(queue)
  /\ UNCHANGED <<queue, delayed, todo, total, retry, shuttingDown, suspended, mpc, cpc,
                 sender, starts, disk, settled, refused>>

Kept(e) == IF CacheKeep = "ALWAYS" THEN cached \cup {e} ELSE cached

\* A response, or the rate limiter leaves nothing to send.
HttpResponse ==
  /\ Running /\ wpc = "http"
  /\ settled' = settled \cup {task[2]}
  /\ cached' = Kept(task[2])
  /\ wpc' = "pop"
  /\ UNCHANGED <<queue, delayed, task, todo, total, retry, shuttingDown, suspended, mpc,
                 cpc, sender, starts, files, run, oldRun, refused>>

\* No response: RESULT_SHUTDOWN keeps attachments with the run, otherwise the
\* retry store decides.
HttpFailure ==
  /\ Running /\ wpc = "http"
  /\ \/ /\ shuttingDown /\ task[2] \in Refs
        /\ run' = run \cup {task[2]}
        /\ wpc' = "pop"
     \/ /\ ~(shuttingDown /\ task[2] \in Refs)
        /\ wpc' = "enqueue"
        /\ UNCHANGED run
  /\ UNCHANGED <<queue, delayed, task, todo, total, retry, shuttingDown, suspended, mpc,
                 cpc, sender, starts, files, cached, oldRun, settled, refused>>

\* sentry__retry_enqueue: under sealed_lock the file is written, unless the
\* store is sealed or the write fails; then the envelope is discarded.  The
\* store is sealed before the queue is dumped: an envelope that is refused and
\* popped in between is not in that dump.
RetryFile(e, n) == [env |-> e, count |-> n, era |-> "new"]
RetryEnqueue ==
  /\ Running /\ wpc = "enqueue"
  /\ \/ /\ retryState # "SEALED"
        /\ files' = files \cup {RetryFile(task[2], 0)}
        /\ retryState' = "RUNNING"
        /\ wpc' = "arm"
        /\ UNCHANGED <<settled, refused>>
     \/ /\ retryState # "SEALED"
        /\ settled' = settled \cup {task[2]}
        /\ wpc' = "pop"
        /\ UNCHANGED <<files, retryState, refused>>
     \/ /\ retryState = "SEALED"
        /\ refused' = IF Alive THEN refused \cup {task[2]} ELSE refused
        /\ wpc' = "pop"
        /\ UNCHANGED <<files, retryState, settled>>
  /\ UNCHANGED <<queue, delayed, task, todo, total, scheduled, shuttingDown, suspended,
                 mpc, cpc, sender, starts, cached, run, oldRun>>

\* Schedule a poll, unless there is one or the store is shut down.
MayArm == scheduled = "IDLE"
Arm == IF MayArm
         THEN scheduled' = "SCHEDULED" /\ delayed' = delayed + 1
         ELSE UNCHANGED <<scheduled, delayed>>
RetryArm ==
  /\ Running /\ wpc = "arm"
  /\ Arm
  /\ wpc' = "pop"
  /\ UNCHANGED <<queue, task, todo, total, retryState, shuttingDown, suspended, mpc,
                 cpc, sender, starts, disk, settled, refused>>

PopTask ==
  /\ Running /\ wpc = "pop"
  /\ queue' = IF queue # <<>> /\ Head(queue) = task THEN Tail(queue) ELSE queue
  /\ wpc' = "idle" /\ task' = <<>>
  /\ UNCHANGED <<delayed, todo, total, retry, shuttingDown, suspended, mpc, cpc, sender,
                 starts, disk, settled, refused>>

(***************************************************************************)
(* The worker: retry_poll_task, retry_flush_task, retry_trigger_task.      *)
(***************************************************************************)
\* Files before `before` (a poll at startup and the flush: the old ones; a
\* trigger: all), and of those the ones to send now.
Considered(kind) == IF kind = "flush" \/ (kind = "poll" /\ retryState = "STARTUP")
                      THEN {f \in files : f.era = "old"} ELSE files
Backoff(kind) == kind = "poll" /\ retryState # "STARTUP"
Polled_Keep == scheduled
Polled == IF scheduled = "SCHEDULED" THEN "IDLE" ELSE scheduled
TakeRetry(ripe) ==
  /\ Running /\ wpc = "idle" /\ queue # <<>> /\ Head(queue)[1] # "send"
  /\ Backoff(Head(queue)[1]) \/ ripe = files
  /\ wpc' = "retry" /\ task' = Head(queue)
  /\ todo' = ripe \cap Considered(Head(queue)[1])
  /\ total' = Cardinality(Considered(Head(queue)[1]))
  /\ scheduled' = IF Head(queue)[1] = "poll" THEN Polled ELSE scheduled
  /\ UNCHANGED <<queue, delayed, retryState, shuttingDown, suspended, mpc, cpc, sender,
                 starts, disk, settled, refused>>

\* The user's consent is missing: "keep the poll alive until consent is given".
TakeRetrySkip ==
  /\ Running /\ wpc = "idle" /\ queue # <<>> /\ Head(queue)[1] # "send"
  /\ wpc' = "retry" /\ task' = Head(queue)
  /\ todo' = {} /\ total' = 1
  /\ scheduled' = IF Head(queue)[1] = "poll" THEN Polled ELSE scheduled
  /\ UNCHANGED <<queue, delayed, retryState, shuttingDown, suspended, mpc, cpc, sender,
                 starts, disk, settled, refused>>

\* The oldest first.
Oldest(f) == f \in todo /\ \A g \in todo : g.era = "old" => f.era = "old"

\* handle_result for a response: the file goes away.
RetryResponse(f) ==
  /\ Running /\ wpc = "retry" /\ Oldest(f)
  /\ settled' = settled \cup {f.env}
  /\ files' = files \ {f} /\ cached' = Kept(f.env)
  /\ todo' = todo \ {f} /\ total' = total - 1
  /\ UNCHANGED <<queue, delayed, wpc, task, retry, shuttingDown, suspended, mpc, cpc,
                 sender, starts, run, oldRun, refused>>

\* handle_result for a network failure: one attempt more, the cache, or the end
\* of it; the rest is left for later.
Exhausted(f) == f.count + 1 >= Attempts
RetryFailure(f) ==
  /\ Running /\ wpc = "retry" /\ Oldest(f)
  /\ IF Exhausted(f)
       THEN /\ files' = files \ {f} /\ total' = total - 1
            /\ IF CacheKeep = "NONE"
                 THEN settled' = settled \cup {f.env} /\ UNCHANGED cached
                 ELSE cached' = cached \cup {f.env} /\ UNCHANGED settled
       ELSE /\ files' = (files \ {f}) \cup {RetryFile(f.env, f.count + 1)}
            /\ UNCHANGED <<total, cached, settled>>
  /\ todo' = {}
  /\ UNCHANGED <<queue, delayed, wpc, task, retry, shuttingDown, suspended, mpc, cpc,
                 sender, starts, run, oldRun, refused>>

RetryDone ==
  /\ Running /\ wpc = "retry" /\ todo = {}
  /\ IF task[1] = "poll"
       THEN /\ IF total > 0 THEN Arm ELSE UNCHANGED <<scheduled, delayed>>
            /\ retryState' = IF retryState = "STARTUP" THEN "RUNNING" ELSE retryState
       ELSE UNCHANGED <<retry, delayed>>
  /\ wpc' = "pop" /\ total' = 0
  /\ UNCHANGED <<queue, task, todo, shuttingDown, suspended, mpc, cpc, sender, starts,
                 disk, settled, refused>>

\* Time passes: the delayed poll is due.
PollDue ==
  /\ Running /\ delayed > 0
  /\ delayed' = delayed - 1
  /\ queue' = Append(queue, <<"poll", None>>)
  /\ UNCHANGED <<worker, retry, shuttingDown, suspended, mpc, cpc, sender, starts, disk,
                 settled, refused>>

\* sentry_transport_retry; bound: it is called while nothing is queued.
RetryTrigger ==
  /\ Alive /\ mpc = "up" /\ (EarlyTrigger \/ retryState # "STARTUP")
  /\ queue = <<>>
  /\ queue' = Append(queue, <<"trigger", None>>)
  /\ UNCHANGED <<delayed, worker, retry, shuttingDown, suspended, mpc, cpc, sender,
                 starts, disk, settled, refused>>

(***************************************************************************)
(* sentry_close: http_transport_shutdown, then sentry__transport_dump_queue.*)
(***************************************************************************)
ShutdownBegin ==
  /\ Alive /\ mpc = "up"
  /\ shuttingDown' = TRUE
  /\ queue' = Without("poll") /\ delayed' = 0
  /\ mpc' = "stop"
  /\ UNCHANGED <<worker, retry, suspended, cpc, sender, starts, disk, settled, refused>>
RetryShutdown ==
  /\ Alive /\ mpc = "stop"
  /\ scheduled' = "SHUTDOWN"
  /\ queue' = Append(queue, <<"flush", None>>)
  /\ mpc' = "wait"
  /\ UNCHANGED <<delayed, worker, retryState, shuttingDown, suspended, cpc, sender,
                 starts, disk, settled, refused>>
WorkerExit ==
  /\ Running /\ wpc = "idle"
  /\ (mpc = "wait" /\ queue = <<>>) \/ mpc \in {"seal", "dump", "down"}
  /\ wpc' = "exited"
  /\ UNCHANGED <<queue, delayed, task, todo, total, retry, shuttingDown, suspended, mpc,
                 cpc, sender, starts, disk, settled, refused>>
ShutdownJoin ==
  /\ Alive /\ mpc = "wait" /\ wpc = "exited"
  /\ mpc' = "dump"
  /\ UNCHANGED <<queue, delayed, worker, retry, shuttingDown, suspended, cpc, sender,
                 starts, disk, settled, refused>>
ShutdownTimeout ==
  /\ Alive /\ mpc = "wait" /\ wpc # "exited"
  /\ mpc' = "seal"
  /\ UNCHANGED <<queue, delayed, worker, retry, shuttingDown, suspended, cpc, sender,
                 starts, disk, settled, refused>>
RetrySeal ==
  /\ Alive /\ mpc = "seal"
  /\ retryState' = "SEALED"
  /\ mpc' = "dump"
  /\ UNCHANGED <<queue, delayed, worker, scheduled, shuttingDown, suspended, cpc, sender,
                 starts, disk, settled, refused>>
CloseDump ==
  /\ Alive /\ mpc = "dump"
  /\ DumpQueue
  /\ mpc' = "down"
  /\ UNCHANGED <<delayed, worker, retry, shuttingDown, suspended, cpc, sender, starts,
                 files, cached, oldRun, settled, refused>>

(***************************************************************************)
(* A crash, and the next start of the process.                             *)
(***************************************************************************)
\* Bound: the last start crashes only while it takes up an old run.
CrashSuspend ==
  /\ Alive /\ cpc = "none" /\ (starts < MaxStarts \/ oldRun # {})
  /\ suspended' = TRUE
  /\ cpc' = "dump"
  /\ UNCHANGED <<queue, delayed, worker, retry, shuttingDown, mpc, sender, starts, disk,
                 settled, refused>>
CrashDump ==
  /\ cpc = "dump"
  /\ DumpQueue
  /\ cpc' = "dying"
  /\ UNCHANGED <<delayed, worker, retry, shuttingDown, suspended, mpc, sender, starts,
                 files, cached, oldRun, settled, refused>>
\* The process ends, wherever the other threads are; a call that sends may not
\* have returned.
CutShort == IF spc = "idle" \/ mpc = "remove" THEN {} ELSE {senv}
Die ==
  /\ cpc = "dying"
  /\ cpc' = "none" /\ suspended' = FALSE
  /\ settled' = settled \cup CutShort
  /\ spc' = "idle" /\ senv' = None
  /\ queue' = <<>> /\ delayed' = 0
  /\ wpc' = "exited" /\ task' = <<>> /\ todo' = {} /\ total' = 0
  /\ retryState' = "STARTUP" /\ scheduled' = "IDLE"
  /\ shuttingDown' = FALSE /\ mpc' = "down"
  /\ UNCHANGED <<unsent, starts, disk, refused>>

Restart ==
  /\ ~Alive /\ cpc = "none" /\ starts < MaxStarts
  /\ starts' = starts + 1
  /\ queue' = <<>> /\ delayed' = 1
  /\ wpc' = "idle" /\ task' = <<>> /\ todo' = {} /\ total' = 0
  /\ retryState' = "STARTUP" /\ scheduled' = "SCHEDULED"
  /\ shuttingDown' = FALSE
  /\ spc' = "idle" /\ senv' = None
  /\ files' = {[f EXCEPT !.era = "old"] : f \in files}
  /\ oldRun' = oldRun \cup run /\ run' = {}
  /\ settled' = settled \cup CutShort
  /\ mpc' = "old"
  /\ UNCHANGED <<suspended, cpc, unsent, cached, refused>>

\* sentry__process_old_runs: queue an envelope, then remove its file.
ProcessOldRun(e) ==
  /\ Alive /\ mpc = "old" /\ e \in oldRun
  /\ SendBegin(e)
  /\ senv' = e
  /\ mpc' = "remove"
  /\ UNCHANGED <<queue, delayed, worker, retry, shuttingDown, suspended, cpc, unsent,
                 starts, files, cached, oldRun, settled, refused>>
RemoveOldRun ==
  /\ Alive /\ mpc = "remove" /\ spc = "idle"
  /\ oldRun' = oldRun \ {senv} /\ senv' = None
  /\ mpc' = "old"
  /\ UNCHANGED <<queue, delayed, worker, retry, shuttingDown, suspended, cpc, spc,
                 unsent, starts, files, cached, run, settled, refused>>
OldRunsDone ==
  /\ Alive /\ mpc = "old" /\ oldRun = {}
  /\ mpc' = "up"
  /\ UNCHANGED <<queue, delayed, worker, retry, shuttingDown, suspended, cpc, sender,
                 starts, disk, settled, refused>>

WorkerStep == \/ TakeSend \/ HttpResponse \/ HttpFailure \/ RetryEnqueue \/ RetryArm
              \/ PopTask \/ (\E ripe \in SUBSET files : TakeRetry(ripe)) \/ TakeRetrySkip
              \/ RetryDone \/ WorkerExit
              \/ \E f \in files : RetryResponse(f) \/ RetryFailure(f)
CloseStep == \/ RetryShutdown \/ ShutdownJoin \/ ShutdownTimeout \/ RetrySeal \/ CloseDump
StartStep == (\E e \in Envelopes : ProcessOldRun(e)) \/ RemoveOldRun \/ OldRunsDone
CrashStep == CrashDump \/ Die

Next == \/ (\E e \in Envelopes : SendEnvelope(e)) \/ SendSubmit \/ SendRecheck
        \/ WorkerStep \/ PollDue \/ RetryTrigger
        \/ ShutdownBegin \/ CloseStep \/ CrashSuspend \/ CrashStep
        \/ Restart \/ StartStep

Spec == Init /\ [][Next]_vars

\* The worker is scheduled, time passes, the backoff of every file ends, and
\* consent is not missing for ever.
Fairness == /\ WF_vars(WorkerStep) /\ SF_vars(TakeRetry(files)) /\ WF_vars(PollDue)
FairSpec == Spec /\ Fairness

(***************************************************************************)
(* Properties.                                                             *)
(***************************************************************************)
\* The variables keep their types; a retry file has attempts left.
TypeOK ==
  /\ \A i \in 1 .. Len(queue) : \/ queue[i] \in {"send"} \X Envelopes
                                \/ queue[i] \in {"poll", "flush", "trigger"} \X {None}
  /\ retryState \in {"STARTUP", "RUNNING", "SEALED"}
  /\ scheduled \in {"IDLE", "SCHEDULED", "SHUTDOWN"}
  /\ {shuttingDown, suspended} \subseteq BOOLEAN
  /\ {delayed, total} \subseteq Nat
  /\ files \subseteq [env : Envelopes, count : 0 .. Attempts - 1, era : {"old", "new"}]
  /\ todo \subseteq files
  /\ UNION {cached, run, oldRun, unsent, settled, refused} \subseteq Envelopes

\* An envelope whose sending call returned is lost in one window only: it was
\* settled with the server or given up, it is on disk, or it is in the queue of a
\* process that will still dump it, unless a close timed out and the detached
\* worker's send failed after the store was sealed and before the queue was
\* dumped.  That includes a failure after the dump, a crash at any moment, and
\* a crash while the envelopes of an earlier run are taken up.
NothingLost ==
  LET accepted == Envelopes \ (unsent \cup (IF spc = "idle" THEN {} ELSE {senv}))
      onDisk == UNION {cached, run, oldRun, {f.env : f \in files}}
  IN  accepted \subseteq UNION {settled, refused, onDisk, IF Alive THEN Dumped ELSE {}}

\* While the SDK runs, exactly one poll is due when retry files wait, and never
\* more than one.
PollArmed ==
  LET polls == delayed + Cardinality({i \in 1 .. Len(queue) : queue[i][1] = "poll"})
  IN  mpc \in {"old", "remove", "up"} /\ wpc = "idle" =>
        /\ polls <= 1
        /\ files # {} => polls = 1

\* No envelope is lost and none waits without a poll.
TransportSafe == TypeOK /\ NothingLost /\ PollArmed

\* Retry files do not wait for ever: within bounded attempts each is delivered,
\* refused, cached or given up, as long as the SDK runs.
RetriesEnd == []<>(files = {} \/ mpc # "up" \/ cpc # "none")
==============================================================================
