# A TLA+ model of sentry-native

sentry-native is a crash and telemetry SDK linked into an application. Most of
what is hard to get right in it is concurrency and failure: application threads
capture while another thread initialises or closes the SDK, a lock-free queue is
drained by a batching thread, by a forced flush and by a crash handler, a
background worker sends envelopes while the network fails, a crashing process
hands itself over to a daemon, and whatever was not sent must be found again by
the next start. This directory models those parts in TLA+, checks them with TLC
on small instances, and proves the central invariants of seven of them (thread
pool, batcher ring, batcher thread, batcher reference, life cycle, HTTP transport
and crash hand-over) with TLAPS for every instance.

File names and line numbers below refer to `src/src/`.

## 1. The system

| Part | What makes it hard | What must hold |
|---|---|---|
| Thread pool (`sentry_sync.c` 111-458) | parallel execution with ordered completion; callbacks run without the lock; spawn fails half-way | order, exact count, barriers, nobody waits for ever |
| Background worker (`sentry_sync.c` 460-964) | tasks dropped while executed; timeouts racing completion | reference counts, order, barrier, drain |
| Batcher ring, tasks, thread, reference (`sentry_batcher.c`) | lock-free; stale reads; full ring; pool, fallback and crash handler compete; lost wake-ups; a handler that may not lock | no slot race, exactly once, order, coverage on return, no use after free |
| HTTP transport and retry (`transports/sentry_http_transport.c`, `sentry_retry.c`, `sentry_transport.c`) | network fails, close times out, crash, restart | nothing lost, one poll, retries end |
| Rate limits and client reports (`sentry_ratelimiter.c`, `sentry_client_report.c`) | counters moved into a report and back around a failing send | every count and every item goes one way |
| SDK life cycle, sessions, app hang watchdog (`sentry_core.c`, `sentry_session.c`, `sentry_app_hang_monitor.c`) | captures overlap close and re-init; the watchdog captures through the lock its stopper may hold | exact references, reported once, calls return |
| Run database and cache (`sentry_database.c`, `path/`) | several processes, file locks, crash between two file operations | one process per run, taken up once, nothing lost |
| Scope and observers (`sentry_scope.c`, `integrations/sentry_integration_wer.c`) | callbacks change the scope while it notifies; flush against crash handler | observers know the scope, flushes are not forgotten |
| Tracing (`sentry_tracing.c`) | counted objects; the crash handler finishes what the program finishes | exact counts, each span once, `max_spans` |
| Values, JSON, MessagePack (`sentry_value.c`, `sentry_json.c`) | copy-on-write payloads shared by threads, failing allocations, depth limits | exact counts, clones independent, round trip |
| Envelopes, attachments (`sentry_envelope.c`, `sentry_attachment.c`) | parsing what was written, files cut short, attachments by reference | read back whole, each attachment once |
| Breadcrumbs (`sentry_ringbuffer.c`, the backends' ring files) | a crash between truncation and write | the newest, in order |
| Native backend (`backends/sentry_backend_native.c`, `backends/native/`) | two processes, shared memory, either may die; reading a dying process | one claim, reported, readable dump, sound traces |
| In-process backend (`backends/sentry_backend_inproc.c`) | signals inside the handler, a handler thread that may crash | reported, ends |

How they interact: logs and metrics enqueue on a batcher; its thread flushes
full buffers into batches; the thread pool serializes the batches in parallel
and hands them in order to the transport; captures apply the scope to an event,
put it into an envelope and hand that to the transport; the transport queues
everything on the background worker; failed sends become retry files in the
cache, which polls on the same worker send again. A close ends the session,
shuts the batchers and the transport down and dumps what is left into the run
directory. A crash either suspends the transport and dumps from inside the
process, or hands the process over to the daemon, which reads it, writes the
envelope and sends it; the next start takes up what is left.

## 2. The modules

Each module has the state of its component as variables, one action per step of
the code between two shared accesses, and properties. A part that another module
has shown to behave is used through what was shown: `BatchTasks` takes the pool
for a queue with in-order completion (`ThreadPool`), `BatcherThread` takes the
ring for a FIFO of full buffers and an active one (`Batcher`), `HttpTransport`
takes the worker for an executed head of a queue (`BgWorker`), `CrashReport` and
`Envelope` share the parser of `EnvelopeFormat`, `NativeCrash` takes the dump,
the traces and the report (`Minidump`, `StackWalk`, `Symbols`, `CrashReport`) as
single stages that may fail.

| Module | Models | Grain of a step |
|---|---|---|
| `ThreadPool` | the pool | a critical section of `pool->lock`; wait sets for the condition variables, spurious wake-ups included |
| `BgWorker` | the worker | a critical section of `task_lock`; clock reads and atomics outside it |
| `Batcher` | enqueue, rotate, flush | one access to one atomic |
| `BatchTasks` | batches after collection, pool, fallback, crash handler | a section under `task_lock`; one thread may freeze anywhere |
| `BatcherThread` | the batching thread and its callers | one access to `thread_state`, the flag or the guard |
| `BatcherRef` | batchers behind `sentry_batcher_ref_t` | one atomic access |
| `HttpTransport` | an envelope from send to the server, to disk, and back at the next start | a task's section between two shared effects |
| `ClientReports` | the items of an envelope through rate limits, uploads, retries and reports | a stage of `http_send_task` or of the retry |
| `Core` | init, close, capture, sessions, watchdog | a section under `g_options_lock`; init and close hold it across steps |
| `Scope` | setters, observers, flush, crash handler's flush, WER | one notification, one file write, one access to `scope_flush` |
| `Tracing` | transactions, spans, scope, headers, `sentry__trace_finish` | a critical section of the scope or of a children list, or one count |
| `RunDb` | run directories and locks of several processes and their daemons | one system call on a file |
| `Cache` | names, siblings, `sentry__cleanup_cache`, another process | one entry of the cleanup |
| `Values` | values and shared payloads, two threads | one count, one payload write |
| `Json` | JSON writer and reader, MessagePack | the whole conversion (an operator), the sink failing anywhere |
| `EnvelopeFormat` | the envelope's bytes: `deserialize_into`, item headers | operators |
| `Envelope` | items, attachments, files, cache | one call of the envelope API, one write |
| `Breadcrumbs` | ring buffer, ring files, merging | read, increment, open, write, append |
| `CrashHandoff` | what the shared crash context promises (abstract) | one phase |
| `NativeCrash` | handler, daemon, WER, shared memory, shutdown, next launch | one access to the shared context or one file |
| `Minidump` | the writers of Linux and macOS, Windows' call | one blob written or one read of the process |
| `StackWalk` | frame pointer walks of the daemon | one frame |
| `Symbols` | modules, threads, debug files, symbol lookup | one mapping, one file tried |
| `CrashReport` | the envelope the daemon writes by hand | one item |
| `Inproc` | signal handlers, handler thread, shutdown | one atomic access, pipe operation or signal |

Correspondence of state, where the names differ from the code:

* `ThreadPool`: accepted tasks are numbered; the list is `first .. last`,
  `next_task` is `next`. `completed` is a history.
* `Batcher`: `adders[b]` is the set of producers inside `adding` of buffer `b`;
  `sent` and the per-item copies are histories.
* `BatchTasks`: `frozen` is the thread the crash interrupted, `stuck` says it
  holds `task_lock`; `outcome[b]` records every time an envelope is sent,
  written or skipped.
* `HttpTransport`: a retry file is `[env, count, era]`; timestamps are reduced
  to whether they precede this start, and which files have waited out their
  backoff is a free choice at every poll. `settled` is the set of envelopes
  delivered, rate-limited, given up, or handed over by a call that never
  returned; `refused` those that a sealed store turned away before the dump.
* `ClientReports`: a count keeps the thing it counts, so that the counters of
  the code are sums; `recorded`, `lost_counts`, `skipped`, `given_up` are
  histories.
* `Core`: the options of the i-th init are the number i; a session carries as
  history how many updates with and without the init flag went out.
* `Scope`: what a field holds is a set of model values; `told` is what each
  observer heard last, `excused` the fields cleared while their change was told.
* `NativeCrash`: `hit` records the mishaps the code does not guard against (a
  second crash, the handler's timeout, a close, a killed daemon, a flush under
  way, a network error that leaves no copy), so that the properties can name what
  they exclude.
* `Minidump`: addresses are small numbers, a blob is `[at, size]`; `StackWalk`:
  a stack is a function from a few addresses; `Symbols`: a file is a record of
  its tables. The instances in `MCMinidump`, `MCStackWalk` and `MCSymbols` are
  hand-picked processes (cyclic and broken frame chains, files mapped twice,
  wrong debug companions, full tables).
* `Inproc`: each thread has a stack of frames, since signals nest; `SIGABRT` is
  treated like the other signals.
* `Json`: texts are sequences of tokens with escapes; integer widths are the
  constants `INT32_MAX`, `INT64_MAX`, `UINT64_MAX`. A double is an integer, a
  fraction and a 17th digit; `%.16g` drops that digit, and writes an exponent
  where the integer is above `PLAIN_MAX`.
* `Tracing`: a list of spans has a number, so that an append to a list that was
  replaced meanwhile can be told; `raced` records that two finishes were between
  their look at the limit and their append at once.
* `CrashReport`: `header_fits` says whether the envelope header fits its buffer,
  `unnamed` is a manifest entry without a file name.

The `MC*` modules give TLC its instances. Constants get values in the `.cfg`
files, which replace no definition. Five of them put several components under
one run: `MCWorkers`, `MCLifeCycle`, `MCCrash`, `MCData` and `MCState` have a
variable `part`, chosen in the initial state, that says which component a
behaviour looks at; only that component steps, under its own next-state relation
and its own fairness, and the others rest. The components of a bundle do not
interact in it; a property `P` of a part reads `part = "x" => P`.

## 3. The runs

| Run | Parts | Bounds, and why they are enough |
|---|---|---|
| `batcher` | `Batcher` | 2 producers, 1 flusher, 2 buffers of 2 slots, 4 calls: the ring fills completely, a producer is retried or dropped, both rotate |
| `workers` | `ThreadPool` | 2 threads, 2 callers, 4 tasks, `max_pending` 3: two tasks in flight while a third waits to commit and a fourth is refused; a failing spawn |
| | `BatchTasks` | 3 batches: one running, one ready, one in the fallback when the crash comes |
| | `BatcherThread` | 3 buffers of 2 slots, 5 items: two full buffers and a partial one |
| | `BatcherRef` | 2 producers, 1 handler, 3 batchers: a pin over two swaps |
| `life_cycle` | `Core` | 2 application threads, 2 inits, 2 sessions, 2 captures: a capture across close and re-init with a session in both |
| | `BgWorker` | 2 callers, 1 of them dropping, 2 tasks, clock 0..1: drop of the running task, due and delayed tasks together, timeouts at either side |
| `http_transport` | `HttpTransport` | 2 envelopes, 2 attempts, 2 process starts: one envelope in the queue and one on disk at a crash, exhausted retries |
| `crash` | `NativeCrash` | 2 crashing threads, 2 faults, 2 starts on Linux, macOS and Windows: a second crash, WER, a close and a restart during the hand-over |
| | `Inproc` | 2 threads and the handler thread, 3 crashes, 1 restart: a crash in the handler of a crash, with and without a handler thread left |
| `data` | `Minidump`, `StackWalk`, `Symbols` | hand-picked processes; reads and writes that fail at any point; caps small enough to be reached |
| | `CrashReport`, `Envelope` | 2 attachments around the size limit, payloads with newlines, a full disk, one file that changes or one failing step |
| | `Breadcrumbs` | maximum 0, 1, 2; 5 breadcrumbs: each ring file is filled and truncated again |
| | `Json`, `Values` | trees one level deeper than the depth limits, numbers at each width's edge; 2 threads, 4 operations on nested containers, or 3 that begin with two clones of one list, one in each thread's hands |
| | `ClientReports` | 2 envelopes of up to 3 items, 2 attempts, every kind of answer, 1 shut-down |
| `state` | `Scope` | 2 threads, 2 observers, 3 calls, callbacks 2 deep, 1 crash, on two backends |
| | `Tracing` | 2 transactions, 2 spans, `max_spans` 1, 5 calls, the crash handler at any point |
| | `RunDb` | 3 processes or 2 and a daemon, 1 killed, Unix and Windows locks |
| | `Cache` | 3 events, one of them waiting for a retry, each limit on or off, 1 step of another process |
| `batcher_flush`, `bgworker_reuse`, `http_poll`, `core_recheck`, `native_discard` | | these state what a comment or header says and end in a counterexample (section 5) |

The bounds on calls, tasks, items, starts, faults and time are constants named
for them (`Max...`, `..._LIMIT`, `..._CALLS`); they cap histories that the code
leaves unbounded.

Deadlock is checked in `batcher`, `workers`, `crash` and `data`, where the parts
that may come to an end say so with a step of their own (`ended`, `Done`,
`Over`). The others stop legitimately: the process dies, the clock or the calls
reach their bound.

What the runs show:

* `workers`: completion callbacks run in submission order, `pending` is exact, a
  stopped pool is drained (`PoolSafe`); flush is a barrier (`FlushBarrier`);
  accepted tasks complete and calls return (`PoolLive`), so no wake-up is lost.
  Shutdown and force flush cover what was buffered before them and no flush
  follows the shutdown (`FlushesSafe`, `FlushesEnd`). A batch is dealt with once
  and in order, and a crash flush leaves nothing it could have claimed and ends
  (`TasksSafe`, `TasksEnd`). No use after free for references and pins, no leak,
  and the owner's swap ends (`RefSafe`, `OwnerReturns`).
* `batcher`: no slot is read while written or written twice, accepted items are
  sent exactly once (`RingSafe`), in order, and by the flush that has to cover
  them (`RingOrder`); the ring never stops (`ItemsSent`).
* `life_cycle`: options are freed once, by the last user; a session is reported
  once and its first update carries the init flag; no watchdog outlives the
  options (`LifeCycleSafe`); init and close return (`CallsReturn`). Reference
  counts of tasks are exact, tasks run in order of due time and submission,
  flush and shutdown are barriers unless they time out (`WorkerSafe`); tasks run
  and calls return (`WorkerLive`).
* `http_transport`: an envelope whose sending call returned is settled, on disk,
  or in the queue of a process that will still dump it, through a timed-out
  close, a crash and a restart, outside one window of a close (section 5);
  exactly one poll is due while retry files wait
  (`TransportSafe`); retries end (`RetriesEnd`).
* `crash`: the shared crash context implements the abstract hand-off
  (`HandoffImplemented`): one claim, one report, and a claimant that was not cut
  short leaves only once the daemon let go. The daemon reads a process that is
  there, starts on a fresh context, and uses the event of the crash
  (`HandoverSafe`); a claimed crash is delivered by the daemon or the next launch
  and no thread hangs (`CrashesHandled`). In process, a crash is captured before
  the process ends, by one thread (`InprocReported`), and every crash ends
  (`InprocEnds`).
* `data`: a kept minidump can be read whatever failed while it was written
  (`DumpSound`); traces are bounded and go up the stack (`WalkSound`); names come
  from files that match the module (`SymbolsSound`); the daemon's hand-written
  envelope parses as what it was meant to be (`ReportReadable`); the newest
  breadcrumbs are reported (`BreadcrumbsKept`); envelopes are read back whole,
  attachments are in them once (`EnvelopeSound`); values survive their text
  (`RoundTrip`), their counts are exact and clones independent (`ValuesSound`,
  `ValuesIndependent`); discard counts and items are never lost in silence
  (`CountsConserved`, `ItemsAccounted`).
* `state`: observers know the scope as it is (`ObserversAgree`) and a flush is
  not forgotten (`FlushKept`); counts of transactions and spans are exact
  (`TraceRefsExact`), what is sent is sampled, bounded and its own
  (`TransactionsSound`); one process works on a run and old runs are reported
  (`RunsSound`); pruning keeps the newest with their siblings (`CachePruned`).

Several of these properties name the cases in which the code gives no promise
(a killed daemon, overlapping flushes, a file that changes between two looks);
section 5 lists them.

Every property has a mutant in `PROJECT.json`: a plausible mistake in the code
(a dropped guard, a missing wake-up, a swapped order) under which TLC finds the
property violated. The mutant operators stand before the definition they
replace, with a comment or a name that says so.

### Fairness

Weak fairness of a thread's steps says that the operating system schedules the
thread. Strong fairness is used only where code waits in a loop for something
that is free again and again: a spinlock and a pin count (`BatcherRef`), the
flush guard (`BatcherThread`), `g_options_lock` for the watchdog (`Core`), and a
retry file whose backoff ends and whose upload is not without consent for ever
(`HttpTransport`). In `NativeCrash` and `Inproc` the threads inside a handler,
the daemon, the WER module and the handler thread go on; nobody has to fault, to
flush or to shut down. No fairness is given to the application's calls, to a
crash, or to the network's success; `BgWorker` assumes that the task's function
returns, and `HttpTransport` that a request ends, which the HTTP clients'
timeouts give.

In the bundles the fairness conditions carry the part they belong to, and the
liveness properties are stated in the form `[]<>`. That a claimed crash leads to
its delivery (`CrashReported` of `NativeCrash`) is said with the monitor `owed`
of `MCCrash`, which is set by the claim and cleared by the delivery.

## 4. The proofs

Eight modules of proofs go with the components; each proves, for every value of
the constants that the component's assumption admits, that an inductive
invariant `IInv` holds initially, is kept by every action (one lemma per action),
and implies the property a run checks.

| Module | Theorem | Establishes |
|---|---|---|
| `ThreadPoolProofs` | `PoolKeepsPromises` | `Spec => []PoolSafe` (run `workers`), with `PoolTypes`, `PoolCommitOrder`, `PoolPendingExact`, `PoolDrained` |
| | `PoolFlushBarrier` | the action property `FlushBarrier` |
| `BatcherProofs` | `BatcherTypes`, `BatcherNoSlotRace` | two of the conjuncts of `RingSafe` |
| `BatcherItemProofs` | `BatcherRingSafe` | `Spec => []RingSafe` (run `batcher`), `ExactlyOnce` included |
| | `BatcherRingOrder` | the action properties of `RingOrder` |
| `BatcherThreadProofs` | `FlushesCover` | `FlushSpec => []FlushesSafe` (run `workers`) |
| `BatcherRefProofs` | `RefKeepsAlive` | `RefSpec => []RefSafe` (run `workers`) |
| `CoreProofs` | `CoreLifeCycleSafe` | `Spec => []LifeCycleSafe` (run `life_cycle`) |
| `NativeCrashProofs` | `NativeHandover` | `Spec => []HandoverSafe` (run `crash`) |
| | `NativeImplementsHandoff` | the refinement of `CrashHandoff`, `HandoffImplemented` |
| `HttpTransportProofs` | `TransportKeeps` | `Spec => [](TypeOK /\ NothingLost)`, two of the conjuncts of `TransportSafe` |
| | `TransportRuns` | `Spec => []TransportSafe` (run `http_transport`), assuming `~EarlyTrigger` |

Why the properties hold, and what had to be added to make them inductive:

* Pool. Commit order is not inductive alone: that the popped task is the only
  one in its callback (`CommitInv`) needs the exclusive ownership of running
  tasks (`ExecInv`), the shape of the list (`ListInv`) and the arithmetic of
  `pending`, `first` and the completed tasks (`CountInv`); that a stopped pool is
  drained needs what the joining caller knows of the threads (`LifeInv`).
* Ring, slots. The sealed buffers are exactly the cyclic interval from the oldest
  undrained buffer to the active one (`SealInv`, `Oldest`, `InRange`); a rotation
  past its first test still has a free buffer ahead unless another thread rotated
  (`RoomInv`); a producer that passed its recheck holds a buffer of that interval
  or the active one (`BoundInv`); the flusher that saw `adding` at zero on a
  sealed buffer is alone on it (`DrainInv`, `GuardInv`). `SlotInv` gives distinct
  slots.
* Ring, items. An item has a place (a filled slot, or a position of what was
  sent) from the moment its producer wrote it, and only one (`CopyInv`): a
  producer that has not written yet has its item nowhere, one that has is still
  counted by `adding`, so that its slot is not collected before `enqueue`
  returns. For the order (`OrderInv`), what must be sent before an item lies
  before it in the ring from the oldest buffer in use; a producer that loads the
  active buffer has every filled slot before the one it will fetch (`Ahead`); and
  what a flush must send lies in the buffers up to the one it began with
  (`InReach`).
* Flushes. What a flush must cover lies in the sealed buffers up to the one that
  was active when it took the guard, and each buffer drained brings that one
  closer (`DueInv`); the guard is held by exactly one flusher (`GuardInv`); at
  shutdown the thread is joined and no other call is under way (`StopInv`).
* Reference. The count of a batcher is one for the ref, the startup or the swap
  that has it in hand and one for each producer that counted itself in
  (`CountInv`); a producer that has not yet done so holds the lock, so that the
  ref still counts (`LockInv`); a handler counts for nothing, but what it holds
  is in the ref or in the hands of a swap that waits for the pins (`PinInv`,
  `AliveInv`).
* Life cycle. One reference per thread inside `SENTRY_WITH_OPTIONS` and one for
  `g_options` (`CountInv`), the options of an init under way being in nobody's
  hands (`OwnerInv`); a session is in one options or in the hands of one thread
  that took it out (`SessionInv`), so that it ends once; the watchdog lives only
  from the end of an init to the join of the next close or init (`DogInv`).
* Hand-over. `handling_crash` lets one thread go on in the handler
  (`HandlingInv`); the state of the context tells how far the daemon is
  (`StateInv`) and that the claimant still waits unless it was cut short
  (`WaiterInv`); `sentry__crash_ipc_free` dooms whoever works on the context, so
  that a new life of the backend starts on a fresh one (`MainInv`); once the crash
  event is written, only a flush that was under way replaces it (`EventInv`). The
  same invariant gives the refinement: every action is a step of `CrashHandoff`,
  or changes neither phase nor claimant.
* Transport. What leaves a queue that is still to be dumped is settled, refused
  or on disk when it is popped; what leaves it later was dumped; what a crash
  finds in the queue was dumped or is in the hands of the call that rechecks; an
  old run's file goes only once its envelope is elsewhere (`CoverInv`). The poll:
  `scheduled` says that one is delayed or queued, not counting the one that is
  executed (`OnePollInv`); where files wait and the worker is not about to arm,
  one is scheduled (`FilesInv`, with `total` counting the files left, `CountInv`);
  until the startup poll all files are old (`StartupInv`). The last is false when
  a trigger overtakes that poll, which is the run `http_poll`; hence the
  assumption of `TransportRuns`, and none in `TransportKeeps`.

The proofs assume only what the components name: `PoolAssumption` (`max_pending`
is positive, as `sentry__threadpool_new` requires), `BatcherAssumption` and
`FlushAssumption` (a slot per buffer, at least two buffers), `RefAssumption` and
`CoreAssumption` (finitely many, distinct threads; NULL is no batcher; the bounds
are numbers), `NativeAssumption` (an option names one of the three platforms, and
only Windows has the WER module), `TransportAssumption` (at least one attempt and
one start). They stand in modules that the module of a passing run extends, so
TLC evaluates them. The inductive invariants were model-checked before they were
proved.

Model-checked only: everything about liveness, which needs fairness and is out
of this prover's reach; `BatchTasks`, `BgWorker`, `Inproc` and the parts of
`MCData` and `MCState`, for which no inductive invariant has been written down. `Json`, `Values`, `EnvelopeFormat` and the modules that use them
declare RECURSIVE operators, about which this prover cannot reason.

## 5. Where code and comments disagree

Five runs end in a counterexample to what the repository says:

* `batcher_flush`: `sentry_batcher.c:567` "Flush through the buffer that was
  active when this call began." A producer with a stale index holds `adding` of
  the next buffer, `rotate_buffer` refuses, the flush leaves early and returns
  true. The items are sent by a later flush; after the final one there is none.
* `bgworker_reuse`: `sentry_sync.c:658` "check if the queue has been modified
  concurrently." The check compares the address of a task that may have been
  freed and allocated again.
* `http_poll`: `sentry_retry.h:41` "Returns remaining file count for controlling
  polling." A trigger before the startup poll renames a file so that the poll
  does not count it, and none is armed.
* `core_recheck`: `sentry_core.c:667` "recheck inside the lock since our
  previous read is racy." The lock may return NULL after a concurrent close.
* `native_discard`: `include/sentry.h:1498-1501` says how `on_crash` discards a
  crash event. The native backend then does not write the event, but the signal
  handler claims the crash slot and the daemon reports the crash all the same.

Met while modelling, without a run of their own. Threads and the worker:

* A second caller of `sentry__threadpool_shutdown` misses `running == 0` when
  the pool is restarted at once (`sentry_sync.c:401`), and waits for the next
  shutdown.
* `sentry__bgworker_shutdown_cb` joins without a timeout once the shutdown task
  ran (`sentry_sync.c:827`).
* A fallback after a refused submit ignores a crash handler's claim
  (`sentry_batcher.c:540`). `TasksOnce` leaves this case out.
* A crash that interrupts a producer inside `adding` leaves the crash flush in
  an unbounded wait (`sentry_batcher.c:589`).
* A force flush that takes the buffer's flag may leave a buffer that fills
  meanwhile to the five-second timer (`sentry_batcher.c:712`).
* Concurrent `sentry_start_session` calls overwrite `options->session`
  (`sentry_session.c:218`), against `include/sentry.h:1826`.
* The init flag of a session is cleared before the event is sampled away
  (`sentry_core.c:676`, `:680`).
* A session ended while the SDK closes loses its terminal update
  (`sentry_session.c:275`).
* Two concurrent `sentry_init` calls may wait for each other: one joins the
  watchdog under the lock the watchdog needs (`sentry_core.c:168`).
* An envelope sent while a close dumps the queue is dropped with the worker
  (`sentry_core.c:407`); `NothingLost` counts that call as overtaken.
* A close that times out seals the retry store
  (`transports/sentry_http_transport.c:977`) before it dumps the queue
  (`sentry_core.c:407`). A send that fails in between is refused by the store
  (`sentry_retry.c:349`), discarded (`transports/sentry_http_transport.c:859-872`)
  and popped, so that the dump does not find it: `refused` in `NothingLost`.

Transport, envelopes, database:

* The limiter is updated from an answer before the refused envelope is counted,
  so items that were never recorded are taken for rate-limited
  (`sentry_envelope.c:1430`, `transports/sentry_http_transport.c:491`): `skipped`
  in `ItemsAccounted`. Retries that run out of attempts, and raw envelopes of an
  old run that are refused, are not counted either (`given_up`).
* An attachment that crosses the size limit between the pass by value and the
  pass by reference is in both or in neither (`sentry_envelope.c:773`).
* A crash while the cache copy is written leaves a partial file that a later
  call takes for cached (`sentry_envelope.c:1293`).
* `sentry__filelock_try_lock` ignores the result of `stat`
  (`path/sentry_path_unix.c:90`): where the file is gone the comparison reads an
  uninitialised inode. `STALE_STAT` keeps the case out of the run; with it
  `RunsExclusive` fails.
* Pruning one of two cached envelopes of the same event removes the siblings of
  both (`sentry_database.c:1123`).
* A double is written with 16 significant digits (`sentry_json.c:340`), one less
  than it may need; a JSON text gives back its neighbour. `RoundTrip` says so.

Scope, tracing, breadcrumbs:

* A flush that finds another one under way leaves
  (`backends/sentry_backend_crashpad.cpp:366-372`), and the other may already
  have read the scope: the change is not in the file until the next one, where
  the comment above speaks of a flush "on every change".
* A crash inside `flush_scope` on Windows spins for the flag the crashed thread
  holds (`backends/sentry_backend_crashpad.cpp:428`).
* WER keeps the old value of a tag whose new value is too long, and does not
  learn tags set before it was registered (`integrations/sentry_integration_wer.c:79`,
  `:237`).
* An unsampled span that finishes stays on the scope (`sentry_core.c:1799`)
  against `include/sentry.h:3840`; removing a child moves the last one into its
  place (`sentry_tracing.c:496`), so that children are not always finished leaf
  first as `sentry_tracing.h` says.
* A finish looks at the number of spans, makes the list and appends in separate
  accesses (`sentry_core.c:1853-1866`). When the crash handler's finish overlaps
  one of the program, both may pass the limit (`TransactionsSound` allows the one
  span more), or one replaces the list the other made, whose span is then lost;
  the append to the list that was freed is modelled as having no effect.
* Breadcrumbs added before `sentry_init` keep the ring at its default size, and a
  merge with one empty list does not trim the other (`sentry_value.c:2163`).
* The breadcrumb counter is not atomic (`backends/sentry_backend_native.c:1226`);
  a torn record hides the rest of its ring file.

Crash backends:

* A second crashing thread ends the process while the daemon reads it
  (`backends/native/sentry_crash_handler.c:333`), and so do the handler's timeout
  and `sentry_close`: `Truncated` in `NativeCrash`. A killed daemon loses what its
  transport holds, although the data is called durable
  (`backends/native/sentry_crash_daemon.c:4991`).
* The daemon's transport has no retry store, and after its clean shutdown the
  daemon removes every envelope of the run directory but the crash envelope
  (`backends/native/sentry_crash_daemon.c:4681`, `:5034`), the copy written for
  resending included: a crash whose one send met a network error is not reported
  (`"network"` in `hit`).
* An envelope header that does not fit its buffer is left out of the hand-written
  envelope (`backends/native/sentry_crash_daemon.c:3835`, `:4112`); the
  reader then takes the event's item header for the envelope's, and
  `ReportReadable` says nothing of such a file. A large attachment whose manifest
  entry has no file name is written inline as an empty placeholder and not
  referred to (`:416`, `:3981`).
* A scope flush under way at the crash may replace the crash event
  (`backends/sentry_backend_native.c:1178`), and the attachment manifest is not
  rewritten when the last attachment goes (`:1081`).
* A region of indirect memory is aligned down and cut to its size, so that it
  may end before the pointee (`minidump/sentry_minidump_indirect.c:107`); a
  module whose record could not be written keeps a size without a position
  (`minidump/sentry_minidump_linux.c`, the `cv_record`).
* The walk compares its own count with what the frames leave of
  `MAX_STACK_FRAMES`, and both counts grow with each frame
  (`backends/native/sentry_crash_daemon.c:1335`): it ends at about half of the
  "maximum number of frames to unwind" of line 751.
* In process: a thread that crashes while it builds the report itself waits for
  itself (`backends/sentry_backend_inproc.c:1372`), a crash that holds a lock the
  handler thread needs blocks it, and chaining at the start on Android reinstalls
  the handler (`:1583`). `InprocEnds` names these.

What else the properties leave out, besides what the items above name:

* `DumpSound`: the seek back after a failed write
  (`minidump/sentry_minidump_common.c:31-34`) is not state of the model; a failed
  write is taken as undone.
* `SymbolsSound`: that a name comes from a file of the same build is claimed
  while no read failed; a companion whose build id cannot be read is accepted by
  the code (`backends/native/sentry_crash_daemon.c:1812`).
* `BreadcrumbsKept`: what overlapping adds leave in the ring files.
* `EnvelopeSound`: a cut file is rejected or read as a beginning; that it blocks
  the complete one is only recorded above.
* `ValuesSound`, `ValuesIndependent`: a clone and a merge are one step, mutators
  take one per access.
* `ObserversAgree`: a callback of a clear does not change the scope itself.
* `RunsSound`: what a killed process had in its hands is excused, and only one
  process writes a session, so that the limit of sessions in one envelope is not
  reached. `CachePruned`: what another process touched meanwhile is excused.

## 6. What is not modelled

* HTTP clients, unwinders, symbolizers and module finders of the live process,
  paths, processes, OS information, random numbers, strings: adapters to
  libraries and system calls without state that steps of several actors reach.
* The crash reporters of crashpad and breakpad, libunwind and the MessagePack
  library are external; the code around them that keeps state is modelled.
* The contents of records: register layouts, the wording of events, the byte
  layouts of ELF, Mach-O, PE and minidump records, header texts, surrogate pairs
  (which the JSON writer never writes).
* `Core`: consent and its file, user feedback, minidump capture, option setters,
  two threads that call `sentry_init` at once, the heartbeat arithmetic of the
  app hang latch.
* `Scope`: local scopes and clones, `set_trace`, attributes of telemetry, the
  session update of `set_user`. `Tracing`: outgoing headers, setters of tags,
  data and status, appends by two application threads (documented as not
  thread-safe). `RunDb`: external crash reports, the installation id.
* The components of a bundle are checked side by side, not composed; the
  compositions are those named in section 2, each through the abstraction that
  the other module's properties justify.

`PROJECT.json` lists every component with its status, and the main hazards with the
properties that cover them.
