----------------------------- MODULE MCLifeCycle ----------------------------
(***************************************************************************)
(* The life of the SDK and the work it finishes, for TLC.  Each behaviour  *)
(* looks at one part, chosen at the start: sentry_init and sentry_close    *)
(* with the threads that use the options, or the tasks of the background   *)
(* worker.                                                                 *)
(***************************************************************************)
EXTENDS Core

CONSTANTS Clients, Droppers, MaxTasks, MaxTime, Timeout, Delays, MayReuse

ASSUME /\ {MaxTasks, MaxTime, Timeout} \subseteq Nat
       /\ Droppers \subseteq Clients /\ "owner" \notin Clients /\ Delays \subseteq Nat
       /\ MayReuse \in BOOLEAN

VARIABLES part, now, worker_running, draining, tasks, worker_refs, queue, current, wpc,
          mine, caller_pc, call, cancelled, executed, dropped, discarded

Worker == INSTANCE BgWorker WITH running <- worker_running, pc <- caller_pc,
      refs <- worker_refs

core_vars == vars
worker_vars == << now, worker_running, draining, tasks, worker_refs, queue, current, wpc,
                  mine, caller_pc, call, cancelled, executed, dropped, discarded >>
all_vars == << part, core_vars, worker_vars >>

\* A part that is not looked at rests.

AllInit == /\ part \in {"core", "worker"}
           /\ Init
           /\ Worker!Init

core_only == part = "core" /\ UNCHANGED << part, worker_vars >>
worker_only == part = "worker" /\ UNCHANGED << part, core_vars >>

core_step == core_only /\ Next
worker_step == worker_only /\ Worker!Next
AllNext == core_step \/ worker_step

\* The fairness of each part, while it is the one looked at.
AllFairness ==
  /\ WF_core_vars(part = "core" /\ OwnerStep) /\ WF_core_vars(part = "core" /\ WatchdogExit)
  /\ SF_core_vars(part = "core" /\ Capture(Dog))
  /\ WF_worker_vars(part = "worker" /\ Worker!Tick)
  /\ WF_worker_vars(part = "worker" /\ Worker!WorkerStep)
  /\ WF_worker_vars(part = "worker" /\ Worker!ExecTask)
  /\ \A c \in Clients \cup {"owner"} : WF_worker_vars(part = "worker" /\ Worker!SubmitAt(c))
  /\ \A c \in Clients : WF_worker_vars(part = "worker" /\ Worker!FlushStep(c))
  /\ WF_worker_vars(part = "worker" /\ Worker!Shutdown)

AllSpec == AllInit /\ [][AllNext]_all_vars /\ AllFairness

(* The counts, the order and the barriers of the background worker         *)
(* (worker_thread, sentry__bgworker_flush, sentry__bgworker_shutdown_cb).  *)
WorkerSafe == part = "worker" => Worker!WorkerSafe
(* Neither a task given to sentry__bgworker_submit nor a caller of         *)
(* sentry__bgworker_flush or sentry__bgworker_shutdown_cb waits for ever.  *)
WorkerLive == Worker!WorkerLive
=============================================================================
