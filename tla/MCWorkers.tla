------------------------------ MODULE MCWorkers -----------------------------
(***************************************************************************)
(* The threads of the batchers for TLC.  Each behaviour looks at one part, *)
(* chosen at the start: the thread pool, the batching thread, the tasks    *)
(* that serialize the batches, or the reference through which threads      *)
(* reach the batcher; the other parts rest in their initial states.  A     *)
(* disjunct of a fairness condition belongs to one part, so each part has  *)
(* the fairness of its own module.  The properties are those of the parts. *)
(***************************************************************************)
EXTENDS ThreadPool, BatcherThread, BatcherRef, BatchTasks

VARIABLE part  \* the part that is looked at

all_vars == << part, vars, flush_vars, ref_vars, tasks_vars >>

AllInit == /\ part \in {"pool", "thread", "ref", "tasks"}
           /\ Init
           /\ FlushInit
           /\ RefInit
           /\ TasksInit /\ (part # "tasks" => hasPool)

pool_only == part = "pool" /\ UNCHANGED << part, flush_vars, ref_vars, tasks_vars >>
thread_only == part = "thread" /\ UNCHANGED << part, vars, ref_vars, tasks_vars >>
ref_only == part = "ref" /\ UNCHANGED << part, vars, flush_vars, tasks_vars >>
tasks_only == part = "tasks" /\ UNCHANGED << part, vars, flush_vars, ref_vars >>

pool_step == pool_only /\ Next
thread_step == thread_only /\ FlushNext
ref_step == ref_only /\ RefNext
tasks_step == tasks_only /\ TasksNext
\* These may come to an end.
ended == /\ part \in {"thread", "tasks"}
         /\ UNCHANGED all_vars
AllNext == pool_step \/ thread_step \/ ref_step \/ tasks_step \/ ended

\* The fairness of each part, while it is the one looked at.
AllFairness ==
  /\ \A w \in Workers : WF_vars(part = "pool" /\ WorkerStep(w))
  /\ \A c \in Clients : WF_vars(part = "pool" /\ CallStep(c))
  /\ WF_flush_vars(part = "thread" /\ ThreadStep)
  /\ WF_flush_vars(part = "thread" /\ OwnerStep)
  /\ WF_flush_vars(part = "thread" /\ HandlerStep)
  /\ WF_flush_vars(part = "thread" /\ ForcerStep)
  /\ WF_tasks_vars(part = "tasks" /\ FlushThread)
  /\ WF_tasks_vars(part = "tasks" /\ CrashHandler)
  /\ \A b \in Batches : WF_tasks_vars(part = "tasks" /\ PoolThread(b))
  /\ \A p \in Producers : WF_ref_vars(part = "ref" /\ ProducerStep(p))
  /\ \A h \in Handlers : WF_ref_vars(part = "ref" /\ RefHandlerStep(h))
  /\ SF_all_vars(\/ thread_only /\ ForceFlushWait
                 \/ ref_only /\ RefOwnerStep)
  /\ SF_flush_vars(part = "thread" /\ FlushTake(Forcer))

AllSpec == AllInit /\ [][AllNext]_all_vars /\ AllFairness
=============================================================================
