-------------------------- MODULE ThreadPoolProofs --------------------------
(***************************************************************************)
(* Machine-checked proofs about ThreadPool, for any number of workers,     *)
(* callers, tasks and starts.                                              *)
(***************************************************************************)
EXTENDS ThreadPool, TLAPS

(***************************************************************************)
(* The inductive invariant, part by part.                                  *)
(***************************************************************************)
\* The list is first .. last, tasks below next have been taken.
ListInv == /\ 1 <= first /\ first <= next /\ next <= last + 1
           /\ done \subseteq 1 .. next - 1

\* An executing worker owns its task alone.
ExecInv == \A w \in Workers :
             wpc[w] = "exec" =>
               /\ wtask[w] \in first .. next - 1
               /\ wtask[w] \notin done
               /\ \A v \in Workers : v # w /\ wpc[v] = "exec"
                                       => wtask[v] # wtask[w]

\* `committing` says that exactly one worker is inside complete_func, and it
\* is there with the task popped last.
CommitInv == /\ \A w \in Workers : wpc[w] = "commit" =>
                  /\ committing
                  /\ wtask[w] = first - 1
                  /\ \A v \in Workers : v # w => wpc[v] # "commit"
             /\ committing => /\ 2 <= first
                              /\ \E w \in Workers : wpc[w] = "commit"

\* The completed tasks are those popped, save the one being completed.
CountInv == /\ committing => Len(completed) = first - 2
            /\ ~committing => Len(completed) = first - 1
            /\ pending = last - Len(completed)
            /\ pending <= MaxPending

\* The life cycle: who is joining, and what the threads may still do then.
Joining(c) == cpc[c] \in {"startjoin", "stopjoin"}

LifeInv == /\ ~running => pending = 0 /\ \A w \in Workers : wpc[w] = "off"
           /\ \A c \in Clients : Joining(c) =>
                /\ running /\ stopping
                /\ \A d \in Clients : d # c => ~Joining(d)
                /\ cpc[c] = "startjoin" => pending = 0
                /\ cpc[c] = "stopjoin" => \A w \in Workers : wpc[w] # "off"
           /\ \A w \in Workers : wpc[w] = "exited" => stopping /\ pending = 0
           /\ running /\ ~stopping => \A w \in Workers : wpc[w] # "off"
           /\ \A c \in Clients : cpc[c] = "stop" => running \/ stopping
           /\ \A c \in Clients : accepted[c] <= last

IInv == /\ QueueTypes /\ ThreadTypes /\ CallerTypes
        /\ ListInv /\ ExecInv /\ CommitInv /\ CountInv /\ LifeInv
        /\ CommitOrder

(***************************************************************************)
(* Lemmas.                                                                 *)
(***************************************************************************)
\* Waking one waiter leaves a subset of the waiters behind.
LEMMA WakeOneSubset == \A W : \A V \in WakeOne(W) : V \subseteq W
  BY Zenon DEF WakeOne

\* The pool starts empty and stopped, which satisfies the invariant.
LEMMA InitIInv == Init => IInv
  <1> SUFFICES ASSUME Init PROVE IInv
    OBVIOUS
  <1>0. <<>> \in Seq(Nat) /\ Len(<<>>) = 0
    OBVIOUS
  <1>1. QueueTypes  BY <1>0, Zenon DEF Init, QueueTypes
  <1>1t. ThreadTypes  BY DEF Init, ThreadTypes, WorkerPc
  <1>1c. CallerTypes  BY Zenon DEF Init, CallerTypes, ClientPc
  <1>2. ListInv /\ ExecInv /\ CommitInv
    BY DEF Init, ListInv, ExecInv, CommitInv
  <1>3. CountInv
    <2>1. /\ Len(completed) = 0 /\ pending = 0 /\ last = 0 /\ first = 1
          /\ committing = FALSE /\ 0 <= MaxPending
      BY <1>0, PoolAssumption DEF Init
    <2> QED  BY <2>1 DEF CountInv
  <1>4. LifeInv  BY DEF Init, LifeInv, Joining
  <1>5. CommitOrder
    <2>1. Len(completed) = 0  BY <1>0 DEF Init
    <2> QED  BY <2>1 DEF CommitOrder
  <1> QED  BY <1>1, <1>1t, <1>1c, <1>2, <1>3, <1>4, <1>5 DEF IInv

\* A worker that takes a task, exits or waits (threadpool_thread with the
\* lock held) preserves the invariant.
LEMMA TakeTaskInv ==
  ASSUME IInv, NEW w \in Workers, TakeTask(w)
  PROVE  IInv'
  <1> USE DEF IInv, TakeTask, queue, threads, callers
  <1>1. QueueTypes'  BY DEF QueueTypes
  <1>1t. ThreadTypes'  BY Zenon DEF QueueTypes, ThreadTypes, WorkerPc
  <1>1c. CallerTypes'  BY DEF CallerTypes
  <1>2. ListInv'  BY DEF QueueTypes, ListInv
  <1>3. ExecInv'
    <2>1. CASE next <= last
      <3>1. \A v \in Workers : wpc'[v] = "exec" =>
              \/ v = w /\ wtask'[v] = next
              \/ v # w /\ wpc[v] = "exec" /\ wtask'[v] = wtask[v]
        BY <2>1 DEF QueueTypes, ThreadTypes
      <3>2. next \in first .. next' - 1 /\ next \notin done
        BY <2>1 DEF QueueTypes, ListInv
      <3>3. \A v \in Workers : wpc[v] = "exec" =>
              wtask[v] \in first .. next' - 1 /\ wtask[v] # next
        BY <2>1 DEF QueueTypes, ThreadTypes, ListInv, ExecInv
      <3> QED  BY <3>1, <3>2, <3>3 DEF ExecInv
    <2>2. CASE ~(next <= last)
      BY <2>2, Zenon DEF QueueTypes, ThreadTypes, ExecInv
    <2> QED  BY <2>1, <2>2
  <1>4. CommitInv'  BY Zenon DEF QueueTypes, ThreadTypes, CommitInv
  <1>5. CountInv'  BY DEF CountInv
  <1>6. LifeInv'  BY Zenon DEF QueueTypes, ThreadTypes, CallerTypes, LifeInv, Joining
  <1>7. CommitOrder'  BY DEF CommitOrder
  <1> QED  BY <1>1, <1>1t, <1>1c, <1>2, <1>3, <1>4, <1>5, <1>6, <1>7

\* A worker that finishes exec_func preserves the invariant, whether it goes
\* on to commit or leaves its task to the committing worker.
LEMMA FinishTaskInv ==
  ASSUME IInv, NEW w \in Workers, FinishTask(w)
  PROVE  IInv'
  <1> DEFINE d == done \cup {wtask[w]}
  <1>a. /\ QueueTypes /\ ThreadTypes /\ CallerTypes
        /\ ListInv /\ ExecInv /\ CommitInv /\ CountInv /\ LifeInv
        /\ CommitOrder /\ wpc[w] = "exec"
    BY DEF IInv, FinishTask
  <1>b. /\ wtask[w] \in first .. next - 1
        /\ d \subseteq 1 .. last /\ d \subseteq 1 .. next - 1
    <2>1. wtask[w] \in first .. next - 1
      BY <1>a DEF ExecInv
    <2>2. wtask[w] \in 1 .. last /\ wtask[w] \in 1 .. next - 1
      BY <1>a, <2>1 DEF QueueTypes, ListInv
    <2>3. done \subseteq 1 .. last /\ done \subseteq 1 .. next - 1
      BY <1>a DEF QueueTypes, ListInv
    <2> QED  BY <2>1, <2>2, <2>3, Zenon
  <1>c. /\ done' = d /\ pending' = pending
        /\ UNCHANGED <<next, last, running, stopping, cpc, accepted, completed,
                       starts>>
    BY DEF FinishTask, CommitStep
  <1>d. workWait' \subseteq Workers /\ stateWait' \subseteq Clients
    BY <1>a, WakeOneSubset, Zenon
       DEF FinishTask, CommitStep, QueueTypes, ThreadTypes, CallerTypes, WorkWaitAfter, StateWaitAfter
  <1>1. CASE /\ ~committing /\ first <= last /\ first \in d
             /\ committing' = TRUE /\ first' = first + 1
             /\ wtask' = [wtask EXCEPT ![w] = first]
             /\ wpc' = [wpc EXCEPT ![w] = "commit"]
    <2>1. QueueTypes'  BY <1>a, <1>b, <1>c, <1>d, <1>1 DEF QueueTypes, WorkerPc
    <2>1t. ThreadTypes'  BY <1>a, <1>b, <1>c, <1>d, <1>1 DEF ThreadTypes, WorkerPc
    <2>1c. CallerTypes'  BY <1>a, <1>b, <1>c, <1>d, <1>1 DEF CallerTypes, WorkerPc
    <2>2. ListInv'  BY <1>a, <1>b, <1>c, <1>1 DEF QueueTypes, ListInv
    <2>3. ExecInv'
      <3>1. first \notin done => wtask[w] = first
        BY <1>1
      <3>2. \A v \in Workers : v # w /\ wpc[v] = "exec" => wtask[v] # first
        BY <1>a, <3>1, <1>1 DEF ExecInv
      <3> QED  BY <1>a, <1>b, <1>c, <1>1, <3>2 DEF QueueTypes, ThreadTypes, CallerTypes, ListInv, ExecInv
    <2>4. CommitInv'  BY <1>a, <1>1 DEF QueueTypes, ThreadTypes, ListInv, CommitInv
    <2>5. CountInv'  BY <1>a, <1>c, <1>1 DEF QueueTypes, CountInv
    <2>6. LifeInv'  BY <1>a, <1>c, <1>1, Zenon
                       DEF QueueTypes, ThreadTypes, CallerTypes, LifeInv, Joining
    <2>7. CommitOrder'  BY <1>a, <1>c DEF CommitOrder
    <2> QED  BY <2>1, <2>1t, <2>1c, <2>2, <2>3, <2>4, <2>5, <2>6, <2>7 DEF IInv
  <1>2. CASE /\ committing' = committing /\ first' = first
             /\ wtask' = [wtask EXCEPT ![w] = 0]
             /\ wpc' = [wpc EXCEPT ![w] = "loop"]
    <2>1. QueueTypes'  BY <1>a, <1>b, <1>c, <1>d, <1>2 DEF QueueTypes, WorkerPc
    <2>1t. ThreadTypes'  BY <1>a, <1>b, <1>c, <1>d, <1>2 DEF ThreadTypes, WorkerPc
    <2>1c. CallerTypes'  BY <1>a, <1>b, <1>c, <1>d, <1>2 DEF CallerTypes, WorkerPc
    <2>2. ListInv'  BY <1>a, <1>b, <1>c, <1>2 DEF QueueTypes, ListInv
    <2>3. ExecInv'  BY <1>a, <1>b, <1>c, <1>2, Zenon DEF QueueTypes, ThreadTypes, ListInv, ExecInv
    <2>4. CommitInv'  BY <1>a, <1>2 DEF QueueTypes, ThreadTypes, CommitInv
    <2>5. CountInv'  BY <1>a, <1>c, <1>2 DEF QueueTypes, CountInv
    <2>6. LifeInv'  BY <1>a, <1>c, <1>2, Zenon
                       DEF QueueTypes, ThreadTypes, CallerTypes, LifeInv, Joining
    <2>7. CommitOrder'  BY <1>a, <1>c DEF CommitOrder
    <2> QED  BY <2>1, <2>1t, <2>1c, <2>2, <2>3, <2>4, <2>5, <2>6, <2>7 DEF IInv
  <1>3. \/ /\ ~committing /\ first <= last /\ first \in d
           /\ committing' = TRUE /\ first' = first + 1
           /\ wtask' = [wtask EXCEPT ![w] = first]
           /\ wpc' = [wpc EXCEPT ![w] = "commit"]
        \/ /\ committing' = committing /\ first' = first
           /\ wtask' = [wtask EXCEPT ![w] = 0]
           /\ wpc' = [wpc EXCEPT ![w] = "loop"]
    BY <1>a, Zenon DEF FinishTask, CommitStep, MayCommit, QueueTypes, ThreadTypes, CallerTypes
  <1> QED  BY <1>1, <1>2, <1>3, Zenon

\* A worker that returns from complete_func preserves the invariant: the
\* task it appends to the history is the next in submission order.
LEMMA CompleteTaskInv ==
  ASSUME IInv, NEW w \in Workers, CompleteTask(w)
  PROVE  IInv'
  <1> USE DEF IInv, CompleteTask, CommitStep, StateWaitAfter
  <1>a. WakeOne(WorkWaitAfter(pending - 1)) \subseteq SUBSET Workers
    BY WakeOneSubset, Zenon DEF QueueTypes, ThreadTypes, CallerTypes, WorkWaitAfter
  <1>b. committing /\ wtask[w] = first - 1 /\ Len(completed) = first - 2
    BY Zenon DEF CommitInv, CountInv
  <1>c. /\ completed \in Seq(Nat) /\ wtask[w] \in Nat
        /\ completed' = Append(completed, wtask[w])
    BY Zenon DEF QueueTypes, ThreadTypes, CallerTypes
  <1>d. /\ completed' \in Seq(Nat)
        /\ Len(completed') = Len(completed) + 1
        /\ \A i \in 1 .. Len(completed) : completed'[i] = completed[i]
        /\ completed'[Len(completed) + 1] = wtask[w]
    BY <1>c
  <1>e. Len(completed) \in Nat
    BY <1>c
  <1>f. pending \in Nat /\ pending - 1 \in Nat
    BY <1>b, <1>e DEF QueueTypes, ThreadTypes, CallerTypes, CountInv, ListInv
  <1>1. QueueTypes'
    <2>1. first' \in {first, first + 1} /\ committing' \in BOOLEAN
      BY Zenon
    <2>2. first' \in Nat
      BY <2>1 DEF QueueTypes
    <2> QED  BY <1>d, <1>f, <2>1, <2>2, Zenon DEF QueueTypes
  <1>1t. ThreadTypes'
    <2>1. first \in Nat /\ workWait \subseteq Workers
      BY Zenon DEF QueueTypes, ThreadTypes
    <2>2. workWait' \subseteq Workers
      BY <1>a, <2>1, Zenon
    <2>3. PICK n \in Nat : wtask' = [wtask EXCEPT ![w] = n]
      BY <2>1, Zenon
    <2>4. PICK l \in WorkerPc : wpc' = [wpc EXCEPT ![w] = l]
      BY DEF WorkerPc
    <2>5. wpc \in [Workers -> WorkerPc] /\ wtask \in [Workers -> Nat]
      BY Zenon DEF ThreadTypes
    <2> HIDE DEF IInv, CompleteTask, CommitStep
    <2>6. (wpc \in [Workers -> WorkerPc] /\ wtask \in [Workers -> Nat])'
      BY <2>3, <2>4, <2>5
    <2> QED  BY <2>2, <2>6 DEF ThreadTypes
  <1>1c. CallerTypes'  BY Zenon DEF CallerTypes
  <1>2. ListInv'  BY DEF QueueTypes, ListInv
  <1>3. ExecInv'
    <2>1. \A v \in Workers : wpc'[v] = "exec" =>
            v # w /\ wpc[v] = "exec" /\ wtask'[v] = wtask[v]
      BY Zenon DEF QueueTypes, ThreadTypes, CallerTypes
    <2>2. first \in done \/ first' = first
      BY Zenon
    <2>3. \A v \in Workers : wpc'[v] = "exec" =>
            wtask[v] \in first' .. next - 1
      BY <2>1, <2>2 DEF QueueTypes, ThreadTypes, CallerTypes, ListInv, ExecInv
    <2> QED  BY <2>1, <2>3 DEF ExecInv
  <1>4. CommitInv'  BY <1>b DEF QueueTypes, ThreadTypes, ListInv, CommitInv
  <1>5. CountInv'
    <2>1. /\ committing' => first' = first + 1
          /\ ~committing' => first' = first
          /\ pending' = pending - 1 /\ last' = last
      BY Zenon
    <2>2. /\ first \in Nat /\ last \in Nat /\ MaxPending \in Nat
          /\ pending = last - Len(completed) /\ pending <= MaxPending
      BY PoolAssumption, Zenon DEF QueueTypes, CountInv
    <2> HIDE DEF IInv, CompleteTask, CommitStep
    <2> QED  BY <1>b, <1>d, <1>e, <1>f, <2>1, <2>2 DEF CountInv
  <1>6. LifeInv'  BY <1>f DEF QueueTypes, ThreadTypes, CallerTypes, LifeInv, Joining
  <1>7. CommitOrder'  BY <1>b, <1>d, <1>e DEF CommitOrder, QueueTypes
  <1> QED  BY <1>1, <1>1t, <1>1c, <1>2, <1>3, <1>4, <1>5, <1>6, <1>7, Zenon

\* An accepted submission preserves the invariant.
LEMMA SubmitInv ==
  ASSUME IInv, NEW c \in Clients, Submit(c)
  PROVE  IInv'
  <1> USE DEF IInv, Submit, Accepting, HasRoom, Counted, callers
  <1>0. WakeForTask \subseteq SUBSET Workers
    BY WakeOneSubset, Zenon DEF QueueTypes, ThreadTypes, CallerTypes, WakeForTask
  <1>1. QueueTypes'  BY <1>0 DEF QueueTypes
  <1>1t. ThreadTypes'  BY <1>0 DEF ThreadTypes
  <1>1c. CallerTypes'  BY <1>0 DEF CallerTypes
  <1>2. ListInv'  BY DEF QueueTypes, ListInv
  <1>3. ExecInv'  BY Zenon DEF ExecInv
  <1>4. CommitInv'  BY Zenon DEF CommitInv
  <1>5. CountInv'
    <2>1. Len(completed) \in Nat /\ pending < MaxPending /\ pending \in Nat
      BY DEF QueueTypes, ThreadTypes, CallerTypes
    <2>2. pending + 1 <= MaxPending /\ last \in Nat
      BY <2>1, PoolAssumption DEF QueueTypes
    <2> QED  BY <2>1, <2>2 DEF CountInv
  <1>6. LifeInv'  BY DEF QueueTypes, ThreadTypes, CallerTypes, LifeInv, Joining
  <1>7. CommitOrder'  BY DEF CommitOrder
  <1> QED  BY <1>1, <1>1t, <1>1c, <1>2, <1>3, <1>4, <1>5, <1>6, <1>7, Zenon

\* The caller steps that leave the task list and the threads alone.
Entering(c) == FlushCall(c) \/ ShutdownCall(c) \/ StartCall(c)
Waiting(c) == \/ CheckRunning(c, "flush", "flushing")
              \/ FlushWait(c)
              \/ CheckRunning(c, "shutdown", "stop")
              \/ ShutdownWait(c)

\* Entering a call, the unlocked tests of `running`, and waiting on
\* state_signal preserve the invariant.
LEMMA QuietCallInv ==
  ASSUME IInv, NEW c \in Clients, Entering(c) \/ Waiting(c)
  PROVE  IInv'
  <1> USE DEF IInv, Entering, Waiting, FlushCall, ShutdownCall, StartCall, Call,
              CheckRunning, FlushWait, ShutdownWait, WaitWhile, Goto,
              queue, threads
  <1>1. QueueTypes'  BY Zenon DEF QueueTypes
  <1>1t. ThreadTypes'  BY Zenon DEF ThreadTypes
  <1>1c. CallerTypes'
    <2>1. last \in Nat
      BY Zenon DEF QueueTypes
    <2>2. CASE Entering(c)
      BY <2>1, <2>2 DEF CallerTypes, ClientPc
    <2>3. CASE Waiting(c)
      BY <2>3, Zenon DEF CallerTypes, ClientPc
    <2> QED  BY <2>2, <2>3, Zenon
  <1>2. ListInv'  BY Zenon DEF ListInv
  <1>3. ExecInv'  BY Zenon DEF ExecInv
  <1>4. CommitInv'  BY DEF CommitInv
  <1>5. CountInv'  BY DEF CountInv
  <1>6. LifeInv'
    <2>1. /\ pending' = pending /\ wpc' = wpc /\ last' = last
          /\ running' = running /\ stopping' = stopping
      BY Zenon
    <2>2. \A d \in Clients :
            \/ cpc'[d] = cpc[d]
            \/ d = c /\ cpc'[d] \notin {"startjoin", "stopjoin"}
                     /\ (cpc'[d] = "stop" => running)
      BY Zenon DEF CallerTypes
    <2>3. \A d \in Clients : accepted'[d] = accepted[d] \/ accepted'[d] = last
      BY Zenon DEF CallerTypes
    <2>4. LifeInv /\ last \in Nat
      BY Zenon DEF QueueTypes
    <2> HIDE DEF IInv, Entering, Waiting, FlushCall, ShutdownCall, StartCall, Call,
                 CheckRunning, FlushWait, ShutdownWait, WaitWhile, Goto,
                 queue, threads
    <2> QED  BY <2>1, <2>2, <2>3, <2>4 DEF LifeInv, Joining
  <1>7. CommitOrder'  BY Zenon DEF CommitOrder
  <1> QED  BY <1>1, <1>1t, <1>1c, <1>2, <1>3, <1>4, <1>5, <1>6, <1>7, Zenon

\* Taking the lock in shutdown preserves the invariant.
LEMMA ShutdownLockInv ==
  ASSUME IInv, NEW c \in Clients, ShutdownLock(c)
  PROVE  IInv'
  <1> USE DEF IInv, ShutdownLock, Goto, queue
  <1>1. QueueTypes'  BY Zenon DEF QueueTypes, ClientPc
  <1>1t. ThreadTypes'  BY Zenon DEF ThreadTypes, ClientPc
  <1>1c. CallerTypes'  BY Zenon DEF CallerTypes, ClientPc
  <1>2. ListInv'  BY Zenon DEF ListInv
  <1>3. ExecInv'  BY Zenon DEF ExecInv
  <1>4. CommitInv'  BY Zenon DEF CommitInv
  <1>5. CountInv'  BY Zenon DEF CountInv
  <1>6. LifeInv'  BY Zenon DEF QueueTypes, ThreadTypes, CallerTypes, LifeInv, Joining
  <1>7. CommitOrder'  BY Zenon DEF CommitOrder
  <1> QED  BY <1>1, <1>1t, <1>1c, <1>2, <1>3, <1>4, <1>5, <1>6, <1>7, Zenon

\* Joining the threads preserves the invariant: they exited with nothing
\* pending, or none was ever started.
LEMMA JoinInv ==
  ASSUME IInv, NEW c \in Clients, Join(c)
  PROVE  IInv'
  <1> USE DEF IInv, Join, Goto, queue
  <1>0. pending = 0
    <2>1. CASE cpc[c] = "startjoin"
      BY <2>1, Zenon DEF LifeInv, Joining
    <2>2. CASE cpc[c] = "stopjoin"
      <3>1. PICK w \in Workers : TRUE
        BY PoolAssumption, Zenon
      <3>2. wpc[w] = "exited"
        BY <2>2, Zenon DEF LifeInv, Joining
      <3> QED  BY <3>2, Zenon DEF LifeInv
    <2> QED  BY <2>1, <2>2, Zenon
  <1>1. QueueTypes'  BY Zenon DEF QueueTypes, ClientPc, WorkerPc
  <1>1t. ThreadTypes'  BY Zenon DEF ThreadTypes, ClientPc, WorkerPc
  <1>1c. CallerTypes'  BY Zenon DEF CallerTypes, ClientPc, WorkerPc
  <1>2. ListInv'  BY Zenon DEF ListInv
  <1>3. ExecInv'  BY Zenon DEF ExecInv
  <1>4. CommitInv'  BY Zenon DEF CommitInv
  <1>5. CountInv'  BY Zenon DEF CountInv
  <1>6. LifeInv'  BY <1>0, Zenon DEF QueueTypes, ThreadTypes, CallerTypes, LifeInv, Joining
  <1>7. CommitOrder'  BY Zenon DEF CommitOrder
  <1> QED  BY <1>1, <1>1t, <1>1c, <1>2, <1>3, <1>4, <1>5, <1>6, <1>7, Zenon

\* Starting the pool, successfully or with a thread that cannot be spawned,
\* preserves the invariant.
LEMMA StartInv ==
  ASSUME IInv, NEW c \in Clients, Start(c)
  PROVE  IInv'
  <1> USE DEF IInv, Start, Goto, queue
  <1>1. QueueTypes'  BY Zenon DEF QueueTypes, ClientPc, WorkerPc
  <1>1t. ThreadTypes'  BY Zenon DEF ThreadTypes, ClientPc, WorkerPc
  <1>1c. CallerTypes'  BY Zenon DEF CallerTypes, ClientPc, WorkerPc
  <1>2. ListInv'  BY Zenon DEF ListInv
  <1>3. ExecInv'  BY Zenon DEF ExecInv, LifeInv
  <1>4. CommitInv'  BY Zenon DEF CommitInv, LifeInv
  <1>5. CountInv'  BY Zenon DEF CountInv
  <1>6. LifeInv'
    <2>1. CASE running
      <3>1. /\ UNCHANGED <<running, stopping, wpc, pending, accepted, last>>
            /\ cpc'[c] \in {"start", "idle"} /\ cpc[c] = "start"
            /\ \A x \in Clients : x # c => cpc'[x] = cpc[x]
        BY <2>1, Zenon DEF CallerTypes
      <3> QED  BY <3>1, Zenon DEF LifeInv, Joining
    <2>2. CASE ~running
      <3>1. PICK S \in SUBSET Workers :
              /\ wpc' = [w \in Workers |-> IF w \in S THEN "loop" ELSE "off"]
              /\ stopping' = (S # Workers)
              /\ cpc' = [cpc EXCEPT ![c] = IF S = Workers THEN "idle"
                                                        ELSE "startjoin"]
        BY <2>2, Zenon
      <3>2. pending = 0 /\ running' = TRUE /\ pending' = pending
        BY <2>2, Zenon DEF LifeInv
      <3>3. \A x \in Clients : ~Joining(x)
        BY <2>2, Zenon DEF LifeInv
      <3> QED  BY <3>1, <3>2, <3>3, Zenon DEF QueueTypes, ThreadTypes, CallerTypes, LifeInv, Joining
    <2> QED  BY <2>1, <2>2, Zenon
  <1>7. CommitOrder'  BY Zenon DEF CommitOrder
  <1> QED  BY <1>1, <1>1t, <1>1c, <1>2, <1>3, <1>4, <1>5, <1>6, <1>7, Zenon

\* A spurious wakeup preserves the invariant.
LEMMA SpuriousWakeInv ==
  ASSUME IInv, SpuriousWake
  PROVE  IInv'
  <1>1. QueueTypes' /\ ThreadTypes' /\ CallerTypes'
    BY WakeOneSubset, Zenon DEF IInv, QueueTypes, ThreadTypes, CallerTypes, SpuriousWake,
       queue
  <1> QED
    BY <1>1, Zenon DEF IInv, SpuriousWake, queue, ListInv, ExecInv, CommitInv, CountInv,
       LifeInv, Joining, CommitOrder

\* Every step of the pool preserves the invariant.
LEMMA NextIInv == IInv /\ [Next]_vars => IInv'
  <1> SUFFICES ASSUME IInv, [Next]_vars PROVE IInv'
    OBVIOUS
  <1>1. CASE UNCHANGED vars
    BY <1>1, Zenon
       DEF IInv, vars, queue, threads, callers, QueueTypes, ThreadTypes, CallerTypes, ListInv, ExecInv,
       CommitInv, CountInv, LifeInv, Joining, CommitOrder
  <1>2. CASE Next
    BY <1>2, TakeTaskInv, FinishTaskInv, CompleteTaskInv, SubmitInv,
       QuietCallInv, ShutdownLockInv, JoinInv, StartInv, SpuriousWakeInv, Zenon
       DEF Next, WorkerStep, CallStep, Entering, Waiting
  <1> QED  BY <1>1, <1>2

\* The inductive invariant holds in every reachable state of the pool.
THEOREM PoolInvariant == Spec => []IInv
  BY InitIInv, NextIInv, PTL DEF Spec

(***************************************************************************)
(* The results.                                                            *)
(***************************************************************************)
\* Every variable of the pool keeps its type; in particular pool->pending
\* never goes negative.
THEOREM PoolTypes == Spec => []TypeOK
  <1>1. IInv => TypeOK  BY DEF IInv, TypeOK
  <1> QED  BY <1>1, PoolInvariant, PTL

\* Completion callbacks run once each, in submission order, however the
\* pooled threads interleave (threadpool_commit_ready).
THEOREM PoolCommitOrder == Spec => []CommitOrder
  <1>1. IInv => CommitOrder  BY DEF IInv
  <1> QED  BY <1>1, PoolInvariant, PTL

\* pool->pending counts the accepted, uncompleted tasks exactly and stays
\* within max_pending.
THEOREM PoolPendingExact == Spec => []PendingExact
  <1>1. IInv => PendingExact  BY DEF IInv, CountInv, PendingExact
  <1> QED  BY <1>1, PoolInvariant, PTL

\* A pool that is not running has completed every task it ever accepted.
THEOREM PoolDrained == Spec => []DrainedWhenStopped
  <1>1. IInv => DrainedWhenStopped
    BY DEF IInv, QueueTypes, ThreadTypes, CallerTypes, LifeInv, CountInv, CommitInv, ListInv, DrainedWhenStopped
  <1> QED  BY <1>1, PoolInvariant, PTL

\* The pool keeps all its promises to those who submit: types, submission order
\* of the callbacks, an exact pending count, and nothing left when stopped.
THEOREM PoolKeepsPromises == Spec => []PoolSafe
  <1>1. TypeOK /\ CommitOrder /\ PendingExact /\ DrainedWhenStopped => PoolSafe
    BY DEF PoolSafe
  <1> QED  BY <1>1, PoolTypes, PoolCommitOrder, PoolPendingExact, PoolDrained, PTL

\* flush and shutdown return only when every task accepted before the call
\* has completed.
THEOREM PoolFlushBarrier == Spec => FlushBarrier
  <1> DEFINE Barrier ==
        \A c \in Clients :
          cpc[c] \in {"flush", "flushing", "shutdown", "stopped", "stopjoin"}
          /\ cpc'[c] = "idle" => accepted[c] <= Len(completed')
  <1>1. ASSUME IInv, IInv', [Next]_vars PROVE [Barrier]_vars
    <2>1. CASE UNCHANGED vars
      BY <2>1, Zenon DEF vars
    <2>2. CASE Next
      <3> SUFFICES ASSUME NEW c \in Clients,
                          cpc[c] \in {"flush", "flushing", "shutdown", "stopped",
                                     "stopjoin"},
                          cpc'[c] = "idle"
                   PROVE  accepted[c] <= Len(completed')
        BY Zenon DEF vars
      <3>1. completed' = completed /\ last' = last /\ accepted' = accepted
        BY <1>1, <2>2, Zenon DEF Next, WorkerStep, TakeTask, FinishTask, CompleteTask,
           Submit, FlushCall, ShutdownCall, StartCall, Call, CallStep, Start,
           CheckRunning, FlushWait, ShutdownWait, WaitWhile, ShutdownLock, Join,
           Goto, SpuriousWake, callers, queue, threads, IInv, CallerTypes
      <3>2. ~running' \/ (pending = 0 /\ pending' = pending)
        <4>1. CASE \E x \in Clients : Join(x)
          BY <4>1, Zenon DEF Join
        <4>2. CASE CheckRunning(c, "flush", "flushing")
                     \/ CheckRunning(c, "shutdown", "stop")
          BY <1>1, <4>2, Zenon DEF CheckRunning, Goto, IInv, CallerTypes
        <4>3. CASE FlushWait(c)
          BY <1>1, <4>3 DEF FlushWait, WaitWhile, Unfinished, queue, IInv, QueueTypes
        <4>4. CASE ShutdownWait(c)
          BY <1>1, <4>4, Zenon DEF ShutdownWait, WaitWhile
        <4>5. CASE SpuriousWake \/ \E w \in Workers : WorkerStep(w)
          <5>1. cpc' = cpc
            BY <4>5, Zenon DEF SpuriousWake, WorkerStep, TakeTask, FinishTask,
               CompleteTask, callers
          <5> QED  BY <5>1
        <4>6. CASE \E x \in Clients : Submit(x) \/ FlushCall(x)
                                       \/ ShutdownCall(x) \/ StartCall(x)
          <5>1. cpc'[c] = cpc[c] \/ cpc[c] = "idle"
            BY <1>1, <4>6, Zenon DEF Submit, FlushCall, ShutdownCall, StartCall, Call,
               callers, IInv, CallerTypes
          <5> QED  BY <5>1, Zenon
        <4>7. CASE \E x \in Clients : CallStep(x) /\ ~Join(x)
          <5> PICK x \in Clients : CallStep(x) /\ ~Join(x)
            BY <4>7, Zenon
          <5>1. x = c
            BY <1>1, Zenon DEF CallStep, CheckRunning, FlushWait, ShutdownWait,
               WaitWhile, ShutdownLock, Start, Goto, IInv, CallerTypes
          <5>2. ~ShutdownLock(c) /\ ~Start(c)
            BY <1>1, Zenon DEF ShutdownLock, Start, Goto, IInv, CallerTypes
          <5> QED  BY <4>2, <4>3, <4>4, <5>1, <5>2, Zenon DEF CallStep
        <4> QED  BY <2>2, <4>1, <4>5, <4>6, <4>7, Zenon DEF Next
      <3>3. pending' = 0 /\ accepted'[c] <= last'
        BY <1>1, <3>1, <3>2, Zenon DEF IInv, LifeInv
      <3>4. pending' = last' - Len(completed') /\ Len(completed') \in Nat /\ last' \in Nat
        BY <1>1 DEF IInv, CountInv, QueueTypes
      <3> QED  BY <3>1, <3>3, <3>4
    <2> QED  BY <1>1, <2>1, <2>2, Zenon
  <1> QED  BY <1>1, PoolInvariant, PTL DEF Spec, FlushBarrier
=============================================================================
