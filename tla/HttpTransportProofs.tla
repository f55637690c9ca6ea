------------------------- MODULE HttpTransportProofs -------------------------
(***************************************************************************)
(* Proofs about HttpTransport: for every set of envelopes, every number of *)
(* attempts and of starts, no envelope whose sending call returned is lost *)
(* outside the window between sealing the store and dumping the queue, and,*)
(* unless a trigger overtakes the startup poll, no retry file waits        *)
(* without a poll.                                                         *)
(*                                                                         *)
(* The invariant has three parts.  TypeInv types the threads' program      *)
(* counters as well.  CoverInv says where an envelope is while it moves:   *)
(* what leaves the queue before its dump is on disk, settled or refused by *)
(* the sealed store when it is popped, what leaves it later was dumped, and*)
(* what a crash finds in the queue was dumped or is in the hands of the    *)
(* call that rechecks.  PollInv ties `scheduled` to the one delayed or     *)
(* queued poll, not counting the poll that is being executed.              *)
(***************************************************************************)
EXTENDS HttpTransport, FiniteSetTheorems, TLAPS

(***************************************************************************)
(* The inductive invariant.                                                *)
(***************************************************************************)
Tasks == ({"send"} \X Envelopes) \cup ({"poll", "flush", "trigger"} \X {None})
Files == [env : Envelopes, count : 0 .. Attempts - 1, era : {"old", "new"}]
Sending == {"http", "enqueue", "arm"}

TypeInv ==
  /\ queue \in Seq(Tasks) /\ delayed \in Nat
  /\ wpc \in {"idle", "http", "enqueue", "arm", "pop", "retry", "exited"}
  /\ wpc \in Sending => task \in {"send"} \X Envelopes
  /\ wpc = "retry" => task \in {"poll", "flush", "trigger"} \X {None}
  /\ wpc = "pop" => task \in Tasks
  /\ retryState \in {"STARTUP", "RUNNING", "SEALED"}
  /\ scheduled \in {"IDLE", "SCHEDULED", "SHUTDOWN"}
  /\ shuttingDown \in BOOLEAN /\ suspended \in BOOLEAN
  /\ files \subseteq Files /\ todo \subseteq files
  /\ cached \subseteq Envelopes /\ run \subseteq Envelopes /\ oldRun \subseteq Envelopes
  /\ unsent \subseteq Envelopes /\ settled \subseteq Envelopes /\ refused \subseteq Envelopes
  /\ spc \in {"idle", "submit", "recheck"}
  /\ spc # "idle" => senv \in Envelopes

\* The files are finitely many, and `total` counts at least those still to be sent.
CountInv ==
  /\ IsFiniteSet(files) /\ total \in Nat
  /\ wpc # "retry" => todo = {}
  /\ Cardinality(todo) <= total

\* Envelopes that need the queue no more, or were refused in the window of a close.
Safe == settled \cup refused \cup cached \cup run \cup {f.env : f \in files}
Covered == Safe \cup (IF Alive THEN Dumped ELSE {})
Submitting(e) == spc = "submit" /\ e = senv
Rechecking(e) == spc = "recheck" /\ e = senv

CoverInv ==
  /\ suspended = (cpc # "none")
  /\ mpc = "remove" => senv \in oldRun
  /\ \A e \in Envelopes \ unsent : e \in Covered \/ e \in oldRun \/ Submitting(e)
  /\ mpc = "remove" /\ spc # "submit" => senv \in Covered
  /\ cpc = "dying" => \A e \in Dumped : e \in Safe \/ Rechecking(e)
  /\ Alive /\ wpc \in {"arm", "pop"} /\ task[1] = "send" => task[2] \in Safe

\* While the SDK runs: the worker and the retry store are open, and a task of
\* the retry store stays at the head of the queue while it is executed.
Up == mpc \in {"old", "remove", "up"}
Executing(kind) == wpc \in {"retry", "pop"} /\ task[1] = kind
OpenInv ==
  /\ wpc # "exited" /\ retryState # "SEALED" /\ scheduled # "SHUTDOWN"
  /\ wpc \in {"retry", "pop"} /\ task[1] # "send" => queue # <<>> /\ queue[1] = task

\* `scheduled` tells whether there is a poll, not counting the one in the
\* worker's hands; there is never a second one.
Waiting == {i \in 1 .. Len(queue) : queue[i][1] = "poll" /\ (Executing("poll") => i # 1)}
OnePollInv ==
  /\ delayed <= 1
  /\ \A i, j \in Waiting : i = j
  /\ delayed = 1 => Waiting = {}
  /\ scheduled = "SCHEDULED" <=> (delayed = 1 \/ Waiting # {})

\* Where files wait there is a poll, but for the moments when the worker is
\* about to schedule one: a poll that leaves files counts them in `total`.
Polling == wpc = "retry" /\ task[1] = "poll"
FilesInv ==
  /\ ~Polling /\ wpc # "arm" /\ files # {} => scheduled = "SCHEDULED"
  /\ Polling => (todo = {} /\ total >= 1) \/ Cardinality(files) <= total

\* Until the startup poll, which takes the old files only, there are no others;
\* a trigger does not come before it.
StartupInv ==
  /\ \A i \in 1 .. Len(queue) : /\ queue[i][1] # "flush"
                                /\ queue[i][1] = "trigger" => retryState # "STARTUP"
  /\ retryState = "STARTUP" /\ ~Polling => \A f \in files : f.era = "old"

PollInv == Up => OpenInv /\ OnePollInv /\ FilesInv /\ StartupInv

IInv == TypeInv /\ CountInv /\ CoverInv /\ (~EarlyTrigger => PollInv)

(***************************************************************************)
(* The queue.                                                              *)
(***************************************************************************)
\* What a task is: an envelope to send, or one of the retry store's tasks.
LEMMA TaskShape ==
  /\ \A e \in Envelopes : <<"send", e>> \in Tasks
  /\ \A k \in {"poll", "flush", "trigger"} : <<k, None>> \in Tasks
  /\ \A t \in Tasks : \/ t[1] = "send" /\ t \in {"send"} \X Envelopes /\ t[2] \in Envelopes
                      \/ /\ t[1] \in {"poll", "flush", "trigger"} /\ t[1] # "send"
                         /\ t \in {"poll", "flush", "trigger"} \X {None}
BY DEF Tasks

\* What a position of the queue holds.
LEMMA QueueShape ==
  ASSUME queue \in Seq(Tasks)
  PROVE  /\ Len(queue) \in Nat
         /\ \A i \in 1 .. Len(queue) : queue[i] \in Tasks
         /\ queue # <<>> => 1 \in 1 .. Len(queue) /\ Head(queue) = queue[1]
OBVIOUS

\* The envelopes of the queue, position by position.
LEMMA DumpedAt ==
  \A e : e \in Dumped <=> \E i \in 1 .. Len(queue) : queue[i][1] = "send" /\ queue[i][2] = e
BY Zenon DEF Dumped

\* The places that sentry__bgworker_foreach_matching keeps are numbered from 1
\* on, without gaps, in the order of the queue.
LEMMA RankNumbers ==
  ASSUME queue \in Seq(Tasks), NEW kind
  PROVE  /\ Cardinality(Rest(kind)) \in Nat
         /\ \A i \in Rest(kind) : Rank(kind, i) \in 1 .. Cardinality(Rest(kind))
         /\ \A i, j \in Rest(kind) : Rank(kind, i) = Rank(kind, j) => i = j
         /\ \A n \in 1 .. Cardinality(Rest(kind)) : \E i \in Rest(kind) : Rank(kind, i) = n
         /\ 1 \in Rest(kind) => Rank(kind, 1) = 1
<1> DEFINE R == Rest(kind)
           Below(i) == {j \in R : j <= i}
           N == Cardinality(R)
           rank == [i \in R |-> Cardinality(Below(i))]
<1>1. R \subseteq 1 .. Len(queue) /\ Len(queue) \in Nat
  BY QueueShape, Zenon DEF Rest
<1>2. IsFiniteSet(1 .. Len(queue))
  BY <1>1, FS_Interval
<1>3. IsFiniteSet(R) /\ N \in Nat
  BY <1>1, <1>2, FS_Subset, FS_CardinalityType
<1>4. \A i \in R :
        IsFiniteSet(Below(i)) /\ Cardinality(Below(i)) \in Nat /\ Cardinality(Below(i)) <= N
  BY <1>3, FS_Subset, FS_CardinalityType
<1>5. \A i \in R : i \in Int /\ i >= 1 /\ i \in Below(i)
  BY <1>1
<1>6. \A i \in R : Cardinality(Below(i)) # 0
  BY <1>4, <1>5, FS_EmptySet, Zenon
<1>7. \A i \in R : Cardinality(Below(i)) \in 1 .. N
  <2> HIDE DEF R, N, Below
  <2> QED
    BY <1>3, <1>4, <1>6
<1>8. \A i, j \in R : i < j => Cardinality(Below(i)) # Cardinality(Below(j))
  <2> SUFFICES ASSUME NEW i \in R, NEW j \in R, i < j, Cardinality(Below(i)) = Cardinality(Below(j))
               PROVE  FALSE
    OBVIOUS
  <2>1. Below(i) \in SUBSET Below(j)
    BY <1>5
  <2>2. j \in Below(j) /\ j \notin Below(i)
    BY <1>5
  <2> QED
    BY <2>1, <2>2, <1>4, FS_Subset, Zenon
<1>9. \A i, j \in R : Cardinality(Below(i)) = Cardinality(Below(j)) => i = j
  <2> SUFFICES ASSUME NEW i \in R, NEW j \in R, Cardinality(Below(i)) = Cardinality(Below(j))
               PROVE  i = j
    OBVIOUS
  <2>1. ~(i < j) /\ ~(j < i)
    BY <1>8, Zenon
  <2> HIDE DEF Below, R
  <2> QED
    BY <2>1, <1>5
<1>10. rank \in Injection(R, 1 .. N)
  <2>1. rank \in [R -> 1 .. N]
    BY <1>7, Zenon
  <2>2. \A i, j \in R : rank[i] = rank[j] => i = j
    BY <1>9, Zenon
  <2> QED
    BY <2>1, <2>2, Zenon DEF Injection, IsInjective
<1>11. IsFiniteSet(1 .. N) /\ Cardinality(1 .. N) = N
  BY <1>3, FS_Interval
<1>12. rank \in Surjection(R, 1 .. N)
  BY <1>10, <1>11, FS_Injection, Zenon
<1>13. \A n \in 1 .. N : \E i \in R : Cardinality(Below(i)) = n
  BY <1>12, Zenon DEF Surjection
<1>14. 1 \in R => Cardinality(Below(1)) = 1
  <2> SUFFICES ASSUME 1 \in R PROVE Cardinality(Below(1)) = 1
    OBVIOUS
  <2>1. Below(1) = {1}
    BY <1>5
  <2> QED
    BY <2>1, FS_Singleton, Zenon
<1>15. \A i \in R : Rank(kind, i) = Cardinality(Below(i))
  BY Zenon DEF Rank
<1>16. 1 \in R => Rank(kind, 1) = 1
  BY <1>14, <1>15, Zenon
<1> HIDE DEF Below
<1>17. \A i \in R : Rank(kind, i) \in 1 .. N
  BY <1>7, <1>15, Zenon
<1>18. \A i, j \in R : Rank(kind, i) = Rank(kind, j) => i = j
  BY <1>9, <1>15, Zenon
<1>19. \A n \in 1 .. N : \E i \in R : Rank(kind, i) = n
  BY <1>13, <1>15, Zenon
<1> QED
  BY <1>3, <1>16, <1>17, <1>18, <1>19, Zenon

\* What sentry__bgworker_foreach_matching leaves: every other task, once, and
\* the first one first.
Picks(q, rest, src) ==
  /\ \A n \in 1 .. Len(q) : src[n] \in rest /\ q[n] = queue[src[n]]
  /\ \A m, n \in 1 .. Len(q) : src[m] = src[n] => m = n
  /\ \A i \in rest : \E n \in 1 .. Len(q) : src[n] = i
  /\ 1 \in rest => 1 \in 1 .. Len(q) /\ src[1] = 1

\* Without picks the tasks of the other kinds.
LEMMA WithoutShape ==
  ASSUME queue \in Seq(Tasks), NEW kind
  PROVE  /\ Without(kind) \in Seq(Tasks)
         /\ \E src : Picks(Without(kind), Rest(kind), src)
<1> DEFINE R == Rest(kind)
           N == Cardinality(R)
           At(n) == CHOOSE i \in R : Rank(kind, i) = n
           src == [n \in 1 .. N |-> At(n)]
<1>1. N \in Nat
  BY RankNumbers, Zenon
<1>2. \A n \in 1 .. N : At(n) \in R /\ Rank(kind, At(n)) = n
  BY RankNumbers, Zenon
<1>3. \A i \in R : Rank(kind, i) \in 1 .. N /\ At(Rank(kind, i)) = i
  BY RankNumbers, <1>2, Zenon
<1>4. 1 \in R => 1 \in 1 .. N /\ At(1) = 1
  BY RankNumbers, <1>3, ZenonT(60)
<1>5. \A i \in R : queue[i] \in Tasks
  BY QueueShape, Zenon DEF Rest
<1> HIDE DEF R, N, At
<1>6. Without(kind) = [n \in 1 .. N |-> queue[At(n)]]
  BY Zenon DEF Without, R, N, At
<1>7. Without(kind) \in Seq(Tasks) /\ Len(Without(kind)) = N
  <2> DEFINE w == [n \in 1 .. N |-> queue[At(n)]]
  <2>1. w \in [1 .. N -> Tasks]
    BY <1>2, <1>5, Zenon
  <2>2. w \in Seq(Tasks) /\ Len(w) = N
    <3> HIDE DEF w
    <3>1. DOMAIN w = 1 .. N
      BY <2>1, Zenon
    <3>2. w \in Seq(Tasks)
      BY <2>1, <1>1, SMT
    <3> QED
      BY <3>1, <3>2, <1>1
  <2> QED
    BY <1>6, <2>2, Zenon
<1>8. src \in [1 .. N -> R]
  BY <1>2, Zenon
<1>9. \A n \in 1 .. N : src[n] = At(n) /\ Without(kind)[n] = queue[src[n]]
  BY <1>6, Zenon
<1> HIDE DEF src
<1>10. \A m, n \in 1 .. N : src[m] = src[n] => m = n
  BY <1>9, <1>2, Zenon
<1>11. \A i \in R : \E n \in 1 .. N : src[n] = i
  BY <1>3, <1>9, Zenon
<1>12. 1 \in R => 1 \in 1 .. N /\ src[1] = 1
  BY <1>4, <1>9, Zenon
<1>13. Picks(Without(kind), R, src)
  BY <1>7, <1>8, <1>9, <1>10, <1>11, <1>12, Zenon DEF Picks
<1> QED
  BY <1>7, <1>13, Zenon DEF R

\* A task appended, and the tasks of a kind removed, leave a queue of tasks.
LEMMA QueueTyped ==
  ASSUME queue \in Seq(Tasks)
  PROVE  /\ \A t \in Tasks : Append(queue, t) \in Seq(Tasks)
         /\ queue # <<>> => Tail(queue) \in Seq(Tasks)
         /\ <<>> \in Seq(Tasks)
         /\ \A kind : Without(kind) \in Seq(Tasks)
<1>1. \A kind : Without(kind) \in Seq(Tasks)
  BY WithoutShape, Zenon
<1>2. /\ \A t \in Tasks : Append(queue, t) \in Seq(Tasks)
      /\ queue # <<>> => Tail(queue) \in Seq(Tasks)
      /\ <<>> \in Seq(Tasks)
  OBVIOUS
<1> QED
  BY <1>1, <1>2, Zenon

\* The envelopes to send that the queue holds are envelopes.
LEMMA DumpedTyped ==
  ASSUME queue \in Seq(Tasks)
  PROVE  Dumped \subseteq Envelopes
<1> SUFFICES ASSUME NEW e \in Dumped PROVE e \in Envelopes
  BY Zenon
<1>1. PICK i \in 1 .. Len(queue) : queue[i][1] = "send" /\ queue[i][2] = e
  BY DumpedAt, Zenon
<1>2. queue[i] \in Tasks
  BY QueueShape, Zenon
<1> QED
  BY <1>1, <1>2, TaskShape, Zenon

(***************************************************************************)
(* Every step keeps the types.                                             *)
(***************************************************************************)
\* Steps that touch only the queue, the delayed polls and the run directory.
LEMMA TypeFrame ==
  ASSUME TypeInv, queue' \in Seq(Tasks), delayed' \in Nat, run' \subseteq Envelopes,
         UNCHANGED <<wpc, task, todo, retryState, scheduled, shuttingDown, suspended>>,
         UNCHANGED <<spc, senv, unsent, files, cached, oldRun, settled, refused>>
  PROVE  TypeInv'
BY ZenonT(60) DEF TypeInv

\* The steps of the application's threads keep the types.
LEMMA SenderTypes ==
  ASSUME TypeInv
  PROVE  /\ \A e \in Envelopes : SendEnvelope(e) => TypeInv'
         /\ SendSubmit => TypeInv'
         /\ SendRecheck => TypeInv'
         /\ PollDue => TypeInv'
         /\ RetryTrigger => TypeInv'
<1>1. ASSUME NEW e \in Envelopes, SendEnvelope(e) PROVE TypeInv'
  BY <1>1, Zenon DEF TypeInv, SendEnvelope, SendBegin, worker, retry
<1>2. ASSUME SendSubmit PROVE TypeInv'
  <2>1. senv \in Envelopes
    BY <1>2, Zenon DEF TypeInv, SendSubmit
  <2>2. queue' \in Seq(Tasks)
    BY <1>2, <2>1, QueueTyped, TaskShape, Zenon DEF TypeInv, SendSubmit
  <2>3. settled' \subseteq Envelopes
    BY <1>2, <2>1, Zenon DEF TypeInv, SendSubmit
  <2> QED
    BY <1>2, <2>1, <2>2, <2>3, Zenon DEF TypeInv, SendSubmit, worker, retry, disk
<1>3. ASSUME SendRecheck PROVE TypeInv'
  <2>1. queue' \in Seq(Tasks) /\ run' \subseteq Envelopes
    BY <1>3, QueueTyped, DumpedTyped, Zenon DEF TypeInv, SendRecheck, DumpQueue
  <2> QED
    BY <1>3, <2>1, ZenonT(60) DEF TypeInv, SendRecheck, worker, retry
<1>4. ASSUME PollDue PROVE TypeInv'
  <2>1. queue' \in Seq(Tasks)
    BY <1>4, QueueTyped, TaskShape, Zenon DEF TypeInv, PollDue
  <2>2. delayed' \in Nat
    BY <1>4 DEF TypeInv, PollDue
  <2>3. /\ UNCHANGED <<wpc, task, todo, retryState, scheduled, shuttingDown, suspended>>
        /\ UNCHANGED <<spc, senv, unsent, files, cached, oldRun, settled, refused>>
    BY <1>4, Zenon DEF PollDue, worker, retry, sender, disk
  <2>4. run' \subseteq Envelopes
    BY <1>4, Zenon DEF PollDue, TypeInv, disk
  <2> QED
    BY <2>1, <2>2, <2>3, <2>4, TypeFrame, Zenon
<1>5. ASSUME RetryTrigger PROVE TypeInv'
  <2>1. queue' \in Seq(Tasks)
    BY <1>5, QueueTyped, TaskShape, Zenon DEF TypeInv, RetryTrigger
  <2>2. /\ UNCHANGED <<wpc, task, todo, retryState, scheduled, shuttingDown, suspended>>
        /\ UNCHANGED <<spc, senv, unsent, files, cached, oldRun, settled, refused>>
    BY <1>5, Zenon DEF RetryTrigger, worker, retry, sender, disk
  <2>3. run' \subseteq Envelopes /\ delayed' \in Nat
    BY <1>5, Zenon DEF RetryTrigger, TypeInv, disk
  <2> QED
    BY <2>1, <2>2, <2>3, TypeFrame, Zenon
<1> QED
  BY <1>1, <1>2, <1>3, <1>4, <1>5, Zenon

\* The worker's steps that send an envelope keep the types.
LEMMA SendingTypes ==
  ASSUME TypeInv
  PROVE  /\ TakeSend => TypeInv'
         /\ HttpResponse => TypeInv'
         /\ HttpFailure => TypeInv'
         /\ RetryEnqueue => TypeInv'
         /\ RetryArm => TypeInv'
         /\ PopTask => TypeInv'
<1>1. ASSUME TakeSend PROVE TypeInv'
  <2>1. task' \in {"send"} \X Envelopes /\ wpc' = "http"
    BY <1>1, QueueShape, TaskShape, Zenon DEF TypeInv, TakeSend
  <2> QED
    BY <1>1, <2>1, Zenon DEF TypeInv, TakeSend, retry, disk, sender
<1>2. ASSUME wpc \in Sending PROVE task \in Tasks /\ task[2] \in Envelopes
  <2>1. task \in {"send"} \X Envelopes
    BY <1>2, Zenon DEF TypeInv
  <2> QED
    BY <2>1 DEF Tasks
<1>3. ASSUME HttpResponse PROVE TypeInv'
  <2>1. task \in Tasks /\ task[2] \in Envelopes
    BY <1>2, <1>3, Zenon DEF HttpResponse, Sending
  <2>2. cached' \subseteq Envelopes /\ settled' \subseteq Envelopes
    BY <1>3, <2>1, Zenon DEF TypeInv, HttpResponse, Kept
  <2> QED
    BY <1>3, <2>1, <2>2, Zenon DEF TypeInv, HttpResponse, Sending, retry, sender
<1>4. ASSUME HttpFailure PROVE TypeInv'
  <2>1. task \in Tasks /\ task[2] \in Envelopes /\ task \in {"send"} \X Envelopes
    BY <1>2, <1>4, Zenon DEF HttpFailure, Sending, TypeInv
  <2>2. run' \subseteq Envelopes
    BY <1>4, <2>1, Zenon DEF TypeInv, HttpFailure
  <2> QED
    BY <1>4, <2>1, <2>2, Zenon DEF TypeInv, HttpFailure, Sending, retry, sender
<1>5. ASSUME RetryEnqueue PROVE TypeInv'
  <2>1. task \in Tasks /\ task[2] \in Envelopes /\ task \in {"send"} \X Envelopes
    BY <1>2, <1>5, Zenon DEF RetryEnqueue, Sending, TypeInv
  <2>2. RetryFile(task[2], 0) \in Files
    BY <2>1, TransportAssumption DEF RetryFile, Files
  <2>3. /\ files' \subseteq Files /\ todo' \subseteq files'
        /\ settled' \subseteq Envelopes /\ refused' \subseteq Envelopes
    BY <1>5, <2>1, <2>2, Zenon DEF TypeInv, RetryEnqueue
  <2>4. retryState' \in {"STARTUP", "RUNNING", "SEALED"} /\ wpc' \in {"arm", "pop"}
    BY <1>5, Zenon DEF TypeInv, RetryEnqueue
  <2> QED
    BY <1>5, <2>1, <2>3, <2>4, Zenon DEF TypeInv, RetryEnqueue, Sending, sender
<1>6. ASSUME RetryArm PROVE TypeInv'
  <2>1. task \in Tasks
    BY <1>2, <1>6, Zenon DEF RetryArm, Sending
  <2>2. delayed' \in Nat /\ scheduled' \in {"IDLE", "SCHEDULED", "SHUTDOWN"}
    BY <1>6 DEF TypeInv, RetryArm, Arm
  <2> QED
    BY <1>6, <2>1, <2>2, Zenon DEF TypeInv, RetryArm, Sending, sender, disk
<1>7. ASSUME PopTask PROVE TypeInv'
  <2>1. queue' \in Seq(Tasks)
    BY <1>7, QueueTyped, Zenon DEF TypeInv, PopTask
  <2> QED
    BY <1>7, <2>1, Zenon DEF TypeInv, PopTask, Sending, sender, disk, retry
<1> QED
  BY <1>1, <1>3, <1>4, <1>5, <1>6, <1>7, Zenon

\* The worker's steps for the retry store keep the types.
LEMMA RetryTypes ==
  ASSUME TypeInv
  PROVE  /\ \A ripe : TakeRetry(ripe) => TypeInv'
         /\ TakeRetrySkip => TypeInv'
         /\ \A f \in files : RetryResponse(f) => TypeInv'
         /\ \A f \in files : RetryFailure(f) => TypeInv'
         /\ RetryDone => TypeInv'
         /\ WorkerExit => TypeInv'
<1>1. ASSUME queue # <<>>, Head(queue)[1] # "send"
      PROVE  Head(queue) \in {"poll", "flush", "trigger"} \X {None}
  BY <1>1, QueueShape, TaskShape, Zenon DEF TypeInv
<1>2. Polled \in {"IDLE", "SCHEDULED", "SHUTDOWN"}
  BY Zenon DEF TypeInv, Polled
<1>3. ASSUME NEW ripe, TakeRetry(ripe) PROVE TypeInv'
  <2>1. task' \in {"poll", "flush", "trigger"} \X {None} /\ wpc' = "retry"
    BY <1>1, <1>3, Zenon DEF TakeRetry
  <2>2. todo' \subseteq files
    BY <1>3, Zenon DEF TakeRetry, Considered
  <2>3. scheduled' \in {"IDLE", "SCHEDULED", "SHUTDOWN"}
    BY <1>2, <1>3, Zenon DEF TakeRetry, TypeInv
  <2> QED
    BY <1>3, <2>1, <2>2, <2>3, Zenon DEF TypeInv, TakeRetry, Sending, sender, disk
<1>4. ASSUME TakeRetrySkip PROVE TypeInv'
  <2>1. task' \in {"poll", "flush", "trigger"} \X {None} /\ wpc' = "retry"
    BY <1>1, <1>4, Zenon DEF TakeRetrySkip
  <2>2. scheduled' \in {"IDLE", "SCHEDULED", "SHUTDOWN"}
    BY <1>2, <1>4, Zenon DEF TakeRetrySkip, TypeInv
  <2> QED
    BY <1>4, <2>1, <2>2, Zenon DEF TypeInv, TakeRetrySkip, Sending, sender, disk
<1>5. ASSUME NEW f \in files
      PROVE  f \in Files /\ f.env \in Envelopes /\ f.count \in 0 .. Attempts - 1
  BY DEF TypeInv, Files
<1>6. ASSUME NEW f \in files, RetryResponse(f) PROVE TypeInv'
  <2>1. /\ files' \subseteq Files /\ todo' \subseteq files'
        /\ cached' \subseteq Envelopes /\ settled' \subseteq Envelopes
    BY <1>5, <1>6, Zenon DEF TypeInv, RetryResponse, Kept
  <2> QED
    BY <1>6, <2>1, Zenon DEF TypeInv, RetryResponse, Sending, sender, retry
<1>7. ASSUME NEW f \in files, RetryFailure(f) PROVE TypeInv'
  <2>1. ~Exhausted(f) => RetryFile(f.env, f.count + 1) \in Files
    BY <1>5, TransportAssumption DEF Exhausted, RetryFile, Files
  <2>2. /\ files' \subseteq Files /\ todo' \subseteq files'
        /\ cached' \subseteq Envelopes /\ settled' \subseteq Envelopes
    BY <1>5, <1>7, <2>1, Zenon DEF TypeInv, RetryFailure
  <2> QED
    BY <1>7, <2>2, Zenon DEF TypeInv, RetryFailure, Sending, sender, retry
<1>8. ASSUME RetryDone PROVE TypeInv'
  <2>1. task \in Tasks
    BY <1>8, TaskShape DEF TypeInv, RetryDone, Tasks
  <2>2. /\ delayed' \in Nat /\ scheduled' \in {"IDLE", "SCHEDULED", "SHUTDOWN"}
        /\ retryState' \in {"STARTUP", "RUNNING", "SEALED"}
    BY <1>8 DEF TypeInv, RetryDone, Arm, retry
  <2> QED
    BY <1>8, <2>1, <2>2, Zenon DEF TypeInv, RetryDone, Sending, sender, disk
<1>9. ASSUME WorkerExit PROVE TypeInv'
  BY <1>9, Zenon DEF TypeInv, WorkerExit, Sending, sender, disk, retry
<1> QED
  BY <1>3, <1>4, <1>6, <1>7, <1>8, <1>9, Zenon

\* The steps of closing, crashing and starting keep the types.
LEMMA ProcessTypes ==
  ASSUME TypeInv
  PROVE  /\ ShutdownBegin => TypeInv'
         /\ CloseStep => TypeInv'
         /\ CrashSuspend => TypeInv'
         /\ CrashStep => TypeInv'
         /\ Restart => TypeInv'
         /\ StartStep => TypeInv'
<1>1. ASSUME ShutdownBegin PROVE TypeInv'
  <2>1. queue' \in Seq(Tasks) /\ delayed' \in Nat
    BY <1>1, QueueTyped DEF TypeInv, ShutdownBegin
  <2> QED
    BY <1>1, <2>1, ZenonT(60) DEF TypeInv, ShutdownBegin, worker, retry, sender, disk
<1>2. ASSUME CloseStep PROVE TypeInv'
  <2>1. CASE RetryShutdown
    <3>1. queue' \in Seq(Tasks)
      BY <2>1, QueueTyped, TaskShape, Zenon DEF TypeInv, RetryShutdown
    <3> QED
      BY <2>1, <3>1, ZenonT(60) DEF TypeInv, RetryShutdown, worker, sender, disk
  <2>2. CASE ShutdownJoin \/ ShutdownTimeout
    BY <2>2, Zenon DEF TypeInv, ShutdownJoin, ShutdownTimeout, worker, retry, sender, disk
  <2>3. CASE RetrySeal
    BY <2>3, ZenonT(60) DEF TypeInv, RetrySeal, worker, sender, disk
  <2>4. CASE CloseDump
    <3>1. queue' \in Seq(Tasks) /\ run' \subseteq Envelopes
      BY <2>4, QueueTyped, DumpedTyped, Zenon DEF TypeInv, CloseDump, DumpQueue
    <3>2. /\ UNCHANGED <<wpc, task, todo, retryState, scheduled, shuttingDown, suspended>>
          /\ UNCHANGED <<spc, senv, unsent, files, cached, oldRun, settled, refused>>
      BY <2>4, Zenon DEF CloseDump, worker, retry, sender
    <3>3. delayed' \in Nat
      BY <2>4, Zenon DEF CloseDump, TypeInv, disk
    <3> QED
      BY <3>1, <3>2, <3>3, TypeFrame, Zenon
  <2> QED
    BY <1>2, <2>1, <2>2, <2>3, <2>4, Zenon DEF CloseStep
<1>3. ASSUME CrashSuspend PROVE TypeInv'
  BY <1>3, ZenonT(60) DEF TypeInv, CrashSuspend, worker, retry, sender, disk
<1>4. CutShort \subseteq Envelopes
  BY Zenon DEF TypeInv, CutShort
<1>5. ASSUME CrashStep PROVE TypeInv'
  <2>1. CASE CrashDump
    <3>1. queue' \in Seq(Tasks) /\ run' \subseteq Envelopes
      BY <2>1, QueueTyped, DumpedTyped, Zenon DEF TypeInv, CrashDump, DumpQueue
    <3>2. /\ UNCHANGED <<wpc, task, todo, retryState, scheduled, shuttingDown, suspended>>
          /\ UNCHANGED <<spc, senv, unsent, files, cached, oldRun, settled, refused>>
      BY <2>1, Zenon DEF CrashDump, worker, retry, sender
    <3>3. delayed' \in Nat
      BY <2>1, Zenon DEF CrashDump, TypeInv, disk
    <3> QED
      BY <3>1, <3>2, <3>3, TypeFrame, Zenon
  <2>2. CASE Die
    <3>1. queue' \in Seq(Tasks) /\ delayed' \in Nat
      BY <2>2, QueueTyped DEF TypeInv, Die
    <3>2. settled' \subseteq Envelopes
      BY <1>4, <2>2, Zenon DEF TypeInv, Die
    <3> QED
      BY <2>2, <3>1, <3>2, Zenon DEF TypeInv, Die, Sending, disk
  <2> QED
    BY <1>5, <2>1, <2>2, Zenon DEF CrashStep
<1>6. ASSUME Restart PROVE TypeInv'
  <2>1. queue' \in Seq(Tasks) /\ delayed' \in Nat
    BY <1>6, QueueTyped DEF TypeInv, Restart
  <2>2. settled' \subseteq Envelopes /\ oldRun' \subseteq Envelopes /\ run' \subseteq Envelopes
    BY <1>4, <1>6, Zenon DEF TypeInv, Restart
  <2>3. files' \subseteq Files
    BY <1>6 DEF TypeInv, Restart, Files
  <2> QED
    BY <1>6, <2>1, <2>2, <2>3, Zenon DEF TypeInv, Restart, Sending
<1>7. ASSUME StartStep PROVE TypeInv'
  <2>1. CASE \E e \in Envelopes : ProcessOldRun(e)
    BY <2>1, Zenon DEF TypeInv, ProcessOldRun, SendBegin, worker, retry
  <2>2. CASE RemoveOldRun
    BY <2>2, Zenon DEF TypeInv, RemoveOldRun, worker, retry
  <2>3. CASE OldRunsDone
    <3>1. /\ UNCHANGED <<wpc, task, todo, retryState, scheduled, shuttingDown, suspended>>
          /\ UNCHANGED <<spc, senv, unsent, files, cached, oldRun, settled, refused>>
      BY <2>3, Zenon DEF OldRunsDone, worker, retry, sender, disk
    <3>2. queue' \in Seq(Tasks) /\ delayed' \in Nat /\ run' \subseteq Envelopes
      BY <2>3, Zenon DEF OldRunsDone, TypeInv, disk
    <3> QED
      BY <3>1, <3>2, TypeFrame, Zenon
  <2> QED
    BY <1>7, <2>1, <2>2, <2>3, Zenon DEF StartStep
<1> QED
  BY <1>1, <1>2, <1>3, <1>5, <1>6, <1>7, Zenon

\* Every step keeps the types.
LEMMA TypeStep == TypeInv /\ [Next]_vars => TypeInv'
<1> SUFFICES ASSUME TypeInv, [Next]_vars PROVE TypeInv'
  OBVIOUS
<1>1. CASE UNCHANGED vars
  <2>1. /\ UNCHANGED <<wpc, task, todo, retryState, scheduled, shuttingDown, suspended>>
        /\ UNCHANGED <<spc, senv, unsent, files, cached, oldRun, settled, refused>>
    BY <1>1, Zenon DEF vars, worker, retry, sender, disk
  <2>2. queue' \in Seq(Tasks) /\ delayed' \in Nat /\ run' \subseteq Envelopes
    BY <1>1, Zenon DEF vars, TypeInv, disk
  <2> QED
    BY <2>1, <2>2, TypeFrame, Zenon
<1>2. CASE WorkerStep
  BY <1>2, SendingTypes, RetryTypes, Zenon DEF WorkerStep
<1> QED
  BY <1>1, <1>2, SenderTypes, ProcessTypes, Zenon DEF Next

(***************************************************************************)
(* `total` counts at least the files still to be sent.                     *)
(***************************************************************************)
\* Removing a file and adding one keeps the files finite, and does not make
\* them more; the files still to be sent are among them.
LEMMA FileCounts ==
  ASSUME IsFiniteSet(files), todo \subseteq files, NEW f \in files
  PROVE  /\ Cardinality(files) \in Nat /\ Cardinality(files) >= 1
         /\ IsFiniteSet(files \ {f}) /\ Cardinality(files \ {f}) = Cardinality(files) - 1
         /\ \A g : /\ IsFiniteSet((files \ {f}) \cup {g})
                   /\ Cardinality((files \ {f}) \cup {g}) <= Cardinality(files)
         /\ Cardinality(todo) \in Nat
         /\ f \in todo => /\ Cardinality(todo) >= 1
                          /\ Cardinality(todo \ {f}) = Cardinality(todo) - 1
<1>1. Cardinality(files) \in Nat /\ IsFiniteSet(todo) /\ Cardinality(todo) \in Nat
  BY FS_Subset, FS_CardinalityType, Zenon
<1>2. Cardinality(files) # 0 /\ (f \in todo => Cardinality(todo) # 0)
  BY <1>1, FS_EmptySet, Zenon
<1>3. IsFiniteSet(files \ {f}) /\ Cardinality(files \ {f}) = Cardinality(files) - 1
  BY FS_RemoveElement, Zenon
<1>4. f \in todo => Cardinality(todo \ {f}) = Cardinality(todo) - 1
  BY <1>1, FS_RemoveElement, Zenon
<1>5. ASSUME NEW g
      PROVE  /\ IsFiniteSet((files \ {f}) \cup {g})
             /\ Cardinality((files \ {f}) \cup {g}) <= Cardinality(files)
  <2>1. /\ IsFiniteSet((files \ {f}) \cup {g})
        /\ \/ Cardinality((files \ {f}) \cup {g}) = Cardinality(files \ {f})
           \/ Cardinality((files \ {f}) \cup {g}) = Cardinality(files \ {f}) + 1
    BY <1>3, FS_AddElement, Zenon
  <2> QED
    BY <2>1, <1>1, <1>3
<1>6. Cardinality(files) >= 1 /\ (f \in todo => Cardinality(todo) >= 1)
  BY <1>1, <1>2
<1> QED
  BY <1>1, <1>3, <1>4, <1>5, <1>6, Zenon

\* Every step keeps the count.
LEMMA CountStep == TypeInv /\ CountInv /\ [Next]_vars => CountInv'
<1> SUFFICES ASSUME TypeInv, CountInv, [Next]_vars PROVE CountInv'
  OBVIOUS
<1>1. todo \subseteq files
  BY Zenon DEF TypeInv
<1>2. Cardinality({}) = 0
  BY FS_EmptySet, Zenon
<1>3. CASE UNCHANGED <<files, todo, total>> /\ (wpc' = "retry" <=> wpc = "retry")
  BY <1>3, Zenon DEF CountInv
<1>4. CASE RetryEnqueue
  <2>1. IsFiniteSet(files')
    BY <1>4, FS_AddElement, Zenon DEF CountInv, RetryEnqueue
  <2> QED
    BY <1>4, <2>1, Zenon DEF CountInv, RetryEnqueue
<1>5. ASSUME NEW ripe, TakeRetry(ripe) PROVE CountInv'
  <2> DEFINE C == Considered(Head(queue)[1])
  <2>1. C \subseteq files /\ todo' \subseteq C /\ total' = Cardinality(C)
    BY <1>5, Zenon DEF TakeRetry, Considered
  <2>2. IsFiniteSet(C) /\ total' \in Nat /\ Cardinality(todo') <= total'
    BY <2>1, FS_Subset, FS_CardinalityType, Zenon DEF CountInv
  <2> QED
    BY <1>5, <2>2, Zenon DEF CountInv, TakeRetry, disk
<1>6. CASE TakeRetrySkip
  <2>1. total' \in Nat /\ Cardinality(todo') <= total'
    BY <1>6, <1>2 DEF TakeRetrySkip
  <2> QED
    BY <1>6, <2>1, Zenon DEF CountInv, TakeRetrySkip, disk
<1>7. ASSUME NEW f \in files, RetryResponse(f) PROVE CountInv'
  <2>1. f \in todo
    BY <1>7, Zenon DEF RetryResponse, Oldest
  <2>2. IsFiniteSet(files')
    BY <1>7, FileCounts, <1>1, Zenon DEF CountInv, RetryResponse
  <2>3. /\ Cardinality(todo) \in Nat /\ Cardinality(todo) >= 1
        /\ Cardinality(todo \ {f}) = Cardinality(todo) - 1
    BY <2>1, FileCounts, <1>1, Zenon DEF CountInv
  <2>4. total' \in Nat /\ Cardinality(todo') <= total'
    BY <1>7, <2>3 DEF CountInv, RetryResponse
  <2> QED
    BY <1>7, <2>2, <2>4, Zenon DEF CountInv, RetryResponse
<1>8. ASSUME NEW f \in files, RetryFailure(f) PROVE CountInv'
  <2>1. f \in todo
    BY <1>8, Zenon DEF RetryFailure, Oldest
  <2>2. IsFiniteSet(files')
    BY <1>8, FileCounts, <1>1, Zenon DEF CountInv, RetryFailure
  <2>3. Cardinality(todo) \in Nat /\ Cardinality(todo) >= 1
    BY <2>1, FileCounts, <1>1, Zenon DEF CountInv
  <2>4. total' \in Nat /\ Cardinality(todo') <= total'
    BY <1>8, <2>3, <1>2 DEF CountInv, RetryFailure
  <2> QED
    BY <1>8, <2>2, <2>4, Zenon DEF CountInv, RetryFailure
<1>9. CASE RetryDone
  <2>1. total' \in Nat /\ Cardinality(todo') <= total' /\ todo' = {}
    BY <1>9, <1>2 DEF RetryDone
  <2> QED
    BY <1>9, <2>1, Zenon DEF CountInv, RetryDone, disk
<1>10. ASSUME todo' = {}, total' = 0
       PROVE  todo' = {} /\ total' \in Nat /\ Cardinality(todo') <= total'
  BY <1>10, <1>2
<1>11. CASE Die
  BY <1>10, <1>11, Zenon DEF CountInv, Die, disk
<1>12. CASE Restart
  <2> DEFINE g == [f \in files |-> [f EXCEPT !.era = "old"]]
  <2>1. g \in Surjection(files, files')
    BY <1>12, Zenon DEF Restart, Surjection
  <2>2. IsFiniteSet(files')
    BY <2>1, FS_Surjection, Zenon DEF CountInv
  <2> QED
    BY <1>10, <1>12, <2>2, Zenon DEF CountInv, Restart
<1>13. CASE UNCHANGED vars
  BY <1>3, <1>13, Zenon DEF vars, worker, disk
<1>14. CASE WorkerStep
  <2>1. CASE TakeSend \/ HttpResponse \/ HttpFailure \/ RetryArm \/ PopTask \/ WorkerExit
    BY <1>3, <2>1, Zenon DEF TakeSend, HttpResponse, HttpFailure, RetryArm, PopTask, WorkerExit,
       disk
  <2> QED
    BY <1>4, <1>5, <1>6, <1>7, <1>8, <1>9, <1>14, <2>1, Zenon DEF WorkerStep
<1>15. CASE (\E e \in Envelopes : SendEnvelope(e)) \/ SendSubmit \/ SendRecheck \/ PollDue
            \/ RetryTrigger
  BY <1>3, <1>15, Zenon DEF SendEnvelope, SendSubmit, SendRecheck, PollDue, RetryTrigger, worker,
     disk
<1>16. CASE ShutdownBegin \/ CloseStep \/ CrashSuspend
  BY <1>3, <1>16, Zenon DEF ShutdownBegin, CloseStep, RetryShutdown, ShutdownJoin, ShutdownTimeout,
     RetrySeal, CloseDump, CrashSuspend, worker, disk
<1>17. CASE CrashDump \/ StartStep
  BY <1>3, <1>17, Zenon DEF CrashDump, StartStep, ProcessOldRun, RemoveOldRun, OldRunsDone, worker,
     disk
<1> QED
  BY <1>11, <1>12, <1>13, <1>14, <1>15, <1>16, <1>17, Zenon DEF Next, CrashStep

(***************************************************************************)
(* No envelope is lost.                                                    *)
(***************************************************************************)
\* What is settled or on disk stays so, if the file of an envelope goes away
\* only once it is settled or kept elsewhere.
LEMMA SafeGrows ==
  ASSUME settled \subseteq settled', refused \subseteq refused',
         cached \subseteq cached', run \subseteq run',
         \A f \in files : f.env \in Safe'
  PROVE  \A e \in Safe : e \in Safe'
BY Zenon DEF Safe

\* A file of an envelope makes it safe, and so do the other places.
LEMMA SafeIn ==
  /\ \A f \in files : f.env \in Safe
  /\ \A e : e \in settled \/ e \in refused \/ e \in cached \/ e \in run => e \in Safe
BY Zenon DEF Safe

\* The same queue holds the same envelopes.
LEMMA DumpedSame ==
  ASSUME queue' = queue
  PROVE  Dumped' = Dumped
BY Zenon DEF Dumped

\* Without its envelopes to send the queue holds none; without other tasks it
\* holds the same ones.
LEMMA DumpedWithout ==
  ASSUME queue \in Seq(Tasks), NEW kind, queue' = Without(kind)
  PROVE  /\ kind = "send" => Dumped' = {}
         /\ \A e \in Dumped' : e \in Dumped
         /\ kind = "poll" => \A e \in Dumped : e \in Dumped'
<1>1. PICK src : Picks(queue', Rest(kind), src)
  BY WithoutShape, Zenon
<1>2. \A n \in 1 .. Len(queue') :
        src[n] \in 1 .. Len(queue) /\ queue'[n] = queue[src[n]] /\ queue'[n][1] # kind
  BY <1>1, ZenonT(60) DEF Rest, Picks
<1>3. \A e : e \in Dumped' <=> \E n \in 1 .. Len(queue') : queue'[n][1] = "send" /\ queue'[n][2] = e
  BY Zenon DEF Dumped
<1>4. kind = "send" => Dumped' = {}
  <2> SUFFICES ASSUME kind = "send", NEW e \in Dumped' PROVE FALSE
    BY Zenon
  <2>1. PICK n \in 1 .. Len(queue') : queue'[n][1] = "send"
    BY <1>3, Zenon
  <2> QED
    BY <1>2, <2>1, Zenon
<1>5. ASSUME NEW e \in Dumped' PROVE e \in Dumped
  <2>1. PICK n \in 1 .. Len(queue') : queue'[n][1] = "send" /\ queue'[n][2] = e
    BY <1>3, Zenon
  <2>2. src[n] \in 1 .. Len(queue) /\ queue[src[n]][1] = "send" /\ queue[src[n]][2] = e
    BY <1>2, <2>1, Zenon
  <2> QED
    BY <2>2, DumpedAt, Zenon
<1>6. ASSUME kind = "poll", NEW e \in Dumped PROVE e \in Dumped'
  <2>1. PICK i \in 1 .. Len(queue) : queue[i][1] = "send" /\ queue[i][2] = e
    BY DumpedAt, Zenon
  <2>2. i \in Rest(kind)
    BY <1>6, <2>1 DEF Rest
  <2>3. PICK n \in 1 .. Len(queue') : src[n] = i
    BY <1>1, <2>2, Zenon DEF Picks
  <2>4. queue'[n][1] = "send" /\ queue'[n][2] = e
    BY <1>2, <2>1, <2>3, Zenon
  <2> QED
    BY <1>3, <2>4, Zenon
<1> QED
  BY <1>4, <1>5, <1>6, Zenon

\* A task appended adds its envelope, if it is one to send.
LEMMA DumpedAppend ==
  ASSUME queue \in Seq(Tasks), NEW t, queue' = Append(queue, t)
  PROVE  /\ \A e \in Dumped : e \in Dumped'
         /\ \A e \in Dumped' : e \in Dumped \/ (t[1] = "send" /\ e = t[2])
         /\ t[1] = "send" => t[2] \in Dumped'
<1>1. /\ Len(queue) \in Nat /\ Len(queue') = Len(queue) + 1
      /\ \A i \in 1 .. Len(queue) : queue'[i] = queue[i]
      /\ queue'[Len(queue) + 1] = t
  OBVIOUS
<1>2. \A i : i \in 1 .. Len(queue') <=> i \in 1 .. Len(queue) \/ i = Len(queue) + 1
  BY <1>1
<1>3. \A e : e \in Dumped' <=> \E n \in 1 .. Len(queue') : queue'[n][1] = "send" /\ queue'[n][2] = e
  BY Zenon DEF Dumped
<1>4. \A e \in Dumped : e \in Dumped'
  BY <1>1, <1>2, <1>3, DumpedAt, ZenonT(60)
<1>5. ASSUME NEW e \in Dumped' PROVE e \in Dumped \/ (t[1] = "send" /\ e = t[2])
  <2>1. PICK n \in 1 .. Len(queue') : queue'[n][1] = "send" /\ queue'[n][2] = e
    BY <1>3, Zenon
  <2>2. CASE n \in 1 .. Len(queue)
    BY <1>1, <2>1, <2>2, DumpedAt, Zenon
  <2>3. CASE n = Len(queue) + 1
    BY <1>1, <2>1, <2>3, Zenon
  <2> QED
    BY <1>2, <2>2, <2>3, Zenon
<1>6. t[1] = "send" => t[2] \in Dumped'
  <2> SUFFICES ASSUME t[1] = "send" PROVE t[2] \in Dumped'
    BY Zenon
  <2>1. PICK n \in 1 .. Len(queue') : queue'[n] = t
    BY <1>1, <1>2, Zenon
  <2>2. queue'[n][1] = "send" /\ queue'[n][2] = t[2]
    BY <2>1, Zenon
  <2> QED
    BY <1>3, <2>2, Zenon
<1> QED
  BY <1>4, <1>5, <1>6, Zenon

\* Popping the head takes its envelope away, and no other.
LEMMA DumpedTail ==
  ASSUME queue \in Seq(Tasks), queue # <<>>, queue' = Tail(queue)
  PROVE  /\ \A e \in Dumped : e \in Dumped' \/ (Head(queue)[1] = "send" /\ e = Head(queue)[2])
         /\ \A e \in Dumped' : e \in Dumped
<1>1. /\ Len(queue) \in Nat /\ Len(queue') = Len(queue) - 1
      /\ \A i \in 1 .. Len(queue') : i + 1 \in 1 .. Len(queue) /\ queue'[i] = queue[i + 1]
      /\ Head(queue) = queue[1]
  OBVIOUS
<1>2. \A i \in 1 .. Len(queue) : i = 1 \/ \E j \in 1 .. Len(queue') : i = j + 1
  <2> SUFFICES ASSUME NEW i \in 1 .. Len(queue), i # 1
               PROVE  i - 1 \in 1 .. Len(queue') /\ i = (i - 1) + 1
    BY Zenon
  <2> QED
    BY <1>1
<1>3. \A e : e \in Dumped' <=> \E n \in 1 .. Len(queue') : queue'[n][1] = "send" /\ queue'[n][2] = e
  BY Zenon DEF Dumped
<1>4. ASSUME NEW e \in Dumped' PROVE e \in Dumped
  <2>1. PICK n \in 1 .. Len(queue') : queue'[n][1] = "send" /\ queue'[n][2] = e
    BY <1>3, Zenon
  <2>2. n + 1 \in 1 .. Len(queue) /\ queue[n + 1] = queue'[n]
    BY <1>1, <2>1, Zenon
  <2> QED
    BY <2>1, <2>2, DumpedAt, Zenon
<1>5. ASSUME NEW e \in Dumped PROVE e \in Dumped' \/ (Head(queue)[1] = "send" /\ e = Head(queue)[2])
  <2>1. PICK i \in 1 .. Len(queue) : queue[i][1] = "send" /\ queue[i][2] = e
    BY DumpedAt, Zenon
  <2>2. CASE i = 1
    BY <1>1, <2>1, <2>2, Zenon
  <2>3. ASSUME NEW j \in 1 .. Len(queue'), i = j + 1 PROVE e \in Dumped'
    <3>1. queue'[j][1] = "send" /\ queue'[j][2] = e
      BY <1>1, <2>1, <2>3, Zenon
    <3> QED
      BY <1>3, <3>1, Zenon
  <2> QED
    BY <1>2, <2>2, <2>3, Zenon
<1> QED
  BY <1>4, <1>5, Zenon

\* A step that loses no place of an envelope, and does not touch what the
\* sending call and the old runs are about, keeps every envelope covered.
LEMMA CoverFrame ==
  ASSUME CoverInv, UNCHANGED <<spc, senv, unsent, oldRun>>,
         suspended' = (cpc' # "none"), cpc' = "dying" => cpc = "dying",
         mpc' = mpc \/ (mpc \notin {"remove", "down"} /\ mpc' \notin {"remove", "down"}),
         \A e \in Safe : e \in Safe',
         Alive => \A e \in Dumped : e \in Dumped' \/ e \in Safe',
         \A e \in Dumped' : e \in Dumped,
         Alive' /\ wpc' \in {"arm", "pop"} /\ task'[1] = "send" => task'[2] \in Safe'
  PROVE  CoverInv'
<1>1. \A e \in Covered : e \in Covered'
  BY Zenon DEF Covered, Alive
<1>2. \A e \in Envelopes \ unsent : e \in Covered' \/ e \in oldRun' \/ Submitting(e)'
  BY <1>1, Zenon DEF CoverInv, Submitting
<1>3. mpc' = "remove" => mpc = "remove"
  BY Zenon
<1>4. /\ mpc' = "remove" => senv' \in oldRun'
      /\ mpc' = "remove" /\ spc' # "submit" => senv' \in Covered'
  BY <1>1, <1>3, Zenon DEF CoverInv
<1>5. cpc' = "dying" => \A e \in Dumped' : e \in Safe' \/ Rechecking(e)'
  BY Zenon DEF CoverInv, Rechecking
<1> QED
  BY <1>2, <1>4, <1>5, Zenon DEF CoverInv

\* The worker takes an envelope out of a queue that is still to be dumped only
\* once it is settled, refused or on disk; it never takes one from the disk that
\* is neither settled nor cached.
LEMMA WorkerCovers ==
  ASSUME TypeInv, CoverInv, WorkerStep
  PROVE  CoverInv'
<1>1. UNCHANGED <<spc, senv, unsent, oldRun, suspended, cpc, mpc>>
  BY Zenon DEF WorkerStep, TakeSend, HttpResponse, HttpFailure, RetryEnqueue, RetryArm, PopTask,
     TakeRetry,
     TakeRetrySkip, RetryDone, WorkerExit, RetryResponse, RetryFailure, sender, disk
<1>2. suspended' = (cpc' # "none")
  BY <1>1, Zenon DEF CoverInv
<1>3. ASSUME UNCHANGED <<settled, refused, cached, run, files>> PROVE Safe' = Safe
  BY <1>3, Zenon DEF Safe
<1>4. CASE TakeSend
  <2>1. wpc' = "http"
    BY <1>4, Zenon DEF TakeSend
  <2>2. Safe' = Safe /\ Dumped' = Dumped
    BY <1>3, <1>4, DumpedSame, Zenon DEF TakeSend, disk
  <2> QED
    BY <1>1, <1>2, <2>1, <2>2, CoverFrame, Zenon
<1>5. CASE HttpResponse
  <2>1. \A e \in Safe : e \in Safe'
    BY <1>5, Zenon DEF HttpResponse, Safe, Kept
  <2>2. task'[2] \in Safe' /\ Dumped' = Dumped
    BY <1>5, DumpedSame, Zenon DEF HttpResponse, Safe
  <2> QED
    BY <1>1, <1>2, <2>1, <2>2, CoverFrame, Zenon
<1>6. CASE HttpFailure
  <2>1. \A e \in Safe : e \in Safe'
    BY <1>6, Zenon DEF HttpFailure, Safe
  <2>2. wpc' \in {"arm", "pop"} => task'[2] \in Safe'
    BY <1>6, Zenon DEF HttpFailure, Safe
  <2>3. Dumped' = Dumped
    BY <1>6, DumpedSame, Zenon DEF HttpFailure
  <2> QED
    BY <1>1, <1>2, <2>1, <2>2, <2>3, CoverFrame, Zenon
<1>7. CASE RetryEnqueue
  <2>1. \A e \in Safe : e \in Safe'
    BY <1>7, Zenon DEF RetryEnqueue, Safe
  <2>2. RetryFile(task[2], 0).env = task[2]
    BY DEF RetryFile
  <2>3. Alive => task'[2] \in Safe'
    BY <1>7, <2>2, Zenon DEF RetryEnqueue, Safe
  <2>4. Dumped' = Dumped
    BY <1>7, DumpedSame, Zenon DEF RetryEnqueue
  <2>5. Alive' = Alive
    BY <1>1, Zenon DEF Alive
  <2> QED
    BY <1>1, <1>2, <2>1, <2>3, <2>4, <2>5, CoverFrame, Zenon
<1>8. CASE RetryArm
  <2>1. Safe' = Safe /\ Dumped' = Dumped
    BY <1>3, <1>8, DumpedSame, Zenon DEF RetryArm, disk
  <2>2. Alive' /\ task'[1] = "send" => task'[2] \in Safe'
    BY <1>1, <1>8, <2>1, Zenon DEF RetryArm, CoverInv, Alive
  <2> QED
    BY <1>1, <1>2, <2>1, <2>2, CoverFrame, Zenon
<1>9. CASE PopTask
  <2>1. Safe' = Safe /\ wpc' = "idle"
    BY <1>3, <1>9, Zenon DEF PopTask, disk
  <2>2. CASE queue # <<>> /\ Head(queue) = task
    <3>1. queue' = Tail(queue)
      BY <1>9, <2>2, Zenon DEF PopTask
    <3>2. Alive /\ task[1] = "send" => task[2] \in Safe
      BY <1>9, Zenon DEF PopTask, CoverInv
    <3>3. /\ Alive => \A e \in Dumped : e \in Dumped' \/ e \in Safe'
          /\ \A e \in Dumped' : e \in Dumped
      BY <2>1, <2>2, <3>1, <3>2, DumpedTail, Zenon DEF TypeInv
    <3> QED
      BY <1>1, <1>2, <2>1, <3>3, CoverFrame, Zenon
  <2>3. CASE ~(queue # <<>> /\ Head(queue) = task)
    <3>1. Dumped' = Dumped
      BY <1>9, <2>3, DumpedSame, Zenon DEF PopTask
    <3> QED
      BY <1>1, <1>2, <2>1, <3>1, CoverFrame, Zenon
  <2> QED
    BY <2>2, <2>3, Zenon
<1>10. CASE (\E ripe \in SUBSET files : TakeRetry(ripe)) \/ TakeRetrySkip \/ WorkerExit
  <2>1. wpc' \in {"retry", "exited"}
    BY <1>10, Zenon DEF TakeRetry, TakeRetrySkip, WorkerExit
  <2>2. Safe' = Safe /\ Dumped' = Dumped
    BY <1>3, <1>10, DumpedSame, Zenon DEF TakeRetry, TakeRetrySkip, WorkerExit, disk
  <2> QED
    BY <1>1, <1>2, <2>1, <2>2, CoverFrame, Zenon
<1>11. CASE RetryDone
  <2>1. task' = task /\ task[1] # "send"
    BY <1>11 DEF RetryDone, TypeInv
  <2>2. Safe' = Safe /\ Dumped' = Dumped
    BY <1>3, <1>11, DumpedSame, Zenon DEF RetryDone, disk
  <2> QED
    BY <1>1, <1>2, <2>1, <2>2, CoverFrame, Zenon
<1>12. ASSUME NEW f \in files, RetryResponse(f) PROVE CoverInv'
  <2>1. wpc' = "retry" /\ Dumped' = Dumped
    BY <1>12, DumpedSame, Zenon DEF RetryResponse
  <2>2. /\ settled \subseteq settled' /\ refused \subseteq refused'
        /\ cached \subseteq cached' /\ run \subseteq run'
    BY <1>12, Zenon DEF RetryResponse, Kept
  <2>3. \A g \in files : g.env \in Safe'
    BY <1>12, Zenon DEF RetryResponse, Safe
  <2> QED
    BY <1>1, <1>2, <2>1, <2>2, <2>3, SafeGrows, CoverFrame, Zenon
<1>13. ASSUME NEW f \in files, RetryFailure(f) PROVE CoverInv'
  <2>1. wpc' = "retry" /\ Dumped' = Dumped
    BY <1>13, DumpedSame, Zenon DEF RetryFailure
  <2>2. /\ settled \subseteq settled' /\ refused \subseteq refused'
        /\ cached \subseteq cached' /\ run \subseteq run'
    BY <1>13, Zenon DEF RetryFailure
  <2>3. RetryFile(f.env, f.count + 1).env = f.env
    BY DEF RetryFile
  <2>4. \A g \in files : g.env \in Safe'
    BY <1>13, <2>3, Zenon DEF RetryFailure, Safe
  <2> QED
    BY <1>1, <1>2, <2>1, <2>2, <2>4, SafeGrows, CoverFrame, Zenon
<1> QED
  BY <1>4, <1>5, <1>6, <1>7, <1>8, <1>9, <1>10, <1>11, <1>12, <1>13, Zenon DEF WorkerStep

\* The sending call: what it has not put on disk it has queued, and the queue
\* is dumped again when a crash began meanwhile.
LEMMA SenderCovers ==
  ASSUME TypeInv, CoverInv
  PROVE  /\ \A e \in Envelopes : SendEnvelope(e) => CoverInv'
         /\ SendSubmit => CoverInv'
         /\ SendRecheck => CoverInv'
<1>1. ASSUME NEW e \in Envelopes, SendEnvelope(e) PROVE CoverInv'
  <2>1. /\ UNCHANGED <<wpc, task, oldRun, cpc, suspended, mpc>>
        /\ mpc = "up" /\ spc = "idle" /\ unsent' = unsent \ {e}
        /\ Dumped' = Dumped
    BY <1>1, DumpedSame, Zenon DEF SendEnvelope, SendBegin, worker
  <2>2. \A x \in Safe : x \in Safe'
    BY <1>1, Zenon DEF SendEnvelope, SendBegin, Safe
  <2>3. e \in Safe' \/ (spc' = "submit" /\ senv' = e)
    BY <1>1, Zenon DEF SendEnvelope, SendBegin, Safe
  <2>4. \A x \in Covered : x \in Covered'
    BY <2>1, <2>2, Zenon DEF Covered, Alive
  <2>5. \A x \in Envelopes \ unsent' : x \in Covered' \/ x \in oldRun' \/ Submitting(x)'
    <3> SUFFICES ASSUME NEW x \in Envelopes \ unsent'
                 PROVE  x \in Covered' \/ x \in oldRun' \/ Submitting(x)'
      BY Zenon
    <3>1. CASE x = e
      BY <2>3, <3>1, Zenon DEF Covered, Submitting
    <3>2. CASE x # e
      BY <2>1, <2>4, <3>2, Zenon DEF CoverInv, Submitting
    <3> QED
      BY <3>1, <3>2, Zenon
  <2>6. cpc' = "dying" => \A x \in Dumped' : x \in Safe' \/ Rechecking(x)'
    BY <2>1, <2>2, Zenon DEF CoverInv, Rechecking
  <2>7. Alive' /\ wpc' \in {"arm", "pop"} /\ task'[1] = "send" => task'[2] \in Safe'
    BY <2>1, <2>2, Zenon DEF CoverInv, Alive
  <2> QED
    BY <2>1, <2>5, <2>6, <2>7, Zenon DEF CoverInv
<1>2. ASSUME SendSubmit PROVE CoverInv'
  <2>1. /\ UNCHANGED <<wpc, task, oldRun, cpc, suspended, mpc, senv, unsent>>
        /\ spc = "submit" /\ spc' = "recheck"
    BY <1>2, Zenon DEF SendSubmit, worker, disk
  <2>2. \A x \in Safe : x \in Safe'
    BY <1>2, Zenon DEF SendSubmit, Safe, disk
  <2> DEFINE t == <<"send", senv>>
  <2>3. t[1] = "send" /\ t[2] = senv
    OBVIOUS
  <2>4. queue \in Seq(Tasks) /\ queue' = Append(queue, t)
    BY <1>2, Zenon DEF SendSubmit, TypeInv
  <2> HIDE DEF t
  <2>5. /\ \A x \in Dumped : x \in Dumped'
        /\ \A x \in Dumped' : x \in Dumped \/ x = senv
        /\ senv \in Dumped'
    BY <2>3, <2>4, DumpedAppend, Zenon
  <2>6. senv \in Covered'
    BY <1>2, <2>5, Zenon DEF SendSubmit, Covered, Safe, Alive
  <2>7. \A x \in Covered : x \in Covered'
    BY <2>1, <2>2, <2>5, Zenon DEF Covered, Alive
  <2>8. \A x \in Envelopes \ unsent' : x \in Covered' \/ x \in oldRun' \/ Submitting(x)'
    BY <2>1, <2>6, <2>7, Zenon DEF CoverInv, Submitting
  <2>9. cpc' = "dying" => \A x \in Dumped' : x \in Safe' \/ Rechecking(x)'
    BY <2>1, <2>2, <2>5, Zenon DEF CoverInv, Rechecking
  <2>10. Alive' /\ wpc' \in {"arm", "pop"} /\ task'[1] = "send" => task'[2] \in Safe'
    BY <2>1, <2>2, Zenon DEF CoverInv, Alive
  <2> QED
    BY <2>1, <2>6, <2>8, <2>9, <2>10, Zenon DEF CoverInv
<1>3. ASSUME SendRecheck PROVE CoverInv'
  <2>1. /\ UNCHANGED <<wpc, task, oldRun, cpc, suspended, mpc, unsent>>
        /\ spc = "recheck" /\ spc' = "idle" /\ (mpc = "remove" => senv' = senv)
    BY <1>3, Zenon DEF SendRecheck, worker
  <2>2. \A x \in Safe : x \in Safe'
    BY <1>3, Zenon DEF SendRecheck, DumpQueue, Safe
  <2>3. /\ \A x \in Dumped : x \in Dumped' \/ x \in Safe'
        /\ suspended => Dumped' = {}
    <3>1. CASE suspended
      BY <1>3, <3>1, DumpedWithout, Zenon DEF SendRecheck, Recheck, DumpQueue, Safe, TypeInv
    <3>2. CASE ~suspended
      BY <1>3, <3>2, DumpedSame, Zenon DEF SendRecheck, Recheck
    <3> QED
      BY <3>1, <3>2, Zenon
  <2>4. \A x \in Covered : x \in Covered'
    BY <2>1, <2>2, <2>3, Zenon DEF Covered, Alive
  <2>5. \A x \in Envelopes \ unsent' : x \in Covered' \/ x \in oldRun' \/ Submitting(x)'
    BY <2>1, <2>4, Zenon DEF CoverInv, Submitting
  <2>6. cpc' = "dying" => \A x \in Dumped' : x \in Safe' \/ Rechecking(x)'
    BY <2>1, <2>3, Zenon DEF CoverInv
  <2>7. Alive' /\ wpc' \in {"arm", "pop"} /\ task'[1] = "send" => task'[2] \in Safe'
    BY <2>1, <2>2, Zenon DEF CoverInv, Alive
  <2> QED
    BY <2>1, <2>4, <2>5, <2>6, <2>7, Zenon DEF CoverInv
<1> QED
  BY <1>1, <1>2, <1>3, Zenon

\* The other tasks of the queue, and closing up to the dump, touch no envelope.
LEMMA QuietCovers ==
  ASSUME TypeInv, CoverInv
  PROVE  /\ PollDue \/ RetryTrigger => CoverInv'
         /\ ShutdownBegin => CoverInv'
         /\ RetryShutdown \/ ShutdownJoin \/ ShutdownTimeout \/ RetrySeal => CoverInv'
         /\ CrashSuspend \/ OldRunsDone => CoverInv'
<1> DEFINE Same == /\ UNCHANGED <<spc, senv, unsent, oldRun, wpc, task>>
                   /\ UNCHANGED <<settled, refused, cached, run, files>>
           Held == (\A e \in Dumped : e \in Dumped') /\ (\A e \in Dumped' : e \in Dumped)
           Moves == mpc' = mpc \/ (mpc \notin {"remove", "down"} /\ mpc' \notin {"remove", "down"})
           Crashes == suspended' = (cpc' # "none") /\ (cpc' = "dying" => cpc = "dying")
<1>1. ASSUME Same, Held, Moves, Crashes PROVE CoverInv'
  <2>1. Safe' = Safe
    BY <1>1, Zenon DEF Safe
  <2>2. Alive' /\ wpc' \in {"arm", "pop"} /\ task'[1] = "send" => task'[2] \in Safe'
    BY <1>1, <2>1, Zenon DEF CoverInv, Alive
  <2> QED
    BY <1>1, <2>1, <2>2, CoverFrame, Zenon
<1>2. ASSUME NEW k \in {"poll", "flush", "trigger"}, queue' = Append(queue, <<k, None>>) PROVE Held
  <2> DEFINE t == <<k, None>>
  <2>1. t[1] # "send"
    OBVIOUS
  <2>2. queue' = Append(queue, t) /\ queue \in Seq(Tasks)
    BY <1>2, Zenon DEF TypeInv
  <2> HIDE DEF t
  <2> QED
    BY <2>1, <2>2, DumpedAppend, Zenon
<1>3. UNCHANGED <<cpc, suspended>> => Crashes
  BY Zenon DEF CoverInv
<1>4. CASE PollDue \/ RetryTrigger
  <2>1. Held
    BY <1>2, <1>4, Zenon DEF PollDue, RetryTrigger
  <2>2. Same /\ Moves /\ UNCHANGED <<cpc, suspended>>
    BY <1>4, Zenon DEF PollDue, RetryTrigger, worker, sender, disk
  <2> QED
    BY <1>1, <1>3, <2>1, <2>2, Zenon
<1>5. CASE ShutdownBegin
  <2>1. Held
    BY <1>5, DumpedWithout, Zenon DEF ShutdownBegin, TypeInv
  <2>2. Same /\ Moves /\ UNCHANGED <<cpc, suspended>>
    BY <1>5, Zenon DEF ShutdownBegin, worker, sender, disk
  <2> QED
    BY <1>1, <1>3, <2>1, <2>2, Zenon
<1>6. CASE RetryShutdown \/ ShutdownJoin \/ ShutdownTimeout \/ RetrySeal
  <2>1. Held
    BY <1>2, <1>6, DumpedSame, Zenon DEF RetryShutdown, ShutdownJoin, ShutdownTimeout, RetrySeal
  <2>2. Same /\ UNCHANGED <<cpc, suspended>>
    BY <1>6, Zenon DEF RetryShutdown, ShutdownJoin, ShutdownTimeout, RetrySeal, worker, sender, disk
  <2>3. Moves
    BY <1>6 DEF RetryShutdown, ShutdownJoin, ShutdownTimeout, RetrySeal
  <2> QED
    BY <1>1, <1>3, <2>1, <2>2, <2>3, Zenon
<1>7. CASE CrashSuspend \/ OldRunsDone
  <2>1. Held
    BY <1>7, DumpedSame, Zenon DEF CrashSuspend, OldRunsDone
  <2>2. Same
    BY <1>7, Zenon DEF CrashSuspend, OldRunsDone, worker, sender, disk
  <2>3. Moves
    BY <1>7 DEF CrashSuspend, OldRunsDone
  <2>4. Crashes
    BY <1>7, Zenon DEF CrashSuspend, OldRunsDone, CoverInv, TypeInv
  <2> QED
    BY <1>1, <2>1, <2>2, <2>3, <2>4, Zenon
<1> QED
  BY <1>4, <1>5, <1>6, <1>7, Zenon

\* The dumps of the queue: what was only queued is in the run directory.
LEMMA DumpCovers ==
  ASSUME TypeInv, CoverInv
  PROVE  CloseDump \/ CrashDump => CoverInv'
<1> SUFFICES ASSUME CloseDump \/ CrashDump PROVE CoverInv'
  BY Zenon
<1>1. /\ UNCHANGED <<wpc, task, oldRun, suspended, spc, senv, unsent>>
      /\ UNCHANGED <<settled, refused, cached, files>>
      /\ DumpQueue
  BY Zenon DEF CloseDump, CrashDump, worker, sender
<1>2. /\ mpc' = mpc \/ (mpc = "dump" /\ mpc' = "down")
      /\ cpc' = cpc \/ (cpc = "dump" /\ cpc' = "dying")
  BY Zenon DEF CloseDump, CrashDump
<1>3. Dumped' = {}
  BY <1>1, DumpedWithout, Zenon DEF DumpQueue, TypeInv
<1>4. /\ \A e \in Safe : e \in Safe'
      /\ \A e \in Dumped : e \in Safe'
  BY <1>1, Zenon DEF DumpQueue, Safe
<1>5. \A e \in Covered : e \in Covered'
  BY <1>4, Zenon DEF Covered
<1>6. \A e \in Envelopes \ unsent' : e \in Covered' \/ e \in oldRun' \/ Submitting(e)'
  BY <1>1, <1>5, Zenon DEF CoverInv, Submitting
<1>7. mpc' = "remove" => mpc = "remove"
  BY <1>2
<1>8. suspended' = (cpc' # "none")
  BY <1>1, <1>2 DEF CoverInv, TypeInv
<1>9. Alive' /\ wpc' \in {"arm", "pop"} /\ task'[1] = "send" => task'[2] \in Safe'
  BY <1>1, <1>2, <1>4, Zenon DEF CoverInv, Alive
<1> QED
  BY <1>1, <1>3, <1>5, <1>6, <1>7, <1>8, <1>9, Zenon DEF CoverInv

\* The end of a process and its next start: what is not on disk was settled, or
\* belongs to a call that had not returned, or is in an old run.
LEMMA RestartCovers ==
  ASSUME TypeInv, CoverInv
  PROVE  Die \/ Restart => CoverInv'
<1>1. CASE Die
  <2>1. /\ cpc = "dying" /\ cpc' = "none" /\ suspended' = FALSE /\ mpc' = "down" /\ wpc' = "exited"
        /\ UNCHANGED <<unsent, oldRun, cached, run, files, refused>>
        /\ settled' = settled \cup CutShort
    BY <1>1, Zenon DEF Die, disk
  <2>2. \A e \in Safe : e \in Safe'
    BY <2>1, Zenon DEF Safe
  <2>3. spc # "idle" => senv \in Safe' \/ senv \in oldRun'
    BY <2>1, Zenon DEF CutShort, Safe, CoverInv
  <2>4. \A e \in Covered : e \in Safe' \/ e \in oldRun'
    BY <2>1, <2>2, <2>3, Zenon DEF Covered, CoverInv, Rechecking
  <2>5. \A e \in Envelopes \ unsent' : e \in Covered' \/ e \in oldRun'
    BY <2>1, <2>3, <2>4, Zenon DEF CoverInv, Submitting, Covered
  <2> QED
    BY <2>1, <2>5, Zenon DEF CoverInv
<1>2. CASE Restart
  <2>1. /\ cpc = "none" /\ UNCHANGED <<cpc, suspended, unsent, cached, refused>> /\ mpc' = "old"
        /\ mpc = "down"
        /\ wpc' = "idle" /\ settled' = settled \cup CutShort /\ oldRun' = oldRun \cup run
        /\ files' = {[f EXCEPT !.era = "old"] : f \in files}
    BY <1>2, Zenon DEF Restart, Alive
  <2>2. \A f \in files : [f EXCEPT !.era = "old"].env = f.env
    BY DEF TypeInv, Files
  <2>3. \A e \in Safe : e \in Safe' \/ e \in oldRun'
    BY <2>1, <2>2, Zenon DEF Safe
  <2>4. \A e \in Covered : e \in Safe' \/ e \in oldRun'
    BY <2>1, <2>3, Zenon DEF Covered, Alive
  <2>5. spc # "idle" => senv \in Safe'
    BY <2>1, Zenon DEF CutShort, Safe
  <2>6. \A e \in Envelopes \ unsent' : e \in Covered' \/ e \in oldRun'
    BY <2>1, <2>4, <2>5, Zenon DEF CoverInv, Submitting, Covered
  <2> QED
    BY <2>1, <2>6, Zenon DEF CoverInv
<1> QED
  BY <1>1, <1>2, Zenon

\* Taking up an old run: its file goes away only once the envelope is queued,
\* settled or on disk again.
LEMMA OldRunCovers ==
  ASSUME TypeInv, CoverInv
  PROVE  /\ \A e \in Envelopes : ProcessOldRun(e) => CoverInv'
         /\ RemoveOldRun => CoverInv'
<1>1. ASSUME NEW e \in Envelopes, ProcessOldRun(e) PROVE CoverInv'
  <2>1. /\ UNCHANGED <<wpc, task, oldRun, cpc, suspended, unsent>> /\ senv' = e /\ e \in oldRun
        /\ mpc = "old" /\ spc = "idle" /\ mpc' = "remove" /\ Dumped' = Dumped
    BY <1>1, DumpedSame, Zenon DEF ProcessOldRun, SendBegin, worker
  <2>2. \A x \in Safe : x \in Safe'
    BY <1>1, Zenon DEF ProcessOldRun, SendBegin, Safe
  <2>3. e \in Safe' \/ spc' = "submit"
    BY <1>1, Zenon DEF ProcessOldRun, SendBegin, Safe
  <2>4. \A x \in Covered : x \in Covered'
    BY <2>1, <2>2 DEF Covered, Alive
  <2>5. spc' # "submit" => senv' \in Covered'
    BY <2>1, <2>3, Zenon DEF Covered
  <2>6. \A x \in Envelopes \ unsent' : x \in Covered' \/ x \in oldRun' \/ Submitting(x)'
    BY <2>1, <2>4, Zenon DEF CoverInv, Submitting
  <2>7. cpc' = "dying" => \A x \in Dumped' : x \in Safe' \/ Rechecking(x)'
    BY <2>1, <2>2, Zenon DEF CoverInv, Rechecking
  <2>8. Alive' /\ wpc' \in {"arm", "pop"} /\ task'[1] = "send" => task'[2] \in Safe'
    BY <2>1, <2>2, Zenon DEF CoverInv, Alive
  <2> QED
    BY <2>1, <2>5, <2>6, <2>7, <2>8, Zenon DEF CoverInv
<1>2. ASSUME RemoveOldRun PROVE CoverInv'
  <2>1. /\ UNCHANGED <<wpc, task, cpc, suspended, unsent, spc>>
        /\ UNCHANGED <<settled, refused, cached, run, files>>
        /\ oldRun' = oldRun \ {senv} /\ spc = "idle" /\ mpc = "remove" /\ mpc' = "old"
        /\ Dumped' = Dumped
    BY <1>2, DumpedSame, Zenon DEF RemoveOldRun, worker
  <2>2. Safe' = Safe
    BY <2>1, Zenon DEF Safe
  <2>3. senv \in Covered
    BY <2>1, Zenon DEF CoverInv
  <2>4. \A x \in Covered : x \in Covered'
    BY <2>1, <2>2 DEF Covered, Alive
  <2>5. \A x \in Envelopes \ unsent' : x \in Covered' \/ x \in oldRun' \/ Submitting(x)'
    BY <2>1, <2>3, <2>4, Zenon DEF CoverInv, Submitting
  <2>6. cpc' = "dying" => \A x \in Dumped' : x \in Safe' \/ Rechecking(x)'
    BY <2>1, <2>2, Zenon DEF CoverInv, Rechecking
  <2>7. Alive' /\ wpc' \in {"arm", "pop"} /\ task'[1] = "send" => task'[2] \in Safe'
    BY <2>1, <2>2, Zenon DEF CoverInv, Alive
  <2> QED
    BY <2>1, <2>5, <2>6, <2>7, Zenon DEF CoverInv
<1> QED
  BY <1>1, <1>2, Zenon

\* Every step keeps every envelope covered.
LEMMA CoverStep == TypeInv /\ CoverInv /\ [Next]_vars => CoverInv'
<1> SUFFICES ASSUME TypeInv, CoverInv, [Next]_vars PROVE CoverInv'
  OBVIOUS
<1>1. CASE UNCHANGED vars
  <2>1. Dumped' = Dumped
    BY <1>1, DumpedSame, Zenon DEF vars
  <2>2. /\ UNCHANGED <<spc, senv, unsent, oldRun, suspended, cpc, mpc, wpc, task>> /\ Safe' = Safe
    BY <1>1, Zenon DEF vars, worker, sender, disk, Safe
  <2> QED
    BY <2>1, <2>2, Zenon DEF CoverInv, Covered, Alive, Submitting, Rechecking
<1> QED
  BY <1>1, WorkerCovers, SenderCovers, QuietCovers, DumpCovers, RestartCovers, OldRunCovers, Zenon
     DEF Next, CloseStep, CrashStep, StartStep

(***************************************************************************)
(* Where retry files wait, one poll is due.                                *)
(***************************************************************************)
\* The same queue and the same execution of a poll: the same waiting polls.
LEMMA WaitingSame ==
  ASSUME queue' = queue, Executing("poll")' <=> Executing("poll")
  PROVE  Waiting' = Waiting
BY Zenon DEF Waiting

\* Steps of the others that leave the queue, the worker and the store alone.
LEMMA PollFrame ==
  ASSUME PollInv, Up' => Up,
         UNCHANGED <<queue, delayed, wpc, task, todo, total, retryState, scheduled, files>>
  PROVE  PollInv'
<1>1. Waiting' = Waiting /\ (Polling' <=> Polling)
  BY WaitingSame, Zenon DEF Executing, Polling
<1> QED
  BY <1>1, Zenon DEF PollInv, OpenInv, OnePollInv, FilesInv, StartupInv

\* Steps that only add or remove envelopes to send: the store's tasks keep
\* their number and order, src tells where each of them was.
Follows(src) ==
  /\ \A n \in 1 .. Len(queue') : queue'[n][1] # "send" =>
       src[n] \in 1 .. Len(queue) /\ queue[src[n]] = queue'[n]
  /\ \A m, n \in 1 .. Len(queue') : src[m] = src[n] => m = n
  /\ \A i \in 1 .. Len(queue) : queue[i][1] # "send" =>
       \E n \in 1 .. Len(queue') : src[n] = i /\ queue'[n] = queue[i]
  /\ 1 \in 1 .. Len(queue) /\ queue[1][1] # "send" =>
       1 \in 1 .. Len(queue') /\ src[1] = 1 /\ queue'[1] = queue[1]

\* They keep one poll due.
LEMMA PollQueue ==
  ASSUME queue \in Seq(Tasks), queue' \in Seq(Tasks), PollInv, Up' => Up,
         UNCHANGED <<delayed, wpc, task, todo, total, retryState, scheduled, files>>,
         NEW src, Follows(src)
  PROVE  PollInv'
<1>0. /\ \A n \in 1 .. Len(queue') : queue'[n][1] # "send" =>
           src[n] \in 1 .. Len(queue) /\ queue[src[n]] = queue'[n]
      /\ \A m, n \in 1 .. Len(queue') : src[m] = src[n] => m = n
      /\ \A i \in 1 .. Len(queue) : queue[i][1] # "send" =>
           \E n \in 1 .. Len(queue') : src[n] = i /\ queue'[n] = queue[i]
      /\ 1 \in 1 .. Len(queue) /\ queue[1][1] # "send" =>
           1 \in 1 .. Len(queue') /\ src[1] = 1 /\ queue'[1] = queue[1]
  BY Zenon DEF Follows
<1> SUFFICES ASSUME Up PROVE OpenInv' /\ OnePollInv' /\ FilesInv' /\ StartupInv'
  BY Zenon DEF PollInv
<1>1. OpenInv /\ OnePollInv /\ FilesInv /\ StartupInv
  BY Zenon DEF PollInv
<1>2. (Executing("poll")' <=> Executing("poll")) /\ (Polling' <=> Polling)
  BY Zenon DEF Executing, Polling
<1>3. \A q \in Seq(Tasks) : q # <<>> <=> 1 \in 1 .. Len(q)
  OBVIOUS
<1>4. OpenInv'
  BY <1>0, <1>1, <1>3, Zenon DEF OpenInv
<1>5. Executing("poll") => 1 \in 1 .. Len(queue) /\ queue[1][1] = "poll"
  <2> SUFFICES ASSUME Executing("poll") PROVE 1 \in 1 .. Len(queue) /\ queue[1][1] = "poll"
    OBVIOUS
  <2>1. task[1] # "send" /\ task[1] = "poll" /\ wpc \in {"retry", "pop"}
    BY DEF Executing
  <2> QED
    BY <1>1, <1>3, <2>1, Zenon DEF OpenInv
<1>6. "poll" # "send"
  OBVIOUS
<1>7. Executing("poll") => 1 \in 1 .. Len(queue') /\ src[1] = 1
  BY <1>0, <1>5, <1>6, Zenon
<1>8. \A n \in Waiting' : src[n] \in Waiting
  <2> SUFFICES ASSUME NEW n \in Waiting' PROVE src[n] \in Waiting
    OBVIOUS
  <2>1. n \in 1 .. Len(queue') /\ queue'[n][1] = "poll" /\ (Executing("poll") => n # 1)
    BY <1>2, Zenon DEF Waiting
  <2>2. src[n] \in 1 .. Len(queue) /\ queue[src[n]][1] = "poll"
    BY <1>0, <1>6, <2>1, Zenon
  <2>3. Executing("poll") => src[n] # 1
    BY <1>0, <1>7, <2>1, Zenon
  <2> QED
    BY <2>2, <2>3, Zenon DEF Waiting
<1>9. \A i \in Waiting : \E n \in Waiting' : src[n] = i
  <2> SUFFICES ASSUME NEW i \in Waiting PROVE \E n \in Waiting' : src[n] = i
    OBVIOUS
  <2>1. i \in 1 .. Len(queue) /\ queue[i][1] = "poll" /\ (Executing("poll") => i # 1)
    BY Zenon DEF Waiting
  <2>2. PICK n \in 1 .. Len(queue') : src[n] = i /\ queue'[n] = queue[i]
    BY <1>0, <1>6, <2>1, Zenon
  <2>3. Executing("poll") => n # 1
    BY <1>7, <2>1, <2>2, Zenon
  <2>4. n \in Waiting'
    BY <1>2, <2>1, <2>2, <2>3, Zenon DEF Waiting
  <2> QED
    BY <2>2, <2>4, Zenon
<1>10. \A n \in Waiting' : n \in 1 .. Len(queue')
  BY Zenon DEF Waiting
<1>11. ASSUME NEW m \in Waiting', NEW n \in Waiting' PROVE m = n
  <2>1. src[m] = src[n]
    BY <1>1, <1>8, Zenon DEF OnePollInv
  <2> QED
    BY <1>0, <1>10, <2>1, Zenon
<1>12. Waiting' = {} <=> Waiting = {}
  BY <1>8, <1>9, Zenon
<1>13. OnePollInv'
  BY <1>1, <1>11, <1>12, Zenon DEF OnePollInv
<1>14. FilesInv'
  BY <1>1, <1>2, Zenon DEF FilesInv
<1>15. StartupInv'
  <2>1. ASSUME NEW n \in 1 .. Len(queue')
        PROVE  queue'[n][1] # "flush" /\ (queue'[n][1] = "trigger" => retryState # "STARTUP")
    <3>1. CASE queue'[n][1] = "send"
      BY <3>1
    <3>2. CASE queue'[n][1] # "send"
      <4>1. src[n] \in 1 .. Len(queue) /\ queue[src[n]] = queue'[n]
        BY <1>0, <3>2, Zenon
      <4> QED
        BY <1>1, <4>1, Zenon DEF StartupInv
    <3> QED
      BY <3>1, <3>2, Zenon
  <2> QED
    BY <1>1, <1>2, <2>1, Zenon DEF StartupInv
<1> QED
  BY <1>4, <1>13, <1>14, <1>15, Zenon

\* The sending call and the dump of a crash.
LEMMA SenderPolls ==
  ASSUME TypeInv, PollInv
  PROVE  /\ \A e \in Envelopes : SendEnvelope(e) => PollInv'
         /\ SendSubmit => PollInv'
         /\ SendRecheck \/ CrashDump => PollInv'
<1>1. ASSUME NEW e \in Envelopes, SendEnvelope(e) PROVE PollInv'
  <2>1. Up' => Up
    BY <1>1, Zenon DEF SendEnvelope, Up
  <2>2. UNCHANGED <<queue, delayed, wpc, task, todo, total, retryState, scheduled, files>>
    BY <1>1, Zenon DEF SendEnvelope, worker, retry
  <2> QED
    BY <2>1, <2>2, PollFrame, Zenon
<1>2. ASSUME SendSubmit PROVE PollInv'
  <2>1. /\ Up' => Up
        /\ UNCHANGED <<delayed, wpc, task, todo, total, retryState, scheduled, files>>
    BY <1>2, Zenon DEF SendSubmit, worker, retry, disk, Up
  <2> DEFINE t == <<"send", senv>>
             src == [n \in 1 .. Len(queue') |-> n]
  <2>2. queue \in Seq(Tasks) /\ t \in Tasks /\ t[1] = "send" /\ queue' = Append(queue, t)
    BY <1>2 DEF TypeInv, SendSubmit, Tasks
  <2> HIDE DEF t
  <2>3. /\ queue' \in Seq(Tasks) /\ Len(queue) \in Nat /\ Len(queue') = Len(queue) + 1
        /\ \A i \in 1 .. Len(queue) : queue'[i] = queue[i]
        /\ queue'[Len(queue) + 1] = t
    BY <2>2
  <2>4. /\ \A i \in 1 .. Len(queue) : i \in 1 .. Len(queue')
        /\ \A i \in 1 .. Len(queue') : i \in 1 .. Len(queue) \/ i = Len(queue) + 1
    BY <2>3
  <2>5. \A n \in 1 .. Len(queue') : src[n] = n
    BY Zenon
  <2> HIDE DEF src
  <2>6. \A n \in 1 .. Len(queue') : queue'[n][1] # "send" =>
          src[n] \in 1 .. Len(queue) /\ queue[src[n]] = queue'[n]
    BY <2>2, <2>3, <2>4, <2>5, Zenon
  <2>7. \A m, n \in 1 .. Len(queue') : src[m] = src[n] => m = n
    BY <2>5, Zenon
  <2>8. \A i \in 1 .. Len(queue) : queue[i][1] # "send" =>
          \E n \in 1 .. Len(queue') : src[n] = i /\ queue'[n] = queue[i]
    BY <2>3, <2>4, <2>5, Zenon
  <2>9. 1 \in 1 .. Len(queue) /\ queue[1][1] # "send" =>
          1 \in 1 .. Len(queue') /\ src[1] = 1 /\ queue'[1] = queue[1]
    BY <2>3, <2>4, <2>5, Zenon
  <2>10. Follows(src)
    BY <2>6, <2>7, <2>8, <2>9, Zenon DEF Follows
  <2> QED
    BY <2>1, <2>2, <2>3, <2>10, PollQueue, Zenon
<1>3. ASSUME SendRecheck \/ CrashDump PROVE PollInv'
  <2>1. /\ Up' => Up
        /\ UNCHANGED <<delayed, wpc, task, todo, total, retryState, scheduled, files>>
        /\ queue' = queue \/ queue' = Without("send")
    BY <1>3, Zenon DEF SendRecheck, CrashDump, DumpQueue, worker, retry, Up
  <2>2. CASE queue' = queue
    BY <2>1, <2>2, PollFrame, Zenon
  <2>3. CASE queue' = Without("send")
    <3>1. queue \in Seq(Tasks)
      BY Zenon DEF TypeInv
    <3>2. queue' \in Seq(Tasks) /\ \E src : Picks(queue', Rest("send"), src)
      BY <2>3, <3>1, WithoutShape, Zenon
    <3>3. PICK src : Picks(queue', Rest("send"), src)
      BY <3>2, Zenon
    <3>4. \A n \in 1 .. Len(queue') : src[n] \in 1 .. Len(queue) /\ queue[src[n]] = queue'[n]
      BY <3>3, Zenon DEF Rest, Picks
    <3>5. \A i \in 1 .. Len(queue) : queue[i][1] # "send" => i \in Rest("send")
      BY Zenon DEF Rest
    <3>6. \A i \in 1 .. Len(queue) : queue[i][1] # "send" =>
            \E n \in 1 .. Len(queue') : src[n] = i /\ queue'[n] = queue[i]
      <4> SUFFICES ASSUME NEW i \in 1 .. Len(queue), queue[i][1] # "send"
                   PROVE  \E n \in 1 .. Len(queue') : src[n] = i /\ queue'[n] = queue[i]
        BY Zenon
      <4>1. PICK n \in 1 .. Len(queue') : src[n] = i
        BY <3>3, <3>5, Zenon DEF Picks
      <4> QED
        BY <3>4, <4>1, Zenon
    <3>7. 1 \in 1 .. Len(queue) /\ queue[1][1] # "send" =>
            1 \in 1 .. Len(queue') /\ src[1] = 1 /\ queue'[1] = queue[1]
      <4> SUFFICES ASSUME 1 \in 1 .. Len(queue), queue[1][1] # "send"
                   PROVE  1 \in 1 .. Len(queue') /\ src[1] = 1 /\ queue'[1] = queue[1]
        BY Zenon
      <4>1. 1 \in 1 .. Len(queue') /\ src[1] = 1
        BY <3>3, <3>5, Zenon DEF Picks
      <4> QED
        BY <3>4, <4>1, Zenon
    <3>8. \A m, n \in 1 .. Len(queue') : src[m] = src[n] => m = n
      BY <3>3, Zenon DEF Picks
    <3>9. Follows(src)
      BY <3>4, <3>6, <3>7, <3>8, Zenon DEF Follows
    <3> QED
      BY <2>1, <3>1, <3>2, <3>9, PollQueue, Zenon
  <2> QED
    BY <2>1, <2>2, <2>3, Zenon
<1> QED
  BY <1>1, <1>2, <1>3, Zenon

\* The poll that becomes due, and a trigger after the startup poll.
LEMMA DuePolls ==
  ASSUME TypeInv, PollInv, ~EarlyTrigger
  PROVE  /\ PollDue => PollInv'
         /\ RetryTrigger => PollInv'
<1>1. ASSUME PollDue PROVE PollInv'
  <2>1. /\ Up' <=> Up
        /\ UNCHANGED <<wpc, task, todo, total, retryState, scheduled, files>>
    BY <1>1, Zenon DEF PollDue, worker, retry, disk, Up
  <2> SUFFICES ASSUME Up PROVE OpenInv' /\ OnePollInv' /\ FilesInv' /\ StartupInv'
    BY <2>1, Zenon DEF PollInv
  <2>2. OpenInv /\ OnePollInv /\ FilesInv /\ StartupInv
    BY Zenon DEF PollInv
  <2> DEFINE t == <<"poll", None>>
  <2>3. queue \in Seq(Tasks) /\ t[1] = "poll" /\ queue' = Append(queue, t)
    BY <1>1 DEF TypeInv, PollDue
  <2> HIDE DEF t
  <2> DEFINE k == Len(queue) + 1
  <2>4. /\ \A i \in 1 .. Len(queue) : queue'[i] = queue[i] /\ i \in 1 .. Len(queue')
        /\ \A i \in 1 .. Len(queue') : i \in 1 .. Len(queue) \/ i = k
        /\ queue'[k] = t /\ k \in 1 .. Len(queue')
        /\ queue' # <<>> /\ (queue # <<>> => 1 \in 1 .. Len(queue) /\ k # 1)
    BY <2>3
  <2> HIDE DEF k
  <2>5. (Executing("poll")' <=> Executing("poll")) /\ (Polling' <=> Polling)
    BY <2>1, Zenon DEF Executing, Polling
  <2>6. Executing("poll") => queue # <<>>
    <3>1. "poll" # "send"
      OBVIOUS
    <3> QED
      BY <2>2, <3>1, Zenon DEF Executing, OpenInv
  <2>7. delayed = 1 /\ delayed' = 0 /\ delayed' <= 1 /\ delayed' # 1
    BY <1>1, <2>2 DEF PollDue, TypeInv, OnePollInv
  <2>8. Waiting = {} /\ scheduled = "SCHEDULED"
    BY <2>2, <2>7, Zenon DEF OnePollInv
  <2>9. \A i \in Waiting' : i = k
    BY <2>4, <2>5, <2>8, Zenon DEF Waiting
  <2>10. k \in Waiting'
    BY <2>3, <2>4, <2>5, <2>6, Zenon DEF Waiting
  <2>11. OnePollInv'
    BY <2>1, <2>7, <2>8, <2>9, <2>10, Zenon DEF OnePollInv
  <2>12. OpenInv'
    BY <2>1, <2>2, <2>4, Zenon DEF OpenInv
  <2>13. FilesInv'
    BY <2>1, <2>2, <2>5, Zenon DEF FilesInv
  <2>14. t[1] # "flush" /\ t[1] # "trigger"
    BY <2>3
  <2>15. StartupInv'
    BY <2>1, <2>2, <2>4, <2>5, <2>14, Zenon DEF StartupInv
  <2> QED
    BY <2>11, <2>12, <2>13, <2>15, Zenon
<1>2. ASSUME RetryTrigger PROVE PollInv'
  <2>1. /\ Up' <=> Up
        /\ UNCHANGED <<wpc, task, todo, total, retryState, scheduled, files, delayed>>
    BY <1>2, Zenon DEF RetryTrigger, worker, retry, disk, Up
  <2> SUFFICES ASSUME Up PROVE OpenInv' /\ OnePollInv' /\ FilesInv' /\ StartupInv'
    BY <2>1, Zenon DEF PollInv
  <2>2. OpenInv /\ OnePollInv /\ FilesInv /\ StartupInv
    BY Zenon DEF PollInv
  <2>3. queue = <<>> /\ queue' = <<<<"trigger", None>>>> /\ retryState # "STARTUP"
    BY <1>2 DEF RetryTrigger
  <2>4. Waiting = {} /\ Waiting' = {}
    BY <2>3 DEF Waiting
  <2>5. Polling' <=> Polling
    BY <2>1, Zenon DEF Polling
  <2>6. OpenInv'
    BY <2>1, <2>2, <2>3, Zenon DEF OpenInv
  <2>7. OnePollInv'
    BY <2>1, <2>2, <2>4, Zenon DEF OnePollInv
  <2>8. FilesInv'
    BY <2>1, <2>2, <2>5, Zenon DEF FilesInv
  <2>9. \A i \in 1 .. Len(queue') : queue'[i][1] # "flush"
    BY <2>3
  <2>10. StartupInv'
    BY <2>1, <2>3, <2>9, Zenon DEF StartupInv
  <2> QED
    BY <2>6, <2>7, <2>8, <2>10, Zenon
<1> QED
  BY <1>1, <1>2, Zenon

\* The worker sends an envelope: a file it writes is followed by a poll.
LEMMA SendingPolls ==
  ASSUME TypeInv, PollInv, Up
  PROVE  /\ TakeSend => PollInv'
         /\ HttpResponse => PollInv'
         /\ HttpFailure => PollInv'
         /\ RetryEnqueue => PollInv'
         /\ RetryArm => PollInv'
<1>1. OpenInv /\ OnePollInv /\ FilesInv /\ StartupInv
  BY Zenon DEF PollInv
<1> DEFINE Sends == /\ UNCHANGED <<queue, total, todo>>
                    /\ wpc \in {"idle", "http", "enqueue", "arm"}
                    /\ wpc' \in {"http", "enqueue", "arm", "pop"}
                    /\ wpc' = "pop" => task' \in {"send"} \X Envelopes
<1>2. ASSUME Sends
      PROVE  /\ Waiting' = Waiting /\ ~Polling /\ ~Polling'
             /\ wpc' # "exited" /\ ~(wpc' \in {"retry", "pop"} /\ task'[1] # "send")
  <2>1. ~Executing("poll") /\ ~Polling
    BY <1>2 DEF Executing, Polling
  <2>2. ~Executing("poll")' /\ ~Polling'
    BY <1>2 DEF Executing, Polling
  <2>3. wpc' # "exited" /\ ~(wpc' \in {"retry", "pop"} /\ task'[1] # "send")
    BY <1>2
  <2> QED
    BY <1>2, <2>1, <2>2, <2>3, WaitingSame, Zenon
<1>3. wpc \in {"http", "enqueue", "arm"} => task \in {"send"} \X Envelopes
  BY Zenon DEF TypeInv, Sending
<1>4. ASSUME TakeSend \/ HttpResponse \/ HttpFailure PROVE PollInv'
  <2>1. /\ Sends /\ wpc # "arm" /\ UNCHANGED <<delayed, retryState, scheduled, files>>
    BY <1>3, <1>4, Zenon DEF TakeSend, HttpResponse, HttpFailure, retry, disk
  <2>2. /\ Waiting' = Waiting /\ ~Polling /\ ~Polling'
        /\ wpc' # "exited" /\ ~(wpc' \in {"retry", "pop"} /\ task'[1] # "send")
    BY <1>2, <2>1, Zenon
  <2> QED
    BY <1>1, <2>1, <2>2, Zenon DEF PollInv, OpenInv, OnePollInv, FilesInv, StartupInv
<1>5. ASSUME RetryEnqueue PROVE PollInv'
  <2>1. /\ Sends /\ UNCHANGED <<delayed, scheduled>> /\ wpc = "enqueue"
        /\ \/ wpc' = "arm" /\ retryState' = "RUNNING"
           \/ UNCHANGED <<files, retryState>>
    BY <1>3, <1>5, Zenon DEF RetryEnqueue
  <2>2. /\ Waiting' = Waiting /\ ~Polling /\ ~Polling'
        /\ wpc' # "exited" /\ ~(wpc' \in {"retry", "pop"} /\ task'[1] # "send")
    BY <1>2, <2>1, Zenon
  <2>3. OpenInv'
    BY <1>1, <2>1, <2>2 DEF OpenInv
  <2>4. OnePollInv'
    BY <1>1, <2>1, <2>2, Zenon DEF OnePollInv
  <2>5. FilesInv' /\ StartupInv'
    <3>1. CASE wpc' = "arm" /\ retryState' = "RUNNING"
      <4>1. retryState' # "STARTUP"
        BY <3>1
      <4> QED
        BY <1>1, <2>1, <2>2, <3>1, <4>1, Zenon DEF FilesInv, StartupInv
    <3>2. CASE UNCHANGED <<files, retryState>>
      <4>1. wpc # "arm"
        BY <2>1
      <4> QED
        BY <1>1, <2>1, <2>2, <3>2, <4>1, Zenon DEF FilesInv, StartupInv
    <3> QED
      BY <2>1, <3>1, <3>2, Zenon
  <2> QED
    BY <2>3, <2>4, <2>5, Zenon DEF PollInv
<1>6. ASSUME RetryArm PROVE PollInv'
  <2>1. Sends /\ UNCHANGED <<retryState, files>> /\ Arm
    BY <1>3, <1>6, Zenon DEF RetryArm, disk
  <2>2. /\ Waiting' = Waiting /\ ~Polling /\ ~Polling'
        /\ wpc' # "exited" /\ ~(wpc' \in {"retry", "pop"} /\ task'[1] # "send")
    BY <1>2, <2>1, Zenon
  <2>3. scheduled' = "SCHEDULED" /\ scheduled' # "SHUTDOWN"
    BY <1>1, <2>1 DEF TypeInv, Arm, MayArm, OpenInv
  <2>4. OnePollInv'
    <3>1. CASE MayArm
      <4>1. scheduled # "SCHEDULED"
        BY <3>1 DEF MayArm
      <4>2. delayed # 1 /\ Waiting = {}
        BY <1>1, <4>1, Zenon DEF OnePollInv
      <4>3. delayed' = 1 /\ delayed' <= 1
        BY <1>1, <2>1, <3>1, <4>2 DEF Arm, OnePollInv, TypeInv
      <4> QED
        BY <2>2, <2>3, <4>2, <4>3, Zenon DEF OnePollInv
    <3>2. CASE ~MayArm
      BY <1>1, <2>1, <2>2, <3>2, Zenon DEF OnePollInv, Arm
    <3> QED
      BY <3>1, <3>2, Zenon
  <2> QED
    BY <1>1, <2>1, <2>2, <2>3, <2>4, Zenon DEF PollInv, OpenInv, FilesInv, StartupInv
<1> QED
  BY <1>4, <1>5, <1>6, Zenon

\* The worker pops a task: the polls that wait move up.
LEMMA PopPolls ==
  ASSUME TypeInv, PollInv, Up, PopTask
  PROVE  PollInv'
<1>1. OpenInv /\ OnePollInv /\ FilesInv /\ StartupInv
  BY Zenon DEF PollInv
<1>2. /\ wpc = "pop" /\ wpc' = "idle"
      /\ UNCHANGED <<delayed, todo, total, retryState, scheduled, files>>
      /\ queue' = IF queue # <<>> /\ Head(queue) = task THEN Tail(queue) ELSE queue
  BY Zenon DEF PopTask, retry, disk
<1>3. /\ ~Executing("poll")' /\ ~Polling' /\ ~Polling /\ wpc' # "exited"
      /\ wpc' \notin {"retry", "pop"} /\ wpc # "arm"
  BY <1>2 DEF Executing, Polling
<1>4. OpenInv'
  BY <1>1, <1>2, <1>3, Zenon DEF OpenInv
<1>5. FilesInv'
  BY <1>1, <1>2, <1>3, Zenon DEF FilesInv
<1>6. CASE queue # <<>> /\ Head(queue) = task
  <2>1. /\ Len(queue) \in Nat /\ Len(queue') = Len(queue) - 1
        /\ \A i \in 1 .. Len(queue') :
             i + 1 \in 1 .. Len(queue) /\ queue'[i] = queue[i + 1] /\ i + 1 # 1
        /\ queue[1] = task
    BY <1>2, <1>6 DEF TypeInv
  <2>2. \A i \in 1 .. Len(queue) : i # 1 => i - 1 \in 1 .. Len(queue') /\ i = (i - 1) + 1
    BY <2>1
  <2>3. \A i \in Waiting : i # 1
    BY <1>2, <2>1, Zenon DEF Waiting, Executing
  <2>4. \A i \in Waiting' : i + 1 \in Waiting
    BY <1>3, <2>1, Zenon DEF Waiting
  <2>5. \A i \in Waiting : i - 1 \in Waiting'
    <3> SUFFICES ASSUME NEW i \in Waiting PROVE i - 1 \in Waiting'
      OBVIOUS
    <3>1. i \in 1 .. Len(queue) /\ queue[i][1] = "poll"
      BY Zenon DEF Waiting
    <3>2. i - 1 \in 1 .. Len(queue') /\ i = (i - 1) + 1
      BY <2>2, <2>3, <3>1, Zenon
    <3>3. queue'[i - 1] = queue[i]
      BY <2>1, <3>2, Zenon
    <3> QED
      BY <1>3, <3>1, <3>2, <3>3, Zenon DEF Waiting
  <2>6. \A i, j \in Waiting' : i = j
    <3> SUFFICES ASSUME NEW i \in Waiting', NEW j \in Waiting' PROVE i = j
      OBVIOUS
    <3>1. i \in 1 .. Len(queue') /\ j \in 1 .. Len(queue')
      BY Zenon DEF Waiting
    <3>2. i + 1 = j + 1
      BY <1>1, <2>4, Zenon DEF OnePollInv
    <3> QED
      BY <3>1, <3>2
  <2>7. Waiting' = {} <=> Waiting = {}
    BY <2>4, <2>5, Zenon
  <2>8. OnePollInv'
    BY <1>1, <1>2, <2>6, <2>7, Zenon DEF OnePollInv
  <2>9. StartupInv'
    BY <1>1, <1>2, <1>3, <2>1, Zenon DEF StartupInv
  <2> QED
    BY <1>4, <1>5, <2>8, <2>9, Zenon DEF PollInv
<1>7. CASE ~(queue # <<>> /\ Head(queue) = task)
  <2>1. queue' = queue
    BY <1>2, <1>7, Zenon
  <2>2. task[1] = "send"
    BY <1>1, <1>2, <1>7, QueueShape, Zenon DEF OpenInv, TypeInv
  <2>3. ~Executing("poll")
    BY <2>2 DEF Executing
  <2>4. Waiting' = Waiting
    BY <1>3, <2>1, <2>3, WaitingSame, Zenon
  <2> QED
    BY <1>1, <1>2, <1>3, <1>4, <1>5, <2>1, <2>4, Zenon DEF PollInv, OnePollInv, StartupInv
<1> QED
  BY <1>6, <1>7, Zenon

\* The worker takes a task of the retry store: a poll is no longer scheduled,
\* and counts all files there are.
LEMMA TakePolls ==
  ASSUME TypeInv, CountInv, PollInv, Up, wpc = "idle", queue # <<>>, Head(queue)[1] # "send",
         wpc' = "retry", task' = Head(queue),
         scheduled' = IF Head(queue)[1] = "poll" THEN Polled ELSE scheduled,
         UNCHANGED <<queue, delayed, retryState, files>>,
         \/ todo' = {} /\ total' = 1
         \/ total' = Cardinality(Considered(Head(queue)[1]))
  PROVE  PollInv'
<1>1. OpenInv /\ OnePollInv /\ FilesInv /\ StartupInv
  BY Zenon DEF PollInv
<1>2. ~Executing("poll") /\ ~Polling /\ wpc # "arm" /\ wpc' # "exited"
  BY DEF Executing, Polling
<1>3. 1 \in 1 .. Len(queue) /\ Head(queue) = queue[1]
  BY QueueShape, Zenon DEF TypeInv
<1>4. CASE queue[1][1] = "poll"
  <2>1. 1 \in Waiting
    BY <1>2, <1>3, <1>4, Zenon DEF Waiting
  <2>2. delayed # 1 /\ scheduled = "SCHEDULED" /\ \A i \in Waiting : i = 1
    BY <1>1, <2>1, Zenon DEF OnePollInv
  <2>3. scheduled' = "IDLE" /\ scheduled' # "SCHEDULED" /\ scheduled' # "SHUTDOWN"
    BY <1>3, <1>4, <2>2 DEF Polled
  <2>4. Executing("poll")' /\ Polling'
    BY <1>3, <1>4, Zenon DEF Executing, Polling
  <2>5. Waiting' = {}
    <3> SUFFICES ASSUME NEW i \in Waiting' PROVE FALSE
      BY Zenon
    <3>1. i \in 1 .. Len(queue) /\ queue[i][1] = "poll" /\ i # 1
      BY <2>4, Zenon DEF Waiting
    <3>2. i \in Waiting
      BY <1>2, <3>1, Zenon DEF Waiting
    <3> QED
      BY <2>2, <3>1, <3>2, Zenon
  <2>6. OpenInv'
    BY <1>1, <1>2, <1>3, <2>3, Zenon DEF OpenInv
  <2>7. OnePollInv'
    BY <1>1, <2>2, <2>3, <2>5, Zenon DEF OnePollInv
  <2>8. Considered("poll") = files
    BY <1>1, <1>2 DEF Considered, StartupInv
  <2>9. Cardinality(files) <= Cardinality(files)
    BY FS_CardinalityType DEF CountInv
  <2>10. total' = 1 => total' >= 1
    OBVIOUS
  <2>11. (todo' = {} /\ total' >= 1) \/ Cardinality(files') <= total'
    BY <1>3, <1>4, <2>8, <2>9, <2>10, Zenon
  <2>12. FilesInv' /\ StartupInv'
    BY <1>1, <2>4, <2>11, Zenon DEF FilesInv, StartupInv
  <2> QED
    BY <2>6, <2>7, <2>12, Zenon DEF PollInv
<1>5. CASE queue[1][1] # "poll"
  <2>1. ~Executing("poll")' /\ ~Polling'
    BY <1>3, <1>5, Zenon DEF Executing, Polling
  <2>2. Waiting' = Waiting /\ scheduled' = scheduled
    BY <1>2, <1>3, <1>5, <2>1, WaitingSame, Zenon
  <2> QED
    BY <1>1, <1>2, <1>3, <2>1, <2>2, Zenon DEF PollInv, OpenInv, OnePollInv, FilesInv, StartupInv
<1> QED
  BY <1>4, <1>5, Zenon

\* The worker sends a retry file: what stays is counted, and a file it writes
\* anew during a trigger is not before the startup poll.
LEMMA FilePolls ==
  ASSUME TypeInv, CountInv, PollInv, Up, NEW f \in files
  PROVE  RetryResponse(f) \/ RetryFailure(f) => PollInv'
<1> SUFFICES ASSUME RetryResponse(f) \/ RetryFailure(f) PROVE PollInv'
  BY Zenon
<1>1. OpenInv /\ OnePollInv /\ FilesInv /\ StartupInv
  BY Zenon DEF PollInv
<1>2. /\ UNCHANGED <<queue, delayed, wpc, task, retryState, scheduled>> /\ wpc = "retry"
      /\ f \in todo
  BY Zenon DEF RetryResponse, RetryFailure, retry, Oldest
<1>3. Waiting' = Waiting /\ (Polling' <=> Polling)
  BY <1>2, WaitingSame, Zenon DEF Executing, Polling
<1>4. OpenInv' /\ OnePollInv'
  BY <1>1, <1>2, <1>3, Zenon DEF OpenInv, OnePollInv
<1>5. \/ files' = files \ {f} /\ total' = total - 1
      \/ total' = total /\ \E g : files' = (files \ {f}) \cup {g}
  BY Zenon DEF RetryResponse, RetryFailure
<1>6. Polling => Cardinality(files') <= total'
  <2> SUFFICES ASSUME Polling PROVE Cardinality(files') <= total'
    OBVIOUS
  <2>1. Cardinality(files) <= total
    BY <1>1, <1>2, Zenon DEF FilesInv
  <2>2. /\ Cardinality(files) \in Nat /\ total \in Nat
        /\ Cardinality(files \ {f}) = Cardinality(files) - 1
        /\ \A g : /\ Cardinality((files \ {f}) \cup {g}) <= Cardinality(files)
                  /\ Cardinality((files \ {f}) \cup {g}) \in Nat
    BY FileCounts, FS_CardinalityType, Zenon DEF CountInv, TypeInv
  <2>3. CASE files' = files \ {f} /\ total' = total - 1
    BY <2>1, <2>2, <2>3
  <2>4. ASSUME total' = total, NEW g, files' = (files \ {f}) \cup {g}
        PROVE  Cardinality(files') <= total'
    <3>1. Cardinality(files') <= Cardinality(files) /\ Cardinality(files') \in Nat
      BY <2>2, <2>4, Zenon
    <3> QED
      BY <2>1, <2>2, <2>4, <3>1
  <2> QED
    BY <1>5, <2>3, <2>4, Zenon
<1>7. wpc # "arm"
  BY <1>2
<1>8. FilesInv'
  BY <1>1, <1>2, <1>3, <1>6, <1>7, Zenon DEF FilesInv
<1>9. ~Polling => retryState # "STARTUP"
  <2> SUFFICES ASSUME ~Polling PROVE retryState # "STARTUP"
    OBVIOUS
  <2>1. task[1] # "send" /\ task[1] # "poll" /\ task[1] \in {"poll", "flush", "trigger"}
    BY <1>2 DEF TypeInv, Polling
  <2>2. queue # <<>> /\ queue[1] = task
    BY <1>1, <1>2, <2>1, Zenon DEF OpenInv
  <2>3. 1 \in 1 .. Len(queue)
    BY <2>2, QueueShape, Zenon DEF TypeInv
  <2> QED
    BY <1>1, <2>1, <2>2, <2>3, Zenon DEF StartupInv
<1>10. StartupInv'
  BY <1>1, <1>2, <1>3, <1>9, Zenon DEF StartupInv
<1> QED
  BY <1>4, <1>8, <1>10, Zenon DEF PollInv

\* The end of a poll: if files are left it schedules the next one.
LEMMA DonePolls ==
  ASSUME TypeInv, CountInv, PollInv, Up, RetryDone
  PROVE  PollInv'
<1>1. OpenInv /\ OnePollInv /\ FilesInv /\ StartupInv
  BY Zenon DEF PollInv
<1>2. /\ UNCHANGED <<queue, task, files>> /\ wpc = "retry" /\ wpc' = "pop" /\ todo = {}
  BY Zenon DEF RetryDone, disk
<1>3. wpc # "arm" /\ wpc' # "arm" /\ wpc' # "exited" /\ ~Polling'
  BY <1>2 DEF Polling
<1>4. Waiting' = Waiting
  BY <1>2, WaitingSame, Zenon DEF Executing
<1>5. CASE task[1] # "poll"
  <2>1. UNCHANGED <<retryState, scheduled, delayed>> /\ ~Polling
    BY <1>5, Zenon DEF RetryDone, retry, Polling
  <2> QED
    BY <1>1, <1>2, <1>3, <1>4, <2>1, Zenon DEF PollInv, OpenInv, OnePollInv, FilesInv, StartupInv
<1>6. CASE task[1] = "poll"
  <2>1. Polling
    BY <1>2, <1>6, Zenon DEF Polling
  <2>2. files # {} => total > 0
    <3> SUFFICES ASSUME files # {} PROVE total > 0
      OBVIOUS
    <3>1. Cardinality(files) \in Nat /\ Cardinality(files) # 0 /\ total \in Nat
      BY FS_EmptySet, FS_CardinalityType, Zenon DEF CountInv
    <3>2. total >= 1 \/ Cardinality(files) <= total
      BY <1>1, <2>1, Zenon DEF FilesInv
    <3> QED
      BY <3>1, <3>2
  <2>3. IF total > 0 THEN Arm ELSE UNCHANGED <<scheduled, delayed>>
    BY <1>6, Zenon DEF RetryDone
  <2>4. retryState' # "STARTUP" /\ retryState' # "SEALED"
    BY <1>1, <1>6 DEF RetryDone, OpenInv
  <2>5. CASE total > 0 /\ MayArm
    <3>1. scheduled # "SCHEDULED"
      BY <2>5 DEF MayArm
    <3>2. delayed # 1 /\ Waiting = {}
      BY <1>1, <3>1, Zenon DEF OnePollInv
    <3>3. delayed' = 1 /\ delayed' <= 1 /\ scheduled' = "SCHEDULED" /\ scheduled' # "SHUTDOWN"
      BY <1>1, <2>3, <2>5, <3>2 DEF Arm, OnePollInv, TypeInv
    <3> QED
      BY <1>1, <1>2, <1>3, <1>4, <2>4, <3>2, <3>3, Zenon
         DEF PollInv, OpenInv, OnePollInv, FilesInv, StartupInv
  <2>6. CASE ~(total > 0 /\ MayArm)
    <3>1. UNCHANGED <<scheduled, delayed>>
      BY <2>3, <2>6, Zenon DEF Arm
    <3>2. files # {} => scheduled = "SCHEDULED"
      BY <1>1, <2>2, <2>6 DEF MayArm, OpenInv, TypeInv
    <3> QED
      BY <1>1, <1>2, <1>3, <1>4, <2>4, <3>1, <3>2, Zenon
         DEF PollInv, OpenInv, OnePollInv, FilesInv, StartupInv
  <2> QED
    BY <2>5, <2>6, Zenon
<1> QED
  BY <1>5, <1>6, Zenon

\* The worker's steps keep one poll due.
LEMMA WorkerPolls ==
  ASSUME TypeInv, CountInv, PollInv, WorkerStep
  PROVE  PollInv'
<1>1. mpc' = mpc
  BY Zenon DEF WorkerStep, TakeSend, HttpResponse, HttpFailure, RetryEnqueue, RetryArm, PopTask,
     TakeRetry,
     TakeRetrySkip, RetryDone, WorkerExit, RetryResponse, RetryFailure
<1> SUFFICES ASSUME Up PROVE PollInv'
  BY <1>1, Zenon DEF PollInv, Up
<1>2. ~WorkerExit
  BY DEF WorkerExit, Up
<1>3. CASE (\E ripe \in SUBSET files : TakeRetry(ripe)) \/ TakeRetrySkip
  <2>1. /\ wpc = "idle" /\ queue # <<>> /\ Head(queue)[1] # "send"
        /\ wpc' = "retry" /\ task' = Head(queue)
        /\ scheduled' = IF Head(queue)[1] = "poll" THEN Polled ELSE scheduled
        /\ UNCHANGED <<queue, delayed, retryState, files>>
        /\ \/ todo' = {} /\ total' = 1
           \/ total' = Cardinality(Considered(Head(queue)[1]))
    BY <1>3, Zenon DEF TakeRetry, TakeRetrySkip, disk
  <2> QED
    BY <2>1, TakePolls, Zenon
<1> QED
  BY <1>2, <1>3, SendingPolls, PopPolls, FilePolls, DonePolls, Zenon DEF WorkerStep

\* Every step keeps one poll due, unless a trigger overtakes the startup poll.
LEMMA PollStep == ~EarlyTrigger /\ TypeInv /\ CountInv /\ PollInv /\ [Next]_vars => PollInv'
<1> SUFFICES ASSUME ~EarlyTrigger, TypeInv, CountInv, PollInv, [Next]_vars PROVE PollInv'
  OBVIOUS
<1>1. CASE UNCHANGED vars \/ CrashSuspend \/ StartStep
  <2>1. UNCHANGED <<queue, delayed, wpc, task, todo, total, retryState, scheduled, files>>
    BY <1>1, Zenon DEF vars, CrashSuspend, StartStep, ProcessOldRun, RemoveOldRun, OldRunsDone,
       worker, retry, disk
  <2>2. Up' => Up
    BY <1>1, Zenon DEF vars, CrashSuspend, StartStep, ProcessOldRun, RemoveOldRun, OldRunsDone, Up
  <2> QED
    BY <2>1, <2>2, PollFrame, Zenon
<1>2. CASE ShutdownBegin \/ CloseStep \/ Die
  <2>1. ~Up'
    BY <1>2 DEF ShutdownBegin, CloseStep, RetryShutdown, ShutdownJoin, ShutdownTimeout, RetrySeal,
       CloseDump,
       Die, Up
  <2> QED
    BY <2>1, Zenon DEF PollInv
<1>3. CASE Restart
  <2>1. OpenInv'
    BY <1>3 DEF Restart, OpenInv
  <2>2. Waiting' = {}
    BY <1>3 DEF Restart, Waiting
  <2>3. OnePollInv'
    BY <1>3, <2>2 DEF Restart, OnePollInv
  <2>4. FilesInv'
    BY <1>3 DEF Restart, FilesInv, Polling
  <2>5. \A i \in 1 .. Len(queue') : FALSE
    BY <1>3 DEF Restart
  <2>6. \A f \in files' : f.era = "old"
    BY <1>3 DEF Restart, TypeInv, Files
  <2> QED
    BY <2>1, <2>3, <2>4, <2>5, <2>6, Zenon DEF PollInv, StartupInv
<1> QED
  BY <1>1, <1>2, <1>3, SenderPolls, DuePolls, WorkerPolls, Zenon DEF Next, CrashStep

(***************************************************************************)
(* The theorems.                                                           *)
(***************************************************************************)
\* The first start is typed and covered, and its poll is scheduled.
LEMMA InitInv == Init => IInv
<1> SUFFICES ASSUME Init PROVE IInv
  OBVIOUS
<1>1. TypeInv
  <2>1. queue \in Seq(Tasks) /\ delayed \in Nat
    BY DEF Init
  <2>2. wpc \notin Sending /\ wpc # "retry" /\ wpc # "pop"
    BY DEF Init, Sending
  <2> QED
    BY <2>1, <2>2, Zenon DEF Init, TypeInv
<1>2. CountInv
  BY FS_EmptySet DEF Init, CountInv
<1>3. CoverInv
  BY Zenon DEF Init, CoverInv
<1>4. PollInv
  <2>1. Waiting = {}
    BY DEF Init, Waiting
  <2>2. OpenInv
    BY DEF Init, OpenInv
  <2>3. OnePollInv
    BY <2>1 DEF Init, OnePollInv
  <2>4. FilesInv /\ StartupInv
    BY DEF Init, FilesInv, StartupInv, Polling
  <2> QED
    BY <2>2, <2>3, <2>4, Zenon DEF PollInv
<1> QED
  BY <1>1, <1>2, <1>3, <1>4, Zenon DEF IInv

\* Every step of the transport keeps the invariant.
LEMMA NextInv == IInv /\ [Next]_vars => IInv'
BY TypeStep, CountStep, CoverStep, PollStep, Zenon DEF IInv

\* The invariant holds whenever the transport runs.
LEMMA TransportInv == Spec => []IInv
BY InitInv, NextInv, PTL DEF Spec

\* The invariant types the variables as TypeOK does.
LEMMA InvTypes == IInv => TypeOK
<1> SUFFICES ASSUME IInv PROVE TypeOK
  OBVIOUS
<1>1. TypeInv /\ total \in Nat
  BY Zenon DEF IInv, CountInv
<1>2. \A i \in 1 .. Len(queue) : \/ queue[i] \in {"send"} \X Envelopes
                                 \/ queue[i] \in {"poll", "flush", "trigger"} \X {None}
  BY <1>1, QueueShape, TaskShape, Zenon DEF TypeInv
<1> QED
  BY <1>1, <1>2, Zenon DEF TypeOK, TypeInv, Files

\* The invariant covers every envelope whose call returned and that was not refused.
LEMMA InvKeeps == IInv => NothingLost
BY Zenon DEF IInv, CoverInv, NothingLost, Covered, Safe, Submitting

\* The invariant of the polls counts one where files wait.
LEMMA InvPolls ==
  ASSUME IInv, ~EarlyTrigger
  PROVE  PollArmed
<1> DEFINE Q == {i \in 1 .. Len(queue) : queue[i][1] = "poll"}
<1> SUFFICES ASSUME Up, wpc = "idle"
             PROVE  delayed + Cardinality(Q) <= 1 /\ (files # {} => delayed + Cardinality(Q) = 1)
  BY Zenon DEF PollArmed, Up
<1>1. OpenInv /\ OnePollInv /\ FilesInv /\ StartupInv /\ delayed \in Nat
  BY Zenon DEF IInv, PollInv, TypeInv
<1>2. ~Executing("poll") /\ ~Polling /\ wpc # "arm"
  BY DEF Executing, Polling
<1>3. Waiting = Q
  BY <1>2, Zenon DEF Waiting
<1>4. files # {} => delayed = 1 \/ Q # {}
  BY <1>1, <1>2, <1>3, Zenon DEF FilesInv, OnePollInv
<1>5. CASE Q = {}
  <2>1. Cardinality(Q) = 0
    BY <1>5, FS_EmptySet, Zenon
  <2> HIDE DEF Q
  <2> QED
    BY <1>1, <1>4, <1>5, <2>1 DEF OnePollInv
<1>6. CASE Q # {}
  <2>1. delayed # 1 /\ \A i, j \in Q : i = j
    BY <1>1, <1>3, <1>6, Zenon DEF OnePollInv
  <2> HIDE DEF Q
  <2>2. PICK i \in Q : TRUE
    BY <1>6, Zenon
  <2>3. Q = {i}
    BY <2>1, <2>2, Zenon
  <2>4. Cardinality(Q) = 1
    BY <2>3, FS_Singleton, Zenon
  <2> QED
    BY <1>1, <2>1, <2>4 DEF OnePollInv
<1> QED
  BY <1>5, <1>6, Zenon

\* An envelope whose sending call returned is lost in one window only
\* (sentry__transport_send_envelope, http_send_task, sentry__retry_send,
\* sentry__process_old_runs): at every moment of every run it is settled, on
\* disk, or in the queue of a process that will still dump it, unless its send
\* failed after a close that timed out had sealed the retry store and before it
\* dumped the queue (sentry__retry_enqueue returns false and the worker pops it).
\* That holds whatever crashes, restarts and closes, and in whatever order the
\* sending thread, the worker, the closing thread and the crash handler step.
THEOREM TransportKeeps == Spec => [](TypeOK /\ NothingLost)
BY TransportInv, InvTypes, InvKeeps, PTL

\* If sentry_transport_retry does not overtake the startup poll, then besides,
\* while the SDK runs, exactly one poll is due where retry files wait
\* (retry_poll_task, sentry__retry_enqueue), and never a second one.
THEOREM TransportRuns ==
  ASSUME ~EarlyTrigger
  PROVE  Spec => []TransportSafe
<1>1. IInv => TransportSafe
  BY InvTypes, InvKeeps, InvPolls, Zenon DEF TransportSafe
<1> QED
  BY <1>1, TransportInv, PTL
==============================================================================
