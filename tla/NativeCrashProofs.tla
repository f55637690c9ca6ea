------------------------- MODULE NativeCrashProofs ---------------------------
(***************************************************************************)
(* Machine-checked proofs about NativeCrash, for any number of threads,    *)
(* faults and lives of the backend and any set of options.                 *)
(*                                                                         *)
(* The argument: handling_crash is set once, so that at most one thread is *)
(* ever past it; a context is used by one life of the backend, since       *)
(* sentry__crash_ipc_free takes its name away and dooms whoever still      *)
(* works on it; and the state of the context says how far the daemon is,   *)
(* so that whoever claimed it still waits while the daemon reads.          *)
(***************************************************************************)
EXTENDS NativeCrash, TLAPS

(***************************************************************************)
(* The inductive invariant, part by part.                                  *)
(***************************************************************************)
Places == {"run", "dead", "doomed", "entered", "failfast", "search", "leave"} \cup InHandler
States == {"ready", "claiming", "crashed", "processing", "processed", "captured", "done"}
Reading == {"dump", "pending", "collect"}
Writing == {"write", "capture", "mark"}

TypeInv ==
  /\ opt \in Options
  /\ main \in {"off", "config", "spawn", "wait", "install", "publish", "up", "stop",
               "failed", "dead"}
  /\ pc \in [Threads -> Places]
  /\ flush \in {"idle", "checked"}
  /\ state \in States
  /\ waiter \in {"none", "waiting", "left", "gone"}
  /\ dmn \in {"gone", "boot", "loop", "look", "parent", "idlestop", "wer", "stop", "close"}
             \cup Reading \cup Writing
  /\ wer \in {"idle", "claimed", "poll", "finish"}

\* The main thread: the handlers are installed from "publish" to "up", and with
\* the context go the daemon and everybody who worked on it.
MainInv ==
  /\ up <=> main # "dead"
  /\ main = "dead" => \A t \in Threads : pc[t] = "dead"
  /\ armed <=> main \in {"publish", "up"}
  /\ main \in {"off", "config", "spawn", "wait", "install", "failed"} =>
       \A t \in Threads : pc[t] \notin InHandler
  /\ main \in {"off", "config", "spawn", "wait", "failed"} => wer \notin {"claimed", "poll"}
  /\ main \in {"off", "config", "spawn", "failed"} => dmn = "gone"
  /\ main \in {"off", "failed"} => ~linked /\ waiter # "waiting"

\* handling_crash is set by the one thread that goes on in the handler.
HandlingInv ==
  /\ \A t \in Threads : pc[t] \in InHandler =>
       handling /\ \A u \in Threads : pc[u] \in InHandler => u = t
  /\ ~handling => (state = "ready" /\ report = "none") \/ wer # "idle"

\* The state of the context: who moved it where it is.
StateInv ==
  /\ main \in {"config", "spawn", "wait"} => state = "ready"
  /\ main = "install" /\ ~opt.wer => state = "ready"
  /\ wer = "claimed" => state = "claiming"
  /\ wer = "poll" => state # "ready"
  /\ \A t \in Threads : pc[t] \in {"notify", "poll"} => state # "ready"
  /\ dmn \in Reading => state = "processing"
  /\ dmn = "wer" => state = "processed"
  /\ dmn \in Writing => state \in {"processing", "processed"}
  /\ dmn \in {"stop", "close"} => state \in {"processing", "processed", "captured"}

\* The claimant: one, who waits until it is let go or cut short.
WaiterInv ==
  /\ main = "stop" => "shutdown" \in hit
  /\ state = "ready" => waiter = "none"
  /\ \A t \in Threads : pc[t] \in {"notify", "poll"} =>
       waiter = "waiting" /\ wer \notin {"claimed", "poll"}
  /\ wer \in {"claimed", "poll"} => waiter = "waiting"
  /\ state \in {"claiming", "crashed", "processing"} /\ ~Truncated =>
       waiter = "waiting" /\ up

\* Once a thread has written the crash event, only a flush that was under way can
\* replace it.
EventKept == opt.discard \/ "flush" \in hit \/ (event = "crash" /\ flush = "idle")
EventInv ==
  /\ \A t \in Threads : /\ pc[t] \in InHandler => crashed
                        /\ pc[t] \in {"claim", "notify", "poll"} => EventKept
  /\ crashed /\ state # "ready" /\ wer = "idle" => EventKept
  /\ CrashEventUsed

IInv == TypeInv /\ MainInv /\ HandlingInv /\ StateInv /\ WaiterInv /\ EventInv

\* A step of the hand-off, or none.
HandoffStep == [Handoff!Next]_(Handoff!vars)

USE NativeAssumption DEF Places, States, Reading, Writing, InHandler, app, threads, context,
    daemon, werModule, disk, out, vars, Truncated, EventKept, CrashEventUsed
\* A step that leaves the state and the claimant alone is none of the hand-off.
LEMMA HandoffStutter ==
  ASSUME UNCHANGED <<state, waiter>>
  PROVE  HandoffStep
  BY DEF HandoffStep, Handoff!vars, Phase

\* The steps of the hand-off, on the phase of the state.
LEMMA HandoffDefs ==
  ASSUME \/ state = "ready" /\ state' \in {"claiming", "crashed"}
              /\ waiter = "none" /\ waiter' = "waiting"
         \/ state \in {"claiming", "crashed"} /\ state' \in {"claiming", "crashed", "processing"}
              /\ waiter' = waiter
         \/ state \in {"processing", "processed"} /\ state' \in {"processed", "captured"}
              /\ waiter' = waiter
         \/ state \in {"processing", "processed", "captured"} /\ state' = "done"
              /\ waiter' = waiter
         \/ state \in {"processed", "captured", "done"} /\ state' = state
              /\ waiter = "waiting" /\ waiter' = "left"
         \/ state' = state /\ waiter = "waiting" /\ waiter' = "gone"
         \/ waiter # "waiting" /\ state' = "ready" /\ waiter' = "none"
         \/ UNCHANGED <<state, waiter>>
  PROVE  HandoffStep
  BY Zenon DEF HandoffStep, Phase, Handoff!vars, Handoff!Next, Handoff!Claim, Handoff!Take,
         Handoff!Release, Handoff!Close, Handoff!Leave, Handoff!CutShort, Handoff!Rearm

\* The process ends, with whoever was in it.
LEMMA DieStep ==
  ASSUME IInv, Die
  PROVE  IInv' /\ HandoffStep
  <1> USE DEF IInv, Die, CutShort
  <1>1. TypeInv'
    BY DEF TypeInv
  <1>2. MainInv'
    BY DEF TypeInv, MainInv, StateInv
  <1>3. HandlingInv'
    BY DEF TypeInv, MainInv, HandlingInv
  <1>4. StateInv'
    BY DEF TypeInv, MainInv, StateInv
  <1>5. WaiterInv'
    BY DEF TypeInv, MainInv, StateInv, WaiterInv
  <1>6. EventInv'
    BY DEF TypeInv, MainInv, HandlingInv, EventInv
  <1>7. HandoffStep
    BY HandoffDefs DEF TypeInv, MainInv, StateInv, WaiterInv
  <1> QED  BY <1>1, <1>2, <1>3, <1>4, <1>5, <1>6, <1>7

\* A context is made, ready to be claimed.
LEMMA IpcInitStep ==
  ASSUME IInv, IpcInit
  PROVE  IInv' /\ HandoffStep
  <1> USE DEF IInv, IpcInit
  <1>1. TypeInv'
    BY DEF TypeInv
  <1>2. MainInv'
    BY DEF TypeInv, MainInv, StateInv
  <1>3. HandlingInv'
    BY DEF TypeInv, MainInv, HandlingInv
  <1>4. StateInv'
    BY DEF TypeInv, MainInv, StateInv
  <1>5. WaiterInv'
    BY DEF TypeInv, MainInv, StateInv, WaiterInv
  <1>6. EventInv'
    BY DEF TypeInv, MainInv, HandlingInv, EventInv
  <1>7. HandoffStep
    BY HandoffDefs DEF TypeInv, MainInv, StateInv, WaiterInv
  <1> QED  BY <1>1, <1>2, <1>3, <1>4, <1>5, <1>6, <1>7

\* It is filled in.
LEMMA ConfigureStep ==
  ASSUME IInv, Configure
  PROVE  IInv' /\ HandoffStep
  <1> USE DEF IInv, Configure, IpcFree, CutShort
  <1>1. TypeInv'
    BY DEF TypeInv
  <1>2. MainInv'
    BY DEF TypeInv, MainInv, StateInv
  <1>3. HandlingInv'
    BY DEF TypeInv, MainInv, HandlingInv
  <1>4. StateInv'
    BY DEF TypeInv, MainInv, StateInv
  <1>5. WaiterInv'
    BY DEF TypeInv, MainInv, StateInv, WaiterInv
  <1>6. EventInv'
    BY DEF TypeInv, MainInv, HandlingInv, EventInv
  <1>7. HandoffStep
    BY HandoffDefs DEF TypeInv, MainInv, StateInv, WaiterInv
  <1> QED  BY <1>1, <1>2, <1>3, <1>4, <1>5, <1>6, <1>7

\* The daemon is started, or not.
LEMMA DaemonStartStep ==
  ASSUME IInv, DaemonStart
  PROVE  IInv' /\ HandoffStep
  <1> USE DEF IInv, DaemonStart, IpcFree, Per, DaemonStartLinux, DaemonStartMac, DaemonStartWindows, CutShort
  <1>1. TypeInv'
    BY DEF TypeInv
  <1>2. MainInv'
    BY DEF TypeInv, MainInv, StateInv
  <1>3. HandlingInv'
    BY DEF TypeInv, MainInv, HandlingInv
  <1>4. StateInv'
    BY DEF TypeInv, MainInv, StateInv
  <1>5. WaiterInv'
    BY DEF TypeInv, MainInv, StateInv, WaiterInv
  <1>6. EventInv'
    BY DEF TypeInv, MainInv, HandlingInv, EventInv
  <1>7. HandoffStep
    BY HandoffDefs DEF TypeInv, MainInv, StateInv, WaiterInv
  <1> QED  BY <1>1, <1>2, <1>3, <1>4, <1>5, <1>6, <1>7

\* The wait for the daemon ends, whether or not it has signalled.
LEMMA WaitForReadyStep ==
  ASSUME IInv, WaitForReady
  PROVE  IInv' /\ HandoffStep
  <1> USE DEF IInv, WaitForReady
  <1>1. TypeInv'
    BY DEF TypeInv
  <1>2. MainInv'
    BY DEF TypeInv, MainInv, StateInv
  <1>3. HandlingInv'
    BY DEF TypeInv, MainInv, HandlingInv
  <1>4. StateInv'
    BY DEF TypeInv, MainInv, StateInv
  <1>5. WaiterInv'
    BY DEF TypeInv, MainInv, StateInv, WaiterInv
  <1>6. EventInv'
    BY DEF TypeInv, MainInv, HandlingInv, EventInv
  <1>7. HandoffStep
    BY HandoffStutter
  <1> QED  BY <1>1, <1>2, <1>3, <1>4, <1>5, <1>6, <1>7

\* The handlers are installed.
LEMMA CrashHandlerInitStep ==
  ASSUME IInv, CrashHandlerInit
  PROVE  IInv' /\ HandoffStep
  <1> USE DEF IInv, CrashHandlerInit, IpcFree, CutShort
  <1>1. TypeInv'
    BY DEF TypeInv
  <1>2. MainInv'
    BY DEF TypeInv, MainInv, StateInv
  <1>3. HandlingInv'
    BY DEF TypeInv, MainInv, HandlingInv
  <1>4. StateInv'
    BY DEF TypeInv, MainInv, StateInv
  <1>5. WaiterInv'
    BY DEF TypeInv, MainInv, StateInv, WaiterInv
  <1>6. EventInv'
    BY Zenon DEF TypeInv, MainInv, HandlingInv, EventInv
  <1>7. HandoffStep
    BY HandoffDefs, Zenon DEF TypeInv, MainInv, StateInv, WaiterInv
  <1> QED  BY <1>1, <1>2, <1>3, <1>4, <1>5, <1>6, <1>7

\* The options are published and the scope is flushed.
LEMMA PublishStep ==
  ASSUME IInv, Publish
  PROVE  IInv' /\ HandoffStep
  <1> USE DEF IInv, Publish
  <1>1. TypeInv'
    BY DEF TypeInv
  <1>2. MainInv'
    BY DEF TypeInv, MainInv, StateInv
  <1>3. HandlingInv'
    BY DEF TypeInv, MainInv, HandlingInv
  <1>4. StateInv'
    BY DEF TypeInv, MainInv, StateInv
  <1>5. WaiterInv'
    BY Zenon DEF TypeInv, MainInv, StateInv, WaiterInv
  <1>6. EventInv'
    BY Zenon DEF TypeInv, MainInv, HandlingInv, EventInv
  <1>7. HandoffStep
    BY HandoffStutter
  <1> QED  BY <1>1, <1>2, <1>3, <1>4, <1>5, <1>6, <1>7

\* A startup that fails takes the context away.
LEMMA StartupFailedStep ==
  ASSUME IInv, StartupFailed
  PROVE  IInv' /\ HandoffStep
  <1> USE DEF IInv, StartupFailed
  <1>1. TypeInv'
    BY DEF TypeInv
  <1>2. MainInv'
    BY DEF TypeInv, MainInv, StateInv
  <1>3. HandlingInv'
    BY DEF TypeInv, MainInv, HandlingInv
  <1>4. StateInv'
    BY DEF TypeInv, MainInv, StateInv
  <1>5. WaiterInv'
    BY DEF TypeInv, MainInv, StateInv, WaiterInv
  <1>6. EventInv'
    BY Zenon DEF TypeInv, MainInv, HandlingInv, EventInv
  <1>7. HandoffStep
    BY HandoffStutter
  <1> QED  BY <1>1, <1>2, <1>3, <1>4, <1>5, <1>6, <1>7

\* native_backend_flush_scope looks whether a crash is handled.
LEMMA FlushCheckStep ==
  ASSUME IInv, FlushCheck
  PROVE  IInv' /\ HandoffStep
  <1> USE DEF IInv, FlushCheck
  <1>1. TypeInv'
    BY DEF TypeInv
  <1>2. MainInv'
    BY DEF TypeInv, MainInv, StateInv
  <1>3. HandlingInv'
    BY DEF TypeInv, MainInv, HandlingInv
  <1>4. StateInv'
    BY DEF TypeInv, MainInv, StateInv
  <1>5. WaiterInv'
    BY Zenon DEF TypeInv, MainInv, StateInv, WaiterInv
  <1>6. EventInv'
    BY Zenon DEF TypeInv, MainInv, HandlingInv, EventInv
  <1>7. HandoffStep
    BY HandoffStutter
  <1> QED  BY <1>1, <1>2, <1>3, <1>4, <1>5, <1>6, <1>7

\* It writes the scope, whatever happened since it looked.
LEMMA FlushWriteStep ==
  ASSUME IInv, FlushWrite
  PROVE  IInv' /\ HandoffStep
  <1> USE DEF IInv, FlushWrite
  <1>1. TypeInv'
    BY DEF TypeInv
  <1>2. MainInv'
    BY Zenon DEF TypeInv, MainInv, StateInv
  <1>3. HandlingInv'
    BY DEF TypeInv, MainInv, HandlingInv
  <1>4. StateInv'
    BY Zenon DEF TypeInv, MainInv, StateInv
  <1>5. WaiterInv'
    BY Zenon DEF TypeInv, MainInv, StateInv, WaiterInv
  <1>6. EventInv'
    BY Zenon DEF TypeInv, MainInv, HandlingInv, EventInv
  <1>7. HandoffStep
    BY HandoffStutter
  <1> QED  BY <1>1, <1>2, <1>3, <1>4, <1>5, <1>6, <1>7

\* The handlers are taken out.
LEMMA ShutdownHandlersStep ==
  ASSUME IInv, ShutdownHandlers
  PROVE  IInv' /\ HandoffStep
  <1> USE DEF IInv, ShutdownHandlers
  <1>1. TypeInv'
    BY DEF TypeInv
  <1>2. MainInv'
    BY Zenon DEF TypeInv, MainInv, StateInv
  <1>3. HandlingInv'
    BY DEF TypeInv, MainInv, HandlingInv
  <1>4. StateInv'
    BY Zenon DEF TypeInv, MainInv, StateInv
  <1>5. WaiterInv'
    BY Zenon DEF TypeInv, MainInv, StateInv, WaiterInv
  <1>6. EventInv'
    BY Zenon DEF TypeInv, MainInv, HandlingInv, EventInv
  <1>7. HandoffStep
    BY HandoffStutter
  <1> QED  BY <1>1, <1>2, <1>3, <1>4, <1>5, <1>6, <1>7

\* The daemon is stopped and the context goes, with all who work on it.
LEMMA ShutdownDaemonStep ==
  ASSUME IInv, ShutdownDaemon
  PROVE  IInv' /\ HandoffStep
  <1> USE DEF IInv, ShutdownDaemon, IpcFree, CutShort
  <1>1. TypeInv'
    BY DEF TypeInv
  <1>2. MainInv'
    BY Zenon DEF TypeInv, MainInv, StateInv
  <1>3. HandlingInv'
    BY DEF TypeInv, MainInv, HandlingInv
  <1>4. StateInv'
    BY DEF TypeInv, MainInv, StateInv
  <1>5. WaiterInv'
    BY Zenon DEF TypeInv, MainInv, StateInv, WaiterInv
  <1>6. EventInv'
    BY Zenon DEF TypeInv, MainInv, HandlingInv, EventInv
  <1>7. HandoffStep
    BY HandoffDefs, Zenon DEF TypeInv, MainInv, StateInv, WaiterInv
  <1> QED  BY <1>1, <1>2, <1>3, <1>4, <1>5, <1>6, <1>7

\* The previous handlers run first and may take the signal.
LEMMA ChainAtStartStep ==
  ASSUME IInv, NEW t \in Threads, ChainAtStart(t)
  PROVE  IInv' /\ HandoffStep
  <1> USE DEF IInv, ChainAtStart, Goto
  <1>1. TypeInv'
    BY DEF TypeInv
  <1>2. MainInv'
    BY Zenon DEF TypeInv, MainInv, StateInv
  <1>3. HandlingInv'
    BY DEF TypeInv, MainInv, HandlingInv
  <1>4. StateInv'
    BY DEF TypeInv, MainInv, StateInv
  <1>5. WaiterInv'
    BY Zenon DEF TypeInv, MainInv, StateInv, WaiterInv
  <1>6. EventInv'
    BY Zenon DEF TypeInv, MainInv, HandlingInv, EventInv
  <1>7. HandoffStep
    BY HandoffStutter
  <1> QED  BY <1>1, <1>2, <1>3, <1>4, <1>5, <1>6, <1>7

\* native_backend_except writes the crash event.
LEMMA ExceptStep ==
  ASSUME IInv, NEW t \in Threads, Except(t)
  PROVE  IInv' /\ HandoffStep
  <1> USE DEF IInv, Except, Goto
  <1>1. TypeInv'
    BY DEF TypeInv
  <1>2. MainInv'
    BY Zenon DEF TypeInv, MainInv, StateInv
  <1>3. HandlingInv'
    BY DEF TypeInv, MainInv, HandlingInv
  <1>4. StateInv'
    BY Zenon DEF TypeInv, MainInv, StateInv
  <1>5. WaiterInv'
    BY Zenon DEF TypeInv, MainInv, StateInv, WaiterInv
  <1>6. EventInv'
    BY DEF TypeInv, MainInv, HandlingInv, EventInv
  <1>7. HandoffStep
    BY HandoffStutter
  <1> QED  BY <1>1, <1>2, <1>3, <1>4, <1>5, <1>6, <1>7

\* The compare and swap on the state of the context.
LEMMA ClaimSlotStep ==
  ASSUME IInv, NEW t \in Threads, ClaimSlot(t)
  PROVE  IInv' /\ HandoffStep
  <1> USE DEF IInv, ClaimSlot, Goto
  <1>1. TypeInv'
    BY DEF TypeInv
  <1>2. MainInv'
    BY Zenon DEF TypeInv, MainInv, StateInv
  <1>3. HandlingInv'
    BY DEF TypeInv, MainInv, HandlingInv
  <1>4. StateInv'
    BY Zenon DEF TypeInv, MainInv, StateInv
  <1>5. WaiterInv'
    BY Zenon DEF TypeInv, MainInv, StateInv, WaiterInv
  <1>6. EventInv'
    BY Zenon DEF TypeInv, MainInv, HandlingInv, EventInv
  <1>7. HandoffStep
    BY HandoffDefs, Zenon DEF TypeInv, MainInv, StateInv, WaiterInv
  <1> QED  BY <1>1, <1>2, <1>3, <1>4, <1>5, <1>6, <1>7

\* The claimant tells the daemon.
LEMMA NotifyStep ==
  ASSUME IInv, NEW t \in Threads, Notify(t)
  PROVE  IInv' /\ HandoffStep
  <1> USE DEF IInv, Notify, Goto
  <1>1. TypeInv'
    BY DEF TypeInv
  <1>2. MainInv'
    BY Zenon DEF TypeInv, MainInv, StateInv
  <1>3. HandlingInv'
    BY DEF TypeInv, MainInv, HandlingInv
  <1>4. StateInv'
    BY Zenon DEF TypeInv, MainInv, StateInv
  <1>5. WaiterInv'
    BY Zenon DEF TypeInv, MainInv, StateInv, WaiterInv
  <1>6. EventInv'
    BY Zenon DEF TypeInv, MainInv, HandlingInv, EventInv
  <1>7. HandoffStep
    BY HandoffStutter
  <1> QED  BY <1>1, <1>2, <1>3, <1>4, <1>5, <1>6, <1>7

\* It polls for the end, or for its timeout.
LEMMA PollStep ==
  ASSUME IInv, NEW t \in Threads, Poll(t)
  PROVE  IInv' /\ HandoffStep
  <1> USE DEF IInv, Poll, Goto, Released
  <1>1. TypeInv'
    BY DEF TypeInv
  <1>2. MainInv'
    BY Zenon DEF TypeInv, MainInv, StateInv
  <1>3. HandlingInv'
    BY DEF TypeInv, MainInv, HandlingInv
  <1>4. StateInv'
    BY Zenon DEF TypeInv, MainInv, StateInv
  <1>5. WaiterInv'
    BY DEF TypeInv, MainInv, HandlingInv, StateInv, WaiterInv
  <1>6. EventInv'
    BY Zenon DEF TypeInv, MainInv, HandlingInv, EventInv
  <1>7. HandoffStep
    BY HandoffDefs, Zenon DEF TypeInv, MainInv, StateInv, WaiterInv
  <1> QED  BY <1>1, <1>2, <1>3, <1>4, <1>5, <1>6, <1>7

\* The WER module sets the report id, and claims the context for a fail-fast.
LEMMA WerReportStep ==
  ASSUME IInv, NEW t \in Threads, WerReport(t)
  PROVE  IInv' /\ HandoffStep
  <1> USE DEF IInv, WerReport, Registered
  <1>1. TypeInv'
    BY DEF TypeInv
  <1>2. MainInv'
    BY Zenon DEF TypeInv, MainInv, StateInv
  <1>3. HandlingInv'
    BY Zenon DEF TypeInv, MainInv, HandlingInv
  <1>4. StateInv'
    BY Zenon DEF TypeInv, MainInv, StateInv
  <1>5. WaiterInv'
    BY Zenon DEF TypeInv, MainInv, StateInv, WaiterInv
  <1>6. EventInv'
    BY Zenon DEF TypeInv, MainInv, HandlingInv, EventInv
  <1>7. HandoffStep
    BY HandoffDefs, Zenon DEF TypeInv, MainInv, StateInv, WaiterInv
  <1> QED  BY <1>1, <1>2, <1>3, <1>4, <1>5, <1>6, <1>7

\* It tells the daemon.
LEMMA WerNotifyStep ==
  ASSUME IInv, WerNotify
  PROVE  IInv' /\ HandoffStep
  <1> USE DEF IInv, WerNotify
  <1>1. TypeInv'
    BY DEF TypeInv
  <1>2. MainInv'
    BY Zenon DEF TypeInv, MainInv, StateInv
  <1>3. HandlingInv'
    BY Zenon DEF TypeInv, MainInv, HandlingInv
  <1>4. StateInv'
    BY Zenon DEF TypeInv, MainInv, StateInv
  <1>5. WaiterInv'
    BY Zenon DEF TypeInv, MainInv, StateInv, WaiterInv
  <1>6. EventInv'
    BY Zenon DEF TypeInv, MainInv, HandlingInv, EventInv
  <1>7. HandoffStep
    BY HandoffDefs, Zenon DEF TypeInv, MainInv, StateInv, WaiterInv
  <1> QED  BY <1>1, <1>2, <1>3, <1>4, <1>5, <1>6, <1>7

\* It polls for the end, or for its timeout.
LEMMA WerPollStep ==
  ASSUME IInv, WerPoll
  PROVE  IInv' /\ HandoffStep
  <1> USE DEF IInv, WerPoll
  <1>1. TypeInv'
    BY DEF TypeInv
  <1>2. MainInv'
    BY Zenon DEF TypeInv, MainInv, StateInv
  <1>3. HandlingInv'
    BY Zenon DEF TypeInv, MainInv, HandlingInv
  <1>4. StateInv'
    BY Zenon DEF TypeInv, MainInv, StateInv
  <1>5. WaiterInv'
    BY Zenon DEF TypeInv, MainInv, StateInv, WaiterInv
  <1>6. EventInv'
    BY Zenon DEF TypeInv, MainInv, HandlingInv, EventInv
  <1>7. HandoffStep
    BY HandoffDefs, Zenon DEF TypeInv, MainInv, StateInv, WaiterInv
  <1> QED  BY <1>1, <1>2, <1>3, <1>4, <1>5, <1>6, <1>7

\* The daemon attaches to the context, or leaves.
LEMMA DaemonBootStep ==
  ASSUME IInv, DaemonBoot
  PROVE  IInv' /\ HandoffStep
  <1> USE DEF IInv, DaemonBoot
  <1>1. TypeInv'
    BY DEF TypeInv
  <1>2. MainInv'
    BY Zenon DEF TypeInv, MainInv, StateInv
  <1>3. HandlingInv'
    BY Zenon DEF TypeInv, MainInv, HandlingInv
  <1>4. StateInv'
    BY Zenon DEF TypeInv, MainInv, StateInv
  <1>5. WaiterInv'
    BY Zenon DEF TypeInv, MainInv, StateInv, WaiterInv
  <1>6. EventInv'
    BY Zenon DEF TypeInv, MainInv, HandlingInv, EventInv
  <1>7. HandoffStep
    BY HandoffStutter
  <1> QED  BY <1>1, <1>2, <1>3, <1>4, <1>5, <1>6, <1>7

\* It takes the notification, or its wait times out.
LEMMA DaemonWaitStep ==
  ASSUME IInv, DaemonWait
  PROVE  IInv' /\ HandoffStep
  <1> USE DEF IInv, DaemonWait, Daemon
  <1>1. TypeInv'
    BY DEF TypeInv
  <1>2. MainInv'
    BY Zenon DEF TypeInv, MainInv, StateInv
  <1>3. HandlingInv'
    BY Zenon DEF TypeInv, MainInv, HandlingInv
  <1>4. StateInv'
    BY Zenon DEF TypeInv, MainInv, StateInv
  <1>5. WaiterInv'
    BY Zenon DEF TypeInv, MainInv, StateInv, WaiterInv
  <1>6. EventInv'
    BY Zenon DEF TypeInv, MainInv, HandlingInv, EventInv
  <1>7. HandoffStep
    BY HandoffStutter
  <1> QED  BY <1>1, <1>2, <1>3, <1>4, <1>5, <1>6, <1>7, Zenon

\* It takes a claimed context.
LEMMA DaemonLookStep ==
  ASSUME IInv, DaemonLook
  PROVE  IInv' /\ HandoffStep
  <1> USE DEF IInv, DaemonLook, Daemon
  <1>1. TypeInv'
    BY DEF TypeInv
  <1>2. MainInv'
    BY Zenon DEF TypeInv, MainInv, StateInv
  <1>3. HandlingInv'
    BY Zenon DEF TypeInv, MainInv, HandlingInv
  <1>4. StateInv'
    BY Zenon DEF TypeInv, MainInv, StateInv
  <1>5. WaiterInv'
    BY Zenon DEF TypeInv, MainInv, StateInv, WaiterInv
  <1>6. EventInv'
    BY Zenon DEF TypeInv, MainInv, HandlingInv, EventInv
  <1>7. HandoffStep
    BY HandoffDefs, Zenon DEF TypeInv, MainInv, StateInv, WaiterInv
  <1> QED  BY <1>1, <1>2, <1>3, <1>4, <1>5, <1>6, <1>7, Zenon

\* It looks whether the process is still there.
LEMMA CheckParentStep ==
  ASSUME IInv, CheckParent
  PROVE  IInv' /\ HandoffStep
  <1> USE DEF IInv, CheckParent, Daemon
  <1>1. TypeInv'
    BY DEF TypeInv
  <1>2. MainInv'
    BY Zenon DEF TypeInv, MainInv, StateInv
  <1>3. HandlingInv'
    BY Zenon DEF TypeInv, MainInv, HandlingInv
  <1>4. StateInv'
    BY Zenon DEF TypeInv, MainInv, StateInv
  <1>5. WaiterInv'
    BY Zenon DEF TypeInv, MainInv, StateInv, WaiterInv
  <1>6. EventInv'
    BY Zenon DEF TypeInv, MainInv, HandlingInv, EventInv
  <1>7. HandoffStep
    BY HandoffStutter
  <1> QED  BY <1>1, <1>2, <1>3, <1>4, <1>5, <1>6, <1>7, Zenon

\* It reads the process and writes the minidump.
LEMMA WriteDumpStep ==
  ASSUME IInv, WriteDump
  PROVE  IInv' /\ HandoffStep
  <1> USE DEF IInv, WriteDump
  <1>1. TypeInv'
    BY DEF TypeInv
  <1>2. MainInv'
    BY Zenon DEF TypeInv, MainInv, StateInv
  <1>3. HandlingInv'
    BY Zenon DEF TypeInv, MainInv, HandlingInv
  <1>4. StateInv'
    BY Zenon DEF TypeInv, MainInv, StateInv
  <1>5. WaiterInv'
    BY Zenon DEF TypeInv, MainInv, StateInv, WaiterInv
  <1>6. EventInv'
    BY Zenon DEF TypeInv, MainInv, HandlingInv, EventInv
  <1>7. HandoffStep
    BY HandoffStutter, Zenon
  <1> QED  BY <1>1, <1>2, <1>3, <1>4, <1>5, <1>6, <1>7, Zenon

\* It queues the envelopes the process left.
LEMMA QueuePendingStep ==
  ASSUME IInv, QueuePending
  PROVE  IInv' /\ HandoffStep
  <1> USE DEF IInv, QueuePending, Daemon
  <1>1. TypeInv'
    BY DEF TypeInv
  <1>2. MainInv'
    BY Zenon DEF TypeInv, MainInv, StateInv
  <1>3. HandlingInv'
    BY Zenon DEF TypeInv, MainInv, HandlingInv
  <1>4. StateInv'
    BY Zenon DEF TypeInv, MainInv, StateInv
  <1>5. WaiterInv'
    BY Zenon DEF TypeInv, MainInv, StateInv, WaiterInv
  <1>6. EventInv'
    BY Zenon DEF TypeInv, MainInv, HandlingInv, EventInv
  <1>7. HandoffStep
    BY HandoffStutter, Zenon
  <1> QED  BY <1>1, <1>2, <1>3, <1>4, <1>5, <1>6, <1>7, Zenon

\* It reads modules and threads, and lets the process go if a report id is due.
LEMMA CollectStep ==
  ASSUME IInv, Collect
  PROVE  IInv' /\ HandoffStep
  <1> USE DEF IInv, Collect
  <1>1. TypeInv'
    BY DEF TypeInv
  <1>2. MainInv'
    BY Zenon DEF TypeInv, MainInv, StateInv
  <1>3. HandlingInv'
    BY Zenon DEF TypeInv, MainInv, StateInv, HandlingInv
  <1>4. StateInv'
    BY Zenon DEF TypeInv, MainInv, StateInv
  <1>5. WaiterInv'
    BY Zenon DEF TypeInv, MainInv, StateInv, WaiterInv
  <1>6. EventInv'
    BY Zenon DEF TypeInv, MainInv, StateInv, HandlingInv, EventInv
  <1>7. HandoffStep
    BY HandoffDefs, Zenon DEF TypeInv, MainInv, StateInv, WaiterInv
  <1> QED  BY <1>1, <1>2, <1>3, <1>4, <1>5, <1>6, <1>7, Zenon

\* The report id arrives, or the wait times out.
LEMMA WaitForWerStep ==
  ASSUME IInv, WaitForWer
  PROVE  IInv' /\ HandoffStep
  <1> USE DEF IInv, WaitForWer, Daemon
  <1>1. TypeInv'
    BY DEF TypeInv
  <1>2. MainInv'
    BY Zenon DEF TypeInv, MainInv, StateInv
  <1>3. HandlingInv'
    BY Zenon DEF TypeInv, MainInv, HandlingInv
  <1>4. StateInv'
    BY Zenon DEF TypeInv, MainInv, StateInv
  <1>5. WaiterInv'
    BY Zenon DEF TypeInv, MainInv, StateInv, WaiterInv
  <1>6. EventInv'
    BY Zenon DEF TypeInv, MainInv, HandlingInv, EventInv
  <1>7. HandoffStep
    BY HandoffStutter, Zenon
  <1> QED  BY <1>1, <1>2, <1>3, <1>4, <1>5, <1>6, <1>7, Zenon

\* It writes the envelope with the crash event it finds.
LEMMA WriteEnvelopeStep ==
  ASSUME IInv, WriteEnvelope
  PROVE  IInv' /\ HandoffStep
  <1> USE DEF IInv, WriteEnvelope
  <1>1. TypeInv'
    BY DEF TypeInv
  <1>2. MainInv'
    BY Zenon DEF TypeInv, MainInv, StateInv
  <1>3. HandlingInv'
    BY Zenon DEF TypeInv, MainInv, StateInv, HandlingInv
  <1>4. StateInv'
    BY Zenon DEF TypeInv, MainInv, StateInv
  <1>5. WaiterInv'
    BY Zenon DEF TypeInv, MainInv, StateInv, WaiterInv
  <1>6. EventInv'
    BY Zenon DEF TypeInv, MainInv, StateInv, HandlingInv, EventInv
  <1>7. HandoffStep
    BY HandoffStutter, Zenon
  <1> QED  BY <1>1, <1>2, <1>3, <1>4, <1>5, <1>6, <1>7, Zenon

\* It hands the envelope to the reporter or to its transport.
LEMMA CaptureEnvelopeStep ==
  ASSUME IInv, CaptureEnvelope
  PROVE  IInv' /\ HandoffStep
  <1> USE DEF IInv, CaptureEnvelope
  <1>1. TypeInv'
    BY DEF TypeInv
  <1>2. MainInv'
    BY Zenon DEF TypeInv, MainInv, StateInv
  <1>3. HandlingInv'
    BY Zenon DEF TypeInv, MainInv, HandlingInv
  <1>4. StateInv'
    BY Zenon DEF TypeInv, MainInv, StateInv
  <1>5. WaiterInv'
    BY Zenon DEF TypeInv, MainInv, StateInv, WaiterInv
  <1>6. EventInv'
    BY Zenon DEF TypeInv, MainInv, HandlingInv, EventInv
  <1>7. HandoffStep
    BY HandoffStutter, Zenon
  <1> QED  BY <1>1, <1>2, <1>3, <1>4, <1>5, <1>6, <1>7, Zenon

\* It lets the process go, if uploads are asynchronous.
LEMMA MarkCapturedStep ==
  ASSUME IInv, MarkCaptured
  PROVE  IInv' /\ HandoffStep
  <1> USE DEF IInv, MarkCaptured, Daemon
  <1>1. TypeInv'
    BY Zenon DEF TypeInv
  <1>2. MainInv'
    BY Zenon DEF TypeInv, MainInv, StateInv
  <1>3. HandlingInv'
    BY Zenon DEF TypeInv, MainInv, StateInv, HandlingInv
  <1>4. StateInv'
    BY Zenon DEF TypeInv, MainInv, StateInv
  <1>5. WaiterInv'
    BY Zenon DEF TypeInv, MainInv, StateInv, WaiterInv
  <1>6. EventInv'
    BY Zenon DEF TypeInv, MainInv, StateInv, HandlingInv, EventInv
  <1>7. HandoffStep
    BY HandoffDefs, Zenon DEF TypeInv, MainInv, StateInv, WaiterInv
  <1> QED  BY <1>1, <1>2, <1>3, <1>4, <1>5, <1>6, <1>7, Zenon

\* It stops its transport.
LEMMA StopTransportStep ==
  ASSUME IInv, StopTransport
  PROVE  IInv' /\ HandoffStep
  <1> USE DEF IInv, StopTransport, Daemon
  <1>1. TypeInv'
    BY DEF TypeInv
  <1>2. MainInv'
    BY Zenon DEF TypeInv, MainInv, StateInv
  <1>3. HandlingInv'
    BY Zenon DEF TypeInv, MainInv, HandlingInv
  <1>4. StateInv'
    BY Zenon DEF TypeInv, MainInv, StateInv
  <1>5. WaiterInv'
    BY Zenon DEF TypeInv, MainInv, StateInv, WaiterInv
  <1>6. EventInv'
    BY Zenon DEF TypeInv, MainInv, HandlingInv, EventInv
  <1>7. HandoffStep
    BY HandoffStutter, Zenon
  <1> QED  BY <1>1, <1>2, <1>3, <1>4, <1>5, <1>6, <1>7, Zenon

\* It says that it is done, and leaves.
LEMMA DaemonDoneStep ==
  ASSUME IInv, DaemonDone
  PROVE  IInv' /\ HandoffStep
  <1> USE DEF IInv, DaemonDone, Daemon, Per, LeftByLinux, LeftByMac, LeftByWindows
  <1>1. TypeInv'
    BY DEF TypeInv
  <1>2. MainInv'
    BY DEF TypeInv, MainInv, StateInv
  <1>3. HandlingInv'
    BY DEF TypeInv, MainInv, StateInv, HandlingInv
  <1>4. StateInv'
    BY DEF TypeInv, MainInv, StateInv
  <1>5. WaiterInv'
    BY DEF TypeInv, MainInv, StateInv, WaiterInv
  <1>6. EventInv'
    BY DEF TypeInv, MainInv, StateInv, HandlingInv, EventInv
  <1>7. HandoffStep
    BY HandoffDefs DEF TypeInv, MainInv, StateInv, WaiterInv
  <1> QED  BY <1>1, <1>2, <1>3, <1>4, <1>5, <1>6, <1>7

\* It leaves without a crash.
LEMMA DaemonIdleStopStep ==
  ASSUME IInv, DaemonIdleStop
  PROVE  IInv' /\ HandoffStep
  <1> USE DEF IInv, DaemonIdleStop, Daemon, Per, LeftByLinux, LeftByMac, LeftByWindows
  <1>1. TypeInv'
    BY DEF TypeInv
  <1>2. MainInv'
    BY DEF TypeInv, MainInv, StateInv
  <1>3. HandlingInv'
    BY DEF TypeInv, MainInv, HandlingInv
  <1>4. StateInv'
    BY DEF TypeInv, MainInv, StateInv
  <1>5. WaiterInv'
    BY DEF TypeInv, MainInv, StateInv, WaiterInv
  <1>6. EventInv'
    BY DEF TypeInv, MainInv, HandlingInv, EventInv
  <1>7. HandoffStep
    BY HandoffStutter
  <1> QED  BY <1>1, <1>2, <1>3, <1>4, <1>5, <1>6, <1>7

\* It is killed wherever it is.
LEMMA DaemonKilledStep ==
  ASSUME IInv, DaemonKilled
  PROVE  IInv' /\ HandoffStep
  <1> USE DEF IInv, DaemonKilled
  <1>1. TypeInv'
    BY DEF TypeInv
  <1>2. MainInv'
    BY Zenon DEF TypeInv, MainInv, StateInv
  <1>3. HandlingInv'
    BY Zenon DEF TypeInv, MainInv, HandlingInv
  <1>4. StateInv'
    BY Zenon DEF TypeInv, MainInv, StateInv
  <1>5. WaiterInv'
    BY Zenon DEF TypeInv, MainInv, StateInv, WaiterInv
  <1>6. EventInv'
    BY Zenon DEF TypeInv, MainInv, HandlingInv, EventInv
  <1>7. HandoffStep
    BY HandoffStutter
  <1> QED  BY <1>1, <1>2, <1>3, <1>4, <1>5, <1>6, <1>7, Zenon

\* The next launch sends what is left in the run directory.
LEMMA NextLaunchStep ==
  ASSUME IInv, NextLaunch
  PROVE  IInv' /\ HandoffStep
  <1> USE DEF IInv, NextLaunch
  <1>1. TypeInv'
    BY DEF TypeInv
  <1>2. MainInv'
    BY Zenon DEF TypeInv, MainInv, StateInv
  <1>3. HandlingInv'
    BY Zenon DEF TypeInv, MainInv, HandlingInv
  <1>4. StateInv'
    BY Zenon DEF TypeInv, MainInv, StateInv
  <1>5. WaiterInv'
    BY Zenon DEF TypeInv, MainInv, StateInv, WaiterInv
  <1>6. EventInv'
    BY Zenon DEF TypeInv, MainInv, HandlingInv, EventInv
  <1>7. HandoffStep
    BY HandoffStutter, Zenon
  <1> QED  BY <1>1, <1>2, <1>3, <1>4, <1>5, <1>6, <1>7, Zenon

\* Steps that either end the process or move one thread.
LEMMA EnterHandlerStep ==
  ASSUME IInv, NEW t \in Threads, EnterHandler(t)
  PROVE  IInv' /\ HandoffStep
  <1> USE DEF IInv, EnterHandler, Goto
  <1>1. CASE Die
    BY <1>1, DieStep, Zenon
  <1>2. CASE ~Die
    <2> USE <1>2
    <2>1. TypeInv'
      BY DEF TypeInv
    <2>2. MainInv'
      BY Zenon DEF TypeInv, MainInv
    <2>3. HandlingInv'
      BY DEF TypeInv, MainInv, HandlingInv
    <2>4. StateInv'
      BY DEF TypeInv, StateInv
    <2>5. WaiterInv'
      BY DEF TypeInv, WaiterInv
    <2>6. EventInv'
      BY DEF TypeInv, HandlingInv, EventInv
    <2>7. HandoffStep
      BY HandoffStutter, Zenon
    <2> QED  BY <2>1, <2>2, <2>3, <2>4, <2>5, <2>6, <2>7, Zenon
  <1> QED  BY <1>1, <1>2, Zenon

\* A thread faults.
LEMMA FaultStep ==
  ASSUME IInv, NEW t \in Threads, Fault(t)
  PROVE  IInv' /\ HandoffStep
  <1> USE DEF IInv
  <1>1. CASE Die
    BY <1>1, DieStep, Zenon DEF Fault
  <1>2. CASE ~Die
    <2>0. PICK place \in {"entered", "failfast"} :
            /\ pc[t] = "run" /\ pc' = [pc EXCEPT ![t] = place]
            /\ UNCHANGED <<opt, app, flush, context, daemon, werModule, disk, out, hit>>
      BY <1>2, Zenon DEF Fault, Goto
    <2> USE <2>0
    <2>1. TypeInv'
      BY DEF TypeInv
    <2>2. MainInv'
      BY Zenon DEF TypeInv, MainInv
    <2>3. HandlingInv'
      BY Zenon DEF TypeInv, HandlingInv
    <2>4. StateInv'
      BY Zenon DEF TypeInv, StateInv
    <2>5. WaiterInv'
      BY Zenon DEF TypeInv, WaiterInv
    <2>6. EventInv'
      BY Zenon DEF TypeInv, EventInv
    <2>7. HandoffStep
      BY HandoffStutter, Zenon
    <2> QED  BY <2>1, <2>2, <2>3, <2>4, <2>5, <2>6, <2>7, Zenon
  <1> QED  BY <1>1, <1>2

\* The signal is raised again; on Windows the search goes on.
LEMMA LeaveHandlerStep ==
  ASSUME IInv, NEW t \in Threads, LeaveHandler(t)
  PROVE  IInv' /\ HandoffStep
  <1> USE DEF IInv, LeaveHandler, Goto
  <1>1. CASE opt.os # "windows"
    BY <1>1, DieStep, Zenon
  <1>2. CASE opt.os = "windows"
    <2> USE <1>2
    <2>1. TypeInv'
      BY Zenon DEF TypeInv
    <2>2. MainInv'
      BY Zenon DEF TypeInv, MainInv
    <2>3. HandlingInv'
      BY DEF TypeInv, HandlingInv
    <2>4. StateInv'
      BY DEF TypeInv, StateInv
    <2>5. WaiterInv'
      BY DEF TypeInv, WaiterInv
    <2>6. EventInv'
      BY Zenon DEF TypeInv, EventInv
    <2>7. HandoffStep
      BY HandoffStutter, Zenon
    <2> QED  BY <2>1, <2>2, <2>3, <2>4, <2>5, <2>6, <2>7, Zenon
  <1> QED  BY <1>1, <1>2, Zenon

\* Nothing of the invariant depends on a step that changes nothing.
LEMMA StutterStep ==
  ASSUME IInv, UNCHANGED vars
  PROVE  IInv' /\ HandoffStep
  <1>1. IInv'
    BY DEF IInv, TypeInv, MainInv, HandlingInv, StateInv, WaiterInv, EventInv
  <1>2. HandoffStep
    BY HandoffStutter, Zenon
  <1> QED  BY <1>1, <1>2

(***************************************************************************)
(* The theorems.                                                           *)
(***************************************************************************)
LEMMA InitInv == Init => IInv /\ Handoff!Init
  BY Zenon DEF Init, IInv, TypeInv, MainInv, HandlingInv, StateInv, WaiterInv, EventInv, Phase,
         Handoff!Init

\* Every step keeps the invariant and is a step of the hand-off, or none.
LEMMA NextStep ==
  ASSUME IInv, [Next]_vars
  PROVE  IInv' /\ HandoffStep
  <1>1. CASE Startup
    BY <1>1, IpcInitStep, ConfigureStep, DaemonStartStep, WaitForReadyStep,
       CrashHandlerInitStep, PublishStep, StartupFailedStep, Zenon DEF Startup
  <1>2. CASE Shutdown \/ FlushCheck \/ FlushWrite
    BY <1>2, ShutdownHandlersStep, ShutdownDaemonStep, FlushCheckStep, FlushWriteStep, Zenon
       DEF Shutdown
  <1>3. ASSUME NEW t \in Threads, Fault(t) \/ ChainAtStart(t)
        PROVE  IInv' /\ HandoffStep
    BY <1>3, FaultStep, ChainAtStartStep, Zenon
  <1>4. ASSUME NEW t \in Threads, Handle(t)
        PROVE  IInv' /\ HandoffStep
    BY <1>4, EnterHandlerStep, ExceptStep, ClaimSlotStep, NotifyStep, PollStep,
       LeaveHandlerStep, WerReportStep, DieStep, Zenon DEF Handle, UseAfterFree, WerUnregistered
  <1>5. CASE Wer
    BY <1>5, WerNotifyStep, WerPollStep, DieStep, Zenon DEF Wer, WerFinish
  <1>6. CASE DaemonStep
    BY <1>6, DaemonBootStep, DaemonWaitStep, DaemonLookStep, CheckParentStep, WriteDumpStep,
       QueuePendingStep, CollectStep, WaitForWerStep, WriteEnvelopeStep, CaptureEnvelopeStep,
       MarkCapturedStep, StopTransportStep, DaemonDoneStep, DaemonIdleStopStep, Zenon
       DEF DaemonStep
  <1>7. CASE DaemonKilled \/ NextLaunch
    BY <1>7, DaemonKilledStep, NextLaunchStep, Zenon
  <1>8. CASE Over \/ UNCHANGED vars
    BY <1>8, StutterStep, Zenon DEF Over
  <1> QED  BY <1>1, <1>2, <1>3, <1>4, <1>5, <1>6, <1>7, <1>8, Zenon DEF Next

\* The invariant holds in every reachable state, whatever the number of threads,
\* of lives of the backend and of faults.
THEOREM NativeInvariant == Spec => []IInv
  <1>1. Init => IInv
    BY InitInv
  <1>2. IInv /\ [Next]_vars => IInv'
    BY NextStep, Zenon
  <1> QED  BY <1>1, <1>2, PTL DEF Spec

\* The daemon reads modules and threads of a process that is still there, is only
\* ever started on a context that can be claimed, and reports the event that
\* native_backend_except wrote: for every number of threads that crash at once,
\* with WER, timeouts, sentry_close and a daemon that is killed at any point.
THEOREM NativeHandover == Spec => []HandoverSafe
  <1>1. IInv => HandoverSafe
    BY Zenon DEF IInv, MainInv, StateInv, WaiterInv, EventInv, HandoverSafe, AliveWhileRead,
           FreshContext
  <1> QED  BY <1>1, NativeInvariant, PTL

\* The compare and swap of crash_signal_handler, the WER module's claim and the
\* daemon's stores to the shared state implement the hand-off of CrashHandoff:
\* one claim, taken once, and a claimant that was not cut short leaves only once
\* the daemon let go.
THEOREM NativeImplementsHandoff == Spec => HandoffImplemented
  <1>1. Init => Handoff!Init
    BY InitInv
  <1>2. IInv /\ [Next]_vars => [Handoff!Next]_(Handoff!vars)
    BY NextStep, Zenon DEF HandoffStep
  <1> QED  BY <1>1, <1>2, NativeInvariant, PTL DEF Spec, HandoffImplemented, Handoff!Spec
=============================================================================
