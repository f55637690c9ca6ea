----------------------------- MODULE NativeCrash -----------------------------
(***************************************************************************)
(* The native crash backend: the application with its signal handler or    *)
(* exception filter (native/sentry_crash_handler.c), the shared crash      *)
(* context (native/sentry_crash_ipc.c), the crash daemon                   *)
(* (native/sentry_crash_daemon.c), the WER module that reports fail-fast   *)
(* exceptions on Windows (native/sentry_wer.c), and the backend that ties  *)
(* them together (sentry_backend_native.c).                                *)
(*                                                                         *)
(* Application threads may fault at any time, also while the main thread   *)
(* starts or stops the backend and while another thread handles a crash.   *)
(* A timeout is a step that a waiting party may take instead of what it    *)
(* waits for.  `hit` records what cut a report short: a second crash       *)
(* ("second"), the handler's timeout ("timeout"), the end of the backend   *)
(* ("shutdown"), the death of the daemon ("kill"), a failed read or write  *)
(* of the daemon ("io"), a network error on the last copy of the crash     *)
(* ("network"), and a scope flush that was under way when the crash event  *)
(* was written ("flush").                                                  *)
(***************************************************************************)
EXTENDS Naturals, FiniteSets

CONSTANTS Threads,    \* application threads that may fault
          Options,    \* the configurations to check
          MaxStarts,  \* bound: lives of the backend
          MaxFaults   \* bound: faults

\* Windows Error Reporting is a service of Windows.
ASSUME NativeAssumption ==
  \A o \in Options : o.os \in {"linux", "macos", "windows"} /\ (o.wer => o.os = "windows")

VARIABLES opt,      \* the options the backend was started with
          up,       \* the application process is alive
          main,     \* where sentry_init or sentry_close is
          starts,   \* lives of the backend so far
          pc,       \* where each thread is
          faults,   \* faults so far
          armed,    \* the handlers are installed (and g_crash_ipc set)
          handling, \* handling_crash
          crashed,  \* the backend's crashed flag
          flush,    \* a thread inside flush_scope: "idle" or "checked"
          state,    \* the state of the shared context; "claiming" is the PROCESSING
                    \* that the WER module sets
          linked,   \* the context's name exists
          waiter,   \* what became of whoever claimed the context
          bell,     \* the crash notification is pending
          dmn,      \* where the daemon is
          dump,     \* the minidump was written
          wer,      \* where the WER module is
          werDone,  \* the WER module has delivered its report id
          event,    \* what the event file holds
          files,    \* envelopes in the run directory
          queue,    \* envelopes in the daemon's transport
          sent,     \* envelopes that were delivered
          report,   \* the event in the crash envelope
          callback, \* calls of on_crashed_last_run
          hit       \* what cut a report short

app == <<up, main, starts, armed, handling, crashed>>
threads == <<pc, faults, flush>>
context == <<state, linked, waiter, bell>>
daemon == <<dmn, dump, queue>>
werModule == <<wer, werDone>>
disk == <<event, files>>
out == <<sent, report, callback>>
vars == <<opt, app, threads, context, daemon, werModule, disk, out, hit>>

Minidump == opt.mode # "native"
UsesNative == opt.mode # "minidump"

Init == /\ opt \in Options
        /\ up = TRUE /\ main = "off" /\ starts = 0
        /\ pc = [t \in Threads |-> "run"] /\ faults = 0 /\ flush = "idle"
        /\ armed = FALSE /\ handling = FALSE /\ crashed = FALSE
        /\ state = "ready" /\ linked = FALSE /\ waiter = "none"
        /\ bell = FALSE /\ dmn = "gone" /\ dump = FALSE /\ queue = {}
        /\ wer = "idle" /\ werDone = FALSE
        /\ event = "none" /\ files = {}
        /\ sent = {} /\ report = "none" /\ callback = 0 /\ hit = {}

\* Past the claim a thread works on the mapped context.
InHandler == {"except", "claim", "notify", "poll"}

CutShort == IF waiter = "waiting" THEN "gone" ELSE waiter

\* The process ends, and every thread with it; somebody who still waits for the
\* daemon was cut short by another crash.
Die == /\ up' = FALSE /\ main' = "dead" /\ armed' = FALSE
       /\ pc' = [t \in Threads |-> "dead"]
       /\ flush' = "idle"
       /\ waiter' = IF wer \in {"claimed", "poll"} THEN waiter ELSE CutShort
       /\ hit' = IF waiter = "waiting" THEN hit \cup {"second"} ELSE hit
       /\ UNCHANGED <<opt, starts, faults, handling, crashed, state, linked, bell,
                      daemon, werModule, disk, out>>

-----------------------------------------------------------------------------
(* native_backend_startup *)

\* sentry__crash_ipc_init_app: a context under the name of this process and
\* thread, initialised only if it is new; without one the backend does not start.
IpcInit == /\ up /\ main = "off" /\ starts < MaxStarts
           /\ \/ /\ main' = "config" /\ starts' = starts + 1
                 /\ linked' = TRUE /\ bell' = FALSE
                 /\ IF linked THEN UNCHANGED <<state, waiter, werDone>>
                              ELSE state' = "ready" /\ waiter' = "none" /\ werDone' = FALSE
              \/ /\ main' = "failed"
                 /\ UNCHANGED <<starts, context, werDone>>
           /\ UNCHANGED <<opt, up, threads, armed, handling, crashed, daemon, wer, disk, out,
                          hit>>

\* sentry__crash_ipc_free in the application: threads that still hold the
\* mapping fault on it, and a WER module is left with a context of its own.
IpcFree == /\ linked' = FALSE
           /\ pc' = [t \in Threads |-> IF pc[t] \in InHandler THEN "doomed" ELSE pc[t]]
           /\ waiter' = CutShort
           /\ wer' = IF wer \in {"claimed", "poll"} THEN "finish" ELSE wer

\* The options go to the context and the event file is created empty, under the
\* lock of the IPC, which may fail; the run of this start is a new one.
Configure == /\ main = "config"
             /\ \/ /\ main' = "spawn"
                   /\ event' = "empty" /\ files' = {} /\ crashed' = FALSE
                   /\ report' = "none" /\ hit' = {} /\ sent' = {}
                   /\ UNCHANGED <<linked, pc, waiter, wer>>
                \/ /\ main' = "failed" /\ opt.os # "macos" /\ IpcFree
                   /\ UNCHANGED <<event, files, crashed, report, hit, sent>>
             /\ UNCHANGED <<opt, up, starts, armed, handling, faults, flush, state, bell,
                            daemon, werDone, callback>>

\* daemon_start on Linux: the parent does not learn that the child could not
\* execute the daemon.
DaemonStartLinux == {"boot", "gone", "none"}

\* posix_spawn on macOS, and CreateProcess on Windows, report it.
DaemonStartMac == {"boot", "none"}
DaemonStartWindows == {"boot", "none"}

Per(linux, mac, windows) == CASE opt.os = "linux" -> linux
                              [] opt.os = "macos" -> mac
                              [] opt.os = "windows" -> windows

\* No daemon at all ends the startup.
DaemonStart ==
    /\ main = "spawn"
    /\ \E child \in Per(DaemonStartLinux, DaemonStartMac, DaemonStartWindows) :
          \/ /\ child # "none"
             /\ main' = "wait" /\ dmn' = child
             /\ hit' = IF child = "gone" THEN hit \cup {"kill"} ELSE hit
             /\ UNCHANGED <<linked, pc, waiter, wer>>
          \/ /\ child = "none"
             /\ main' = "failed" /\ IpcFree
             /\ UNCHANGED <<dmn, hit>>
    /\ UNCHANGED <<opt, up, starts, armed, handling, crashed, faults, flush, state, bell, dump,
                   queue, werDone, disk, out>>

\* sentry__crash_ipc_wait_for_ready: whether the daemon signals or the wait times
\* out, the startup goes on.
WaitForReady == /\ main = "wait"
                /\ main' = "install"
                /\ UNCHANGED <<opt, up, starts, armed, handling, crashed, threads, context,
                               daemon, werModule, disk, out, hit>>

\* sentry__crash_handler_init; a failure stops the daemon and frees the context.
CrashHandlerInit ==
    /\ main = "install"
    /\ \/ /\ main' = "publish" /\ armed' = TRUE
          /\ UNCHANGED <<dmn, queue, linked, pc, waiter, wer>>
       \/ /\ opt.os # "windows"
          /\ main' = "failed" /\ dmn' = "gone" /\ queue' = {} /\ IpcFree
          /\ UNCHANGED armed
    /\ UNCHANGED <<opt, up, starts, handling, crashed, faults, flush, state, bell,
                   dump, werDone, disk, out, hit>>

\* sentry_init sets g_options once the backend has started, then flushes the
\* scope; until then it holds the lock that a handler needs for the options.
Publish == /\ main = "publish"
           /\ main' = "up"
           /\ event' = IF crashed THEN event ELSE "scope"
           /\ UNCHANGED <<opt, up, starts, armed, handling, crashed, threads, context, daemon,
                          werModule, files, out, hit>>

StartupFailed == /\ main = "failed"
                 /\ main' = "off"
                 /\ starts' = MaxStarts
                 /\ UNCHANGED <<opt, up, armed, handling, crashed, threads, context, daemon,
                                werModule, disk, out, hit>>

\* Mutant: the flag is not read.
FlushUnchecked == /\ main = "up" /\ flush = "idle"
                  /\ flush' = "checked"
                  /\ UNCHANGED <<opt, app, pc, faults, context, daemon, werModule, disk, out, hit>>

\* native_backend_flush_scope: the flag is read before the event is written.
FlushCheck == /\ main = "up" /\ flush = "idle" /\ ~crashed
              /\ flush' = "checked"
              /\ UNCHANGED <<opt, app, pc, faults, context, daemon, werModule, disk, out, hit>>

FlushWrite == /\ flush = "checked"
              /\ flush' = "idle" /\ event' = "scope"
              /\ UNCHANGED <<opt, app, pc, faults, context, daemon, werModule, files, out, hit>>

-----------------------------------------------------------------------------
(* native_backend_shutdown, under the lock of the options *)

\* sentry__crash_handler_shutdown
ShutdownHandlers == /\ main = "up"
                    /\ main' = "stop" /\ armed' = FALSE
                    /\ hit' = hit \cup {"shutdown"}
                    /\ UNCHANGED <<opt, up, starts, handling, crashed, threads, context, daemon,
                                   werModule, disk, out>>

\* SIGTERM or TerminateProcess, and waiting for the daemon's end; then
\* sentry__crash_ipc_free, and the run is cleaned and the options are gone.
ShutdownDaemon == /\ main = "stop"
                  /\ main' = "off"
                  /\ dmn' = "gone" /\ queue' = {}
                  /\ IpcFree
                  /\ UNCHANGED <<opt, up, starts, armed, handling, crashed, faults, flush, state,
                                 bell, dump, werDone, disk, out, hit>>

-----------------------------------------------------------------------------
(* crash_signal_handler and crash_exception_filter *)

Goto(t, l) == pc' = [pc EXCEPT ![t] = l]

\* A fault.  Without handlers the process ends.  A fail-fast exception of
\* Windows bypasses the filter and goes to the WER module.
Fault(t) == /\ up /\ pc[t] = "run" /\ faults < MaxFaults
            /\ \/ /\ armed /\ Goto(t, "entered")
                  /\ faults' = faults + 1
                  /\ UNCHANGED <<opt, app, flush, context, daemon, werModule, disk, out, hit>>
               \/ /\ armed /\ opt.os = "windows" /\ Goto(t, "failfast")
                  /\ faults' = faults + 1
                  /\ UNCHANGED <<opt, app, flush, context, daemon, werModule, disk, out, hit>>
               \/ /\ ~armed /\ Die

\* CHAIN_AT_START: the previous handler runs first and may turn the signal into
\* an exception of a managed runtime.
ChainAtStart(t) == /\ pc[t] = "entered" /\ opt.chain
                   /\ Goto(t, "run")
                   /\ UNCHANGED <<opt, app, faults, flush, context, daemon, werModule, disk,
                                  out, hit>>

\* The first to set handling_crash handles the crash, which native_backend_except
\* flags before it waits for the options.  Without a context the signal is forwarded; a second crash ends the process at once.
EnterHandler(t) ==
    /\ pc[t] = "entered"
    /\ IF ~handling /\ armed
       THEN /\ handling' = TRUE /\ crashed' = TRUE /\ Goto(t, "except")
            /\ UNCHANGED <<opt, up, main, starts, armed, faults, flush, context, daemon,
                           werModule, disk, out, hit>>
       ELSE IF opt.os = "windows"
       THEN /\ handling' = TRUE /\ Goto(t, "search")
            /\ UNCHANGED <<opt, up, main, starts, armed, crashed, faults, flush, context, daemon,
                           werModule, disk, out, hit>>
       ELSE Die

\* native_backend_except, once the lock of the options is free: unless a hook
\* discards the crash, the event file gets the crash event, and the session and
\* the envelopes of the transport go to the run directory.
Except(t) == /\ pc[t] = "except" /\ main \in {"up", "off"}
             /\ Goto(t, "claim")
             /\ IF main = "up"
                THEN /\ event' = IF opt.discard THEN event ELSE "crash"
                     /\ files' = IF opt.discard THEN files ELSE files \cup {"pending"}
                     /\ hit' = IF flush = "checked" THEN hit \cup {"flush"} ELSE hit
                ELSE UNCHANGED <<event, files, hit>>
             /\ UNCHANGED <<opt, app, faults, flush, context, daemon, werModule, out>>

\* Mutant: the state is set without a compare and swap.
ClaimUnchecked(t) == /\ pc[t] = "claim"
                     /\ state' = "crashed" /\ waiter' = "waiting" /\ Goto(t, "notify")
                     /\ UNCHANGED <<opt, app, faults, flush, linked, bell, daemon, werModule,
                                    disk, out, hit>>

\* READY -> CRASHED; whoever fails leaves the crash to the one that claimed it.
ClaimSlot(t) == /\ pc[t] = "claim"
                /\ IF state = "ready"
                   THEN state' = "crashed" /\ waiter' = "waiting" /\ Goto(t, "notify")
                   ELSE UNCHANGED <<state, waiter>> /\ Goto(t, "leave")
                /\ UNCHANGED <<opt, app, faults, flush, linked, bell, daemon, werModule,
                               disk, out, hit>>

Notify(t) == /\ pc[t] = "notify"
             /\ bell' = TRUE /\ Goto(t, "poll")
             /\ UNCHANGED <<opt, app, faults, flush, state, linked, waiter, daemon,
                            werModule, disk, out, hit>>

\* The states that let the handler go; the filter of Windows also leaves while
\* the daemon waits for the WER report.
Released == IF opt.os = "windows" THEN {"processed", "captured", "done"} ELSE {"captured", "done"}

\* The waiting loop ends when the daemon has what it needs, or by the timeout.
Poll(t) == /\ pc[t] = "poll"
           /\ Goto(t, "leave")
           /\ \/ state \in Released /\ waiter' = "left" /\ UNCHANGED hit
              \/ state \notin Released /\ waiter' = "gone" /\ hit' = hit \cup {"timeout"}
           /\ UNCHANGED <<opt, app, faults, flush, state, linked, bell, daemon, werModule,
                          disk, out>>

\* The handlers are reset and the signal is raised again; the filter of Windows
\* continues the search, which ends in the WER service.
LeaveHandler(t) == /\ pc[t] = "leave"
                   /\ IF opt.os = "windows"
                      THEN /\ Goto(t, "search")
                           /\ UNCHANGED <<opt, app, faults, flush, context, daemon, werModule,
                                          disk, out, hit>>
                      ELSE Die

\* The handler touches the context after it was unmapped.
UseAfterFree(t) == /\ pc[t] = "doomed"
                   /\ Die

-----------------------------------------------------------------------------
(* process_wer_exception: the WER service calls the module before it ends  *)
(* the process.  The report id comes first; only a fail-fast exception     *)
(* claims the context.                                                     *)

Registered == opt.wer /\ main \in {"install", "publish", "up"}

WerUnregistered(t) == /\ pc[t] \in {"search", "failfast"} /\ wer = "idle" /\ ~Registered
                      /\ Die

WerReport(t) == /\ pc[t] \in {"search", "failfast"} /\ wer = "idle" /\ Registered
                /\ werDone' = TRUE
                /\ IF pc[t] = "failfast" /\ state = "ready"
                   THEN state' = "claiming" /\ wer' = "claimed" /\ waiter' = "waiting"
                   ELSE wer' = "finish" /\ UNCHANGED <<state, waiter>>
                /\ UNCHANGED <<opt, app, threads, linked, bell, daemon, disk, out, hit>>

WerNotify == /\ wer = "claimed"
             /\ state' = "crashed" /\ bell' = TRUE /\ wer' = "poll"
             /\ UNCHANGED <<opt, app, threads, linked, waiter, daemon, werDone, disk, out,
                            hit>>

WerPoll == /\ wer = "poll"
           /\ wer' = "finish"
           /\ \/ state \in {"captured", "done"} /\ waiter' = "left" /\ UNCHANGED hit
              \/ state \notin {"captured", "done"} /\ waiter' = "gone"
                 /\ hit' = hit \cup {"timeout"}
           /\ UNCHANGED <<opt, app, threads, state, linked, bell, daemon, werDone, disk, out>>

\* The WER service ends the process, whatever other threads are doing.
WerFinish == /\ wer = "finish" /\ up
             /\ Die

Wer == WerNotify \/ WerPoll \/ WerFinish

-----------------------------------------------------------------------------
(* sentry__crash_daemon_main *)

Daemon(from, to) == dmn = from /\ dmn' = to

\* sentry__crash_ipc_init_daemon: the name must still exist, except on macOS, where
\* the daemon inherits the descriptor.
AttachLinux == linked
AttachMac == TRUE
AttachWindows == linked

\* sentry__crash_ipc_unlink in the daemon: on macOS it does not know the name; on
\* Windows the name goes with its last user.
LeftByLinux == FALSE
LeftByMac == linked
LeftByWindows == linked /\ up

\* The daemon attaches to the context, adopts the run, signals ready and starts
\* its transport.
DaemonBoot == /\ dmn = "boot"
              /\ dmn' = IF Per(AttachLinux, AttachMac, AttachWindows) THEN "loop" ELSE "gone"
              /\ UNCHANGED <<opt, app, threads, context, dump, queue, werModule, disk, out, hit>>

\* sentry__crash_ipc_wait: the notification is consumed, or the wait times out.
DaemonWait == /\ \/ bell /\ Daemon("loop", "look")
                 \/ ~bell /\ Daemon("loop", "parent")
              /\ bell' = FALSE
              /\ UNCHANGED <<opt, app, threads, state, linked, waiter, dump, queue, werModule,
                             disk, out, hit>>

DaemonLook == /\ \/ state = "crashed" /\ Daemon("look", "dump") /\ state' = "processing"
                 \/ state # "crashed" /\ Daemon("look", "parent") /\ UNCHANGED state
              /\ UNCHANGED <<opt, app, threads, linked, waiter, bell, dump, queue, werModule,
                             disk, out, hit>>

\* is_parent_alive
CheckParent == /\ \/ up /\ Daemon("parent", "loop")
                  \/ ~up /\ Daemon("parent", "idlestop")
               /\ UNCHANGED <<opt, app, threads, context, dump, queue, werModule, disk, out, hit>>

(* sentry__process_crash *)

\* sentry__write_minidump needs the crashed process; a report without a dump
\* goes on only where it has a stack trace of its own.
WriteDump == /\ \E ok \in BOOLEAN :
                   /\ ok => up
                   /\ dump' = (ok /\ Minidump)
                   /\ hit' = IF Minidump /\ up /\ ~ok THEN hit \cup {"io"} ELSE hit
             /\ dmn = "dump"
             /\ dmn' = IF Minidump /\ ~dump' /\ ~UsesNative THEN "stop" ELSE "pending"
             /\ UNCHANGED <<opt, app, threads, context, queue, werModule, disk, out>>

\* sentry__process_run_envelopes: what the crashed process left behind goes
\* first.
QueuePending == /\ Daemon("pending", "collect")
                /\ queue' = queue \cup (files \ {"crash"})
                /\ files' = files \cap {"crash"}
                /\ UNCHANGED <<opt, app, threads, context, dump, werModule, event, out, hit>>

\* Modules and threads are read from the crashed process; where the WER service
\* will deliver a report id, the process is let go first.
Collect == /\ dmn = "collect"
           /\ IF opt.wer /\ ~werDone
              THEN dmn' = "wer" /\ state' = "processed"
              ELSE dmn' = "write" /\ UNCHANGED state
           /\ UNCHANGED <<opt, app, threads, linked, waiter, bell, dump, queue, werModule, disk,
                          out, hit>>

\* The report id arrives, or the wait times out.
WaitForWer == /\ Daemon("wer", "write")
              /\ UNCHANGED <<opt, app, threads, context, dump, queue, werModule, disk, out, hit>>

\* The crash envelope is written to the run directory, with the event that the
\* event file holds.
WriteEnvelope == /\ dmn = "write"
                 /\ \/ /\ dmn' = "capture" /\ files' = files \cup {"crash"}
                       /\ report' = event
                       /\ UNCHANGED hit
                    \/ /\ dmn' = "stop" /\ hit' = hit \cup {"io"}
                       /\ UNCHANGED <<files, report>>
                 /\ UNCHANGED <<opt, app, threads, context, dump, queue, werModule, event, sent,
                                callback>>

\* Mutant: the file is removed and the envelope forgotten.
CaptureDropped == /\ Daemon("capture", "mark")
                  /\ files' = IF opt.lastRun THEN files ELSE files \ {"crash"}
                  /\ UNCHANGED <<opt, app, threads, context, dump, queue, werModule, event, out,
                                 hit>>

\* The envelope is read back and goes to the external reporter or the transport;
\* with references to attachments it is also written for a resend.  Its file
\* stays only for the callback of the next launch.
CaptureEnvelope ==
    /\ dmn = "capture"
    /\ LET kept == IF opt.lastRun THEN files ELSE files \ {"crash"} IN
       \/ /\ dmn' = "stop" /\ hit' = hit \cup {"io"}
          /\ UNCHANGED <<queue, files, sent>>
       \/ /\ dmn' = "mark" /\ opt.reporter
          /\ sent' = sent \cup {"crash"} /\ files' = kept
          /\ UNCHANGED <<queue, hit>>
       \/ /\ dmn' = "mark"
          /\ queue' = queue \cup {"crash"}
          /\ files' = kept \cup (IF opt.refs THEN {"resend"} ELSE {})
          /\ UNCHANGED <<sent, hit>>
    /\ UNCHANGED <<opt, app, threads, context, dump, werModule, event, report, callback>>

\* Asynchronous uploads let the process go here.
MarkCaptured == /\ Daemon("mark", "stop")
                /\ state' = IF opt.async THEN "captured" ELSE state
                /\ UNCHANGED <<opt, app, threads, linked, waiter, bell, dump, queue, werModule,
                               disk, out, hit>>

\* sentry__transport_shutdown and sentry__transport_dump_queue.  The worker has
\* no retry store: of the envelopes it comes to, some are answered and those that
\* meet a network error are discarded.  What is in the queue when the timeout is
\* over (also the one it is at) goes to the run directory.  After a clean shutdown
\* the queue is empty, and nothing stays there but the crash envelope: the copy
\* kept for resending goes too, whether or not the crash was sent.
StopTransport ==
  /\ Daemon("stop", "close")
  /\ \E answered \in SUBSET queue, failed \in SUBSET queue, left \in SUBSET queue :
       /\ answered \cup failed \cup left = queue /\ answered \cap failed = {}
       /\ sent' = sent \cup answered
       /\ \/ left = {} /\ files' = files \cap {"crash"}
          \/ files' = files \cup {IF e = "crash" THEN "resend" ELSE e : e \in left}
       /\ hit' = IF "crash" \in failed /\ "resend" \notin files' THEN hit \cup {"network"} ELSE hit
  /\ queue' = {}
  /\ UNCHANGED <<opt, app, threads, context, dump, werModule, event, report, callback>>

DaemonDone == /\ Daemon("close", "gone")
              /\ state' = "done"
              /\ linked' = Per(LeftByLinux, LeftByMac, LeftByWindows)
              /\ UNCHANGED <<opt, app, threads, waiter, bell, dump, queue, werModule, disk, out,
                             hit>>

\* Without a crash the context's name goes with the parent.
DaemonIdleStop == /\ Daemon("idlestop", "gone")
                  /\ linked' = Per(LeftByLinux, LeftByMac, LeftByWindows) /\ queue' = {}
                  /\ UNCHANGED <<opt, app, threads, state, waiter, bell, dump, werModule, disk,
                                 out, hit>>

DaemonStep == \/ DaemonBoot \/ DaemonWait \/ DaemonLook \/ CheckParent \/ WriteDump
              \/ QueuePending \/ Collect \/ WaitForWer \/ WriteEnvelope \/ CaptureEnvelope
              \/ MarkCaptured \/ StopTransport \/ DaemonDone \/ DaemonIdleStop

\* The daemon is killed from outside: what its transport holds is lost.
DaemonKilled == /\ dmn # "gone" /\ opt.kill
                /\ dmn' = "gone" /\ queue' = {}
                /\ hit' = hit \cup {"kill"}
                /\ UNCHANGED <<opt, app, threads, context, dump, werModule, disk, out>>

-----------------------------------------------------------------------------
\* The next launch, once the daemon has released the run: the callback gets the
\* crash envelope, the other envelopes are sent.
NextLaunch == /\ ~up /\ dmn = "gone" /\ files # {}
              /\ callback' = IF "crash" \in files THEN callback + 1 ELSE callback
              /\ sent' = sent \cup {IF e = "resend" THEN "crash" ELSE e : e \in files \ {"crash"}}
              /\ files' = {}
              /\ UNCHANGED <<opt, app, threads, context, daemon, werModule, event, report, hit>>

Startup == \/ IpcInit \/ Configure \/ DaemonStart \/ WaitForReady \/ CrashHandlerInit \/ Publish
           \/ StartupFailed
Shutdown == ShutdownHandlers \/ ShutdownDaemon
Handle(t) == \/ EnterHandler(t) \/ Except(t) \/ ClaimSlot(t) \/ Notify(t) \/ Poll(t)
             \/ LeaveHandler(t) \/ UseAfterFree(t) \/ WerUnregistered(t) \/ WerReport(t)

\* Nothing more can happen: the process and its daemon are gone.
Over == /\ dmn = "gone"
        /\ \/ ~up /\ files = {}
           \/ main = "off" /\ starts = MaxStarts /\ faults = MaxFaults
        /\ UNCHANGED vars

Next == \/ Startup \/ Shutdown \/ FlushCheck \/ FlushWrite
        \/ \E t \in Threads : Fault(t) \/ ChainAtStart(t) \/ Handle(t)
        \/ Wer \/ DaemonStep \/ DaemonKilled \/ NextLaunch \/ Over

\* Every thread in a handler, the WER module, the daemon and the main thread
\* inside sentry_init go on; nobody has to fault, to flush or to shut down.
Fairness == /\ \A t \in Threads : WF_vars(Handle(t))
            /\ WF_vars(Wer) /\ WF_vars(DaemonStep) /\ WF_vars(Startup /\ main # "off")
            /\ WF_vars(ShutdownDaemon) /\ WF_vars(NextLaunch)

Spec == Init /\ [][Next]_vars /\ Fairness

-----------------------------------------------------------------------------
Truncated == hit \cap {"second", "timeout", "shutdown"} # {}

\* While the daemon writes the minidump and reads modules and threads, the
\* crashed process is there to be read: its handler waits, unless a second
\* crash, the handler's own timeout or sentry_close ends the process.
AliveWhileRead == dmn \in {"dump", "pending", "collect"} /\ ~Truncated => up

\* The backend never comes up on a context that an earlier life has used: the
\* daemon is started on one that can still be claimed.
FreshContext == main \in {"config", "spawn", "wait"} => state = "ready"

\* A crash that was claimed while the daemon lives is delivered, by the daemon
\* or by the next launch, unless one of the recorded mishaps happens: a second
\* crash, the handler's timeout or sentry_close ends the process first, the daemon
\* dies or cannot write, or the network fails its only attempt to send the crash
\* and its transport then stops in time.
Delivered == "crash" \in sent \/ hit \ {"flush"} # {}
CrashReported == state = "crashed" ~> Delivered

\* A thread that entered the handler ends with its process, or goes on because
\* the previous handler took the signal over.
CrashEnds == \A t \in Threads : []<>(pc[t] \in {"dead", "run"})

\* The phases of the hand-off, as the shared state shows them.
Phase == CASE state = "ready" -> "armed"
           [] state \in {"claiming", "crashed"} -> "claimed"
           [] state = "processing" -> "taken"
           [] state \in {"processed", "captured"} -> "released"
           [] state = "done" -> "closed"

Handoff == INSTANCE CrashHandoff WITH phase <- Phase

\* The shared state implements the hand-off: one claim, one report, and a
\* claimant that was not cut short leaves only once the daemon let go.
HandoffImplemented == Handoff!Spec

\* A crash that a hook discards is not reported
\* (src/include/sentry.h:1498-1501).
DiscardHonoured == opt.discard /\ crashed => "crash" \notin sent

\* The daemon reports the event that the handler of the crashed process wrote,
\* unless a scope flush of another thread was under way; a crash that the WER
\* module claims has no event of its own.
CrashEventUsed == report # "none" /\ crashed /\ wer = "idle" /\ ~opt.discard /\ "flush" \notin hit
                  => report = "crash"

\* The daemon reads a process that is there, starts on a context that is fresh
\* and reports the event of the crash: the three invariants together.
HandoverSafe == AliveWhileRead /\ FreshContext /\ CrashEventUsed
=============================================================================
