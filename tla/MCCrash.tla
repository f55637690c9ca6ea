------------------------------- MODULE MCCrash ------------------------------
(* Crash handling for TLC.  Each behaviour looks at one part, chosen at    *)
(* the start: the native backend with its daemon, or the in-process        *)
(* backend.                                                                *)
EXTENDS MCNativeCrash

CONSTANTS AppThreads, HandlerThread, NoThread, CRASH_LIMIT, RESTART_LIMIT

VARIABLES part, owed, setup, frames, installed, g_preloaded, g_handler_thread_ready,
          g_handler_should_exit, g_handler_has_work, g_handler_state,
          g_crash_handling_state, signal_lock, g_handler_pipe, g_handler_ack_pipe,
          scope_lock, inproc_main, alive, crash_reports, hook_calls, inproc_armed,
          crashes, restarts

Inproc == INSTANCE Inproc WITH main <- inproc_main, armed <- inproc_armed

native_init == Init /\ owed = FALSE
native_off == native_init /\ opt = CHOOSE o \in Options : TRUE
plain == [strategy |-> "default", android |-> FALSE, libbacktrace |-> FALSE,
          previous_recovers |-> FALSE]

native_vars == << vars, owed >>
inproc_vars == << setup, frames, installed, g_preloaded, g_handler_thread_ready,
                  g_handler_should_exit, g_handler_has_work, g_handler_state,
                  g_crash_handling_state, signal_lock, g_handler_pipe,
                  g_handler_ack_pipe, scope_lock, inproc_main, alive, crash_reports,
                  hook_calls, inproc_armed, crashes, restarts >>
all_vars == << part, native_vars, inproc_vars >>

\* A part that is not looked at rests.
inproc_off == Inproc!InprocInit /\ ~g_preloaded /\ setup = plain

AllInit == /\ part \in {"native", "inproc"}
           /\ IF part = "native" THEN native_init ELSE native_off
           /\ IF part = "inproc" THEN Inproc!InprocInit ELSE inproc_off

native_only == part = "native" /\ UNCHANGED << part, inproc_vars >>
inproc_only == part = "inproc" /\ UNCHANGED << part, native_vars >>

native_step == native_only /\ Next /\ owed' = ((owed \/ state' = "crashed") /\ ~Delivered')
inproc_step == inproc_only /\ Inproc!InprocNext
\* These may come to an end.
ended == /\ part \in {"inproc"}
         /\ UNCHANGED all_vars
AllNext == native_step \/ inproc_step \/ ended

\* The fairness of each part, while it is the one looked at.
AllFairness ==
  /\ \A t \in Threads : WF_vars(part = "native" /\ Handle(t))
  /\ WF_vars(part = "native" /\ Wer) /\ WF_vars(part = "native" /\ DaemonStep)
  /\ WF_vars(part = "native" /\ Startup /\ main # "off")
  /\ WF_vars(part = "native" /\ ShutdownDaemon) /\ WF_vars(part = "native" /\ NextLaunch)
  /\ \A t \in AppThreads \cup {HandlerThread} :
       WF_inproc_vars(part = "inproc" /\ alive /\ Inproc!Handler(t))
  /\ WF_inproc_vars(part = "inproc" /\ alive /\ Inproc!handler_thread_main)
  /\ WF_inproc_vars(/\ part = "inproc" /\ alive /\ inproc_main # "up"
                    /\ (Inproc!stop_handler_thread \/ Inproc!shutdown_inproc_backend))

AllSpec == AllInit /\ [][AllNext]_all_vars /\ AllFairness

(* CrashReported, said with the monitor `owed`, which is set from a claim  *)
(* of the crash (crash_signal_handler) to its delivery by the daemon or    *)
(* the next launch (sentry__process_crash,                                 *)
(* native_backend_process_old_run), or to one of the mishaps of `hit`, a   *)
(* network error in the daemon among them; and CrashEnds: no crashed       *)
(* thread hangs in the handler.                                            *)
CrashesHandled == []<>~owed /\ CrashEnds
(* A crash after sentry_init ends the process only with a report captured  *)
(* or discarded by the hook (dispatch_ucontext), one thread at a time      *)
(* builds it, and handling is over only when the handlers of the SDK are   *)
(* gone.                                                                   *)
InprocReported == part = "inproc" => Inproc!InprocReported
(* A thread that crashed leaves its signal handler or the process ends     *)
(* (process_ucontext), unless it crashed while building the report itself  *)
(* or holding a lock that the handler thread needs.                        *)
InprocEnds == Inproc!InprocEnds
=============================================================================
