------------------------------- MODULE Inproc -------------------------------
(***************************************************************************)
(* The in-process crash backend on Unix: the signal handler, the lock that *)
(* serialises signal handlers, the handler thread that builds the report,  *)
(* the pipes between them, and startup, shutdown and preload around it.    *)
(*                                                                         *)
(* A thread is a stack of frames: the code it runs, and one frame for      *)
(* every signal handler that interrupted it (SA_NODEFER lets a handler be  *)
(* interrupted by a crash of its own).  Any number of threads may crash,   *)
(* the handler thread too; returning from a handler runs the crashing      *)
(* instruction again.                                                      *)
(***************************************************************************)
EXTENDS Integers, Sequences, SequencesExt

CONSTANTS AppThreads,     \* the threads of the program
          HandlerThread,  \* the handler thread
          NoThread,
          CRASH_LIMIT,    \* bound: faults, those of the handlers included
          RESTART_LIMIT   \* bound: rounds of sentry_init and sentry_close

VARIABLES setup,          \* handler strategy, platform, unwinder, previous handler
          frames,         \* thread -> its stack of frames
          installed,      \* the signal handlers of the SDK are the current ones
          g_preloaded, g_handler_thread_ready, g_handler_should_exit,
          g_handler_has_work,
          g_handler_state,         \* the thread whose context was handed over
          g_crash_handling_state,  \* IDLE, HANDLING, DONE
          signal_lock,    \* g_in_signal_handler, g_signal_handling_thread, depth
          g_handler_pipe, g_handler_ack_pipe,   \* bytes in the pipe, or Closed
          scope_lock,     \* the thread that crashed while it held a mutex of the SDK
          main,           \* the thread that calls sentry_init and sentry_close
          alive,          \* the process
          crash_reports,  \* history: the reports captured or discarded
          hook_calls,     \* history: calls of on_crash, two meaning more than one
          armed,          \* history: the first crash came after sentry_init
          crashes, restarts

inproc_vars ==
  << setup, frames, installed, g_preloaded, g_handler_thread_ready, g_handler_should_exit,
     g_handler_has_work, g_handler_state, g_crash_handling_state, signal_lock,
     g_handler_pipe, g_handler_ack_pipe, scope_lock, main, alive, crash_reports, hook_calls,
     armed, crashes, restarts >>

thread_vars == << g_handler_thread_ready, g_handler_should_exit, g_handler_has_work,
                  g_handler_state, g_handler_pipe, g_handler_ack_pipe >>
report_vars == << crash_reports, hook_calls >>
quiet == << setup, main, restarts >>

AllThreads == AppThreads \cup {HandlerThread}
Closed == -1
Frame(pc) == [pc |-> pc, depth |-> 0, skip_hooks |-> FALSE, discarded |-> FALSE, managed |-> FALSE]
Top(t) == Last(frames[t])
InHandler(t) == Len(frames[t]) > 1
Become(t, f) == frames' = [frames EXCEPT ![t] = Append(Front(@), f)]
Goto(t, pc) == Become(t, [Top(t) EXCEPT !.pc = pc])

InprocInit ==
  /\ g_preloaded \in BOOLEAN
  /\ setup \in [strategy : {"default", "chain_at_start"}, android : BOOLEAN,
                libbacktrace : BOOLEAN, previous_recovers : BOOLEAN]
  /\ setup.android => setup.strategy = "chain_at_start"
  /\ setup.strategy = "chain_at_start" => ~setup.previous_recovers
  /\ setup.libbacktrace => setup.strategy = "default" /\ ~setup.previous_recovers
  /\ g_preloaded => setup.strategy = "chain_at_start" /\ ~setup.android
  /\ frames = [t \in AllThreads |-> <<Frame(IF t = HandlerThread THEN "exited" ELSE "run")>>]
  /\ installed = g_preloaded
  /\ g_handler_thread_ready = FALSE /\ g_handler_should_exit = FALSE
  /\ g_handler_has_work = FALSE /\ g_handler_state = NoThread
  /\ g_crash_handling_state = "IDLE"
  /\ signal_lock = [held |-> FALSE, thread |-> NoThread, depth |-> 0]
  /\ g_handler_pipe = Closed /\ g_handler_ack_pipe = Closed
  /\ scope_lock = NoThread /\ main = "down" /\ alive = TRUE
  /\ crash_reports = {} /\ hook_calls = 0 /\ armed = FALSE /\ crashes = 0 /\ restarts = 0

----------------------------------------------------------------------------
(* The lock of the signal handlers (sentry_sync.c).                        *)

Locked(t) == [held |-> TRUE, thread |-> t, depth |-> 1]
enter_signal_handler(t) ==
  \/ /\ signal_lock.held /\ signal_lock.thread = t
     /\ signal_lock' = [signal_lock EXCEPT !.depth = @ + 1]
  \/ /\ ~signal_lock.held
     /\ signal_lock' = Locked(t)
Left == [signal_lock EXCEPT !.held = FALSE, !.thread = NoThread]
leave_signal_handler_held == signal_lock' = [signal_lock EXCEPT !.thread = NoThread]  \* mutant
leave_signal_handler == signal_lock' = Left

(* sentry__mutex_lock: mutexes do not exist for the thread that is inside  *)
(* a signal handler, and everybody else waits for that one to leave.       *)
block_for_signal_handler(t) == ~signal_lock.held \/ signal_lock.thread = t
CanLock(t) ==
  /\ block_for_signal_handler(t)
  /\ signal_lock.thread = t \/ scope_lock \in {NoThread, t}

----------------------------------------------------------------------------
(* The kernel.  With the handlers of the SDK gone, a crash reaches the     *)
(* previous ones, which end the process or make the thread go on (past a   *)
(* fault of its own code, not of a signal handler).                        *)

Delivered(t, stack, managed) ==
  IF installed
    THEN /\ frames' = [frames EXCEPT ![t] = Append(stack,
              [Frame(IF setup.strategy = "chain_at_start" THEN "chain" ELSE "enter")
                 EXCEPT !.managed = managed])]
         /\ UNCHANGED alive
    ELSE IF (setup.previous_recovers \/ managed) /\ Len(stack) = 1 /\ t # HandlerThread
           THEN frames' = [frames EXCEPT ![t] = <<Frame("run")>>] /\ UNCHANGED alive
           ELSE alive' = FALSE /\ UNCHANGED frames

(* A fault of the program, maybe inside a call of the SDK that holds a     *)
(* lock, or of the code that handles a crash.                              *)
Crash(t) ==
  /\ crashes < CRASH_LIMIT
  /\ Top(t).pc \in {"run", "hook", "capture"}
  /\ \E managed \in BOOLEAN :
       /\ managed => Top(t).pc = "run" /\ setup.strategy = "chain_at_start"
       /\ Delivered(t, frames[t], managed)
  /\ crashes' = crashes + 1
  /\ armed' = IF crashes = 0 THEN main = "up" ELSE armed
  /\ \/ UNCHANGED scope_lock
     \/ /\ Top(t).pc = "run" /\ ~signal_lock.held /\ scope_lock = NoThread
        /\ scope_lock' = t
  /\ UNCHANGED << installed, g_preloaded, thread_vars, g_crash_handling_state, signal_lock,
                  report_vars, quiet >>

(* The handler returns: the crashing instruction runs again.               *)
Returned(t) == Delivered(t, Front(frames[t]), Top(t).managed)

----------------------------------------------------------------------------
(* The signal handler.                                                     *)

(* A handler strategy for managed runtimes: the previous handler goes      *)
(* first and may turn the signal into an exception of its own.  On Android *)
(* the handler of the SDK is installed again afterwards.                   *)
chain_at_start(t) ==
  /\ Top(t).pc = "chain"
  /\ IF Top(t).managed /\ t # HandlerThread
       THEN frames' = [frames EXCEPT ![t] = Front(@)] /\ UNCHANGED installed
       ELSE /\ Goto(t, "enter")
            /\ installed' = (installed \/ setup.android)
  /\ UNCHANGED << g_preloaded, thread_vars, g_crash_handling_state, signal_lock, scope_lock,
                  alive, report_vars, armed, crashes, quiet >>

process_ucontext(t) ==
  /\ Top(t).pc = "enter"
  /\ enter_signal_handler(t)
  /\ LET depth == signal_lock'.depth
     IN  Become(t, [Top(t) EXCEPT !.depth = depth, !.skip_hooks = depth >= 2,
                      !.pc = IF depth >= 3 THEN "cleanup"
                             ELSE IF g_preloaded /\ ~g_handler_thread_ready THEN "preload"
                             ELSE "dispatch"])
  /\ UNCHANGED << installed, g_preloaded, thread_vars, g_crash_handling_state, scope_lock,
                  alive, report_vars, armed, crashes, quiet >>

(* Only a place in the chain of handlers: step out of it.                  *)
fall_through(t) ==
  /\ Top(t).pc = "preload"
  /\ installed' = FALSE /\ g_preloaded' = FALSE
  /\ leave_signal_handler
  /\ Goto(t, "previous")
  /\ UNCHANGED << thread_vars, g_crash_handling_state, scope_lock, alive, report_vars, armed, crashes,
                  quiet >>

has_handler_thread_crashed(t) == g_handler_thread_ready /\ t = HandlerThread

(* Who builds the report: this handler itself if the unwinder cannot do    *)
(* without the crashed stack, if the handler thread is the one that        *)
(* crashed, or if it does not run; otherwise the handler thread, for the   *)
(* first thread that crashed.  The others wait for it.                     *)
dispatch_ucontext(t) ==
  /\ Top(t).pc = "dispatch"
  /\ CASE setup.libbacktrace ->
            Goto(t, "hook") /\ UNCHANGED << g_crash_handling_state, g_handler_state,
                                            g_handler_has_work, signal_lock >>
       [] ~setup.libbacktrace /\ has_handler_thread_crashed(t) ->
            /\ Become(t, [Top(t) EXCEPT !.pc = "hook", !.skip_hooks = TRUE])
            /\ UNCHANGED << g_crash_handling_state, g_handler_state, g_handler_has_work, signal_lock >>
       [] ~setup.libbacktrace /\ ~has_handler_thread_crashed(t) ->
            IF g_crash_handling_state # "IDLE"
              THEN /\ leave_signal_handler
                   /\ Goto(t, "spin")
                   /\ UNCHANGED << g_crash_handling_state, g_handler_state, g_handler_has_work >>
              ELSE /\ g_crash_handling_state' = "HANDLING"
                   /\ IF ~g_handler_thread_ready
                        THEN /\ Goto(t, "hook")
                             /\ UNCHANGED << g_handler_state, g_handler_has_work, signal_lock >>
                        ELSE /\ g_handler_state' = t
                             /\ leave_signal_handler
                             /\ g_handler_has_work' = TRUE
                             /\ Goto(t, "signal")
  /\ UNCHANGED << installed, g_preloaded, g_handler_thread_ready, g_handler_should_exit,
                  g_handler_pipe, g_handler_ack_pipe, scope_lock, alive, report_vars, armed, crashes,
                  quiet >>

(* The byte that wakes the handler thread.                                 *)
signal_handler_thread(t) ==
  /\ Top(t).pc = "signal"
  /\ IF g_handler_pipe # Closed
       THEN /\ g_handler_pipe' = g_handler_pipe + 1
            /\ Goto(t, "ack")
            /\ UNCHANGED signal_lock
       ELSE /\ enter_signal_handler(t)
            /\ Goto(t, IF signal_lock'.depth >= 3 THEN "cleanup" ELSE "hook")
            /\ UNCHANGED g_handler_pipe
  /\ UNCHANGED << installed, g_preloaded, g_handler_thread_ready, g_handler_should_exit,
                  g_handler_has_work, g_handler_state, g_handler_ack_pipe,
                  g_crash_handling_state, scope_lock, alive, report_vars, armed, crashes, quiet >>

(* Its answer, or the end of the file when the pipe is closed.             *)
await_ack(t) ==
  /\ Top(t).pc = "ack"
  /\ \/ g_handler_ack_pipe > 0 /\ g_handler_ack_pipe' = g_handler_ack_pipe - 1
     \/ g_handler_ack_pipe = Closed /\ UNCHANGED g_handler_ack_pipe
  /\ Goto(t, "reenter")
  /\ UNCHANGED << installed, g_preloaded, g_handler_thread_ready, g_handler_should_exit,
                  g_handler_has_work, g_handler_state, g_handler_pipe,
                  g_crash_handling_state, signal_lock, scope_lock, alive, report_vars, armed, crashes,
                  quiet >>

reenter(t) ==
  /\ Top(t).pc = "reenter"
  /\ enter_signal_handler(t)
  /\ Goto(t, "cleanup")
  /\ UNCHANGED << installed, g_preloaded, thread_vars, g_crash_handling_state, scope_lock, alive,
                  report_vars, armed, crashes, quiet >>

(* A thread that lost the race.                                            *)
spin(t) ==
  /\ Top(t).pc = "spin"
  /\ g_crash_handling_state # "HANDLING"
  /\ Returned(t)
  /\ UNCHANGED << installed, g_preloaded, thread_vars, g_crash_handling_state, signal_lock,
                  scope_lock, report_vars, armed, crashes, quiet >>

(* The thread that handled the crash: first the handlers, then the state.  *)
reset_signal_handlers_late(t) ==      \* mutant: the state first, then the handlers
  /\ Top(t).pc = "cleanup"
  /\ g_crash_handling_state' = "DONE"
  /\ Goto(t, "done")
  /\ UNCHANGED << installed, g_preloaded, thread_vars, signal_lock, scope_lock,
                  alive, report_vars, armed, crashes, quiet >>
reset_signal_handlers(t) ==
  /\ Top(t).pc = "cleanup"
  /\ installed' = FALSE
  /\ Goto(t, "done")
  /\ UNCHANGED << g_preloaded, thread_vars, g_crash_handling_state, signal_lock, scope_lock,
                  alive, report_vars, armed, crashes, quiet >>

cleanup(t) ==
  /\ Top(t).pc = "done"
  /\ g_crash_handling_state' = "DONE"
  /\ leave_signal_handler
  /\ IF setup.strategy = "chain_at_start" THEN Returned(t)
     ELSE Goto(t, "previous") /\ UNCHANGED alive
  /\ UNCHANGED << installed, g_preloaded, thread_vars, scope_lock, report_vars, armed, crashes, quiet >>

(* raise() with the default action restored, or a handler that recovers.   *)
invoke_signal_handler(t) ==
  /\ Top(t).pc = "previous"
  /\ IF setup.previous_recovers /\ t # HandlerThread
       THEN frames' = [frames EXCEPT ![t] = <<Frame("run")>>] /\ UNCHANGED alive
       ELSE alive' = FALSE /\ UNCHANGED frames
  /\ UNCHANGED << installed, g_preloaded, thread_vars, g_crash_handling_state, signal_lock,
                  scope_lock, report_vars, armed, crashes, quiet >>

----------------------------------------------------------------------------
(* process_ucontext_deferred, on the handler thread or inside a handler.   *)

About(t) == IF InHandler(t) THEN t ELSE g_handler_state
registers_from_uctx(t) == About(t)
make_signal_event(t, discarded) ==
  [registers |-> registers_from_uctx(t), discarded |-> discarded]

(* The hook may discard the event.  It runs unless it may have crashed.    *)
on_crash(t) ==
  /\ Top(t).pc = "hook"
  /\ IF Top(t).skip_hooks
       THEN Goto(t, "capture") /\ UNCHANGED hook_calls
       ELSE /\ \E discard \in BOOLEAN :
                 Become(t, [Top(t) EXCEPT !.pc = "capture", !.discarded = discard])
            /\ hook_calls' = IF hook_calls < 2 THEN hook_calls + 1 ELSE 2
  /\ UNCHANGED << installed, g_preloaded, thread_vars, g_crash_handling_state, signal_lock,
                  scope_lock, alive, crash_reports, armed, crashes, quiet >>

(* The event takes the scope, and so its lock; a handler acks afterwards.  *)
process_ucontext_deferred(t) ==
  /\ Top(t).pc = "capture"
  /\ CanLock(t)
  /\ crash_reports' = crash_reports \cup {make_signal_event(t, Top(t).discarded)}
  /\ Goto(t, IF InHandler(t) THEN "cleanup" ELSE "acknowledge")
  /\ UNCHANGED << installed, g_preloaded, thread_vars, g_crash_handling_state, signal_lock,
                  scope_lock, alive, hook_calls, armed, crashes, quiet >>

----------------------------------------------------------------------------
(* The handler thread.                                                     *)

HT == HandlerThread
handler_thread_main ==
  /\ frames[HT] = <<Top(HT)>>
  /\ \/ /\ Top(HT).pc = "wait"
        /\ g_handler_pipe > 0
        /\ g_handler_pipe' = g_handler_pipe - 1
        /\ Become(HT, Frame(IF g_handler_has_work THEN "hook"
                            ELSE IF g_handler_should_exit THEN "exited" ELSE "wait"))
        /\ UNCHANGED << g_handler_has_work, g_handler_ack_pipe >>
     \/ /\ Top(HT).pc = "acknowledge"
        /\ g_handler_has_work' = FALSE
        /\ g_handler_ack_pipe' = g_handler_ack_pipe + 1
        /\ Become(HT, Frame(IF g_handler_should_exit THEN "exited" ELSE "wait"))
        /\ UNCHANGED g_handler_pipe
  /\ UNCHANGED << installed, g_preloaded, g_handler_thread_ready, g_handler_should_exit,
                  g_handler_state, g_crash_handling_state, signal_lock, scope_lock, alive,
                  report_vars, armed, crashes, quiet >>

----------------------------------------------------------------------------
(* sentry_init and sentry_close.                                           *)

init_handler_sync == g_handler_pipe' = 0 /\ g_handler_ack_pipe' = 0
signal_handler_ready == g_handler_thread_ready' = TRUE
wake_handler_thread == g_handler_pipe' = g_handler_pipe + 1
(* Closing the pipes ends the wait for an answer.                          *)
teardown_handler_sync ==
  /\ g_handler_pipe' = Closed /\ g_handler_ack_pipe' = Closed
  /\ frames' = [t \in AllThreads |-> [i \in DOMAIN frames[t] |->
                  IF frames[t][i].pc = "ack" THEN [frames[t][i] EXCEPT !.pc = "reenter"]
                  ELSE frames[t][i]]]

start_handler_thread ==
  /\ main = "down" /\ restarts < RESTART_LIMIT
  /\ g_handler_should_exit' = FALSE /\ g_handler_has_work' = FALSE
  /\ init_handler_sync
  /\ frames' = [frames EXCEPT ![HT] = <<Frame("wait")>>]
  /\ signal_handler_ready
  /\ main' = "started"
  /\ UNCHANGED << setup, installed, g_preloaded, g_handler_state, g_crash_handling_state,
                  signal_lock, scope_lock, alive, report_vars, armed, crashes, restarts >>

install_signal_handlers ==
  /\ main = "started"
  /\ installed' = (installed \/ ~g_preloaded)
  /\ main' = "up"
  /\ UNCHANGED << setup, frames, g_preloaded, thread_vars, g_crash_handling_state, signal_lock,
                  scope_lock, alive, report_vars, armed, crashes, restarts >>

stop_handler_thread ==
  \/ /\ main = "up" /\ restarts < RESTART_LIMIT
     /\ g_handler_should_exit' = TRUE
     /\ wake_handler_thread
     /\ main' = "joining" /\ restarts' = restarts + 1
     /\ UNCHANGED << setup, frames, installed, g_preloaded, g_handler_thread_ready,
                     g_handler_has_work, g_handler_state, g_handler_ack_pipe,
                     g_crash_handling_state, signal_lock, scope_lock, alive, report_vars, armed, crashes >>
  \/ /\ main = "joining" /\ frames[HT] = <<Frame("exited")>>
     /\ teardown_handler_sync
     /\ g_handler_thread_ready' = FALSE /\ g_handler_should_exit' = FALSE
     /\ main' = "stopped"
     /\ UNCHANGED << setup, installed, g_preloaded, g_handler_has_work, g_handler_state,
                     g_crash_handling_state, signal_lock, scope_lock, alive, report_vars, armed, crashes,
                     restarts >>

shutdown_inproc_backend ==
  \/ /\ main = "stopped"
     /\ installed' = (installed /\ g_preloaded)
     /\ main' = "unregistered"
     /\ UNCHANGED << setup, frames, g_preloaded, thread_vars, g_crash_handling_state, signal_lock,
                     scope_lock, alive, report_vars, armed, crashes, restarts >>
  \/ /\ main = "unregistered"
     /\ g_crash_handling_state' = "IDLE"
     /\ main' = "down"
     /\ UNCHANGED << setup, frames, installed, g_preloaded, thread_vars, signal_lock, scope_lock,
                     alive, report_vars, armed, crashes, restarts >>

Handler(t) ==
  \/ chain_at_start(t) \/ process_ucontext(t) \/ fall_through(t) \/ dispatch_ucontext(t)
  \/ signal_handler_thread(t) \/ await_ack(t) \/ reenter(t) \/ spin(t)
  \/ reset_signal_handlers(t) \/ cleanup(t) \/ invoke_signal_handler(t)
  \/ on_crash(t) \/ process_ucontext_deferred(t)
Backend == start_handler_thread \/ install_signal_handlers \/ stop_handler_thread
           \/ shutdown_inproc_backend

InprocNext ==
  /\ alive
  /\ \/ \E t \in AllThreads : Crash(t) \/ Handler(t)
     \/ handler_thread_main
     \/ Backend

(* Threads are scheduled; nothing makes the program crash or close.        *)
InprocFairness ==
  /\ \A t \in AllThreads : WF_inproc_vars(alive /\ Handler(t))
  /\ WF_inproc_vars(alive /\ handler_thread_main)
  /\ WF_inproc_vars(alive /\ main # "up" /\ (stop_handler_thread \/ shutdown_inproc_backend))

InprocSpec == InprocInit /\ [][InprocNext]_inproc_vars /\ InprocFairness

----------------------------------------------------------------------------
(* Properties.                                                             *)

Building(t) == \E i \in DOMAIN frames[t] : frames[t][i].pc \in {"hook", "capture"}

(* A crash after sentry_init is not lost (dispatch_ucontext): the process  *)
(* ends only with a report captured, or discarded by the hook, unless two  *)
(* signal handlers on top of each other crashed.  One thread at a time     *)
(* builds a report, and (where the handler thread is used) on_crash, which *)
(* may be what crashed, is called once.  Handling is over only when the    *)
(* handlers of the SDK are gone (Android chains differently), so           *)
(* that the threads that waited for it run into the previous ones.         *)
InprocReported ==
  (armed /\ restarts = 0) =>
    /\ ~alive => crash_reports # {} \/ signal_lock.depth >= 3
    /\ \A t, u \in AllThreads :
         {Top(t).pc, Top(u).pc} \subseteq {"hook", "capture"} => t = u
    /\ hook_calls <= 1 \/ setup.libbacktrace
    /\ g_crash_handling_state = "DONE" /\ ~setup.android => ~installed

(* What can keep a crash from ending: a crash while the crashing thread    *)
(* builds the report itself, and a crash of a thread that holds a lock the *)
(* handler thread needs.                                                   *)
WaitsForItself(t) == Top(t).pc = "spin" /\ Building(t)
LockLost == scope_lock # NoThread

(* Every crash ends (process_ucontext): the thread that crashed leaves its *)
(* signal handler or the process ends, except in those two cases, and on   *)
(* Android where a thread may run through the handler again and again.     *)
InprocEnds ==
  \A t \in AllThreads :
    []<>(~alive \/ ~InHandler(t) \/ LockLost \/ setup.android
           \/ \E u \in AllThreads : WaitsForItself(u))

=============================================================================
