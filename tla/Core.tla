-------------------------------- MODULE Core --------------------------------
(***************************************************************************)
(* The life cycle of the SDK (src/src/sentry_core.c) and what runs across  *)
(* it: captures, sessions (src/src/sentry_session.c) and the app hang      *)
(* watchdog (src/src/sentry_app_hang_monitor.c).                           *)
(*                                                                         *)
(* g_options_lock is recursive.  sentry_init and sentry_close hold it      *)
(* across many steps, which `lock` records; every other section under it   *)
(* is short and is one step, possible while the lock is free or one's own. *)
(* Each sentry_init brings options of its own, numbered by `inits`, with   *)
(* their own run directory and session file.                               *)
(***************************************************************************)
EXTENDS Integers, Sequences, FiniteSets

CONSTANTS Apps,         \* application threads
          Starters,     \* those that start and end sessions
          MaxInits,     \* bound: calls of sentry_init
          MaxSessions,  \* bound: sessions started
          MaxCaptures   \* bound: events captured

\* The threads of the SDK are none of the application.
ASSUME CoreAssumption ==
  /\ IsFiniteSet(Apps) /\ Apps \cap {"owner", "watchdog", "free"} = {} /\ Starters \subseteq Apps
  /\ MaxInits \in Nat /\ MaxSessions \in Nat /\ MaxCaptures \in Nat

VARIABLES lock,       \* who holds g_options_lock across steps, "free" if nobody
          options,    \* g_options, 0 for NULL
          refs,       \* refcount of the options of every init
          session,    \* options->session of every init, 0 for NULL
          file,       \* session.json of every init's run, 0 if there is none
          sessions,   \* every session started
          pc, opt,    \* per thread: where it is, the options it holds a reference to
          ended,      \* per thread: the session it has taken and ends
          op,         \* the call the owner is in
          active,     \* g_app_hang_active
          running,    \* g_running of the watchdog
          inits, captures,
          crashed     \* a NULL pointer was dereferenced

sdk == <<lock, options, refs>>
state == <<session, file, sessions>>
threads == <<pc, opt, ended>>
watchdog == <<active, running>>
vars == <<sdk, state, threads, op, watchdog, inits, captures, crashed>>

Owner == "owner"
Dog == "watchdog"
Threads == Apps \cup {Owner, Dog}
Gens == 1 .. MaxInits

\* A session: its errors and its init flag; history: the updates with the init
\* flag set and without that went into an envelope, the terminal ones that were
\* sent, and the errors those reported.
NewSession == [errors |-> 0, init |-> TRUE, first |-> 0, later |-> 0,
               final |-> 0, reported |-> 0]

Init == /\ lock = "free" /\ options = 0 /\ refs = [g \in Gens |-> 0]
        /\ session = [g \in Gens |-> 0] /\ file = [g \in Gens |-> 0] /\ sessions = <<>>
        /\ pc = [t \in Threads |-> IF t = Dog THEN "gone" ELSE "idle"]
        /\ opt = [t \in Threads |-> 0] /\ ended = [t \in Threads |-> 0]
        /\ op = "none" /\ active = FALSE /\ running = FALSE
        /\ inits = 0 /\ captures = 0 /\ crashed = FALSE

At(t, l) == ~crashed /\ pc[t] = l
Goto(t, l) == pc' = [pc EXCEPT ![t] = l]
Free(t) == lock \in {"free", t}
Home(t) == IF t = Dog THEN "loop" ELSE "idle"

\* SENTRY_WITH_OPTIONS: sentry__options_getref ... sentry_options_free.
Incref(t) == refs' = [refs EXCEPT ![options] = @ + 1]
GetRef(t) == /\ Free(t)
             /\ IF options = 0 THEN UNCHANGED <<refs, opt>>
                               ELSE Incref(t) /\ opt' = [opt EXCEPT ![t] = options]
Release(t) == /\ refs' = [refs EXCEPT ![opt[t]] = @ - 1]
              /\ opt' = [opt EXCEPT ![t] = 0]

(***************************************************************************)
(* sentry__capture_event, by the application or by the watchdog.           *)
(***************************************************************************)
CaptureBegin(t) ==
  /\ captures < MaxCaptures
  /\ \/ t \in Apps /\ At(t, "idle")
     \/ t = Dog /\ At(t, "loop") /\ active
  /\ GetRef(t)
  /\ captures' = captures + 1
  /\ Goto(t, IF options = 0 THEN Home(t) ELSE "prepare")
  /\ UNCHANGED <<lock, options, state, ended, op, watchdog, inits, crashed>>

\* sentry__prepare_event: an error counts on the current session; before_send
\* may drop the event.
Recorded == options # 0 /\ session[options] # 0
RecordError == sessions' = IF Recorded THEN [sessions EXCEPT ![session[options]].errors = @ + 1]
                                       ELSE sessions
Prepare(t) ==
  /\ At(t, "prepare") /\ Free(t)
  /\ RecordError \/ UNCHANGED sessions
  /\ Goto(t, "look") \/ Goto(t, "release")
  /\ UNCHANGED <<sdk, session, file, opt, ended, op, watchdog, inits, captures, crashed>>

\* The racy read of options->session.
Look(t) ==
  /\ At(t, "look")
  /\ Goto(t, IF session[opt[t]] # 0 THEN "add" ELSE "release")
  /\ UNCHANGED <<sdk, state, opt, ended, op, watchdog, inits, captures, crashed>>

\* sentry__envelope_add_session, and the init flag.
Updated(s) == [s EXCEPT !.first = IF s.init THEN @ + 1 ELSE @,
                        !.later = IF s.init THEN @ ELSE @ + 1,
                        !.init = FALSE]
AddSession(t) ==
  /\ At(t, "add") /\ Free(t)
  /\ IF options = 0
       THEN crashed' = TRUE /\ UNCHANGED <<sessions, pc>>
       ELSE /\ sessions' = IF session[options] = 0 THEN sessions
                           ELSE [sessions EXCEPT ![session[options]] = Updated(@)]
            /\ Goto(t, "release")
            /\ UNCHANGED crashed
  /\ UNCHANGED <<sdk, session, file, opt, ended, op, watchdog, inits, captures>>

\* The event is sampled and sent, the options are released.
CaptureEnd(t) ==
  /\ At(t, "release")
  /\ Release(t)
  /\ Goto(t, Home(t))
  /\ UNCHANGED <<lock, options, state, ended, op, watchdog, inits, captures, crashed>>

(***************************************************************************)
(* sentry_start_session and sentry_end_session.                            *)
(***************************************************************************)
\* sentry__end_session_internal.
Cleared_Keep(g) == file
Cleared(g) == [file EXCEPT ![g] = 0]
Detached(g) == [session EXCEPT ![g] = 0]
EndInternal(t) ==
  IF options = 0
    THEN UNCHANGED <<session, file, ended>>
    ELSE /\ ended' = [ended EXCEPT ![t] = session[options]]
         /\ session' = Detached(options)
         /\ file' = Cleared(options)

Starting == {t \in Apps : pc[t] \in {"sendStart", "releaseStart", "new"}}
Room == Len(sessions) + Cardinality(Starting) < MaxSessions

StartCall(t) ==
  /\ t \in Starters /\ At(t, "idle") /\ Free(t) /\ Room
  /\ EndInternal(t)
  /\ Goto(t, "sendStart")
  /\ UNCHANGED <<sdk, sessions, opt, op, watchdog, inits, captures, crashed>>
EndCall(t) ==
  /\ t \in Starters /\ At(t, "idle") /\ Free(t)
  /\ EndInternal(t)
  /\ Goto(t, "sendEnd")
  /\ UNCHANGED <<sdk, sessions, opt, op, watchdog, inits, captures, crashed>>

\* sentry__capture_session: the terminal update, if there is a session and the
\* SDK is still there to send it.
Finished(s) == [s EXCEPT !.final = @ + 1, !.reported = @ + s.errors]
SendSession(t) ==
  /\ \/ At(t, "sendStart") /\ Goto(t, IF ended[t] = 0 \/ options = 0 THEN "new" ELSE "releaseStart")
     \/ At(t, "sendEnd") /\ Goto(t, IF ended[t] = 0 \/ options = 0 THEN "idle" ELSE "releaseEnd")
  /\ IF ended[t] = 0
       THEN UNCHANGED <<refs, opt, sessions>>
       ELSE /\ GetRef(t)
            /\ sessions' = IF options = 0 THEN sessions
                           ELSE [sessions EXCEPT ![ended[t]] = Finished(@)]
  /\ ended' = [ended EXCEPT ![t] = 0]
  /\ UNCHANGED <<lock, options, session, file, op, watchdog, inits, captures, crashed>>
SentSession(t) ==
  /\ \/ At(t, "releaseStart") /\ Goto(t, "new")
     \/ At(t, "releaseEnd") /\ Goto(t, "idle")
  /\ Release(t)
  /\ UNCHANGED <<lock, options, state, ended, op, watchdog, inits, captures, crashed>>

\* sentry__session_new and sentry__run_write_session.
StartIn(g) ==
  /\ sessions' = Append(sessions, NewSession)
  /\ session' = [session EXCEPT ![g] = Len(sessions) + 1]
  /\ file' = [file EXCEPT ![g] = Len(sessions) + 1]
StartSession(t) ==
  /\ At(t, "new") /\ Free(t)
  /\ IF options = 0 THEN UNCHANGED state ELSE StartIn(options)
  /\ Goto(t, "idle")
  /\ UNCHANGED <<sdk, opt, ended, op, watchdog, inits, captures, crashed>>

(***************************************************************************)
(* The watchdog: worker of sentry_app_hang_monitor.c.                      *)
(***************************************************************************)
WatchdogExit ==
  /\ At(Dog, "loop") /\ ~active
  /\ Goto(Dog, "gone")
  /\ UNCHANGED <<sdk, state, opt, ended, op, watchdog, inits, captures, crashed>>

\* sentry__app_hang_monitor_stop: disarm, join, mark stopped.
After(l) == IF l \in {"initStop", "initJoin"} THEN "initLock" ELSE "lock"
MonitorStop_Late(l) == l = "stop" /\ running
MonitorStop(l) == running
Stop ==
  \E l \in {"initStop", "stop"} :
    /\ At(Owner, l)
    /\ IF MonitorStop(l)
         THEN active' = FALSE /\ Goto(Owner, IF l = "stop" THEN "join" ELSE "initJoin")
         ELSE UNCHANGED active /\ Goto(Owner, After(l))
    /\ UNCHANGED <<sdk, state, opt, ended, op, running, inits, captures, crashed>>
Joinable == pc[Dog] = "gone"
Join ==
  \E l \in {"initJoin", "join"} :
    /\ At(Owner, l) /\ Joinable
    /\ running' = FALSE
    /\ Goto(Owner, After(l))
    /\ UNCHANGED <<sdk, state, opt, ended, op, active, inits, captures, crashed>>

(***************************************************************************)
(* sentry_init and sentry_close.                                           *)
(***************************************************************************)
InitCall ==
  /\ At(Owner, "idle") /\ inits < MaxInits
  /\ inits' = inits + 1 /\ op' = "init"
  /\ Goto(Owner, "initStop")
  /\ UNCHANGED <<sdk, state, opt, ended, watchdog, captures, crashed>>
InitLock ==
  /\ At(Owner, "initLock") /\ Free(Owner)
  /\ lock' = Owner
  /\ Goto(Owner, "close")
  /\ UNCHANGED <<options, refs, state, opt, ended, op, watchdog, inits, captures, crashed>>

CloseCall ==
  /\ At(Owner, "idle")
  /\ op' = "close"
  /\ Goto(Owner, "close")
  /\ UNCHANGED <<sdk, state, opt, ended, watchdog, inits, captures, crashed>>

\* The integrations and the telemetry are shut down while the options are held.
CloseTelemetry ==
  /\ At(Owner, "close") /\ GetRef(Owner)
  /\ Goto(Owner, IF options = 0 THEN "stop" ELSE "telemetry")
  /\ UNCHANGED <<lock, options, state, ended, op, watchdog, inits, captures, crashed>>
CloseTelemetryDone ==
  /\ At(Owner, "telemetry")
  /\ Release(Owner)
  /\ Goto(Owner, "stop")
  /\ UNCHANGED <<lock, options, state, ended, op, watchdog, inits, captures, crashed>>

CloseLock ==
  /\ At(Owner, "lock") /\ Free(Owner)
  /\ lock' = Owner
  /\ Goto(Owner, IF options = 0 THEN "closed" ELSE "shutdown")
  /\ UNCHANGED <<options, refs, state, opt, ended, op, watchdog, inits, captures, crashed>>

\* The session ends; backend and transport are shut down; the options go.
CloseEnd(s) == IF session[options] = 0 THEN s ELSE [s EXCEPT ![session[options]] = Finished(@)]
CloseShutdown ==
  /\ At(Owner, "shutdown")
  /\ sessions' = CloseEnd(sessions)
  /\ session' = Detached(options) /\ file' = Cleared(options)
  /\ Goto(Owner, "null")
  /\ UNCHANGED <<sdk, opt, ended, op, watchdog, inits, captures, crashed>>
CloseOptions ==
  /\ At(Owner, "null")
  /\ options' = 0
  /\ refs' = [refs EXCEPT ![options] = @ - 1]
  /\ Goto(Owner, "closed")
  /\ UNCHANGED <<lock, state, opt, ended, op, watchdog, inits, captures, crashed>>

Closed ==
  /\ At(Owner, "closed")
  /\ IF op = "init" THEN Goto(Owner, "startup") /\ UNCHANGED <<lock, op>>
                    ELSE Goto(Owner, "idle") /\ lock' = "free" /\ op' = "none"
  /\ UNCHANGED <<options, refs, state, opt, ended, watchdog, inits, captures, crashed>>

\* Run directory, transport or backend cannot be set up.
InitFail ==
  /\ At(Owner, "startup")
  /\ lock' = "free" /\ op' = "none"
  /\ Goto(Owner, "idle")
  /\ UNCHANGED <<options, refs, state, opt, ended, watchdog, inits, captures, crashed>>
InitOptions ==
  /\ At(Owner, "startup")
  /\ options' = inits
  /\ refs' = [refs EXCEPT ![inits] = 1]
  /\ Goto(Owner, "finish")
  /\ UNCHANGED <<lock, state, opt, ended, op, watchdog, inits, captures, crashed>>
\* auto_session_tracking, enable_app_hang_tracking.
InitFinish ==
  /\ At(Owner, "finish")
  /\ (Room /\ StartIn(options)) \/ UNCHANGED state
  /\ \/ /\ active' = TRUE /\ running' = TRUE
        /\ pc' = [pc EXCEPT ![Owner] = "idle", ![Dog] = "loop"]
     \/ Goto(Owner, "idle") /\ UNCHANGED watchdog
  /\ lock' = "free" /\ op' = "none"
  /\ UNCHANGED <<options, refs, opt, ended, inits, captures, crashed>>

Capture(t) == Prepare(t) \/ Look(t) \/ AddSession(t) \/ CaptureEnd(t)
SessionStep(t) == SendSession(t) \/ SentSession(t) \/ StartSession(t)
OwnerStep == \/ Stop \/ Join \/ InitLock \/ CloseTelemetry \/ CloseTelemetryDone \/ CloseLock
             \/ CloseShutdown \/ CloseOptions \/ Closed \/ InitFail \/ InitOptions \/ InitFinish

Next == \/ \E t \in Threads : CaptureBegin(t) \/ Capture(t)
        \/ \E t \in Apps : StartCall(t) \/ EndCall(t) \/ SessionStep(t)
        \/ WatchdogExit \/ InitCall \/ CloseCall \/ OwnerStep

Spec == Init /\ [][Next]_vars

\* Threads are scheduled, and the watchdog gets g_options_lock when it is free
\* again and again.
Fairness == WF_vars(OwnerStep) /\ SF_vars(Capture(Dog)) /\ WF_vars(WatchdogExit)
FairSpec == Spec /\ Fairness

(***************************************************************************)
(* Properties.                                                             *)
(***************************************************************************)
\* The variables keep their types.
TypeOK ==
  /\ lock \in {"free", Owner} /\ options \in 0 .. inits /\ inits \in 0 .. MaxInits
  /\ refs \in [Gens -> 0 .. Cardinality(Threads) + 1]
  /\ {session, file} \subseteq [Gens -> 0 .. Len(sessions)]
  /\ Len(sessions) <= MaxSessions /\ captures \in 0 .. MaxCaptures
  /\ opt \in [Threads -> 0 .. inits] /\ ended \in [Threads -> 0 .. Len(sessions)]
  /\ op \in {"none", "init", "close"} /\ {active, running, crashed} \subseteq BOOLEAN

\* The options are counted exactly: one reference while they are the global
\* ones and one per thread inside SENTRY_WITH_OPTIONS, so that they are freed
\* once, by the last user, however captures and a close or re-init overlap.
OptionsCounted ==
  /\ TypeOK
  /\ \A g \in Gens : refs[g] = Cardinality({t \in Threads : opt[t] = g})
                               + (IF g = options THEN 1 ELSE 0)

\* A session is reported at most once: its terminal update is sent at most once,
\* and then it is neither running nor on disk, where the next start would report
\* it as crashed or abnormal.
ReportedOnce ==
  \A s \in 1 .. Len(sessions) :
    /\ sessions[s].final <= 1
    /\ sessions[s].final = 1 => \A g \in Gens : session[g] # s /\ file[g] # s

\* "we're no longer in the initial session update": whoever captures, one update
\* of a session carries the init flag, and no other goes into an envelope before
\* it; the terminal update reports every error counted on the session.
InitFirst ==
  \A s \in 1 .. Len(sessions) :
    LET u == sessions[s]
    IN  /\ u.first <= 1 /\ (u.later > 0 => u.first = 1)
        /\ u.final = 1 => u.reported = u.errors

\* After sentry_close, and between two inits, no watchdog is left that could
\* capture on behalf of the options that are gone.
WatchdogStopped == options = 0 /\ ~crashed => pc[Dog] = "gone"

\* Options, sessions and the watchdog survive overlapping calls: the four above
\* together.
LifeCycleSafe == OptionsCounted /\ ReportedOnce /\ InitFirst /\ WatchdogStopped

\* sentry_init and sentry_close return: joining the watchdog never waits for a
\* thread that waits for g_options_lock in the hands of the one that joins.
CallsReturn == []<>(pc[Owner] = "idle" \/ crashed)

\* "recheck inside the lock since our previous read is racy": the capture that
\* rechecks finds options there.
RecheckFindsOptions == ~crashed
==============================================================================
