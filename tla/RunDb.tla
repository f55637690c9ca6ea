------------------------------- MODULE RunDb -------------------------------
(***************************************************************************)
(* The database directory that processes share: every process that runs    *)
(* the SDK has a run directory with envelopes, crash markers and a session *)
(* in it, and a lock file beside it.  A process that starts sends what the *)
(* runs of processes that are gone left behind, and removes them.  The     *)
(* crash daemon of the native backend adopts the run of its process with a *)
(* second lock file.                                                       *)
(*                                                                         *)
(* Processes interleave at every access to the file system and may be      *)
(* db_killed at any point, which closes their files and releases their locks  *)
(* but leaves the lock files in place.                                     *)
(***************************************************************************)
EXTENDS Naturals, FiniteSets, FiniteSetsExt

CONSTANTS Procs,                  \* processes; each one's run has its name
          Daemonic,               \* those that may have the native backend
          Casts,                  \* the processes and daemons that take part together
          Platforms,              \* of {"unix", "windows"}
          STALE_STAT,             \* what st1.st_ino may be when stat fails, see Ino
          SENTRY_MAX_ENVELOPE_SESSIONS,
          MAX_INODES,             \* bound: lock files there are at a time
          ActiveProcs,            \* bound: processes that do more than start
          Crashpads,              \* processes with a backend that knows of earlier crashes
          KILLS                   \* bound: processes killed

VARIABLES db_platform,
          lock_files,   \* lock -> the inode at its path, 0 if there is none
          flocks,       \* inode -> who has it locked
          open_fds,     \* actor -> lock -> the inode it has open
          run_dirs,     \* run -> [there, envelopes, markers, session]
          actors,       \* process or daemon -> where it is
          told,         \* on_crashed_last_run callbacks per event
          captured,     \* times an envelope was given to a transport
          reported,     \* sessions reported: << run, status, by >>
          stored,       \* envelopes, markers and sessions ever written
          db_killed

db_vars == << db_platform, lock_files, flocks, open_fds, run_dirs, actors, told, captured,
              reported, stored, db_killed >>
history == << told, captured, reported, stored >>

Nobody == 0
DaemonOf(p) == 10 + p
Daemons == {DaemonOf(p) : p \in Daemonic}
Actors == Procs \cup Daemons
RunLock(r) == <<r, "run">>
DaemonLock(r) == <<r, "daemon">>          \* `<uuid>.run.daemon.lock`
Locks == {RunLock(r) : r \in Procs} \cup {DaemonLock(r) : r \in Procs}
Own(a) == IF a \in Procs THEN a ELSE a - 10
NoDir == [there |-> FALSE, envelopes |-> {}, markers |-> {}, session |-> FALSE]
Off == [at |-> "off", lock |-> RunLock(CHOOSE p \in Procs : TRUE), run |-> Nobody, seen |-> {},
        visited |-> {}, event |-> Nobody, sessions |-> {}, last_crash |-> FALSE, processed |-> TRUE]
At(a, x) == actors[a].at = x
HasDaemon(p) == p \in Daemonic /\ ~At(DaemonOf(p), "absent")
Goto(a, x) == actors' = [actors EXCEPT ![a].at = x]
Dirs == {r \in Procs : run_dirs[r].there}

----------------------------------------------------------------------------
(* sentry__filelock_try_lock and sentry__filelock_unlock.                  *)

Try(a, lock) == actors' = [actors EXCEPT ![a].at = "open", ![a].lock = lock]
Unlocking(a, lock) == [actors EXCEPT ![a].at = "unlock", ![a].lock = lock]
Holds(a, lock) == open_fds[a][lock] # 0 /\ flocks[open_fds[a][lock]] = a

(* An inode lives while it has a path or somebody has it open.             *)
UsedInodes == {lock_files[l] : l \in Locks} \cup {open_fds[a][l] : a \in Actors, l \in Locks}
filelock_open(a) ==
  LET lock == actors[a].lock
      new == Min((1..MAX_INODES) \ UsedInodes)
  IN  /\ At(a, "open")
      /\ IF lock_files[lock] # 0
           THEN /\ open_fds' = [open_fds EXCEPT ![a][lock] = lock_files[lock]]
                /\ UNCHANGED lock_files
           ELSE /\ open_fds' = [open_fds EXCEPT ![a][lock] = new]
                /\ lock_files' = [lock_files EXCEPT ![lock] = new]
      /\ Goto(a, "flock")
      /\ UNCHANGED << db_platform, flocks, run_dirs, history, db_killed >>

(* Where an actor goes when it has the lock, and when it has not.          *)
GotLock(a, lock) ==
  IF a \in Daemons THEN "ready"
  ELSE IF lock = RunLock(a) THEN "mkdir"
  ELSE IF lock[2] = "run" THEN "daemon_lock" ELSE "claimed"
BackTo(a, x) ==            \* done with a run
  [actors EXCEPT ![a] = [Off EXCEPT !.at = x, !.seen = actors[a].seen,
                                    !.visited = actors[a].visited,
                                    !.sessions = actors[a].sessions,
                                    !.last_crash = actors[a].last_crash]]
NoLock(a, lock) ==
  IF lock[1] = Own(a) THEN BackTo(a, "gone")
  ELSE IF lock[2] = "run" THEN BackTo(a, "scan")
  ELSE Unlocking(a, RunLock(lock[1]))

filelock_flock(a) ==
  LET lock == actors[a].lock
      fd == open_fds[a][lock]
  IN  /\ At(a, "flock")
      /\ IF flocks[fd] = Nobody
           THEN /\ flocks' = [flocks EXCEPT ![fd] = a]
                /\ Goto(a, IF db_platform = "unix" THEN "check" ELSE GotLock(a, lock))
                /\ UNCHANGED open_fds
           ELSE /\ open_fds' = [open_fds EXCEPT ![a][lock] = 0]
                /\ actors' = NoLock(a, lock) /\ UNCHANGED flocks
      /\ UNCHANGED << db_platform, lock_files, run_dirs, history, db_killed >>

(* Mutant: the path is not looked at again.                                *)
filelock_check_none(a) ==
  /\ At(a, "check") /\ Goto(a, GotLock(a, actors[a].lock))
  /\ UNCHANGED << db_platform, lock_files, flocks, open_fds, run_dirs, history, db_killed >>

(* st1.st_ino: stat fails when nothing is at the path, its result is not   *)
(* looked at, and st1 is whatever was on the stack.                        *)
Ino(lock, fd) ==
  IF lock_files[lock] # 0 THEN {lock_files[lock]}
  ELSE {IF same THEN fd ELSE 0 : same \in STALE_STAT}
filelock_check(a) ==
  LET lock == actors[a].lock
      fd == open_fds[a][lock]
  IN  /\ At(a, "check")
      /\ \E st1 \in Ino(lock, fd) :
           IF st1 = fd
             THEN Goto(a, GotLock(a, lock)) /\ UNCHANGED << flocks, open_fds >>
             ELSE /\ flocks' = [flocks EXCEPT ![fd] = Nobody]
                  /\ open_fds' = [open_fds EXCEPT ![a][lock] = 0]
                  /\ actors' = NoLock(a, lock)
      /\ UNCHANGED << db_platform, lock_files, run_dirs, history, db_killed >>

(* Unlocking takes two steps: unlink and unlock on unix; on Windows unlock *)
(* and remove, which fails while anybody has the file open.                *)
AfterUnlock(a, lock) ==
  IF lock[1] = Own(a) THEN BackTo(a, "gone")
  ELSE IF lock[2] = "daemon" THEN Unlocking(a, RunLock(lock[1]))
  ELSE BackTo(a, "scan")
Release(a, lock) ==
  /\ flocks' = [flocks EXCEPT ![open_fds[a][lock]] = Nobody]
  /\ open_fds' = [open_fds EXCEPT ![a][lock] = 0]
filelock_unlock_unix(a) ==
  LET lock == actors[a].lock
  IN  /\ db_platform = "unix"
      /\ \/ At(a, "unlock") /\ lock_files' = [lock_files EXCEPT ![lock] = 0]
            /\ Goto(a, "unlocked") /\ UNCHANGED << flocks, open_fds >>
         \/ At(a, "unlocked") /\ Release(a, lock) /\ actors' = AfterUnlock(a, lock)
            /\ UNCHANGED lock_files
      /\ UNCHANGED << db_platform, run_dirs, history, db_killed >>
filelock_unlock_windows(a) ==
  LET lock == actors[a].lock
      busy == \E b \in Actors : open_fds[b][lock] # 0
  IN  /\ db_platform = "windows"
      /\ \/ At(a, "unlock") /\ Release(a, lock) /\ Goto(a, "unlocked") /\ UNCHANGED lock_files
         \/ At(a, "unlocked") /\ lock_files' = [lock_files EXCEPT ![lock] = IF busy THEN @ ELSE 0]
            /\ actors' = AfterUnlock(a, lock) /\ UNCHANGED << flocks, open_fds >>
      /\ UNCHANGED << db_platform, run_dirs, history, db_killed >>

----------------------------------------------------------------------------
(* A process and its own run.                                              *)

(* sentry__run_new: the lock first, the directory after it.                *)
run_new(p) ==
  /\ p \in Procs /\ actors[p] = Off /\ Try(p, RunLock(p))
  /\ UNCHANGED << db_platform, lock_files, flocks, open_fds, run_dirs, history, db_killed >>
run_create_dir(p) ==
  /\ p \in Procs /\ At(p, "mkdir")
  /\ run_dirs' = [run_dirs EXCEPT ![p].there = TRUE]
  /\ Goto(p, "backend")
  /\ UNCHANGED << db_platform, lock_files, flocks, open_fds, history, db_killed >>
(* sentry__run_adopt, by the daemon its process has started.               *)
run_adopt(p) ==
  /\ HasDaemon(p) /\ At(p, "backend") /\ actors[DaemonOf(p)] = Off
  /\ Try(DaemonOf(p), DaemonLock(p))
  /\ UNCHANGED << db_platform, lock_files, flocks, open_fds, run_dirs, history, db_killed >>
(* The backend is up when its daemon is ready, or there is none; then the  *)
(* old runs are looked for.                                                *)
StartBackend(p) ==
  /\ p \in Procs /\ At(p, "backend")
  /\ HasDaemon(p) => At(DaemonOf(p), "ready")
  /\ \E crash \in {FALSE, (p \in Crashpads)} :
       actors' = [actors EXCEPT ![p].at = "scan", ![p].last_crash = crash, ![p].seen = Dirs \ {p}]
  /\ UNCHANGED << db_platform, lock_files, flocks, open_fds, run_dirs, history, db_killed >>
StartFailed(p) ==          \* sentry_init goes to `fail`; the directory stays
  /\ HasDaemon(p) /\ At(p, "backend") /\ actors[DaemonOf(p)].at \in {"gone", "dead"}
  /\ actors' = Unlocking(p, RunLock(p))
  /\ UNCHANGED << db_platform, lock_files, flocks, open_fds, run_dirs, history, db_killed >>

run_write_session(p) ==
  /\ p \in Procs /\ p \in ActiveProcs /\ At(p, "running") /\ <<"session", p>> \notin stored
  /\ run_dirs' = [run_dirs EXCEPT ![p].session = TRUE]
  /\ stored' = stored \cup {<<"session", p>>}
  /\ UNCHANGED << db_platform, lock_files, flocks, open_fds, actors, told, captured, reported, db_killed >>

Ended(r) == IF run_dirs[r].session THEN {<<"ended", r>>} ELSE {}
run_write_envelope(r) ==
  /\ run_dirs' = [run_dirs EXCEPT ![r].envelopes = @ \cup {r}, ![r].session = FALSE]
  /\ stored' = stored \cup {<<"envelope", r>>} \cup Ended(r)

(* A crash: the session ends and goes into the envelope, which is dumped   *)
(* into the run; without a daemon the marker follows.                      *)
CrashDump(p) ==
  /\ p \in ActiveProcs /\ At(p, "running")
  /\ run_dirs' = [run_dirs EXCEPT ![p].envelopes = @ \cup {p}, ![p].session = FALSE]
  /\ stored' = stored \cup {<<"envelope", p>>, <<"crash", p>>} \cup Ended(p)
  /\ Goto(p, IF HasDaemon(p) THEN "crashed" ELSE "mark")
  /\ UNCHANGED << db_platform, lock_files, flocks, open_fds, told, captured, reported, db_killed >>
run_write_crash_marker(p) ==
  /\ p \in Procs /\ At(p, "mark")
  /\ run_dirs' = [run_dirs EXCEPT ![p].markers = IF p \in run_dirs[p].envelopes THEN {p} ELSE @]
  /\ stored' = stored \cup {<<"marker", p>>}
  /\ Goto(p, "crashed")
  /\ UNCHANGED << db_platform, lock_files, flocks, open_fds, told, captured, reported, db_killed >>

(* sentry_close: the session ends, what was not sent is dumped, and the    *)
(* run is removed unless something was dumped or the backend still works.  *)
Close(p) ==
  /\ p \in ActiveProcs /\ At(p, "running")
  /\ \/ run_write_envelope(p) /\ actors' = Unlocking(p, RunLock(p))
     \/ /\ run_dirs' = [run_dirs EXCEPT ![p].session = FALSE]
        /\ stored' = stored \cup Ended(p)
        /\ \E after_shutdown \in BOOLEAN :
             actors' = IF after_shutdown THEN Unlocking(p, RunLock(p))
                       ELSE [actors EXCEPT ![p].at = "clean"]
  /\ UNCHANGED << db_platform, lock_files, flocks, open_fds, told, captured, reported, db_killed >>
run_clean(p) ==
  /\ p \in Procs /\ At(p, "clean")
  /\ run_dirs' = [run_dirs EXCEPT ![p] = NoDir]
  /\ actors' = Unlocking(p, RunLock(p))
  /\ UNCHANGED << db_platform, lock_files, flocks, open_fds, history, db_killed >>

(* The end of a process: its files are closed, its locks released.  Only   *)
(* crashed processes end by themselves; a daemon goes with its process's   *)
(* sentry_close.                                                           *)
Dead(a) ==
  /\ flocks' = [i \in DOMAIN flocks |-> IF flocks[i] = a THEN Nobody ELSE flocks[i]]
  /\ open_fds' = [open_fds EXCEPT ![a] = [l \in Locks |-> 0]]
  /\ actors' = [actors EXCEPT ![a] = [Off EXCEPT !.at = "dead", !.sessions = actors[a].sessions]]
  /\ UNCHANGED << db_platform, lock_files, run_dirs, history >>
CrashEnd(p) == p \in Procs /\ At(p, "crashed") /\ Dead(p) /\ UNCHANGED db_killed
StopDaemon(p) ==
  /\ HasDaemon(p) /\ At(p, "gone") /\ At(DaemonOf(p), "ready")
  /\ Dead(DaemonOf(p)) /\ UNCHANGED db_killed
Kill(a) ==
  /\ Cardinality(db_killed) < KILLS /\ actors[a].at \notin {"off", "gone", "dead", "absent"}
  /\ Dead(a) /\ db_killed' = db_killed \cup {a}

----------------------------------------------------------------------------
(* sentry__process_old_runs.                                               *)

NextRun(p) ==
  /\ p \in Procs /\ At(p, "scan")
  /\ \E r \in Dirs \ ({p} \cup actors[p].visited) :
       actors' = [actors EXCEPT ![p].at = "open", ![p].lock = RunLock(r), ![p].run = r,
                                ![p].visited = @ \cup {r}]
  /\ UNCHANGED << db_platform, lock_files, flocks, open_fds, run_dirs, history, db_killed >>
LastRun(p) ==      \* entries made after opendir may be missed
  /\ p \in Procs /\ At(p, "scan") /\ actors[p].seen \cap Dirs \subseteq actors[p].visited
  /\ reported' = reported \cup actors[p].sessions
  /\ actors' = [actors EXCEPT ![p] = [Off EXCEPT !.at = "running"]]
  /\ UNCHANGED << db_platform, lock_files, flocks, open_fds, run_dirs, told, captured, stored, db_killed >>
CheckDaemonLock(p) ==
  /\ p \in Procs /\ At(p, "daemon_lock")
  /\ IF lock_files[DaemonLock(actors[p].run)] # 0 THEN Try(p, DaemonLock(actors[p].run))
     ELSE Goto(p, "claimed")
  /\ UNCHANGED << db_platform, lock_files, flocks, open_fds, run_dirs, history, db_killed >>
(* process_old_run_func may say that it is not done with the run.          *)
process_old_run(p) ==
  /\ p \in Procs /\ At(p, "claimed")
  /\ \E done \in {TRUE, (p \notin Crashpads)} :
       actors' = [actors EXCEPT ![p].at = "envelopes", ![p].processed = done]
  /\ UNCHANGED << db_platform, lock_files, flocks, open_fds, run_dirs, history, db_killed >>

(* sentry__process_run_envelopes: the marker goes before the callback, the *)
(* envelope file after it was captured.                                    *)
NextEnvelope(a) ==
  /\ At(a, "envelopes")
  /\ LET r == actors[a].run
     IN  IF run_dirs[r].envelopes = {}
           THEN actors' = IF a \in Daemons THEN Unlocking(a, DaemonLock(r))
                          ELSE [actors EXCEPT ![a].at = "session"]
           ELSE \E e \in run_dirs[r].envelopes :
                  actors' = [actors EXCEPT ![a].at = "marker", ![a].event = e]
  /\ UNCHANGED << db_platform, lock_files, flocks, open_fds, run_dirs, history, db_killed >>
CrashedLastRun(a) ==
  /\ LET r == actors[a].run
         e == actors[a].event
     IN  \/ /\ At(a, "marker") /\ run_dirs' = [run_dirs EXCEPT ![r].markers = @ \ {e}]
            /\ Goto(a, IF e \in run_dirs[r].markers THEN "callback" ELSE "capture")
            /\ UNCHANGED told
         \/ /\ At(a, "callback") /\ told' = [told EXCEPT ![e] = @ + 1]
            /\ Goto(a, "capture") /\ UNCHANGED run_dirs
  /\ UNCHANGED << db_platform, lock_files, flocks, open_fds, captured, reported, stored, db_killed >>
capture_envelope(a) ==
  /\ At(a, "capture") /\ captured' = [captured EXCEPT ![actors[a].event] = @ + 1] /\ Goto(a, "remove")
  /\ UNCHANGED << db_platform, lock_files, flocks, open_fds, run_dirs, told, reported, stored, db_killed >>
RemoveEnvelope(a) ==
  /\ At(a, "remove") /\ actors' = [actors EXCEPT ![a].at = "envelopes", ![a].event = Nobody]
  /\ run_dirs' = [run_dirs EXCEPT ![actors[a].run].envelopes = @ \ {actors[a].event}]
  /\ UNCHANGED << db_platform, lock_files, flocks, open_fds, history, db_killed >>

(* The session that was not ended: crashed, if the last crash is known and *)
(* came after its start and no other session has had it, else abnormal.    *)
OldSession(p) ==
  /\ p \in Procs /\ At(p, "session")
  /\ IF ~run_dirs[actors[p].run].session
       THEN Goto(p, "tidy") /\ UNCHANGED reported
       ELSE \E was_crash \in {FALSE, actors[p].last_crash} :
              LET status == IF was_crash THEN "crashed" ELSE "abnormal"
                  sessions == actors[p].sessions \cup {<<actors[p].run, status, p>>}
                  full == Cardinality(sessions) >= SENTRY_MAX_ENVELOPE_SESSIONS
              IN  /\ reported' = IF full THEN reported \cup sessions ELSE reported
                  /\ actors' = [actors EXCEPT ![p].at = "session_file",
                                              ![p].last_crash = @ /\ ~was_crash,
                                              ![p].sessions = IF full THEN {} ELSE sessions]
  /\ UNCHANGED << db_platform, lock_files, flocks, open_fds, run_dirs, told, captured, stored, db_killed >>
RemoveSession(p) ==
  /\ p \in Procs /\ At(p, "session_file") /\ Goto(p, "tidy")
  /\ run_dirs' = [run_dirs EXCEPT ![actors[p].run].session = FALSE]
  /\ UNCHANGED << db_platform, lock_files, flocks, open_fds, history, db_killed >>
RemoveRun(p) ==
  /\ p \in Procs /\ At(p, "tidy")
  /\ LET r == actors[p].run
     IN  /\ run_dirs' = IF actors[p].processed THEN [run_dirs EXCEPT ![r] = NoDir] ELSE run_dirs
         /\ actors' = Unlocking(p, IF Holds(p, DaemonLock(r)) THEN DaemonLock(r) ELSE RunLock(r))
  /\ UNCHANGED << db_platform, lock_files, flocks, open_fds, history, db_killed >>

(* The daemon's main loop: a crash, or its process is gone.                *)
DaemonCrash(d) ==
  /\ d \in Daemons /\ At(d, "ready") /\ <<"crash", Own(d)>> \in stored
  /\ actors' = [actors EXCEPT ![d].at = "envelopes", ![d].run = Own(d)]
  /\ UNCHANGED << db_platform, lock_files, flocks, open_fds, run_dirs, history, db_killed >>
DaemonLeave(d) ==
  /\ d \in Daemons /\ At(d, "ready") /\ At(Own(d), "dead") /\ <<"crash", Own(d)>> \notin stored
  /\ actors' = Unlocking(d, DaemonLock(Own(d)))
  /\ UNCHANGED << db_platform, lock_files, flocks, open_fds, run_dirs, history, db_killed >>

(* The first process runs, with its daemon or without; the second one has  *)
(* made its run and the others of the cast are not yet started.            *)
First == Min(Procs)
Second == Min(Procs \ {First})
DbInit ==
  /\ db_platform \in Platforms
  /\ \E cast \in Casts :
     LET up == {First, Second, DaemonOf(First)} \cap cast
         has(a, l) == a \in up /\ l = (IF a \in Procs THEN RunLock(a) ELSE DaemonLock(Own(a)))
         ino(a) == IF a = First THEN 1 ELSE IF a = Second THEN 2 ELSE 3
         at(a) == CASE a = First -> "running" [] a = Second -> "backend" [] OTHER -> "ready"
     IN  /\ lock_files = [l \in Locks |-> SumSet({ino(a) : a \in {b \in up : has(b, l)}})]
         /\ flocks = [i \in 1..MAX_INODES |-> SumSet({a \in up : ino(a) = i})]
         /\ open_fds = [a \in Actors |-> [l \in Locks |-> IF has(a, l) THEN ino(a) ELSE 0]]
         /\ actors = [a \in Actors |-> [Off EXCEPT !.at = IF a \notin cast THEN "absent"
                                                          ELSE IF a \in up THEN at(a) ELSE @]]
  /\ run_dirs = [r \in Procs |-> [NoDir EXCEPT !.there = r \in {First, Second}]]
  /\ told = [e \in Procs |-> 0] /\ captured = [e \in Procs |-> 0]
  /\ reported = {} /\ stored = {} /\ db_killed = {}
DbNext ==
  \E a \in Actors :
    \/ filelock_open(a) \/ filelock_flock(a) \/ filelock_check(a)
    \/ filelock_unlock_unix(a) \/ filelock_unlock_windows(a)
    \/ run_new(a) \/ run_create_dir(a) \/ run_adopt(a) \/ StartBackend(a) \/ StartFailed(a)
    \/ run_write_session(a) \/ CrashDump(a) \/ run_write_crash_marker(a) \/ Close(a) \/ run_clean(a)
    \/ CrashEnd(a) \/ StopDaemon(a) \/ Kill(a)
    \/ NextRun(a) \/ LastRun(a) \/ CheckDaemonLock(a) \/ process_old_run(a)
    \/ NextEnvelope(a) \/ CrashedLastRun(a) \/ capture_envelope(a) \/ RemoveEnvelope(a)
    \/ OldSession(a) \/ RemoveSession(a) \/ RemoveRun(a) \/ DaemonCrash(a) \/ DaemonLeave(a)
DbSpec == DbInit /\ [][DbNext]_db_vars

----------------------------------------------------------------------------
(* Properties.                                                             *)

(* Who works with the files of a run.                                      *)
Handling == {"claimed", "envelopes", "marker", "callback", "capture", "remove", "session",
             "session_file", "tidy"}
UsesRun(a, r) ==
  \/ a = r /\ actors[a].at \in {"backend", "scan", "running", "mark", "clean", "crashed"}
  \/ actors[a].run = r /\ actors[a].at \in Handling

(* One process at a time works with the files of a run: its own process,   *)
(* its daemon when that process has crashed, or one other that sends what  *)
(* was left (sentry__filelock_try_lock and its second look at the path,    *)
(* sentry__process_old_runs, sentry__run_adopt).                           *)
RunsExclusive ==
  \A r \in Procs : \A a, b \in Actors :
    a # b /\ UsesRun(a, r) /\ UsesRun(b, r) => {a, b} = {r, DaemonOf(r)}

(* What old runs hold is told once and not lost: the crash callback is     *)
(* called at most once for a crash, an envelope leaves the run only when   *)
(* it was captured, and only a process killed on the way makes a second    *)
(* one capture it again or a callback be missed; a session left open is    *)
(* reported or in the hands of a process (or of one that was killed),      *)
(* once unless somebody was killed, and as crashed at most once in a pass. *)
OldRunsReported ==
  /\ \A e \in Procs :
       /\ told[e] <= 1
       /\ <<"envelope", e>> \in stored => e \in run_dirs[e].envelopes \/ captured[e] >= 1
       /\ captured[e] > 1 => db_killed # {}
       /\ <<"marker", e>> \in stored /\ run_dirs[e].markers = {} /\ told[e] = 0
            => \/ db_killed # {}
               \/ \E a \in Actors : actors[a].event = e /\ At(a, "callback")
  /\ \A r \in Procs :
       LET reports == {x \in reported \cup UNION {actors[p].sessions : p \in Procs} : x[1] = r}
       IN  /\ <<"session", r>> \in stored
                => run_dirs[r].session \/ <<"ended", r>> \in stored \/ reports # {}
           /\ Cardinality(reports) > 1 => db_killed # {}
           /\ <<"ended", r>> \in stored => reports = {}
  /\ \A p \in Procs : Cardinality({x \in reported : x[2] = "crashed" /\ x[3] = p}) <= 1

(* Runs are worked on by one process at a time and reported once.          *)
RunsSound == RunsExclusive /\ OldRunsReported
=============================================================================
