------------------------------- MODULE MCState ------------------------------
(* The scope, the traces, the run database and the cache for TLC.  Each    *)
(* behaviour looks at one part, chosen at the start.  A part that is not   *)
(* looked at has no state: its variables are 0.                            *)

CONSTANTS Threads, Backends, Observers, Menus, SCOPE_CALLS, SCOPE_DEPTH, SCOPE_CRASHES,
          Transactions, Spans, TraceHeaders, TraceOptions, MAX_SPANS, TRACE_CALLS, Procs,
          Daemonic, Casts, Platforms, STALE_STAT, SENTRY_MAX_ENVELOPE_SESSIONS,
          MAX_INODES, ActiveProcs, Crashpads, KILLS, Uuids, Sizes, Times, Now, Retried,
          MaxAges, MaxSizes, MaxItems, INTERFERENCES

VARIABLES part, backend, scope, g_lock, calls, allocated, event_file, scope_flush,
          scope_crashed, handler, wer, told, excused, overlapped, misused, budget_left,
          trace_options, tx, span, scope_trace, held, api, finisher, submitted,
          crash_finished, upstream_refused, calls_left, db_platform, lock_files, flocks,
          open_fds, run_dirs, actors, db_told, captured, reported, stored, db_killed,
          cache_options, cache_files, cleaning, discarded, before, touched

Scopes == INSTANCE Scope
Traces == INSTANCE Tracing
Db == INSTANCE RunDb WITH told <- db_told
Cache == INSTANCE Cache

\* The values of the constants the configuration cannot write: the calls that
\* threads may make together, a set of them a behaviour, ...
MCMenus ==
  { {"set_tag", "remove_tag", "set_extra", "attach_file"},
    {"set_tags", "clear", "set_level"},
    {"add_breadcrumb", "set_extra", "remove_extra", "set_user"},
    {"remove_user", "set_user", "set_attribute", "remove_attribute"},
    {"set_context", "remove_context", "update_context"},
    {"set_release", "set_environment", "freeze_dsc", "update_dsc"},
    {"set_fingerprint", "set_fingerprints", "remove_fingerprint"},
    {"attach_file", "remove_attachment", "clear_attachments"} }
\* ... and the headers that take each way through parse_sentry_trace and
\* parse_baggage.
NoHeader == [trace |-> "none", span |-> "none", sampled |-> "unset", baggage |-> FALSE,
             org |-> ""]
MCHeaders ==
  {NoHeader,
   [NoHeader EXCEPT !.trace = "valid", !.span = "bad"],
   [NoHeader EXCEPT !.trace = "valid", !.span = "valid", !.sampled = "yes"],
   [NoHeader EXCEPT !.trace = "valid", !.span = "valid", !.sampled = "yes",
                    !.baggage = TRUE, !.org = "other"],
   [NoHeader EXCEPT !.trace = "bad", !.baggage = TRUE, !.org = "own"]}
MCTraceOptions ==
  {[org |-> "own", strict |-> TRUE, sampler |-> FALSE],
   [org |-> "", strict |-> FALSE, sampler |-> TRUE]}

scope_vars == << backend, scope, g_lock, calls, allocated, event_file, scope_flush,
                 scope_crashed, handler, wer, told, excused, overlapped, misused,
                 budget_left >>
trace_vars == << trace_options, tx, span, scope_trace, held, api, finisher, submitted,
                 crash_finished, upstream_refused, calls_left >>
database_vars == << db_platform, lock_files, flocks, open_fds, run_dirs, actors, db_told,
                    captured, reported, stored, db_killed >>
cache_vars == << cache_options, cache_files, cleaning, discarded, before, touched >>
all_vars == << part, scope_vars, trace_vars, database_vars, cache_vars >>

\* A part that is not looked at rests.
scope_off == /\ backend = 0 /\ scope = 0 /\ g_lock = 0 /\ calls = 0 /\ allocated = 0
             /\ event_file = 0 /\ scope_flush = 0 /\ scope_crashed = 0 /\ handler = 0
             /\ wer = 0 /\ told = 0 /\ excused = 0 /\ overlapped = 0 /\ misused = 0
             /\ budget_left = 0
trace_off == /\ trace_options = 0 /\ tx = 0 /\ span = 0 /\ scope_trace = 0 /\ held = 0
             /\ api = 0 /\ finisher = 0 /\ submitted = 0 /\ crash_finished = 0
             /\ upstream_refused = 0 /\ calls_left = 0
database_off == /\ db_platform = 0 /\ lock_files = 0 /\ flocks = 0 /\ open_fds = 0
                /\ run_dirs = 0 /\ actors = 0 /\ db_told = 0 /\ captured = 0
                /\ reported = 0 /\ stored = 0 /\ db_killed = 0
cache_off == /\ cache_options = 0 /\ cache_files = 0 /\ cleaning = 0 /\ discarded = 0
             /\ before = 0 /\ touched = 0

AllInit == /\ part \in {"scope", "trace", "database", "cache"}
           /\ IF part = "scope" THEN Scopes!Init ELSE scope_off
           /\ IF part = "trace" THEN Traces!Init ELSE trace_off
           /\ IF part = "database" THEN Db!DbInit ELSE database_off
           /\ IF part = "cache" THEN Cache!CacheInit ELSE cache_off

scope_only == part = "scope" /\ UNCHANGED << part, trace_vars, database_vars,
                                             cache_vars >>
trace_only == part = "trace" /\ UNCHANGED << part, scope_vars, database_vars,
                                             cache_vars >>
database_only == part = "database" /\ UNCHANGED << part, scope_vars, trace_vars,
                                                   cache_vars >>
cache_only == part = "cache" /\ UNCHANGED << part, scope_vars, trace_vars,
                                             database_vars >>

scope_step == scope_only /\ Scopes!Next
trace_step == trace_only /\ Traces!Next
database_step == database_only /\ Db!DbNext
cache_step == cache_only /\ Cache!CacheNext
AllNext == scope_step \/ trace_step \/ database_step \/ cache_step

AllSpec == AllInit /\ [][AllNext]_all_vars

(* SENTRY_SCOPE_NOTIFY calls every observer registered and not removed,    *)
(* once, never a freed one, whatever callbacks add, remove or change;      *)
(* between calls each knows the scope as it is                             *)
(* (sentry__scope_begin_notify, sentry__scope_remove_observer).            *)
ObserversAgree == part = "scope" => Scopes!ObserversAgree
(* A change that flushes, made by a callback too, is followed by a flush   *)
(* that reads the scope after it (unlock_scope), and the event of the      *)
(* crash handler is never replaced by an older one                         *)
(* (crashpad_backend_flush_scope).                                         *)
FlushKept == part = "scope" => Scopes!FlushKept
(* References to transactions and spans are counted exactly, from the API, *)
(* the scope and the children (sentry__transaction_incref,                 *)
(* sentry__span_decref).                                                   *)
TraceRefsExact == part = "trace" => Traces!TraceRefsExact
(* A sampled transaction is sent at most once by sentry_transaction_finish *)
(* and once by the crash handler's sentry__trace_finish, with its own      *)
(* spans, each once, and at most max_spans, or one more where the two      *)
(* appended at once; one refused from another organisation carries nothing *)
(* of the incoming trace.                                                  *)
TransactionsSound == part = "trace" => Traces!TransactionsSound
(* One process at a time works with a run's files                          *)
(* (sentry__filelock_try_lock, sentry__run_adopt), and                     *)
(* sentry__process_old_runs tells, captures and reports what an old run    *)
(* holds once, twice only if a process was killed on the way.              *)
RunsSound == part = "database" => Db!RunsSound
(* After sentry__cleanup_cache the cache is within its limits, no kept     *)
(* envelope is older than one that had to go for room, what went was       *)
(* recorded, and sibling files go with their envelope.                     *)
CachePruned == part = "cache" => Cache!CachePruned
=============================================================================
