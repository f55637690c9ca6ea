---------------------------- MODULE Breadcrumbs ----------------------------
(***************************************************************************)
(* Breadcrumbs: sentry_add_breadcrumb hands a breadcrumb to the backend,   *)
(* which appends it to one of two ring files of the run directory, and     *)
(* then to the ring buffer of the scope.  The ring files are what survives *)
(* a crash: the crash daemon (native backend) or the next start (crashpad  *)
(* backend) decodes both and merges them.  The scope's ring is what an     *)
(* event captured in the process carries.                                  *)
(*                                                                         *)
(* The backend hook runs without a lock, so its counter is read, written   *)
(* and used in separate steps; a file write is an open (which truncates)   *)
(* followed by the bytes.  The process may die in any state: what a crash  *)
(* report would hold is the state function Reported.                       *)
(***************************************************************************)
EXTENDS Integers, Sequences, FiniteSets, SequencesExt

CONSTANTS Threads,                  \* threads that add breadcrumbs
          MAX_OPTIONS,              \* values of options->max_breadcrumbs
          SENTRY_BREADCRUMBS_MAX,   \* the scope ring's size before sentry_init
          ADD_LIMIT,                \* bound: breadcrumbs created
          OVERLAP_LIMIT,            \* bound: the same once calls overlapped
          FAULT_LIMIT               \* bound: failing opens and short writes

VARIABLES backend,          \* "native" or "crashpad"
          max_breadcrumbs,  \* options->max_breadcrumbs
          initialized,      \* sentry_init has published the options
          num_breadcrumbs,  \* the backend state's counter
          ring_files,       \* what the two ring files hold
          adding,           \* per thread: the sentry_add_breadcrumb call
          scope_ring,       \* scope->breadcrumbs
          timestamps,       \* history: the time stamp of each breadcrumb
          scoped,           \* history: breadcrumbs in the order the scope got them
          written,          \* history: breadcrumbs whose file write completed
          disturbed,        \* history: a short write, or two overlapping adds
          faults

crumb_vars == << backend, max_breadcrumbs, initialized, num_breadcrumbs,
                 ring_files, adding, scope_ring, timestamps, scoped, written,
                 disturbed, faults >>

Torn == 0      \* the bytes of a breadcrumb that was not written whole
Idle == [pc |-> "idle", crumb |-> 0, seen |-> 0]
Smaller(a, b) == IF a < b THEN a ELSE b

CrumbInit ==
  /\ backend \in {"native", "crashpad"}
  /\ max_breadcrumbs \in MAX_OPTIONS
  /\ initialized = FALSE
  /\ num_breadcrumbs = 0
  /\ ring_files = << <<>>, <<>> >>
  /\ adding = [t \in Threads |-> Idle]
  /\ scope_ring = [list |-> <<>>, max_size |-> SENTRY_BREADCRUMBS_MAX,
                   start_idx |-> 0]
  /\ timestamps = <<>>
  /\ scoped = <<>>
  /\ written = {}
  /\ disturbed = FALSE
  /\ faults = 0

----------------------------------------------------------------------------
(* The ring buffer of the scope.                                           *)

ringbuffer_append(rb, c) ==
  CASE rb.max_size = 0 -> rb
    [] Len(rb.list) < rb.max_size -> [rb EXCEPT !.list = Append(@, c)]
    [] Len(rb.list) = rb.max_size ->
         [rb EXCEPT !.list[rb.start_idx + 1] = c,
                    !.start_idx = (@ + 1) % rb.max_size]
    [] OTHER -> rb

ringbuffer_to_list(rb) ==
  [i \in 1..Len(rb.list) |-> rb.list[((rb.start_idx + i - 1) % Len(rb.list)) + 1]]

ringbuffer_set_max_size(rb, n) ==
  IF rb.list # <<>> THEN rb ELSE [rb EXCEPT !.max_size = n]

(* sentry_init gives the ring of the (already existing) scope its size.    *)
SentryInit ==
  /\ ~initialized
  /\ initialized' = TRUE
  /\ scope_ring' = ringbuffer_set_max_size(scope_ring, max_breadcrumbs)
  /\ UNCHANGED << backend, max_breadcrumbs, num_breadcrumbs, ring_files, adding,
                  timestamps, scoped, written, disturbed, faults >>

----------------------------------------------------------------------------
(* Adding a breadcrumb.                                                    *)

At(t, pc) == adding[t].pc = pc
Go(t, pc) == adding' = [adding EXCEPT ![t].pc = pc]

(* A breadcrumb is stamped when it is created; the clock does not go back, *)
(* and two of them may fall on the same tick.  Without options there is no *)
(* hook and no backend to call.  One that the before_breadcrumb hook       *)
(* discards reaches neither the backend nor the scope: no step.            *)
AddBreadcrumb(t) ==
  /\ At(t, "idle")
  /\ Len(timestamps) < (IF disturbed THEN OVERLAP_LIMIT ELSE ADD_LIMIT)
  /\ \E tick \in 0..1 :
       timestamps' = Append(timestamps,
                            IF timestamps = <<>> THEN 1 ELSE Last(timestamps) + tick)
  /\ adding' = [adding EXCEPT ![t] =
                 [pc |-> IF initialized THEN "backend" ELSE "scope",
                  crumb |-> Len(timestamps) + 1, seen |-> 0]]
  /\ disturbed' = (disturbed \/ \E u \in Threads \ {t} : ~At(u, "idle"))
  /\ UNCHANGED << backend, max_breadcrumbs, initialized, num_breadcrumbs,
                  ring_files, scope_ring, scoped, written, faults >>

(* The backend reads its counter; a maximum of 0 keeps nothing.            *)
ReadCount(t) ==
  /\ At(t, "backend")
  /\ IF max_breadcrumbs = 0
       THEN Go(t, "scope")
       ELSE adding' = [adding EXCEPT ![t].pc = "count", ![t].seen = num_breadcrumbs]
  /\ UNCHANGED << backend, max_breadcrumbs, initialized, num_breadcrumbs,
                  ring_files, scope_ring, timestamps, scoped, written,
                  disturbed, faults >>

FirstOf(t) == adding[t].seen % max_breadcrumbs = 0
FileOf(t) == IF adding[t].seen % (max_breadcrumbs * 2) < max_breadcrumbs THEN 1 ELSE 2

(* ... and stores it back incremented, whatever becomes of the write.      *)
native_backend_add_breadcrumb(t) ==
  /\ At(t, "count") /\ backend = "native"
  /\ num_breadcrumbs' = adding[t].seen + 1
  /\ Go(t, "open")
  /\ UNCHANGED << backend, max_breadcrumbs, initialized, ring_files, scope_ring,
                  timestamps, scoped, written, disturbed, faults >>

(* Opening the file for the first breadcrumb of a window truncates it.     *)
OpenFile(t) ==
  /\ At(t, "open")
  /\ \/ /\ ring_files' = IF FirstOf(t) THEN [ring_files EXCEPT ![FileOf(t)] = <<>>]
                                       ELSE ring_files
        /\ Go(t, "write")
        /\ UNCHANGED faults
     \/ /\ faults < FAULT_LIMIT
        /\ faults' = faults + 1
        /\ Go(t, "scope")
        /\ UNCHANGED ring_files
  /\ UNCHANGED << backend, max_breadcrumbs, initialized, num_breadcrumbs,
                  scope_ring, timestamps, scoped, written, disturbed >>

(* An append lands at the end of the file.  The write after a truncation   *)
(* starts at offset 0: it overlays what another thread appended meanwhile, *)
(* wholly or leaving a remainder that does not decode.  A short write      *)
(* leaves a torn record.                                                   *)
WriteRecord(t) ==
  /\ At(t, "write")
  /\ LET f == FileOf(t)
         c == adding[t].crumb
     IN  \/ /\ \E rest \in IF FirstOf(t) /\ ring_files[f] # <<>>
                             THEN {<<>>, <<Torn>>} ELSE {<<>>} :
                 ring_files' = [ring_files EXCEPT ![f] =
                                 (IF FirstOf(t) THEN <<c>> ELSE Append(@, c)) \o rest]
            /\ written' = written \cup {c}
            /\ UNCHANGED << disturbed, faults >>
         \/ /\ faults < FAULT_LIMIT
            /\ faults' = faults + 1
            /\ ring_files' = [ring_files EXCEPT ![f] = Append(@, Torn)]
            /\ disturbed' = TRUE
            /\ UNCHANGED written
  /\ Go(t, "scope")
  /\ UNCHANGED << backend, max_breadcrumbs, initialized, num_breadcrumbs,
                  scope_ring, timestamps, scoped >>

(* crashpad writes through its client, one call for the whole record.      *)
crashpad_backend_add_breadcrumb(t) ==
  /\ At(t, "count") /\ backend = "crashpad"
  /\ num_breadcrumbs' = adding[t].seen + 1
  /\ LET f == FileOf(t)
         c == adding[t].crumb
     IN  \/ /\ ring_files' = [ring_files EXCEPT ![f] =
                               IF FirstOf(t) THEN <<c>> ELSE Append(@, c)]
            /\ written' = written \cup {c}
            /\ UNCHANGED faults
         \/ /\ faults < FAULT_LIMIT
            /\ faults' = faults + 1
            /\ UNCHANGED << ring_files, written >>
  /\ Go(t, "scope")
  /\ UNCHANGED << backend, max_breadcrumbs, initialized, scope_ring, timestamps,
                  scoped, disturbed >>

(* The scope is locked for the append.                                     *)
scope_add_breadcrumb(t) ==
  /\ At(t, "scope")
  /\ scope_ring' = ringbuffer_append(scope_ring, adding[t].crumb)
  /\ scoped' = Append(scoped, adding[t].crumb)
  /\ adding' = [adding EXCEPT ![t] = Idle]
  /\ UNCHANGED << backend, max_breadcrumbs, initialized, num_breadcrumbs,
                  ring_files, timestamps, written, disturbed, faults >>

CrumbNext ==
  \/ SentryInit
  \/ \E t \in Threads :
       \/ AddBreadcrumb(t) \/ ReadCount(t)
       \/ native_backend_add_breadcrumb(t) \/ crashpad_backend_add_breadcrumb(t)
       \/ OpenFile(t) \/ WriteRecord(t) \/ scope_add_breadcrumb(t)

CrumbSpec == CrumbInit /\ [][CrumbNext]_crumb_vars

----------------------------------------------------------------------------
(* Reading them back.                                                      *)

(* A ring file is decoded up to the first record that does not parse.      *)
from_msgpack_stream(f) ==
  LET bad == {i \in 1..Len(f) : f[i] = Torn}
  IN  IF bad = {} THEN f
      ELSE SubSeq(f, 1, (CHOOSE i \in bad : \A j \in bad : i <= j) - 1)

(* Time stamps order breadcrumbs; equal ones compare as 0.                 *)
cmp_breadcrumb(a, b) == timestamps[a] - timestamps[b]

(* Two lists in time order, the first list going first on equal stamps.    *)
InTimeOrder(a, b) ==
  LET m[i \in 1..(Len(a) + 1), j \in 1..(Len(b) + 1)] ==
        IF i > Len(a) THEN SubSeq(b, j, Len(b))
        ELSE IF j > Len(b) THEN SubSeq(a, i, Len(a))
        ELSE IF cmp_breadcrumb(a[i], b[j]) <= 0
               THEN <<a[i]>> \o m[i + 1, j]
               ELSE <<b[j]>> \o m[i, j + 1]
  IN  m[1, 1]

Skipped(a, b, n) == IF Len(a) + Len(b) > n THEN Len(a) + Len(b) - n ELSE 0

merge_breadcrumbs_oldest(a, b, n) ==
  SubSeq(InTimeOrder(a, b), 1, Len(a) + Len(b) - Skipped(a, b, n))

(* The oldest are skipped to fit, unless one of the lists is empty.        *)
merge_breadcrumbs(a, b, n) ==
  IF a = <<>> THEN b
  ELSE IF b = <<>> THEN a
  ELSE SubSeq(InTimeOrder(a, b), Skipped(a, b, n) + 1, Len(a) + Len(b))

apply_breadcrumbs_from_ring_files ==
  IF max_breadcrumbs = 0 THEN <<>>
  ELSE merge_breadcrumbs(from_msgpack_stream(ring_files[1]),
                         from_msgpack_stream(ring_files[2]), max_breadcrumbs)

report_to_envelope ==
  merge_breadcrumbs(from_msgpack_stream(ring_files[1]),
                    from_msgpack_stream(ring_files[2]), max_breadcrumbs)

Reported == IF backend = "native" THEN apply_breadcrumbs_from_ring_files
                                  ELSE report_to_envelope

----------------------------------------------------------------------------
(* Properties.                                                             *)

(* While calls did not overlap and no write was cut short, a crash at any  *)
(* point (also between truncating a ring file and writing to it) reports   *)
(* breadcrumbs each once and in time order.  While no file failed to open  *)
(* either, it reports as many as the maximum allows and none that is left  *)
(* out is newer than one that is kept: native_backend_add_breadcrumb       *)
(* switches its two files in time.                                         *)
NewestReported ==
  (~disturbed) =>
    LET r == Reported
    IN  /\ IsInjective(r)
        /\ Range(r) \subseteq written
        /\ \A i \in 1..(Len(r) - 1) : timestamps[r[i]] <= timestamps[r[i + 1]]
        /\ (faults = 0) =>
             /\ Len(r) = Smaller(max_breadcrumbs, Cardinality(written))
             /\ \A c \in written \ Range(r), k \in Range(r) : timestamps[c] <= timestamps[k]

(* Whatever the threads do, the scope's ring lists exactly the breadcrumbs *)
(* it got last, in the order it got them.                                  *)
ScopeKeepsLast ==
  LET n == Smaller(scope_ring.max_size, Len(scoped))
  IN  ringbuffer_to_list(scope_ring) = SubSeq(scoped, Len(scoped) - n + 1, Len(scoped))

(* What a crash report and the scope keep of the breadcrumbs, together.    *)
BreadcrumbsKept == NewestReported /\ ScopeKeepsLast
=============================================================================
