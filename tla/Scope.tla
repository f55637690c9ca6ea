------------------------------- MODULE Scope -------------------------------
(***************************************************************************)
(* The global scope: its setters, the observers they notify, and the flush *)
(* of the scope to the crash backend.                                      *)
(*                                                                         *)
(* The scope is guarded by a recursive lock.  A setter changes a field and *)
(* calls the observers while it holds the lock; a callback may change      *)
(* another field, add an observer or remove one (itself included), so the  *)
(* calls of a thread form a stack.  The flush follows the unlock, outside  *)
(* the lock, and is put off while observers are being notified.            *)
(*                                                                         *)
(* A field's value is a set: of the one value it has, of the keys of a     *)
(* context, of the attachments; empty where the code has null.             *)
(***************************************************************************)
EXTENDS Integers, Sequences, FiniteSets, SequencesExt

CONSTANTS Threads,
          Backends,         \* subset of {"crashpad_macos", "crashpad_windows", "native"}
          Observers,        \* addresses an observer may be allocated at
          Menus,            \* sets of the setters one program calls
          SCOPE_CALLS,      \* bound: calls, reentrant ones included
          SCOPE_DEPTH,      \* bound: calls inside one another
          SCOPE_CRASHES     \* bound: crashes

VARIABLES backend,          \* options->backend
          scope,            \* fields, dsc, observers, is_notifying, pending_flush
          g_lock,           \* owner and depth of the recursive lock
          calls,            \* thread -> the stack of its calls
          allocated,        \* observers not freed
          event_file,       \* what the backend has on disk: content, manifest, mixed
          scope_flush,      \* thread holding crashpad's flush flag, 0 if clear
          scope_crashed,    \* crashpad_state_t.crashed
          handler,          \* the first-chance handler: at, thread, snapshot
          wer,              \* what Windows Error Reporting has; since: the tags it began with
          told,             \* observer -> the fields as it has been told
          excused,          \* fields cleared while their observers were being told
          overlapped,       \* a flush began while another was under way
          misused,          \* a freed observer was called, or one twice or not at all
          budget_left       \* bound: calls and crashes to come, and the setters used

scope_vars == << backend, scope, g_lock, calls, allocated, event_file, scope_flush, scope_crashed,
                 handler, wer, told, excused, overlapped, misused, budget_left >>

Fields == {"user", "release", "environment", "fingerprint", "level", "tags", "extra", "contexts",
           "attributes", "attachments", "breadcrumbs"}
Observed == Fields \ {"attributes"}
(* The fields sentry__scope_apply_to_event puts in a crash event: its own  *)
(* level stays fatal, and SENTRY_SCOPE_NONE leaves out the breadcrumbs.    *)
Applied == {"user", "release", "environment", "fingerprint", "tags", "extra", "contexts"}
Wer == 0                       \* the observer of the WER integration
Tombstone == -1                \* a removed observer's slot
TooLong == 2                   \* a tag value longer than WER_METADATA_VALUE_MAX_LENGTH
LevelError == {1}

----------------------------------------------------------------------------
(* Setters.  Each gives the fields and the dynamic sampling context it     *)
(* leaves, and what its observers are told, one notification after the     *)
(* other: a field set to a value, or values added to it or removed.        *)

Nothing(s) == [fields |-> s.fields, dsc |-> s.dsc, tells |-> <<>>]
Silent(s, field, value) == [Nothing(s) EXCEPT !.fields[field] = value]
Effect(s, field, value) ==
  [Silent(s, field, value) EXCEPT !.tells = << [field |-> field, how |-> "set", value |-> value] >>]
(* An entry of an object; without memory for it the object is unchanged.   *)
SetKey(s, field, value, memory) == IF memory THEN Effect(s, field, value) ELSE Nothing(s)
(* sentry_value_remove_by_key fails where there is nothing to remove.      *)
RemoveKey(s, field) == IF s.fields[field] = {} THEN Nothing(s) ELSE Effect(s, field, {})
(* A frozen dynamic sampling context refuses the new value.                *)
WithDsc(effect, key, value) ==
  [effect EXCEPT !.dsc = IF @.frozen THEN @ ELSE [@ EXCEPT ![key] = value]]

scope_add_breadcrumb(s, v, memory) ==
  IF memory
    THEN [Silent(s, "breadcrumbs", s.fields["breadcrumbs"] \cup v)
            EXCEPT !.tells = << [field |-> "breadcrumbs", how |-> "add", value |-> v] >>]
    ELSE Nothing(s)
scope_set_user(s, v) == Effect(s, "user", v)
scope_set_tag(s, v, memory) == SetKey(s, "tags", v, memory)
(* sentry_scope_set_tags passes over a value that is not a string.         *)
set_tag_value(s, v, string) == IF string THEN scope_set_tag(s, v, TRUE) ELSE Nothing(s)
scope_remove_tag(s) == RemoveKey(s, "tags")
scope_set_extra(s, v, memory) == SetKey(s, "extra", v, memory)
scope_remove_extra(s) == RemoveKey(s, "extra")
(* An attribute without a value or a type is refused.                      *)
scope_set_attribute(s, v, complete) ==
  IF complete THEN Silent(s, "attributes", v) ELSE Nothing(s)
scope_remove_attribute(s) == Silent(s, "attributes", {})
scope_set_context(s, v, memory) == SetKey(s, "contexts", v, memory)
scope_remove_context(s) == RemoveKey(s, "contexts")
(* The keys of the old context the new one lacks are kept.                 *)
scope_update_context(s, v, memory) ==
  SetKey(s, "contexts", s.fields["contexts"] \cup v, memory)
scope_set_release(s, v) == WithDsc(Effect(s, "release", v), "release", v)
scope_set_environment(s, v) == WithDsc(Effect(s, "environment", v), "environment", v)
scope_set_fingerprint(s, v) == Effect(s, "fingerprint", v)
(* Anything but a list is refused.                                         *)
scope_set_fingerprints(s, v, list) == IF list THEN Effect(s, "fingerprint", v) ELSE Nothing(s)
scope_remove_fingerprint(s) == Effect(s, "fingerprint", {})
scope_set_level(s, v) == Effect(s, "level", v)

(* The dynamic sampling context, taken from upstream as it is, or rebuilt. *)
scope_freeze_dsc(s, v) ==
  [Nothing(s) EXCEPT !.dsc = [frozen |-> TRUE, release |-> v, environment |-> v]]
scope_update_dsc(s) ==
  [Nothing(s) EXCEPT !.dsc = [frozen |-> FALSE, release |-> s.fields["release"],
                              environment |-> s.fields["environment"]]]

(* attachment_eq: a file is attached once.  An oversized one is refused.   *)
attachments_add(list, v, accepted) == IF accepted THEN list \cup v ELSE list
Attachments(s, list) == [Silent(s, "attachments", list) EXCEPT !.tells =
  SetToSeq({[field |-> "attachments", how |-> "add", value |-> {a}] :
              a \in list \ s.fields["attachments"]}
           \cup {[field |-> "attachments", how |-> "sub", value |-> {a}] :
              a \in s.fields["attachments"] \ list})]
scope_add_attachment(s, v, accepted) ==
  Attachments(s, attachments_add(s.fields["attachments"], v, accepted))
attachments_remove(list, v) == list \ v
scope_remove_attachment(s, v) == Attachments(s, attachments_remove(s.fields["attachments"], v))
(* Every attachment is taken off, then the observers are told of each.     *)
clear_attachments(s) == Attachments(s, {})

(* init_scope: what sentry_scope_clear leaves.                             *)
init_scope == [f \in Fields |-> IF f = "level" THEN LevelError ELSE {}]

(* sentry__scope_apply_to_event, SENTRY_SCOPE_NONE, to an empty event.      *)
apply_to_event(fields) == [f \in Applied |-> fields[f]]

(* The public setters: the scope's, inside SENTRY_WITH_SCOPE_MUT.  A       *)
(* breadcrumb is written by the backend and needs no flush.                *)
EffectOf(s, op, v, good) ==
  CASE op = "add_breadcrumb" -> scope_add_breadcrumb(s, v, good)
    [] op = "set_user" -> scope_set_user(s, v)
    [] op = "remove_user" -> scope_set_user(s, {})
    [] op = "set_tag" -> scope_set_tag(s, v, good)
    [] op = "set_tags" -> set_tag_value(s, v, good)
    [] op = "remove_tag" -> scope_remove_tag(s)
    [] op = "set_extra" -> scope_set_extra(s, v, good)
    [] op = "remove_extra" -> scope_remove_extra(s)
    [] op = "set_attribute" -> scope_set_attribute(s, v, good)
    [] op = "remove_attribute" -> scope_remove_attribute(s)
    [] op = "set_context" -> scope_set_context(s, v, good)
    [] op = "remove_context" -> scope_remove_context(s)
    [] op = "update_context" -> scope_update_context(s, v, good)
    [] op = "set_release" -> scope_set_release(s, v)
    [] op = "set_environment" -> scope_set_environment(s, v)
    [] op = "set_fingerprint" -> scope_set_fingerprint(s, v)
    [] op = "set_fingerprints" -> scope_set_fingerprints(s, v, good)
    [] op = "remove_fingerprint" -> scope_remove_fingerprint(s)
    [] op = "set_level" -> scope_set_level(s, v)
    [] op = "freeze_dsc" -> scope_freeze_dsc(s, v)
    [] op = "update_dsc" -> scope_update_dsc(s)
    [] op = "attach_file" -> scope_add_attachment(s, v, good)
    [] op = "remove_attachment" -> scope_remove_attachment(s, v)
    [] op = "clear_attachments" -> clear_attachments(s)
    [] op = "clear" -> [Nothing(s) EXCEPT
                          !.tells = << [field |-> "all", how |-> "clear", value |-> {}] >>]
Flushes(op) == op # "add_breadcrumb"

----------------------------------------------------------------------------
(* Observers.                                                              *)

Compact(observers) == SelectSeq(observers, LAMBDA o : o # Tombstone)
add_observer(s, o) == [s EXCEPT !.observers = Append(@, o)]
(* Mutant: the array is shifted while it is being iterated.                *)
remove_observer_shift(s, o) ==
  [s EXCEPT !.observers = RemoveAt(@, CHOOSE n \in DOMAIN @ : @[n] = o)]
(* The array is not shifted while it is being iterated.                    *)
remove_observer(s, o) ==
  LET i == CHOOSE n \in DOMAIN s.observers : s.observers[n] = o
  IN  [s EXCEPT !.observers = IF s.is_notifying > 0 THEN [@ EXCEPT ![i] = Tombstone]
                                                     ELSE RemoveAt(@, i)]
begin_notify(s) == [s EXCEPT !.is_notifying = @ + 1]
end_notify(s) == [s EXCEPT !.is_notifying = @ - 1,
                           !.observers = IF s.is_notifying > 1 THEN @ ELSE Compact(@)]

(* What the WER integration does of a callback: it keeps tags that fit and *)
(* the files attached.                                                     *)
wer_set_tag(w, v) == IF TooLong \in v THEN w ELSE [w EXCEPT !.tags = v]
wer_remove_tag(w) == [w EXCEPT !.tags = {}]
wer_add_attachment(w, v) == [w EXCEPT !.files = @ \cup v]
wer_remove_attachment(w, v) == [w EXCEPT !.files = @ \ v]
(* wer_clear and unregister_wer take off what the scope has now.           *)
wer_clear(w, fields) ==
  wer_remove_attachment(IF fields["tags"] = {} THEN w ELSE wer_remove_tag(w), fields["attachments"])
WerTold(w, fields, tell) ==
  CASE tell.field = "tags" /\ tell.value # {} -> wer_set_tag(w, tell.value)
    [] tell.field = "tags" /\ tell.value = {} -> wer_remove_tag(w)
    [] tell.field = "attachments" /\ tell.how = "add" -> wer_add_attachment(w, tell.value)
    [] tell.field = "attachments" /\ tell.how = "sub" -> wer_remove_attachment(w, tell.value)
    [] tell.field = "all" -> wer_clear(w, fields)
    [] OTHER -> w

(* What an observer knows after a callback.                                *)
Learned(known, tell) ==
  CASE tell.how = "set" -> [known EXCEPT ![tell.field] = tell.value]
    [] tell.how = "add" -> [known EXCEPT ![tell.field] = @ \cup tell.value]
    [] tell.how = "sub" -> [known EXCEPT ![tell.field] = @ \ tell.value]
    [] tell.how = "clear" -> init_scope

----------------------------------------------------------------------------
(* Calls.                                                                  *)

Top(t) == Last(calls[t])
CanLock(t) == g_lock.owner \in {0, t}
Locked(t) == g_lock' = [owner |-> t, depth |-> g_lock.depth + 1]
Unlocked == g_lock' = IF g_lock.depth = 1 THEN [owner |-> 0, depth |-> 0]
                                          ELSE [g_lock EXCEPT !.depth = @ - 1]
Goes(t, frame) == calls' = [calls EXCEPT ![t] = Append(Front(@), frame)]
Returns(t) == calls' = [calls EXCEPT ![t] = Front(@)]
Running(t) == handler.thread # t
(* A thread calls from the program, or from inside an observer's callback. *)
InCallback(t) == calls[t] # <<>> /\ Top(t).at = "notify" /\ Top(t).inside \in Observers
MayCall(t) == Running(t) /\ (calls[t] = <<>> \/ InCallback(t))
(* "Reentrant mutation of the same observed entry is unsupported."         *)
Busy(t) == {calls[t][n].tells[1].field : n \in {n \in DOMAIN calls[t] : calls[t][n].tells # <<>>}}

(* The first or the next notification of a call, or its unlock.            *)
Telling(s, frame) ==
  IF frame.tells = <<>> THEN [frame EXCEPT !.at = "unlock", !.inside = Tombstone]
    ELSE [frame EXCEPT !.at = "notify", !.i = 1, !.end = Len(s.observers), !.inside = Tombstone,
            !.due = {n \in DOMAIN s.observers : s.observers[n] # Tombstone}]
Told(s, frame) == IF frame.tells = <<>> THEN s ELSE begin_notify(s)

Call(t) ==
  /\ MayCall(t) /\ CanLock(t) /\ Locked(t)
  /\ Len(calls[t]) < SCOPE_DEPTH /\ budget_left.calls > 0
  /\ budget_left' = [budget_left EXCEPT !.calls = @ - 1]
  /\ \E op \in budget_left.ops, v \in {{1}, {2}}, good \in BOOLEAN :
       LET effect == EffectOf(scope, op, v, good)
           after == [scope EXCEPT !.fields = effect.fields, !.dsc = effect.dsc]
           frame == [op |-> op, at |-> "notify", tells |-> effect.tells, i |-> 0, end |-> 0,
                     due |-> {}, inside |-> Tombstone, snapshot |-> apply_to_event(init_scope)]
           cleared == op = "clear"
       IN  /\ \A f \in Busy(t) : f # "all" /\ effect.fields[f] = scope.fields[f]
           /\ effect.tells # <<>> => effect.tells[1].field \notin Busy(t)
           /\ scope' = Told(after, frame)
           /\ calls' = [calls EXCEPT ![t] = Append(@, Telling(after, frame))]
           /\ excused' = IF cleared THEN excused \cup Busy(t)
                                    ELSE excused \ {f \in Fields : effect.fields[f] # scope.fields[f]}
  /\ UNCHANGED << backend, allocated, event_file, scope_flush, scope_crashed, handler, wer, told,
                  overlapped, misused >>

(* SENTRY_SCOPE_NOTIFY: the next observer is called, a tombstone passed    *)
(* over.                                                                   *)
Notify(t) ==
  /\ Running(t) /\ calls[t] # <<>>
  /\ LET frame == Top(t)
         i == frame.i
         o == scope.observers[i]
         tell == frame.tells[1]
     IN  /\ frame.at = "notify" /\ i <= frame.end /\ i <= Len(scope.observers)
         /\ Goes(t, [frame EXCEPT !.i = @ + 1, !.due = @ \ {i}, !.inside = o])
         /\ told' = IF o \in DOMAIN told THEN [told EXCEPT ![o] = Learned(@, tell)] ELSE told
         /\ wer' = IF o = Wer THEN WerTold(wer, scope.fields, tell) ELSE wer
         /\ misused' = (misused \/ (o # Tombstone /\ ~(o \in allocated /\ i \in frame.due)))
  /\ UNCHANGED << backend, scope, g_lock, allocated, event_file, scope_flush, scope_crashed,
                  handler, excused, overlapped, budget_left >>

(* sentry__scope_end_notify, and what follows in the setter: the next      *)
(* notification, or for sentry_scope_clear the scope's reset, which keeps  *)
(* its observers and its dynamic sampling context.                         *)
EndNotify(t) ==
  /\ Running(t) /\ calls[t] # <<>>
  /\ LET frame == Top(t)
         rest == [frame EXCEPT !.tells = Tail(@)]
         ended == end_notify(scope)
         after == IF frame.op = "clear" THEN [ended EXCEPT !.fields = init_scope] ELSE ended
     IN  /\ frame.at = "notify" /\ (frame.i > frame.end \/ frame.i > Len(scope.observers))
         /\ scope' = Told(after, rest)
         /\ Goes(t, Telling(after, rest))
         /\ misused' = (misused \/ \E n \in frame.due \cap DOMAIN scope.observers : scope.observers[n] # Tombstone)
  /\ UNCHANGED << backend, g_lock, allocated, event_file, scope_flush, scope_crashed, handler, wer,
                  told, excused, overlapped, budget_left >>

(* unlock_scope: a flush wanted while observers are being told is put off  *)
(* to the unlock that follows (mutant: it is forgotten).                   *)
unlock_scope_drop(s, flush) ==
  [flush |-> flush /\ s.is_notifying = 0, pending |-> FALSE]
unlock_scope(s, flush) ==
  IF s.is_notifying > 0 THEN [flush |-> FALSE, pending |-> flush \/ s.pending_flush]
                        ELSE [flush |-> flush \/ s.pending_flush, pending |-> FALSE]
Unlock(t) ==
  /\ Running(t) /\ calls[t] # <<>> /\ Top(t).at = "unlock" /\ Unlocked
  /\ LET unlocked == unlock_scope(scope, Flushes(Top(t).op))
     IN  /\ scope' = [scope EXCEPT !.pending_flush = unlocked.pending]
         /\ IF unlocked.flush THEN Goes(t, [Top(t) EXCEPT !.at = "flush", !.i = 0, !.end = 0]) ELSE Returns(t)
  /\ UNCHANGED << backend, allocated, event_file, scope_flush, scope_crashed, handler, wer, told,
                  excused, overlapped, misused, budget_left >>

(* A program, or a callback, adds an observer or removes one, inside       *)
(* SENTRY_WITH_SCOPE_MUT_NO_FLUSH; an observer knows the scope it joins,   *)
(* empty for one that joins while it is being cleared.                     *)
AddObserver(t) ==
  /\ MayCall(t) /\ CanLock(t) /\ budget_left.calls > 0
  /\ budget_left' = [budget_left EXCEPT !.calls = @ - 1]
  /\ \E o \in Observers \ allocated :
       /\ scope' = add_observer(scope, o)
       /\ allocated' = allocated \cup {o}
       /\ told' = [told EXCEPT ![o] = IF "all" \in Busy(t) THEN init_scope ELSE scope.fields]
  /\ UNCHANGED << backend, g_lock, calls, event_file, scope_flush, scope_crashed, handler, wer,
                  excused, overlapped, misused >>
RemoveObserver(t) ==
  /\ MayCall(t) /\ CanLock(t) /\ budget_left.calls > 0
  /\ budget_left' = [budget_left EXCEPT !.calls = @ - 1]
  /\ \E o \in Observers \cap allocated :
       /\ scope' = remove_observer(scope, o)
       /\ allocated' = allocated \ {o}
       /\ told' = [told EXCEPT ![o] = init_scope]
  /\ UNCHANGED << backend, g_lock, calls, event_file, scope_flush, scope_crashed, handler, wer,
                  excused, overlapped, misused >>

(* The integration, registered by sentry_init and unregistered by          *)
(* sentry_close: the attachments of the scope are registered with it, its  *)
(* tags are not.                                                           *)
register_wer(t) ==
  /\ calls[t] = <<>> /\ Running(t) /\ CanLock(t) /\ budget_left.calls > 0 /\ Wer \notin allocated
  /\ budget_left' = [budget_left EXCEPT !.calls = @ - 1]
  /\ scope' = add_observer(scope, Wer)
  /\ allocated' = allocated \cup {Wer}
  /\ told' = [told EXCEPT ![Wer] = scope.fields]
  /\ wer' = [wer_add_attachment(wer, scope.fields["attachments"]) EXCEPT
            !.on = TRUE, !.since = scope.fields["tags"]]
  /\ UNCHANGED << backend, g_lock, calls, event_file, scope_flush, scope_crashed, handler, excused,
                  overlapped, misused >>
unregister_wer(t) ==
  /\ calls[t] = <<>> /\ Running(t) /\ CanLock(t) /\ budget_left.calls > 0 /\ Wer \in allocated
  /\ budget_left' = [budget_left EXCEPT !.calls = @ - 1]
  /\ scope' = remove_observer(scope, Wer)
  /\ allocated' = allocated \ {Wer}
  /\ wer' = [wer_clear(wer, scope.fields) EXCEPT !.on = FALSE, !.since = {}]
  /\ UNCHANGED << backend, g_lock, calls, event_file, scope_flush, scope_crashed, handler, told,
                  excused, overlapped, misused >>

----------------------------------------------------------------------------
(* The backend's flush, after the unlock and outside the lock.             *)

Flushing(t) == calls[t] # <<>> /\ Top(t).at \in {"read", "write"}
OthersFlush(t) == \E u \in Threads \ {t} : Flushing(u)

(* crashpad_backend_flush_scope does nothing after a crash, or while       *)
(* another thread flushes.                                                 *)
crashpad_flush_scope(t) ==
  /\ backend # "native"
  /\ IF scope_crashed \/ scope_flush # 0
       THEN Returns(t) /\ UNCHANGED scope_flush
       ELSE scope_flush' = t /\ Goes(t, [Top(t) EXCEPT !.at = "read"])
  /\ UNCHANGED event_file

(* native_backend_write_attachments: the manifest is left as it is while   *)
(* the scope has no attachments.                                           *)
native_write_attachments(manifest, list) == IF list = {} THEN manifest ELSE list
native_flush_scope(t) ==
  /\ backend = "native" /\ CanLock(t)
  /\ event_file' = [event_file EXCEPT
                      !.manifest = native_write_attachments(@, scope.fields["attachments"])]
  /\ Goes(t, [Top(t) EXCEPT !.at = "read"])
  /\ UNCHANGED scope_flush

FlushScope(t) ==
  /\ Running(t) /\ calls[t] # <<>> /\ Top(t).at = "flush"
  /\ crashpad_flush_scope(t) \/ native_flush_scope(t)
  /\ overlapped' = OthersFlush(t)
  /\ UNCHANGED << backend, scope, g_lock, allocated, scope_crashed, handler, wer, told, excused,
                  misused, budget_left >>

(* The scope is read under its lock; the file is written after.            *)
FlushRead(t) ==
  /\ Running(t) /\ calls[t] # <<>> /\ Top(t).at = "read" /\ CanLock(t)
  /\ Goes(t, [Top(t) EXCEPT !.at = "write", !.snapshot = apply_to_event(scope.fields)])
  /\ UNCHANGED << backend, scope, g_lock, allocated, event_file, scope_flush, scope_crashed, handler,
                  wer, told, excused, overlapped, misused, budget_left >>
(* Two writers that had the file open at once may leave a mix of both.     *)
Torn == [f \in Applied |-> {0}]
FlushWrite(t) ==
  /\ Running(t) /\ calls[t] # <<>> /\ Top(t).at = "write" /\ Returns(t)
  /\ \E content \in {Top(t).snapshot} \cup (IF t \in event_file.mixed THEN {Torn} ELSE {}) :
       event_file' = [event_file EXCEPT !.content = content,
                        !.mixed = (@ \cup {u \in Threads : calls[u] # <<>> /\ Top(u).at = "write"}) \ {t}]
  /\ scope_flush' = IF scope_flush = t THEN 0 ELSE scope_flush
  /\ UNCHANGED << backend, scope, g_lock, allocated, scope_crashed, handler, wer, told, excused,
                  overlapped, misused, budget_left >>

(* The first-chance handler of crashpad on Windows, on the thread that     *)
(* crashed, wherever that was, while the others run on.                    *)
Crash(t) ==
  /\ backend = "crashpad_windows" /\ handler.at = "none" /\ budget_left.crashes > 0
  /\ budget_left' = [budget_left EXCEPT !.crashes = @ - 1]
  /\ scope_crashed' = TRUE
  /\ handler' = [handler EXCEPT !.at = "wait", !.thread = t]
  /\ UNCHANGED << backend, scope, g_lock, calls, allocated, event_file, scope_flush, wer, told, excused,
                  overlapped, misused >>
(* It waits until no scope flush is in progress, and keeps the flag.       *)
HandlerWait ==
  /\ handler.at = "wait" /\ scope_flush = 0
  /\ scope_flush' = handler.thread
  /\ handler' = [handler EXCEPT !.at = "read"]
  /\ UNCHANGED << backend, scope, g_lock, calls, allocated, event_file, scope_crashed, wer, told,
                  excused, overlapped, misused, budget_left >>
HandlerRead ==
  /\ handler.at = "read" /\ CanLock(handler.thread)
  /\ handler' = [handler EXCEPT !.at = "write", !.snapshot = apply_to_event(scope.fields)]
  /\ UNCHANGED << backend, scope, g_lock, calls, allocated, event_file, scope_flush, scope_crashed, wer,
                  told, excused, overlapped, misused, budget_left >>
HandlerWrite ==
  /\ handler.at = "write"
  /\ event_file' = [event_file EXCEPT !.content = handler.snapshot]
  /\ handler' = [handler EXCEPT !.at = "done"]
  /\ UNCHANGED << backend, scope, g_lock, calls, allocated, scope_flush, scope_crashed, wer, told,
                  excused, overlapped, misused, budget_left >>

----------------------------------------------------------------------------
(* After sentry_init: one observer, and an event file of the empty scope.  *)
Init ==
  /\ backend \in Backends
  /\ \E o \in {CHOOSE o \in Observers : TRUE} :
       /\ scope = [fields |-> init_scope, dsc |-> [frozen |-> FALSE, release |-> {}, environment |-> {}],
                   observers |-> <<o>>, is_notifying |-> 0, pending_flush |-> FALSE]
       /\ allocated = {o}
  /\ g_lock = [owner |-> 0, depth |-> 0]
  /\ calls = [t \in Threads |-> <<>>]
  /\ event_file = [content |-> apply_to_event(init_scope), manifest |-> {}, mixed |-> {}]
  /\ scope_flush = 0 /\ scope_crashed = FALSE
  /\ handler = [at |-> "none", thread |-> 0, snapshot |-> apply_to_event(init_scope)]
  /\ wer = [on |-> FALSE, tags |-> {}, files |-> {}, since |-> {}]
  /\ told = [o \in Observers \cup {Wer} |-> init_scope]
  /\ excused = {} /\ overlapped = FALSE /\ misused = FALSE
  /\ \E ops \in Menus :
       budget_left = [calls |-> SCOPE_CALLS, crashes |-> SCOPE_CRASHES, ops |-> ops]

Next ==
  \/ \E t \in Threads :
       \/ Call(t) \/ Notify(t) \/ EndNotify(t) \/ Unlock(t)
       \/ AddObserver(t) \/ RemoveObserver(t) \/ register_wer(t) \/ unregister_wer(t)
       \/ FlushScope(t) \/ FlushRead(t) \/ FlushWrite(t) \/ Crash(t)
  \/ HandlerWait \/ HandlerRead \/ HandlerWrite

Spec == Init /\ [][Next]_scope_vars

----------------------------------------------------------------------------
(* Properties.                                                             *)

Quiet == g_lock.owner = 0

(* SENTRY_SCOPE_NOTIFY calls every observer that was registered when the   *)
(* notification began and has not been removed since, once, and never one  *)
(* that has been freed, whatever the callbacks add, remove or change.      *)
(* Between calls no tombstone is left, and each observer knows the scope   *)
(* as it is, but for a field the scope was cleared of while its change was *)
(* being told.  WER has the scope's attachments and, where it fits, the    *)
(* tag set last; nothing once it is unregistered.                          *)
ObserversAgree ==
  /\ ~misused
  /\ Quiet =>
       /\ Tombstone \notin Range(scope.observers) /\ scope.is_notifying = 0
       /\ Range(scope.observers) = allocated /\ Len(scope.observers) = Cardinality(allocated)
       /\ \A o \in allocated, f \in Observed \ excused : told[o][f] = scope.fields[f]
       /\ wer.on /\ "attachments" \notin excused => wer.files = scope.fields["attachments"]
       /\ wer.on /\ "tags" \notin excused /\ scope.fields["tags"] \notin {wer.since, {TooLong}}
            => wer.tags = scope.fields["tags"]
       /\ ~wer.on /\ excused = {} => wer.files = {} /\ wer.tags = {}

(* A change that flushes, made by a callback too, is followed by a flush   *)
(* that reads the scope after it: between calls the backend's event holds  *)
(* the scope as it is, unless two flushes have overlapped since.  The      *)
(* event the crash handler wrote is never replaced by an older one.        *)
FlushKept ==
  /\ ~overlapped /\ handler.at = "none" /\ (\A t \in Threads : calls[t] = <<>>)
       => event_file.content = apply_to_event(scope.fields) /\ ~scope.pending_flush
  /\ handler.at = "done" => event_file.content = handler.snapshot
=============================================================================
