------------------------------ MODULE Envelope ------------------------------
(***************************************************************************)
(* Envelopes: building one from events and attachments, its wire format,   *)
(* writing it to a file, reading it back raw or parsed, and splitting it   *)
(* into the cache.                                                         *)
(***************************************************************************)
EXTENDS EnvelopeFormat

CONSTANTS JsonPayloads,       \* serialised events: never a raw newline
          FilePayloads,       \* per attached file or buffer: what it may contain
          LARGE,              \* SENTRY_LARGE_ATTACHMENT_SIZE, in tokens
          MAX_SIZE,           \* SENTRY_MAX_ATTACHMENT_SIZE, in tokens
          ITEM_LIMIT,         \* bound: items of an envelope
          ATTACHMENT_LIMIT,   \* bound: entries of the attachment list
          ENVELOPE_FAULTS     \* bound: allocations, reads and writes that fail

VARIABLES env,           \* the envelope in memory, or NoEnvelope
          enable_large_attachments,
          attachments,   \* the attachment list of the scope
          disk,          \* attachment -> the contents of its file
          stage,         \* what the program does with the envelope next
          envelope_file, \* the .envelope file: <<>> or <<contents>>
          cache_file,    \* the same event's file in the cache directory
          dumps,         \* the minidump files beside it
          siblings,      \* attachment files copied into the cache directory
          discarded,     \* attachments counted in the client report
          made,          \* history: the items when the envelope was written
          changed,       \* history: files that changed between the two passes
          torn,          \* history: the process died while writing
          env_faults

env_vars == << env, enable_large_attachments, attachments, disk, stage, envelope_file, cache_file, dumps,
               siblings, discarded, made, changed, torn, env_faults >>

NoEnvelope == [is_raw |-> FALSE, items |-> <<>>, bytes |-> <<>>, exists |-> FALSE]
Parsed(items) == [is_raw |-> FALSE, items |-> items, bytes |-> <<>>, exists |-> TRUE]
Raw(bytes) == [is_raw |-> TRUE, items |-> <<>>, bytes |-> bytes, exists |-> TRUE]

(* A raw envelope is sent and written as it is.                            *)
serialize(e) == IF e.is_raw THEN e.bytes ELSE serialize_items(e.items)

----------------------------------------------------------------------------
(* The attachment list.                                                    *)

Size(a) == Len(disk[a.id])
Exists(a) == disk[a.id] # <<Part>>          \* <<Part>> marks a missing file
is_placeholder(a) == enable_large_attachments /\ Size(a) >= LARGE
attachment_eq(a, b) == ~a.buf /\ ~b.buf /\ a.type = b.type /\ a.id = b.id

EnvInit ==
  /\ env = NoEnvelope
  /\ enable_large_attachments \in BOOLEAN
  /\ attachments = <<>>
  /\ disk \in {f \in [DOMAIN FilePayloads -> UNION Range(FilePayloads)] :
               \A a \in DOMAIN f : f[a] \in FilePayloads[a]}
  /\ stage \in {"list", "plain"}     \* an event with attachments, or another kind
  /\ envelope_file = <<>> /\ cache_file = <<>>
  /\ dumps = <<>> /\ siblings = {} /\ discarded = <<>>
  /\ made = <<>> /\ changed = {} /\ torn = FALSE
  /\ env_faults = 0

Fault == env_faults < ENVELOPE_FAULTS /\ env_faults' = env_faults + 1

(* An oversized attachment is rejected, a duplicate is dropped.            *)
attachments_add ==
  /\ stage = "list" /\ Len(attachments) < ATTACHMENT_LIMIT
  /\ \E id \in DOMAIN disk, buf \in BOOLEAN, ty \in {"", "event.minidump"} :
       LET a == [id |-> id, buf |-> buf, type |-> ty]
       IN  /\ Size(a) <= MAX_SIZE
           /\ ~ \E i \in 1..Len(attachments) : attachment_eq(attachments[i], a)
           /\ \A i \in 1..Len(attachments) : attachments[i].id = id => attachments[i].buf = buf
           /\ attachments' = Append(attachments, a)
  /\ UNCHANGED << env, enable_large_attachments, disk, stage, envelope_file, cache_file, dumps, siblings,
                  discarded, made, changed, torn, env_faults >>

attachments_remove ==
  /\ stage = "list"
  /\ \E i \in 1..Len(attachments) : attachments' = RemoveAt(attachments, i)
  /\ UNCHANGED << env, enable_large_attachments, disk, stage, envelope_file, cache_file, dumps, siblings,
                  discarded, made, changed, torn, env_faults >>

----------------------------------------------------------------------------
(* Building an envelope.                                                   *)

Building == stage \in {"ready", "build"} /\ env.exists /\ ~env.is_raw /\ Len(env.items) < ITEM_LIMIT
Add(item) == env' = [env EXCEPT !.items = Append(@, item)]
Built == stage' = (IF stage = "ready" THEN "build" ELSE stage)
KeepRest == UNCHANGED << enable_large_attachments, attachments, disk, envelope_file, cache_file, dumps,
                         siblings, discarded, made, changed, torn >>
            /\ Built

(* What is left in the list when the payload cannot be serialised.         *)
Hollow == [header |-> Header("", NoAttachment, "", NoLength), payload |-> <<>>]

(* The event item is added first; without it the envelope is freed.        *)
envelope_add_event ==
  /\ stage = "list"
  /\ \/ \E p \in JsonPayloads :
          /\ env' = Parsed(<<Item("event", NoAttachment, "", p)>>)
          /\ stage' = "inline"
          /\ UNCHANGED env_faults
     \/ Fault /\ UNCHANGED << env, stage >>
  /\ UNCHANGED << enable_large_attachments, attachments, disk, envelope_file, cache_file, dumps, siblings,
                  discarded, made, changed, torn >>

(* A transaction is sent without attachments; so is feedback without a     *)
(* hint, an event whose item type is replaced.                             *)
envelope_add_feedback_event ==
  /\ stage = "plain"
  /\ \E p \in JsonPayloads :
       env' = Parsed(<<[Item("event", NoAttachment, "", p) EXCEPT !.header.type = "feedback"]>>)
  /\ stage' = "build"
  /\ UNCHANGED << enable_large_attachments, attachments, disk, envelope_file, cache_file, dumps, siblings,
                  discarded, made, changed, torn, env_faults >>

envelope_add_transaction ==
  /\ stage = "plain"
  /\ \E p \in JsonPayloads : env' = Parsed(<<Item("transaction", NoAttachment, "", p)>>)
  /\ stage' = "build"
  /\ UNCHANGED << enable_large_attachments, attachments, disk, envelope_file, cache_file, dumps, siblings,
                  discarded, made, changed, torn, env_faults >>

(* Logs and metrics: the item is linked in before it gets its payload.     *)
add_telemetry ==
  /\ stage = "plain"
  /\ \/ \E p \in JsonPayloads : env' = Parsed(<<Item("log", NoAttachment, "log+json", p)>>) /\ UNCHANGED env_faults
     \/ Fault /\ env' = Parsed(<<Hollow>>)
  /\ stage' = "build"
  /\ UNCHANGED << enable_large_attachments, attachments, disk, envelope_file, cache_file, dumps, siblings,
                  discarded, made, changed, torn >>

envelope_add_user_report ==
  /\ Building
  /\ \/ \E p \in JsonPayloads : Add(Item("user_report", NoAttachment, "", p)) /\ UNCHANGED env_faults
     \/ Fault /\ Add(Hollow)
  /\ KeepRest

(* Sessions and client reports get their payload before they are linked.   *)
envelope_add_session ==
  /\ Building
  /\ \/ \E p \in JsonPayloads : Add(Item("session", NoAttachment, "", p)) /\ UNCHANGED env_faults
     \/ Fault /\ UNCHANGED env
  /\ KeepRest

envelope_add_client_report ==
  /\ Building
  /\ \/ \E p \in JsonPayloads : Add(Item("client_report", NoAttachment, "", p)) /\ UNCHANGED env_faults
     \/ Fault /\ UNCHANGED env
  /\ KeepRest

(* First pass over the list: everything small goes in by value; one that   *)
(* cannot be read is left out.                                             *)
Inlined(a) == Item("attachment", a,
                   IF a.type = "event.minidump" THEN "octet-stream" ELSE "", disk[a.id])

envelope_add_attachments_all ==
  /\ stage = "inline"
  /\ LET small == SelectSeq(attachments, LAMBDA a : Exists(a))
     IN  env' = [env EXCEPT !.items = @ \o [i \in 1..Len(small) |-> Inlined(small[i])]]
  /\ stage' = "refs"
  /\ UNCHANGED << enable_large_attachments, attachments, disk, envelope_file, cache_file, dumps, siblings,
                  discarded, made, changed, torn, env_faults >>

envelope_add_attachments ==
  /\ stage = "inline"
  /\ LET small == SelectSeq(attachments, LAMBDA a : ~is_placeholder(a) /\ Exists(a))
     IN  env' = [env EXCEPT !.items = @ \o [i \in 1..Len(small) |-> Inlined(small[i])]]
  /\ stage' = "refs"
  /\ UNCHANGED << enable_large_attachments, attachments, disk, envelope_file, cache_file, dumps, siblings,
                  discarded, made, changed, torn, env_faults >>

(* The files belong to the application, which may be writing to them.      *)
FileChanges ==
  /\ stage = "refs" /\ changed = {}
  /\ \E id \in DOMAIN disk : \E p \in FilePayloads[id] \cup {<<Part>>} :
       /\ disk[id] # p
       /\ ~ \E i \in 1..Len(attachments) : attachments[i].id = id /\ attachments[i].buf
       /\ disk' = [disk EXCEPT ![id] = p]
       /\ changed' = {id}
  /\ UNCHANGED << env, enable_large_attachments, attachments, stage, envelope_file, cache_file, dumps,
                  siblings, discarded, made, torn, env_faults >>

(* A large attachment is copied beside the envelope and referred to.       *)
RefItem(a) == Item("attachment", a, RefMime, <<[t |-> "ref"]>>)

(* It must still be there, and the copy may fail.                          *)
cache_attachment_ref(a, copied) ==
  IF copied /\ Exists(a) THEN <<RefItem(a)>> ELSE <<>>

(* Second pass: the size is looked at again; what could not be copied is   *)
(* counted as discarded.                                                   *)
cache_attachment_refs ==
  /\ stage = "refs"
  /\ LET large == SelectSeq(attachments, LAMBDA a : is_placeholder(a))
     IN  \E bad \in SUBSET (1..Len(large)) :
           /\ {i \in 1..Len(large) : ~Exists(large[i])} \subseteq bad
           /\ env_faults + Cardinality(bad) <= ENVELOPE_FAULTS
           /\ env_faults' = env_faults + Cardinality(bad)
           /\ LET among(S) == FlattenSeq([i \in 1..Len(large) |->
                                            IF i \in S THEN <<large[i]>> ELSE <<>>])
              IN  /\ env' = [env EXCEPT !.items = @ \o FlattenSeq(
                       [i \in 1..Len(large) |-> cache_attachment_ref(large[i], i \notin bad)])]
                  /\ siblings' = siblings \cup Range(among((1..Len(large)) \ bad))
                  /\ discarded' = among(bad)
  /\ stage' = "ready"
  /\ UNCHANGED << enable_large_attachments, attachments, disk, envelope_file, cache_file, dumps, made,
                  changed, torn >>

(* The transport drops a reference it cannot resolve, or replaces its      *)
(* payload by one with the upload's location.                              *)
IsRef(i) == i.header.content_type = RefMime
envelope_remove_item ==
  /\ stage \in {"ready", "build"} /\ env.exists /\ ~env.is_raw
  /\ \E i \in 1..Len(env.items) :
       IsRef(env.items[i]) /\ env' = [env EXCEPT !.items = RemoveAt(@, i)]
  /\ KeepRest /\ UNCHANGED env_faults

resolve_attachment_ref ==
  /\ stage \in {"ready", "build"} /\ env.exists /\ ~env.is_raw
  /\ \E i \in 1..Len(env.items) :
       LET a == env.items[i] IN
       /\ IsRef(a) /\ Len(a.payload) = 1
       /\ env' = [env EXCEPT !.items[i] = 
              [header |-> [a.header EXCEPT !.length = <<2>>],
               payload |-> a.payload \o <<[t |-> "location"]>>]]
  /\ KeepRest /\ UNCHANGED env_faults

----------------------------------------------------------------------------
(* Files.                                                                  *)

(* What a process that dies while writing leaves: some prefix, the last    *)
(* header possibly cut short.                                              *)
CutShort(e) ==
  LET b == serialize(e)
  IN  {SubSeq(b, 1, n) : n \in 0..(Len(b) - 1)} \cup {<<Part>>}
        \cup {serialize([e EXCEPT !.items = SubSeq(@, 1, i - 1)]) \o <<NL, Part>> :
              i \in 1..Len(e.items)}

(* A failed write is cleaned up; a crash during the write is not.          *)
envelope_write_to_path ==
  /\ stage \in {"ready", "build"} /\ env.exists
  /\ \/ /\ envelope_file' = <<serialize(env)>>
        /\ stage' = "written" /\ UNCHANGED << torn, env_faults >>
     \/ /\ Fault /\ envelope_file' = <<>> /\ stage' = "build" /\ UNCHANGED torn
     \/ /\ Fault
        /\ \E b \in CutShort(env) : envelope_file' = <<b>>
        /\ torn' = TRUE /\ stage' = "written"
  /\ made' = env.items
  /\ env' = IF stage' = "written" THEN NoEnvelope ELSE env
  /\ UNCHANGED << enable_large_attachments, attachments, disk, cache_file, dumps, siblings, discarded, changed >>

envelope_from_path ==
  /\ stage = "written" /\ envelope_file # <<>> /\ ~env.exists
  /\ env' = Raw(envelope_file[1])
  /\ KeepRest /\ UNCHANGED env_faults

(* A buffer that does not parse leaves the envelope raw.                   *)
envelope_materialize ==
  /\ stage = "written" /\ env.exists /\ env.is_raw
  /\ LET r == deserialize_into(env.bytes)
     IN  r.ok /\ env' = Parsed(r.items)
  /\ KeepRest /\ UNCHANGED env_faults

IsMinidump(i) ==
  i.header.attachment_type = "event.minidump" /\ i.payload # <<>> /\ ~IsRef(i)


(* Whether the item went to a .dmp file of its own.                        *)
write_minidump(i, w) == IsMinidump(i) /\ w

(* An envelope of the same event that is already there is left alone.  The *)
(* minidumps go to files of their own; one that cannot be written stays in *)
(* the envelope.                                                           *)
envelope_write_to_cache ==
  /\ stage = "written" /\ env.exists /\ cache_file = <<>>
  /\ LET r == IF env.is_raw THEN deserialize_into(env.bytes) ELSE [ok |-> TRUE, items |-> env.items]
     IN  /\ r.ok
         /\ \E w \in [1..Len(r.items) -> BOOLEAN] :
              LET bad == {i \in 1..Len(r.items) : IsMinidump(r.items[i]) /\ ~w[i]}
                  out == {i \in 1..Len(r.items) : write_minidump(r.items[i], w[i])}
                  keep == SelectSeq([i \in 1..Len(r.items) |-> i], LAMBDA i : i \notin out)
              IN  /\ \A i \in 1..Len(r.items) : IsMinidump(r.items[i]) \/ w[i]
                  /\ env_faults + Cardinality(bad) <= ENVELOPE_FAULTS
                  /\ env_faults' = env_faults + Cardinality(bad)
                  /\ cache_file' = <<serialize(Parsed([k \in 1..Len(keep) |-> r.items[keep[k]]]))>>
                  /\ dumps' = [i \in out \ bad |-> r.items[i].payload]
  /\ stage' = "cached"
  /\ UNCHANGED << env, enable_large_attachments, attachments, disk, envelope_file, siblings, discarded,
                  made, changed, torn >>

EnvNext ==
  \/ attachments_add \/ attachments_remove
  \/ envelope_add_event \/ envelope_add_feedback_event \/ envelope_add_transaction \/ add_telemetry
  \/ envelope_add_user_report \/ envelope_add_session \/ envelope_add_client_report
  \/ envelope_add_attachments \/ FileChanges \/ cache_attachment_refs
  \/ envelope_remove_item \/ resolve_attachment_ref
  \/ envelope_write_to_path \/ envelope_from_path \/ envelope_materialize
  \/ envelope_write_to_cache

EnvSpec == EnvInit /\ [][EnvNext]_env_vars

----------------------------------------------------------------------------
(* Properties.                                                             *)

(* A file read back is the envelope that was written, whatever its         *)
(* payloads contain; a file a crash cut short is rejected or yields a      *)
(* prefix of its items, never an altered one (deserialize_into).           *)
ReadBack ==
  LET r == IF env.is_raw THEN deserialize_into(env.bytes) ELSE [ok |-> TRUE, items |-> env.items]
  IN  (stage \in {"written", "cached"} /\ env.exists) =>
        IF torn THEN r.ok => IsPrefix(r.items, made) ELSE r.ok /\ r.items = made

(* Splitting into the cache loses nothing: what the cached envelope holds  *)
(* and the minidump files together are the items of the envelope           *)
(* (sentry__envelope_write_to_cache).                                      *)
CacheComplete ==
  (stage = "cached") =>
    LET r == deserialize_into(cache_file[1])
        all == IF env.is_raw THEN deserialize_into(env.bytes).items ELSE env.items
        kept == SelectSeq([i \in 1..Len(all) |-> i], LAMBDA i : i \notin DOMAIN dumps)
    IN  /\ r.ok
        /\ r.items = [k \in 1..Len(kept) |-> all[kept[k]]]
        /\ \A i \in DOMAIN dumps : dumps[i] = all[i].payload

EnvelopeIntact == ReadBack /\ CacheComplete

(* After the two passes over the attachment list (by value, then by        *)
(* reference), every attachment whose file stayed as it was is in the      *)
(* envelope, or counted as discarded, exactly as often as it is listed.    *)
Of(a, list) == Len(SelectSeq(list, LAMBDA b : b.id = a.id /\ b.type = a.type))
AttachmentsOnce ==
  (stage = "ready") =>
    LET listed == [i \in 1..Len(env.items) |->
                    [id |-> env.items[i].header.filename,
                     type |-> env.items[i].header.attachment_type]]
    IN  \A k \in 1..Len(attachments) :
          LET a == attachments[k]
          IN  a.id \notin changed =>
                Of(a, listed) + Of(a, discarded) = Of(a, attachments)

(* What is written can be read back whole, and holds each attachment once. *)
EnvelopeSound == EnvelopeIntact /\ AttachmentsOnce
=============================================================================
