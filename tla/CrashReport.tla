---------------------------- MODULE CrashReport ----------------------------
(***************************************************************************)
(* How the crash daemon puts a crash report together: it writes the        *)
(* envelope file by hand (headers, lengths and separators included),       *)
(* reads it back with the parser of the SDK, and adds a reference for      *)
(* every large attachment.                                                 *)
(*                                                                         *)
(* The files are attached while other processes may still write to them    *)
(* and while the disk may be full: a length is taken with fstat, the       *)
(* contents are copied afterwards, and most failing writes are only        *)
(* logged.  The format and its parser are the ones of EnvelopeFormat.      *)
(***************************************************************************)
EXTENDS EnvelopeFormat

CONSTANTS Contents,      \* what a scope attachment may contain
          Small,         \* what the daemon's own files contain
          Attached,      \* the files that can be attached
          LARGE_SIZE,    \* SENTRY_LARGE_ATTACHMENT_SIZE, in tokens
          ROOM,          \* amounts of free disk space, in tokens
          PLENTY,        \* the one of them that never runs out
          ALTERATIONS    \* bound: files that change or fail while copied

VARIABLES crash,      \* the crash context, the base event and the manifest
          contents,   \* file -> its contents, or Missing
          room,       \* free space left
          out,        \* the envelope file
          event_id,   \* whether the envelope header names the event
          at_item,    \* the stage of the report
          left,       \* manifest entries not looked at yet
          refs,       \* the attachment-ref items added to the envelope
          altered     \* history: files that changed or failed while copied

report_vars == <<crash, contents, room, out, event_id, at_item, left, refs, altered>>

Missing == <<Part>>
EventBytes == <<[t |-> "event"]>>           \* an event the daemon serialised
BaseBytes == <<[t |-> "base event"]>>       \* the base event as it was read
RawBytes == <<[t |-> "unparsed"], [t |-> "unparsed"]>>  \* the same, not JSON
Minidump == "minidump.dmp"
Screenshot == "screenshot.png"
Replay == "session-replay.mp4"
Files == Attached \cup {Minidump, Screenshot, Replay}

(* __sentry-attachments lists a scope attachment once.  An entry may lack  *)
(* its path, and names no file then, or (crash.unnamed) its file name.     *)
Malformed == ""
Manifests == {m \in SeqOf(Attached \cup {Malformed}, 2) :
              \A i, j \in DOMAIN m : m[i] = m[j] => i = j}

ReportInit ==
  /\ crash \in [native : BOOLEAN, base : {"missing", "empty", "valid", "broken"},
                manifest : Manifests, large : BOOLEAN,
                attach_screenshot : BOOLEAN, attach_session_replay : BOOLEAN,
                header_fits : BOOLEAN, unnamed : Attached \cup {Malformed}]
  /\ crash.unnamed \in Range(crash.manifest) \cup {Malformed}
  /\ \E some \in [Range(crash.manifest) \ {Malformed} -> Contents \cup {Missing}],
        daemon \in [Files \ Attached -> {Small, Missing}] :
       /\ crash.attach_screenshot \/ daemon[Screenshot] = Missing
       /\ crash.attach_session_replay \/ daemon[Replay] = Missing
       /\ contents = [f \in Files |-> IF f \in DOMAIN some THEN some[f]
                                     ELSE IF f \in DOMAIN daemon THEN daemon[f] ELSE Missing]
  /\ crash.native => crash.base = "valid"    \* it makes no difference here
  /\ room \in ROOM
  /\ crash.header_fits \/ room = PLENTY
  /\ out = <<>> /\ event_id = FALSE /\ at_item = "event"
  /\ left = crash.manifest /\ refs = <<>> /\ altered = {}

----------------------------------------------------------------------------
(* write(): a full disk takes what still fits, and nothing after that.     *)
Written(bytes) == IF room = PLENTY THEN bytes ELSE SubSeq(bytes, 1, IF Len(bytes) < room THEN Len(bytes) ELSE room)
Write(bytes) ==
  /\ out' = out \o Written(bytes)
  /\ room' = IF room = PLENTY THEN room ELSE room - Len(Written(bytes))
NothingWritten == UNCHANGED <<out, room>>

(* The event of the report.  With native stack traces it is built on the   *)
(* base event, or on a new one when that is missing or unreadable; without *)
(* them an unreadable base event is sent as it is, with no id known, and a *)
(* missing one is left out.  A serialisation that fails makes the first    *)
(* give up and the second fall back to the bytes of the base event.        *)
build_native_event == EventBytes

native_event ==
  /\ at_item = "event"
  /\ \/ at_item' = "open" /\ event_id' = TRUE
     \/ at_item' = "failed" /\ UNCHANGED event_id
  /\ UNCHANGED <<crash, contents, left, refs, altered>> /\ NothingWritten

minidump_event ==
  /\ at_item = "event"
  /\ at_item' = "open"
  /\ event_id' = (crash.base = "valid")
  /\ \/ UNCHANGED crash
     \/ crash.base = "valid" /\ crash' = [crash EXCEPT !.base = "unmerged"]
  /\ UNCHANGED <<contents, left, refs, altered>> /\ NothingWritten

EventJson ==
  IF crash.native THEN <<build_native_event>>
  ELSE CASE crash.base = "valid" -> <<EventBytes>>
         [] crash.base = "unmerged" -> <<BaseBytes>>
         [] crash.base = "broken" -> <<RawBytes>>
         [] OTHER -> <<>>

(* Opening the file, the header and the event item.  A header that does    *)
(* not fit its buffer is not written at all.                               *)
EventItem ==
  IF EventJson = <<>> THEN <<>>
  ELSE << Header("event", NoAttachment, "", <<Len(EventJson[1])>>), NL >>
       \o EventJson[1] \o <<NL>>

open_envelope ==
  /\ at_item = "open"
  /\ \/ /\ Write((IF crash.header_fits THEN <<EnvelopeHeader, NL>> ELSE <<>>) \o EventItem)
        /\ at_item' = "minidump"
     \/ at_item' = "failed" /\ NothingWritten
  /\ UNCHANGED <<crash, contents, event_id, left, refs, altered>>

(* Copying a file: the length is the one fstat saw, the contents are those *)
(* read afterwards.  The file may be longer or shorter by then, and a read *)
(* may fail half way, which leaves the item without its final newline; the *)
(* copy of the minidump writes the newline all the same.                   *)
AttachmentHeader(f) ==
  Header("attachment", [id |-> IF f = crash.unnamed THEN "" ELSE f, type |-> IF f = Minidump THEN "event.minidump" ELSE ""],
         "", <<Len(contents[f])>>)

Copied(f, got, ended) ==
  << AttachmentHeader(f), NL >> \o got \o (IF ended \/ f = Minidump THEN <<NL>> ELSE <<>>)

write_attachment_to_envelope(f) ==
  \/ /\ contents[f] = Missing
     /\ NothingWritten /\ UNCHANGED altered
  \/ /\ contents[f] # Missing
     /\ Write(Copied(f, contents[f], TRUE))
     /\ UNCHANGED altered
  \/ /\ contents[f] # Missing
     /\ Cardinality(altered) < ALTERATIONS
     /\ \E got \in Contents, ended \in BOOLEAN :
          /\ got # contents[f] \/ ~ended
          /\ ended \/ IsPrefix(got, contents[f])
          /\ Write(Copied(f, got, ended))
     /\ altered' = altered \cup {f}

minidump_item ==
  /\ at_item = "minidump"
  /\ write_attachment_to_envelope(Minidump)
  /\ at_item' = "manifest"
  /\ UNCHANGED <<crash, contents, event_id, left, refs>>

(* Large attachments wait for add_attachment_refs; everything else of the  *)
(* manifest is written now.                                                *)
attachment_is_placeholder(f) ==
  crash.large /\ contents[f] # Missing /\ Len(contents[f]) >= LARGE_SIZE

manifest_item_all ==
  /\ at_item = "manifest"
  /\ \/ /\ left # <<>>
        /\ left' = Tail(left) /\ UNCHANGED at_item
        /\ IF Head(left) = Malformed
             THEN NothingWritten /\ UNCHANGED altered
             ELSE write_attachment_to_envelope(Head(left))
     \/ /\ left = <<>>
        /\ at_item' = "screenshot"
        /\ NothingWritten /\ UNCHANGED <<left, altered>>
  /\ UNCHANGED <<crash, contents, event_id, refs>>

manifest_item ==
  /\ at_item = "manifest"
  /\ \/ /\ left # <<>>
        /\ left' = Tail(left) /\ UNCHANGED at_item
        /\ IF Head(left) = Malformed \/ attachment_is_placeholder(Head(left))
             THEN NothingWritten /\ UNCHANGED altered
             ELSE write_attachment_to_envelope(Head(left))
     \/ /\ left = <<>>
        /\ at_item' = "screenshot"
        /\ NothingWritten /\ UNCHANGED <<left, altered>>
  /\ UNCHANGED <<crash, contents, event_id, refs>>

screenshot_item ==
  /\ at_item = "screenshot"
  /\ IF crash.attach_screenshot THEN write_attachment_to_envelope(Screenshot)
     ELSE NothingWritten /\ UNCHANGED altered
  /\ at_item' = "replay"
  /\ UNCHANGED <<crash, contents, event_id, left, refs>>

replay_item ==
  /\ at_item = "replay"
  /\ IF crash.attach_session_replay THEN write_attachment_to_envelope(Replay)
     ELSE NothingWritten /\ UNCHANGED altered
  /\ at_item' = "written"
  /\ left' = crash.manifest
  /\ UNCHANGED <<crash, contents, event_id, refs>>

write_envelope_with_native_stacktrace ==
  /\ crash.native
  /\ native_event \/ open_envelope \/ minidump_item \/ manifest_item
       \/ screenshot_item \/ replay_item

write_envelope_with_minidump ==
  /\ ~crash.native
  /\ minidump_event \/ open_envelope \/ minidump_item \/ manifest_item
       \/ screenshot_item \/ replay_item

----------------------------------------------------------------------------
(* The file is read back, and every attachment that is large now is copied *)
(* to the cache and referred to.  The first one needs the file to parse:   *)
(* when it does not, no reference is added and the envelope stays raw.  An *)
(* envelope without an event id takes no reference, and an entry without a *)
(* file name is skipped here.                                              *)
add_attachment_refs ==
  /\ at_item = "written"
  /\ \/ /\ left # <<>>
        /\ LET f == Head(left)
               skipped == f \in {Malformed, crash.unnamed} \/ ~attachment_is_placeholder(f)
               unreadable == ~deserialize_into(out).ok
           IN  /\ left' = IF ~skipped /\ unreadable THEN <<>> ELSE Tail(left)
               /\ refs' = IF skipped \/ unreadable \/ ~event_id \/ out[1] # EnvelopeHeader THEN refs
                          ELSE Append(refs, f)
        /\ UNCHANGED at_item
     \/ /\ left = <<>>
        /\ at_item' = "captured"
        /\ UNCHANGED <<left, refs>>
  /\ UNCHANGED <<crash, contents, room, out, event_id, altered>>

ReportNext ==
  \/ write_envelope_with_native_stacktrace \/ write_envelope_with_minidump
  \/ add_attachment_refs

ReportSpec == ReportInit /\ [][ReportNext]_report_vars

----------------------------------------------------------------------------
(* Properties.                                                             *)

Inlined ==
  SelectSeq(crash.manifest, LAMBDA f : f # Malformed /\ ~attachment_is_placeholder(f))
Intended ==
  SelectSeq(<<Minidump>> \o Inlined
              \o (IF crash.attach_screenshot THEN <<Screenshot>> ELSE <<>>)
              \o (IF crash.attach_session_replay THEN <<Replay>> ELSE <<>>),
            LAMBDA f : contents[f] # Missing)
EventItems ==
  IF EventJson = <<>> THEN <<>>
  ELSE <<[header |-> Header("event", NoAttachment, "", <<Len(EventJson[1])>>),
          payload |-> EventJson[1]]>>
IntendedItems ==
  EventItems \o [i \in 1..Len(Intended) |->
                   [header |-> AttachmentHeader(Intended[i]),
                    payload |-> contents[Intended[i]]]]

(* The file the daemon wrote by hand is what the parser of the SDK reads,  *)
(* provided its header fitted the buffer: if no file changed while it was  *)
(* copied, exactly the event and the files in order, and on a full disk    *)
(* nothing or a beginning of them.  Whatever happened to the attached      *)
(* files, an envelope that can be read begins with the event.  A listed    *)
(* attachment is reported once, inline or by reference, if the envelope    *)
(* has an event id and can be read, unless it is large and has no file     *)
(* name, when it is left out (write_envelope_with_*, add_attachment_refs). *)
(* Of a file without the envelope header nothing of this holds: the parser *)
(* takes the event for the header of an item.                              *)
ReportReadable ==
  (at_item \in {"written", "captured"} /\ crash.header_fits) =>
    LET read == deserialize_into(out)
    IN  /\ (room = PLENTY /\ altered = {}) =>
             /\ read.ok /\ read.items = IntendedItems
             /\ (at_item = "captured" /\ event_id) =>
                  \A f \in Range(crash.manifest) \ {Malformed} :
                    (contents[f] # Missing /\ ~(f = crash.unnamed /\ attachment_is_placeholder(f))) =>
                      Len(SelectSeq(Intended \o refs, LAMBDA g : g = f)) = 1
        /\ (read.ok /\ altered = {}) => IsPrefix(read.items, IntendedItems)
        /\ (read.ok /\ read.items # <<>> /\ EventItems # <<>>) =>
             read.items[1] = EventItems[1]

=============================================================================
