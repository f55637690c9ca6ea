------------------------------- MODULE MCData -------------------------------
(***************************************************************************)
(* Crash data, breadcrumbs, envelopes, client reports and values for TLC.  *)
(* Each behaviour looks at one part, chosen at the start: what the daemon  *)
(* makes of a crash (the minidump, the walks of the stacks, modules and    *)
(* symbols, the envelope of the report), breadcrumbs, envelopes, client    *)
(* reports, or values and their text.  A part that is not looked at has no *)
(* state: its variables are 0.                                             *)
(***************************************************************************)
EXTENDS TLC

CONSTANTS Dumps, LIMIT, MAX_REGIONS, MAX_TOTAL, MAX_MODULES, MAX_MAPPINGS, MAX_THREADS,
          Crashes, MAX_STACK_FRAMES, MAX_STACK_CAPTURE, Processes, MODULE_LIMIT,
          THREAD_LIMIT, CHUNK, Contents, Small, Attached, LARGE_SIZE, ROOM, PLENTY,
          ALTERATIONS, INT32_HALF, Threads, MAX_OPTIONS, SENTRY_BREADCRUMBS_MAX,
          ADD_LIMIT, OVERLAP_LIMIT, FAULT_LIMIT, JsonPayloads, FilePayloads, LARGE,
          MAX_SIZE, ITEM_LIMIT, ATTACHMENT_LIMIT, ENVELOPE_FAULTS, SENTRY_JSON_MAX_DEPTH,
          SENTRY_MPACK_MAX_DEPTH, INT32_MAX, INT64_MAX, UINT64_MAX, PLAIN_MAX, JsonTrees, Rooms,
          ValueThreads, Keys, MAX_THINGS, MAX_PAYLOADS, HANDLE_LIMIT, VALUE_OPS,
          ReportOptions, RETRY_ATTEMPTS, DISCARDS, SHUTDOWNS, SentEnvelopes,
          ENVELOPE_INT32_HALF

VARIABLES part, d, w, at, desc, dir, acc, stacks, result, file, q, thread_idx, step,
          regs, stack_buf, vmas, temp_frames, current_fp, walk_count, traces, s, modules,
          threads, slots, go, names, budget, crash, contents, room, out, event_id,
          at_item, left, refs, altered, backend, max_breadcrumbs, initialized,
          num_breadcrumbs, ring_files, adding, scope_ring, timestamps, scoped, written,
          disturbed, faults, env, enable_large_attachments, attachments, disk, stage,
          envelope_file, cache_file, dumps, siblings, discarded, made, changed, torn,
          env_faults, json_value, json_room, json_text, json_read, mpack_read,
          json_stage, things, payloads, owned, pending, iter, value_ops, report_options,
          g_discard_counts, limited, sending, to_send, run_files, retry_files, cached,
          sibling_files, shutting_down, server, recorded, lost_counts, skipped, given_up,
          reports_left

Dump == INSTANCE Minidump
Walk == INSTANCE StackWalk
Syms == INSTANCE Symbols
Report == INSTANCE CrashReport
Crumbs == INSTANCE Breadcrumbs
Envelopes == INSTANCE Envelope WITH INT32_HALF <- ENVELOPE_INT32_HALF
Text == INSTANCE Json
Values == INSTANCE Values
Reports == INSTANCE ClientReports WITH Contents <- SentEnvelopes

\* The values of the constants the configuration cannot write.
DumpValues == INSTANCE MCMinidump
WalkValues == INSTANCE MCStackWalk WITH Crashes <- {}
SymsValues == INSTANCE MCSymbols WITH Processes <- {}
ReportValues == INSTANCE MCCrashReport WITH Contents <- {}, Small <- {}
EnvelopeValues == INSTANCE MCEnvelope WITH JsonPayloads <- {}, FilePayloads <- {}
TextValues == INSTANCE MCJson WITH JsonTrees <- {}, Rooms <- {}
MCDumps == DumpValues!MCDumps
MCCrashes == WalkValues!MCCrashes
MCProcesses == SymsValues!MCProcesses
MCContents == ReportValues!MCContents
MCSmall == ReportValues!MCSmall
MCPayloads == EnvelopeValues!MCJson
MCFiles == EnvelopeValues!MCFiles
MCTrees == TextValues!MCTrees
MCRooms == TextValues!MCRooms
\* Two envelopes, one with a large attachment.
MCSent == "e1" :> {"event", "attachment"} @@ "e2" :> {"event", "session"}
MCReportOptions ==
  {[dsn |-> TRUE, http_retry |-> TRUE, cache_keep |-> "NONE", send_client_reports |-> TRUE],
   [dsn |-> TRUE, http_retry |-> TRUE, cache_keep |-> "ALWAYS", send_client_reports |-> TRUE],
   [dsn |-> TRUE, http_retry |-> FALSE, cache_keep |-> "OFFLINE", send_client_reports |-> TRUE],
   [dsn |-> TRUE, http_retry |-> TRUE, cache_keep |-> "OFFLINE", send_client_reports |-> FALSE],
   [dsn |-> FALSE, http_retry |-> TRUE, cache_keep |-> "NONE", send_client_reports |-> TRUE]}

minidump_vars == << d, w, at, desc, dir, acc, stacks, result, file >>
walk_vars == << q, thread_idx, step, regs, stack_buf, vmas, temp_frames, current_fp,
                walk_count, traces >>
symbols_vars == << s, modules, threads, slots, go, names, budget >>
report_vars == << crash, contents, room, out, event_id, at_item, left, refs, altered >>
crumbs_vars == << backend, max_breadcrumbs, initialized, num_breadcrumbs, ring_files,
                  adding, scope_ring, timestamps, scoped, written, disturbed, faults >>
envelope_vars == << env, enable_large_attachments, attachments, disk, stage,
                    envelope_file, cache_file, dumps, siblings, discarded, made, changed,
                    torn, env_faults >>
json_vars == << json_value, json_room, json_text, json_read, mpack_read, json_stage >>
values_vars == << things, payloads, owned, pending, iter, value_ops >>
reports_vars == << report_options, g_discard_counts, limited, sending, to_send,
                   run_files, retry_files, cached, sibling_files, shutting_down, server,
                   recorded, lost_counts, skipped, given_up, reports_left >>
all_vars == << part, minidump_vars, walk_vars, symbols_vars, report_vars, crumbs_vars,
             envelope_vars, json_vars, values_vars, reports_vars >>

\* A part that is not looked at rests.
minidump_off == /\ d = 0 /\ w = 0 /\ at = 0 /\ desc = 0 /\ dir = 0 /\ acc = 0
                /\ stacks = 0 /\ result = 0 /\ file = 0
walk_off == /\ q = 0 /\ thread_idx = 0 /\ step = 0 /\ regs = 0 /\ stack_buf = 0
            /\ vmas = 0 /\ temp_frames = 0 /\ current_fp = 0 /\ walk_count = 0
            /\ traces = 0
symbols_off == /\ s = 0 /\ modules = 0 /\ threads = 0 /\ slots = 0 /\ go = 0 /\ names = 0
               /\ budget = 0
report_off == /\ crash = 0 /\ contents = 0 /\ room = 0 /\ out = 0 /\ event_id = 0
              /\ at_item = 0 /\ left = 0 /\ refs = 0 /\ altered = 0
crumbs_off == /\ backend = 0 /\ max_breadcrumbs = 0 /\ initialized = 0
              /\ num_breadcrumbs = 0 /\ ring_files = 0 /\ adding = 0 /\ scope_ring = 0
              /\ timestamps = 0 /\ scoped = 0 /\ written = 0 /\ disturbed = 0
              /\ faults = 0
envelope_off == /\ env = 0 /\ enable_large_attachments = 0 /\ attachments = 0 /\ disk = 0
                /\ stage = 0 /\ envelope_file = 0 /\ cache_file = 0 /\ dumps = 0
                /\ siblings = 0 /\ discarded = 0 /\ made = 0 /\ changed = 0 /\ torn = 0
                /\ env_faults = 0
json_off == /\ json_value = 0 /\ json_room = 0 /\ json_text = 0 /\ json_read = 0
            /\ mpack_read = 0 /\ json_stage = 0
values_off == /\ things = 0 /\ payloads = 0 /\ owned = 0 /\ pending = 0 /\ iter = 0
              /\ value_ops = 0
reports_off == /\ report_options = 0 /\ g_discard_counts = 0 /\ limited = 0
               /\ sending = 0 /\ to_send = 0 /\ run_files = 0 /\ retry_files = 0
               /\ cached = 0 /\ sibling_files = 0 /\ shutting_down = 0 /\ server = 0
               /\ recorded = 0 /\ lost_counts = 0 /\ skipped = 0 /\ given_up = 0
               /\ reports_left = 0

AllInit == /\ part \in {"minidump", "walk", "symbols", "report", "crumbs", "envelope",
                        "json", "values", "reports"}
           /\ IF part = "minidump" THEN Dump!DumpInit ELSE minidump_off
           /\ IF part = "walk" THEN Walk!WalkInit ELSE walk_off
           /\ IF part = "symbols" THEN Syms!SymInit ELSE symbols_off
           /\ IF part = "report" THEN Report!ReportInit ELSE report_off
           /\ IF part = "crumbs" THEN Crumbs!CrumbInit ELSE crumbs_off
           /\ IF part = "envelope" THEN Envelopes!EnvInit ELSE envelope_off
           /\ IF part = "json" THEN Text!JsonInit ELSE json_off
           /\ IF part = "values" THEN Values!ValuesInit ELSE values_off
           /\ IF part = "reports" THEN Reports!reportsInit ELSE reports_off

minidump_only == part = "minidump" /\ UNCHANGED << part, walk_vars, symbols_vars,
                                                   report_vars, crumbs_vars,
                                                   envelope_vars, json_vars, values_vars,
                                                   reports_vars >>
walk_only == part = "walk" /\ UNCHANGED << part, minidump_vars, symbols_vars,
                                           report_vars, crumbs_vars, envelope_vars,
                                           json_vars, values_vars, reports_vars >>
symbols_only == part = "symbols" /\ UNCHANGED << part, minidump_vars, walk_vars,
                                                 report_vars, crumbs_vars, envelope_vars,
                                                 json_vars, values_vars, reports_vars >>
report_only == part = "report" /\ UNCHANGED << part, minidump_vars, walk_vars,
                                               symbols_vars, crumbs_vars, envelope_vars,
                                               json_vars, values_vars, reports_vars >>
crumbs_only == part = "crumbs" /\ UNCHANGED << part, minidump_vars, walk_vars,
                                               symbols_vars, report_vars, envelope_vars,
                                               json_vars, values_vars, reports_vars >>
envelope_only == part = "envelope" /\ UNCHANGED << part, minidump_vars, walk_vars,
                                                   symbols_vars, report_vars,
                                                   crumbs_vars, json_vars, values_vars,
                                                   reports_vars >>
json_only == part = "json" /\ UNCHANGED << part, minidump_vars, walk_vars, symbols_vars,
                                           report_vars, crumbs_vars, envelope_vars,
                                           values_vars, reports_vars >>
values_only == part = "values" /\ UNCHANGED << part, minidump_vars, walk_vars,
                                               symbols_vars, report_vars, crumbs_vars,
                                               envelope_vars, json_vars, reports_vars >>
reports_only == part = "reports" /\ UNCHANGED << part, minidump_vars, walk_vars,
                                                 symbols_vars, report_vars, crumbs_vars,
                                                 envelope_vars, json_vars, values_vars >>

minidump_step == minidump_only /\ Dump!DumpNext
walk_step == walk_only /\ Walk!WalkNext
symbols_step == symbols_only /\ Syms!SymNext
report_step == report_only /\ Report!ReportNext
crumbs_step == crumbs_only /\ Crumbs!CrumbNext
envelope_step == envelope_only /\ Envelopes!EnvNext
json_step == json_only /\ Text!JsonNext
values_step == values_only /\ Values!ValuesNext
reports_step == reports_only /\ Reports!reportsNext
\* These may come to an end.
ended == /\ \/ part \in {"report", "crumbs", "envelope", "json", "values", "reports"}
            \/ part = "minidump" /\ at.ph = "done"
            \/ part = "walk" /\ step = "event"
            \/ part = "symbols" /\ go.ph = "done"
         /\ UNCHANGED all_vars
AllNext == minidump_step \/ walk_step \/ symbols_step \/ report_step \/ crumbs_step \/
          envelope_step \/ json_step \/ values_step \/ reports_step \/ ended

AllSpec == AllInit /\ [][AllNext]_all_vars

(* A dump that sentry__write_minidump keeps can be read: every reference   *)
(* with a size is an extent that was written, no two overlap, ptrace or    *)
(* the task port is released, and the regions of sentry__indirect_consider *)
(* stay sorted, disjoint and within their caps.                            *)
DumpSound == part = "minidump" => Dump!DumpSound
(* Traces of build_stacktrace_for_thread have at most MAX_STACK_FRAMES     *)
(* frames on a chain that only goes up, never an address that cannot be    *)
(* code, and on 32-bit ARM only return addresses into code that the        *)
(* process cannot write.                                                   *)
WalkSound == part = "walk" => Walk!WalkSound
(* Each file is one module whose range covers its mappings                 *)
(* (capture_modules_from_proc_maps), each thread is listed once, the       *)
(* crashed one first (enumerate_threads_from_proc), and a frame gets the   *)
(* name of the function it is in or none (enrich_frame_with_symbol).       *)
SymbolsSound == part = "symbols" => Syms!SymbolsSound
(* The envelope that the daemon writes by hand                             *)
(* (write_envelope_with_minidump, write_envelope_with_native_stacktrace)   *)
(* is read by deserialize_into as the event and the files it was meant to  *)
(* hold, or a beginning of them on a full disk, if its header fits the     *)
(* buffer and every large attachment has a name; a file that changes while *)
(* it is copied cannot damage the event.                                   *)
ReportReadable == part = "report" => Report!ReportReadable
(* A crash reports the newest breadcrumbs in order                         *)
(* (native_backend_add_breadcrumb, sentry__value_merge_breadcrumbs), and   *)
(* the scope's ring buffer keeps those it got last.                        *)
BreadcrumbsKept == part = "crumbs" => Crumbs!BreadcrumbsKept
(* An envelope read back (deserialize_into) or split into the cache        *)
(* (sentry__envelope_write_to_cache) is the one written, or a prefix of it *)
(* if the write was cut short; every attachment is in it, or counted as    *)
(* discarded, as often as it is listed (sentry__envelope_add_attachments,  *)
(* sentry__cache_attachment_refs).                                         *)
EnvelopeSound == part = "envelope" => Envelopes!EnvelopeSound
(* A value survives sentry__jsonwriter_write_value and                     *)
(* sentry__value_from_json, and the msgpack pair, up to what the formats   *)
(* lose, the 17th digit of a double included.                              *)
RoundTrip == part = "json" => Text!RoundTrip
(* Reference counts of values and of the payloads that clones share are    *)
(* exact, whichever allocation fails (sentry_value_decref, list_free,      *)
(* thing_detach), and no thread writes a payload that another reads.       *)
ValuesSound == part = "values" => Values!ValuesSound
(* A write (sentry_value_set_by_key, sentry_value_append) changes only the *)
(* value written and those that contain it, never a clone and never a      *)
(* frozen value.                                                           *)
ValuesIndependent == [][part = "values" => Values!OtherValuesKept]_all_vars
(* What sentry__client_report_discard counted is in a delivered report, on *)
(* its way in one, or counted again (sentry__client_report_save,           *)
(* sentry__client_report_restore).                                         *)
CountsConserved == part = "reports" => Reports!CountsConserved
(* An item given to the transport waits, has arrived, or was counted as    *)
(* discarded (sentry_envelope_serialize_ratelimited, http_send_task,       *)
(* handle_result), and the file of a large attachment stays while an       *)
(* envelope refers to it (prune_attachment_refs).                          *)
ItemsAccounted == part = "reports" => Reports!ItemsAccounted
=============================================================================
