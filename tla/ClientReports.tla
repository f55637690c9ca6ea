--------------------------- MODULE ClientReports ---------------------------
(***************************************************************************)
(* What becomes of the items of an envelope in the HTTP transport: rate    *)
(* limits, client reports (the counts of what the SDK has discarded, sent  *)
(* inside a later envelope), and the large attachments an envelope only    *)
(* refers to, uploaded on their own from a sibling file in the cache.      *)
(*                                                                         *)
(* One worker sends; the program's threads discard things meanwhile.  A    *)
(* count keeps the thing it counts: the counters of the code are the sums. *)
(***************************************************************************)
EXTENDS Integers, FiniteSets, FiniteSetsExt, TLC

CONSTANTS Contents,            \* envelope -> its items, of Kinds
          ReportOptions,       \* [dsn, http_retry, cache_keep, send_client_reports]
          RETRY_ATTEMPTS,      \* SENTRY_RETRY_ATTEMPTS
          DISCARDS,            \* bound: things the program's threads discard
          SHUTDOWNS            \* bound: times the SDK is closed and started again

VARIABLES report_options,
          g_discard_counts,    \* what is counted and not yet in a report
          limited,             \* the categories with disabled_until > now
          sending,             \* the worker's task
          to_send, run_files, retry_files, cached,   \* envelopes by where they are
          sibling_files,       \* envelopes whose large attachment is in the cache
          shutting_down,
          server,              \* what arrived: items, counts
          recorded,            \* how often each thing has been counted
          lost_counts,         \* counts in a report that was refused or dropped
          skipped,             \* items sentry__envelope_discard takes for recorded
          given_up,            \* items refused with 429, out of attempts, or in an envelope of an
                               \* earlier run that was refused
          reports_left         \* discards and shutdowns left

report_vars == << report_options, g_discard_counts, limited, sending, to_send, run_files,
                  retry_files, cached, sibling_files, shutting_down, server, recorded,
                  lost_counts, skipped, given_up, reports_left >>

Kinds == {"event", "session", "attachment"}
Things == (DOMAIN Contents) \X Kinds \cup {<<"program", "event">>}
None == [t \in Things |-> 0]
Plus(a, b) == [t \in Things |-> a[t] + b[t]]
Once(things) == [t \in Things |-> IF t \in things THEN 1 ELSE 0]
ItemsOf(e) == {<<e.uuid, k>> : k \in e.items}
On(e) == [uuid |-> e.uuid, items |-> e.items, located |-> e.located,
          counts |-> e.counts, reports |-> e.reports]

Idle == [at |-> "idle"]
reportsInit ==
  /\ report_options \in ReportOptions
  /\ g_discard_counts = None /\ limited = {} /\ sending = Idle
  /\ to_send = {[uuid |-> u, items |-> Contents[u], located |-> FALSE, counts |-> None,
                 reports |-> 0, is_raw |-> FALSE] : u \in DOMAIN Contents}
  /\ run_files = {} /\ retry_files = {} /\ cached = {}
  /\ sibling_files = {u \in DOMAIN Contents : "attachment" \in Contents[u]}
  /\ shutting_down = FALSE /\ server = [items |-> {}, counts |-> None]
  /\ recorded = None /\ lost_counts = None /\ skipped = {} /\ given_up = {}
  /\ reports_left = [discards |-> DISCARDS, shutdowns |-> SHUTDOWNS]

----------------------------------------------------------------------------
(* The rate limiter.                                                       *)

envelope_item_get_ratelimiter_category(k) == IF k = "session" THEN "session" ELSE "error"
is_disabled(category) == limited \cap {"any", category} # {}
Disabled(k) == is_disabled(envelope_item_get_ratelimiter_category(k))

(* A response may carry X-Sentry-Rate-Limits, or Retry-After, or neither.  *)
update_from_header(categories) == limited \cup categories
update_from_http_retry_after == limited \cup {"any"}
update_from_429 == limited \cup {"any"}
Headers == [kind : {"limits"}, categories : {{"any"}, {"error"}, {"session"}}]
             \cup {[kind |-> "retry_after"], [kind |-> "none"]}
http_update_ratelimiter(status, header) ==
  CASE header.kind = "limits" -> update_from_header(header.categories)
    [] header.kind = "retry_after" -> update_from_http_retry_after
    [] header.kind = "none" /\ status = 429 -> update_from_429
    [] OTHER -> limited
(* Time passes a category's disabled_until.                                *)
LimitEnds == \E c \in limited :
  /\ limited' = limited \ {c}
  /\ UNCHANGED << report_options, g_discard_counts, sending, to_send, run_files, retry_files,
                  cached, sibling_files, shutting_down, server, recorded, lost_counts,
                  skipped, given_up, reports_left >>

----------------------------------------------------------------------------
(* Client reports.                                                         *)

discard_to(counts, things) ==
  /\ g_discard_counts' = Plus(counts, Once(things))
  /\ recorded' = Plus(recorded, Once(things))
(* A thread of the program drops an event of its own: sample rate, hooks.  *)
ProgramDiscard ==
  /\ reports_left.discards > 0
  /\ reports_left' = [reports_left EXCEPT !.discards = @ - 1]
  /\ discard_to(g_discard_counts, {<<"program", "event">>})
  /\ UNCHANGED << report_options, limited, sending, to_send, run_files, retry_files, cached,
                  sibling_files, shutting_down, server, lost_counts, skipped, given_up >>

can_add_client_report(e) == ~ e.is_raw /\ \E k \in e.items : ~ Disabled(k)
save == g_discard_counts # None
restore_store(counts, report) == IF report = None THEN counts ELSE report   \* mutant: store for add
restore(counts, report) == Plus(counts, report)

(* sentry__envelope_discard: what it counts, and what it skips because it  *)
(* "was already recorded as ratelimit_backoff".                            *)
(* A raw envelope is not looked into.                                      *)
envelope_discard(e) ==
  {<<e.uuid, k>> : k \in {i \in e.items : ~ e.is_raw /\ ~ Disabled(i)}}
DiscardSkips(e) == IF e.is_raw THEN {} ELSE ItemsOf(e) \ envelope_discard(e)

----------------------------------------------------------------------------
(* Sending one envelope.                                                   *)

materialize_attachment_refs(e) ==
  [e EXCEPT !.is_raw = @ /\ "attachment" \notin e.items]
(* Takes the counts into the envelope; adding the item may fail, and then  *)
(* they go back.                                                           *)
add_client_report(e, added) ==
  report_options.send_client_reports /\ can_add_client_report(e) /\ save /\ added
Take(e, count, added) ==
  LET m == materialize_attachment_refs(e)
      reported == add_client_report(m, added)
  IN  /\ sending' = [at |-> "resolve", count |-> count, reported |-> reported,
                     report |-> IF reported THEN g_discard_counts ELSE None,
                     old |-> e.counts, body |-> {}, status |-> 0, disk |-> On(e),
                     had_refs |-> "attachment" \in m.items,
                     e |-> IF reported
                           THEN [m EXCEPT !.counts = Plus(@, g_discard_counts),
                                          !.reports = @ + 1]
                           ELSE m]
      /\ g_discard_counts' = IF reported THEN None ELSE g_discard_counts
(* http_send_task and retry_send_cb, up to http_send_envelope.             *)
TakeSend == \E e \in to_send, added \in BOOLEAN :
  /\ sending.at = "idle"
  /\ to_send' = to_send \ {e}
  /\ Take(e, -1, added)
  /\ UNCHANGED << report_options, limited, run_files, retry_files, cached, sibling_files,
                  shutting_down, server, recorded, lost_counts, skipped, given_up,
                  reports_left >>
TakeRetry == \E f \in retry_files, added \in BOOLEAN :
  /\ sending.at = "idle"
  /\ Take([uuid |-> f.uuid, items |-> f.items, located |-> f.located, counts |-> f.counts,
           reports |-> f.reports, is_raw |-> TRUE], f.count, added)
  /\ UNCHANGED << report_options, limited, to_send, run_files, retry_files, cached,
                  sibling_files, shutting_down, server, recorded, lost_counts, skipped,
                  given_up, reports_left >>

(* tus_upload_file: a location, an error, or cut short by the shutdown.    *)
Uploads(e) ==
  LET requests == report_options.dsn /\ e.uuid \in sibling_files
  IN  {"error"} \cup (IF requests THEN {"location"} ELSE {})
                \cup (IF requests /\ shutting_down THEN {"shutdown"} ELSE {})
Drops(e) == [e EXCEPT !.items = @ \ {"attachment"}]
resolve_attachment_refs ==
  LET e == sending.e
      unresolved == ~ e.is_raw /\ "attachment" \in e.items
      drop == /\ discard_to(g_discard_counts, {<<e.uuid, "attachment">>})
              /\ sending' = [sending EXCEPT !.at = "serialize", !.e = Drops(e)]
      go(s) == sending' = s /\ UNCHANGED << g_discard_counts, recorded >>
  IN  /\ sending.at = "resolve"
      /\ \/ unresolved /\ is_disabled("error") /\ drop
         \/ /\ ~ unresolved \/ (e.located /\ ~ is_disabled("error"))
            /\ go([sending EXCEPT !.at = "serialize"])
         \/ /\ unresolved /\ ~ is_disabled("error") /\ ~ e.located
            /\ \E result \in Uploads(e) :
                 CASE result = "location" ->
                        go([sending EXCEPT !.at = "serialize", !.e.located = TRUE])
                   [] result = "shutdown" ->
                        go([sending EXCEPT !.at = "finish", !.status = -2])
                   [] result = "error" -> drop
      /\ UNCHANGED << report_options, limited, to_send, run_files, retry_files, cached,
                      sibling_files, shutting_down, server, lost_counts, skipped, given_up,
                      reports_left >>

(* sentry__prepare_http_request: no request without a valid DSN, or        *)
(* where sentry_envelope_serialize_ratelimited leaves nothing: the items   *)
(* of a limited category stay out and are counted.  A raw envelope goes    *)
(* as it is.                                                               *)
serialize_ratelimited ==
  LET e == sending.e
      out == {k \in e.items : report_options.dsn /\ ~ e.is_raw /\ Disabled(k)}
      nothing == ~ report_options.dsn \/ (e.items \ out = {} /\ e.reports = 0)
  IN  /\ sending.at = "serialize"
      /\ discard_to(g_discard_counts, {<<e.uuid, k>> : k \in out})
      /\ sending' = [sending EXCEPT !.at = IF nothing THEN "finish" ELSE "request",
                                    !.body = {<<e.uuid, k>> : k \in e.items \ out}]
      /\ UNCHANGED << report_options, limited, to_send, run_files, retry_files, cached,
                      sibling_files, shutting_down, server, lost_counts, skipped, given_up,
                      reports_left >>

(* http_send_request and the limits of its answer.                         *)
http_send_request == \E status \in {-1, 200, 400, 429}, header \in Headers :
  /\ sending.at = "request"
  /\ status = -1 => header.kind = "none"
  /\ sending' = [sending EXCEPT !.at = "finish",
                   !.status = IF status = -1 /\ shutting_down THEN -2 ELSE status]
  /\ limited' = IF status < 0 THEN limited ELSE http_update_ratelimiter(status, header)
  /\ server' = IF status # 200 THEN server
               ELSE [items |-> server.items \cup sending.body,
                     counts |-> Plus(server.counts, sending.e.counts)]
  /\ lost_counts' = IF status = 429 THEN Plus(lost_counts, sending.e.counts) ELSE lost_counts
  /\ given_up' = IF status = 429 THEN given_up \cup sending.body ELSE given_up
  /\ UNCHANGED << report_options, g_discard_counts, to_send, run_files, retry_files, cached,
                  sibling_files, shutting_down, recorded, skipped, reports_left >>

----------------------------------------------------------------------------
(* What follows.                                                           *)

http_handle_error(status) == status >= 400 /\ status # 429
(* prune_attachment_refs: the sibling goes unless `keep` still refers to   *)
(* it; `keep` is the envelope that was written, or nothing.                *)
prune_all(keep) ==                                     \* mutant: `keep` is ignored
  IF sending.had_refs THEN sibling_files \ {sending.e.uuid} ELSE sibling_files
prune_attachment_refs(keep) ==
  IF sending.had_refs /\ ~ (keep /\ "attachment" \in sending.e.items)
  THEN sibling_files \ {sending.e.uuid} ELSE sibling_files
KeepAlways == report_options.cache_keep = "ALWAYS"

(* The rest of http_send_task.  `wrote` is the success of each write.      *)
FinishSend == \E wrote \in BOOLEAN :
  LET e == sending.e
      status == sending.status
      run == status = -2 /\ sending.had_refs /\ wrote
      enqueue == status < 0 /\ ~ run /\ report_options.http_retry /\ wrote
      drop == status < 0 /\ ~ run /\ ~ enqueue
      cache == wrote /\ IF drop THEN ~ report_options.http_retry
                                      /\ report_options.cache_keep # "NONE"
                        ELSE status >= 0 /\ KeepAlways
      failed == drop \/ http_handle_error(status)
      back == failed \/ (status = 0 /\ sending.reported)
      counts == IF back THEN restore(g_discard_counts, sending.report) ELSE g_discard_counts
  IN  /\ sending.at = "finish" /\ sending.count = -1
      /\ run_files' = IF run THEN run_files \cup {On(e)} ELSE run_files
      /\ retry_files' = IF enqueue
                        THEN retry_files \cup {[count |-> 0] @@ On(e)} ELSE retry_files
      /\ cached' = IF cache THEN cached \cup {On(e)} ELSE cached
      /\ sibling_files' = prune_attachment_refs(run \/ enqueue \/ cache)
      /\ discard_to(counts, IF failed THEN envelope_discard(e) ELSE {})
      /\ skipped' = IF failed THEN skipped \cup DiscardSkips(e) ELSE skipped
      /\ lost_counts' = IF failed THEN Plus(lost_counts, sending.old) ELSE lost_counts
      /\ given_up' = IF failed /\ e.is_raw THEN given_up \cup ItemsOf(e) ELSE given_up
      /\ sending' = Idle
      /\ UNCHANGED << report_options, limited, to_send, shutting_down, server, reports_left >>

(* The rest of retry_send_cb, then handle_result.                          *)
Exhausted(count) == count + 1 >= RETRY_ATTEMPTS
FinishRetry == \E wrote \in BOOLEAN :
  LET e == [sending.e EXCEPT !.is_raw = FALSE]     \* sentry__envelope_materialize
      status == sending.status
      file == [count |-> sending.count] @@ sending.disk
      failed == http_handle_error(status) /\ report_options.send_client_reports
      back == (status <= 0 /\ sending.reported) \/ failed
      again == status < 0 /\ ~ Exhausted(sending.count)
      last == status < 0 /\ ~ again
      already == KeepAlways /\ \E c \in cached : c.uuid = e.uuid
      move == last /\ report_options.cache_keep # "NONE" /\ ~ already /\ wrote
      copy == KeepAlways /\ (status >= 0 /\ wrote)
      pruned == prune_attachment_refs(status < 0 \/ KeepAlways)
      counts == IF back THEN restore(g_discard_counts, sending.report) ELSE g_discard_counts
  IN  /\ sending.at = "finish" /\ sending.count >= 0
      /\ discard_to(counts, IF failed THEN envelope_discard(e) ELSE {})
      /\ skipped' = IF failed THEN skipped \cup DiscardSkips(e) ELSE skipped
      /\ retry_files' = (retry_files \ {file})
                          \cup (IF again THEN {[file EXCEPT !.count = @ + 1]} ELSE {})
      /\ cached' = cached \cup (IF move THEN {sending.disk} ELSE {})
                          \cup (IF copy THEN {On(e)} ELSE {})
      /\ sibling_files' = IF again \/ move \/ copy \/ (last /\ already) THEN pruned
                          ELSE pruned \ {e.uuid}
      /\ lost_counts' = IF last \/ http_handle_error(status)
                        THEN Plus(lost_counts, sending.old) ELSE lost_counts
      /\ given_up' = IF last THEN given_up \cup ItemsOf(sending.disk) ELSE given_up
      /\ sending' = Idle
      /\ UNCHANGED << report_options, limited, to_send, run_files, shutting_down, server,
                      reports_left >>
----------------------------------------------------------------------------
(* http_transport_shutdown, the dump of the queue, and the next start,     *)
(* which sends the envelopes of the old run without parsing them and, in   *)
(* sentry_init, forgets the counts.                                        *)

ShutdownBegin ==
  /\ ~ shutting_down /\ reports_left.shutdowns > 0
  /\ shutting_down' = TRUE
  /\ reports_left' = [reports_left EXCEPT !.shutdowns = @ - 1]
  /\ UNCHANGED << report_options, g_discard_counts, limited, sending, to_send, run_files,
                  retry_files, cached, sibling_files, server, recorded, lost_counts, skipped,
                  given_up >>
http_dump_queue == run_files \cup {On(e) : e \in to_send}
client_report_reset == None
Restart ==
  /\ shutting_down /\ sending.at = "idle"
  /\ shutting_down' = FALSE
  /\ to_send' = {[is_raw |-> TRUE] @@ f : f \in http_dump_queue} /\ run_files' = {}
  /\ g_discard_counts' = client_report_reset
  /\ lost_counts' = Plus(lost_counts, g_discard_counts)
  /\ limited' = {}
  /\ UNCHANGED << report_options, sending, retry_files, cached, sibling_files, server,
                  recorded, skipped, given_up, reports_left >>

Worker == TakeSend \/ TakeRetry \/ resolve_attachment_refs \/ serialize_ratelimited
            \/ http_send_request \/ FinishSend \/ FinishRetry
reportsNext == Worker \/ LimitEnds \/ ProgramDiscard \/ ShutdownBegin \/ Restart

----------------------------------------------------------------------------
(* Every count goes exactly one way: what sentry__client_report_discard    *)
(* has recorded is still in g_discard_counts, or in the report of the      *)
(* envelope being sent, or in an envelope that waits on disk or in the     *)
(* queue, or has arrived, or went down with a report that was refused; it  *)
(* is never in two of these and never in none, whichever way the send of   *)
(* the envelope that carries it ends and whatever other threads discard    *)
(* between save and restore.                                               *)
Sum(envelopes) == FoldSet(LAMBDA e, sum : Plus(sum, e.counts), None, envelopes)
InHand ==
  IF sending.at = "idle" \/ (sending.at = "finish" /\ sending.status \in {200, 429})
  THEN None
  ELSE IF sending.count = -1 THEN Plus(sending.report, sending.old) ELSE sending.report
Waiting ==
  to_send \cup run_files \cup
    {f \in retry_files : ~ /\ sending.at = "finish" /\ sending.status \in {200, 429}
                           /\ sending.count >= 0 /\ f.uuid = sending.e.uuid}
CountsConserved ==
  recorded = Plus(g_discard_counts, Plus(InHand,
               Plus(Sum(Waiting), Plus(server.counts, lost_counts))))

(* Nothing disappears in silence: an item that is neither waiting, being   *)
(* sent nor kept in the cache has arrived or was counted, unless it was    *)
(* refused with 429, ran out of attempts, or sentry__envelope_discard      *)
(* skipped it; without a valid DSN nothing is promised.  The large         *)
(* attachment a waiting envelope refers to has its file in the cache until *)
(* it is counted as dropped, and a file in the cache has an envelope that  *)
(* refers to it (prune_attachment_refs).                                   *)
Live == to_send \cup run_files \cup retry_files \cup cached
          \cup (IF sending.at = "idle" THEN {} ELSE {sending.disk})
LiveItems == UNION {ItemsOf(e) : e \in Live}
ItemsAccounted ==
  /\ report_options.send_client_reports /\ report_options.dsn =>
       \A u \in DOMAIN Contents : \A k \in Contents[u] :
         <<u, k>> \in LiveItems \cup server.items \cup given_up \cup skipped
           \/ recorded[<<u, k>>] > 0
  /\ \A e \in to_send \cup run_files \cup retry_files :
       "attachment" \in e.items => e.uuid \in sibling_files
                                     \/ recorded[<<e.uuid, "attachment">>] > 0
  /\ \A u \in sibling_files : <<u, "attachment">> \in LiveItems

============================================================================
