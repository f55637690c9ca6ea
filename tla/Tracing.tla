------------------------------ MODULE Tracing ------------------------------
(***************************************************************************)
(* Transactions and spans: counted objects that the program, the scope and *)
(* each other hold, the trace they belong to, and what                     *)
(* sentry__trace_finish does with those in flight when a crash is handled. *)
(*                                                                         *)
(* One thread of the program calls the API (the objects are documented as  *)
(* not thread-safe) while another thread crashes, and the crash handler    *)
(* finishes the trace.  Each step is one critical section of the scope or  *)
(* of the children list, one operation on a count, or one look at the      *)
(* spans of a transaction, which no lock protects.                         *)
(***************************************************************************)
EXTENDS Integers, Sequences, FiniteSets, SequencesExt

CONSTANTS Transactions, Spans,
          TraceHeaders,          \* what a caller may find in incoming headers
          TraceOptions,          \* [org, strict, sampler]: org_id, strict_trace_continuation,
                                 \* whether a traces_sampler is set
          MAX_SPANS,             \* options->max_spans
          TRACE_CALLS            \* bound: calls of the program

VARIABLES trace_options,
          tx,                    \* transaction -> what it holds
          span,                  \* span -> what it holds
          scope_trace,           \* the scope: span, transaction_object, trace, managed
          held,                  \* transactions and spans the program has to finish
          api,                   \* the program's call
          finisher,              \* sentry__trace_finish in the crash handler
          submitted,             \* transactions handed to the transport
          crash_finished,        \* the sampled spans finish_children finished
          upstream_refused,      \* transactions that may not continue the incoming trace
          calls_left

trace_vars == << trace_options, tx, span, scope_trace, held, api, finisher, submitted,
                 crash_finished, upstream_refused, calls_left >>

Nil == 0
Upstream == -1                   \* the trace id and span id of the incoming headers
NoTx == [refs |-> 0, sampled |-> FALSE, trace |-> Nil, parent |-> Nil,
         children |-> << >>,
         spans |-> << >>, list |-> 0,    \* the finished spans, in the list-th list made for them
         raced |-> FALSE]                \* history: two threads were adding spans to it
NoSpan == [refs |-> 0, tx |-> Nil, parent |-> Nil]
Quiet == [at |-> "idle"]

Init ==
  /\ trace_options \in TraceOptions
  /\ tx = [t \in Transactions |-> NoTx] /\ span = [s \in Spans |-> NoSpan]
  /\ scope_trace = [span |-> Nil, transaction_object |-> Nil, trace |-> 1, parent |-> Nil,
                    managed |-> TRUE, last |-> 1]
  /\ held = [tx |-> {}, span |-> {}]
  /\ api = Quiet /\ finisher = Quiet /\ submitted = << >> /\ crash_finished = {}
  /\ upstream_refused = {} /\ calls_left = TRACE_CALLS

----------------------------------------------------------------------------
(* Counts.  An operator takes and gives both tables: [tx, span].           *)

Objects == [tx |-> tx, span |-> span]
transaction_incref(o, t) == IF t = Nil THEN o ELSE [o EXCEPT !.tx[t].refs = @ + 1]
transaction_decref(o, t) == IF t = Nil THEN o ELSE [o EXCEPT !.tx[t].refs = @ - 1]
(* The last entry takes the place of the one that goes.                    *)
remove_child(o, t, s) ==
  LET list == o.tx[t].children
      n == Len(list)
      at == {i \in 1 .. n : list[i] = s}
  IN  IF at = {} THEN o
      ELSE [o EXCEPT !.tx[t].children =
              [i \in 1 .. n - 1 |-> IF i \in at THEN list[n] ELSE list[i]]]
span_incref(o, s) == IF s = Nil THEN o ELSE [o EXCEPT !.span[s].refs = @ + 1]
span_decref(o, s) ==
  IF s = Nil THEN o
  ELSE LET d == [o EXCEPT !.span[s].refs = @ - 1]
       IN  IF d.span[s].refs > 0 THEN d
           ELSE transaction_decref(remove_child(d, o.span[s].tx, s), o.span[s].tx)
Store(o) == tx' = o.tx /\ span' = o.span
Live(table) == {x \in DOMAIN table : table[x].refs > 0}
(* The next of the names nothing has been called yet.                      *)
NextTx == {t \in Transactions : tx[t] = NoTx /\ \A u \in Transactions : u < t => tx[u] # NoTx}
NextSpan == {s \in Spans : span[s] = NoSpan /\ \A r \in Spans : r < s => span[r] # NoSpan}

----------------------------------------------------------------------------
(* The incoming headers and the trace of a new transaction.                *)

(* parse_sentry_trace and parse_baggage: the trace id is taken before the  *)
(* span id is looked at, and the sampled flag only after it.  `incoming`   *)
(* is the marker that an upstream trace was seen.                          *)
parse_sentry_trace(c, h) ==
  IF h.trace # "valid" THEN c
  ELSE LET traced == [c EXCEPT !.trace = Upstream, !.incoming = TRUE]
       IN  IF h.span # "valid" THEN traced
           ELSE [traced EXCEPT !.parent = Upstream, !.sampled = h.sampled]
parse_baggage(c, h) == IF h.baggage THEN [c EXCEPT !.incoming = TRUE, !.org = h.org] ELSE c
(* The trace is the propagation context's where somebody else manages it.  *)
transaction_context_new(fresh) ==
  [trace |-> IF scope_trace.managed THEN fresh ELSE scope_trace.trace,
   parent |-> IF scope_trace.managed THEN Nil ELSE scope_trace.parent,
   sampled |-> "unset", incoming |-> FALSE, org |-> ""]
trace_can_continue(org) ==
  LET own == trace_options.org
  IN  IF own # "" /\ org # "" THEN own = org
      ELSE (own = "") = (org = "") \/ ~ trace_options.strict
(* The traces_sampler decides if there is one; otherwise the parent, and   *)
(* the sample rate where the parent has not decided.                       *)
should_send_transaction(c, dice) ==
  IF trace_options.sampler \/ c.sampled = "unset" THEN dice ELSE c.sampled = "yes"

Called == calls_left > 0 /\ api.at = "idle" /\ calls_left' = calls_left - 1
(* sentry_transaction_context_new, the headers, sentry_transaction_start.  *)
TransactionStart ==
  \E t \in NextTx, h \in TraceHeaders, dice \in BOOLEAN :
    LET fresh == scope_trace.last + 1
        c == parse_baggage(parse_sentry_trace(transaction_context_new(fresh), h), h)
        fork == c.incoming /\ ~ trace_can_continue(c.org)
        forked == [c EXCEPT !.trace = fresh + 1, !.parent = Nil, !.sampled = "unset"]
        u == IF fork THEN forked ELSE c
    IN  /\ Called
        /\ tx' = [tx EXCEPT ![t] = [NoTx EXCEPT !.refs = 1, !.trace = u.trace,
                    !.parent = u.parent, !.sampled = should_send_transaction(u, dice)]]
        /\ scope_trace' = [scope_trace EXCEPT
                             !.trace = IF fork THEN fresh + 1 ELSE @,
                             !.parent = IF fork THEN Nil ELSE @,
                             !.last = IF fork THEN fresh + 1 ELSE fresh]
        /\ held' = [held EXCEPT !.tx = @ \cup {t}]
        /\ upstream_refused' = IF h.baggage /\ "" \notin {h.org, trace_options.org}
                                  /\ h.org # trace_options.org
                               THEN upstream_refused \cup {t} ELSE upstream_refused
        /\ UNCHANGED << trace_options, span, api, finisher, submitted, crash_finished >>

(* sentry_set_trace and sentry_regenerate_trace.                           *)
SetTrace == \E parent \in {Nil, Upstream} :
  /\ Called
  /\ scope_trace' = [scope_trace EXCEPT !.trace = scope_trace.last + 1, !.last = @ + 1,
                                            !.parent = parent, !.managed = FALSE]
  /\ UNCHANGED << trace_options, tx, span, held, api, finisher, submitted, crash_finished,
                  upstream_refused >>

----------------------------------------------------------------------------
(* Children and the scope.                                                 *)

(* sentry__value_span_new_n: `timestamp` is only ever set on the copy that *)
(* is sent, so no parent is found finished; the spans counted are those of *)
(* a transaction, a span has none.                                         *)
value_span_new(finished) == finished < MAX_SPANS
span_new(o, s, t, parent) ==
  transaction_incref([o EXCEPT !.span[s] = [refs |-> 1, tx |-> t, parent |-> parent],
                               !.tx[t].children = Append(@, s)], t)
Child(s, t, parent, finished) ==
  /\ Called
  /\ IF value_span_new(finished)
     THEN Store(span_new(Objects, s, t, parent)) /\ held' = [held EXCEPT !.span = @ \cup {s}]
     ELSE UNCHANGED << tx, span, held >>
  /\ UNCHANGED << trace_options, scope_trace, api, finisher, submitted, crash_finished,
                  upstream_refused >>
TransactionStartChild == \E s \in NextSpan, t \in held.tx :
  Child(s, t, Nil, Len(tx[t].spans))
SpanStartChild == \E s \in NextSpan, p \in held.span : Child(s, span[p].tx, p, 0)

scope_set_transaction_object(o, t) ==
  transaction_decref(transaction_incref(span_decref(o, scope_trace.span), t),
                     scope_trace.transaction_object)
SetTransactionObject == \E t \in held.tx :
  /\ Called
  /\ Store(scope_set_transaction_object(Objects, t))
  /\ scope_trace' = [scope_trace EXCEPT !.span = Nil, !.transaction_object = t]
  /\ UNCHANGED << trace_options, held, api, finisher, submitted, crash_finished,
                  upstream_refused >>
scope_set_span(o, s) ==
  span_decref(span_incref(transaction_decref(o, scope_trace.transaction_object), s),
              scope_trace.span)
SetSpan == \E s \in held.span :
  /\ Called
  /\ Store(scope_set_span(Objects, s))
  /\ scope_trace' = [scope_trace EXCEPT !.span = s, !.transaction_object = Nil]
  /\ UNCHANGED << trace_options, held, api, finisher, submitted, crash_finished,
                  upstream_refused >>

(* The scope lock: the finished span, or transaction, leaves the scope.    *)
UnbindSpan(o, s) == IF scope_trace.span = s THEN span_decref(o, s) ELSE o
UnboundSpan(s) == [scope_trace EXCEPT !.span = IF @ = s THEN Nil ELSE @]
UnbindTx(o, t) == IF scope_trace.transaction_object = t THEN transaction_decref(o, t) ELSE o
(* and, where the SDK manages the trace, its trace becomes the scope's.    *)
UnboundTx(t) ==
  [scope_trace EXCEPT !.transaction_object = IF @ = t THEN Nil ELSE @,
                      !.trace = IF scope_trace.managed THEN tx[t].trace ELSE @]
(* The finished span joins its transaction unless that has its maximum.    *)
(* The list is looked at first; if none was found a new one takes the      *)
(* place of whatever is there by now; then the span is put into the list   *)
(* found or made.  A list that was replaced is freed by then, and the span *)
(* is gone with it (in the code, a write to freed memory).                 *)
SpansFull_over(t) == Len(tx[t].spans) > MAX_SPANS                  \* mutant
SpansFull(t) == Len(tx[t].spans) >= MAX_SPANS
SpansFound(t, adding) == [tx EXCEPT ![t].raced = @ \/ adding]
NewList(t) == [tx EXCEPT ![t].spans = << >>, ![t].list = @ + 1]
AppendSpan(o, s, list) ==
  LET t == o.span[s].tx
  IN  IF list = o.tx[t].list THEN [o EXCEPT !.tx[t].spans = Append(@, s)] ELSE o

(* sentry_span_finish_ts; the span of an unsampled transaction is dropped  *)
(* before the scope is looked at.                                          *)
SpanFinish == \E s \in held.span :
  /\ Called
  /\ held' = [held EXCEPT !.span = @ \ {s}]
  /\ Store(remove_child(Objects, span[s].tx, s))
  /\ api' = [at |-> IF tx[span[s].tx].sampled THEN "span_unbind" ELSE "span_release", s |-> s]
  /\ UNCHANGED << trace_options, scope_trace, finisher, submitted, crash_finished,
                  upstream_refused >>
SpanUnbind ==
  /\ api.at = "span_unbind"
  /\ Store(UnbindSpan(Objects, api.s)) /\ scope_trace' = UnboundSpan(api.s)
  /\ api' = [api EXCEPT !.at = "span_look"]
  /\ UNCHANGED << trace_options, held, finisher, submitted, crash_finished, upstream_refused,
                  calls_left >>
SpanLook ==
  /\ api.at = "span_look"
  /\ LET t == span[api.s].tx
     IN  IF SpansFull(t)
           THEN api' = [api EXCEPT !.at = "span_release"] /\ UNCHANGED tx
           ELSE /\ api' = [at |-> "span_append", s |-> api.s, list |-> tx[t].list]
                /\ tx' = SpansFound(t, finisher.at = "append" /\ span[Head(finisher.todo)].tx = t)
  /\ UNCHANGED << trace_options, span, scope_trace, held, finisher, submitted, crash_finished,
                  upstream_refused, calls_left >>
SpanListNew ==
  /\ api.at = "span_append" /\ api.list = 0
  /\ LET t == span[api.s].tx
     IN  tx' = NewList(t) /\ api' = [api EXCEPT !.list = tx[t].list + 1]
  /\ UNCHANGED << trace_options, span, scope_trace, held, finisher, submitted, crash_finished,
                  upstream_refused, calls_left >>
SpanAppend ==
  /\ api.at = "span_append" /\ api.list # 0
  /\ Store(AppendSpan(Objects, api.s, api.list))
  /\ api' = [at |-> "span_release", s |-> api.s]
  /\ UNCHANGED << trace_options, scope_trace, held, finisher, submitted, crash_finished,
                  upstream_refused, calls_left >>
SpanRelease ==
  /\ api.at = "span_release"
  /\ Store(span_decref(Objects, api.s)) /\ api' = Quiet
  /\ UNCHANGED << trace_options, scope_trace, held, finisher, submitted, crash_finished,
                  upstream_refused, calls_left >>
(* sentry_span_discard.                                                    *)
SpanDiscard == \E s \in held.span :
  /\ Called
  /\ held' = [held EXCEPT !.span = @ \ {s}]
  /\ Store(remove_child(Objects, span[s].tx, s))
  /\ api' = [at |-> "span_drop", s |-> s]
  /\ UNCHANGED << trace_options, scope_trace, finisher, submitted, crash_finished,
                  upstream_refused >>
SpanDrop ==
  /\ api.at = "span_drop"
  /\ Store(UnbindSpan(Objects, api.s)) /\ scope_trace' = UnboundSpan(api.s)
  /\ api' = [api EXCEPT !.at = "span_release"]
  /\ UNCHANGED << trace_options, held, finisher, submitted, crash_finished, upstream_refused,
                  calls_left >>

----------------------------------------------------------------------------
(* Transactions.                                                           *)

(* sentry__transaction_finish_value: the copy that is sent.                *)
Payload(t, by) == [tx |-> t, spans |-> tx[t].spans, trace |-> tx[t].trace,
                   parent |-> tx[t].parent, by |-> by]
TransactionFinish == \E t \in held.tx :
  /\ Called
  /\ held' = [held EXCEPT !.tx = @ \ {t}]
  /\ api' = [at |-> "tx_unbind", t |-> t, payload |-> Payload(t, "program")]
  /\ UNCHANGED << trace_options, tx, span, scope_trace, finisher, submitted, crash_finished,
                  upstream_refused >>
TransactionUnbind ==
  /\ api.at = "tx_unbind"
  /\ Store(UnbindTx(Objects, api.t)) /\ scope_trace' = UnboundTx(api.t)
  /\ api' = [api EXCEPT !.at = "tx_release"]
  /\ UNCHANGED << trace_options, held, finisher, submitted, crash_finished, upstream_refused,
                  calls_left >>
(* Thrown away if unsampled; otherwise sentry__capture_event sends it.     *)
TransactionRelease ==
  /\ api.at = "tx_release"
  /\ submitted' = IF tx[api.t].sampled THEN Append(submitted, api.payload) ELSE submitted
  /\ Store(transaction_decref(Objects, api.t)) /\ api' = Quiet
  /\ UNCHANGED << trace_options, scope_trace, held, finisher, crash_finished, upstream_refused,
                  calls_left >>
TransactionDiscard == \E t \in held.tx :
  /\ Called
  /\ held' = [held EXCEPT !.tx = @ \ {t}]
  /\ Store(transaction_decref(UnbindTx(Objects, t), t))
  /\ scope_trace' = [scope_trace EXCEPT !.transaction_object = IF @ = t THEN Nil ELSE @]
  /\ UNCHANGED << trace_options, api, finisher, submitted, crash_finished, upstream_refused >>

(* sentry_close: the scope gives up what it holds.                         *)
ScopeCleanup ==
  /\ Called /\ finisher.at \in {"idle", "done"}
  /\ Store(span_decref(transaction_decref(Objects, scope_trace.transaction_object),
                       scope_trace.span))
  /\ scope_trace' = [scope_trace EXCEPT !.span = Nil, !.transaction_object = Nil]
  /\ UNCHANGED << trace_options, held, api, finisher, submitted, crash_finished,
                  upstream_refused >>

----------------------------------------------------------------------------
(* sentry__trace_finish.                                                   *)

save_active_trace ==
  LET s == scope_trace.span
      t == scope_trace.transaction_object
      active == IF s # Nil THEN span[s].tx ELSE t
  IN  /\ finisher.at = "idle"
      /\ Store(transaction_incref(transaction_incref(span_incref(Objects, s), t), active))
      /\ finisher' = [at |-> IF active = Nil THEN "done" ELSE "children", span |-> s,
                      transaction_object |-> t, active |-> active, todo |-> << >>,
                      list |-> 0]
      /\ UNCHANGED << trace_options, scope_trace, held, api, submitted, crash_finished,
                      upstream_refused, calls_left >>
finish_children ==
  LET t == finisher.active
      list == tx[t].children
  IN  /\ finisher.at = "children"
      /\ tx' = [tx EXCEPT ![t].children = << >>]
      /\ span' = [s \in Spans |-> IF Contains(list, s)
                                  THEN [span[s] EXCEPT !.refs = @ + 1] ELSE span[s]]
      /\ finisher' = [finisher EXCEPT !.at = "child", !.todo = Reverse(list)]
      /\ UNCHANGED << trace_options, scope_trace, held, api, submitted, crash_finished,
                      upstream_refused, calls_left >>
(* sentry_span_finish_ts of each.                                          *)
FinishChild ==
  /\ finisher.at = "child" /\ finisher.todo # << >>
  /\ LET s == Head(finisher.todo)
         sampled == tx[span[s].tx].sampled
     IN  /\ IF sampled
            THEN Store(UnbindSpan(Objects, s)) /\ scope_trace' = UnboundSpan(s)
            ELSE UNCHANGED << tx, span, scope_trace >>
         /\ finisher' = [finisher EXCEPT !.at = "look"]
         /\ crash_finished' = IF sampled THEN crash_finished \cup {s} ELSE crash_finished
  /\ UNCHANGED << trace_options, held, api, submitted, upstream_refused, calls_left >>
ChildDone == finisher' = [finisher EXCEPT !.at = "child", !.todo = Tail(@), !.list = 0]
LookForChild ==
  /\ finisher.at = "look"
  /\ LET s == Head(finisher.todo)
         t == span[s].tx
     IN  IF tx[t].sampled /\ ~SpansFull(t)
           THEN /\ finisher' = [finisher EXCEPT !.at = "append", !.list = tx[t].list]
                /\ tx' = SpansFound(t, api.at = "span_append" /\ span[api.s].tx = t)
                /\ UNCHANGED span
           ELSE Store(span_decref(Objects, s)) /\ ChildDone
  /\ UNCHANGED << trace_options, scope_trace, held, api, submitted, crash_finished,
                  upstream_refused, calls_left >>
ListForChild ==
  /\ finisher.at = "append" /\ finisher.list = 0
  /\ LET t == span[Head(finisher.todo)].tx
     IN  tx' = NewList(t) /\ finisher' = [finisher EXCEPT !.list = tx[t].list + 1]
  /\ UNCHANGED << trace_options, span, scope_trace, held, api, submitted, crash_finished,
                  upstream_refused, calls_left >>
AppendChild ==
  /\ finisher.at = "append" /\ finisher.list # 0
  /\ LET s == Head(finisher.todo)
     IN  Store(span_decref(AppendSpan(Objects, s, finisher.list), s))
  /\ ChildDone
  /\ UNCHANGED << trace_options, scope_trace, held, api, submitted, crash_finished,
                  upstream_refused, calls_left >>
FinishActive ==
  /\ finisher.at = "child" /\ finisher.todo = << >>
  /\ LET t == finisher.active
     IN  /\ submitted' = IF tx[t].sampled THEN Append(submitted, Payload(t, "crash"))
                         ELSE submitted
         /\ Store(transaction_decref(UnbindTx(Objects, t), t)) /\ scope_trace' = UnboundTx(t)
  /\ finisher' = [finisher EXCEPT !.at = "restore"]
  /\ UNCHANGED << trace_options, held, api, crash_finished, upstream_refused, calls_left >>
(* What the finish took off the scope returns to it, or is released.       *)
restore_active_trace_keep ==                     \* mutant: the saved references stay
  /\ finisher.at = "restore"
  /\ scope_trace' = [scope_trace EXCEPT
       !.span = IF @ = Nil THEN finisher.span ELSE @,
       !.transaction_object = IF @ = Nil THEN finisher.transaction_object ELSE @]
  /\ finisher' = [at |-> "done"]
  /\ UNCHANGED << trace_options, tx, span, held, api, submitted, crash_finished,
                  upstream_refused, calls_left >>
restore_active_trace ==
  LET span_back == scope_trace.span = Nil
      tx_back == scope_trace.transaction_object = Nil
  IN  /\ finisher.at = "restore"
      /\ scope_trace' = [scope_trace EXCEPT
           !.span = IF span_back THEN finisher.span ELSE @,
           !.transaction_object = IF tx_back THEN finisher.transaction_object ELSE @]
      /\ Store(transaction_decref(
                 span_decref(Objects, IF span_back THEN Nil ELSE finisher.span),
                 IF tx_back THEN Nil ELSE finisher.transaction_object))
      /\ finisher' = [at |-> "done"]
      /\ UNCHANGED << trace_options, held, api, submitted, crash_finished, upstream_refused,
                      calls_left >>

Program == \/ TransactionStart \/ SetTrace \/ TransactionStartChild \/ SpanStartChild
           \/ SetTransactionObject \/ SetSpan \/ SpanFinish \/ SpanUnbind \/ SpanLook
           \/ SpanListNew \/ SpanAppend \/ SpanRelease \/ SpanDiscard \/ SpanDrop \/ TransactionFinish
           \/ TransactionUnbind \/ TransactionRelease \/ TransactionDiscard \/ ScopeCleanup
TraceFinish == \/ save_active_trace \/ finish_children \/ FinishChild \/ LookForChild
               \/ ListForChild \/ AppendChild \/ FinishActive \/ restore_active_trace
Next == Program \/ TraceFinish

----------------------------------------------------------------------------
(* The count of a transaction, or span, is the number of its holders: the  *)
(* program (until the call that finishes or discards it releases it), the  *)
(* scope, each live span for its transaction, and what the crash handler   *)
(* has saved or is finishing.  So nothing is freed that somebody still     *)
(* points to, nothing stays allocated that nobody points to, and the weak  *)
(* pointers of a children list lead to live spans, in every interleaving   *)
(* of the program's calls with sentry__trace_finish.                       *)
One(b) == IF b THEN 1 ELSE 0
Finishing == finisher.at \notin {"idle", "done"}
Count(list, x) == Cardinality({i \in DOMAIN list : list[i] = x})
TraceRefsExact ==
  /\ \A t \in Transactions :
       /\ tx[t].refs =
            One(t \in held.tx) + One(api.at \in {"tx_unbind", "tx_release"} /\ api.t = t)
              + One(scope_trace.transaction_object = t)
              + Cardinality({s \in Live(span) : span[s].tx = t})
              + One(Finishing /\ finisher.transaction_object = t)
              + One(Finishing /\ finisher.at # "restore" /\ finisher.active = t)
       /\ tx[t].refs > 0 =>
            /\ ToSet(tx[t].children) \subseteq {s \in Live(span) : span[s].tx = t}
            /\ IsInjective(tx[t].children)
  /\ \A s \in Spans :
       span[s].refs =
         One(s \in held.span)
           + One(api.at \in {"span_unbind", "span_look", "span_append", "span_drop",
                             "span_release"} /\ api.s = s)
           + One(scope_trace.span = s) + One(Finishing /\ finisher.span = s)
           + (IF Finishing THEN Count(finisher.todo, s) ELSE 0)

(* What is sent: a transaction only if it was sampled, once by the program *)
(* and once by the crash handler at most, with at most max_spans spans, or *)
(* one more if the program and the crash handler finished spans of it at   *)
(* once (sentry_span_finish_ts tests the limit and appends without a       *)
(* lock); the spans are its own, each once (and a second time only where   *)
(* the program finishes a span that the crash handler finishes too); one   *)
(* that arrived from another organisation carries nothing of the incoming  *)
(* trace.                                                                  *)
TransactionsSound ==
  /\ \A i \in DOMAIN submitted :
       LET p == submitted[i]
       IN  /\ tx[p.tx].sampled
           /\ Len(p.spans) <= MAX_SPANS + One(tx[p.tx].raced)
           /\ \A s \in ToSet(p.spans) :
                span[s].tx = p.tx
                  /\ Count(p.spans, s) <= 1 + One(s \in crash_finished)
           /\ p.tx \in upstream_refused => Upstream \notin {p.trace, p.parent}
           /\ \A j \in DOMAIN submitted :
                i # j => <<submitted[j].tx, submitted[j].by>> # <<p.tx, p.by>>
============================================================================
