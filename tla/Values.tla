------------------------------- MODULE Values -------------------------------
(***************************************************************************)
(* sentry_value_t: reference-counted values, frozen or not, and the        *)
(* copy-on-write that makes sentry__value_clone cheap: a clone shares the  *)
(* payload (the list_t or obj_t) of its original until one of them is      *)
(* changed.                                                                *)
(*                                                                         *)
(* Threads own references to values.  An unfrozen value belongs to one     *)
(* thread, a frozen one may be shared, and the payload of two clones may   *)
(* be shared by two threads without either knowing: changing a value takes *)
(* the steps of thing_detach, interleaved.  An allocation may fail.        *)
(***************************************************************************)
EXTENDS Integers, Sequences, SequencesExt, FiniteSets, FiniteSetsExt

CONSTANTS ValueThreads,
          Keys,
          MAX_THINGS, MAX_PAYLOADS,    \* bounds of the heap
          HANDLE_LIMIT,                \* bound: references a thread holds
          VALUE_OPS                    \* bound: operations

VARIABLES things,      \* id -> [type, payload, refs, frozen]
          payloads,    \* id -> [items : << <<key, value>>, ... >>, refs]
          owned,       \* thread -> the references it holds
          pending,     \* thread -> the mutation it is in
          iter,        \* thread -> the iteration it is in: payload, items at its start
          value_ops

value_vars == << things, payloads, owned, pending, iter, value_ops >>

NullValue == 0                        \* the constants: null and numbers
NoKey == "none"                       \* list items have no key
Idle == [stage |-> "idle", on |-> 0, op |-> "none", key |-> NoKey, v |-> NullValue, payload |-> 0]
NoIter == [payload |-> 0, items |-> << >>, pos |-> 0]
Plenty == 9

(* The heap while an operation runs: what it may still allocate, too.      *)
Heap(mem) == [things |-> things, payloads |-> payloads, mem |-> mem]
Commit(h) == things' = h.things /\ payloads' = h.payloads
Fresh(f, max) == Min((1..max) \ DOMAIN f)
value_as_thing(h, v) == v \in DOMAIN h.things
value_as_unfrozen_thing(h, v) == value_as_thing(h, v) /\ ~h.things[v].frozen
value_is_container(h, v) == value_as_thing(h, v) /\ h.things[v].type # "string"
Items(h, v) == h.payloads[h.things[v].payload].items

----------------------------------------------------------------------------
(* Reference counts.                                                       *)

Without(f, x) == [y \in DOMAIN f \ {x} |-> f[y]]
With(f, x, r) == [y \in DOMAIN f \cup {x} |-> IF y = x THEN r ELSE f[y]]

value_incref(h, v) == IF value_as_thing(h, v) THEN [h EXCEPT !.things[v].refs = @ + 1] ELSE h

RECURSIVE value_decref(_, _)
(* list_free and obj_free: the last reference takes the items with it.     *)
payload_free(h, p) ==
  IF h.payloads[p].refs > 1 THEN [h EXCEPT !.payloads[p].refs = @ - 1]
  ELSE FoldLeft(LAMBDA g, item : value_decref(g, item[2]),
                [h EXCEPT !.payloads = Without(@, p)], h.payloads[p].items)
thing_free(h, v) ==
  LET gone == [h EXCEPT !.things = Without(@, v)]
  IN  IF value_is_container(h, v) THEN payload_free(gone, h.things[v].payload) ELSE gone
value_decref(h, v) ==
  IF ~value_as_thing(h, v) THEN h
  ELSE IF h.things[v].refs > 1 THEN [h EXCEPT !.things[v].refs = @ - 1]
  ELSE thing_free(h, v)

----------------------------------------------------------------------------
(* New values.                                                             *)

new_thing_value(h, p, type) ==
  LET v == Fresh(h.things, MAX_THINGS)
  IN  IF h.mem = 0 THEN [h |-> h, v |-> NullValue]
      ELSE [h |-> [h EXCEPT !.mem = @ - 1,
                            !.things = With(@, v, [type |-> type, payload |-> p, refs |-> 1,
                                                   frozen |-> type = "string"])],
            v |-> v]
new_string_value(h) ==         \* its characters first, then the thing
  IF h.mem <= 1 THEN [h |-> h, v |-> NullValue]
  ELSE new_thing_value([h EXCEPT !.mem = @ - 1], 0, "string")
new_payload(h, items) ==
  LET p == Fresh(h.payloads, MAX_PAYLOADS)
  IN  IF h.mem = 0 THEN [h |-> h, p |-> 0]
      ELSE [h |-> [h EXCEPT !.mem = @ - 1, !.payloads = With(@, p, [items |-> items, refs |-> 1])],
            p |-> p]
new_container(h, type) ==
  LET made == new_payload(h, << >>)
      thing == new_thing_value(made.h, made.p, type)
  IN  IF made.p = 0 THEN [h |-> h, v |-> NullValue]
      ELSE IF thing.v = NullValue THEN [h |-> payload_free(made.h, made.p), v |-> NullValue]
      ELSE thing
value_new_list(h) == new_container(h, "list")
value_new_object(h) == new_container(h, "object")

----------------------------------------------------------------------------
(* Clones.                                                                 *)

(* Mutant: the clone takes no references of its own.                       *)
payload_clone_borrowed(h, p) == new_payload(h, h.payloads[p].items)
(* list_clone and obj_clone: the same items, each with one more reference. *)
payload_clone(h, p) ==
  LET made == new_payload(h, h.payloads[p].items)
  IN  IF made.p = 0 THEN made
      ELSE [made EXCEPT !.h = FoldLeft(LAMBDA g, item : value_incref(g, item[2]), @,
                                       h.payloads[p].items)]
thing_detach(h, v) ==
  LET p == h.things[v].payload
      made == payload_clone(h, p)
  IN  IF h.payloads[p].refs <= 1 THEN [h |-> h, ok |-> TRUE]
      ELSE IF made.p = 0 THEN [h |-> h, ok |-> FALSE]
      ELSE [h |-> [payload_free(made.h, p) EXCEPT !.things[v].payload = made.p], ok |-> TRUE]

thing_get_child(h, v, i) == Items(h, v)[i][2]
thing_set_child(h, v, i, child) == [h EXCEPT !.payloads[h.things[v].payload].items[i][2] = child]

RECURSIVE value_clone(_, _)
RECURSIVE thing_clone_children(_, _, _, _)
thing_clone_children(h, v, i, detached) ==
  LET child == thing_get_child(h, v, i)
      own == IF detached THEN [h |-> h, ok |-> TRUE] ELSE thing_detach(h, v)
      cloned == value_clone(own.h, child)
  IN  IF i > Len(Items(h, v)) THEN [h |-> h, ok |-> TRUE]
      ELSE IF ~value_is_container(h, child) THEN thing_clone_children(h, v, i + 1, detached)
      ELSE IF ~own.ok THEN own
      ELSE IF cloned.v = NullValue THEN [h |-> cloned.h, ok |-> FALSE]
      ELSE thing_clone_children(thing_set_child(value_decref(cloned.h, child), v, i, cloned.v),
                                v, i + 1, TRUE)
value_clone(h, v) ==
  LET p == h.things[v].payload
      made == new_thing_value([h EXCEPT !.payloads[p].refs = @ + 1], p, h.things[v].type)
      children == thing_clone_children(made.h, made.v, 1, FALSE)
  IN  IF ~value_is_container(h, v) THEN [h |-> value_incref(h, v), v |-> v]
      ELSE IF made.v = NullValue THEN [h |-> payload_free(made.h, p), v |-> NullValue]
      ELSE IF ~children.ok THEN [h |-> value_decref(children.h, made.v), v |-> NullValue]
      ELSE [h |-> children.h, v |-> made.v]

RECURSIVE value_freeze(_, _)
value_freeze(h, v) ==
  IF ~value_as_unfrozen_thing(h, v) THEN h
  ELSE FoldLeft(LAMBDA g, item : value_freeze(g, item[2]),
                [h EXCEPT !.things[v].frozen = TRUE], Items(h, v))

----------------------------------------------------------------------------
(* What the mutators do to the items: the new ones, and the value dropped. *)

IndexOf(items, k) == SelectInSeq(items, LAMBDA item : item[1] = k)
value_get_by_key(items, k) ==
  LET i == IndexOf(items, k) IN IF i = 0 THEN NullValue ELSE items[i][2]
value_set_by_key(items, k, v) ==
  LET i == IndexOf(items, k)
  IN  IF i = 0 THEN [items |-> Append(items, <<k, v>>), drop |-> NullValue]
      ELSE [items |-> [items EXCEPT ![i] = <<k, v>>], drop |-> items[i][2]]
value_remove_by_key(items, k) ==
  LET i == IndexOf(items, k)
  IN  IF i = 0 THEN [items |-> items, drop |-> NullValue]
      ELSE [items |-> RemoveAt(items, i), drop |-> items[i][2]]
value_append(items, v) == [items |-> Append(items, <<NoKey, v>>), drop |-> NullValue]
(* Index 1 of a list, whose items before it are filled up with null.       *)
value_set_by_index(items, v) ==
  LET full == items \o [i \in 1..(2 - Len(items)) |-> <<NoKey, NullValue>>]
  IN  [items |-> [full EXCEPT ![2] = <<NoKey, v>>], drop |-> full[2][2]]
value_remove_by_index(items) ==
  IF items = << >> THEN [items |-> items, drop |-> NullValue]
  ELSE [items |-> Tail(items), drop |-> items[1][2]]

Edited(items, op, k, v) ==
  CASE op = "set_by_key" -> value_set_by_key(items, k, v)
    [] op = "remove_by_key" -> value_remove_by_key(items, k)
    [] op = "append" -> value_append(items, v)
    [] op = "set_by_index" -> value_set_by_index(items, v)
    [] op = "remove_by_index" -> value_remove_by_index(items)
OpsOf(type) == CASE type = "object" -> {"set_by_key", "remove_by_key"}
                 [] type = "list" -> {"append", "set_by_index", "remove_by_index"}
                 [] OTHER -> {}
TakesValue(op) == op \in {"set_by_key", "append", "set_by_index"}

(* Keys of src that dst lacks; objects under the same key are merged.  The *)
(* values are shared with src, not cloned.                                 *)
RECURSIVE value_merge_objects(_, _, _)
value_merge_objects(h, dst, src) ==
  LET Put(g, k, v) ==
        LET own == thing_detach(g, dst)
            p == own.h.things[dst].payload
        IN  IF ~own.ok THEN [h |-> own.h, ok |-> FALSE]
            ELSE [h |-> [value_incref(own.h, v) EXCEPT
                           !.payloads[p].items = value_set_by_key(@, k, v).items],
                  ok |-> TRUE]
      Merge(acc, item) ==
        LET old == value_get_by_key(Items(acc.h, dst), item[1])
            IsObject(v) == value_is_container(acc.h, v) /\ acc.h.things[v].type = "object"
        IN  IF ~acc.ok THEN acc
            ELSE IF IsObject(old) /\ IsObject(item[2]) THEN value_merge_objects(acc.h, old, item[2])
            ELSE IF old = NullValue THEN Put(acc.h, item[1], item[2]) ELSE acc
  IN  IF ~value_as_unfrozen_thing(h, dst) THEN [h |-> h, ok |-> FALSE]
      ELSE FoldLeft(Merge, [h |-> h, ok |-> TRUE], Items(h, src))

----------------------------------------------------------------------------
(* What a thread does.                                                     *)

Live == Heap(0)
RECURSIVE Reach(_)
Reach(v) ==      \* the things a value is made of
  IF ~value_as_thing(Live, v) THEN {}
  ELSE {v} \cup (IF value_is_container(Live, v)
                   THEN UNION {Reach(Items(Live, v)[i][2]) : i \in DOMAIN Items(Live, v)} ELSE {})

CanStart(t) == pending[t].stage = "idle" /\ value_ops < VALUE_OPS
Started == value_ops' = value_ops + 1
Take(t, i) == owned' = [owned EXCEPT ![t] = RemoveAt(@, i)]
Hold(t, v) == owned' = [owned EXCEPT ![t] = IF v = NullValue THEN @ ELSE Append(@, v)]
HasRoom(t) == Len(owned[t]) < HANDLE_LIMIT
HeapRoom == Cardinality(DOMAIN things) + 3 <= MAX_THINGS /\ Cardinality(DOMAIN payloads) + 3 <= MAX_PAYLOADS

New(t) ==
  /\ CanStart(t) /\ HasRoom(t) /\ HeapRoom
  /\ \E type \in {"list", "object", "string"}, mem \in {0, 1, Plenty} :
       LET made == CASE type = "string" -> new_string_value(Heap(mem))
                     [] type = "list" -> value_new_list(Heap(mem))
                     [] type = "object" -> value_new_object(Heap(mem))
       IN  Commit(made.h) /\ Hold(t, made.v)
  /\ Started /\ UNCHANGED << pending, iter >>

Clone(t) ==
  /\ CanStart(t) /\ HasRoom(t) /\ HeapRoom
  /\ \E i \in DOMAIN owned[t], mem \in {0, 1, 2, Plenty} :
       LET made == value_clone(Heap(mem), owned[t][i])
       IN  Commit(made.h) /\ Hold(t, made.v)
  /\ Started /\ UNCHANGED << pending, iter >>

(* sentry_value_get_by_key_owned and sentry_value_get_by_index_owned.      *)
GetOwned(t) ==
  /\ CanStart(t) /\ HasRoom(t)
  /\ \E i \in DOMAIN owned[t] :
       /\ value_is_container(Live, owned[t][i]) /\ Items(Live, owned[t][i]) # << >>
       /\ LET child == thing_get_child(Live, owned[t][i], 1)
          IN  child # NullValue /\ Commit(value_incref(Live, child)) /\ Hold(t, child)
  /\ Started /\ UNCHANGED << pending, iter >>

Decref(t) ==
  /\ CanStart(t)
  /\ \E i \in DOMAIN owned[t] : Commit(value_decref(Live, owned[t][i])) /\ Take(t, i)
  /\ UNCHANGED << pending, iter, value_ops >>

Freeze(t) ==
  /\ CanStart(t)
  /\ \E i \in DOMAIN owned[t] :
       value_as_unfrozen_thing(Live, owned[t][i]) /\ Commit(value_freeze(Live, owned[t][i]))
  /\ Started /\ UNCHANGED << owned, pending, iter >>

(* Another thread gets the value: a frozen one as well, any other instead. *)
Give(t) ==
  /\ CanStart(t)
  /\ \E u \in ValueThreads \ {t}, i \in DOMAIN owned[t] :
       LET v == owned[t][i]
           rest == UNION {Reach(owned[t][j]) : j \in DOMAIN owned[t] \ {i}}
       IN  /\ HasRoom(u)
           /\ IF things[v].frozen
                THEN /\ owned' = [owned EXCEPT ![u] = Append(@, v)]
                     /\ Commit(value_incref(Live, v))
                ELSE /\ \A x \in Reach(v) \cap rest : things[x].frozen
                     /\ owned' = [owned EXCEPT ![t] = RemoveAt(@, i), ![u] = Append(@, v)]
                     /\ UNCHANGED << things, payloads >>
  /\ iter[t] = NoIter
  /\ Started /\ UNCHANGED << pending, iter >>

MergeInto(t, i) ==
  /\ CanStart(t) /\ HeapRoom
  /\ \E j \in DOMAIN owned[t] \ {i}, mem \in {0, Plenty} :
       LET dst == owned[t][i] src == owned[t][j]
       IN  /\ things[dst].type = "object" /\ things[src].type = "object"
           /\ \A x \in Reach(dst) \cap Reach(src) : things[x].frozen
           /\ Commit(value_merge_objects(Heap(mem), dst, src).h)
  /\ Started /\ UNCHANGED << owned, pending, iter >>
Merge(t) == \E i \in DOMAIN owned[t] : MergeInto(t, i)

(* A mutator consumes the value it is given, also when it fails.           *)
Mutate(t) ==
  /\ CanStart(t) /\ HeapRoom
  /\ \E i \in DOMAIN owned[t], j \in DOMAIN owned[t] \cup {0}, k \in Keys :
     \E op \in {"set_by_key", "remove_by_key", "append", "set_by_index", "remove_by_index"} :
       LET on == owned[t][i]
           v == IF j = 0 THEN NullValue ELSE owned[t][j]
       IN  /\ i # j /\ (j # 0 => TakesValue(op)) /\ on \notin Reach(v)
           /\ op \notin {"set_by_key", "remove_by_key"} => k = CHOOSE x \in Keys : TRUE
           /\ IF j = 0 THEN UNCHANGED owned ELSE Take(t, j)
           /\ IF value_as_unfrozen_thing(Live, on) /\ op \in OpsOf(things[on].type)
                THEN /\ pending' = [pending EXCEPT ![t] =
                                     [Idle EXCEPT !.stage = "check", !.on = on, !.op = op,
                                                  !.key = k, !.v = v]]
                     /\ UNCHANGED << things, payloads >>
                ELSE Commit(value_decref(Live, v)) /\ UNCHANGED pending
  /\ Started /\ UNCHANGED iter

Stage(t, s) == pending' = [pending EXCEPT ![t].stage = s]
PayloadOf(t) == things[pending[t].on].payload

(* Mutant: a mutator writes without looking who else has the payload.      *)
detach_check_never(t) ==
  /\ pending[t].stage = "check"
  /\ Stage(t, "write")
  /\ UNCHANGED << things, payloads, owned, iter, value_ops >>

(* thing_detach, one access to shared memory at a time.                    *)
detach_check(t) ==
  /\ pending[t].stage = "check"
  /\ Stage(t, IF payloads[PayloadOf(t)].refs <= 1 THEN "write" ELSE "clone")
  /\ UNCHANGED << things, payloads, owned, iter, value_ops >>
detach_clone(t) ==
  /\ pending[t].stage = "clone"
  /\ \E mem \in {0, 1} :
       LET made == payload_clone(Heap(mem), PayloadOf(t))
       IN  IF made.p = 0
             THEN /\ Commit(value_decref(Live, pending[t].v))
                  /\ pending' = [pending EXCEPT ![t] = Idle]
             ELSE /\ Commit(made.h)
                  /\ pending' = [pending EXCEPT ![t].stage = "swap", ![t].payload = made.p]
  /\ UNCHANGED << owned, iter, value_ops >>
detach_swap(t) ==
  /\ pending[t].stage = "swap"
  /\ Commit([payload_free(Live, PayloadOf(t)) EXCEPT !.things[pending[t].on].payload = pending[t].payload])
  /\ pending' = [pending EXCEPT ![t].stage = "write", ![t].payload = 0]
  /\ UNCHANGED << owned, iter, value_ops >>
(* Room for the items: allocated, which may fail, only when they grow.     *)
reserve(old, new) == IF Len(new) > Len(old) THEN BOOLEAN ELSE {TRUE}
write(t) ==
  /\ pending[t].stage = "write"
  /\ LET m == pending[t]
         items == payloads[PayloadOf(t)].items
         edit == Edited(items, m.op, m.key, m.v)
     IN  \E ok \in reserve(items, edit.items) :
           Commit(IF ok THEN value_decref([Live EXCEPT !.payloads[PayloadOf(t)].items = edit.items],
                                          edit.drop)
                  ELSE value_decref(Live, m.v))
  /\ pending' = [pending EXCEPT ![t] = Idle]
  /\ UNCHANGED << owned, iter, value_ops >>

(* sentry_value_foreach_value and sentry_value_foreach_key_value: the      *)
(* callbacks may do anything to the value, which the iteration outlives.   *)
foreach_start(t) ==
  /\ CanStart(t) /\ iter[t] = NoIter
  /\ \E i \in DOMAIN owned[t] :
       /\ value_is_container(Live, owned[t][i]) /\ Items(Live, owned[t][i]) # << >>
       /\ iter' = [iter EXCEPT ![t] = [payload |-> things[owned[t][i]].payload,
                                       items |-> Items(Live, owned[t][i]), pos |-> 0]]
       /\ payloads' = [payloads EXCEPT ![things[owned[t][i]].payload].refs = @ + 1]
  /\ Started /\ UNCHANGED << things, owned, pending >>
foreach_next(t) ==
  /\ pending[t].stage = "idle" /\ iter[t] # NoIter
  /\ IF iter[t].pos < Len(payloads[iter[t].payload].items)
       THEN iter' = [iter EXCEPT ![t].pos = @ + 1] /\ UNCHANGED << things, payloads >>
       ELSE iter' = [iter EXCEPT ![t] = NoIter] /\ Commit(payload_free(Live, iter[t].payload))
  /\ UNCHANGED << owned, pending, value_ops >>

(* A thread has an object that holds a list of one string; or it has cloned*)
(* that list and given the clone away, with nothing else left (which counts*)
(* as one operation).                                                      *)
Thing(type, p) == [type |-> type, payload |-> p, refs |-> 1, frozen |-> type = "string"]
Payload(k, v, refs) == [items |-> << <<k, v>> >>, refs |-> refs]
ValuesInit ==
  /\ LET t == CHOOSE t \in ValueThreads : TRUE
     IN  \/ \E k \in Keys :
              /\ things = << Thing("object", 1), Thing("list", 2), Thing("string", 0) >>
              /\ payloads = << Payload(k, 2, 1), Payload(NoKey, 3, 1) >>
              /\ owned = [u \in ValueThreads |-> IF u = t THEN <<1>> ELSE << >>]
              /\ value_ops = 0
         \/ /\ things = << Thing("list", 1), Thing("list", 1), Thing("string", 0) >>
            /\ payloads = << Payload(NoKey, 3, 2) >>
            /\ owned = [u \in ValueThreads |-> IF u = t THEN <<1>> ELSE <<2>>]
            /\ value_ops = 1
  /\ pending = [t \in ValueThreads |-> Idle] /\ iter = [t \in ValueThreads |-> NoIter]
ValuesNext ==
  \E t \in ValueThreads :
    \/ New(t) \/ Clone(t) \/ GetOwned(t) \/ Decref(t) \/ Freeze(t) \/ Give(t) \/ Merge(t) \/ Mutate(t)
    \/ detach_check(t) \/ detach_clone(t) \/ detach_swap(t) \/ write(t)
    \/ foreach_start(t) \/ foreach_next(t)
ValuesSpec == ValuesInit /\ [][ValuesNext]_value_vars

----------------------------------------------------------------------------
(* Properties.                                                             *)

CountIn(seq, x) == Cardinality({i \in DOMAIN seq : seq[i] = x})
SumOver(S, f(_)) == FoldSet(LAMBDA x, n : n + f(x), 0, S)
RefsTo(v) ==
  SumOver(ValueThreads, LAMBDA t : CountIn(owned[t], v) + (IF pending[t].v = v THEN 1 ELSE 0))
  + SumOver(DOMAIN payloads, LAMBDA p :
      Cardinality({i \in DOMAIN payloads[p].items : payloads[p].items[i][2] = v}))
RefsToPayload(p) ==
  Cardinality({v \in DOMAIN things : things[v].payload = p})
  + Cardinality({t \in ValueThreads : pending[t].payload = p})
  + Cardinality({t \in ValueThreads : iter[t].payload = p})

(* Reference counts are exact, of values and of the payloads clones share  *)
(* (sentry_value_decref, list_free, thing_detach), whichever allocation    *)
(* fails: nothing is freed that is still used and nothing is left behind.  *)
(* What a frozen value is made of is frozen, and a payload that two values *)
(* share has no containers in it, which both could change.  No thread      *)
(* writes a payload that another one reads (thing_detach checks a count it *)
(* does not lock), and an iteration sees the items it started with.        *)
ValuesSound ==
  /\ \A v \in DOMAIN things :
       /\ things[v].refs = RefsTo(v) /\ things[v].refs > 0
       /\ things[v].type # "string" => things[v].payload \in DOMAIN payloads
       /\ things[v].frozen => \A x \in Reach(v) : things[x].frozen
  /\ \A p \in DOMAIN payloads :
       /\ payloads[p].refs = RefsToPayload(p) /\ payloads[p].refs > 0
       /\ \A i \in DOMAIN payloads[p].items :
            LET v == payloads[p].items[i][2]
            IN  /\ v \in DOMAIN things \cup {NullValue}
                /\ Cardinality({x \in DOMAIN things : things[x].payload = p}) > 1
                     => ~value_is_container(Live, v)
  /\ \A t, u \in ValueThreads :
       pending[t].stage = "write" /\ pending[u].stage = "clone" => PayloadOf(t) # PayloadOf(u)
  /\ \A t \in ValueThreads : iter[t] # NoIter => payloads[iter[t].payload].items = iter[t].items

(* A value as its reader sees it.                                          *)
RECURSIVE Seen(_)
Seen(v) ==
  IF ~value_as_thing(Live, v) THEN <<"null">>
  ELSE IF ~value_is_container(Live, v) THEN <<"string", v>>
  ELSE <<things[v].type, [i \in DOMAIN Items(Live, v) |-> <<Items(Live, v)[i][1], Seen(Items(Live, v)[i][2])>>]>>

(* Nobody changes another's value: a step changes what a value looks like  *)
(* only if it writes into that value or into one it contains, through a    *)
(* reference and not through a clone; and a frozen value never changes     *)
(* (sentry_value_freeze).                                                  *)
Written == {pending[t].on : t \in {u \in ValueThreads : pending[u].stage = "write"}}
OtherValuesKept ==
  \A v \in DOMAIN things \cap DOMAIN things' :
    Seen(v)' = Seen(v) \/ (/\ ~things[v].frozen
                          /\ \/ Reach(v) \cap Written # {}
                             \/ \E t \in ValueThreads : \E i \in DOMAIN owned[t] :
                                  MergeInto(t, i) /\ Reach(v) \cap Reach(owned[t][i]) # {})
ValuesIndependent == [][OtherValuesKept]_value_vars

=============================================================================
