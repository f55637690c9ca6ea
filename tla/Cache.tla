------------------------------- MODULE Cache -------------------------------
(***************************************************************************)
(* The cache directory of the database: envelopes kept for a retry or for  *)
(* the user, beside them their siblings (minidumps, large attachments),    *)
(* and the cleanup that prunes it by age, size and number.  Another        *)
(* process that shares the database may send or rename an envelope between *)
(* two steps of the cleanup.                                               *)
(*                                                                         *)
(* A file name is the sequence of its parts.                               *)
(***************************************************************************)
EXTENDS Integers, Sequences, FiniteSets, FiniteSetsExt, SequencesExt

CONSTANTS Uuids, Sizes, Times, Now,
          Retried,                         \* bound: events that may wait for a retry
          MaxAges, MaxSizes, MaxItems,     \* options; 0: no limit
          INTERFERENCES                    \* bound: steps of another process

VARIABLES cache_options,   \* cache_max_age, cache_max_size, cache_max_items
          cache_files,     \* name -> [mtime, size]
          cleaning,        \* the cleanup: at, entries, i, accumulated
          discarded,       \* envelopes recorded as SENTRY_DISCARD_REASON_CACHE_OVERFLOW
          before,          \* the files the cleanup started with
          touched          \* names the other process has removed or made

cache_vars == << cache_options, cache_files, cleaning, discarded, before, touched >>

----------------------------------------------------------------------------
(* Names.                                                                  *)

Envelope == ".envelope"
make_cache_path(ts, count, uuid) ==
  IF count >= 0 THEN <<ts, "-", count, "-", uuid, Envelope>> ELSE <<uuid, Envelope>>
(* [uuid, count], or count -2 where the name is of another form.           *)
parse_cache_filename(name) ==
  CASE Len(name) = 2 /\ name[2] = Envelope -> [uuid |-> name[1], count |-> -1]
    [] Len(name) = 6 /\ name[6] = Envelope -> [uuid |-> name[5], count |-> name[3]]
    [] OTHER -> [uuid |-> 0, count |-> -2]
is_cache_sibling(name, uuid) == name[1] = uuid /\ name[2] # Envelope
IsEnvelope(name) == Last(name) = Envelope
Siblings(files, name) ==
  {n \in DOMAIN files : is_cache_sibling(n, parse_cache_filename(name).uuid)}
SizeOf(files, names) == FoldSet(LAMBDA n, sum : sum + files[n].size, 0, names)
Without(files, names) == [n \in DOMAIN files \ names |-> files[n]]

(* sentry__cache_remove_envelope: the siblings and the envelope.           *)
cache_remove_envelope(files, name) == Without(files, Siblings(files, name) \cup {name})
(* sentry__run_move_cache: a new name with the count of another attempt.   *)
move_cache(files, name, count) ==
  LET new == make_cache_path(Now, count, parse_cache_filename(name).uuid)
  IN  [n \in (DOMAIN files \ {name}) \cup {new} |-> IF n = new THEN files[name] ELSE files[n]]

----------------------------------------------------------------------------
(* sentry__cleanup_cache.                                                  *)

compare_cache_entries_newest_first(a, b) == a.mtime >= b.mtime
(* The envelopes, each with the size of its siblings, newest first; those  *)
(* of one time in any order.                                               *)
Entries ==
  LET names == {n \in DOMAIN cache_files : IsEnvelope(n)}
      entry(n) == [name |-> n, mtime |-> cache_files[n].mtime,
                   size |-> cache_files[n].size + SizeOf(cache_files, Siblings(cache_files, n))]
  IN  {[i \in DOMAIN order |-> entry(order[i])] :
         order \in {s \in SetToSeqs(names) : \A i, j \in DOMAIN s :
                      i < j => compare_cache_entries_newest_first(entry(s[i]), entry(s[j]))}}
Collect ==
  /\ cleaning.at = "idle"
  /\ \E entries \in Entries :
       cleaning' = [at |-> "prune", entries |-> entries, i |-> 1, accumulated |-> 0]
  /\ before' = cache_files
  /\ UNCHANGED << cache_options, cache_files, discarded, touched >>

record_cache_overflow_discard(name) == discarded \cup {name}
TooOld(e) == cache_options.age > 0 /\ e.mtime < Now - cache_options.age
Overflow(e, i, sum) ==     \* e is entries[i - 1] of the code
  \/ cache_options.size > 0 /\ sum > cache_options.size
  \/ cache_options.items > 0 /\ i - 1 >= cache_options.items
(* Mutant: a pruned entry does not count towards the size.                 *)
Prune_refit ==
  /\ cleaning.at = "prune" /\ cleaning.i <= Len(cleaning.entries)
  /\ LET e == cleaning.entries[cleaning.i]
         sum == cleaning.accumulated + e.size
         overflow == ~TooOld(e) /\ Overflow(e, cleaning.i, sum)
     IN  /\ discarded' = IF overflow THEN record_cache_overflow_discard(e.name) ELSE discarded
         /\ cleaning' = [cleaning EXCEPT !.i = @ + 1,
                                         !.accumulated = IF TooOld(e) \/ overflow THEN @ ELSE sum,
                                         !.at = IF TooOld(e) \/ overflow THEN "siblings" ELSE @]
  /\ UNCHANGED << cache_options, cache_files, before, touched >>
Prune ==
  /\ cleaning.at = "prune" /\ cleaning.i <= Len(cleaning.entries)
  /\ LET e == cleaning.entries[cleaning.i]
         sum == cleaning.accumulated + e.size
         overflow == ~TooOld(e) /\ Overflow(e, cleaning.i, sum)
     IN  /\ discarded' = IF overflow THEN record_cache_overflow_discard(e.name) ELSE discarded
         /\ cleaning' = [cleaning EXCEPT !.i = @ + 1,
                                         !.accumulated = IF TooOld(e) THEN @ ELSE sum,
                                         !.at = IF TooOld(e) \/ overflow THEN "siblings" ELSE @]
  /\ UNCHANGED << cache_options, cache_files, before, touched >>
PruneSiblings ==
  /\ cleaning.at = "siblings"
  /\ cache_files' = Without(cache_files, Siblings(cache_files, cleaning.entries[cleaning.i - 1].name))
  /\ cleaning' = [cleaning EXCEPT !.at = "envelope"]
  /\ UNCHANGED << cache_options, discarded, before, touched >>
PruneEnvelope ==
  /\ cleaning.at = "envelope"
  /\ cache_files' = Without(cache_files, {cleaning.entries[cleaning.i - 1].name})
  /\ cleaning' = [cleaning EXCEPT !.at = "prune"]
  /\ UNCHANGED << cache_options, discarded, before, touched >>
Pruned ==
  /\ cleaning.at = "prune" /\ cleaning.i > Len(cleaning.entries)
  /\ cleaning' = [cleaning EXCEPT !.at = "done"]
  /\ UNCHANGED << cache_options, cache_files, discarded, before, touched >>

(* Another process retries an envelope: sent, or to be tried again.        *)
OtherRetry ==
  /\ cleaning.at # "done" /\ Cardinality(touched) < INTERFERENCES
  /\ \E n \in {x \in DOMAIN cache_files : IsEnvelope(x) /\ parse_cache_filename(x).count >= 0} :
       /\ \/ cache_files' = cache_remove_envelope(cache_files, n)
          \/ cache_files' = move_cache(cache_files, n, parse_cache_filename(n).count + 1)
       /\ touched' = touched \cup {parse_cache_filename(n).uuid}
  /\ UNCHANGED << cache_options, cleaning, discarded, before >>

(* One envelope for an event, cached or waiting for a retry, and a sibling *)
(* or none.                                                                *)
CacheInit ==
  /\ cache_options \in [age : MaxAges, size : MaxSizes, items : MaxItems]
  /\ \E envelopes \in SUBSET Uuids : \E siblings \in SUBSET envelopes, retries \in SUBSET (envelopes \cap Retried) :
     \E size \in [envelopes -> Sizes], mtime \in [envelopes -> Times] :
       LET envelope(u) == make_cache_path(1, IF u \in retries THEN 0 ELSE -1, u)
           sibling(u) == <<u, ".dmp">>
           names == {envelope(u) : u \in envelopes} \cup {sibling(u) : u \in siblings}
           owner(n) == IF IsEnvelope(n) THEN parse_cache_filename(n).uuid ELSE n[1]
       IN  cache_files = [n \in names |-> [mtime |-> mtime[owner(n)],
                                           size |-> IF IsEnvelope(n) THEN size[owner(n)] ELSE 1]]
  /\ cleaning = [at |-> "idle", entries |-> << >>, i |-> 1, accumulated |-> 0]
  /\ discarded = {} /\ before = << >> /\ touched = {}
CacheNext == Collect \/ Prune \/ PruneSiblings \/ PruneEnvelope \/ Pruned \/ OtherRetry
CacheSpec == CacheInit /\ [][CacheNext]_cache_vars

----------------------------------------------------------------------------
(* Properties.                                                             *)

(* After a cleanup (sentry__cleanup_cache) the cache is within its limits, *)
(* unless another process gave an envelope a new name meanwhile; what is   *)
(* gone was too old, sent by the other process, or recorded as discarded,  *)
(* and no kept envelope is older than one that had to go for room.         *)
(* Envelopes and siblings go together: no sibling is left without its      *)
(* envelope and no kept envelope loses its own.                            *)
CachePruned ==
  cleaning.at = "done" =>
    LET uuid(n) == parse_cache_filename(n).uuid
        kept == {n \in DOMAIN cache_files : IsEnvelope(n)}
        gone == {n \in DOMAIN before : IsEnvelope(n)} \ kept
        age(n) == before[n].mtime
    IN  /\ touched = {} =>
             /\ cache_options.size > 0 => SizeOf(cache_files, DOMAIN cache_files) <= cache_options.size
             /\ cache_options.items > 0 => Cardinality(kept) <= cache_options.items
             /\ cache_options.age > 0 => \A n \in kept : age(n) >= Now - cache_options.age
        /\ \A n \in gone : \/ uuid(n) \in touched
                           \/ (n \in discarded) # (cache_options.age > 0 /\ age(n) < Now - cache_options.age)
        /\ \A n \in kept \cap DOMAIN before, m \in discarded : age(n) >= age(m)
        /\ discarded \cap kept = {}
        /\ \A n \in DOMAIN cache_files : ~IsEnvelope(n) /\ n[1] \notin touched
             => \E k \in kept : uuid(k) = n[1]
        /\ \A k \in kept \ {x \in kept : uuid(x) \in touched} :
             Siblings(before, k) = Siblings(cache_files, k)

=============================================================================
