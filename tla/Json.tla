-------------------------------- MODULE Json --------------------------------
(***************************************************************************)
(* Values as text and back: the JSON writer (commas, keys, the depth       *)
(* limit, escapes, a sink that fails), the JSON reader on the tokens of    *)
(* jsmn, and the MessagePack pair that the ring files and the crash event  *)
(* use.                                                                    *)
(*                                                                         *)
(* A value is a tree.  Text is a sequence of symbols: a punctuation mark,  *)
(* a character of a string, a word, or the digits of a number, which may    *)
(* have a point or an exponent.  Integer widths are constants.             *)
(***************************************************************************)
EXTENDS Integers, Sequences, SequencesExt, FiniteSetsExt

CONSTANTS SENTRY_JSON_MAX_DEPTH, SENTRY_MPACK_MAX_DEPTH,
          INT32_MAX, INT64_MAX, UINT64_MAX,
          PLAIN_MAX,      \* 10^16 - 1, the last integer "%.16g" writes without an exponent
          JsonTrees,      \* the values to convert
          Rooms           \* how many symbols the sink takes before it fails

VARIABLES json_value, json_room, json_text, json_read, mpack_read, json_stage

json_vars == << json_value, json_room, json_text, json_read, mpack_read, json_stage >>

----------------------------------------------------------------------------
(* Values.                                                                 *)

Null == [type |-> "null"]
Bool(b) == [type |-> "bool", b |-> b]
Number(type, n) == [type |-> type, n |-> n]
(* A finite double, by its first sixteen digits: the integer n, or a       *)
(* number next to it when `frac`.  It is `fine` when it needs another      *)
(* digit to be told from its neighbours.                                   *)
Double(n, frac, fine) == [type |-> "double", n |-> n, frac |-> frac, fine |-> fine]
NonFinite == [type |-> "nonfinite"]
String(s) == [type |-> "string", s |-> s]
List(items) == [type |-> "list", items |-> items]
Object(pairs) == [type |-> "object", items |-> pairs]      \* << <<key, value>>, ... >>
IsContainer(v) == v.type \in {"list", "object"}

(* The narrowest integer that holds n.                                     *)
Narrow(n) == IF -INT32_MAX - 1 <= n /\ n <= INT32_MAX THEN Number("int32", n)
             ELSE IF n <= INT64_MAX THEN Number("int64", n) ELSE Number("uint64", n)

----------------------------------------------------------------------------
(* The sink (sentry_writer.c): after one failure it takes nothing more.    *)

C(c) == [c |-> c, n |-> 0, point |-> FALSE, exponent |-> FALSE]
Digits(n, point, exponent) == [c |-> "digits", n |-> n, point |-> point, exponent |-> exponent]

jsonwriter_new(room) ==
  [out |-> << >>, room |-> room, failed |-> FALSE, want_comma |-> {}, depth |-> 0,
   last_was_key |-> FALSE]
writer_write(jw, symbols) ==
  IF jw.failed THEN jw
  ELSE IF Len(jw.out) + Len(symbols) > jw.room THEN [jw EXCEPT !.failed = TRUE]
  ELSE [jw EXCEPT !.out = @ \o symbols]
write_char(jw, c) == writer_write(jw, <<C(c)>>)

----------------------------------------------------------------------------
(* The JSON writer.                                                        *)

at_max_depth(jw) == jw.depth >= SENTRY_JSON_MAX_DEPTH
set_comma(jw, val) ==
  IF at_max_depth(jw) THEN jw
  ELSE [jw EXCEPT !.want_comma = IF val THEN @ \cup {jw.depth} ELSE @ \ {jw.depth}]

(* The writer after the comma, if one is due, and whether an item may      *)
(* follow.                                                                 *)
can_write_item(jw) ==
  LET next == IF jw.last_was_key THEN [jw EXCEPT !.last_was_key = FALSE]
              ELSE IF jw.depth \in jw.want_comma THEN write_char(jw, ",")
              ELSE set_comma(jw, TRUE)
  IN  IF at_max_depth(jw) \/ jw.failed THEN [ok |-> FALSE, jw |-> jw]
      ELSE [ok |-> ~next.failed, jw |-> next]
write_item(jw, symbols) ==
  LET can == can_write_item(jw) IN IF can.ok THEN writer_write(can.jw, symbols) ELSE can.jw

Escaped(c) ==
  CASE c = "backslash" -> <<C("backslash"), C("backslash")>>
    [] c = "quote" -> <<C("backslash"), C("quote")>>
    [] c = "newline" -> <<C("backslash"), C("n")>>
    [] c = "control" -> <<C("backslash"), C("u"), C("0001")>>
    [] OTHER -> <<C(c)>>
write_json_str(s) == FlattenSeq([i \in DOMAIN s |-> Escaped(s[i])])
Quoted(s) == <<C("quote")>> \o write_json_str(s) \o <<C("quote")>>

write_null(jw) == write_item(jw, <<C("null")>>)
write_bool(jw, b) == write_item(jw, <<C(IF b THEN "true" ELSE "false")>>)
write_int(jw, n) == write_item(jw, <<Digits(n, FALSE, FALSE)>>)
(* Sixteen digits are written; a seventeenth is lost.                      *)
write_double(jw, v) ==
  write_item(jw, IF v.type = "nonfinite" THEN <<C("null")>>
                 ELSE <<Digits(v.n, v.frac, v.n \notin (-PLAIN_MAX)..PLAIN_MAX)>>)
write_str(jw, s) == write_item(jw, Quoted(s))
write_key(jw, k) ==
  LET can == can_write_item(jw)
  IN  IF can.ok
        THEN [writer_write(can.jw, Quoted(k) \o <<C(":")>>) EXCEPT !.last_was_key = TRUE]
        ELSE can.jw
write_start(jw, c) ==
  LET at == write_item(jw, <<C(c)>>) IN set_comma([at EXCEPT !.depth = @ + 1], FALSE)
write_end_always(jw, c) ==      \* mutant: the end of a container that was not written
  write_char([jw EXCEPT !.depth = @ - 1], c)
write_end(jw, c) ==
  LET up == [jw EXCEPT !.depth = @ - 1] IN IF at_max_depth(up) THEN up ELSE write_char(up, c)

RECURSIVE jsonwriter_write_value(_, _)
jsonwriter_write_value(jw, v) ==
  CASE v.type = "null" -> write_null(jw)
    [] v.type = "bool" -> write_bool(jw, v.b)
    [] v.type \in {"int32", "int64", "uint64"} -> write_int(jw, v.n)
    [] v.type \in {"double", "nonfinite"} -> write_double(jw, v)
    [] v.type = "string" -> write_str(jw, v.s)
    [] v.type = "list" ->
         write_end(FoldLeft(jsonwriter_write_value, write_start(jw, "["), v.items), "]")
    [] v.type = "object" ->
         write_end(FoldLeft(LAMBDA at, p : jsonwriter_write_value(write_key(at, p[1]), p[2]),
                            write_start(jw, "{"), v.items), "}")

NoText == <<C("NULL")>>
jsonwriter_into_string(jw) == IF jw.failed THEN NoText ELSE jw.out
value_to_json(v, room) == jsonwriter_into_string(jsonwriter_write_value(jsonwriter_new(room), v))

----------------------------------------------------------------------------
(* jsmn: text to tokens in preorder, a container with its size.            *)

NoTokens == [ok |-> FALSE, tokens |-> << >>, next |-> 0]
Token(type, size, at) == [type |-> type, size |-> size, at |-> at]
At(text, i) == IF i <= Len(text) THEN text[i].c ELSE "end"

RECURSIVE StringEnd(_, _)
StringEnd(text, i) ==      \* the closing quote; a backslash hides one symbol
  CASE At(text, i) \in {"quote", "end"} -> i
    [] At(text, i) = "backslash" -> StringEnd(text, i + 2)
    [] OTHER -> StringEnd(text, i + 1)
StringToken(text, i) ==
  LET e == StringEnd(text, i + 1)
  IN  IF At(text, i) # "quote" \/ At(text, e) # "quote" THEN NoTokens
      ELSE [ok |-> TRUE, next |-> e + 1,
            tokens |-> <<Token("string", 0, SubSeq(text, i + 1, e - 1))>>]

RECURSIVE JsonTokens(_, _)
RECURSIVE ItemTokens(_, _, _, _, _)
(* The items of a container from symbol i on: a comma between two, a key   *)
(* before the value in an object.                                          *)
ItemTokens(text, i, close, size, tokens) ==
  LET at == IF size > 0 /\ At(text, i) = "," THEN i + 1 ELSE i
      key == IF close = "}" THEN StringToken(text, at)
             ELSE [ok |-> TRUE, tokens |-> << >>, next |-> at]
      from == IF close = "}" THEN key.next + 1 ELSE at
      item == IF key.ok /\ (close = "}" => At(text, key.next) = ":")
                THEN JsonTokens(text, from) ELSE NoTokens
  IN  IF At(text, i) = close
        THEN [ok |-> TRUE, tokens |-> tokens, size |-> size, next |-> i + 1]
      ELSE IF ~item.ok \/ (size > 0) # (At(text, i) = ",")
        THEN [ok |-> FALSE, tokens |-> << >>, size |-> 0, next |-> 0]
      ELSE ItemTokens(text, item.next, close, size + 1, tokens \o key.tokens \o item.tokens)
JsonTokens(text, i) ==
  CASE At(text, i) \in {"{", "["} ->
         LET object == At(text, i) = "{"
             items == ItemTokens(text, i + 1, IF object THEN "}" ELSE "]", 0, << >>)
         IN  IF ~items.ok THEN NoTokens
             ELSE [ok |-> TRUE, next |-> items.next,
                   tokens |-> <<Token(IF object THEN "object" ELSE "array", items.size, << >>)>>
                                \o items.tokens]
    [] At(text, i) = "quote" -> StringToken(text, i)
    [] At(text, i) \in {"null", "true", "false", "digits"} ->
         [ok |-> TRUE, next |-> i + 1, tokens |-> <<Token("primitive", 0, <<text[i]>>)>>]
    [] OTHER -> NoTokens
jsmn_parse(text) ==
  LET parsed == JsonTokens(text, 1)
  IN  IF parsed.ok /\ parsed.next = Len(text) + 1 THEN parsed.tokens ELSE << >>

----------------------------------------------------------------------------
(* The JSON reader.                                                        *)

NoString == <<"invalid">>
Unescaped(c) == CASE c = "n" -> "newline" [] c \in {"quote", "backslash"} -> c [] OTHER -> "invalid"
RECURSIVE Decode(_, _)
Decode(text, i) ==
  IF i > Len(text) THEN << >>
  ELSE IF text[i].c # "backslash" THEN <<text[i].c>> \o Decode(text, i + 1)
  ELSE IF At(text, i + 1) = "u"
    THEN <<IF At(text, i + 2) = "0001" THEN "control" ELSE "invalid">> \o Decode(text, i + 3)
  ELSE <<Unescaped(At(text, i + 1))>> \o Decode(text, i + 2)
decode_string_inplace(text) ==
  LET s == Decode(text, 1) IN IF "invalid" \in Range(s) THEN NoString ELSE s

(* Text that is an integer, and fits one, is read as one.                  *)
parse_number(d) ==
  IF d.point \/ d.exponent \/ d.n < -INT64_MAX - 1 \/ d.n > UINT64_MAX
    THEN Double(d.n, d.point, FALSE) ELSE Narrow(d.n)

Primitive(symbol) == CASE symbol.c = "true" -> Bool(TRUE) [] symbol.c = "false" -> Bool(FALSE)
                       [] symbol.c = "null" -> Null [] OTHER -> parse_number(symbol)

Unparsed == [consumed |-> -1, value |-> Null]
PutKey(pairs, k, v) ==
  IF \E i \in DOMAIN pairs : pairs[i][1] = k
    THEN [i \in DOMAIN pairs |-> IF pairs[i][1] = k THEN <<k, v>> ELSE pairs[i]]
    ELSE Append(pairs, <<k, v>>)

RECURSIVE tokens_to_value(_, _, _)
RECURSIVE ParseItems(_, _, _, _, _)
(* The children of a container from token `from` on.                       *)
ParseItems(tokens, from, depth, left, rv) ==
  LET object == rv.type = "object"
      at == IF object THEN from + 1 ELSE from
      child == tokens_to_value(tokens, at, depth + 1)
      key == decode_string_inplace(tokens[from].at)
  IN  CASE left = 0 -> [consumed |-> from, value |-> rv]
        [] left > 0 /\ (at > Len(tokens) \/ (object /\ tokens[from].type # "string")) -> Unparsed
        [] OTHER ->
             IF child.consumed = -1 THEN Unparsed
             ELSE ParseItems(tokens, child.consumed, depth, left - 1,
                    [rv EXCEPT !.items =
                       IF ~object THEN Append(@, child.value)
                       ELSE IF key = NoString THEN @ ELSE PutKey(@, key, child.value)])
tokens_to_value(tokens, from, depth) ==
  LET root == tokens[from]
  IN  CASE root.type = "primitive" -> [consumed |-> from + 1, value |-> Primitive(root.at[1])]
        [] root.type = "string" ->
             LET s == decode_string_inplace(root.at)
             IN  [consumed |-> from + 1, value |-> IF s = NoString THEN Null ELSE String(s)]
        [] root.type \in {"object", "array"} ->
             IF depth >= SENTRY_JSON_MAX_DEPTH THEN Unparsed
             ELSE ParseItems(tokens, from + 1, depth, root.size,
                             IF root.type = "object" THEN Object(<< >>) ELSE List(<< >>))

value_from_json(text) ==
  LET tokens == jsmn_parse(text)
      parsed == tokens_to_value(tokens, 1, 0)
  IN  IF tokens # << >> /\ parsed.consumed = Len(tokens) + 1 THEN parsed.value ELSE Null

----------------------------------------------------------------------------
(* MessagePack.  A document is a tree of nodes; a nonnegative integer is   *)
(* stored as an unsigned one.                                              *)

RECURSIVE value_to_msgpack(_)
value_to_msgpack(v) ==
  CASE v.type \in {"int32", "int64", "uint64"} -> Number(IF v.n >= 0 THEN "uint" ELSE "int", v.n)
    [] v.type = "list" -> [v EXCEPT !.items = [i \in DOMAIN @ |-> value_to_msgpack(@[i])]]
    [] v.type = "object" ->
         [v EXCEPT !.items = [i \in DOMAIN @ |-> <<@[i][1], value_to_msgpack(@[i][2])>>]]
    [] OTHER -> v

TooDeep == [type |-> "too deep"]
RECURSIVE value_from_mpack(_, _)
value_from_mpack(node, depth) ==
  LET child(x) == IF node.type = "object" THEN value_from_mpack(x[2], depth + 1)
                  ELSE value_from_mpack(x, depth + 1)
  IN  CASE node.type \in {"uint", "int"} -> Narrow(node.n)
        [] node.type \in {"list", "object"} ->
             IF depth >= SENTRY_MPACK_MAX_DEPTH THEN TooDeep
             ELSE IF \E i \in DOMAIN node.items : child(node.items[i]) = TooDeep THEN TooDeep
             ELSE [node EXCEPT !.items = [i \in DOMAIN @ |->
                     IF node.type = "object" THEN <<@[i][1], child(@[i])>> ELSE child(@[i])]]
        [] OTHER -> node

(* One document; what follows it in the buffer is refused.                 *)
value_from_msgpack(buf) ==
  LET value == value_from_mpack(buf[1], 0)
  IN  IF Len(buf) # 1 \/ value = TooDeep THEN Null ELSE value

----------------------------------------------------------------------------
JsonInit ==
  /\ json_value \in JsonTrees /\ json_room \in Rooms
  /\ json_text = NoText /\ json_read = Null /\ mpack_read = Null
  /\ json_stage = "value"

Write ==
  /\ json_stage = "value"
  /\ json_text' = value_to_json(json_value, json_room)
  /\ json_stage' = "text"
  /\ UNCHANGED << json_value, json_room, json_read, mpack_read >>
Read ==
  /\ json_stage = "text"
  /\ json_read' = IF json_text = NoText THEN Null ELSE value_from_json(json_text)
  /\ mpack_read' = value_from_msgpack(<<value_to_msgpack(json_value)>>)
  /\ json_stage' = "read"
  /\ UNCHANGED << json_value, json_room, json_text >>

JsonNext == Write \/ Read
JsonSpec == JsonInit /\ [][JsonNext]_json_vars

----------------------------------------------------------------------------
(* Properties.                                                             *)

(* What a reader gets: every integer with its value and the narrowest      *)
(* type; of a double the first sixteen digits, as an integer when they     *)
(* look like one; nothing for a number that is not finite, and no          *)
(* container below the depth limit: the items of the deepest ones are gone.*)
RECURSIVE Expected(_, _, _)
Expected(v, depth, limit) ==
  CASE v.type \in {"int32", "int64", "uint64"} -> Narrow(v.n)
    [] v.type = "double" ->
         IF v.frac \/ v.n \notin (-PLAIN_MAX)..PLAIN_MAX
           THEN [v EXCEPT !.fine = FALSE] ELSE Narrow(v.n)
    [] v.type = "nonfinite" -> Null
    [] v.type = "list" ->
         IF depth + 1 >= limit THEN List(<< >>)
         ELSE [v EXCEPT !.items = [i \in DOMAIN @ |-> Expected(@[i], depth + 1, limit)]]
    [] v.type = "object" ->
         IF depth + 1 >= limit THEN Object(<< >>)
         ELSE [v EXCEPT !.items = [i \in DOMAIN @ |-> <<@[i][1], Expected(@[i][2], depth + 1, limit)>>]]
    [] OTHER -> v

RECURSIVE Depth(_)
Depth(v) ==
  IF ~IsContainer(v) THEN 0
  ELSE 1 + Max({0} \cup {Depth(IF v.type = "object" THEN v.items[i][2] ELSE v.items[i]) :
                           i \in DOMAIN v.items})
RECURSIVE Exact(_)
Exact(v) ==      \* MessagePack keeps doubles as they are
  CASE v.type \in {"int32", "int64", "uint64"} -> Narrow(v.n)
    [] v.type = "list" -> [v EXCEPT !.items = [i \in DOMAIN @ |-> Exact(@[i])]]
    [] v.type = "object" -> [v EXCEPT !.items = [i \in DOMAIN @ |-> <<@[i][1], Exact(@[i][2])>>]]
    [] OTHER -> v

(* Values survive their text (sentry__value_to_json, sentry__value_from_json*)
(* and the MessagePack pair).  A sink that fails gives no text, never a    *)
(* prefix of one; any other text is well-formed JSON, whatever is nested,  *)
(* escaped or cut off at the depth limit, and reads back as the value, but *)
(* for the digits of a double after the sixteenth, which JSON loses and    *)
(* MessagePack keeps.  A document nested deeper than MessagePack's limit   *)
(* reads back as nothing.                                                  *)
RoundTrip ==
  json_stage = "read" =>
    /\ json_text # NoText => json_read = Expected(json_value, 0, SENTRY_JSON_MAX_DEPTH)
    /\ json_text = NoText => json_room < Len(value_to_json(json_value, 1000))
    /\ mpack_read = IF Depth(json_value) > SENTRY_MPACK_MAX_DEPTH THEN Null ELSE Exact(json_value)

=============================================================================
