--------------------------- MODULE EnvelopeFormat ---------------------------
(***************************************************************************)
(* The wire format of an envelope: a header line, then for every item a    *)
(* header line and a payload.                                              *)
(*                                                                         *)
(* A buffer is a sequence of tokens: a newline, a payload byte, or one     *)
(* JSON object, which is a token by itself because a JSON text either      *)
(* parses whole or not at all (Part stands for the beginning of one).  The *)
(* objects are the two kinds of header and the serialised events: a parser *)
(* cannot tell them apart.  A payload is any sequence of tokens: an        *)
(* attachment may contain newlines and text that looks like a header.      *)
(***************************************************************************)
EXTENDS Integers, Sequences, FiniteSets, SequencesExt

CONSTANT INT32_HALF          \* 2^31 for the width of the length header

NL == [t |-> "newline"]
Part == [t |-> "part"]
NoLength == <<>>
Header(ty, a, ct, len) ==
  [t |-> "header", type |-> ty, attachment_type |-> a.type, filename |-> a.id,
   content_type |-> ct, length |-> len]
NoAttachment == [id |-> 0, buf |-> FALSE, type |-> ""]
EnvelopeHeader == [t |-> "envelope"]
IsObject(token) == token.t \in {"envelope", "header", "event", "base event"}
RefMime == "attachment-ref"

(* The length header is an int32.                                          *)
as_int32(n) == ((n + INT32_HALF) % (2 * INT32_HALF)) - INT32_HALF

Item(ty, a, ct, payload) ==
  [header |-> Header(ty, a, ct, <<as_int32(Len(payload))>>), payload |-> payload]

----------------------------------------------------------------------------
(* The wire format.                                                        *)

serialize_item(i) == <<NL, i.header, NL>> \o i.payload

serialize_items(items) ==
  <<EnvelopeHeader>> \o FlattenSeq([i \in 1..Len(items) |-> serialize_item(items[i])])

(* memchr: the next newline at or after p, or the end.                     *)
NextNewline(b, p) ==
  LET found == {q \in p..Len(b) : b[q] = NL}
  IN  IF found = {} THEN Len(b) + 1 ELSE CHOOSE q \in found : \A r \in found : q <= r

(* The position after the newlines that follow p.                          *)
SkipNewlines(b, p) ==
  CHOOSE q \in p..(Len(b) + 1) :
    /\ \A r \in p..(q - 1) : b[r] = NL
    /\ q = Len(b) + 1 \/ b[q] # NL

Failed == [ok |-> FALSE, items |-> <<>>]

(* Only item headers have a length; without one, and for any other object, *)
(* the payload is a line.                                                  *)
PayloadLength(b, p, h) ==
  IF h.t # "header" \/ h.length = NoLength THEN NextNewline(b, p) - p ELSE h.length[1]

ItemsFrom(b, start) ==
  LET parse[p \in 1..(Len(b) + 1)] ==
        IF p = Len(b) + 1 THEN [ok |-> TRUE, items |-> <<>>]
        ELSE LET q == NextNewline(b, p) IN
             IF q > Len(b) \/ q # p + 1 \/ ~IsObject(b[p]) THEN Failed
             ELSE LET n == PayloadLength(b, q + 1, b[p]) IN
                  IF n < 0 \/ n > Len(b) - q THEN Failed
                  ELSE LET rest == parse[SkipNewlines(b, q + 1 + n)]
                           item == [header |-> b[p], payload |-> SubSeq(b, q + 1, q + n)]
                       IN  IF rest.ok
                             THEN [ok |-> TRUE, items |-> <<item>> \o rest.items]
                             ELSE Failed
  IN  parse[start]

deserialize_into(b) ==
  LET q == NextNewline(b, 1)
  IN  IF b = <<>> \/ q # 2 \/ ~IsObject(b[1]) THEN Failed
      ELSE ItemsFrom(b, IF q > Len(b) THEN q ELSE q + 1)

=============================================================================
