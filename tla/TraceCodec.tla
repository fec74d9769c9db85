----------------------------- MODULE TraceCodec -----------------------------
(***************************************************************************)
(* The wire format of a trace (dial9-trace-format/src: codec.rs, types.rs, *)
(* leb128.rs).  A stream is a sequence of numbers: one per fixed-width     *)
(* integer, per byte of a text and per byte of a varint.  Frames carry no  *)
(* length: a frame ends where its parts do.                                *)
(***************************************************************************)
EXTENDS Naturals, Sequences, SequencesExt

CONSTANTS
    Radix,       \* a byte of a varint carries a digit to this base; 128
    VarintLen,   \* the longest varint; 10
    Width,       \* the values of a u64; 2^64
    MaxDelta     \* MAX_TIMESTAMP_DELTA_NS

\* the powers of Radix
Power[k \in 0 .. VarintLen] == IF k = 0 THEN 1 ELSE Radix * Power[k - 1]

ASSUME CodecAssumption ==
    /\ Radix \in Nat \ {0, 1} /\ VarintLen \in Nat \ {0} /\ Width \in Nat /\ MaxDelta \in Nat
    /\ Width <= Power[VarintLen] /\ MaxDelta < Width

MAGIC == 84
VERSION == 1
Header == <<MAGIC, VERSION>>

TAG_SCHEMA == 1
TAG_EVENT == 2
TAG_STRING_POOL == 3
TAG_TIMESTAMP_RESET == 5

\* FieldType and its tags
I64 == 1
F64 == 2
Bool == 3
String == 4
Bytes == 5
PooledString == 7
StackFrames == 8
Varint == 9
StringMap == 10
U8 == 11
U16 == 12
U32 == 13
FieldTypes == {I64, F64, U8, U16, U32, Bool, String, Bytes, PooledString, StackFrames, Varint, StringMap}

\* a byte that is not UTF-8, and what from_utf8_lossy puts in its place
NotUtf8 == 255
Replacement == 63
Utf8(text) == \A i \in DOMAIN text : text[i] # NotUtf8
Lossy(text) == [i \in DOMAIN text |-> IF text[i] = NotUtf8 THEN Replacement ELSE text[i]]

\* FieldValue: what a field of a type holds, and the strings of a program
Texts == {text \in Seq(Nat) : Utf8(text)}
FieldValues(type) ==
    CASE type = Varint -> {<<n>> : n \in 0 .. Width - 1}
      [] type = Bool -> {<<0>>, <<1>>}
      [] type = String -> Texts
      [] type = Bytes -> Seq(Nat)
      [] type = StackFrames -> Seq(0 .. Width - 1)
      [] type = StringMap -> Seq(Seq(Nat) \X Seq(Nat))
      [] OTHER -> {v \in Seq(Nat) : Len(v) = 1}

-----------------------------------------------------------------------------
(* Encoding *)

Digit(v, i) == (v \div Power[i - 1]) % Radix

encode_unsigned(v) ==
    LET n == CHOOSE k \in 1 .. VarintLen : v < Power[k] /\ (k = 1 \/ v >= Power[k - 1])
    IN  [i \in 1 .. n |-> Digit(v, i) + IF i < n THEN Radix ELSE 0]

LengthPrefixed(text) == <<Len(text)>> \o text

\* A value is the sequence of its numbers; the value of a map is one of pairs.
encode(type, value) ==
    CASE type = Varint -> encode_unsigned(value[1])
      [] type \in {String, Bytes, StackFrames} -> LengthPrefixed(value)
      [] type = StringMap ->
            <<Len(value)>> \o FlattenSeq([i \in DOMAIN value |->
                LengthPrefixed(value[i][1]) \o LengthPrefixed(value[i][2])])
      [] OTHER -> value

encode_schema(id, entry) ==
    <<TAG_SCHEMA, id, entry.name, IF entry.has_timestamp THEN 1 ELSE 0>>
        \o LengthPrefixed(entry.fields)

encode_event(id, delta, entry, values) ==
    <<TAG_EVENT, id, delta>> \o FlattenSeq([i \in DOMAIN values |-> encode(entry.fields[i], values[i])])

encode_string_pool(id, text) == <<TAG_STRING_POOL, 1, id>> \o LengthPrefixed(text)

-----------------------------------------------------------------------------
(* Decoding: of data, after the first pos numbers *)

Some(v, pos) == [res |-> "some", v |-> v, pos |-> pos]
None == [res |-> "none"]
Panic == [res |-> "panic"]

Has(data, pos, n) == pos + n <= Len(data)
Slice(data, pos, n) == IF Has(data, pos, n) THEN Some(SubSeq(data, pos + 1, pos + n), pos + n) ELSE None
AndThen(r, F(_)) == IF r.res = "some" THEN F(r) ELSE r

\* a loop over 1 .. n; FoldLeft of the community modules would go through all subsets
Loop(op(_, _), base, n) ==
    LET after[i \in 0 .. n] == IF i = 0 THEN base ELSE op(after[i - 1], i)
    IN  after[n]

\* n times a parser, each after the one before
Repeat(n, P(_, _), pos) ==
    LET one(acc, i) ==
            AndThen(acc, LAMBDA a : AndThen(P(i, a.pos), LAMBDA r : Some(Append(a.v, r.v), r.pos)))
    IN  Loop(one, Some(<<>>, pos), n)

decode_unsigned(data, pos) ==
    LET ends == {k \in 1 .. VarintLen : Has(data, pos, k) /\ data[pos + k] < Radix}
        n == CHOOSE k \in ends : \A j \in ends : k <= j
        add(sum, i) == (sum + (data[pos + i] % Radix) * Power[i - 1]) % Width
    IN  IF ends = {} THEN None ELSE Some(<<Loop(add, 0, n)>>, pos + n)

Text(data, pos) == AndThen(Slice(data, pos, 1), LAMBDA r : Slice(data, r.pos, r.v[1]))

\* a count, then keys and values, each with its length
decode_map(data, pos) ==
    LET pair(i, p) == AndThen(Text(data, p), LAMBDA k :
                   AndThen(Text(data, k.pos), LAMBDA v : Some(<<k.v, v.v>>, v.pos)))
    IN  AndThen(Slice(data, pos, 1), LAMBDA r : Repeat(r.v[1], pair, r.pos))

\* where a map ends, by the lengths alone
map_end(data, pos) ==
    LET skip(p) == AndThen(Slice(data, p, 1), LAMBDA r : Some(<<>>, r.pos + r.v[1]))
        pair(i, p) == AndThen(skip(p), LAMBDA k : skip(k.pos))
    IN  AndThen(Slice(data, pos, 1), LAMBDA r : Repeat(r.v[1], pair, r.pos))

\* A reference takes the slice up to that end unchecked; its pairs are decoded as they
\* are asked for.
decode_map_ref(data, pos) ==
    AndThen(map_end(data, pos), LAMBDA r : IF r.pos > Len(data) THEN Panic ELSE decode_map(data, pos))

\* what the two have in common; a text is left to them
decode_plain(type, data, pos) ==
    CASE type = Varint -> decode_unsigned(data, pos)
      [] type \in {Bytes, StackFrames, String} -> Text(data, pos)
      [] type = Bool -> AndThen(Slice(data, pos, 1), LAMBDA r : Some(<<IF r.v[1] = 0 THEN 0 ELSE 1>>, r.pos))
      [] OTHER -> Slice(data, pos, 1)

\* FieldValue::decode
decode_owned(type, data, pos) ==
    CASE type = String -> AndThen(Text(data, pos), LAMBDA r : Some(Lossy(r.v), r.pos))
      [] type = StringMap -> decode_map(data, pos)
      [] OTHER -> decode_plain(type, data, pos)

\* FieldValueRef::decode
decode_ref(type, data, pos) ==
    CASE type = String -> AndThen(Text(data, pos), LAMBDA r : IF Utf8(r.v) THEN r ELSE None)
      [] type = StringMap -> decode_map_ref(data, pos)
      [] OTHER -> decode_plain(type, data, pos)

decode_schema_frame(data, pos) ==
    AndThen(Slice(data, pos, 3), LAMBDA h :
    AndThen(Text(data, h.pos), LAMBDA f :
        IF \A i \in DOMAIN f.v : f.v[i] \in FieldTypes
        THEN Some([kind |-> "schema", id |-> h.v[1],
                   entry |-> [name |-> h.v[2], has_timestamp |-> h.v[3] # 0, fields |-> f.v]], f.pos)
        ELSE None))

\* the values of an event, one behind the other
FieldsOf(F(_, _, _), fields, data, pos) ==
    LET field(n, p) == F(fields[n], data, p) IN Repeat(Len(fields), field, pos)

\* The timestamp is the base plus the delta; whether the sum is checked depends on
\* the reader.
EventFrame(F(_, _, _), checked, data, pos, reg, base) ==
    AndThen(Slice(data, pos, 1), LAMBDA i :
    IF i.v[1] \notin DOMAIN reg THEN None ELSE
    LET entry == reg[i.v[1]]
        delta == IF entry.has_timestamp THEN Slice(data, i.pos, 1) ELSE Some(<<0>>, i.pos)
    IN  AndThen(delta, LAMBDA d :
        IF checked /\ base + d.v[1] >= Width THEN None ELSE
        AndThen(FieldsOf(F, entry.fields, data, d.pos), LAMBDA f :
            Some([kind |-> "event", id |-> i.v[1], entry |-> entry, values |-> f.v,
                  ts |-> IF entry.has_timestamp THEN (base + d.v[1]) % Width ELSE base], f.pos))))

decode_event_frame(data, pos, reg, base) == EventFrame(decode_owned, TRUE, data, pos, reg, base)
decode_event_frame_ref(data, pos, reg, base) == EventFrame(decode_ref, TRUE, data, pos, reg, base)

\* PoolEntry: an id and its string
pool_entry(data, pos) ==
    AndThen(Slice(data, pos, 1), LAMBDA id :
    AndThen(Text(data, id.pos), LAMBDA t : Some([id |-> id.v[1], text |-> t.v], t.pos)))

decode_string_pool_frame(data, pos) ==
    LET pooled(i, p) == pool_entry(data, p)
    IN  AndThen(Slice(data, pos, 1), LAMBDA n :
        AndThen(Repeat(n.v[1], pooled, n.pos), LAMBDA r : Some([kind |-> "pool", entries |-> r.v], r.pos)))

decode_timestamp_reset(data, pos) ==
    AndThen(Slice(data, pos, 1), LAMBDA t : Some([kind |-> "reset", ts |-> t.v[1]], t.pos))

\* the frames without the events, which each reader decodes its own way
OtherFrame(data, pos) ==
    LET tag == data[pos + 1]
    IN  CASE tag = TAG_SCHEMA -> decode_schema_frame(data, pos + 1)
          [] tag = TAG_STRING_POOL -> decode_string_pool_frame(data, pos + 1)
          [] tag = TAG_TIMESTAMP_RESET -> decode_timestamp_reset(data, pos + 1)
          [] OTHER -> None

decode_frame(data, pos, reg, base) ==
    IF data[pos + 1] = TAG_EVENT THEN decode_event_frame(data, pos + 1, reg, base)
    ELSE OtherFrame(data, pos)

decode_frame_ref(data, pos, reg, base) ==
    IF data[pos + 1] = TAG_EVENT THEN decode_event_frame_ref(data, pos + 1, reg, base)
    ELSE OtherFrame(data, pos)

decode_header(data, pos) == Has(data, pos, 2) /\ data[pos + 1] = MAGIC
=============================================================================
