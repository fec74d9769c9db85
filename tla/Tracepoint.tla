----------------------------- MODULE Tracepoint -----------------------------
(***************************************************************************)
(* TracepointDef (perf-self-profile/src/tracepoint.rs): the fields that a  *)
(* kernel's format file describes, what is read from the raw bytes of a    *)
(* sample, and the fields of the schema that it is to be encoded with.     *)
(***************************************************************************)
EXTENDS Integers, Sequences, FiniteSetsExt

CONSTANT Byte   \* the values of a byte, 256 in the code

ASSUME ByteAssumption == Byte \in Nat \ {0, 1}

Missing == -1      \* what is not a number
Error == [ok |-> FALSE]
Ok(values) == [ok |-> TRUE, values |-> values]

-----------------------------------------------------------------------------
(* The format file, a sequence of lines *)

\* A line is a name, an ID or a field; what is not a number is Missing.  A field whose
\* data is elsewhere in the record has four bytes to say where.
FieldLine(sizes, dynamic) ==
    [key : {"field"}, offset : Nat \union {Missing}, size : sizes \union {Missing}, signed : BOOLEAN,
     chars : BOOLEAN, dynamic : {dynamic}, common : BOOLEAN]
Line == [key : {"name"}, value : STRING] \union [key : {"ID"}, value : Nat \union {Missing}]
        \union FieldLine(Nat, FALSE) \union FieldLine({4}, TRUE)

\* what a sequence has of a set, in its order
filter(seq, kept) ==
    LET among[n \in 0 .. Len(seq)] ==
            IF n = 0 THEN <<>> ELSE IF seq[n] \in kept THEN Append(among[n - 1], seq[n]) ELSE among[n - 1]
    IN  among[Len(seq)]

\* A line whose offset or size is not a number is no field.
parse_field_line(line) == line.key = "field" /\ Missing \notin {line.offset, line.size}

\* The last name and ID count; the fields of the kernel's bookkeeping do not.
parse_format(lines) ==
    LET with(key) == {i \in DOMAIN lines : lines[i].key = key}
        last(key) == lines[Max(with(key))].value
        own == {i \in with("field") : parse_field_line(lines[i]) /\ ~lines[i].common}
    IN  IF \E i \in with("ID") : lines[i].value = Missing THEN Error
        ELSE IF with("name") = {} \/ with("ID") = {} THEN Error
        ELSE IF last("name") = "" \/ last("ID") = 0 THEN Error
        ELSE [ok |-> TRUE, name |-> last("name"), id |-> last("ID"), fields |-> filter(lines, {lines[i] : i \in own})]

-----------------------------------------------------------------------------
(* Values *)

\* how many numbers there are of so many bytes
Numbers[n \in 0 .. 8] == IF n = 0 THEN 1 ELSE Byte * Numbers[n - 1]

\* little-endian: the last byte counts most
Unsigned(bytes) ==
    LET upper[n \in 0 .. Len(bytes)] == IF n = 0 THEN 0 ELSE Byte * upper[n - 1] + bytes[Len(bytes) + 1 - n]
    IN  upper[Len(bytes)]
TwosComplement(bytes) ==
    LET n == Unsigned(bytes) IN IF 2 * n >= Numbers[Len(bytes)] THEN n - Numbers[Len(bytes)] ELSE n

nul_terminated_str(bytes) ==
    LET nuls == {i \in DOMAIN bytes : bytes[i] = 0}
    IN  IF nuls = {} THEN bytes ELSE SubSeq(bytes, 1, Min(nuls) - 1)

\* variant: a signed field is read as an unsigned one
extract_field_value_unsigned(bytes, field) ==
    CASE field.chars -> [type |-> "Str", value |-> nul_terminated_str(bytes)]
      [] ~field.chars /\ field.size \in {1, 2, 4, 8} ->
            [type |-> IF field.signed THEN "I" ELSE "U", value |-> Unsigned(bytes)]
      [] OTHER -> [type |-> "Bytes", value |-> bytes]

extract_field_value(bytes, field) ==
    CASE field.chars -> [type |-> "Str", value |-> nul_terminated_str(bytes)]
      [] ~field.chars /\ field.size \in {1, 2, 4, 8} ->
            IF field.signed THEN [type |-> "I", value |-> TwosComplement(bytes)]
                            ELSE [type |-> "U", value |-> Unsigned(bytes)]
      [] OTHER -> [type |-> "Bytes", value |-> bytes]

Part(raw, offset, size) == SubSeq(raw, offset + 1, offset + size)

\* the upper half of a __data_loc field is where the data is, the lower half how long
DataOffset(raw, field) == Unsigned(Part(raw, field.offset + 2, 2))
DataLength(raw, field) == Unsigned(Part(raw, field.offset, 2))

Readable(raw, field) ==
    /\ field.offset + field.size <= Len(raw)
    /\ field.dynamic => DataOffset(raw, field) + DataLength(raw, field) <= Len(raw)

\* A field that is not readable fails the whole.
extract_fields(def, raw) ==
    IF \E i \in DOMAIN def.fields : ~Readable(raw, def.fields[i]) THEN Error
    ELSE Ok([i \in DOMAIN def.fields |->
            LET f == def.fields[i]
            IN  IF f.dynamic
                THEN [type |-> "Str", value |-> nul_terminated_str(Part(raw, DataOffset(raw, f), DataLength(raw, f)))]
                ELSE extract_field_value(Part(raw, f.offset, f.size), f)])

-----------------------------------------------------------------------------
(* The trace format *)

kernel_type_to_field_type(field) ==
    CASE field.chars -> "String"
      [] ~field.chars /\ field.size \in 1 .. 8 -> IF field.signed THEN "I64" ELSE "Varint"
      [] OTHER -> "Bytes"
kernel_field_to_trace_format(field) ==
    IF field.dynamic THEN "String" ELSE kernel_type_to_field_type(field)
to_trace_format_fields(def) == [i \in DOMAIN def.fields |-> kernel_field_to_trace_format(def.fields[i])]

raw_to_trace_format_value(v) ==
    [type |-> CASE v.type = "U" -> "Varint" [] v.type = "I" -> "I64" [] v.type = "Str" -> "String" [] OTHER -> "Bytes",
     value |-> v.value]
to_trace_format_values(extracted) == [i \in DOMAIN extracted |-> raw_to_trace_format_value(extracted[i])]

\* what encode_raw gives the encoder
encode_raw(def, raw) ==
    LET extracted == extract_fields(def, raw)
    IN  IF extracted = Error THEN Error ELSE Ok(to_trace_format_values(extracted.values))
=============================================================================
