----------------------------- MODULE ProtoCodec -----------------------------
(***************************************************************************)
(* The wire format of the trace payload: the generated protobuf code of    *)
(* Span, APITrace and TracePayload.  Every field has the same few lines of *)
(* code, so that a message is described by the table of its fields: the    *)
(* byte that MarshalTo writes before the field, the number and the wire    *)
(* type that Unmarshal expects, and its kind.                              *)
(*                                                                         *)
(* A message is a record, a string a sequence of bytes, a map the sequence *)
(* of its entries in the order in which it is iterated over.  int64 has    *)
(* Width bits, int32 half of them; a float64 is its FixedBytes bytes.      *)
(* Nothing is said of lengths that wrap around an index: no encoder writes *)
(* them.                                                                   *)
(***************************************************************************)
EXTENDS Integers, Sequences, SequencesExt

CONSTANTS
    Width,          \* bits of uint64 and int64
    FixedBytes      \* bytes of a float64

U64(v) == v % 2^Width
S64(v) == IF v >= 2^(Width - 1) THEN v - 2^Width ELSE v
S32(v) == LET half == Width \div 2
              w == v % 2^half
          IN  IF w >= 2^(half - 1) THEN w - 2^half ELSE w

-----------------------------------------------------------------------------
(* The messages.                                                            *)

Field(num, tag, wire, name, kind) ==
    [num |-> num, tag |-> tag, wire |-> wire, name |-> name, kind |-> kind, of |-> <<>>]

SpanFields ==
    << Field(1, 10, 2, "service", "string"),
       Field(2, 18, 2, "name", "string"),
       Field(3, 26, 2, "resource", "string"),
       Field(4, 32, 0, "traceID", "uint64"),
       Field(5, 40, 0, "spanID", "uint64"),
       Field(6, 48, 0, "parentID", "uint64"),
       Field(7, 56, 0, "start", "int64"),
       Field(8, 64, 0, "duration", "int64"),
       Field(9, 72, 0, "error", "int32"),
       Field(10, 82, 2, "meta", "meta"),
       Field(11, 90, 2, "metrics", "metrics"),
       Field(12, 98, 2, "type", "string") >>

APITraceFields ==
    << Field(1, 8, 0, "traceID", "uint64"),
       [Field(2, 18, 2, "spans", "message") EXCEPT !.of = SpanFields],
       Field(6, 48, 0, "startTime", "int64"),
       Field(7, 56, 0, "endTime", "int64") >>

TracePayloadFields ==
    << Field(1, 10, 2, "hostName", "string"),
       Field(2, 18, 2, "env", "string"),
       [Field(3, 26, 2, "traces", "message") EXCEPT !.of = APITraceFields],
       [Field(4, 34, 2, "transactions", "message") EXCEPT !.of = SpanFields] >>

\* The zero value of a message.
Empty(fields) ==
    [name \in {fields[i].name : i \in DOMAIN fields} |->
        LET f == fields[CHOOSE i \in DOMAIN fields : fields[i].name = name]
        IN  IF f.wire = 0 THEN 0 ELSE <<>>]

-----------------------------------------------------------------------------
(* Size and MarshalTo.                                                      *)

Sum(s) == FoldLeft(LAMBDA a, b : a + b, 0, s)

RECURSIVE Sov(_)
Sov(x) == IF x \div 128 = 0 THEN 1 ELSE 1 + Sov(x \div 128)

\* The length of a string and of what precedes it.
SizeOfBytes(n) == 1 + n + Sov(n)

MetaSize(e) == SizeOfBytes(Len(e[1])) + SizeOfBytes(Len(e[2]))
MetricsSize(e) == SizeOfBytes(Len(e[1])) + 1 + FixedBytes

\* A negative number is taken for a small one.
SizeSignedVarint(v) == IF v < 0 THEN 1 ELSE Sov(v)
SizeVarint(v) == Sov(U64(v))

RECURSIVE Size(_, _)
Size(fields, m) ==
    LET SizeOf(f) ==
            LET v == m[f.name] IN
            CASE f.kind = "string" -> IF v = <<>> THEN 0 ELSE SizeOfBytes(Len(v))
              [] f.wire = 0 -> IF v = 0 THEN 0 ELSE 1 + SizeVarint(v)
              [] f.kind = "meta" -> Sum([i \in DOMAIN v |-> SizeOfBytes(MetaSize(v[i]))])
              [] f.kind = "metrics" ->
                    Sum([i \in DOMAIN v |-> SizeOfBytes(MetricsSize(v[i]))])
              [] f.kind = "message" ->
                    Sum([i \in DOMAIN v |-> SizeOfBytes(Size(f.of, v[i]))])
    IN  Sum([i \in DOMAIN fields |-> SizeOf(fields[i])])

RECURSIVE EncodeVarint(_)
EncodeVarint(v) ==
    IF v >= 128 THEN <<(v % 128) + 128>> \o EncodeVarint(v \div 128) ELSE <<v>>

EncodeBytes(tag, s) == <<tag>> \o EncodeVarint(Len(s)) \o s

EncodeFixed64(v) == [i \in 1 .. FixedBytes |-> (v \div 2^(8 * (i - 1))) % 256]

RECURSIVE MarshalTo(_, _)
MarshalTo(fields, m) ==
    LET Entry(f, size) == <<f.tag>> \o EncodeVarint(size)
        Encode(f) ==
            LET v == m[f.name] IN
            CASE f.kind = "string" -> IF v = <<>> THEN <<>> ELSE EncodeBytes(f.tag, v)
              [] f.wire = 0 -> IF v = 0 THEN <<>> ELSE <<f.tag>> \o EncodeVarint(U64(v))
              [] f.kind = "meta" ->
                    FlattenSeq([i \in DOMAIN v |->
                        Entry(f, MetaSize(v[i])) \o EncodeBytes(10, v[i][1])
                            \o EncodeBytes(18, v[i][2])])
              [] f.kind = "metrics" ->
                    FlattenSeq([i \in DOMAIN v |->
                        Entry(f, MetricsSize(v[i])) \o EncodeBytes(10, v[i][1])
                            \o <<17>> \o EncodeFixed64(v[i][2])])
              [] f.kind = "message" ->
                    FlattenSeq([i \in DOMAIN v |->
                        Entry(f, Size(f.of, v[i])) \o MarshalTo(f.of, v[i])])
    IN  FlattenSeq([i \in DOMAIN fields |-> Encode(fields[i])])

-----------------------------------------------------------------------------
(* Unmarshal.  A read returns an error, or a value and the place after it.  *)

Ok(v, at) == [err |-> "", v |-> v, at |-> at]
Fail(err) == [err |-> err, v |-> 0, at |-> 0]
Then(r, Op(_)) == IF r.err = "" THEN Op(r) ELSE r

RECURSIVE ReadShifted(_, _, _, _)
ReadShifted(data, i, shift, v) ==
    CASE shift >= Width -> Fail("overflow")
      [] shift < Width /\ i > Len(data) -> Fail("EOF")
      [] OTHER ->
            LET w == U64(v + (data[i] % 128) * 2^shift)
            IN  IF data[i] < 128 THEN Ok(w, i + 1)
                                 ELSE ReadShifted(data, i + 1, shift + 7, w)
ReadVarint(data, i) == ReadShifted(data, i, 0, 0)

ReadNumber(kind, data, i) ==
    Then(ReadVarint(data, i), LAMBDA n :
        Ok(CASE kind = "uint64" -> n.v [] kind = "int64" -> S64(n.v) [] kind = "int32" -> S32(n.v),
           n.at))

\* A length that fits in the data.
ReadLength(data, i) ==
    Then(ReadVarint(data, i), LAMBDA n :
        CASE S64(n.v) < 0 -> Fail("invalid length")
          [] n.at + n.v > Len(data) + 1 -> Fail("EOF")
          [] OTHER -> n)

\* As much of the string as there is.
ReadBytesLeft(data, i) ==
    Then(ReadVarint(data, i), LAMBDA n :
        LET last == IF n.at + n.v - 1 > Len(data) THEN Len(data) ELSE n.at + n.v - 1
        IN  Ok(SubSeq(data, n.at, last), last + 1))
ReadBytes(data, i) ==
    Then(ReadLength(data, i), LAMBDA n :
        Ok(SubSeq(data, n.at, n.at + n.v - 1), n.at + n.v))

ReadFixed64(data, i) ==
    IF i + FixedBytes > Len(data) + 1 THEN Fail("EOF")
    ELSE Ok(Sum([k \in 1 .. FixedBytes |-> data[i + k - 1] * 2^(8 * (k - 1))]),
            i + FixedBytes)

\* Entries of a map; a value that is left out is the zero value.
ReadMeta(data, i) ==
    Then(ReadLength(data, i), LAMBDA n :
    Then(ReadVarint(data, n.at), LAMBDA keyTag :
    Then(ReadBytes(data, keyTag.at), LAMBDA key :
        IF key.at >= n.at + n.v THEN Ok(<<key.v, <<>> >>, n.at + n.v)
        ELSE Then(ReadVarint(data, key.at), LAMBDA valueTag :
             Then(ReadBytes(data, valueTag.at), LAMBDA value :
                Ok(<<key.v, value.v>>, n.at + n.v))))))

ReadMetrics(data, i) ==
    Then(ReadLength(data, i), LAMBDA n :
    Then(ReadVarint(data, n.at), LAMBDA keyTag :
    Then(ReadBytes(data, keyTag.at), LAMBDA key :
        IF key.at >= n.at + n.v THEN Ok(<<key.v, 0>>, n.at + n.v)
        ELSE Then(ReadVarint(data, key.at), LAMBDA valueTag :
             Then(ReadFixed64(data, valueTag.at), LAMBDA value :
                Ok(<<key.v, value.v>>, n.at + n.v))))))

\* The field at i, whatever it is, ends where Skip says; the caller checks that
\* this is within the data.
RECURSIVE Skip(_, _)
Skip(data, i) ==
    LET RECURSIVE Group(_)
        Group(at) ==
            Then(ReadVarint(data, at), LAMBDA w :
                IF w.v % 8 = 4 THEN Ok(0, w.at)
                ELSE Then(Skip(data, at), LAMBDA s : Group(s.at)))
    IN  IF i > Len(data) THEN Fail("panic") ELSE
        Then(ReadVarint(data, i), LAMBDA w :
        CASE w.v % 8 = 0 -> ReadVarint(data, w.at)
          [] w.v % 8 = 1 -> Ok(0, w.at + FixedBytes)
          [] w.v % 8 = 2 -> Then(ReadVarint(data, w.at), LAMBDA n :
                                IF S64(n.v) < 0 THEN Fail("invalid length")
                                ELSE Ok(0, n.at + n.v))
          [] w.v % 8 = 3 -> Group(w.at)
          [] w.v % 8 = 4 -> Ok(0, w.at)
          [] w.v % 8 = 5 -> Ok(0, w.at + 4)
          [] OTHER -> Fail("illegal wireType"))

SkipUnknown(data, i) ==
    Then(Skip(data, i), LAMBDA s : IF s.at > Len(data) + 1 THEN Fail("EOF") ELSE s)

\* A repeated field grows, an entry of a map replaces the one with its key, and
\* any other field is overwritten.
Assign(m, f, v) ==
    CASE f.kind = "message" -> [m EXCEPT ![f.name] = Append(@, v)]
      [] f.kind \in {"meta", "metrics"} ->
            [m EXCEPT ![f.name] = Append(SelectSeq(@, LAMBDA e : e[1] # v[1]), v)]
      [] OTHER -> [m EXCEPT ![f.name] = v]

RECURSIVE Unmarshal(_, _)
Unmarshal(fields, data) ==
    LET Read(f, i) ==
            CASE f.kind = "string" -> ReadBytes(data, i)
              [] f.wire = 0 -> ReadNumber(f.kind, data, i)
              [] f.kind = "meta" -> ReadMeta(data, i)
              [] f.kind = "metrics" -> ReadMetrics(data, i)
              [] f.kind = "message" ->
                    Then(ReadBytes(data, i), LAMBDA r :
                    Then(Unmarshal(f.of, r.v), LAMBDA sub : Ok(sub.v, r.at)))
        RECURSIVE Loop(_, _)
        Loop(i, m) ==
            IF i > Len(data) THEN Ok(m, i) ELSE
            Then(ReadVarint(data, i), LAMBDA w :
            LET num == S32(w.v \div 8)
                known == {k \in DOMAIN fields : fields[k].num = num}
                f == fields[CHOOSE k \in known : TRUE]
            IN  CASE w.v % 8 = 4 -> Fail("end group")
                  [] w.v % 8 # 4 /\ num <= 0 -> Fail("illegal tag")
                  [] w.v % 8 # 4 /\ num > 0 /\ known = {} ->
                        Then(SkipUnknown(data, i), LAMBDA s : Loop(s.at, m))
                  [] OTHER ->
                        IF w.v % 8 # f.wire THEN Fail("wrong wireType")
                        ELSE Then(Read(f, w.at), LAMBDA r : Loop(r.at, Assign(m, f, r.v))))
    IN  Loop(1, Empty(fields))

-----------------------------------------------------------------------------
(* The other two messages; their code differs from that of Span in names.   *)

SizeAPITrace(m) == Size(APITraceFields, m)
MarshalAPITrace(m) == MarshalTo(APITraceFields, m)
UnmarshalAPITrace(data) == Unmarshal(APITraceFields, data)

SizeTracePayload(m) == Size(TracePayloadFields, m)
MarshalTracePayload(m) == MarshalTo(TracePayloadFields, m)
UnmarshalTracePayload(data) == Unmarshal(TracePayloadFields, data)
=============================================================================
