------------------------------- MODULE MCModel -------------------------------
(* Traces of up to three spans with any parents, traces with spans that the    *)
(* client has marked as top-level, deep trees, traces that are not accepted;  *)
(* and messages to encode.                                                    *)
EXTENDS TraceModel

CONSTANTS Services, DeepSize, WireWidth, FixedBytes

VARIABLES message, wire

Codec == INSTANCE ProtoCodec WITH Width <- WireWidth

mcVars == <<modelVars, message, wire>>

-----------------------------------------------------------------------------
Times == {<<0, 4>>, <<1, 2>>, <<3, 5>>, <<4, 31>>}

\* Traces of n spans; parents n + 1 and n + 2 are not in the trace, and
\* trace id 3 may make the third span a root of Zipkin.
Rich(n) ==
    {[i \in 1 .. n |-> Span(3, i, p[i], s[i], IF s[i] = s[n] THEN "" ELSE "web",
                            d[i][1], d[i][2], TRUE)] :
        p \in [1 .. n -> 0 .. n + 2],
        s \in {f \in [1 .. n -> Services] : f[1] = "a"},
        d \in {f \in [1 .. n -> Times] : f[1] \in {<<0, 4>>, <<3, 5>>}}}

\* Trees in which every span is an entry.
Deep ==
    {[i \in 1 .. DeepSize |-> Span(1, i, p[i], ToString(i), "web", i, DeepSize - (i \div 2), TRUE)] :
        p \in {q \in [1 .. DeepSize -> 0 .. DeepSize - 1] : \A i \in 1 .. DeepSize : q[i] < i /\ (i > 1 => q[i] > 0)}}

\* Spans that a client has marked, below a parent of their service and not.
Marked3 ==
    {[i \in 1 .. 3 |-> LET s == Span(1, i, p[i], v[i], "web", 1, 4, TRUE)
                       IN  IF i \in marks THEN MarkedByClient(s) ELSE s] :
        p \in [1 .. 3 -> 0 .. 4],
        v \in {f \in [1 .. 3 -> Services] : f[1] = "a"},
        marks \in (SUBSET (1 .. 3)) \ {{}}}

Good == Span(1, 1, 0, "a", "web", 1, 1, TRUE)
Bad == {<<>>} \union
       {<<Good, s>> : s \in {[Good EXCEPT !.id = 0], Good,
                             [Good EXCEPT !.traceID = 2, !.id = 2],
                             [Good EXCEPT !.id = 2, !.service = ""],
                             [Good EXCEPT !.id = 2, !.proper = FALSE],
                             [Good EXCEPT !.id = 2, !.start = -1],
                             [Good EXCEPT !.id = 2, !.duration = 0],
                             [Good EXCEPT !.id = 2, !.duration = 30]}}

MCInputs == Rich(1) \union Rich(2) \union Rich(3) \union Marked3 \union Deep \union Bad

-----------------------------------------------------------------------------
Long == [i \in 1 .. 130 |-> 1]
WireSpans ==
    {[Codec!Empty(Codec!SpanFields) EXCEPT
        !.service = service, !.traceID = id, !.parentID = 1, !.start = start, !.error = error,
        !.meta = meta, !.metrics = metrics] :
        service \in {<<>>, <<1>>},
        id \in {0, 128, 2^WireWidth - 1},
        start \in {0, -1},
        error \in {0, -2},
        meta \in {<<>>, << <<<<1>>, <<>> >>, <<<<2>>, <<3>> >> >>},
        metrics \in {<<>>, << <<<<4>>, 513>> >>}}

Sample == [Codec!Empty(Codec!SpanFields) EXCEPT !.service = <<6>>, !.duration = -1]
Traces ==
    {[Codec!Empty(Codec!APITraceFields) EXCEPT !.traceID = 1, !.spans = spans, !.endTime = end] :
        spans \in {<<>>, <<Sample>>, <<Sample, Codec!Empty(Codec!SpanFields)>>}, end \in {0, -1}}
Wrapped == [Codec!Empty(Codec!APITraceFields) EXCEPT !.traceID = 1, !.spans = <<Sample>>]
Payloads ==
    {[Codec!Empty(Codec!TracePayloadFields) EXCEPT !.env = env, !.traces = traces, !.transactions = spans] :
        env \in {<<>>, Long},
        traces \in {<<>>, <<Wrapped>>, <<Wrapped, Wrapped>>},
        spans \in {<<>>, <<Sample>>}}

Messages ==
    [of : {"Span"}, m : WireSpans] \union [of : {"APITrace"}, m : Traces]
        \union [of : {"TracePayload"}, m : Payloads]

SizeOf(of, m) ==
    CASE of = "Span" -> Codec!Size(Codec!SpanFields, m)
      [] of = "APITrace" -> Codec!SizeAPITrace(m)
      [] of = "TracePayload" -> Codec!SizeTracePayload(m)
MarshalOf(of, m) ==
    CASE of = "Span" -> Codec!MarshalTo(Codec!SpanFields, m)
      [] of = "APITrace" -> Codec!MarshalAPITrace(m)
      [] of = "TracePayload" -> Codec!MarshalTracePayload(m)
UnmarshalOf(of, data) ==
    CASE of = "Span" -> Codec!Unmarshal(Codec!SpanFields, data)
      [] of = "APITrace" -> Codec!UnmarshalAPITrace(data)
      [] of = "TracePayload" -> Codec!UnmarshalTracePayload(data)

\* Fields of a later version: one of each wire type, and a group in a group.
Unknown == {<<120, 200, 1>>, <<121>> \o [i \in 1 .. FixedBytes |-> 255],
            <<122, 2, 8, 200>>, <<125, 1, 2, 3, 4>>, <<123, 120, 7, 123, 124, 122, 0, 124>>}

MCInit ==
    \/ ModelInit /\ message = <<>> /\ wire = <<>>
    \/ /\ message \in Messages
       /\ t = NoTrace /\ pc = "marshal" /\ root = 0 /\ next = <<>> /\ heap = <<>>
       /\ visited = {} /\ subtraces = <<>> /\ sublayers = <<>> /\ wire = <<>>

Marshal ==
    /\ pc = "marshal"
    /\ wire' = MarshalOf(message.of, message.m)
    /\ pc' = "wire"
    /\ UNCHANGED <<t, root, next, heap, visited, subtraces, sublayers, message>>

MCNext == (ModelNext /\ UNCHANGED <<message, wire>>) \/ Marshal

MCSpec == MCInit /\ [][MCNext]_mcVars

-----------------------------------------------------------------------------
\* The generated Size of a message is the number of bytes MarshalTo writes, on
\* which the lengths of nested messages rest, and Unmarshal gives the message
\* back: negative numbers, long strings, maps and nested messages included, and
\* whatever fields it does not know come before or after, of any wire type and
\* with groups inside groups, which its skip function passes over.  Data cut short
\* is refused, unless it ends between two fields: what Unmarshal accepts of it is
\* exactly the encoding of what it returns.
RoundTrip ==
    pc = "wire" =>
        /\ Len(wire) = SizeOf(message.of, message.m)
        /\ \A u \in {<<>>} \union Unknown : \A data \in {u \o wire, wire \o u} :
            UnmarshalOf(message.of, data) = Codec!Ok(message.m, Len(data) + 1)
        /\ \A n \in 0 .. Len(wire) :
            LET part == SubSeq(wire, 1, n)
                r == UnmarshalOf(message.of, part)
            IN  r.err = "" => MarshalOf(message.of, r.v) = part
=============================================================================
