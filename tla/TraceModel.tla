----------------------------- MODULE TraceModel -----------------------------
(***************************************************************************)
(* What happens to one trace between the receiver and the writer: it is    *)
(* normalized, its root is found, its top-level spans are marked, the      *)
(* subtrace of every top-level span is extracted by a depth-first search   *)
(* over slices that share memory, and the time of every subtrace is        *)
(* divided among its services and types.                                   *)
(*                                                                         *)
(* A trace is a sequence of spans and a pointer to a span is its position. *)
(* Names and tags are abstracted: "proper" says that the strings of a span *)
(* can be normalized.  The end of a span is an int64 and wraps.            *)
(*                                                                         *)
(* A duration is a sum of float64, every one of them rounded.  The exact   *)
(* sum is a multiple of 1 / Scale, since Scale is divided by every number  *)
(* of spans that can be active together; the one the code adds up is off   *)
(* by at most 1 / Precision of it, so that its cut to int64 is any integer *)
(* from a least to a most one.  The rounding of n additions of positive    *)
(* float64 leaves Precision above 2^52 / (n + 2).                          *)
(***************************************************************************)
EXTENDS Integers, Sequences, FiniteSets, FiniteSetsExt, SequencesExt, Functions

CONSTANTS
    Inputs,         \* the traces received
    MaxInt64,       \* math.MaxInt64
    Year2000,       \* Year2000NanosecTS
    Latest,         \* time.Now() + MaxEndDateOffset
    Scale,
    Precision

VARIABLES
    t,              \* the trace
    pc,
    root,
    next,           \* the stack: spans to visit, each with a slice of ancestors
    heap,           \* the arrays behind the slices of ancestors
    visited,
    subtraces,      \* subtracesMap: span -> sequence of spans
    sublayers       \* span -> the values of its subtrace

modelVars == <<t, pc, root, next, heap, visited, subtraces, sublayers>>

Spans == [traceID : Nat, id : Nat, parent : Nat, service : STRING, type : STRING,
          start : Int, duration : Int, proper : BOOLEAN, client : BOOLEAN, top : BOOLEAN]

\* The ids are unsigned, times are not.  A client may send a span that has the
\* metric of a top-level span already; "client" remembers it.
ASSUME InputsAssumption ==
    \A trace \in Inputs :
        trace \in Seq(Spans) /\ \A i \in DOMAIN trace : trace[i].top = trace[i].client

ASSUME TimesAssumption == MaxInt64 \in Nat /\ Year2000 \in Int /\ Latest \in Int

ASSUME ScaleAssumption ==
    /\ Scale \in Nat \ {0}
    /\ \A trace \in Inputs : \A n \in 1 .. Len(trace) : Scale % n = 0

ASSUME PrecisionAssumption == Precision \in Nat \ {0}

NoTrace == <<>>
Span(traceID, id, parent, service, type, start, duration, proper) ==
    [traceID |-> traceID, id |-> id, parent |-> parent, service |-> service,
     type |-> type, start |-> start, duration |-> duration, proper |-> proper,
     client |-> FALSE, top |-> FALSE]
MarkedByClient(s) == [s EXCEPT !.client = TRUE, !.top = TRUE]

ModelInit ==
    /\ t \in Inputs
    /\ pc = "normalize"
    /\ root = 0
    /\ next = <<>>
    /\ heap = <<>>
    /\ visited = {}
    /\ subtraces = <<>>
    /\ sublayers = <<>>

Wrap(v) == ((v + MaxInt64 + 1) % (2 * (MaxInt64 + 1))) - (MaxInt64 + 1)
End(s) == Wrap(s.start + s.duration)

-----------------------------------------------------------------------------
(* Normalization.                                                           *)

\* Span.Normalize fails.
Invalid(s) ==
    \/ s.service = ""
    \/ ~s.proper
    \/ s.start < Year2000
    \/ End(s) > Latest
    \/ s.duration <= 0

\* Zipkin marks a root by three equal ids.
Normalize(s) ==
    IF s.parent = s.traceID /\ s.parent = s.id THEN [s EXCEPT !.parent = 0] ELSE s

Rejects ==
    \/ t = NoTrace
    \/ \E i \in DOMAIN t :
        \/ t[i].traceID = 0
        \/ t[i].id = 0
        \/ \E j \in 1 .. i - 1 : t[j].id = t[i].id
        \/ t[i].traceID # t[1].traceID
        \/ Invalid(t[i])

NormalizeTrace ==
    /\ pc = "normalize"
    /\ IF Rejects
       THEN pc' = "rejected" /\ UNCHANGED t
       ELSE pc' = "root" /\ t' = [i \in DOMAIN t |-> Normalize(t[i])]
    /\ UNCHANGED <<root, next, heap, visited, subtraces, sublayers>>

-----------------------------------------------------------------------------
(* Root and top-level spans.                                                *)

Roots == {i \in DOMAIN t : t[i].parent = 0}
SpanIDs == {t[i].id : i \in DOMAIN t}

\* The parent ids that are left in parentIDToChild.
UnknownParentsNotDeleted == {t[i].parent : i \in DOMAIN t}
UnknownParents == {t[i].parent : i \in DOMAIN t} \ SpanIDs

\* Spans are put in the map from the last to the first.
FirstChildOf(id) == Min({i \in DOMAIN t : t[i].parent = id})

\* Iteration over a map starts anywhere.
GetRoot ==
    /\ pc = "root"
    /\ root' \in CASE Roots # {} -> {Max(Roots)}
                   [] Roots = {} /\ UnknownParents # {} ->
                        {FirstChildOf(id) : id \in UnknownParents}
                   [] OTHER -> {Len(t)}
    /\ pc' = "top_level"
    /\ UNCHANGED <<t, next, heap, visited, subtraces, sublayers>>

\* The parent is in the trace and has the same service.
HasLocalParentByID(s) == s.parent # 0 /\ s.parent \in SpanIDs
HasLocalParent(s) ==
    /\ s.parent # 0
    /\ \E i \in DOMAIN t : t[i].id = s.parent /\ t[i].service = s.service

\* A mark is never taken back.  The weight of a span does not matter here.
ComputeTopLevel ==
    /\ pc = "top_level"
    /\ t' = [i \in DOMAIN t |-> IF HasLocalParent(t[i]) THEN t[i]
                                ELSE [t[i] EXCEPT !.top = TRUE]]
    /\ next' = <<[span |-> root, ancestors |-> [array |-> 0, len |-> 0]]>>
    /\ pc' = "search"
    /\ UNCHANGED <<root, heap, visited, subtraces, sublayers>>

-----------------------------------------------------------------------------
(* Subtraces.                                                               *)

Ascending(S) ==
    [k \in 1 .. Cardinality(S) |-> CHOOSE x \in S : Cardinality({y \in S : y < x}) = k - 1]

\* ChildrenMap of the spans at the positions in the set S; it lists them in the
\* order of the trace.
Children(S, id) == {i \in S : t[i].parent # 0 /\ t[i].parent = id}

\* append of Go, on a slice of pointers: in place when there is room, else into
\* a new array of twice the size; and the slice that it returns.
Elements(slice) == IF slice.len = 0 THEN <<>> ELSE SubSeq(heap[slice.array], 1, slice.len)
HasCapacity(slice) == slice.len > 0 /\ Len(heap[slice.array]) > slice.len
AppendTo(slice, x) ==
    IF HasCapacity(slice)
    THEN heap' = [heap EXCEPT ![slice.array][slice.len + 1] = x]
    ELSE heap' = Append(heap,
                [k \in 1 .. (IF slice.len = 0 THEN 1 ELSE 2 * slice.len) |->
                    IF k <= slice.len THEN heap[slice.array][k]
                    ELSE IF k = slice.len + 1 THEN x ELSE 0])
Appended(slice) ==
    [array |-> IF HasCapacity(slice) THEN slice.array ELSE Len(heap) + 1, len |-> slice.len + 1]

\* The stack, with its head in front: the last span that is pushed.
PushBehind(stack, pushed) == stack \o pushed
Push(stack, pushed) == Reverse(pushed) \o stack

\* A span that gets a subtrace.
HasSubtrace(i) == t[i].top /\ Children(DOMAIN t, t[i].id) # {}

\* One round of the loop.
Visit ==
    /\ pc = "search"
    /\ next # <<>>
    /\ LET current == Head(next)
           span == current.span
           old == current.ancestors
           ancestors == IF HasSubtrace(span) THEN Appended(old) ELSE old
           above == Elements(old) \o (IF HasSubtrace(span) THEN <<span>> ELSE <<>>)
           unseen == Ascending(Children(DOMAIN t, t[span].id) \ (visited \union {span}))
       IN  /\ IF HasSubtrace(span) THEN AppendTo(old, span) ELSE UNCHANGED heap
           /\ visited' = visited \union {span}
           /\ subtraces' = [a \in DOMAIN subtraces \union ToSet(above) |->
                    (IF a \in DOMAIN subtraces THEN subtraces[a] ELSE <<>>)
                        \o [n \in 1 .. Cardinality({k \in DOMAIN above : above[k] = a}) |-> span]]
           /\ next' = Push(Tail(next), [k \in DOMAIN unseen |->
                                        [span |-> unseen[k], ancestors |-> ancestors]])
    /\ UNCHANGED <<t, pc, root, sublayers>>

-----------------------------------------------------------------------------
(* Sublayers.                                                               *)

Timestamps(S) == Ascending({t[i].start : i \in S} \union {End(t[i]) : i \in S})

RunsAt(i, ts) == t[i].start <= ts /\ ts < End(t[i])

\* A span is active while none of its children runs.
ActiveAfterChild(S, ts) ==
    {i \in S : RunsAt(i, ts) /\ ~\E c \in Children(S, t[i].id) :
                                    t[c].start <= ts /\ ts <= End(t[c])}
Active(S, ts) ==
    {i \in S : RunsAt(i, ts) /\ ~\E c \in Children(S, t[i].id) : RunsAt(c, ts)}

\* The interval from one timestamp to the next is divided among the active spans:
\* what those get whose attribute has the value v.
Portion(S, v, attr, ts, k) ==
    LET active == Active(S, ts[k])
    IN  IF active = {} THEN 0
        ELSE Cardinality({i \in active : t[i][attr] = v})
                * ((Scale \div Cardinality(active)) * (ts[k + 1] - ts[k]))

DurationOf(S, v, attr) ==
    LET ts == Timestamps(S)
    IN  SumFunction([k \in 1 .. Len(ts) - 1 |-> Portion(S, v, attr, ts, k)])

\* The values that have an active span; spans without the attribute are left out.
Attributes(S, attr) ==
    LET ts == Timestamps(S)
    IN  {t[i][attr] : i \in UNION {Active(S, ts[k]) : k \in 1 .. Len(ts) - 1}} \ {""}

DurationByAttr(S, attr) == [v \in Attributes(S, attr) |-> DurationOf(S, v, attr)]

\* What the cut to int64 can make of a float64 sum whose exact value is d / Scale.
CutToInt64(d) == [least |-> ((Precision - 1) * d) \div (Precision * Scale),
                  most |-> ((Precision + 1) * d) \div (Precision * Scale)]

\* The values are cut service by service and type by type.
ComputeSublayers(S) ==
    LET byService == DurationByAttr(S, "service")
        byType == DurationByAttr(S, "type")
    IN  [byService |-> [v \in DOMAIN byService |-> CutToInt64(byService[v])],
         byType |-> [v \in DOMAIN byType |-> CutToInt64(byType[v])],
         count |-> Cardinality(S)]

\* The search has ended; every subtrace gets its values.
SetSublayers ==
    /\ pc = "search"
    /\ next = <<>>
    /\ sublayers' = [a \in DOMAIN subtraces |-> ComputeSublayers(ToSet(subtraces[a]))]
    /\ pc' = "done"
    /\ UNCHANGED <<t, root, next, heap, visited, subtraces>>

ModelNext == NormalizeTrace \/ GetRoot \/ ComputeTopLevel \/ Visit \/ SetSublayers

ModelSpec == ModelInit /\ [][ModelNext]_modelVars
-----------------------------------------------------------------------------
(* Properties.                                                              *)

Parents(i) == {j \in DOMAIN t : t[i].parent # 0 /\ t[j].id = t[i].parent}
Orphans == {i \in DOMAIN t : Parents(i) = {}}

\* What can be reached from the set S by steps from a span to one of step[span].
Closure(S, step) ==
    {x \in DOMAIN t : \A C \in SUBSET DOMAIN t :
        S \subseteq C /\ (\A i \in C : step[i] \subseteq C) => x \in C}

ChildrenOf == [p \in DOMAIN t |-> {c \in DOMAIN t : p \in Parents(c)}]

\* The parent, when it is of the same service.
LocalParent == [j \in DOMAIN t |-> {p \in Parents(j) : t[p].service = t[j].service}]

\* The spans below i, on the way down from the root.
Descendants(i) == Closure({i}, [p \in DOMAIN t |-> ChildrenOf[p] \ {root}])

\* Some span has no parent in the trace, as in every tree: GetRoot returns such
\* a span, in whatever order the spans come and the map is iterated over.
RootIsAnOrphan ==
    pc \notin {"normalize", "rejected", "root"} /\ Orphans # {} => root \in Orphans

\* ComputeTopLevel leaves exactly one entry per visit of a service: a span that
\* hangs below the top of the trace has, among its ancestors of the same
\* service that are linked without a gap, one top-level span, itself included,
\* apart from those that a client has marked below a parent of their service.
OneEntryPerVisit ==
    pc \in {"search", "done"} =>
        \A o \in Orphans : \A i \in Closure({o}, ChildrenOf) :
            Cardinality({j \in Closure({i}, LocalParent) :
                            t[j].top /\ (t[j].client => LocalParent[j] = {})}) = 1

\* ExtractTopLevelSubtraces ends with one subtrace for each top-level span below
\* the root that has children, holding each of its descendants once: the slices
\* of ancestors share arrays without mixing up branches, and spans that form a
\* cycle with the root are visited once.
SubtracesAreDescendants ==
    pc = "done" =>
        /\ DOMAIN subtraces = {a \in Descendants(root) : HasSubtrace(a)}
        /\ \A a \in DOMAIN subtraces :
            /\ ToSet(subtraces[a]) = Descendants(a)
            /\ Len(subtraces[a]) = Cardinality(Descendants(a))

\* The times at which some span of S runs.
Running(S) == {ts \in Year2000 .. Latest : \E i \in S : RunsAt(i, ts)}

\* The sum of the least and of the most that the values of a service or type are.
SumOf(values, bound) == SumFunction([v \in DOMAIN values |-> values[v][bound]])

\* ComputeSublayers hands out the time during which some span of the subtrace
\* runs: however the float64 sums are rounded, neither services nor types get
\* more than that time and the relative error of the sums, and services get no
\* less than that time without the error, up to the cut of each value to an
\* integer, unless the subtrace closes a cycle.
SublayersConserveTime ==
    pc = "done" =>
        \A a \in DOMAIN sublayers :
            LET S == ToSet(subtraces[a])
                running == Cardinality(Running(S))
                services == sublayers[a].byService
            IN  /\ Precision * SumOf(services, "most") <= (Precision + 1) * running
                /\ Precision * SumOf(sublayers[a].byType, "most") <= (Precision + 1) * running
                /\ Parents(root) \intersect S = {} /\ running > 0 =>
                        (Precision - 1) * running <
                            Precision * (SumOf(services, "least") + Cardinality(DOMAIN services))
=============================================================================
