----------------------------- MODULE AgentProofs -----------------------------
(***************************************************************************)
(* Proofs about the agent: about Agent, for any requests, traces, capacity *)
(* of rawTraceChan and number of rounds of logStats, and, at the end of    *)
(* the module, about TraceModel, what Process does with one trace, for any *)
(* trace.                                                                  *)
(***************************************************************************)
EXTENDS Agent, TraceModel, SumTheorems, TLAPS

Trace == DOMAIN Traces
Request == DOMAIN Requests

-----------------------------------------------------------------------------
(* Traces on their way through the agent.                                   *)

Busy == main.pc \in {"stats", "priority", "check"}
Counting == {"bytes", "trace", "normalize", "services"}

Handlers == [pc : {"idle", "returned", "stats"} \cup Counting, ts : Nat, left : Seq(Trace)]

Mains == [pc : {"select", "stats", "priority", "check", "stop", "returned"},
          trace : Trace \cup Nat, ts : Nat]

FlowTypeInv ==
    /\ handler \in [Request -> Handlers]
    /\ raw \in Seq(Trace)
    /\ main \in Mains
    /\ Busy => main.trace \in Trace
    /\ main.pc = "stop" => main.trace \in Nat
    /\ passed \subseteq Trace
    /\ counted \in [Counters -> Nat]

\* The traces of a request that the handler still has to deal with.
Pending(r) == IF handler[r].pc = "idle" THEN Requests[r].traces ELSE handler[r].left

\* The number of those it has dealt with.
Done(r) == Len(Requests[r].traces) - Len(Pending(r))

\* The handlers go through their traces in order.
PendingInv ==
    \A r \in Request :
        /\ Done(r) >= 0
        /\ \A k \in 1 .. Len(Pending(r)) : Pending(r)[k] = Requests[r].traces[Done(r) + k]
        /\ handler[r].pc = "idle" => handler[r].left = <<>>
        /\ handler[r].pc \in {"trace", "normalize"} => Pending(r) # <<>>

\* A trace is in one place: with its handler, in the channel, in Process or passed on.
OncePlaced ==
    /\ \A r \in Request : \A k \in 1 .. Len(Pending(r)) :
        /\ \A j \in 1 .. Len(raw) : Pending(r)[k] # raw[j]
        /\ Busy => Pending(r)[k] # main.trace
        /\ Pending(r)[k] \notin passed
    /\ \A j \in 1 .. Len(raw) :
        /\ \A k \in 1 .. Len(raw) : j # k => raw[j] # raw[k]
        /\ Busy => raw[j] # main.trace
        /\ raw[j] \notin passed
    /\ Busy => main.trace \notin passed

FlowInv == FlowTypeInv /\ PendingInv /\ OncePlaced

-----------------------------------------------------------------------------
(* Sampling.                                                                *)

SamplerNames == {"errors", "score", "priority"}

\* While a trace is sampled nothing of it was sent, and its goroutine knows whether
\* a sampler has kept it; before that no sampler has seen it.
SampleInv ==
    /\ kept \in [Trace -> SUBSET SamplerNames]
    /\ sampling \in [DOMAIN sampling -> [todo : SUBSET SamplerNames, sampled : BOOLEAN]]
    /\ sending \cup written \subseteq [trace : Trace, full : BOOLEAN]
    /\ \A tr \in DOMAIN sampling :
        /\ tr \in passed
        /\ Traces[tr].priority # "negative"
        /\ sampling[tr].sampled <=> kept[tr] # {}
        /\ \A x \in sending \cup written : x.trace # tr
    /\ \A tr \in Trace \ passed : kept[tr] = {}

-----------------------------------------------------------------------------
(* The counters.                                                            *)

Processing == {"priority", "check"}

\* Whoever counts has a record to count in.
RecordsInv ==
    /\ records \in Seq([Counters -> Nat])
    /\ \A x \in DOMAIN stats : stats[x] \in 1 .. Len(records)
    /\ \A r \in Request : handler[r].pc \in Counting => handler[r].ts \in 1 .. Len(records)
    /\ main.pc \in Processing => main.ts \in 1 .. Len(records)
    /\ published \in [Counters -> Int]
    /\ raced \in BOOLEAN
    /\ logger \in [pc : {"wait", "reset"}, rounds : Nat]

\* What is published, and what Reset has not thrown away, was counted.
PublishedInv ==
    \A c \in Counters :
        LET n == published[c] + (IF logger.pc = "reset" THEN 0 ELSE Live(c))
        IN  n <= counted[c] /\ (~raced => n = counted[c])

-----------------------------------------------------------------------------
\* Adding to one counter.
LEMMA CountOne ==
  ASSUME NEW a \in [Counters -> Nat], NEW c \in Counters, NEW n \in Nat
  PROVE  /\ Plus(a, Count(c, n)) \in [Counters -> Nat]
         /\ \A d \in Counters : Plus(a, Count(c, n))[d] = IF d = c THEN a[d] + n ELSE a[d]
<1>1. \A d \in Counters : Count(c, n)[d] = IF d = c THEN n ELSE 0
  BY DEF Count, NoCounts
<1>2. \A d \in Counters : Plus(a, Count(c, n))[d] = IF d = c THEN a[d] + n ELSE a[d]
  BY <1>1 DEF Plus
<1> QED
  BY <1>2 DEF Plus

\* What a step of a handler does to the handlers.
LEMMA HandlerSet ==
  ASSUME FlowTypeInv, NEW r \in Request, NEW h \in Handlers, handler' = [handler EXCEPT ![r] = h]
  PROVE  /\ handler' \in [Request -> Handlers] /\ handler'[r] = h
         /\ \A q \in Request : q # r => handler'[q] = handler[q]
  BY DEF FlowTypeInv

\* The handlers have their traces where they had them, or drop them unseen.
LEMMA PendingSame ==
  ASSUME FlowInv, FlowTypeInv', UNCHANGED <<raw, passed>>,
         \A q \in Request :
            /\ Pending(q)' = Pending(q) \/ Pending(q)' = <<>>
            /\ handler'[q].pc \in {"trace", "normalize"} => Pending(q)' # <<>>
            /\ handler'[q].pc = "idle" => handler'[q].left = <<>>,
         Busy' => Busy /\ main'.trace = main.trace
  PROVE  FlowInv'
<1>0. PendingInv /\ OncePlaced
  BY DEF FlowInv
<1>1. PendingInv'
  <2> SUFFICES ASSUME NEW q \in Request
               PROVE  /\ Done(q)' >= 0
                      /\ \A k \in 1 .. Len(Pending(q)') :
                            Pending(q)'[k] = Requests[q].traces[Done(q)' + k]
    BY DEF PendingInv
  <2>1. CASE Pending(q)' = Pending(q)
    <3>1. Done(q)' = Done(q)
      BY <2>1 DEF Done
    <3> QED
      BY <1>0, <2>1, <3>1 DEF PendingInv
  <2>2. CASE Pending(q)' = <<>>
    <3>1. Len(Requests[q].traces) \in Nat
      BY RequestsAssumption DEF Request
    <3>2. Len(Pending(q)') = 0
      BY <2>2
    <3> QED
      BY <3>1, <3>2 DEF Done
  <2> QED
    BY <2>1, <2>2
<1>2. OncePlaced'
  <2>1. ASSUME NEW q \in Request, NEW k \in 1 .. Len(Pending(q)')
        PROVE  /\ Pending(q)'[k] = Pending(q)[k] /\ k \in 1 .. Len(Pending(q))
    <3>1. Pending(q)' # <<>>
      BY <2>1
    <3> QED
      BY <2>1, <3>1
  <2> QED
    BY <1>0, <2>1 DEF OncePlaced
<1> QED
  BY <1>1, <1>2 DEF FlowInv

\* A step that changes the place of one handler only.
HandlerAt(r, from, to) ==
    /\ handler[r].pc = from
    /\ handler'[r].pc = to
    /\ handler' \in [Request -> Handlers]
    /\ \A q \in Request : q # r => handler'[q] = handler[q]

\* It keeps its traces.
LEMMA HandlerMoves ==
  ASSUME FlowInv, FlowTypeInv', NEW r \in Request, NEW from, NEW to, HandlerAt(r, from, to),
         handler'[r].left = handler[r].left, from # "idle", to # "idle",
         to \in {"trace", "normalize"} => from \in {"trace", "normalize"} \/ handler[r].left # <<>>,
         UNCHANGED <<raw, passed, main>>
  PROVE  FlowInv'
<1>1. FlowTypeInv /\ PendingInv
  BY DEF FlowInv
<1>2. Busy' => Busy /\ main'.trace = main.trace
  BY DEF Busy
<1>3. ASSUME NEW q \in Request
      PROVE  /\ Pending(q)' = Pending(q)
             /\ handler'[q].pc \in {"trace", "normalize"} => Pending(q)' # <<>>
             /\ handler'[q].pc = "idle" => handler'[q].left = <<>>
  <2>1. CASE q = r
    <3>1. Pending(q)' = Pending(q) /\ Pending(q) = handler[r].left
      BY <2>1 DEF Pending, HandlerAt
    <3>2. from \in {"trace", "normalize"} => Pending(q) # <<>>
      BY <1>1, <2>1 DEF PendingInv, HandlerAt
    <3> QED
      BY <2>1, <3>1, <3>2 DEF HandlerAt
  <2>2. CASE q # r
    <3>1. handler'[q] = handler[q]
      BY <2>2 DEF HandlerAt
    <3> QED
      BY <1>1, <3>1 DEF Pending, PendingInv
  <2> QED
    BY <2>1, <2>2
<1> QED
  BY <1>2, <1>3, PendingSame

\* The handlers that have counted a trace and not yet passed it on.
Normalizing == {r \in Request : handler[r].pc = "normalize"}

\* The terms of the account are numbers.
LEMMA AccountTerms ==
  ASSUME FlowInv
  PROVE  /\ IsFiniteSet(Normalizing) /\ Cardinality(Normalizing) \in Nat
         /\ Len(raw) \in Nat
         /\ IsFiniteSet(passed) /\ Cardinality(passed) \in Nat
         /\ \A c \in Counters : counted[c] \in Nat
<1>1. IsFiniteSet(Normalizing)
  BY RequestsAssumption, FS_Subset DEF Normalizing, Request
<1>2. IsFiniteSet(passed)
  BY TracesAssumption, FS_Subset DEF FlowInv, FlowTypeInv, Trace
<1> QED
  BY <1>1, <1>2, FS_CardinalityType DEF FlowInv, FlowTypeInv

\* A handler begins to normalize a trace, or has done so, or another step.
LEMMA NormalizingStep ==
  ASSUME FlowInv, NEW r \in Request, NEW from, NEW to, HandlerAt(r, from, to)
  PROVE  /\ from = "normalize" /\ to # "normalize" =>
                Cardinality(Normalizing') = Cardinality(Normalizing) - 1
         /\ from # "normalize" /\ to = "normalize" =>
                Cardinality(Normalizing') = Cardinality(Normalizing) + 1
         /\ from # "normalize" /\ to # "normalize" => Normalizing' = Normalizing
<1>1. /\ from = "normalize" /\ to # "normalize" => Normalizing' = Normalizing \ {r} /\ r \in Normalizing
      /\ from # "normalize" /\ to = "normalize" => Normalizing' = Normalizing \cup {r} /\ r \notin Normalizing
      /\ from # "normalize" /\ to # "normalize" => Normalizing' = Normalizing
  BY DEF HandlerAt, Normalizing
<1> QED
  BY <1>1, AccountTerms, FS_AddElement, FS_RemoveElement

AccountInv == FlowInv /\ TracesAccountedFor

\* The account, in terms of Normalizing and Busy.
LEMMA AccountAs ==
  TracesAccountedFor <=>
    counted["received"] =
        Cardinality(Normalizing) + Len(raw) + (IF Busy THEN 1 ELSE 0)
            + counted["dropped"] + counted["filtered"] + Cardinality(passed)
  BY DEF TracesAccountedFor, Normalizing, Busy, Request

\* Counters by name.
LEMMA CounterNames ==
  /\ "received" \in Counters /\ "dropped" \in Counters /\ "filtered" \in Counters
  /\ "priority" \in Counters /\ "bytes" \in Counters /\ "services" \in Counters
  BY DEF Counters

\* The account stays when none of its terms changes.
LEMMA AccountSame ==
  ASSUME AccountInv, FlowInv', Normalizing' = Normalizing, UNCHANGED <<raw, passed>>,
         Busy' <=> Busy,
         \A c \in {"received", "dropped", "filtered"} : counted'[c] = counted[c]
  PROVE  AccountInv'
  BY DEF AccountInv, TracesAccountedFor, Normalizing, Busy, Request

\* Handle: a request is decoded, or none of its traces is seen.
LEMMA HandleStep ==
  ASSUME AccountInv, NEW r \in Request, Handle(r)
  PROVE  AccountInv'
<1>1. FlowInv /\ FlowTypeInv /\ PendingInv
  BY DEF AccountInv, FlowInv
<1>2. /\ handler[r].pc = "idle" /\ handler[r] \in Handlers /\ handler[r].left = <<>>
      /\ UNCHANGED <<raw, passed, main, counted>>
  BY <1>1 DEF Handle, HandlerUnchanged, FlowTypeInv, PendingInv, statVars, traceVars
<1>3. PICK to \in {"returned", "stats"} :
        /\ HandlerAt(r, "idle", to)
        /\ handler'[r].left = IF to = "stats" THEN Requests[r].traces ELSE <<>>
  <2>0. Requests[r].traces \in Seq(Trace)
    BY RequestsAssumption DEF Request, Trace
  <2>1. CASE PreSampledOut(r) \/ Refused(r)
    <3> DEFINE h == [handler[r] EXCEPT !.pc = "returned"]
    <3>1. handler' = [handler EXCEPT ![r] = h]
      BY <2>1 DEF PreSampledOut, Refused
    <3>2. h \in Handlers /\ h.pc = "returned" /\ h.left = <<>>
      BY <1>2 DEF Handlers
    <3> HIDE DEF h
    <3> QED
      BY <1>1, <1>2, <3>1, <3>2, HandlerSet DEF HandlerAt
  <2>2. CASE Decoded(r)
    <3> DEFINE h == [[handler[r] EXCEPT !.pc = "stats"] EXCEPT !.left = Requests[r].traces]
    <3>1. handler' = [handler EXCEPT ![r] = h]
      BY <1>1, <2>2 DEF Decoded, FlowTypeInv
    <3>2. h \in Handlers /\ h.pc = "stats" /\ h.left = Requests[r].traces
      BY <1>2, <2>0 DEF Handlers
    <3> HIDE DEF h
    <3> QED
      BY <1>1, <1>2, <3>1, <3>2, HandlerSet DEF HandlerAt
  <2> QED
    BY <2>1, <2>2 DEF Handle
<1>4. FlowTypeInv'
  BY <1>1, <1>2, <1>3 DEF FlowTypeInv, HandlerAt, Busy
<1>5. ASSUME NEW q \in Request
      PROVE  /\ Pending(q)' = Pending(q) \/ Pending(q)' = <<>>
             /\ handler'[q].pc \in {"trace", "normalize"} => Pending(q)' # <<>>
             /\ handler'[q].pc = "idle" => handler'[q].left = <<>>
  <2>1. CASE q = r
    BY <1>2, <1>3, <2>1 DEF Pending, HandlerAt
  <2>2. CASE q # r
    BY <1>1, <1>3, <2>2 DEF Pending, HandlerAt, PendingInv
  <2> QED
    BY <2>1, <2>2
<1>6. FlowInv'
  BY <1>1, <1>2, <1>4, <1>5, PendingSame DEF Busy
<1>7. Normalizing' = Normalizing
  BY <1>1, <1>3, NormalizingStep
<1> QED
  BY <1>2, <1>6, <1>7, AccountSame DEF Busy

\* What an Add does to the counters of the account.
LEMMA AddCounts ==
  ASSUME FlowTypeInv, NEW c \in Counters, NEW n \in Nat, NEW ts, Add(ts, Count(c, n))
  PROVE  /\ counted' \in [Counters -> Nat]
         /\ \A d \in Counters : counted'[d] = IF d = c THEN counted[d] + n ELSE counted[d]
<1>1. counted' = Plus(counted, Count(c, n)) /\ counted \in [Counters -> Nat]
  BY DEF Add, FlowTypeInv
<1> QED
  BY <1>1, CountOne

\* The handler gets its counters, counts bytes or services.
LEMMA HandlerCountStep ==
  ASSUME AccountInv, NEW r \in Request,
         HandlerGetStats(r) \/ HandlerCountBytes(r) \/ HandlerCountServices(r)
  PROVE  AccountInv'
<1>1. FlowInv /\ FlowTypeInv
  BY DEF AccountInv, FlowInv
<1>2. handler[r] \in Handlers /\ UNCHANGED <<raw, passed, main>>
  BY <1>1 DEF HandlerGetStats, HandlerCountBytes, HandlerCountServices, HandlerUnchanged,
              FlowTypeInv, traceVars
<1>3. /\ counted' \in [Counters -> Nat]
      /\ \A c \in {"received", "dropped", "filtered"} : counted'[c] = counted[c]
  <2>1. CASE HandlerGetStats(r)
    BY <1>1, <2>1 DEF HandlerGetStats, FlowTypeInv
  <2>2. CASE HandlerCountBytes(r)
    <3>1. Requests[r].bytes \in Nat /\ Add(handler[r].ts, Count("bytes", Requests[r].bytes))
      BY <2>2, RequestsAssumption DEF HandlerCountBytes, Request
    <3> QED
      BY <1>1, <3>1, AddCounts, CounterNames
  <2>3. CASE HandlerCountServices(r)
    <3>1. Add(handler[r].ts, Count("services", 1))
      BY <2>3 DEF HandlerCountServices
    <3> QED
      BY <1>1, <3>1, AddCounts, CounterNames
  <2> QED
    BY <2>1, <2>2, <2>3
<1>4. PICK from, to :
        /\ HandlerAt(r, from, to) /\ handler'[r].left = handler[r].left
        /\ from \in {"stats", "bytes", "services"}
        /\ to \in {"bytes", "services", "trace", "returned"}
        /\ to = "trace" => handler[r].left # <<>>
  <2>1. CASE HandlerGetStats(r)
    <3>1. PICK ts \in 1 .. Len(records) + 1 :
            handler' = [handler EXCEPT ![r].ts = ts,
                           ![r].pc = IF Requests[r].services THEN "services" ELSE "bytes"]
      BY <2>1 DEF HandlerGetStats
    <3> DEFINE to == IF Requests[r].services THEN "services" ELSE "bytes"
               h == [[handler[r] EXCEPT !.ts = ts] EXCEPT !.pc = to]
    <3>2. handler' = [handler EXCEPT ![r] = h]
      BY <1>1, <3>1 DEF FlowTypeInv
    <3>3. ts \in Nat
      BY <3>1
    <3>4. h \in Handlers /\ h.pc = to /\ h.left = handler[r].left /\ to \in {"services", "bytes"}
      BY <1>2, <3>3 DEF Handlers, Counting
    <3>5. handler[r].pc = "stats"
      BY <2>1 DEF HandlerGetStats
    <3> HIDE DEF h, to
    <3> QED
      BY <1>1, <3>2, <3>4, <3>5, HandlerSet DEF HandlerAt
  <2>2. CASE HandlerCountBytes(r)
    <3> DEFINE to == IF handler[r].left = <<>> THEN "returned" ELSE "trace"
               h == [handler[r] EXCEPT !.pc = to]
    <3>1. handler' = [handler EXCEPT ![r] = h] /\ handler[r].pc = "bytes"
      BY <1>1, <2>2 DEF HandlerCountBytes, FlowTypeInv
    <3>2. /\ h \in Handlers /\ h.pc = to /\ h.left = handler[r].left
          /\ to \in {"returned", "trace"} /\ (to = "trace" => handler[r].left # <<>>)
      BY <1>2 DEF Handlers, Counting
    <3> HIDE DEF h, to
    <3> QED
      BY <1>1, <3>1, <3>2, HandlerSet DEF HandlerAt
  <2>3. CASE HandlerCountServices(r)
    <3> DEFINE h == [handler[r] EXCEPT !.pc = "returned"]
    <3>1. handler' = [handler EXCEPT ![r] = h] /\ handler[r].pc = "services"
      BY <1>1, <2>3 DEF HandlerCountServices, FlowTypeInv
    <3>2. h \in Handlers /\ h.pc = "returned" /\ h.left = handler[r].left
      BY <1>2 DEF Handlers
    <3> HIDE DEF h
    <3> QED
      BY <1>1, <3>1, <3>2, HandlerSet DEF HandlerAt
  <2> QED
    BY <2>1, <2>2, <2>3
<1>5. FlowTypeInv'
  BY <1>1, <1>2, <1>3, <1>4 DEF FlowTypeInv, HandlerAt, Busy
<1>6. FlowInv'
  BY <1>1, <1>2, <1>4, <1>5, HandlerMoves
<1>7. Normalizing' = Normalizing
  BY <1>1, <1>4, NormalizingStep
<1> QED
  BY <1>2, <1>3, <1>6, <1>7, AccountSame DEF Busy

\* A trace is counted as received when its handler begins to normalize it.
LEMMA HandlerReceiveStep ==
  ASSUME AccountInv, NEW r \in Request, HandlerReceiveTrace(r)
  PROVE  AccountInv'
<1>1. FlowInv /\ FlowTypeInv
  BY DEF AccountInv, FlowInv
<1>2. handler[r] \in Handlers /\ UNCHANGED <<raw, passed, main>>
  BY <1>1 DEF HandlerReceiveTrace, HandlerUnchanged, FlowTypeInv, traceVars
<1>3. /\ counted' \in [Counters -> Nat]
      /\ \A d \in Counters :
            counted'[d] = IF d = "received" THEN counted[d] + 1 ELSE counted[d]
  <2>1. Add(handler[r].ts, Count("received", 1))
    BY DEF HandlerReceiveTrace
  <2> QED
    BY <1>1, <2>1, AddCounts, CounterNames
<1>4. HandlerAt(r, "trace", "normalize") /\ handler'[r].left = handler[r].left
  <2> DEFINE h == [handler[r] EXCEPT !.pc = "normalize"]
  <2>1. handler' = [handler EXCEPT ![r] = h] /\ handler[r].pc = "trace"
    BY <1>1 DEF HandlerReceiveTrace, FlowTypeInv
  <2>2. h \in Handlers /\ h.pc = "normalize" /\ h.left = handler[r].left
    BY <1>2 DEF Handlers, Counting
  <2> HIDE DEF h
  <2> QED
    BY <1>1, <2>1, <2>2, HandlerSet DEF HandlerAt
<1>5. FlowTypeInv'
  BY <1>1, <1>2, <1>3, <1>4 DEF FlowTypeInv, HandlerAt, Busy
<1>6. FlowInv'
  BY <1>1, <1>2, <1>4, <1>5, HandlerMoves
<1>7. Cardinality(Normalizing') = Cardinality(Normalizing) + 1
  BY <1>1, <1>4, NormalizingStep
<1>8. (Busy' <=> Busy) /\ Len(raw') = Len(raw) /\ passed' = passed
  BY <1>2 DEF Busy
<1>9. /\ counted'["received"] = counted["received"] + 1
      /\ counted'["dropped"] = counted["dropped"] /\ counted'["filtered"] = counted["filtered"]
  BY <1>3, CounterNames
<1> DEFINE B == IF Busy THEN 1 ELSE 0
<1>10. counted["received"] = Cardinality(Normalizing) + Len(raw) + B + counted["dropped"]
          + counted["filtered"] + Cardinality(passed)
  BY AccountAs DEF AccountInv
<1>11. counted'["received"] = Cardinality(Normalizing') + Len(raw') + B + counted'["dropped"]
          + counted'["filtered"] + Cardinality(passed')
  <2>1. B \in Nat
    OBVIOUS
  <2> HIDE DEF B
  <2> QED
    BY <1>1, <1>7, <1>8, <1>9, <1>10, <2>1, AccountTerms, CounterNames
<1>12. TracesAccountedFor'
  BY <1>8, <1>11 DEF TracesAccountedFor, Normalizing, Busy, Request
<1> QED
  BY <1>6, <1>12 DEF AccountInv

\* No trace is in two places of the requests.
LEMMA RequestsDistinct ==
  ASSUME NEW r1 \in Request, NEW r2 \in Request,
         NEW k1 \in 1 .. Len(Requests[r1].traces), NEW k2 \in 1 .. Len(Requests[r2].traces),
         Requests[r1].traces[k1] = Requests[r2].traces[k2]
  PROVE  r1 = r2 /\ k1 = k2
<1>1. \A x \in Request : DOMAIN Requests[x].traces = 1 .. Len(Requests[x].traces)
  BY RequestsAssumption DEF Request
<1> QED
  BY <1>1, RequestsAssumption DEF Request

\* Where in its request a trace is that the handler still has.
LEMMA PendingPlace ==
  ASSUME FlowInv, NEW r \in Request, NEW i \in 1 .. Len(Pending(r))
  PROVE  /\ Done(r) \in Nat /\ Done(r) + i \in 1 .. Len(Requests[r].traces)
         /\ Pending(r)[i] = Requests[r].traces[Done(r) + i]
<1>1. FlowTypeInv /\ PendingInv
  BY DEF FlowInv
<1>2. Requests[r].traces \in Seq(Trace) /\ Pending(r) \in Seq(Trace)
  BY <1>1, RequestsAssumption DEF Pending, FlowTypeInv, Handlers, Request, Trace
<1>3. Len(Requests[r].traces) \in Nat /\ Len(Pending(r)) \in Nat
  BY <1>2
<1>4. Done(r) >= 0 /\ Pending(r)[i] = Requests[r].traces[Done(r) + i]
  BY <1>1 DEF PendingInv
<1>5. Done(r) = Len(Requests[r].traces) - Len(Pending(r))
  BY DEF Done
<1>6. Done(r) \in Nat /\ Done(r) + i \in 1 .. Len(Requests[r].traces)
  <2> DEFINE n == Len(Requests[r].traces)
             m == Len(Pending(r))
             d == Done(r)
  <2>1. n \in Nat /\ m \in Nat /\ i \in 1 .. m /\ d >= 0 /\ d = n - m
    BY <1>3, <1>4, <1>5
  <2> HIDE DEF n, m, d
  <2>2. d \in Nat /\ d + i \in 1 .. n
    BY <2>1
  <2> QED
    BY <2>2 DEF n, d
<1> QED
  BY <1>4, <1>6

\* The traces that handlers still have are not the same.
LEMMA PendingDistinct ==
  ASSUME FlowInv, NEW r \in Request, NEW q \in Request,
         NEW i \in 1 .. Len(Pending(r)), NEW k \in 1 .. Len(Pending(q)),
         Pending(r)[i] = Pending(q)[k]
  PROVE  r = q /\ i = k
<1> DEFINE u == Done(r) + i
           v == Done(q) + k
<1>1. /\ u \in 1 .. Len(Requests[r].traces) /\ v \in 1 .. Len(Requests[q].traces)
      /\ Requests[r].traces[u] = Requests[q].traces[v]
      /\ Done(r) \in Nat /\ Done(q) \in Nat
  BY PendingPlace
<1>2. r = q /\ u = v
  <2> HIDE DEF u, v
  <2> QED
    BY <1>1, RequestsDistinct
<1> QED
  BY <1>1, <1>2

\* A handler gives a trace away, to the channel or to the count of dropped traces.
LEMMA SendFlow ==
  ASSUME FlowInv, FlowTypeInv', NEW r \in Request, NEW to, HandlerAt(r, "normalize", to),
         to = "returned" \/ (to = "trace" /\ Len(handler[r].left) > 1),
         handler'[r].left = Tail(handler[r].left),
         raw' = raw \/ raw' = Append(raw, Head(handler[r].left)),
         UNCHANGED <<passed, main>>
  PROVE  FlowInv'
<1> DEFINE p == handler[r].left
           tr == Head(p)
           n == Done(r)
<1>1. FlowTypeInv /\ PendingInv /\ OncePlaced
  BY DEF FlowInv
<1>2. Pending(r) = p /\ Pending(r)' = Tail(p) /\ p # <<>>
  BY <1>1 DEF Pending, HandlerAt, PendingInv
<1>3. p \in Seq(Trace) /\ Requests[r].traces \in Seq(Trace) /\ raw \in Seq(Trace)
  BY <1>1, RequestsAssumption DEF FlowTypeInv, Handlers, Request, Trace
<1>4. /\ Len(p) \in Nat /\ Len(p) >= 1 /\ tr = p[1] /\ Len(Tail(p)) = Len(p) - 1
      /\ \A k \in 1 .. Len(p) - 1 : Tail(p)[k] = p[k + 1]
  BY <1>2, <1>3
<1>5. n \in Nat /\ (\A k \in 1 .. Len(p) : p[k] = Requests[r].traces[n + k])
  <2>1. 1 \in 1 .. Len(Pending(r))
    BY <1>2, <1>4
  <2> QED
    BY <1>2, <2>1, PendingPlace
<1>6. \A q \in Request : q # r => handler'[q] = handler[q] /\ Pending(q)' = Pending(q)
  BY DEF HandlerAt, Pending
<1>7. PendingInv'
  <2> SUFFICES ASSUME NEW q \in Request
               PROVE  /\ Done(q)' >= 0
                      /\ \A k \in 1 .. Len(Pending(q)') :
                            Pending(q)'[k] = Requests[q].traces[Done(q)' + k]
                      /\ handler'[q].pc = "idle" => handler'[q].left = <<>>
                      /\ handler'[q].pc \in {"trace", "normalize"} => Pending(q)' # <<>>
    BY DEF PendingInv
  <2>1. CASE q # r
    <3>1. handler'[q] = handler[q] /\ Pending(q)' = Pending(q) /\ Done(q)' = Done(q)
      BY <1>6, <2>1 DEF Done
    <3> QED
      BY <1>1, <3>1 DEF PendingInv
  <2>2. CASE q = r
    <3>1. Done(q)' = n + 1
      <4>1. Len(Requests[r].traces) \in Nat
        BY <1>3
      <4>2. Done(r)' = Len(Requests[r].traces) - (Len(p) - 1)
        BY <1>2, <1>4 DEF Done
      <4>3. n = Len(Requests[r].traces) - Len(p)
        BY <1>2 DEF Done
      <4> HIDE DEF n, p
      <4> QED
        BY <1>4, <2>2, <4>1, <4>2, <4>3
    <3> HIDE DEF n
    <3>2. ASSUME NEW k \in 1 .. Len(Pending(q)')
          PROVE  Pending(q)'[k] = Requests[q].traces[(n + 1) + k]
      <4> HIDE DEF p
      <4>0. k \in 1 .. Len(p) - 1
        BY <1>2, <1>4, <2>2, <3>2
      <4>1. k + 1 \in 1 .. Len(p) /\ n + (k + 1) = (n + 1) + k
        BY <1>4, <1>5, <4>0
      <4>2. Pending(q)'[k] = p[k + 1]
        BY <1>2, <1>4, <2>2, <4>0
      <4>3. p[k + 1] = Requests[r].traces[n + (k + 1)]
        BY <1>5, <4>1
      <4> QED
        BY <2>2, <4>1, <4>2, <4>3
    <3>3. handler'[q].pc # "idle"
      BY <2>2 DEF HandlerAt
    <3>4. handler'[q].pc \in {"trace", "normalize"} => Pending(q)' # <<>>
      <4> SUFFICES ASSUME handler'[q].pc \in {"trace", "normalize"} PROVE Pending(q)' # <<>>
        OBVIOUS
      <4>1. Len(p) > 1
        BY <2>2 DEF HandlerAt
      <4>2. Len(Pending(q)') > 0
        BY <1>2, <1>4, <2>2, <4>1
      <4> QED
        BY <4>2
    <3>5. Done(q)' >= 0
      BY <1>5, <3>1
    <3> QED
      BY <3>1, <3>2, <3>3, <3>4, <3>5
  <2> QED
    BY <2>1, <2>2
<1>8. ASSUME NEW q \in Request, NEW k \in 1 .. Len(Pending(q)')
      PROVE  \E i \in 1 .. Len(Pending(q)) :
                Pending(q)'[k] = Pending(q)[i] /\ (q = r => i # 1)
  <2>1. CASE q # r
    BY <1>6, <1>8, <2>1
  <2>2. CASE q = r
    <3>1. k + 1 \in 1 .. Len(Pending(q)) /\ k + 1 # 1 /\ k \in 1 .. Len(p) - 1
      BY <1>2, <1>4, <1>8, <2>2
    <3> QED
      BY <1>2, <1>4, <2>2, <3>1
  <2> QED
    BY <2>1, <2>2
<1>9. 1 \in 1 .. Len(Pending(r)) /\ tr = Pending(r)[1]
  BY <1>2, <1>4
<1>10. ASSUME NEW j \in 1 .. Len(raw')
       PROVE  (j \in 1 .. Len(raw) /\ raw'[j] = raw[j]) \/ (j = Len(raw) + 1 /\ raw'[j] = tr)
  <2>0. tr \in Trace
    BY <1>3, <1>4
  <2>1. CASE raw' = raw
    BY <1>10, <2>1
  <2>2. CASE raw' = Append(raw, tr)
    <3> HIDE DEF tr
    <3>1. Len(raw') = Len(raw) + 1 /\ Len(raw) \in Nat
      BY <1>3, <2>0, <2>2
    <3> QED
      BY <1>3, <1>10, <2>0, <2>2, <3>1
  <2> QED
    BY <2>1, <2>2
<1> HIDE DEF tr, p, n
<1>11. (Busy' <=> Busy) /\ main' = main /\ passed' = passed /\ Len(raw) \in Nat
  BY <1>3 DEF Busy
<1>12. ASSUME NEW q \in Request, NEW k \in 1 .. Len(Pending(q)')
       PROVE  /\ \A j \in 1 .. Len(raw') : Pending(q)'[k] # raw'[j]
              /\ Busy' => Pending(q)'[k] # main'.trace
              /\ Pending(q)'[k] \notin passed'
  <2>1. PICK i \in 1 .. Len(Pending(q)) : Pending(q)'[k] = Pending(q)[i] /\ (q = r => i # 1)
    BY <1>8
  <2>2. Pending(q)[i] # tr
    BY <1>9, <2>1, PendingDistinct
  <2> QED
    BY <1>1, <1>10, <1>11, <2>1, <2>2 DEF OncePlaced
<1>13. ASSUME NEW j \in 1 .. Len(raw')
       PROVE  /\ \A k \in 1 .. Len(raw') : j # k => raw'[j] # raw'[k]
              /\ Busy' => raw'[j] # main'.trace
              /\ raw'[j] \notin passed'
  <2>1. \A i \in 1 .. Len(raw) : raw[i] # tr
    BY <1>1, <1>9 DEF OncePlaced
  <2>2. (Busy => tr # main.trace) /\ tr \notin passed
    BY <1>1, <1>9 DEF OncePlaced
  <2>3. \A k \in 1 .. Len(raw') : j # k => raw'[j] # raw'[k]
    BY <1>1, <1>10, <1>13, <2>1 DEF OncePlaced
  <2> QED
    BY <1>1, <1>10, <1>11, <2>2, <2>3 DEF OncePlaced
<1>14. OncePlaced'
  BY <1>1, <1>11, <1>12, <1>13 DEF OncePlaced
<1> QED
  BY <1>7, <1>14 DEF FlowInv

\* A trace that was received goes to the channel or is counted as dropped.
LEMMA HandlerSendStep ==
  ASSUME AccountInv, NEW r \in Request, HandlerSendTrace(r)
  PROVE  AccountInv'
<1> DEFINE tr == Head(handler[r].left)
           to == AfterTrace(r)
<1>1. FlowInv /\ FlowTypeInv /\ PendingInv
  BY DEF AccountInv, FlowInv
<1>2. handler[r] \in Handlers /\ UNCHANGED <<passed, main>> /\ handler[r].pc = "normalize"
  BY <1>1 DEF HandlerSendTrace, HandlerUnchanged, FlowTypeInv, traceVars
<1>3. handler[r].left \in Seq(Trace) /\ handler[r].left # <<>> /\ raw \in Seq(Trace)
  BY <1>1, <1>2 DEF Handlers, PendingInv, Pending, FlowTypeInv
<1>4. tr \in Trace /\ Tail(handler[r].left) \in Seq(Trace)
  BY <1>3
<1>5. to = "returned" \/ (to = "trace" /\ Len(handler[r].left) > 1)
  BY <1>3 DEF AfterTrace
<1>6. HandlerAt(r, "normalize", to) /\ handler'[r].left = Tail(handler[r].left)
  <2> DEFINE h == [[handler[r] EXCEPT !.left = Tail(handler[r].left)] EXCEPT !.pc = to]
  <2>1. handler' = [handler EXCEPT ![r] = h]
    BY <1>1 DEF HandlerSendTrace, FlowTypeInv
  <2>2. h \in Handlers /\ h.pc = to /\ h.left = Tail(handler[r].left)
    <3> HIDE DEF to
    <3> QED
      BY <1>2, <1>4, <1>5 DEF Handlers, Counting
  <2> HIDE DEF h, to
  <2> QED
    BY <1>1, <1>2, <2>1, <2>2, HandlerSet DEF HandlerAt
<1>7. \/ /\ raw' = Append(raw, tr) /\ counted' = counted
      \/ /\ raw' = raw /\ Add(handler[r].ts, Count("dropped", 1))
  BY DEF HandlerSendTrace, statVars
<1> HIDE DEF tr, to
<1>8. /\ counted' \in [Counters -> Nat] /\ raw' \in Seq(Trace)
      /\ counted'["received"] = counted["received"]
      /\ counted'["filtered"] = counted["filtered"]
      /\ Len(raw') + counted'["dropped"] = Len(raw) + counted["dropped"] + 1
      /\ Len(raw') \in Nat
  <2>0. counted \in [Counters -> Nat] /\ Len(raw) \in Nat
    BY <1>1 DEF FlowTypeInv
  <2>1. CASE raw' = Append(raw, tr) /\ counted' = counted
    <3>1. raw' \in Seq(Trace) /\ Len(raw') = Len(raw) + 1
      BY <1>3, <1>4, <2>1
    <3>2. counted["dropped"] \in Nat
      BY <2>0, CounterNames
    <3>3. Len(raw') + counted'["dropped"] = Len(raw) + counted["dropped"] + 1
      <4> DEFINE a == Len(raw)
                 b == counted["dropped"]
      <4>1. Len(raw') = a + 1 /\ counted'["dropped"] = b /\ a \in Nat /\ b \in Nat
        BY <2>0, <2>1, <3>1, <3>2
      <4> HIDE DEF a, b
      <4>2. Len(raw') + counted'["dropped"] = a + b + 1
        BY <4>1
      <4> QED
        BY <4>2 DEF a, b
    <3> QED
      BY <2>0, <2>1, <3>1, <3>3
  <2>2. CASE raw' = raw /\ Add(handler[r].ts, Count("dropped", 1))
    <3>1. /\ counted' \in [Counters -> Nat]
          /\ \A d \in Counters :
                counted'[d] = IF d = "dropped" THEN counted[d] + 1 ELSE counted[d]
      BY <1>1, <2>2, AddCounts, CounterNames
    <3>2. /\ counted["dropped"] \in Nat /\ counted'["dropped"] = counted["dropped"] + 1
          /\ counted'["received"] = counted["received"]
          /\ counted'["filtered"] = counted["filtered"]
      BY <2>0, <3>1, CounterNames
    <3>3. Len(raw') + counted'["dropped"] = Len(raw) + counted["dropped"] + 1
      BY <2>0, <2>2, <3>2
    <3> QED
      BY <1>3, <2>0, <2>2, <3>1, <3>2, <3>3
  <2> QED
    BY <1>7, <2>1, <2>2
<1>9. FlowTypeInv'
  BY <1>1, <1>2, <1>6, <1>8 DEF FlowTypeInv, HandlerAt, Busy
<1>10. FlowInv'
  BY <1>1, <1>2, <1>5, <1>6, <1>7, <1>9, SendFlow DEF tr
<1>11. Cardinality(Normalizing') = Cardinality(Normalizing) - 1
  BY <1>1, <1>5, <1>6, NormalizingStep
<1> DEFINE B == IF Busy THEN 1 ELSE 0
<1>12. counted["received"] = Cardinality(Normalizing) + Len(raw) + B + counted["dropped"]
          + counted["filtered"] + Cardinality(passed)
  BY AccountAs DEF AccountInv
<1>13. counted'["received"] = Cardinality(Normalizing') + Len(raw') + B + counted'["dropped"]
          + counted'["filtered"] + Cardinality(passed')
  <2>1. B \in Nat /\ counted'["dropped"] \in Nat /\ passed' = passed
    BY <1>2, <1>8, CounterNames
  <2> HIDE DEF B
  <2>2. /\ Cardinality(Normalizing) \in Nat /\ Len(raw) \in Nat /\ Cardinality(passed) \in Nat
        /\ counted["received"] \in Nat /\ counted["dropped"] \in Nat
        /\ counted["filtered"] \in Nat
    BY <1>1, AccountTerms, CounterNames
  <2>3. Cardinality(passed') = Cardinality(passed)
    BY <2>1
  <2>4. /\ counted'["received"] = counted["received"]
        /\ counted'["filtered"] = counted["filtered"]
        /\ Len(raw') + counted'["dropped"] = Len(raw) + counted["dropped"] + 1
        /\ Len(raw') \in Nat
    BY <1>8
  <2>5. B \in Nat /\ counted'["dropped"] \in Nat
    BY <2>1
  <2> DEFINE N == Cardinality(Normalizing)
             L == Len(raw)
             L2 == Len(raw')
             D == counted["dropped"]
             D2 == counted'["dropped"]
             F == counted["filtered"]
             P == Cardinality(passed)
  <2>6. /\ N \in Nat /\ L \in Nat /\ L2 \in Nat /\ D \in Nat /\ D2 \in Nat /\ F \in Nat
        /\ P \in Nat /\ L2 + D2 = L + D + 1
    BY <2>2, <2>4, <2>5
  <2>7. N + L + B + D + F + P = (N - 1) + L2 + B + D2 + F + P
    <3> HIDE DEF N, L, L2, D, D2, F, P
    <3> QED
      BY <2>5, <2>6
  <2> QED
    BY <1>11, <1>12, <2>3, <2>4, <2>7
<1>14. TracesAccountedFor'
  BY <1>2, <1>13 DEF TracesAccountedFor, Normalizing, Busy, Request
<1> QED
  BY <1>10, <1>14 DEF AccountInv

-----------------------------------------------------------------------------
(* The steps of the main loop.                                              *)

\* A step that changes neither the handlers nor the channel.
LEMMA MainFlow ==
  ASSUME FlowInv, FlowTypeInv', UNCHANGED <<handler, raw>>,
         \/ passed' = passed /\ (Busy' => Busy /\ main'.trace = main.trace)
         \/ passed' = passed \cup {main.trace} /\ Busy /\ ~Busy'
  PROVE  FlowInv'
<1>1. PendingInv /\ OncePlaced
  BY DEF FlowInv
<1>2. \A r \in Request : Pending(r)' = Pending(r) /\ Done(r)' = Done(r)
  BY DEF Pending, Done
<1>3. PendingInv'
  BY <1>1, <1>2 DEF PendingInv
<1>4. CASE passed' = passed /\ (Busy' => Busy /\ main'.trace = main.trace)
  <2>1. OncePlaced'
    BY <1>1, <1>2, <1>4 DEF OncePlaced
  <2> QED
    BY <1>3, <2>1 DEF FlowInv
<1>5. CASE passed' = passed \cup {main.trace} /\ Busy /\ ~Busy'
  <2>1. ASSUME NEW r \in Request, NEW k \in 1 .. Len(Pending(r)')
        PROVE  /\ \A j \in 1 .. Len(raw') : Pending(r)'[k] # raw'[j]
               /\ Pending(r)'[k] \notin passed'
    BY <1>1, <1>2, <1>5 DEF OncePlaced
  <2>2. ASSUME NEW j \in 1 .. Len(raw')
        PROVE  /\ \A k \in 1 .. Len(raw') : j # k => raw'[j] # raw'[k]
               /\ raw'[j] \notin passed'
    BY <1>1, <1>5 DEF OncePlaced
  <2>3. OncePlaced'
    BY <1>5, <2>1, <2>2 DEF OncePlaced
  <2> QED
    BY <1>3, <2>3 DEF FlowInv
<1> QED
  BY <1>4, <1>5

\* The oldest trace of the channel is taken.
LEMMA TakeStep ==
  ASSUME AccountInv, TakeTrace
  PROVE  AccountInv'
<1>1. FlowInv /\ FlowTypeInv /\ PendingInv /\ OncePlaced
  BY DEF AccountInv, FlowInv
<1>2. /\ UNCHANGED <<handler, counted, passed>> /\ main.pc = "select" /\ raw # <<>>
      /\ main' = [main EXCEPT !.pc = "stats", !.trace = Head(raw)] /\ raw' = Tail(raw)
  BY DEF TakeTrace, MainUnchanged, statVars, traceVars
<1> DEFINE tr == Head(raw)
           n == Len(raw)
<1>3. /\ raw \in Seq(Trace) /\ n \in Nat /\ n >= 1 /\ tr = raw[1] /\ tr \in Trace
      /\ raw' \in Seq(Trace) /\ Len(raw') = n - 1
      /\ \A k \in 1 .. n - 1 : raw'[k] = raw[k + 1]
  <2>1. raw \in Seq(Trace) /\ raw # <<>>
    BY <1>1, <1>2 DEF FlowTypeInv
  <2> QED
    BY <1>2, <2>1
<1> HIDE DEF tr, n
<1>4. main' \in Mains /\ main'.pc = "stats" /\ main'.trace = tr
  BY <1>1, <1>2, <1>3 DEF FlowTypeInv, Mains, tr
<1>5. ~Busy /\ Busy'
  BY <1>2, <1>4 DEF Busy
<1>6. FlowTypeInv'
  BY <1>1, <1>2, <1>3, <1>4 DEF FlowTypeInv
<1>7. \A r \in Request : Pending(r)' = Pending(r) /\ Done(r)' = Done(r)
  BY <1>2 DEF Pending, Done
<1>8. PendingInv'
  BY <1>1, <1>2, <1>7 DEF PendingInv
<1>9. OncePlaced'
  <2>0. 1 \in 1 .. n /\ \A k \in 1 .. n - 1 : k + 1 \in 1 .. n /\ k + 1 # 1
    BY <1>3
  <2>1. ASSUME NEW r \in Request, NEW k \in 1 .. Len(Pending(r)')
        PROVE  /\ \A j \in 1 .. Len(raw') : Pending(r)'[k] # raw'[j]
               /\ Pending(r)'[k] # main'.trace
               /\ Pending(r)'[k] \notin passed'
    <3>1. /\ \A j \in 1 .. n : Pending(r)[k] # raw[j]
          /\ Pending(r)[k] \notin passed
      BY <1>1, <1>7, <2>1 DEF OncePlaced, n
    <3> QED
      BY <1>2, <1>3, <1>4, <1>7, <2>0, <3>1
  <2>2. ASSUME NEW j \in 1 .. Len(raw')
        PROVE  /\ \A k \in 1 .. Len(raw') : j # k => raw'[j] # raw'[k]
               /\ raw'[j] # main'.trace
               /\ raw'[j] \notin passed'
    <3>1. \A i \in 1 .. n : raw[i] \notin passed /\ \A k \in 1 .. n : i # k => raw[i] # raw[k]
      BY <1>1 DEF OncePlaced, n
    <3>2. ASSUME NEW k \in 1 .. Len(raw'), j # k PROVE raw'[j] # raw'[k]
      <4>1. j + 1 # k + 1 /\ j \in 1 .. n - 1 /\ k \in 1 .. n - 1
        BY <1>3, <2>2, <3>2
      <4> QED
        BY <1>3, <2>0, <3>1, <4>1
    <3>3. j \in 1 .. n - 1
      BY <1>3, <2>2
    <3> QED
      BY <1>2, <1>3, <1>4, <2>0, <3>1, <3>2, <3>3
  <2>3. main'.trace \notin passed'
    BY <1>1, <1>2, <1>3, <1>4, <2>0 DEF OncePlaced, n
  <2> QED
    BY <2>1, <2>2, <2>3 DEF OncePlaced
<1>10. FlowInv'
  BY <1>6, <1>8, <1>9 DEF FlowInv
<1>11. Normalizing' = Normalizing
  BY <1>2 DEF Normalizing
<1> DEFINE N == Cardinality(Normalizing)
           D == counted["dropped"]
           F == counted["filtered"]
           P == Cardinality(passed)
<1>12. counted["received"] = N + n + 0 + D + F + P
  BY <1>5, AccountAs DEF AccountInv, n
<1>13. N \in Nat /\ D \in Nat /\ F \in Nat /\ P \in Nat
  BY <1>1, AccountTerms, CounterNames
<1>14. counted["received"] = N + (n - 1) + 1 + D + F + P
  <2> HIDE DEF N, D, F, P
  <2> QED
    BY <1>3, <1>12, <1>13
<1>15. counted'["received"] = Cardinality(Normalizing') + Len(raw') + 1 + counted'["dropped"]
          + counted'["filtered"] + Cardinality(passed')
  BY <1>2, <1>3, <1>11, <1>14
<1>16. TracesAccountedFor'
  BY <1>5, <1>15 DEF TracesAccountedFor, Normalizing, Busy, Request
<1> QED
  BY <1>10, <1>16 DEF AccountInv

\* Process counts, without deciding anything about the trace.
LEMMA ProcessCountStep ==
  ASSUME AccountInv, ProcessGetStats \/ ProcessCountPriority
  PROVE  AccountInv'
<1>1. FlowInv /\ FlowTypeInv
  BY DEF AccountInv, FlowInv
<1>2. UNCHANGED <<handler, raw, passed>>
  BY DEF ProcessGetStats, ProcessCountPriority, MainUnchanged, traceVars
<1>3. /\ counted' \in [Counters -> Nat]
      /\ \A c \in {"received", "dropped", "filtered"} : counted'[c] = counted[c]
  <2>1. CASE ProcessGetStats
    BY <1>1, <2>1 DEF ProcessGetStats, FlowTypeInv
  <2>2. CASE ProcessCountPriority
    <3>1. Add(main.ts, Count("priority", 1))
      BY <2>2 DEF ProcessCountPriority
    <3> QED
      BY <1>1, <3>1, AddCounts, CounterNames
  <2> QED
    BY <2>1, <2>2
<1>4. main' \in Mains /\ main'.pc \in {"priority", "check"} /\ main'.trace = main.trace
  <2>1. CASE ProcessGetStats
    <3>1. PICK ts \in 1 .. Len(records) + 1 : main' = [main EXCEPT !.pc = "priority", !.ts = ts]
      BY <2>1 DEF ProcessGetStats
    <3>2. ts \in Nat
      BY <3>1
    <3> QED
      BY <1>1, <3>1, <3>2 DEF FlowTypeInv, Mains
  <2>2. CASE ProcessCountPriority
    BY <1>1, <2>2 DEF ProcessCountPriority, FlowTypeInv, Mains
  <2> QED
    BY <2>1, <2>2
<1>5. Busy /\ Busy'
  BY <1>4 DEF Busy, ProcessGetStats, ProcessCountPriority
<1>6. FlowTypeInv'
  BY <1>1, <1>2, <1>3, <1>4, <1>5 DEF FlowTypeInv
<1>7. FlowInv'
  BY <1>1, <1>2, <1>4, <1>5, <1>6, MainFlow
<1>8. Normalizing' = Normalizing
  BY <1>2 DEF Normalizing
<1> QED
  BY <1>2, <1>3, <1>5, <1>7, <1>8, AccountSame

\* The trace in Process leaves it, counted or passed on.
LEMMA ProcessEndStep ==
  ASSUME AccountInv,
         ProcessSkips("dropped") \/ ProcessSkips("filtered") \/ ProcessPassesOn
  PROVE  AccountInv'
<1>1. FlowInv /\ FlowTypeInv /\ OncePlaced
  BY DEF AccountInv, FlowInv
<1>2. /\ UNCHANGED <<handler, raw>> /\ main.pc = "check"
      /\ main' = [main EXCEPT !.pc = "select"]
  BY DEF ProcessSkips, ProcessPassesOn, MainUnchanged
<1>3. main' \in Mains /\ main'.pc = "select"
  BY <1>1, <1>2 DEF FlowTypeInv, Mains
<1>4. Busy /\ ~Busy' /\ main.trace \in Trace /\ main.trace \notin passed
  BY <1>1, <1>2, <1>3 DEF Busy, FlowTypeInv, OncePlaced
<1> DEFINE N == Cardinality(Normalizing)
           R == counted["received"]
           L == Len(raw)
           D == counted["dropped"]
           F == counted["filtered"]
           P == Cardinality(passed)
           D2 == counted'["dropped"]
           F2 == counted'["filtered"]
           P2 == Cardinality(passed')
<1>5. N \in Nat /\ L \in Nat /\ D \in Nat /\ F \in Nat /\ P \in Nat
  BY <1>1, AccountTerms, CounterNames
<1>6. /\ counted' \in [Counters -> Nat] /\ counted'["received"] = R
      /\ passed' = passed \/ passed' = passed \cup {main.trace}
      /\ \/ D2 = D + 1 /\ F2 = F /\ P2 = P
         \/ D2 = D /\ F2 = F + 1 /\ P2 = P
         \/ D2 = D /\ F2 = F /\ P2 = P + 1
  <2>0. counted \in [Counters -> Nat]
    BY <1>1 DEF FlowTypeInv
  <2>1. ASSUME NEW c \in {"dropped", "filtered"}, ProcessSkips(c)
        PROVE  /\ counted' \in [Counters -> Nat] /\ passed' = passed
               /\ \A d \in Counters : counted'[d] = IF d = c THEN counted[d] + 1 ELSE counted[d]
    <3>1. Add(main.ts, Count(c, 1)) /\ passed' = passed
      BY <2>1 DEF ProcessSkips, traceVars
    <3> QED
      BY <1>1, <3>1, AddCounts, CounterNames
  <2>2. CASE ProcessSkips("dropped")
    BY <2>1, <2>2, CounterNames
  <2>3. CASE ProcessSkips("filtered")
    BY <2>1, <2>3, CounterNames
  <2>4. CASE ProcessPassesOn
    <3>1. passed' = passed \cup {main.trace} /\ counted' = counted
      BY <2>4 DEF ProcessPassesOn, statVars
    <3>2. P2 = P + 1
      BY <1>1, <1>4, <3>1, AccountTerms, FS_AddElement
    <3> QED
      BY <2>0, <3>1, <3>2
  <2> QED
    BY <2>2, <2>3, <2>4
<1>7. FlowTypeInv'
  <2>1. passed' \subseteq Trace
    BY <1>1, <1>4, <1>6 DEF FlowTypeInv
  <2> QED
    BY <1>1, <1>2, <1>3, <1>4, <1>6, <2>1 DEF FlowTypeInv
<1>8. FlowInv'
  BY <1>1, <1>2, <1>4, <1>6, <1>7, MainFlow
<1>9. R = N + L + 1 + D + F + P
  BY <1>4, AccountAs DEF AccountInv
<1>10. N + L + 1 + D + F + P = N + L + 0 + D2 + F2 + P2
  <2>1. \/ D2 = D + 1 /\ F2 = F /\ P2 = P
        \/ D2 = D /\ F2 = F + 1 /\ P2 = P
        \/ D2 = D /\ F2 = F /\ P2 = P + 1
    BY <1>6
  <2> HIDE DEF N, L, D, F, P, D2, F2, P2
  <2> QED
    BY <1>5, <2>1
<1>11. Normalizing' = Normalizing /\ raw' = raw
  BY <1>2 DEF Normalizing
<1>12. counted'["received"] = Cardinality(Normalizing') + Len(raw') + 0 + counted'["dropped"]
          + counted'["filtered"] + Cardinality(passed')
  BY <1>6, <1>9, <1>10, <1>11
<1>13. TracesAccountedFor'
  BY <1>4, <1>12 DEF TracesAccountedFor, Normalizing, Busy, Request
<1> QED
  BY <1>8, <1>13 DEF AccountInv

\* Shutdown, and the steps that touch none of this.
LEMMA OtherFlowStep ==
  ASSUME AccountInv, UNCHANGED <<handler, raw, counted, passed>>,
         main' = main \/ Cancelled \/ StopComponent
  PROVE  AccountInv'
<1>1. FlowInv /\ FlowTypeInv
  BY DEF AccountInv, FlowInv
<1>2. \/ main' = main
      \/ \E i \in Nat : main' = StopMain(i) /\ main.pc \in {"select", "stop"}
  <2>1. CASE Cancelled
    BY <2>1 DEF Cancelled
  <2>2. CASE StopComponent
    <3>1. main.trace + 1 \in Nat /\ main' = StopMain(main.trace + 1) /\ main.pc = "stop"
      BY <1>1, <2>2 DEF StopComponent, FlowTypeInv
    <3> QED
      BY <3>1
  <2> QED
    BY <2>1, <2>2
<1>3. /\ main' \in Mains /\ (Busy' <=> Busy) /\ (Busy => main'.trace = main.trace)
      /\ main'.pc = "stop" => main'.trace \in Nat
  <2>1. CASE main' = main
    BY <1>1, <2>1 DEF FlowTypeInv, Busy
  <2>2. ASSUME NEW i \in Nat, main' = StopMain(i), main.pc \in {"select", "stop"}
        PROVE  main' \in Mains /\ main'.pc \in {"stop", "returned"} /\ main'.trace = i
    <3> DEFINE c == IF i > Len(StopOrder) THEN "returned" ELSE "stop"
    <3>1. c \in {"stop", "returned"}
      OBVIOUS
    <3>2. main' = [main EXCEPT !.pc = c, !.trace = i]
      BY <2>2 DEF StopMain
    <3> HIDE DEF c
    <3> QED
      BY <1>1, <3>1, <3>2 DEF FlowTypeInv, Mains
  <2> QED
    BY <1>2, <2>1, <2>2 DEF Busy
<1>4. FlowTypeInv'
  BY <1>1, <1>3 DEF FlowTypeInv
<1>5. FlowInv'
  BY <1>1, <1>3, <1>4, MainFlow
<1>6. Normalizing' = Normalizing
  BY DEF Normalizing
<1> QED
  BY <1>3, <1>5, <1>6, AccountSame

\* Every step keeps the account.
LEMMA AccountStep ==
  ASSUME AccountInv, [Next]_vars
  PROVE  AccountInv'
<1>1. CASE \E r \in DOMAIN Requests : Handle(r) \/ HandlerStep(r)
  BY <1>1, HandleStep, HandlerCountStep, HandlerReceiveStep, HandlerSendStep DEF HandlerStep, Request
<1>2. CASE TakeTrace \/ ProcessStep
  BY <1>2, TakeStep, ProcessCountStep, ProcessEndStep DEF ProcessStep
<1>3. CASE Cancelled \/ StopComponent
  BY <1>3, OtherFlowStep DEF Cancelled, StopComponent, statVars, traceVars
<1>4. CASE Publish \/ Reset \/ UNCHANGED vars
  BY <1>4, OtherFlowStep DEF Publish, Reset, statVars, traceVars, vars
<1>5. CASE \E tr \in DOMAIN Traces : GoroutineStep(tr)
  BY <1>5, OtherFlowStep DEF GoroutineStep, SamplerAdd, ExtractTransactions, WriterReceive,
     GoroutineUnchanged, statVars
<1> QED
  BY <1>1, <1>2, <1>3, <1>4, <1>5 DEF Next

\* Nothing was received at the start.
LEMMA AccountInit == Init => AccountInv
<1> SUFFICES ASSUME Init PROVE AccountInv
  OBVIOUS
<1>1. \A r \in Request : /\ handler[r].pc = "idle" /\ handler[r].left = <<>>
                         /\ Pending(r) = Requests[r].traces
  BY DEF Init, NewHTTPReceiver, Pending, Request
<1>2. FlowTypeInv
  <2>1. handler \in [Request -> Handlers]
    BY DEF Init, NewHTTPReceiver, Request, Handlers
  <2>2. main \in Mains /\ main.pc = "select" /\ ~Busy
    BY DEF Init, Mains, Busy
  <2>3. counted \in [Counters -> Nat]
    BY DEF Init, NoCounts
  <2> QED
    BY <2>1, <2>2, <2>3 DEF Init, FlowTypeInv
<1>3. PendingInv
  <2> SUFFICES ASSUME NEW r \in Request
               PROVE  /\ Done(r) = 0
                      /\ \A k \in 1 .. Len(Pending(r)) : Pending(r)[k] = Requests[r].traces[0 + k]
    BY <1>1 DEF PendingInv
  <2>1. Requests[r].traces \in Seq(Trace)
    BY RequestsAssumption DEF Request, Trace
  <2> QED
    BY <1>1, <2>1 DEF Done
<1>4. OncePlaced
  BY DEF Init, OncePlaced, Busy
<1>5. TracesAccountedFor
  <2>1. Normalizing = {} /\ passed = {} /\ Len(raw) = 0 /\ ~Busy
    BY <1>1 DEF Init, Normalizing, Busy
  <2>2. counted["received"] = 0 /\ counted["dropped"] = 0 /\ counted["filtered"] = 0
    BY CounterNames DEF Init, NoCounts
  <2>3. Cardinality({}) = 0
    BY FS_EmptySet
  <2> QED
    BY <2>1, <2>2, <2>3, AccountAs
<1> QED
  BY <1>2, <1>3, <1>4, <1>5 DEF AccountInv, FlowInv

\* The account and what it needs hold in every state.
LEMMA AccountInvariant == Spec => []AccountInv
  BY AccountInit, AccountStep, PTL DEF Spec

\* The receiver and Process count every trace once, and forget none, for any
\* requests, any capacity of rawTraceChan and any interleaving of the handlers
\* with the main loop, its goroutines and the shutdown.
THEOREM TracesCorrect == Spec => []TracesAccountedFor
<1>1. AccountInv => TracesAccountedFor
  BY DEF AccountInv
<1> QED
  BY <1>1, AccountInvariant, PTL

-----------------------------------------------------------------------------
(* What the trace writer gets.                                              *)

WrittenInv == AccountInv /\ SampleInv /\ WrittenIffKept

\* Only Process and the goroutines it starts touch what is sampled.
LEMMA SampleSame ==
  ASSUME SampleInv, WrittenIffKept, UNCHANGED traceVars
  PROVE  SampleInv' /\ WrittenIffKept'
<1>1. UNCHANGED <<sampling, passed, sending, written, kept>>
  BY DEF traceVars
<1>2. SampleInv'
  BY <1>1 DEF SampleInv
<1>3. WrittenIffKept'
  BY <1>1 DEF WrittenIffKept
<1> QED
  BY <1>2, <1>3

\* Process passes a trace on that no sampler has seen.
LEMMA PassedSampled ==
  ASSUME WrittenInv, ProcessPassesOn
  PROVE  SampleInv' /\ WrittenIffKept'
<1>1. SampleInv /\ WrittenIffKept /\ FlowTypeInv /\ OncePlaced
  BY DEF WrittenInv, AccountInv, FlowInv
<1> DEFINE m == main.trace
<1>2. /\ passed' = passed \cup {m} /\ UNCHANGED <<sending, written, kept>> /\ m \in Trace
      /\ m \notin passed
  BY <1>1 DEF ProcessPassesOn, FlowTypeInv, OncePlaced, Busy
<1>3. kept[m] = {} /\ m \notin DOMAIN sampling /\ \A x \in sending \cup written : x.trace # m
  BY <1>1, <1>2 DEF SampleInv, WrittenIffKept
<1>4. CASE Traces[m].priority = "negative"
  <2>1. sampling' = sampling
    BY <1>4 DEF ProcessPassesOn
  <2>2. SampleInv'
    BY <1>1, <1>2, <2>1 DEF SampleInv
  <2>3. WrittenIffKept'
    BY <1>1, <1>2, <1>4, <2>1 DEF WrittenIffKept
  <2> QED
    BY <2>2, <2>3
<1>5. CASE Traces[m].priority # "negative"
  <2> DEFINE new == [todo |-> Samplers(m), sampled |-> FALSE]
  <2>1. sampling' = [tr \in DOMAIN sampling \cup {m} |-> IF tr = m THEN new ELSE sampling[tr]]
    BY <1>5 DEF ProcessPassesOn
  <2>2. new \in [todo : SUBSET SamplerNames, sampled : BOOLEAN] /\ new.sampled = FALSE
    <3>1. Samplers(m) \subseteq SamplerNames
      BY DEF Samplers, SamplerNames
    <3> QED
      BY <3>1
  <2> HIDE DEF m, new
  <2>3. /\ DOMAIN sampling' = DOMAIN sampling \cup {m} /\ sampling'[m] = new
        /\ \A tr \in DOMAIN sampling : sampling'[tr] = sampling[tr]
    BY <1>3, <2>1
  <2>4. sampling' \in [DOMAIN sampling' -> [todo : SUBSET SamplerNames, sampled : BOOLEAN]]
    BY <1>1, <2>1, <2>2 DEF SampleInv
  <2>5. SampleInv'
    <3>1. \A tr \in DOMAIN sampling' :
            /\ tr \in passed'
            /\ Traces[tr].priority # "negative"
            /\ sampling'[tr].sampled <=> kept'[tr] # {}
            /\ \A x \in sending' \cup written' : x.trace # tr
      BY <1>1, <1>2, <1>3, <1>5, <2>2, <2>3 DEF SampleInv
    <3> QED
      BY <1>1, <1>2, <2>4, <3>1 DEF SampleInv
  <2>6. WrittenIffKept'
    BY <1>1, <1>2, <2>3 DEF WrittenIffKept
  <2> QED
    BY <2>5, <2>6
<1> QED
  BY <1>4, <1>5

\* A sampler answers; its answer is not lost.
LEMMA AddSampled ==
  ASSUME SampleInv, WrittenIffKept, NEW tr \in Trace, SamplerAdd(tr)
  PROVE  SampleInv' /\ WrittenIffKept'
<1>1. PICK s \in sampling[tr].todo, keeps \in BOOLEAN :
        /\ kept' = IF keeps THEN [kept EXCEPT ![tr] = @ \cup {s}] ELSE kept
        /\ sampling' = [sampling EXCEPT ![tr].todo = @ \ {s},
                                        ![tr].sampled = AnyDecides(@, keeps)]
  BY DEF SamplerAdd
<1>2. tr \in DOMAIN sampling /\ UNCHANGED <<passed, sending, written>>
  BY DEF SamplerAdd
<1>3. s \in SamplerNames
  BY <1>2 DEF SampleInv
<1> DEFINE new == [[sampling[tr] EXCEPT !.todo = @ \ {s}] EXCEPT !.sampled = @ \/ keeps]
<1>4. /\ DOMAIN sampling' = DOMAIN sampling /\ sampling'[tr] = new
      /\ \A x \in DOMAIN sampling : x # tr => sampling'[x] = sampling[x]
      /\ sampling' \in [DOMAIN sampling -> [todo : SUBSET SamplerNames, sampled : BOOLEAN]]
      /\ new.sampled <=> (sampling[tr].sampled \/ keeps)
  <2>1. /\ sampling \in [DOMAIN sampling -> [todo : SUBSET SamplerNames, sampled : BOOLEAN]]
        /\ sampling[tr] \in [todo : SUBSET SamplerNames, sampled : BOOLEAN]
    BY <1>2 DEF SampleInv
  <2>2. sampling' = [sampling EXCEPT ![tr] = new]
    BY <1>1, <1>2, <2>1 DEF AnyDecides
  <2>3. /\ new \in [todo : SUBSET SamplerNames, sampled : BOOLEAN]
        /\ new.sampled <=> (sampling[tr].sampled \/ keeps)
    BY <2>1
  <2> HIDE DEF new
  <2> QED
    BY <1>2, <2>1, <2>2, <2>3
<1>5. /\ kept' \in [Trace -> SUBSET SamplerNames]
      /\ \A x \in Trace : x # tr => kept'[x] = kept[x]
      /\ kept'[tr] # {} <=> (kept[tr] # {} \/ keeps)
  BY <1>1, <1>3 DEF SampleInv
<1>6. new.sampled <=> kept'[tr] # {}
  BY <1>2, <1>4, <1>5 DEF SampleInv
<1> HIDE DEF new
<1>7. /\ tr \in passed /\ \A x \in sending \cup written : x.trace # tr /\ x.trace \in Trace
      /\ Traces[tr].priority # "negative"
  BY <1>2 DEF SampleInv
<1>8. SampleInv'
  <2>1. ASSUME NEW q \in DOMAIN sampling'
        PROVE  /\ q \in passed'
               /\ Traces[q].priority # "negative"
               /\ sampling'[q].sampled <=> kept'[q] # {}
               /\ \A x \in sending' \cup written' : x.trace # q
    <3>1. CASE q = tr
      BY <1>2, <1>4, <1>6, <1>7, <3>1
    <3>2. CASE q # tr
      <4>1. q \in DOMAIN sampling
        BY <1>4
      <4>2. sampling'[q] = sampling[q]
        BY <1>4, <3>2, <4>1
      <4> QED
        BY <1>1, <1>2, <3>2, <4>1, <4>2 DEF SampleInv
    <3> QED
      BY <3>1, <3>2
  <2>2. \A q \in Trace \ passed' : kept'[q] = {}
    BY <1>2, <1>5, <1>7 DEF SampleInv
  <2> QED
    BY <1>2, <1>4, <1>5, <2>1, <2>2 DEF SampleInv
<1>9. WrittenIffKept'
  <2>1. \A x \in sending' \cup written' :
          x.trace \in passed' /\ Traces[x.trace].priority # "negative" /\ (x.full <=> kept'[x.trace] # {})
    BY <1>2, <1>5, <1>7 DEF WrittenIffKept
  <2>2. ASSUME NEW q \in passed' \ DOMAIN sampling',
               Traces[q].priority # "negative" /\ (kept'[q] # {} \/ Extracts(q))
        PROVE  \E x \in sending' \cup written' : x.trace = q
    <3>1. q \in passed \ DOMAIN sampling /\ q # tr
      BY <1>2, <1>4
    <3>2. kept'[q] = kept[q]
      BY <1>1, <3>1 DEF SampleInv
    <3> QED
      BY <1>2, <2>2, <3>1, <3>2 DEF WrittenIffKept
  <2> QED
    BY <2>1, <2>2 DEF WrittenIffKept
<1> QED
  BY <1>8, <1>9

\* The samplers are done with a trace: it is sent, or only its transactions, or nothing.
LEMMA ExtractSampled ==
  ASSUME SampleInv, WrittenIffKept, NEW tr \in Trace, ExtractTransactions(tr)
  PROVE  SampleInv' /\ WrittenIffKept'
<1>1. /\ tr \in DOMAIN sampling /\ UNCHANGED <<passed, written, kept>>
      /\ sampling' = [x \in DOMAIN sampling \ {tr} |-> sampling[x]]
  BY DEF ExtractTransactions
<1> DEFINE x == [trace |-> tr, full |-> sampling[tr].sampled]
<1>2. sending' = IF sampling[tr].sampled \/ Extracts(tr) THEN sending \cup {x} ELSE sending
  BY DEF ExtractTransactions
<1>3. /\ x \in [trace : Trace, full : BOOLEAN] /\ x.trace = tr /\ x.full = sampling[tr].sampled
      /\ tr \in passed /\ Traces[tr].priority # "negative"
      /\ sampling[tr].sampled <=> kept[tr] # {}
  BY <1>1 DEF SampleInv
<1> HIDE DEF x
<1>4. /\ DOMAIN sampling' = DOMAIN sampling \ {tr}
      /\ \A q \in DOMAIN sampling' : sampling'[q] = sampling[q]
  BY <1>1
<1>5. SampleInv'
  <2>1. sampling' \in [DOMAIN sampling' -> [todo : SUBSET SamplerNames, sampled : BOOLEAN]]
    BY <1>1, <1>4 DEF SampleInv
  <2>2. sending' \cup written' \subseteq [trace : Trace, full : BOOLEAN]
    BY <1>1, <1>2, <1>3 DEF SampleInv
  <2>3. \A q \in DOMAIN sampling' :
          /\ q \in passed'
          /\ Traces[q].priority # "negative"
          /\ sampling'[q].sampled <=> kept'[q] # {}
          /\ \A y \in sending' \cup written' : y.trace # q
    BY <1>1, <1>2, <1>3, <1>4 DEF SampleInv
  <2> QED
    BY <1>1, <2>1, <2>2, <2>3 DEF SampleInv
<1>6. WrittenIffKept'
  <2>1. \A y \in sending' \cup written' :
          y.trace \in passed' /\ Traces[y.trace].priority # "negative" /\ (y.full <=> kept'[y.trace] # {})
    BY <1>1, <1>2, <1>3 DEF WrittenIffKept
  <2>2. ASSUME NEW q \in passed' \ DOMAIN sampling',
               Traces[q].priority # "negative" /\ (kept'[q] # {} \/ Extracts(q))
        PROVE  \E y \in sending' \cup written' : y.trace = q
    <3>1. CASE q = tr
      BY <1>1, <1>2, <1>3, <2>2, <3>1
    <3>2. CASE q # tr
      BY <1>1, <1>2, <1>4, <2>2, <3>2 DEF WrittenIffKept
    <3> QED
      BY <3>1, <3>2
  <2> QED
    BY <2>1, <2>2 DEF WrittenIffKept
<1> QED
  BY <1>5, <1>6

\* The writer receives what was sent.
LEMMA ReceiveSampled ==
  ASSUME SampleInv, WrittenIffKept, NEW tr \in Trace, WriterReceive(tr)
  PROVE  SampleInv' /\ WrittenIffKept'
<1>1. UNCHANGED <<sampling, passed, kept>> /\ sending' \cup written' = sending \cup written
  BY DEF WriterReceive
<1>2. SampleInv'
  BY <1>1 DEF SampleInv
<1>3. WrittenIffKept'
  BY <1>1 DEF WrittenIffKept
<1> QED
  BY <1>2, <1>3

\* Every step keeps what the writer gets in line with the samplers.
LEMMA WrittenStep ==
  ASSUME WrittenInv, [Next]_vars
  PROVE  WrittenInv'
<1>1. AccountInv' /\ SampleInv /\ WrittenIffKept
  BY AccountStep DEF WrittenInv
<1>2. CASE UNCHANGED traceVars
  BY <1>1, <1>2, SampleSame DEF WrittenInv
<1>3. CASE ProcessPassesOn
  BY <1>1, <1>3, PassedSampled DEF WrittenInv
<1>4. ASSUME NEW tr \in Trace, GoroutineStep(tr) PROVE WrittenInv'
  BY <1>1, <1>4, AddSampled, ExtractSampled, ReceiveSampled DEF GoroutineStep, WrittenInv
<1>5. UNCHANGED traceVars \/ ProcessPassesOn \/ \E tr \in Trace : GoroutineStep(tr)
  <2>1. CASE \E r \in DOMAIN Requests : Handle(r) \/ HandlerStep(r)
    BY <2>1 DEF Handle, HandlerStep, HandlerGetStats, HandlerCountBytes, HandlerReceiveTrace,
       HandlerSendTrace, HandlerCountServices, HandlerUnchanged
  <2>2. CASE TakeTrace \/ ProcessStep
    BY <2>2 DEF TakeTrace, ProcessStep, ProcessGetStats, ProcessCountPriority, ProcessSkips
  <2>3. CASE Cancelled \/ StopComponent \/ Publish \/ Reset \/ UNCHANGED vars
    BY <2>3 DEF Cancelled, StopComponent, Publish, Reset, vars
  <2>4. CASE \E tr \in DOMAIN Traces : GoroutineStep(tr)
    BY <2>4 DEF Trace
  <2> QED
    BY <2>1, <2>2, <2>3, <2>4 DEF Next
<1> QED
  BY <1>2, <1>3, <1>4, <1>5

\* The trace writer is offered exactly what the samplers kept, and the transactions
\* of what they did not, in whatever order the samplers of a trace answer and however
\* long its goroutine is blocked on the writer, during the shutdown too.
THEOREM WrittenCorrect == Spec => []WrittenIffKept
<1>1. Init => WrittenInv
  <2> SUFFICES ASSUME Init PROVE SampleInv /\ WrittenIffKept
    BY AccountInit DEF WrittenInv
  <2>1. DOMAIN sampling = {} /\ sampling = <<>> /\ passed = {} /\ sending = {} /\ written = {}
    BY DEF Init
  <2>2. kept \in [Trace -> SUBSET SamplerNames] /\ \A tr \in Trace : kept[tr] = {}
    BY DEF Init, Trace
  <2>3. sampling \in [DOMAIN sampling -> [todo : SUBSET SamplerNames, sampled : BOOLEAN]]
    BY <2>1
  <2>4. SampleInv
    BY <2>1, <2>2, <2>3 DEF SampleInv
  <2>5. WrittenIffKept
    BY <2>1 DEF WrittenIffKept
  <2> QED
    BY <2>4, <2>5
<1>2. WrittenInv => WrittenIffKept
  BY DEF WrittenInv
<1> QED
  BY <1>1, <1>2, WrittenStep, PTL DEF Spec

-----------------------------------------------------------------------------
(* What is published.                                                       *)

LiveIn(st, recs, c) == SumFunction([ts \in Range(st) |-> recs[ts][c]])

PointsInto(st, recs) == \A x \in DOMAIN st : st[x] \in 1 .. Len(recs)

\* The counters in the map are finitely many, and their sum is a number.
LEMMA LiveTerms ==
  ASSUME NEW recs \in Seq([Counters -> Nat]), NEW st, PointsInto(st, recs), NEW c \in Counters
  PROVE  LET f == [ts \in Range(st) |-> recs[ts][c]]
         IN  /\ IsFiniteSet(Range(st)) /\ Range(st) \subseteq 1 .. Len(recs)
             /\ IntOn(f, Range(st))
             /\ LiveIn(st, recs, c) = SumFunctionOnSet(f, Range(st))
             /\ LiveIn(st, recs, c) \in Int
<1> DEFINE f == [ts \in Range(st) |-> recs[ts][c]]
<1>1. Range(st) \subseteq 1 .. Len(recs) /\ Len(recs) \in Nat
  BY DEF Range, PointsInto
<1>2. IsFiniteSet(Range(st))
  <2>1. IsFiniteSet(1 .. Len(recs))
    BY <1>1, FS_Interval
  <2> QED
    BY <1>1, <2>1, FS_Subset
<1>3. IntOn(f, Range(st))
  BY <1>1 DEF IntOn
<1>4. LiveIn(st, recs, c) = SumFunctionOnSet(f, Range(st))
  <2>1. DOMAIN f = Range(st)
    OBVIOUS
  <2>2. LiveIn(st, recs, c) = SumFunction(f)
    BY DEF LiveIn
  <2> HIDE DEF f
  <2> QED
    BY <2>1, <2>2 DEF SumFunction
<1>5. SumFunctionOnSet(f, Range(st)) \in Int
  <2> HIDE DEF f
  <2> QED
    BY <1>2, <1>3, SumInt
<1> QED
  BY <1>1, <1>2, <1>3, <1>4, <1>5

\* more is recs after n was added to a counter d of the record at ts.
CountedIn(more, recs, ts, d, n) ==
    /\ recs \in Seq([Counters -> Nat]) /\ more \in Seq([Counters -> Nat])
    /\ d \in Counters /\ n \in Nat /\ ts \in 1 .. Len(recs) /\ Len(more) = Len(recs)
    /\ \A k \in 1 .. Len(recs) :
            more[k] = IF k = ts THEN Plus(recs[k], Count(d, n)) ELSE recs[k]

\* Counting in a record of the map adds to the sum, in another record it does not.
LEMMA LiveAdd ==
  ASSUME NEW recs, NEW st, PointsInto(st, recs), NEW d, NEW n, NEW ts, NEW more,
         CountedIn(more, recs, ts, d, n), NEW c \in Counters
  PROVE  LiveIn(st, more, c) =
            LiveIn(st, recs, c) + (IF ts \in Range(st) /\ c = d THEN n ELSE 0)
<1>0. /\ recs \in Seq([Counters -> Nat]) /\ more \in Seq([Counters -> Nat])
      /\ d \in Counters /\ n \in Nat /\ ts \in 1 .. Len(recs) /\ Len(more) = Len(recs)
  BY DEF CountedIn
<1>1. /\ recs[ts] \in [Counters -> Nat] /\ Plus(recs[ts], Count(d, n)) \in [Counters -> Nat]
      /\ \A e \in Counters :
            Plus(recs[ts], Count(d, n))[e] = IF e = d THEN recs[ts][e] + n ELSE recs[ts][e]
  <2> DEFINE a == recs[ts]
  <2>1. a \in [Counters -> Nat] /\ d \in Counters /\ n \in Nat
    BY <1>0
  <2> HIDE DEF a
  <2>2. /\ Plus(a, Count(d, n)) \in [Counters -> Nat]
        /\ \A e \in Counters : Plus(a, Count(d, n))[e] = IF e = d THEN a[e] + n ELSE a[e]
    BY <2>1, CountOne
  <2> QED
    BY <2>1, <2>2 DEF a
<1>2. /\ more \in Seq([Counters -> Nat]) /\ Len(more) = Len(recs)
      /\ more[ts] = Plus(recs[ts], Count(d, n))
      /\ \A k \in 1 .. Len(recs) : k # ts => more[k] = recs[k]
  BY <1>0 DEF CountedIn
<1>3. PointsInto(st, more)
  BY <1>2 DEF PointsInto
<1>4. QED
  <2> DEFINE R == Range(st)
             old == [k \in R |-> recs[k][c]]
             new == [k \in R |-> more[k][c]]
  <2>1. /\ IsFiniteSet(R) /\ R \subseteq 1 .. Len(recs) /\ IntOn(old, R)
        /\ LiveIn(st, recs, c) = SumFunctionOnSet(old, R) /\ LiveIn(st, recs, c) \in Int
    BY <1>0, LiveTerms
  <2>2. IntOn(new, R) /\ LiveIn(st, more, c) = SumFunctionOnSet(new, R)
    BY <1>2, <1>3, LiveTerms
  <2>3. \A k \in R \ {ts} : old[k] = new[k]
    BY <1>2, <2>1
  <2>4. CASE ts \in R
    <3>1. new[ts] = (IF c = d THEN old[ts] + n ELSE old[ts]) /\ old[ts] \in Nat
      BY <1>1, <1>2, <2>4
    <3> HIDE DEF R, old, new
    <3>2. SumFunctionOnSet(new, R) = SumFunctionOnSet(old, R) - old[ts] + new[ts]
      <4> DEFINE z == ts
      <4>1. /\ IsFiniteSet(R) /\ IntOn(old, R) /\ IntOn(new, R) /\ z \in R
            /\ \A k \in R \ {z} : old[k] = new[k]
        BY <2>1, <2>2, <2>3, <2>4
      <4> HIDE DEF z
      <4>2. SumFunctionOnSet(new, R) = SumFunctionOnSet(old, R) - old[z] + new[z]
        BY <4>1, SumChange
      <4> QED
        BY <4>2 DEF z
    <3>3. /\ LiveIn(st, recs, c) = SumFunctionOnSet(old, R) /\ LiveIn(st, recs, c) \in Int
          /\ LiveIn(st, more, c) = SumFunctionOnSet(new, R)
      BY <2>1, <2>2
    <3>4. LiveIn(st, more, c) = LiveIn(st, recs, c) - old[ts] + new[ts]
      BY <3>2, <3>3
    <3>5. LiveIn(st, more, c) = LiveIn(st, recs, c) + (IF c = d THEN n ELSE 0)
      <4> DEFINE a == LiveIn(st, recs, c)
                 b == LiveIn(st, more, c)
                 x == old[ts]
                 y == new[ts]
      <4>1. n \in Nat /\ x \in Nat /\ a \in Int /\ b = a - x + y
        BY <1>0, <3>1, <3>3, <3>4
      <4>2. (c = d => y = x + n) /\ (c # d => y = x)
        BY <3>1
      <4> HIDE DEF a, b, x, y
      <4>3. (c = d => b = a + n) /\ (c # d => b = a + 0)
        BY <4>1, <4>2
      <4> QED
        BY <4>3 DEF a, b
    <3> QED
      BY <2>4, <3>5 DEF R
  <2>5. CASE ts \notin R
    <3> HIDE DEF old, new
    <3>1. \A k \in R : old[k] = new[k]
      BY <2>3, <2>5
    <3>2. SumFunctionOnSet(new, R) = SumFunctionOnSet(old, R)
      BY <2>1, <3>1, SumSame
    <3> QED
      BY <2>1, <2>2, <2>5, <3>2
  <2> QED
    BY <2>4, <2>5

\* The map st2 of the records more has one record more, an empty one, than st and recs.
OneMore(st2, more, st, recs) ==
    /\ recs \in Seq([Counters -> Nat]) /\ more \in Seq([Counters -> Nat])
    /\ PointsInto(st, recs) /\ PointsInto(st2, more)
    /\ Range(st2) = Range(st) \cup {Len(recs) + 1}
    /\ \A k \in 1 .. Len(recs) : more[k] = recs[k]
    /\ more[Len(recs) + 1] = NoCounts

\* That record adds nothing.
LEMMA LiveNew ==
  ASSUME NEW recs, NEW st, NEW st2, NEW more, OneMore(st2, more, st, recs), NEW c \in Counters
  PROVE  LiveIn(st2, more, c) = LiveIn(st, recs, c)
<1> DEFINE z == Len(recs) + 1
<1>0. \A d \in Counters : NoCounts[d] = 0
  BY DEF NoCounts
<1>1. /\ recs \in Seq([Counters -> Nat]) /\ more \in Seq([Counters -> Nat])
      /\ PointsInto(st, recs) /\ PointsInto(st2, more) /\ Len(recs) \in Nat
      /\ more[z] = NoCounts /\ \A k \in 1 .. Len(recs) : more[k] = recs[k]
  BY DEF OneMore
<1>3. Range(st2) = Range(st) \cup {z}
  BY DEF OneMore
<1>4. z \notin Range(st)
  BY <1>1 DEF PointsInto, Range
<1>5. QED
  <2> DEFINE R == Range(st)
             old == [k \in R |-> recs[k][c]]
             new == [k \in Range(st2) |-> more[k][c]]
  <2>1. /\ IsFiniteSet(R) /\ R \subseteq 1 .. Len(recs)
        /\ LiveIn(st, recs, c) = SumFunctionOnSet(old, R) /\ LiveIn(st, recs, c) \in Int
    BY <1>1, LiveTerms
  <2>2. IntOn(new, Range(st2)) /\ LiveIn(st2, more, c) = SumFunctionOnSet(new, Range(st2))
    BY <1>1, LiveTerms
  <2>3. \A k \in R : old[k] = new[k]
    BY <1>1, <1>3, <2>1
  <2>4. new[z] = 0
    BY <1>0, <1>1, <1>3
  <2> HIDE DEF R, old, new, z
  <2>5. SumFunctionOnSet(new, R \cup {z}) = new[z] + SumFunctionOnSet(new, R)
    BY <1>3, <1>4, <2>1, <2>2, SumInsert DEF R
  <2>6. SumFunctionOnSet(new, R) = SumFunctionOnSet(old, R)
    <3>1. IsFiniteSet(R)
      BY <2>1
    <3> QED
      BY <2>3, <3>1, SumSame
  <2> QED
    <3>1. LiveIn(st2, more, c) = SumFunctionOnSet(new, R \cup {z})
      BY <1>3, <2>2 DEF R
    <3> QED
      BY <2>1, <2>4, <2>5, <2>6, <3>1

CountsInv == AccountInv /\ RecordsInv /\ PublishedInv

\* The goroutines that count keep the records they count in.
TsKept ==
    /\ \A q \in Request :
        handler'[q].pc \in Counting => handler[q].pc \in Counting /\ handler'[q].ts = handler[q].ts
    /\ main'.pc \in Processing => main.pc \in Processing /\ main'.ts = main.ts

\* The sum of what is in the map, and its terms.
LEMMA LiveSum ==
  ASSUME RecordsInv
  PROVE  /\ PointsInto(stats, records)
         /\ \A c \in Counters : Live(c) = LiveIn(stats, records, c) /\ Live(c) \in Int
<1>1. PointsInto(stats, records)
  BY DEF RecordsInv, PointsInto
<1>2. records \in Seq([Counters -> Nat])
  BY DEF RecordsInv
<1>3. \A c \in Counters : Live(c) = LiveIn(stats, records, c)
  BY DEF Live, LiveIn
<1> QED
  BY <1>1, <1>2, <1>3, LiveTerms

\* A step that touches no counter.
LEMMA CountsSame ==
  ASSUME RecordsInv, PublishedInv, TsKept, UNCHANGED <<statVars, logVars>>
  PROVE  RecordsInv' /\ PublishedInv'
<1>1. UNCHANGED <<stats, records, counted, raced, logger, published>>
  BY DEF statVars, logVars
<1>2. RecordsInv'
  BY <1>1 DEF RecordsInv, TsKept
<1>3. PublishedInv'
  BY <1>1 DEF PublishedInv, Live
<1> QED
  BY <1>2, <1>3

\* Something is counted, in a record that need not be in the map any more.
Counts == \E ts \in 1 .. Len(records), c \in Counters, n \in Nat : Add(ts, Count(c, n))

\* What is counted in vain is counted in a race.
LEMMA CountsAdd ==
  ASSUME FlowTypeInv, RecordsInv, PublishedInv, TsKept, Counts, UNCHANGED logVars
  PROVE  RecordsInv' /\ PublishedInv'
<1>1. PICK ts \in 1 .. Len(records), c \in Counters, n \in Nat : Add(ts, Count(c, n))
  BY DEF Counts
<1>2. /\ records' = [records EXCEPT ![ts] = Plus(@, Count(c, n))]
      /\ raced' = (raced \/ ts \notin Range(stats) \/ logger.pc = "reset")
      /\ UNCHANGED <<stats, logger, published>>
  BY <1>1 DEF Add, logVars
<1>3. /\ counted' \in [Counters -> Nat]
      /\ \A d \in Counters : counted'[d] = IF d = c THEN counted[d] + n ELSE counted[d]
  BY <1>1, AddCounts
<1>4. records \in Seq([Counters -> Nat]) /\ PointsInto(stats, records)
  BY LiveSum DEF RecordsInv
<1>5. /\ records' \in Seq([Counters -> Nat]) /\ Len(records') = Len(records)
      /\ \A d \in Counters :
            LiveIn(stats, records', d) =
                LiveIn(stats, records, d) + (IF ts \in Range(stats) /\ d = c THEN n ELSE 0)
  <2>1. Plus(records[ts], Count(c, n)) \in [Counters -> Nat]
    <3>1. records[ts] \in [Counters -> Nat]
      BY <1>4
    <3> QED
      BY <3>1, CountOne
  <2> DEFINE p == Plus(records[ts], Count(c, n))
             recs == records
             more == records'
             z == ts
             k == n
  <2>2. /\ more \in Seq([Counters -> Nat]) /\ Len(more) = Len(recs)
        /\ \A i \in 1 .. Len(recs) : more[i] = IF i = z THEN p ELSE recs[i]
    <3> HIDE DEF p
    <3>1. records' = [records EXCEPT ![ts] = p]
      BY <1>2 DEF p
    <3> QED
      BY <1>4, <2>1, <3>1 DEF p
  <2>3. /\ recs \in Seq([Counters -> Nat]) /\ PointsInto(stats, recs)
        /\ c \in Counters /\ k \in Nat /\ z \in 1 .. Len(recs)
        /\ \A i \in 1 .. Len(recs) : more[i] = IF i = z THEN Plus(recs[i], Count(c, k)) ELSE recs[i]
    BY <1>4, <2>2
  <2> HIDE DEF recs, more, z, k, p
  <2>4. \A d \in Counters :
            LiveIn(stats, more, d) =
                LiveIn(stats, recs, d) + (IF z \in Range(stats) /\ d = c THEN k ELSE 0)
    <3>1. CountedIn(more, recs, z, c, k)
      BY <2>2, <2>3 DEF CountedIn
    <3> QED
      BY <2>3, <3>1, LiveAdd
  <2> QED
    BY <2>2, <2>4 DEF recs, more, z, k
<1>6. RecordsInv'
  BY <1>2, <1>5 DEF RecordsInv, TsKept
<1>7. ASSUME NEW d \in Counters
      PROVE  LET m == published'[d] + (IF logger'.pc = "reset" THEN 0 ELSE Live(d)')
             IN  m <= counted'[d] /\ (~raced' => m = counted'[d])
  <2>1. Live(d)' = LiveIn(stats, records', d)
    BY <1>2 DEF Live, LiveIn
  <2>2. Live(d) = LiveIn(stats, records, d) /\ Live(d) \in Int
    BY LiveSum
  <2>3. published[d] \in Int /\ counted[d] \in Nat
    BY DEF RecordsInv, FlowTypeInv
  <2> DEFINE m == published[d] + (IF logger.pc = "reset" THEN 0 ELSE Live(d))
  <2>4. m <= counted[d] /\ (~raced => m = counted[d])
    BY DEF PublishedInv
  <2>5. CASE logger.pc = "reset"
    <3>1. raced'
      BY <1>2, <2>5, Zenon
    <3>2. published[d] <= counted[d]
      BY <2>3, <2>4, <2>5
    <3>3. published'[d] + 0 <= counted'[d] /\ logger'.pc = "reset"
      BY <1>2, <1>3, <2>3, <2>5, <3>2
    <3> QED
      BY <3>1, <3>3
  <2>6. CASE logger.pc # "reset"
    <3>1. /\ published[d] + Live(d) <= counted[d]
          /\ ~raced => published[d] + Live(d) = counted[d]
      BY <2>4, <2>6
    <3>2. Live(d)' = Live(d) + (IF ts \in Range(stats) /\ d = c THEN n ELSE 0)
      BY <1>5, <2>1, <2>2
    <3>3. ~raced' => ~raced /\ ts \in Range(stats)
      BY <1>2
    <3> DEFINE l == Live(d)
               l2 == Live(d)'
    <3>4. /\ l \in Int /\ l2 = l + (IF ts \in Range(stats) /\ d = c THEN n ELSE 0)
          /\ published[d] + l <= counted[d] /\ (~raced => published[d] + l = counted[d])
      BY <2>2, <3>1, <3>2
    <3>5. /\ published'[d] = published[d] /\ logger'.pc # "reset"
          /\ counted'[d] = IF d = c THEN counted[d] + n ELSE counted[d]
      BY <1>2, <1>3, <2>6
    <3> HIDE DEF l, l2
    <3>6. published[d] + l2 <= counted'[d] /\ (~raced' => published[d] + l2 = counted'[d])
      BY <2>3, <3>3, <3>4, <3>5
    <3> QED
      BY <3>5, <3>6 DEF l2
  <2> QED
    BY <2>5, <2>6
<1>8. PublishedInv'
  BY <1>7 DEF PublishedInv
<1> QED
  BY <1>6, <1>8

\* The counters of some tags are looked up, or made; they are empty then.
LEMMA TagStatsGot ==
  ASSUME RecordsInv, NEW tags, NEW ts, GetTagStats(tags, ts)
  PROVE  /\ records' \in Seq([Counters -> Nat]) /\ Len(records') >= Len(records)
         /\ PointsInto(stats', records') /\ ts \in 1 .. Len(records')
         /\ \A c \in Counters : LiveIn(stats', records', c) = LiveIn(stats, records, c)
<1>1. records \in Seq([Counters -> Nat]) /\ PointsInto(stats, records)
  BY LiveSum DEF RecordsInv
<1>2. CASE tags \in DOMAIN stats
  BY <1>1, <1>2 DEF GetTagStats, PointsInto
<1>3. CASE tags \notin DOMAIN stats
  <2>1. /\ ts = Len(records) + 1 /\ records' = Append(records, NoCounts)
        /\ stats' = [x \in DOMAIN stats \cup {tags} |->
                        IF x = tags THEN Len(records) + 1 ELSE stats[x]]
    BY <1>3 DEF GetTagStats
  <2>2. /\ records' \in Seq([Counters -> Nat]) /\ Len(records') = Len(records) + 1
        /\ PointsInto(stats', records')
        /\ \A c \in Counters : LiveIn(stats', records', c) = LiveIn(stats, records, c)
    <3> DEFINE n == Len(records)
    <3>1. n \in Nat /\ NoCounts \in [Counters -> Nat]
      BY <1>1 DEF NoCounts
    <3>2. /\ records' \in Seq([Counters -> Nat]) /\ Len(records') = n + 1
          /\ records'[n + 1] = NoCounts /\ \A k \in 1 .. n : records'[k] = records[k]
      BY <1>1, <2>1, <3>1
    <3>3. /\ DOMAIN stats' = DOMAIN stats \cup {tags} /\ stats'[tags] = n + 1
          /\ \A x \in DOMAIN stats : stats'[x] = stats[x]
      BY <1>3, <2>1
    <3>4. Range(stats') = Range(stats) \cup {n + 1}
      BY <3>3 DEF Range
    <3>5. PointsInto(stats', records')
      BY <1>1, <3>1, <3>2, <3>3 DEF PointsInto
    <3>6. OneMore(stats', records', stats, records)
      BY <1>1, <3>2, <3>4, <3>5 DEF OneMore
    <3> QED
      BY <3>2, <3>5, <3>6, LiveNew
  <2>3. Len(records) \in Nat
    BY <1>1
  <2>4. ts \in 1 .. Len(records') /\ Len(records') >= Len(records)
    BY <2>1, <2>2, <2>3
  <2> QED
    BY <2>2, <2>4
<1> QED
  BY <1>2, <1>3

\* A step that makes a record publishes and counts nothing.
LEMMA CountsGet ==
  ASSUME RecordsInv, PublishedInv, \E tags, ts : GetTagStats(tags, ts),
         UNCHANGED <<counted, raced, logVars>>,
         \A q \in Request : handler'[q].pc \in Counting =>
            \/ handler[q].pc \in Counting /\ handler'[q].ts = handler[q].ts
            \/ handler'[q].ts \in 1 .. Len(records'),
         main'.pc \in Processing =>
            \/ main.pc \in Processing /\ main'.ts = main.ts
            \/ main'.ts \in 1 .. Len(records')
  PROVE  RecordsInv' /\ PublishedInv'
<1>1. /\ records' \in Seq([Counters -> Nat]) /\ Len(records') >= Len(records)
      /\ PointsInto(stats', records')
      /\ \A c \in Counters : LiveIn(stats', records', c) = LiveIn(stats, records, c)
  BY TagStatsGot
<1>2. UNCHANGED <<logger, published>>
  BY DEF logVars
<1>3. Len(records) \in Nat /\ Len(records') \in Nat
  BY <1>1 DEF RecordsInv
<1>4. 1 .. Len(records) \subseteq 1 .. Len(records')
  BY <1>1, <1>3
<1>5. RecordsInv'
  <2>1. \A q \in Request : handler'[q].pc \in Counting => handler'[q].ts \in 1 .. Len(records')
    BY <1>4 DEF RecordsInv
  <2>2. main'.pc \in Processing => main'.ts \in 1 .. Len(records')
    BY <1>4 DEF RecordsInv
  <2> QED
    BY <1>1, <1>2, <2>1, <2>2 DEF RecordsInv, PointsInto
<1>6. \A c \in Counters : Live(c)' = Live(c)
  <2>1. \A c \in Counters : Live(c) = LiveIn(stats, records, c)
    BY LiveSum
  <2> QED
    BY <1>1, <2>1 DEF Live, LiveIn
<1>7. PublishedInv'
  BY <1>2, <1>6 DEF PublishedInv
<1> QED
  BY <1>5, <1>7

\* What is in the map is published.
LEMMA CountsPublish ==
  ASSUME RecordsInv, PublishedInv, Publish
  PROVE  RecordsInv' /\ PublishedInv'
<1>1. /\ UNCHANGED <<handler, main, stats, records, counted, raced>> /\ logger.pc = "wait"
      /\ logger' = [pc |-> "reset", rounds |-> logger.rounds + 1]
      /\ published' = [c \in Counters |-> published[c] + Live(c)]
  BY DEF Publish, Plus, PublishAll, LiveCounts, statVars
<1>2. \A c \in Counters : Live(c) \in Int
  BY LiveSum
<1>3. published' \in [Counters -> Int] /\ \A c \in Counters : published'[c] = published[c] + Live(c)
  BY <1>1, <1>2 DEF RecordsInv
<1>4. logger' \in [pc : {"wait", "reset"}, rounds : Nat] /\ logger'.pc = "reset"
  BY <1>1 DEF RecordsInv
<1>5. RecordsInv'
  BY <1>1, <1>3, <1>4 DEF RecordsInv
<1>6. ASSUME NEW c \in Counters
      PROVE  published'[c] + 0 <= counted'[c] /\ (~raced' => published'[c] + 0 = counted'[c])
  <2>1. published[c] + Live(c) <= counted[c] /\ (~raced => published[c] + Live(c) = counted[c])
    BY <1>1 DEF PublishedInv
  <2>2. published'[c] \in Int
    BY <1>3
  <2> QED
    BY <1>1, <1>3, <2>1, <2>2
<1>7. PublishedInv'
  BY <1>4, <1>6 DEF PublishedInv
<1> QED
  BY <1>5, <1>7

\* The records of the map are set to zero, those that leave it too.
LEMMA CountsReset ==
  ASSUME RecordsInv, PublishedInv, Reset
  PROVE  RecordsInv' /\ PublishedInv'
<1> DEFINE D == {x \in DOMAIN stats : ~isEmpty(records[stats[x]])}
<1>1. /\ UNCHANGED <<handler, main, counted, raced, published>> /\ logger.pc = "reset"
      /\ logger' = [logger EXCEPT !.pc = "wait"]
      /\ stats' = [x \in D |-> stats[x]]
      /\ records' = [ts \in DOMAIN records |->
                        IF ts \in Range(stats) THEN NoCounts ELSE records[ts]]
  BY DEF Reset
<1>2. /\ logger' \in [pc : {"wait", "reset"}, rounds : Nat] /\ logger'.pc = "wait"
      /\ records \in Seq([Counters -> Nat]) /\ published \in [Counters -> Int]
  BY <1>1 DEF RecordsInv
<1>3. NoCounts \in [Counters -> Nat] /\ \A c \in Counters : NoCounts[c] = 0
  BY DEF NoCounts
<1>4. records' \in Seq([Counters -> Nat]) /\ Len(records') = Len(records)
  <2> DEFINE n == Len(records)
             S == [Counters -> Nat]
  <2>1. n \in Nat /\ DOMAIN records = 1 .. n /\ \A k \in 1 .. n : records[k] \in S
    BY <1>2
  <2>2. records' = [k \in 1 .. n |-> IF k \in Range(stats) THEN NoCounts ELSE records[k]]
    BY <1>1, <2>1
  <2> HIDE DEF n, S
  <2>3. records' \in [1 .. n -> S]
    BY <1>3, <2>1, <2>2 DEF S
  <2>4. records' \in Seq(S) /\ Len(records') = n
    BY <2>1, <2>3
  <2> QED
    BY <2>4 DEF n, S
<1>5. DOMAIN stats' \subseteq DOMAIN stats /\ \A x \in DOMAIN stats' : stats'[x] = stats[x]
  BY <1>1
<1>6. RecordsInv'
  BY <1>1, <1>2, <1>4, <1>5 DEF RecordsInv
<1>7. PointsInto(stats', records')
  BY <1>4, <1>5 DEF RecordsInv, PointsInto
<1>8. ASSUME NEW c \in Counters PROVE Live(c)' = 0
  <2> DEFINE R == Range(stats')
             f == [ts \in R |-> records'[ts][c]]
  <2>1. Live(c)' = LiveIn(stats', records', c)
    BY DEF Live, LiveIn
  <2>2. /\ IsFiniteSet(R) /\ R \subseteq 1 .. Len(records')
        /\ LiveIn(stats', records', c) = SumFunctionOnSet(f, R)
    BY <1>4, <1>7, LiveTerms
  <2>3. R \subseteq Range(stats)
    BY <1>5 DEF Range
  <2>4. \A ts \in R : f[ts] = 0
    <3>1. \A ts \in R : ts \in DOMAIN records /\ ts \in Range(stats)
      BY <1>2, <1>4, <2>2, <2>3
    <3>2. \A ts \in R : records'[ts] = NoCounts
      BY <1>1, <3>1
    <3> QED
      BY <1>3, <3>2
  <2> HIDE DEF R, f
  <2>5. SumFunctionOnSet(f, R) = 0
    BY <2>2, <2>4, SumZero
  <2> QED
    BY <2>1, <2>2, <2>5
<1>9. ASSUME NEW c \in Counters
      PROVE  published'[c] + Live(c)' <= counted'[c]
             /\ (~raced' => published'[c] + Live(c)' = counted'[c])
  <2>1. published[c] + 0 <= counted[c] /\ (~raced => published[c] + 0 = counted[c])
    BY <1>1 DEF PublishedInv
  <2> QED
    BY <1>1, <1>8, <2>1
<1>10. PublishedInv'
  BY <1>2, <1>9 DEF PublishedInv
<1> QED
  BY <1>6, <1>10

\* A handler that goes on to another place keeps its record.
LEMMA HandlerKeepsTs ==
  ASSUME FlowTypeInv, NEW r \in Request, UNCHANGED main,
         \/ Handle(r) \/ HandlerCountBytes(r) \/ HandlerReceiveTrace(r)
         \/ HandlerSendTrace(r) \/ HandlerCountServices(r)
  PROVE  TsKept
<1>1. handler \in [Request -> Handlers] /\ handler[r] \in Handlers
  BY DEF FlowTypeInv
<1>2. /\ \A q \in Request : q # r => handler'[q] = handler[q]
      /\ handler'[r].pc \in Counting => handler[r].pc \in Counting /\ handler'[r].ts = handler[r].ts
  <2>1. CASE Handle(r)
    <3>1. \A q \in Request : q # r => handler'[q] = handler[q]
      BY <1>1, <2>1 DEF Handle, PreSampledOut, Refused, Decoded
    <3>2. handler'[r].pc \in {"returned", "stats"}
      BY <1>1, <2>1 DEF Handle, PreSampledOut, Refused, Decoded, Handlers
    <3> QED
      BY <3>1, <3>2 DEF Counting
  <2>2. CASE HandlerCountBytes(r) \/ HandlerReceiveTrace(r) \/ HandlerCountServices(r)
    BY <1>1, <2>2 DEF HandlerCountBytes, HandlerReceiveTrace, HandlerCountServices, Handlers, Counting
  <2>3. CASE HandlerSendTrace(r)
    <3>1. handler' = [handler EXCEPT ![r].left = Tail(@), ![r].pc = AfterTrace(r)]
      BY <2>3 DEF HandlerSendTrace
    <3>2. handler[r].pc = "normalize"
      BY <2>3 DEF HandlerSendTrace
    <3> QED
      BY <1>1, <3>1, <3>2 DEF Handlers, Counting
  <2> QED
    BY <2>1, <2>2, <2>3
<1> QED
  BY <1>2 DEF TsKept

\* A handler counts in its record.
LEMMA HandlerCounts ==
  ASSUME RecordsInv, NEW r \in Request, NEW c \in Counters, NEW n \in Nat,
         handler[r].pc \in Counting, Add(handler[r].ts, Count(c, n))
  PROVE  Counts
  BY DEF RecordsInv, Counts

\* Every step of the handlers keeps the counts.
LEMMA CountsHandler ==
  ASSUME CountsInv, NEW r \in Request, Handle(r) \/ HandlerStep(r)
  PROVE  RecordsInv' /\ PublishedInv'
<1>1. /\ FlowTypeInv /\ RecordsInv /\ PublishedInv
      /\ handler \in [Request -> Handlers] /\ handler[r] \in Handlers
  BY DEF CountsInv, AccountInv, FlowInv, FlowTypeInv
<1>2. UNCHANGED main /\ UNCHANGED logVars
  BY DEF Handle, HandlerStep, HandlerGetStats, HandlerCountBytes, HandlerReceiveTrace,
     HandlerSendTrace, HandlerCountServices, HandlerUnchanged
<1>3. CASE Handle(r)
  <2>1. TsKept
    BY <1>1, <1>2, <1>3, HandlerKeepsTs
  <2> QED
    BY <1>1, <1>2, <1>3, <2>1, CountsSame DEF Handle
<1>4. CASE HandlerGetStats(r)
  <2>1. PICK ts :
          /\ GetTagStats(Requests[r].tags, ts)
          /\ handler' = [handler EXCEPT ![r].ts = ts,
                            ![r].pc = IF Requests[r].services THEN "services" ELSE "bytes"]
    BY <1>4 DEF HandlerGetStats
  <2>2. ts \in 1 .. Len(records')
    BY <1>1, <2>1, TagStatsGot
  <2>3. /\ \A q \in Request : q # r => handler'[q] = handler[q]
        /\ handler'[r].ts = ts
    BY <1>1, <2>1 DEF Handlers
  <2>4. UNCHANGED <<counted, raced, logVars>>
    BY <1>2, <1>4 DEF HandlerGetStats
  <2>5. \A q \in Request : handler'[q].pc \in Counting =>
            \/ handler[q].pc \in Counting /\ handler'[q].ts = handler[q].ts
            \/ handler'[q].ts \in 1 .. Len(records')
    BY <2>2, <2>3
  <2> QED
    BY <1>1, <1>2, <2>1, <2>4, <2>5, CountsGet
<1>5. CASE HandlerCountBytes(r) \/ HandlerReceiveTrace(r) \/ HandlerCountServices(r)
  <2>1. TsKept
    BY <1>1, <1>2, <1>5, HandlerKeepsTs
  <2>2. Requests[r].bytes \in Nat
    BY RequestsAssumption DEF Request
  <2>3. Counts
    BY <1>1, <1>5, <2>2, HandlerCounts, CounterNames
       DEF HandlerCountBytes, HandlerReceiveTrace, HandlerCountServices, Counting
  <2> QED
    BY <1>1, <1>2, <2>1, <2>3, CountsAdd
<1>6. CASE HandlerSendTrace(r)
  <2>1. TsKept
    BY <1>1, <1>2, <1>6, HandlerKeepsTs
  <2>2. /\ UNCHANGED statVars \/ Add(handler[r].ts, Count("dropped", 1))
        /\ handler[r].pc = "normalize"
    BY <1>6 DEF HandlerSendTrace
  <2>3. UNCHANGED statVars \/ Counts
    BY <1>1, <2>2, HandlerCounts, CounterNames DEF Counting
  <2> QED
    BY <1>1, <1>2, <2>1, <2>3, CountsSame, CountsAdd
<1> QED
  BY <1>3, <1>4, <1>5, <1>6 DEF HandlerStep

\* Every step of the main loop keeps the counts.
LEMMA CountsMain ==
  ASSUME CountsInv, TakeTrace \/ ProcessStep \/ Cancelled \/ StopComponent
  PROVE  RecordsInv' /\ PublishedInv'
<1>1. FlowTypeInv /\ RecordsInv /\ PublishedInv /\ main \in Mains
  BY DEF CountsInv, AccountInv, FlowInv, FlowTypeInv
<1>2. UNCHANGED handler /\ UNCHANGED logVars
  BY DEF TakeTrace, ProcessStep, ProcessGetStats, ProcessCountPriority, ProcessSkips,
     ProcessPassesOn, MainUnchanged, Cancelled, StopComponent
<1>3. CASE TakeTrace \/ ProcessPassesOn \/ Cancelled \/ StopComponent
  <2>1. main'.pc \notin Processing
    <3>1. CASE TakeTrace \/ ProcessPassesOn
      BY <1>1, <3>1 DEF TakeTrace, ProcessPassesOn, Mains, Processing
    <3>2. CASE Cancelled \/ StopComponent
      <4>1. PICK i : main' = StopMain(i)
        BY <3>2 DEF Cancelled, StopComponent
      <4>2. main'.pc \in {"returned", "stop"}
        <5> DEFINE p == IF i > Len(StopOrder) THEN "returned" ELSE "stop"
        <5>1. main' = [main EXCEPT !.pc = p, !.trace = i] /\ p \in {"returned", "stop"}
          BY <4>1 DEF StopMain
        <5> HIDE DEF p
        <5> QED
          BY <1>1, <5>1 DEF Mains
      <4> QED
        BY <4>2 DEF Processing
    <3> QED
      BY <1>3, <3>1, <3>2
  <2>2. TsKept
    BY <1>2, <2>1 DEF TsKept
  <2> QED
    BY <1>1, <1>2, <1>3, <2>2, CountsSame DEF TakeTrace, ProcessPassesOn, Cancelled, StopComponent
<1>4. CASE ProcessGetStats
  <2>1. PICK ts : GetTagStats("", ts) /\ main' = [main EXCEPT !.pc = "priority", !.ts = ts]
    BY <1>4 DEF ProcessGetStats
  <2>2. ts \in 1 .. Len(records')
    BY <1>1, <2>1, TagStatsGot
  <2>3. main'.ts = ts
    BY <1>1, <2>1 DEF Mains
  <2>4. UNCHANGED <<counted, raced, logVars>>
    BY <1>2, <1>4 DEF ProcessGetStats
  <2> QED
    BY <1>1, <1>2, <2>1, <2>2, <2>3, <2>4, CountsGet
<1>5. CASE ProcessCountPriority \/ ProcessSkips("dropped") \/ ProcessSkips("filtered")
  <2>1. /\ main.pc \in Processing /\ main'.ts = main.ts
        /\ \E c \in Counters : Add(main.ts, Count(c, 1))
    BY <1>1, <1>5, CounterNames DEF ProcessCountPriority, ProcessSkips, Processing, Mains
  <2>2. TsKept
    BY <1>2, <2>1 DEF TsKept
  <2>3. Counts
    BY <1>1, <2>1 DEF RecordsInv, Counts
  <2> QED
    BY <1>1, <1>2, <2>2, <2>3, CountsAdd
<1> QED
  BY <1>3, <1>4, <1>5 DEF ProcessStep

\* Every step keeps the counts.
LEMMA CountsStep ==
  ASSUME CountsInv, [Next]_vars
  PROVE  CountsInv'
<1>1. AccountInv' /\ RecordsInv /\ PublishedInv
  BY AccountStep DEF CountsInv
<1>2. CASE \E r \in DOMAIN Requests : Handle(r) \/ HandlerStep(r)
  BY <1>1, <1>2, CountsHandler DEF CountsInv, Request
<1>3. CASE TakeTrace \/ ProcessStep \/ Cancelled \/ StopComponent
  BY <1>1, <1>3, CountsMain DEF CountsInv
<1>4. CASE Publish \/ Reset
  BY <1>1, <1>4, CountsPublish, CountsReset DEF CountsInv
<1>5. CASE UNCHANGED vars \/ \E tr \in DOMAIN Traces : GoroutineStep(tr)
  <2>1. UNCHANGED <<handler, main, statVars, logVars>>
    BY <1>5 DEF vars, GoroutineStep, SamplerAdd, ExtractTransactions, WriterReceive,
       GoroutineUnchanged
  <2>2. TsKept
    BY <2>1 DEF TsKept
  <2> QED
    BY <1>1, <2>1, <2>2, CountsSame DEF CountsInv
<1> QED
  BY <1>2, <1>3, <1>4, <1>5 DEF Next

\* What logStats publishes was counted and is published once, and a count is lost
\* only when it is added between publication and reset or to a record that a reset
\* has deleted, for any number of handlers and rounds, whichever tags they share.
THEOREM CountsCorrect == Spec => []CountsLostOnlyInRace
<1>1. Init => CountsInv
  <2> SUFFICES ASSUME Init PROVE RecordsInv /\ PublishedInv
    BY AccountInit DEF CountsInv
  <2>1. /\ stats = <<>> /\ records = <<>> /\ logger = [pc |-> "wait", rounds |-> 0]
        /\ published = NoCounts /\ counted = NoCounts /\ raced = FALSE
        /\ main.pc = "select" /\ \A r \in Request : handler[r].pc = "idle"
    BY DEF Init, NewHTTPReceiver, Request
  <2>2. NoCounts \in [Counters -> Int] /\ \A c \in Counters : NoCounts[c] = 0
    BY DEF NoCounts
  <2>3. RecordsInv
    <3>1. DOMAIN stats = {} /\ records \in Seq([Counters -> Nat])
      BY <2>1
    <3>2. "idle" \notin Counting /\ "select" \notin Processing
      BY DEF Counting, Processing
    <3>3. published \in [Counters -> Int] /\ raced \in BOOLEAN
      BY <2>1, <2>2
    <3>4. logger \in [pc : {"wait", "reset"}, rounds : Nat]
      BY <2>1
    <3> QED
      BY <2>1, <3>1, <3>2, <3>3, <3>4 DEF RecordsInv
  <2>4. ASSUME NEW c \in Counters PROVE Live(c) = 0
    <3> DEFINE f == [ts \in Range(stats) |-> records[ts][c]]
    <3>1. Range(stats) = {} /\ DOMAIN f = Range(stats)
      BY <2>1 DEF Range
    <3> HIDE DEF f
    <3>2. SumFunction(f) = 0
      BY <3>1, SumEmpty DEF SumFunction
    <3> QED
      BY <3>2 DEF Live, f
  <2>5. PublishedInv
    BY <2>1, <2>2, <2>4 DEF PublishedInv
  <2> QED
    BY <2>3, <2>5
<1>2. CountsInv => CountsLostOnlyInRace
  BY DEF CountsInv, PublishedInv, CountsLostOnlyInRace
<1> QED
  BY <1>1, <1>2, CountsStep, PTL DEF Spec

-----------------------------------------------------------------------------
(* The trace itself, on its way through Process: what Normalize leaves has  *)
(* distinct ids, and from then on the marks of ComputeTopLevel and the root *)
(* can be told from the parents (ModelInv).                                 *)

DistinctIDs == \A i, j \in DOMAIN t : t[i].id = t[j].id => i = j

\* The marks are set where the comment of ComputeTopLevel puts them, and where a
\* client has.
Marked == \A i \in DOMAIN t : t[i].top <=> (t[i].client \/ ~HasLocalParent(t[i]))

ModelInv ==
    /\ t \in Seq(Spans)
    /\ pc \notin {"search", "done"} => \A i \in DOMAIN t : t[i].top = t[i].client
    /\ pc \notin {"normalize", "rejected"} => t # NoTrace /\ DistinctIDs
    /\ RootIsAnOrphan
    /\ pc \in {"search", "done"} => Marked

\* A position of a trace that is not empty has a largest one and a least one.
LEMMA Extremes ==
  ASSUME NEW n \in Nat, NEW S \in SUBSET (1 .. n), S # {}
  PROVE  Max(S) \in S /\ Min(S) \in S
<1>1. \E x \in S : \A y \in S : x <= y
  <2>1. S \in SUBSET Nat
    OBVIOUS
  <2> QED
    BY <2>1, LeastNat
<1>2. \E x \in S : \A y \in S : x >= y
  <2> DEFINE T == {n - x : x \in S}
  <2>1. T \in SUBSET Nat /\ T # {}
    <3>1. \A x \in S : n - x \in Nat
      OBVIOUS
    <3>2. T \in SUBSET Nat
      BY <3>1
    <3>3. T # {}
      BY Zenon
    <3> QED
      BY <3>2, <3>3
  <2>2. PICK m \in T : \A k \in T : m <= k
    <3> HIDE DEF T
    <3> QED
      BY <2>1, LeastNat
  <2>3. PICK x \in S : m = n - x
    BY <2>2
  <2>4. \A y \in S : n - x <= n - y
    BY <2>2, <2>3
  <2> QED
    BY <2>3, <2>4
<1> QED
  BY <1>1, <1>2 DEF Max, Min

\* What does not touch the trace and its root leaves the orphans and marks alone.
LEMMA OrphansUnchanged ==
  ASSUME t' = t
  PROVE  Orphans' = Orphans /\ Marked' = Marked /\ DistinctIDs' = DistinctIDs
  BY DEF Orphans, Parents, Marked, HasLocalParent, DistinctIDs

\* GetRoot finds a span, and an orphan if there is one.
LEMMA RootFound ==
  ASSUME ModelInv, GetRoot
  PROVE  root' \in DOMAIN t /\ (Orphans # {} => root' \in Orphans)
<1>1. t \in Seq(Spans) /\ DOMAIN t = 1 .. Len(t) /\ Len(t) \in Nat
  BY DEF ModelInv
<1>2. CASE Roots # {}
  <2>1. root' = Max(Roots)
    BY <1>2 DEF GetRoot
  <2>2. Roots \in SUBSET (1 .. Len(t))
    BY <1>1 DEF Roots
  <2>3. Max(Roots) \in Roots
    BY <1>1, <1>2, <2>2, Extremes
  <2> QED
    BY <2>1, <2>3 DEF Roots, Orphans, Parents
<1>3. CASE Roots = {} /\ UnknownParents # {}
  <2>1. PICK id \in UnknownParents : root' = FirstChildOf(id)
    BY <1>3 DEF GetRoot
  <2> DEFINE S == {i \in DOMAIN t : t[i].parent = id}
  <2>2. S \in SUBSET (1 .. Len(t)) /\ S # {}
    BY <1>1 DEF UnknownParents
  <2>3. Min(S) \in S
    <3> HIDE DEF S
    <3> QED
      BY <1>1, <2>2, Extremes
  <2>4. root' \in S
    BY <2>1, <2>3 DEF FirstChildOf
  <2> QED
    BY <2>4 DEF UnknownParents, SpanIDs, Orphans, Parents
<1>4. CASE Roots = {} /\ UnknownParents = {}
  <2>1. ASSUME NEW i \in DOMAIN t PROVE Parents(i) # {}
    <3>1. t[i].parent # 0
      BY <1>4 DEF Roots
    <3>2. t[i].parent \in SpanIDs
      BY <1>4 DEF UnknownParents
    <3> QED
      BY <3>1, <3>2 DEF SpanIDs, Parents
  <2>2. root' = Len(t) /\ pc = "root"
    BY <1>4 DEF GetRoot
  <2>3. root' \in DOMAIN t
    BY <1>1, <2>2 DEF ModelInv, NoTrace
  <2> QED
    BY <2>1, <2>3 DEF Orphans
<1> QED
  BY <1>2, <1>3, <1>4

\* NormalizeTrace lets pass only traces with distinct ids, and changes no id.
LEMMA Normalized ==
  ASSUME ModelInv, NormalizeTrace
  PROVE  ModelInv'
<1>1. t \in Seq(Spans) /\ DOMAIN t = 1 .. Len(t) /\ Len(t) \in Nat /\ pc = "normalize"
  BY DEF ModelInv, NormalizeTrace
<1>2. \A i \in DOMAIN t : t[i] \in Spans /\ t[i].top = t[i].client
  BY <1>1 DEF ModelInv
<1>3. CASE Rejects
  <2>1. t' = t /\ pc' = "rejected"
    BY <1>3 DEF NormalizeTrace
  <2> QED
    BY <1>1, <1>2, <2>1 DEF ModelInv, RootIsAnOrphan
<1>4. CASE ~Rejects
  <2>1. t' = [i \in DOMAIN t |-> Normalize(t[i])] /\ pc' = "root"
    BY <1>4 DEF NormalizeTrace
  <2>2. t # NoTrace
    BY <1>4 DEF Rejects
  <2>3. \A i \in DOMAIN t : \A j \in 1 .. i - 1 : t[j].id # t[i].id
    BY <1>4 DEF Rejects
  <2>4. ASSUME NEW i \in DOMAIN t
        PROVE  /\ Normalize(t[i]) \in Spans /\ Normalize(t[i]).id = t[i].id
               /\ Normalize(t[i]).top = Normalize(t[i]).client
    BY <1>2 DEF Normalize, Spans
  <2>5. t' \in Seq(Spans) /\ DOMAIN t' = DOMAIN t /\ Len(t') = Len(t)
    BY <1>1, <2>1, <2>4
  <2>6. DistinctIDs'
    <3>1. ASSUME NEW i \in DOMAIN t, NEW j \in DOMAIN t, t[i].id = t[j].id, i # j PROVE FALSE
      <4>1. j \in 1 .. i - 1 \/ i \in 1 .. j - 1
        BY <1>1, <3>1
      <4> QED
        BY <2>3, <3>1, <4>1
    <3>2. \A i \in DOMAIN t : t'[i].id = t[i].id
      BY <2>1, <2>4
    <3> QED
      BY <2>5, <3>1, <3>2 DEF DistinctIDs
  <2>7. \A i \in DOMAIN t' : t'[i].top = t'[i].client
    BY <2>1, <2>4, <2>5
  <2>8. t' # NoTrace
    BY <1>1, <2>2, <2>5 DEF NoTrace
  <2> QED
    BY <2>1, <2>5, <2>6, <2>7, <2>8 DEF ModelInv, RootIsAnOrphan
<1> QED
  BY <1>3, <1>4

\* ComputeTopLevel changes marks only.
LEMMA TopLevelComputed ==
  ASSUME ModelInv, ComputeTopLevel
  PROVE  ModelInv'
<1>1. t \in Seq(Spans) /\ DOMAIN t = 1 .. Len(t) /\ Len(t) \in Nat
  BY DEF ModelInv
<1>2. /\ pc = "top_level" /\ pc' = "search" /\ root' = root
      /\ t' = [i \in DOMAIN t |-> IF HasLocalParent(t[i]) THEN t[i]
                                  ELSE [t[i] EXCEPT !.top = TRUE]]
  BY DEF ComputeTopLevel
<1>3. \A i \in DOMAIN t : t[i] \in Spans /\ t[i].top = t[i].client
  BY <1>1, <1>2 DEF ModelInv
<1>4. ASSUME NEW i \in DOMAIN t
      PROVE  /\ t'[i] \in Spans
             /\ t'[i].id = t[i].id /\ t'[i].parent = t[i].parent
             /\ t'[i].service = t[i].service
             /\ t'[i].top <=> (t'[i].client \/ ~HasLocalParent(t[i]))
  <2> DEFINE h == HasLocalParent(t[i])
  <2>1. t'[i] = IF h THEN t[i] ELSE [t[i] EXCEPT !.top = TRUE]
    BY <1>2
  <2> HIDE DEF h
  <2>2. /\ t'[i] \in Spans
        /\ t'[i].id = t[i].id /\ t'[i].parent = t[i].parent
        /\ t'[i].service = t[i].service
        /\ t'[i].top <=> (t'[i].client \/ ~h)
    BY <1>3, <2>1 DEF Spans
  <2> QED
    BY <2>2 DEF h
<1>5. DOMAIN t' = DOMAIN t /\ Len(t') = Len(t) /\ t' \in Seq(Spans)
  <2>1. t' = [i \in 1 .. Len(t) |-> t'[i]]
    BY <1>1, <1>2
  <2> QED
    BY <1>1, <1>4, <2>1
<1>6. ASSUME NEW i \in DOMAIN t PROVE Parents(i)' = Parents(i)
  BY <1>4, <1>5 DEF Parents
<1>7. Orphans' = Orphans
  BY <1>5, <1>6 DEF Orphans
<1>8. ASSUME NEW i \in DOMAIN t PROVE HasLocalParent(t[i])' <=> HasLocalParent(t[i])
  BY <1>4, <1>5 DEF HasLocalParent
<1>9. Marked'
  BY <1>4, <1>5, <1>8 DEF Marked
<1>10. DistinctIDs'
  BY <1>2, <1>4, <1>5 DEF ModelInv, DistinctIDs
<1>11. RootIsAnOrphan'
  BY <1>2, <1>7 DEF ModelInv, RootIsAnOrphan
<1>12. t # NoTrace => t' # NoTrace
  BY <1>1, <1>5 DEF NoTrace
<1> QED
  BY <1>2, <1>5, <1>9, <1>10, <1>11, <1>12 DEF ModelInv

\* Every step keeps the invariant.
LEMMA ModelStep ==
  ASSUME ModelInv, [ModelNext]_modelVars
  PROVE  ModelInv'
<1>1. ASSUME t' = t, root' = root,
             pc' = pc \/ (pc = "search" /\ pc' = "done")
      PROVE  ModelInv'
  <2>1. Orphans' = Orphans /\ Marked' = Marked /\ DistinctIDs' = DistinctIDs
    BY <1>1, OrphansUnchanged
  <2> QED
    BY <1>1, <2>1 DEF ModelInv, RootIsAnOrphan
<1>2. CASE NormalizeTrace
  BY <1>2, Normalized
<1>3. CASE GetRoot
  <2>1. Orphans # {} => root' \in Orphans
    BY <1>3, RootFound
  <2>2. t' = t /\ pc = "root" /\ pc' = "top_level"
    BY <1>3 DEF GetRoot
  <2>3. Orphans' = Orphans /\ DistinctIDs' = DistinctIDs
    BY <2>2, OrphansUnchanged
  <2> QED
    BY <2>1, <2>2, <2>3 DEF ModelInv, RootIsAnOrphan
<1>4. CASE ComputeTopLevel
  BY <1>4, TopLevelComputed
<1>5. CASE Visit
  BY <1>1, <1>5 DEF Visit
<1>6. CASE SetSublayers
  BY <1>1, <1>6 DEF SetSublayers
<1>7. CASE UNCHANGED modelVars
  BY <1>1, <1>7 DEF modelVars
<1> QED
  BY <1>2, <1>3, <1>4, <1>5, <1>6, <1>7 DEF ModelNext

\* A least closed set holds what it starts from, and is contained in every closed set.
LEMMA ClosureLeast ==
  ASSUME NEW S \in SUBSET DOMAIN t, NEW step, NEW C \in SUBSET DOMAIN t,
         S \subseteq C, \A i \in C : step[i] \subseteq C
  PROVE  Closure(S, step) \subseteq C /\ S \subseteq Closure(S, step)
  BY DEF Closure

\* What has no local parent is the whole of its visit.
LEMMA EntryAlone ==
  ASSUME NEW i \in DOMAIN t, LocalParent[i] = {}
  PROVE  Closure({i}, LocalParent) = {i}
<1>1. {i} \in SUBSET DOMAIN t /\ {i} \subseteq {i} /\ \A j \in {i} : LocalParent[j] \subseteq {i}
  OBVIOUS
<1> QED
  BY <1>1, ClosureLeast

\* The visit of a span with a local parent is that of the parent and the span.
LEMMA EntryAbove ==
  ASSUME NEW i \in DOMAIN t, NEW p \in DOMAIN t, LocalParent[i] = {p}
  PROVE  Closure({i}, LocalParent) = {i} \cup Closure({p}, LocalParent)
<1> DEFINE U == Closure({p}, LocalParent)
<1>1. U \in SUBSET DOMAIN t /\ p \in U
  BY DEF Closure
<1>2. ASSUME NEW j \in U PROVE LocalParent[j] \subseteq U
  <2>1. j \in DOMAIN t /\ LocalParent[j] \subseteq DOMAIN t
    BY <1>1, <1>2 DEF LocalParent, Parents
  <2> SUFFICES ASSUME NEW q \in LocalParent[j], NEW C \in SUBSET DOMAIN t, {p} \subseteq C,
                      \A k \in C : LocalParent[k] \subseteq C
               PROVE  q \in C
    BY <2>1 DEF Closure
  <2>2. j \in C
    BY <1>2 DEF Closure
  <2> QED
    BY <2>2
<1>3. Closure({i}, LocalParent) \subseteq {i} \cup U
  <2> DEFINE V == {i} \cup U
  <2>1. {i} \in SUBSET DOMAIN t /\ V \in SUBSET DOMAIN t /\ {i} \subseteq V
    BY <1>1
  <2>2. \A j \in V : LocalParent[j] \subseteq V
    <3>1. LocalParent[i] \subseteq U
      BY <1>1
    <3>2. \A j \in U : LocalParent[j] \subseteq U
      BY <1>2
    <3> HIDE DEF U
    <3> QED
      BY <3>1, <3>2
  <2> HIDE DEF V
  <2>3. Closure({i}, LocalParent) \subseteq V
    BY <2>1, <2>2, ClosureLeast
  <2> QED
    BY <2>3 DEF V
<1>4. ASSUME NEW x \in {i} \cup U PROVE x \in Closure({i}, LocalParent)
  <2>1. x \in DOMAIN t
    BY <1>1
  <2> SUFFICES ASSUME NEW C \in SUBSET DOMAIN t, {i} \subseteq C,
                      \A k \in C : LocalParent[k] \subseteq C
               PROVE  x \in C
    BY <2>1 DEF Closure
  <2>2. p \in C
    OBVIOUS
  <2> QED
    BY <2>2 DEF Closure
<1> QED
  BY <1>3, <1>4

\* A span is marked if and only if a client has marked it or it has no local parent,
\* and it has at most one.
LEMMA MarksAndParents ==
  ASSUME t \in Seq(Spans), DistinctIDs, Marked, NEW i \in DOMAIN t
  PROVE  /\ t[i].top <=> (t[i].client \/ LocalParent[i] = {})
         /\ \A p, q \in Parents(i) : p = q
         /\ LocalParent[i] \subseteq Parents(i) /\ Parents(i) \subseteq DOMAIN t
<1>1. \A p, q \in Parents(i) : p = q
  BY DEF Parents, DistinctIDs
<1>2. LocalParent[i] = {p \in Parents(i) : t[p].service = t[i].service}
  BY DEF LocalParent
<1>3. HasLocalParent(t[i]) <=> LocalParent[i] # {}
  BY <1>2 DEF HasLocalParent, Parents
<1> QED
  BY <1>1, <1>2, <1>3 DEF Marked, Parents

Entries(i) ==
    {j \in Closure({i}, LocalParent) : t[j].top /\ (t[j].client => LocalParent[j] = {})}

\* The marks of ComputeTopLevel make every span below an orphan part of one visit.
LEMMA OneEntry ==
  ASSUME t \in Seq(Spans), DistinctIDs, Marked, NEW o \in Orphans,
         NEW i \in Closure({o}, ChildrenOf)
  PROVE  \E x : Entries(i) = {x}
<1> DEFINE G == {j \in DOMAIN t : \E x : Entries(j) = {x}}
<1>1. o \in DOMAIN t /\ Parents(o) = {}
  BY DEF Orphans
<1>2. ASSUME NEW j \in DOMAIN t, LocalParent[j] = {} PROVE j \in G
  <2>1. Closure({j}, LocalParent) = {j}
    BY <1>2, EntryAlone
  <2>2. t[j].top
    BY <1>2, MarksAndParents
  <2>3. Entries(j) = {j}
    BY <1>2, <2>1, <2>2 DEF Entries
  <2> QED
    BY <2>3
<1>3. o \in G
  <2>1. LocalParent[o] = {}
    BY <1>1, MarksAndParents
  <2> QED
    BY <1>1, <1>2, <2>1
<1>4. ASSUME NEW p \in G PROVE ChildrenOf[p] \subseteq G
  <2> SUFFICES ASSUME NEW c \in ChildrenOf[p] PROVE c \in G
    OBVIOUS
  <2>1. c \in DOMAIN t /\ p \in DOMAIN t /\ p \in Parents(c)
    BY DEF ChildrenOf
  <2>2. CASE LocalParent[c] = {}
    BY <1>2, <2>1, <2>2
  <2>3. CASE LocalParent[c] # {}
    <3>1. LocalParent[c] = {p}
      BY <2>1, <2>3, MarksAndParents
    <3>2. Closure({c}, LocalParent) = {c} \cup Closure({p}, LocalParent)
      BY <2>1, <3>1, EntryAbove
    <3>3. ~(t[c].top /\ (t[c].client => LocalParent[c] = {}))
      BY <2>1, <2>3, MarksAndParents
    <3>4. Entries(c) = Entries(p)
      BY <3>2, <3>3 DEF Entries
    <3> QED
      BY <2>1, <3>4
  <2> QED
    BY <2>2, <2>3
<1>5. {o} \in SUBSET DOMAIN t /\ G \in SUBSET DOMAIN t /\ {o} \subseteq G
  BY <1>1, <1>3
<1>6. Closure({o}, ChildrenOf) \subseteq G
  <2> HIDE DEF G
  <2> QED
    BY <1>4, <1>5, ClosureLeast
<1> QED
  BY <1>6

\* GetRoot returns a span without a parent in the trace whenever there is one, for
\* any traces, any order of the spans and any order of the map of parents.
THEOREM RootCorrect == ModelSpec => []RootIsAnOrphan
<1>1. ModelInit => ModelInv
  BY InputsAssumption DEF ModelInit, ModelInv, RootIsAnOrphan
<1>2. ModelInv /\ [ModelNext]_modelVars => ModelInv'
  BY ModelStep
<1>3. ModelInv => RootIsAnOrphan
  BY DEF ModelInv
<1> QED
  BY <1>1, <1>2, <1>3, PTL DEF ModelSpec

\* ComputeTopLevel gives every visit of a service one entry, apart from the spans that
\* a client has marked below a parent of their service, for any traces.
THEOREM EntriesCorrect == ModelSpec => []OneEntryPerVisit
<1>1. ModelInit => ModelInv
  BY InputsAssumption DEF ModelInit, ModelInv, RootIsAnOrphan
<1>2. ModelInv /\ [ModelNext]_modelVars => ModelInv'
  BY ModelStep
<1>3. ModelInv => OneEntryPerVisit
  <2> SUFFICES ASSUME ModelInv, pc \in {"search", "done"}, NEW o \in Orphans,
                      NEW i \in Closure({o}, ChildrenOf)
               PROVE  Cardinality(Entries(i)) = 1
    BY DEF OneEntryPerVisit, Entries
  <2>1. t \in Seq(Spans) /\ DistinctIDs /\ Marked
    BY DEF ModelInv
  <2>2. PICK x : Entries(i) = {x}
    BY <2>1, OneEntry
  <2>3. Cardinality({x}) = 1
    BY FS_Singleton
  <2> QED
    BY <2>2, <2>3
<1> QED
  BY <1>1, <1>2, <1>3, PTL DEF ModelSpec

-----------------------------------------------------------------------------
(* The search of ExtractTopLevelSubtraces.  The spans on the stack wait to  *)
(* be visited (StackInv) and everything below the root is found or below a  *)
(* span that waits (FoundInv).  Slices of ancestors share arrays: of two on *)
(* the stack with one array the one nearer the head is not shorter, so an   *)
(* append in place overwrites nothing that a waiting slice still reads      *)
(* (SharingInv), and each holds the spans above its own (AncestorsInv).     *)

Below == Descendants(root)
Waiting == {next[k].span : k \in DOMAIN next}

\* The spans with a subtrace that s is a proper part of.
Above(s) == {a \in Below : HasSubtrace(a) /\ a # s /\ s \in Descendants(a)}

Slices == [array : Nat, len : Nat]

StackInv ==
    /\ next \in Seq([span : Below \ visited, ancestors : Slices])
    /\ \A k, l \in DOMAIN next : next[k].span = next[l].span => k = l

\* What was found is below the root, and its parents were visited; what was visited
\* has its children found.
FoundInv ==
    /\ visited \subseteq Below
    /\ root \in visited \cup Waiting
    /\ root \notin visited => visited = {} /\ Waiting = {root}
    /\ \A v \in visited : ChildrenOf[v] \subseteq visited \cup Waiting
    /\ \A w \in (visited \cup Waiting) \ {root} : Parents(w) \subseteq visited

\* Slices are within their arrays, and of two on the stack with the same array, the
\* one nearer to the head is not shorter: nothing behind it is overwritten.
SharingInv ==
    /\ heap \in Seq(Seq(Nat))
    /\ \A k \in DOMAIN next :
        next[k].ancestors.len > 0 =>
            /\ next[k].ancestors.array \in DOMAIN heap
            /\ next[k].ancestors.len <= Len(heap[next[k].ancestors.array])
    /\ \A k, l \in DOMAIN next :
        /\ k < l
        /\ next[l].ancestors.len > 0
        /\ next[k].ancestors.array = next[l].ancestors.array
        => next[l].ancestors.len <= next[k].ancestors.len

AncestorsInv ==
    \A k \in DOMAIN next :
        /\ IsInjective(Elements(next[k].ancestors))
        /\ ToSet(Elements(next[k].ancestors)) = Above(next[k].span)
        /\ Above(next[k].span) \subseteq visited

SubtracesInv ==
    /\ DOMAIN subtraces = {a \in visited : HasSubtrace(a)}
    /\ \A a \in DOMAIN subtraces :
        /\ subtraces[a] \in Seq(DOMAIN t)
        /\ IsInjective(subtraces[a])
        /\ ToSet(subtraces[a]) = visited \cap Descendants(a)

SearchInv ==
    /\ pc \in {"normalize", "root", "top_level"} =>
            heap = <<>> /\ visited = {} /\ subtraces = <<>>
    /\ pc \notin {"normalize", "rejected", "root"} => root \in DOMAIN t
    /\ pc = "search" => StackInv /\ FoundInv /\ SharingInv /\ AncestorsInv /\ SubtracesInv
    /\ SubtracesAreDescendants

-----------------------------------------------------------------------------
\* Ascending lists every member of a finite set of integers once, smaller ones first:
\* how many members are below one of them tells its place.
LEMMA AscendingLists ==
  ASSUME NEW S \in SUBSET Int, IsFiniteSet(S)
  PROVE  /\ Ascending(S) \in Seq(S)
         /\ IsInjective(Ascending(S))
         /\ \A k, l \in 1 .. Len(Ascending(S)) : k < l => Ascending(S)[k] < Ascending(S)[l]
         /\ \A x \in S : \E k \in 1 .. Len(Ascending(S)) : Ascending(S)[k] = x
<1> DEFINE Lower(x) == {y \in S : y < x}
           N == Cardinality(S)
           f == [x \in S |-> Cardinality(Lower(x)) + 1]
<1>1. IsFiniteSet(S) /\ N \in Nat
  BY FS_CardinalityType
<1>2. ASSUME NEW x \in S
      PROVE  IsFiniteSet(Lower(x)) /\ Cardinality(Lower(x)) \in Nat /\ Cardinality(Lower(x)) < N
  <2>1. Lower(x) \in SUBSET (S \ {x})
    OBVIOUS
  <2>2. IsFiniteSet(S \ {x}) /\ Cardinality(S \ {x}) = N - 1
    BY <1>1, FS_RemoveElement
  <2>3. IsFiniteSet(Lower(x)) /\ Cardinality(Lower(x)) <= N - 1
    <3> HIDE DEF Lower
    <3> QED
      BY <2>1, <2>2, FS_Subset
  <2>4. Cardinality(Lower(x)) \in Nat
    BY <2>3, FS_CardinalityType
  <2> HIDE DEF Lower, N
  <2> QED
    BY <1>1, <2>3, <2>4
<1>3. ASSUME NEW x \in S, NEW y \in S, x < y PROVE Cardinality(Lower(x)) < Cardinality(Lower(y))
  <2>1. Lower(x) \cup {x} \in SUBSET Lower(y) /\ x \notin Lower(x)
    <3>1. ASSUME NEW z \in Lower(x) PROVE z \in S /\ z < y
      <4>1. x \in Int /\ y \in Int /\ z \in Int /\ z < x /\ z \in S
        OBVIOUS
      <4> QED
        BY <1>3, <4>1
    <3>2. x \in Lower(y)
      BY <1>3
    <3>3. x \notin Lower(x)
      OBVIOUS
    <3>4. \A z \in Lower(x) : z \in Lower(y)
      BY <3>1
    <3> HIDE DEF Lower
    <3> QED
      BY <3>2, <3>3, <3>4
  <2>2. IsFiniteSet(Lower(x)) /\ IsFiniteSet(Lower(y)) /\ Cardinality(Lower(x)) \in Nat
        /\ Cardinality(Lower(y)) \in Nat
    BY <1>2
  <2> HIDE DEF Lower
  <2>3. Cardinality(Lower(x) \cup {x}) = Cardinality(Lower(x)) + 1
    BY <2>1, <2>2, FS_AddElement
  <2>4. Cardinality(Lower(x) \cup {x}) <= Cardinality(Lower(y))
    BY <2>1, <2>2, FS_Subset
  <2> QED
    BY <2>2, <2>3, <2>4
<1>4. f \in [S -> 1 .. N]
  <2>1. \A x \in S : Cardinality(Lower(x)) + 1 \in 1 .. N
    <3> HIDE DEF Lower, N
    <3> QED
      BY <1>1, <1>2
  <2> HIDE DEF Lower, N
  <2> QED
    BY <2>1
<1>5. \A x, y \in S : f[x] = f[y] => x = y
  <2> SUFFICES ASSUME NEW x \in S, NEW y \in S, f[x] = f[y], x # y PROVE FALSE
    OBVIOUS
  <2>1. x < y \/ y < x
    OBVIOUS
  <2>2. Cardinality(Lower(x)) = Cardinality(Lower(y))
    <3>1. Cardinality(Lower(x)) + 1 = Cardinality(Lower(y)) + 1
      OBVIOUS
    <3>2. Cardinality(Lower(x)) \in Nat /\ Cardinality(Lower(y)) \in Nat
      BY <1>2
    <3> HIDE DEF Lower
    <3> QED
      BY <3>1, <3>2
  <2>3. Cardinality(Lower(x)) \in Nat
    BY <1>2
  <2>4. ASSUME x < y PROVE FALSE
    <3>1. Cardinality(Lower(x)) < Cardinality(Lower(y))
      BY <1>3, <2>4
    <3> HIDE DEF Lower
    <3> QED
      BY <2>2, <2>3, <3>1
  <2>5. ASSUME y < x PROVE FALSE
    <3>1. Cardinality(Lower(y)) < Cardinality(Lower(x))
      BY <1>3, <2>5
    <3> HIDE DEF Lower
    <3> QED
      BY <2>2, <2>3, <3>1
  <2> QED
    BY <2>1, <2>4, <2>5
<1>6. \A k \in 1 .. N : \E x \in S : f[x] = k
  <2>1. IsFiniteSet(1 .. N) /\ Cardinality(1 .. N) = N
    <3>1. Cardinality(1 .. N) = IF 1 > N THEN 0 ELSE N - 1 + 1
      BY <1>1, FS_Interval
    <3>2. IsFiniteSet(1 .. N)
      BY <1>1, FS_Interval
    <3> HIDE DEF N
    <3> QED
      BY <1>1, <3>1, <3>2
  <2> HIDE DEF f
  <2>2. f \in Injection(S, 1 .. N)
    BY <1>4, <1>5 DEF Injection, IsInjective
  <2>3. f \in Surjection(S, 1 .. N)
    BY <2>1, <2>2, FS_Injection
  <2> QED
    BY <2>3 DEF Surjection
<1>7. ASSUME NEW k \in 1 .. N PROVE Ascending(S)[k] \in S /\ f[Ascending(S)[k]] = k
  <2>1. Ascending(S)[k] = CHOOSE x \in S : Cardinality(Lower(x)) = k - 1
    BY DEF Ascending
  <2>2. PICK x \in S : f[x] = k
    BY <1>6
  <2>3. Cardinality(Lower(x)) = k - 1
    <3>1. Cardinality(Lower(x)) + 1 = k
      BY <2>2
    <3>2. Cardinality(Lower(x)) \in Nat
      BY <1>2
    <3> HIDE DEF Lower
    <3> QED
      BY <3>1, <3>2
  <2>4. Ascending(S)[k] \in S /\ Cardinality(Lower(Ascending(S)[k])) = k - 1
    <3> HIDE DEF Lower
    <3> QED
      BY <2>1, <2>3
  <2>5. k - 1 + 1 = k
    BY <1>1
  <2> HIDE DEF Lower
  <2> QED
    BY <2>4, <2>5
<1>8. Ascending(S) \in Seq(S) /\ Len(Ascending(S)) = N /\ DOMAIN Ascending(S) = 1 .. N
  <2>1. Ascending(S) = [k \in 1 .. N |-> Ascending(S)[k]]
    <3> DEFINE g(k) == CHOOSE x \in S : Cardinality({y \in S : y < x}) = k - 1
    <3>1. Ascending(S) = [k \in 1 .. N |-> g(k)]
      BY DEF Ascending
    <3> HIDE DEF g
    <3> QED
      BY <3>1
  <2> HIDE DEF N, f
  <2> QED
    BY <1>1, <1>7, <2>1
<1>9. IsInjective(Ascending(S))
  <2> HIDE DEF N, f
  <2> QED
    BY <1>7, <1>8 DEF IsInjective
<1>10. ASSUME NEW x \in S PROVE \E k \in 1 .. Len(Ascending(S)) : Ascending(S)[k] = x
  <2>1. f[x] \in 1 .. N
    BY <1>4
  <2>2. Ascending(S)[f[x]] \in S /\ f[Ascending(S)[f[x]]] = f[x]
    BY <1>7, <2>1
  <2>3. Ascending(S)[f[x]] = x
    <3> HIDE DEF f
    <3> QED
      BY <1>5, <2>2
  <2> HIDE DEF f, N
  <2> QED
    BY <1>8, <2>1, <2>3
<1>11. ASSUME NEW k \in 1 .. N, NEW l \in 1 .. N, k < l
       PROVE  Ascending(S)[k] < Ascending(S)[l]
  <2> DEFINE x == Ascending(S)[k]
             y == Ascending(S)[l]
  <2>1. x \in S /\ y \in S /\ f[x] = k /\ f[y] = l
    BY <1>7
  <2>2. x # y /\ x \in Int /\ y \in Int
    <3> HIDE DEF f, x, y
    <3> QED
      BY <1>1, <1>11, <2>1
  <2>3. ASSUME y < x PROVE FALSE
    <3>1. Cardinality(Lower(y)) < Cardinality(Lower(x))
      <4> HIDE DEF x, y
      <4> QED
        BY <1>3, <2>1, <2>3
    <3>2. Cardinality(Lower(x)) + 1 = k /\ Cardinality(Lower(y)) + 1 = l
      <4> HIDE DEF x, y
      <4> QED
        BY <2>1
    <3>3. Cardinality(Lower(x)) \in Nat /\ Cardinality(Lower(y)) \in Nat
      <4> HIDE DEF x, y
      <4> QED
        BY <1>2, <2>1
    <3> HIDE DEF Lower
    <3> QED
      BY <1>11, <3>1, <3>2, <3>3
  <2> HIDE DEF x, y
  <2> QED
    BY <2>2, <2>3 DEF x, y
<1>12. \A k, l \in 1 .. Len(Ascending(S)) : k < l => Ascending(S)[k] < Ascending(S)[l]
  <2> HIDE DEF N
  <2> QED
    BY <1>8, <1>11
<1> QED
  BY <1>8, <1>9, <1>10, <1>12

\* The stack r is st with the sequence p pushed in place of its head.
Stacked(r, st, p) ==
    /\ Len(r) = Len(p) + Len(st) - 1
    /\ \A k, j \in 1 .. Len(p) : k + j = Len(p) + 1 => r[k] = p[j]
    /\ \A k \in Len(p) + 1 .. Len(p) + Len(st) - 1 : r[k] = st[k - Len(p) + 1]

\* The stack after a round of the loop: what was pushed, and what was behind the head.
LEMMA PushedStack ==
  ASSUME NEW X, NEW st \in Seq(X), st # <<>>, NEW p \in Seq(X)
  PROVE  Push(Tail(st), p) \in Seq(X) /\ Stacked(Push(Tail(st), p), st, p)
<1> DEFINE r == Reverse(p)
           q == Tail(st)
<1>1. Len(st) \in Nat /\ Len(st) > 0 /\ Len(p) \in Nat
  OBVIOUS
<1>2. /\ r \in Seq(X) /\ Len(r) = Len(p)
      /\ \A k, j \in 1 .. Len(p) : k + j = Len(p) + 1 => r[k] = p[j]
  <2>1. \A k \in 1 .. Len(p) : (Len(p) - k) + 1 \in 1 .. Len(p)
    OBVIOUS
  <2>2. \A k \in 1 .. Len(p) : p[(Len(p) - k) + 1] \in X
    BY <2>1
  <2> QED
    BY <2>1, <2>2 DEF Reverse
<1>3. q \in Seq(X) /\ Len(q) = Len(st) - 1 /\ \A k \in 1 .. Len(q) : q[k] = st[k + 1]
  OBVIOUS
<1> HIDE DEF r, q
<1>4. r \o q \in Seq(X) /\ Len(r \o q) = Len(r) + Len(q)
  BY <1>2, <1>3, ConcatProperties
<1>5. \A k \in 1 .. Len(r) : (r \o q)[k] = r[k]
  BY <1>2, <1>3
<1>6. ASSUME NEW k \in Len(p) + 1 .. Len(p) + Len(st) - 1
      PROVE  (r \o q)[k] = st[k - Len(p) + 1]
  <2>1. k - Len(p) \in 1 .. Len(q) /\ k \in 1 .. Len(r) + Len(q) /\ ~(k <= Len(r))
    BY <1>1, <1>2, <1>3
  <2>2. (r \o q)[k] = q[k - Len(r)]
    BY <1>2, <1>3, <2>1
  <2> QED
    BY <1>2, <1>3, <2>1, <2>2
<1> QED
  BY <1>1, <1>2, <1>3, <1>4, <1>5, <1>6 DEF Push, r, q, Stacked

\* A span is among its descendants, they are spans, and so are their children but for
\* the root.
LEMMA DescendantsClosed ==
  ASSUME NEW a \in DOMAIN t
  PROVE  /\ a \in Descendants(a) /\ Descendants(a) \subseteq DOMAIN t
         /\ \A p \in Descendants(a) : \A c \in ChildrenOf[p] \ {root} : c \in Descendants(a)
<1> DEFINE step == [p \in DOMAIN t |-> ChildrenOf[p] \ {root}]
<1>1. a \in Descendants(a) /\ Descendants(a) \subseteq DOMAIN t
  BY DEF Descendants, Closure
<1>2. ASSUME NEW p \in Descendants(a), NEW c \in ChildrenOf[p] \ {root}
      PROVE  c \in Descendants(a)
  <2>1. p \in DOMAIN t /\ c \in step[p]
    BY <1>1
  <2>2. c \in DOMAIN t
    BY <2>1 DEF ChildrenOf
  <2> HIDE DEF step
  <2>3. ASSUME NEW C \in SUBSET DOMAIN t, {a} \subseteq C, \A i \in C : step[i] \subseteq C
        PROVE  c \in C
    <3>1. p \in C
      <4>1. p \in Closure({a}, step)
        BY DEF Descendants, step
      <4> QED
        BY <2>3, <4>1 DEF Closure
    <3> QED
      BY <2>1, <2>3, <3>1
  <2>4. c \in Closure({a}, step)
    BY <2>2, <2>3 DEF Closure
  <2> QED
    BY <2>4 DEF Descendants, step
<1> QED
  BY <1>1, <1>2

\* The descendants are contained in every set that holds the span and, with a span,
\* its children.
LEMMA DescendantsLeast ==
  ASSUME NEW a \in DOMAIN t, NEW C \in SUBSET DOMAIN t, a \in C,
         \A p \in C : \A c \in ChildrenOf[p] \ {root} : c \in C
  PROVE  Descendants(a) \subseteq C
<1> DEFINE step == [p \in DOMAIN t |-> ChildrenOf[p] \ {root}]
<1>1. {a} \in SUBSET DOMAIN t /\ {a} \subseteq C /\ \A i \in C : step[i] \subseteq C
  OBVIOUS
<1> HIDE DEF step
<1>2. Closure({a}, step) \subseteq C
  BY <1>1, ClosureLeast
<1> QED
  BY <1>2 DEF Descendants, step

\* Descendants of a descendant are descendants.
LEMMA DescendantsTransitive ==
  ASSUME NEW a \in DOMAIN t, NEW b \in Descendants(a)
  PROVE  Descendants(b) \subseteq Descendants(a)
<1>1. b \in DOMAIN t /\ Descendants(a) \in SUBSET DOMAIN t
      /\ \A p \in Descendants(a) : \A c \in ChildrenOf[p] \ {root} : c \in Descendants(a)
  BY DescendantsClosed
<1> DEFINE D == Descendants(a)
<1>2. D \in SUBSET DOMAIN t /\ b \in D /\ \A p \in D : \A c \in ChildrenOf[p] \ {root} : c \in D
  BY <1>1
<1> HIDE DEF D
<1>3. Descendants(b) \subseteq D
  BY <1>1, <1>2, DescendantsLeast
<1> QED
  BY <1>3 DEF D

\* A descendant other than the span itself has a parent among the descendants.
LEMMA DescendantsParent ==
  ASSUME NEW a \in DOMAIN t, NEW c \in Descendants(a), c # a
  PROVE  c # root /\ \E p \in Descendants(a) : p \in Parents(c)
<1> SUFFICES ASSUME ~ (c # root /\ \E p \in Descendants(a) : p \in Parents(c)) PROVE FALSE
  OBVIOUS
<1> DEFINE C == Descendants(a) \ {c}
<1>1. a \in Descendants(a) /\ Descendants(a) \subseteq DOMAIN t
      /\ \A p \in Descendants(a) : \A d \in ChildrenOf[p] \ {root} : d \in Descendants(a)
  BY DescendantsClosed
<1>2. C \in SUBSET DOMAIN t /\ a \in C
  BY <1>1
<1>3. ASSUME NEW p \in C, NEW d \in ChildrenOf[p] \ {root} PROVE d \in C
  <2>1. p \in Descendants(a) /\ p \in DOMAIN t /\ d \in Descendants(a)
    BY <1>1
  <2>2. p \in Parents(d)
    BY <2>1 DEF ChildrenOf
  <2>3. d # c
    BY <2>1, <2>2
  <2> QED
    BY <2>1, <2>3
<1> HIDE DEF C
<1>4. Descendants(a) \subseteq C
  BY <1>2, <1>3, DescendantsLeast
<1> QED
  BY <1>4 DEF C

\* The children that ChildrenMap lists for the id of a span.
LEMMA ChildrenListed ==
  ASSUME NEW i \in DOMAIN t
  PROVE  /\ Children(DOMAIN t, t[i].id) = ChildrenOf[i]
         /\ \A c \in ChildrenOf[i] : c \in DOMAIN t /\ i \in Parents(c)
  BY DEF Children, ChildrenOf, Parents

\* Steps of the search leave alone what is said of the trace.
LEMMA TraceUnchanged ==
  ASSUME t' = t, root' = root
  PROVE  /\ Below' = Below /\ ChildrenOf' = ChildrenOf
         /\ \A a : /\ Descendants(a)' = Descendants(a) /\ HasSubtrace(a)' = HasSubtrace(a)
                   /\ Above(a)' = Above(a) /\ Parents(a)' = Parents(a)
  BY DEF Below, ChildrenOf, Descendants, Closure, HasSubtrace, Children, Above, Parents

-----------------------------------------------------------------------------
\* The span at the head of the stack, the slice it comes with, the slice its children
\* get, the spans it is added to the subtraces of, and the children that are pushed.
Cur == Head(next).span
Old == Head(next).ancestors
New == IF HasSubtrace(Cur) THEN Appended(Old) ELSE Old
Line == Elements(Old) \o (IF HasSubtrace(Cur) THEN <<Cur>> ELSE <<>>)
Unseen == Ascending(Children(DOMAIN t, t[Cur].id) \ (visited \cup {Cur}))

SearchParts == StackInv /\ FoundInv /\ SharingInv /\ AncestorsInv /\ SubtracesInv

\* What the invariants say of the head of the stack.
LEMMA HeadOfStack ==
  ASSUME ModelInv, SearchInv, Visit
  PROVE  /\ SearchParts /\ root \in DOMAIN t /\ Len(next) \in Nat /\ Len(next) >= 1
         /\ t \in Seq(Spans) /\ DOMAIN t = 1 .. Len(t) /\ Len(t) \in Nat
         /\ next[1].span = Cur /\ next[1].ancestors = Old /\ 1 \in DOMAIN next
         /\ Cur \in DOMAIN t /\ Cur \in Below /\ Cur \notin visited /\ Cur \in Waiting
         /\ Below \subseteq DOMAIN t /\ Old \in Slices /\ New \in Slices
         /\ \A c \in DOMAIN t : \A p, q \in Parents(c) : p = q
<1>1. SearchParts /\ root \in DOMAIN t /\ pc = "search" /\ next # <<>>
  BY DEF SearchInv, Visit, SearchParts
<1>2. next \in Seq([span : Below \ visited, ancestors : Slices])
  BY <1>1 DEF SearchParts, StackInv
<1>3. t \in Seq(Spans) /\ DOMAIN t = 1 .. Len(t) /\ Len(t) \in Nat /\ DistinctIDs
  BY <1>1 DEF ModelInv
<1>4. Below \subseteq DOMAIN t
  BY <1>1, DescendantsClosed DEF Below
<1>5. Len(next) \in Nat /\ Len(next) >= 1 /\ 1 \in DOMAIN next /\ Head(next) = next[1]
  BY <1>1, <1>2
<1>6. next[1] \in [span : Below \ visited, ancestors : Slices]
  <2> DEFINE R == [span : Below \ visited, ancestors : Slices]
  <2>1. next \in Seq(R)
    BY <1>2
  <2> HIDE DEF R
  <2>2. next[1] \in R
    BY <1>5, <2>1
  <2> QED
    BY <2>2 DEF R
<1>7. Cur \in Below \ visited /\ Old \in Slices /\ Cur = next[1].span /\ Old = next[1].ancestors
  BY <1>5, <1>6 DEF Cur, Old
<1>8. Cur \in Waiting
  BY <1>5, <1>7 DEF Waiting
<1>9. Len(heap) \in Nat
  BY <1>1 DEF SearchParts, SharingInv
<1>10. New \in Slices
  <2>1. Appended(Old) \in Slices
    BY <1>7, <1>9 DEF Appended, Slices
  <2> QED
    BY <1>7, <2>1 DEF New
<1>11. \A c \in DOMAIN t : \A p, q \in Parents(c) : p = q
  BY <1>3 DEF Parents, DistinctIDs
<1> QED
  BY <1>1, <1>3, <1>4, <1>5, <1>7, <1>8, <1>10, <1>11

\* The children that are pushed: the children of the head, but for the root; none of
\* them was found before, and their parents are the head.
LEMMA UnseenChildren ==
  ASSUME ModelInv, SearchInv, Visit
  PROVE  /\ Unseen \in Seq(DOMAIN t) /\ IsInjective(Unseen)
         /\ \A k \in 1 .. Len(Unseen) :
                /\ Unseen[k] \in Below /\ Unseen[k] \notin visited
                /\ Unseen[k] # Cur /\ Unseen[k] # root
                /\ Unseen[k] \notin Waiting /\ Parents(Unseen[k]) = {Cur}
                /\ Unseen[k] \in ChildrenOf[Cur]
         /\ \A c \in ChildrenOf[Cur] :
                c \in visited \/ c = Cur \/ \E k \in 1 .. Len(Unseen) : Unseen[k] = c
<1> DEFINE S == ChildrenOf[Cur] \ (visited \cup {Cur})
<1>1. /\ SearchParts /\ root \in DOMAIN t /\ DOMAIN t = 1 .. Len(t) /\ Len(t) \in Nat
      /\ Cur \in DOMAIN t /\ Cur \in Below /\ Cur \notin visited /\ Cur \in Waiting
      /\ \A c \in DOMAIN t : \A p, q \in Parents(c) : p = q
  BY HeadOfStack
<1>2. Unseen = Ascending(S) /\ \A c \in S : c \in DOMAIN t /\ Cur \in Parents(c)
  BY <1>1, ChildrenListed DEF Unseen
<1>3. S \in SUBSET (1 .. Len(t))
  BY <1>1, <1>2
<1>4. Ascending(S) \in Seq(S) /\ IsInjective(Ascending(S))
      /\ \A x \in S : \E k \in 1 .. Len(Ascending(S)) : Ascending(S)[k] = x
  <2>1. IsFiniteSet(1 .. Len(t))
    BY <1>1, FS_Interval
  <2> DEFINE I == 1 .. Len(t)
  <2>2. S \in SUBSET Int /\ IsFiniteSet(S)
    <3>1. S \in SUBSET I /\ IsFiniteSet(I) /\ I \in SUBSET Int
      BY <1>1, <1>3, <2>1
    <3> HIDE DEF S, I
    <3>2. IsFiniteSet(S)
      BY <3>1, FS_Subset
    <3> QED
      BY <3>1, <3>2
  <2> HIDE DEF S
  <2> QED
    BY <2>2, AscendingLists
<1>5. ASSUME NEW c \in S
      PROVE  c \in Below /\ c # root /\ c \notin Waiting /\ Parents(c) = {Cur}
  <2>1. c \in DOMAIN t /\ Cur \in Parents(c) /\ c \notin visited /\ c # Cur /\ c \in ChildrenOf[Cur]
    BY <1>2
  <2>2. Parents(c) = {Cur}
    BY <1>1, <2>1
  <2>3. c # root
    <3>1. root \in visited \/ Waiting = {root}
      BY <1>1 DEF SearchParts, FoundInv
    <3> QED
      BY <1>1, <2>1, <3>1
  <2>4. c \in Below
    BY <1>1, <2>1, <2>3, DescendantsClosed DEF Below
  <2>5. c \notin Waiting
    <3>1. c \in Waiting => Parents(c) \subseteq visited
      BY <1>1, <2>3 DEF SearchParts, FoundInv
    <3> QED
      BY <1>1, <2>2, <3>1
  <2> QED
    BY <2>2, <2>3, <2>4, <2>5
<1>6. S \subseteq DOMAIN t
  BY <1>2
<1>7. \A k \in 1 .. Len(Ascending(S)) : Ascending(S)[k] \in S
  <2> HIDE DEF S
  <2> QED
    BY <1>4
<1>8. Ascending(S) \in Seq(DOMAIN t)
  <2> HIDE DEF S
  <2> QED
    BY <1>4, <1>6
<1>9. \A k \in 1 .. Len(Unseen) : Unseen[k] \in S
  BY <1>2, <1>7
<1>10. \A x \in S : x \notin visited /\ x # Cur /\ x \in ChildrenOf[Cur]
  OBVIOUS
<1>11. \A c \in ChildrenOf[Cur] : c \in visited \/ c = Cur \/ c \in S
  OBVIOUS
<1> HIDE DEF S
<1> QED
  BY <1>2, <1>4, <1>5, <1>8, <1>9, <1>10, <1>11

\* The stack after a round.
LEMMA StackAfter ==
  ASSUME ModelInv, SearchInv, Visit
  PROVE  /\ Len(Unseen) \in Nat /\ Len(next') = Len(Unseen) + Len(next) - 1
         /\ next' \in Seq([span : DOMAIN t, ancestors : Slices])
         /\ DOMAIN next' = 1 .. Len(next') /\ DOMAIN next = 1 .. Len(next)
         /\ \A k \in 1 .. Len(Unseen) :
                /\ Len(Unseen) - k + 1 \in 1 .. Len(Unseen)
                /\ next'[k].span = Unseen[Len(Unseen) - k + 1] /\ next'[k].ancestors = New
         /\ \A k \in Len(Unseen) + 1 .. Len(next') :
                /\ k - Len(Unseen) + 1 \in 2 .. Len(next)
                /\ next'[k] = next[k - Len(Unseen) + 1]
<1> DEFINE X == [span : DOMAIN t, ancestors : Slices]
           p == [k \in DOMAIN Unseen |-> [span |-> Unseen[k], ancestors |-> New]]
<1>1. SearchParts /\ Len(next) \in Nat /\ Len(next) >= 1 /\ New \in Slices /\ Below \subseteq DOMAIN t
  BY HeadOfStack
<1>2. Unseen \in Seq(DOMAIN t)
  BY UnseenChildren
<1>3. Len(Unseen) \in Nat /\ DOMAIN Unseen = 1 .. Len(Unseen)
  BY <1>2
<1>4. next' = Push(Tail(next), p)
  BY DEF Visit, Unseen, New, Cur, Old
<1>5. next \in Seq(X) /\ next # <<>>
  <2> DEFINE R == [span : Below \ visited, ancestors : Slices]
  <2>1. next \in Seq(R)
    BY <1>1 DEF SearchParts, StackInv
  <2>2. R \subseteq X
    BY <1>1
  <2> HIDE DEF X, R
  <2>3. next \in Seq(X)
    BY <2>1, <2>2
  <2> QED
    BY <1>1, <2>3
<1>6. p \in Seq(X) /\ Len(p) = Len(Unseen)
  <2>1. \A k \in 1 .. Len(Unseen) : [span |-> Unseen[k], ancestors |-> New] \in X
    BY <1>1, <1>2, <1>3
  <2> HIDE DEF X
  <2> QED
    BY <1>3, <2>1
<1>7. \A k \in 1 .. Len(Unseen) : p[k].span = Unseen[k] /\ p[k].ancestors = New
  BY <1>3
<1> HIDE DEF p, X
<1>8. next' \in Seq(X) /\ Stacked(next', next, p)
  BY <1>4, <1>5, <1>6, PushedStack
<1>9. /\ Len(next') = Len(p) + Len(next) - 1
      /\ \A k, j \in 1 .. Len(p) : k + j = Len(p) + 1 => next'[k] = p[j]
  BY <1>8 DEF Stacked
<1>10. \A k \in Len(p) + 1 .. Len(p) + Len(next) - 1 : next'[k] = next[k - Len(p) + 1]
  BY <1>8 DEF Stacked
<1>11. \A k \in 1 .. Len(Unseen) : Len(Unseen) - k + 1 \in 1 .. Len(Unseen)
  BY <1>3
<1>12. \A k \in Len(Unseen) + 1 .. Len(next') : k - Len(Unseen) + 1 \in 2 .. Len(next)
  BY <1>1, <1>3, <1>6, <1>9
<1>13. DOMAIN next' = 1 .. Len(next') /\ DOMAIN next = 1 .. Len(next)
  BY <1>5, <1>8
<1>14. next' \in Seq([span : DOMAIN t, ancestors : Slices])
  BY <1>8 DEF X
<1>15. ASSUME NEW k \in 1 .. Len(Unseen)
       PROVE  next'[k].span = Unseen[Len(Unseen) - k + 1] /\ next'[k].ancestors = New
  <2> DEFINE j == Len(Unseen) - k + 1
  <2>1. j \in 1 .. Len(Unseen) /\ k + j = Len(Unseen) + 1
    BY <1>3, <1>11
  <2> HIDE DEF j
  <2>2. next'[k] = p[j]
    BY <1>6, <1>9, <2>1
  <2>3. next'[k].span = Unseen[j] /\ next'[k].ancestors = New
    BY <1>7, <2>1, <2>2
  <2> QED
    BY <2>3 DEF j
<1>16. ASSUME NEW k \in Len(Unseen) + 1 .. Len(next') PROVE next'[k] = next[k - Len(Unseen) + 1]
  BY <1>6, <1>9, <1>10
<1> QED
  BY <1>3, <1>6, <1>9, <1>11, <1>12, <1>13, <1>14, <1>15, <1>16

Pushed == {Unseen[k] : k \in 1 .. Len(Unseen)}

\* The spans that wait after a round.
LEMMA WaitingAfter ==
  ASSUME ModelInv, SearchInv, Visit
  PROVE  Waiting' = (Waiting \ {Cur}) \cup Pushed
<1> DEFINE m == Len(Unseen)
<1>1. /\ SearchParts /\ Len(next) \in Nat /\ next[1].span = Cur /\ 1 \in DOMAIN next
  BY HeadOfStack
<1>2. /\ m \in Nat /\ Len(next') = m + Len(next) - 1
      /\ DOMAIN next' = 1 .. Len(next') /\ DOMAIN next = 1 .. Len(next)
      /\ \A k \in 1 .. m : m - k + 1 \in 1 .. m /\ next'[k].span = Unseen[m - k + 1]
      /\ \A k \in m + 1 .. Len(next') : k - m + 1 \in 2 .. Len(next) /\ next'[k] = next[k - m + 1]
  BY StackAfter
<1> HIDE DEF m
<1>3. ASSUME NEW k \in 2 .. Len(next) PROVE next[k].span \in Waiting \ {Cur}
  <2>1. k \in DOMAIN next /\ k # 1
    BY <1>1, <1>2
  <2>2. next[k].span # next[1].span
    BY <1>1, <2>1 DEF SearchParts, StackInv
  <2> QED
    BY <1>1, <2>1, <2>2 DEF Waiting
<1>4. ASSUME NEW w \in Waiting' PROVE w \in (Waiting \ {Cur}) \cup Pushed
  <2>1. PICK k \in DOMAIN next' : w = next'[k].span
    BY DEF Waiting
  <2>2. CASE k \in 1 .. m
    BY <1>2, <2>1, <2>2 DEF Pushed, m
  <2>3. CASE k \in m + 1 .. Len(next')
    BY <1>2, <1>3, <2>1, <2>3
  <2> QED
    BY <1>1, <1>2, <2>1, <2>2, <2>3
<1>5. ASSUME NEW w \in Waiting, w # Cur PROVE w \in Waiting'
  <2>1. PICK i \in DOMAIN next : w = next[i].span
    BY DEF Waiting
  <2> DEFINE k == i + m - 1
  <2>2. i \in 2 .. Len(next)
    BY <1>1, <1>2, <1>5, <2>1
  <2>3. k \in m + 1 .. Len(next') /\ k \in DOMAIN next' /\ k - m + 1 = i
    BY <1>1, <1>2, <2>2
  <2> HIDE DEF k
  <2>4. next'[k] = next[i]
    BY <1>2, <2>3
  <2> QED
    BY <2>1, <2>3, <2>4 DEF Waiting
<1>6. ASSUME NEW w \in Pushed PROVE w \in Waiting'
  <2>1. PICK j \in 1 .. m : w = Unseen[j]
    BY DEF Pushed, m
  <2> DEFINE k == m - j + 1
  <2>2. k \in 1 .. m /\ k \in DOMAIN next' /\ m - k + 1 = j
    BY <1>1, <1>2
  <2> HIDE DEF k
  <2>3. next'[k].span = w
    BY <1>2, <2>1, <2>2
  <2> QED
    BY <2>2, <2>3 DEF Waiting
<1> QED
  BY <1>4, <1>5, <1>6

\* The stack holds spans that were not visited, each once.
LEMMA StackKept ==
  ASSUME ModelInv, SearchInv, Visit
  PROVE  StackInv'
<1> DEFINE m == Len(Unseen)
<1>1. /\ SearchParts /\ Len(next) \in Nat /\ next[1].span = Cur /\ 1 \in DOMAIN next
  BY HeadOfStack
<1>2. /\ m \in Nat /\ Len(next') = m + Len(next) - 1
      /\ DOMAIN next' = 1 .. Len(next') /\ DOMAIN next = 1 .. Len(next)
      /\ \A k \in 1 .. m : m - k + 1 \in 1 .. m /\ next'[k].span = Unseen[m - k + 1]
      /\ \A k \in m + 1 .. Len(next') : k - m + 1 \in 2 .. Len(next) /\ next'[k] = next[k - m + 1]
  BY StackAfter
<1>3. /\ IsInjective(Unseen) /\ DOMAIN Unseen = 1 .. m
      /\ \A k \in 1 .. m : Unseen[k] \in Below /\ Unseen[k] \notin visited
                           /\ Unseen[k] # Cur /\ Unseen[k] \notin Waiting
  BY UnseenChildren
<1>4. next' \in Seq([span : DOMAIN t, ancestors : Slices])
  BY StackAfter
<1>5. Waiting' = (Waiting \ {Cur}) \cup Pushed
  BY WaitingAfter
<1>6. /\ visited' = visited \cup {Cur} /\ t' = t /\ root' = root
  BY DEF Visit, Cur
<1>7. Below' = Below
  BY <1>6, TraceUnchanged
<1>8. \A w \in Waiting : w \in Below \ visited
  <2> DEFINE R == [span : Below \ visited, ancestors : Slices]
  <2>1. next \in Seq(R)
    BY <1>1 DEF SearchParts, StackInv
  <2>2. \A k \in DOMAIN next : next[k] \in R
    <3> HIDE DEF R
    <3> QED
      BY <2>1
  <2> QED
    BY <2>2 DEF Waiting
<1>9. \A w \in Waiting' : w \in Below' \ visited'
  <2>1. \A w \in Pushed : w \in Below /\ w \notin visited /\ w # Cur
    BY <1>3 DEF Pushed
  <2> QED
    BY <1>5, <1>6, <1>7, <1>8, <2>1
<1> HIDE DEF m
<1>10. next' \in Seq([span : Below' \ visited', ancestors : Slices])
  <2> DEFINE R == [span : DOMAIN t, ancestors : Slices]
             Q == [span : Below' \ visited', ancestors : Slices]
  <2>1. next' \in Seq(R)
    BY <1>4
  <2>2. \A k \in DOMAIN next' : next'[k] \in R
    <3> HIDE DEF R
    <3> QED
      BY <2>1
  <2>3. \A k \in DOMAIN next' : next'[k] \in Q
    <3>1. \A k \in DOMAIN next' : next'[k].span \in Below' \ visited'
      BY <1>9 DEF Waiting
    <3> QED
      BY <2>2, <3>1
  <2> HIDE DEF R, Q
  <2>4. next' \in Seq(Q)
    <3>1. Len(next') \in Nat /\ next' = [k \in 1 .. Len(next') |-> next'[k]]
      BY <2>1
    <3>2. \A k \in 1 .. Len(next') : next'[k] \in Q
      BY <1>2, <2>3
    <3> QED
      BY <3>1, <3>2
  <2> QED
    BY <2>4 DEF Q
<1>11. ASSUME NEW k \in DOMAIN next', NEW l \in DOMAIN next', next'[k].span = next'[l].span
       PROVE  k = l
  <2>1. CASE k \in 1 .. m /\ l \in 1 .. m
    <3>1. Unseen[m - k + 1] = Unseen[m - l + 1] /\ m - k + 1 \in 1 .. m /\ m - l + 1 \in 1 .. m
      BY <1>2, <1>11, <2>1
    <3>2. m - k + 1 = m - l + 1
      BY <1>3, <3>1 DEF IsInjective
    <3> QED
      BY <1>2, <2>1, <3>2
  <2>2. CASE k \in m + 1 .. Len(next') /\ l \in m + 1 .. Len(next')
    <3>1. next[k - m + 1].span = next[l - m + 1].span /\ k - m + 1 \in DOMAIN next
          /\ l - m + 1 \in DOMAIN next
      <4>1. k - m + 1 \in 2 .. Len(next) /\ next'[k] = next[k - m + 1]
        BY <1>2, <2>2
      <4>2. l - m + 1 \in 2 .. Len(next) /\ next'[l] = next[l - m + 1]
        BY <1>2, <2>2
      <4>3. 2 .. Len(next) \subseteq DOMAIN next
        BY <1>1, <1>2
      <4> QED
        BY <1>11, <4>1, <4>2, <4>3
    <3>2. k - m + 1 = l - m + 1
      BY <1>1, <3>1 DEF SearchParts, StackInv
    <3> QED
      BY <1>2, <2>2, <3>2
  <2>3. ASSUME NEW i \in 1 .. m, NEW j \in m + 1 .. Len(next'), next'[i].span = next'[j].span
        PROVE  FALSE
    <3>1. next'[i].span \notin Waiting
      BY <1>2, <1>3
    <3>2. j - m + 1 \in DOMAIN next /\ next'[j].span = next[j - m + 1].span
      BY <1>1, <1>2
    <3>3. next'[j].span \in Waiting
      BY <3>2 DEF Waiting
    <3> QED
      BY <2>3, <3>1, <3>3
  <2>4. \A i \in DOMAIN next' : i \in 1 .. m \/ i \in m + 1 .. Len(next')
    BY <1>1, <1>2
  <2>5. k \in 1 .. m \/ k \in m + 1 .. Len(next')
    BY <2>4
  <2>6. l \in 1 .. m \/ l \in m + 1 .. Len(next')
    BY <2>4
  <2>7. next'[l].span = next'[k].span
    BY <1>11
  <2> QED
    BY <1>11, <2>1, <2>2, <2>3, <2>5, <2>6, <2>7
<1> QED
  BY <1>10, <1>11 DEF StackInv

\* What was found is kept, and with the head its children are found.
LEMMA FoundKept ==
  ASSUME ModelInv, SearchInv, Visit
  PROVE  FoundInv'
<1>1. /\ SearchParts /\ root \in DOMAIN t /\ Cur \in Below /\ Cur \in Waiting
  BY HeadOfStack
<1>2. Waiting' = (Waiting \ {Cur}) \cup Pushed
  BY WaitingAfter
<1>3. /\ visited' = visited \cup {Cur} /\ t' = t /\ root' = root
  BY DEF Visit, Cur
<1>4. Below' = Below /\ ChildrenOf' = ChildrenOf /\ \A a : Parents(a)' = Parents(a)
  BY <1>3, TraceUnchanged
<1>5. \A w \in Pushed : Parents(w) = {Cur}
  BY UnseenChildren DEF Pushed
<1>6. \A c \in ChildrenOf[Cur] : c \in visited \/ c = Cur \/ c \in Pushed
  BY UnseenChildren DEF Pushed
<1>7. FoundInv
  BY <1>1 DEF SearchParts
<1>8. visited' \subseteq Below' /\ root' \in visited'
  BY <1>1, <1>3, <1>4, <1>7 DEF FoundInv
<1>9. \A v \in visited' : ChildrenOf'[v] \subseteq visited' \cup Waiting'
  <2>1. \A v \in visited : ChildrenOf[v] \subseteq visited \cup Waiting
    BY <1>7 DEF FoundInv
  <2> QED
    BY <1>2, <1>3, <1>4, <1>6, <2>1
<1>10. \A w \in (visited' \cup Waiting') \ {root'} : Parents(w) \subseteq visited'
  <2>1. \A w \in (visited \cup Waiting) \ {root} : Parents(w) \subseteq visited
    BY <1>7 DEF FoundInv
  <2> QED
    BY <1>1, <1>2, <1>3, <1>5, <2>1
<1> QED
  BY <1>4, <1>8, <1>9, <1>10 DEF FoundInv

\* The arrays h are g after an append to the slice s that made it the slice r, of which
\* the last element is x.
Grown(g, h, s, r, x) ==
    /\ h \in Seq(Seq(Nat))
    /\ \A a \in DOMAIN g :
        /\ a \in DOMAIN h /\ Len(h[a]) = Len(g[a])
        /\ \A j \in 1 .. Len(g[a]) : h[a][j] = g[a][j] \/ (a = s.array /\ j > s.len)
    /\ r.len = s.len + 1 /\ r.array \in DOMAIN h /\ r.len <= Len(h[r.array])
    /\ \A j \in 1 .. s.len : h[r.array][j] = g[s.array][j]
    /\ h[r.array][r.len] = x
    /\ r.array = s.array \/ r.array \notin DOMAIN g

\* An append in place, and one that takes a new array.
LEMMA AppendGrows ==
  ASSUME heap \in Seq(Seq(Nat)), NEW s \in Slices, NEW x \in Nat, AppendTo(s, x),
         s.len > 0 => s.array \in DOMAIN heap /\ s.len <= Len(heap[s.array])
  PROVE  Grown(heap, heap', s, Appended(s), x)
<1>1. s.len \in Nat /\ s.array \in Nat /\ Len(heap) \in Nat /\ DOMAIN heap = 1 .. Len(heap)
  BY DEF Slices
<1>2. \A a \in DOMAIN heap : heap[a] \in Seq(Nat)
  <2> DEFINE S == Seq(Nat)
  <2>1. heap \in Seq(S)
    OBVIOUS
  <2> HIDE DEF S
  <2>2. \A a \in DOMAIN heap : heap[a] \in S
    BY <2>1
  <2> QED
    BY <2>2 DEF S
<1> DEFINE r == Appended(s)
<1>3. CASE HasCapacity(s)
  <2> DEFINE g == heap[s.array]
             e == [g EXCEPT ![s.len + 1] = x]
  <2>1. s.len > 0 /\ Len(g) > s.len /\ s.array \in DOMAIN heap /\ g \in Seq(Nat)
    BY <1>2, <1>3 DEF HasCapacity
  <2>2. r.array = s.array /\ r.len = s.len + 1
    BY <1>3 DEF Appended
  <2>3. e \in Seq(Nat) /\ Len(e) = Len(g) /\ e[s.len + 1] = x /\ s.len + 1 \in 1 .. Len(g)
        /\ \A j \in 1 .. Len(g) : j # s.len + 1 => e[j] = g[j]
    <3>1. s.len + 1 \in 1 .. Len(g)
      BY <1>1, <2>1
    <3> HIDE DEF g
    <3> QED
      BY <2>1, <3>1
  <2>4. heap' = [heap EXCEPT ![s.array] = e]
    BY <1>3 DEF AppendTo
  <2> HIDE DEF e, g, r
  <2>5. DOMAIN heap' = DOMAIN heap /\ heap'[s.array] = e
        /\ \A a \in DOMAIN heap : a # s.array => heap'[a] = heap[a]
    BY <2>1, <2>4
  <2>6. heap' \in Seq(Seq(Nat))
    <3> DEFINE S == Seq(Nat)
    <3>1. heap \in Seq(S) /\ e \in S
      BY <2>3
    <3> HIDE DEF S
    <3>2. heap' \in Seq(S)
      BY <2>1, <2>4, <3>1
    <3> QED
      BY <3>2 DEF S
  <2>7. ASSUME NEW a \in DOMAIN heap
        PROVE  /\ a \in DOMAIN heap' /\ Len(heap'[a]) = Len(heap[a])
               /\ \A j \in 1 .. Len(heap[a]) :
                    heap'[a][j] = heap[a][j] \/ (a = s.array /\ j > s.len)
    <3>1. CASE a = s.array
      <4>1. heap'[a] = e /\ heap[a] = g
        BY <2>5, <3>1 DEF g
      <4>2. \A j \in 1 .. Len(g) : e[j] = g[j] \/ j > s.len
        <5>1. s.len + 1 > s.len
          BY <1>1
        <5> QED
          BY <2>3, <5>1
      <4> QED
        BY <2>3, <2>5, <3>1, <4>1, <4>2
    <3>2. CASE a # s.array
      BY <2>5, <3>2
    <3> QED
      BY <3>1, <3>2
  <2>8. \A j \in 1 .. s.len : heap'[r.array][j] = heap[s.array][j]
    <3> DEFINE n == s.len
               m == Len(g)
    <3>1. n \in Nat /\ m \in Nat /\ n + 1 <= m
      BY <1>1, <2>1
    <3> HIDE DEF n, m
    <3>2. \A j \in 1 .. n : j \in 1 .. m /\ j # n + 1
      BY <3>1
    <3> QED
      BY <2>2, <2>3, <2>5, <3>2 DEF g, n, m
  <2>9. r.array \in DOMAIN heap' /\ r.len <= Len(heap'[r.array]) /\ heap'[r.array][r.len] = x
    BY <1>1, <2>1, <2>2, <2>3, <2>5
  <2> QED
    BY <2>2, <2>6, <2>7, <2>8, <2>9 DEF Grown, r
<1>4. CASE ~HasCapacity(s)
  <2> DEFINE n == IF s.len = 0 THEN 1 ELSE 2 * s.len
             e == [k \in 1 .. n |-> IF k <= s.len THEN heap[s.array][k]
                                    ELSE IF k = s.len + 1 THEN x ELSE 0]
  <2>1. heap' = Append(heap, e)
    BY <1>4 DEF AppendTo
  <2>2. r.array = Len(heap) + 1 /\ r.len = s.len + 1
    BY <1>4 DEF Appended
  <2>3. n \in Nat /\ s.len + 1 \in 1 .. n
    <3> DEFINE l == s.len
    <3>1. l \in Nat
      BY <1>1
    <3> HIDE DEF l
    <3>2. \A m : m = (IF l = 0 THEN 1 ELSE 2 * l) => m \in Nat /\ l + 1 \in 1 .. m
      BY <3>1
    <3> QED
      BY <3>2 DEF l
  <2>4. \A k \in 1 .. s.len : heap[s.array][k] \in Nat
    <3>1. CASE s.len > 0
      <4> DEFINE g == heap[s.array]
      <4>1. g \in Seq(Nat) /\ s.len <= Len(g)
        BY <1>2, <3>1
      <4> HIDE DEF g
      <4>2. \A k \in 1 .. s.len : k \in 1 .. Len(g)
        BY <1>1, <4>1
      <4>3. \A k \in 1 .. s.len : g[k] \in Nat
        BY <4>1, <4>2
      <4> QED
        BY <4>3 DEF g
    <3> QED
      BY <1>1, <3>1
  <2>5. e \in Seq(Nat) /\ Len(e) = n
    <3>1. \A k \in 1 .. n : (IF k <= s.len THEN heap[s.array][k]
                             ELSE IF k = s.len + 1 THEN x ELSE 0) \in Nat
      <4> HIDE DEF n
      <4> QED
        BY <1>1, <2>3, <2>4
    <3> HIDE DEF n
    <3> QED
      BY <2>3, <3>1
  <2>6. e[s.len + 1] = x /\ \A k \in 1 .. s.len : e[k] = heap[s.array][k]
    <3> HIDE DEF n
    <3> QED
      BY <1>1, <2>3
  <2> HIDE DEF e, n, r
  <2>7. /\ heap' \in Seq(Seq(Nat)) /\ DOMAIN heap' = 1 .. Len(heap) + 1
        /\ heap'[Len(heap) + 1] = e /\ \A a \in DOMAIN heap : heap'[a] = heap[a]
    <3> DEFINE S == Seq(Nat)
    <3>1. heap \in Seq(S) /\ e \in S
      BY <2>5
    <3> HIDE DEF S
    <3>2. /\ heap' \in Seq(S) /\ DOMAIN heap' = 1 .. Len(heap) + 1
          /\ heap'[Len(heap) + 1] = e /\ \A a \in DOMAIN heap : heap'[a] = heap[a]
      BY <2>1, <3>1
    <3> QED
      BY <3>2 DEF S
  <2>8. r.array \in DOMAIN heap' /\ r.array \notin DOMAIN heap /\ heap'[r.array] = e
        /\ DOMAIN heap \subseteq DOMAIN heap'
    BY <1>1, <2>2, <2>7
  <2>9. r.len <= Len(heap'[r.array]) /\ heap'[r.array][r.len] = x
    BY <1>1, <2>2, <2>3, <2>5, <2>6, <2>8
  <2> QED
    BY <2>2, <2>6, <2>7, <2>8, <2>9 DEF Grown, r
<1> QED
  BY <1>3, <1>4

\* The elements of a slice in the arrays h.
ElementsOf(h, s) == IF s.len = 0 THEN <<>> ELSE SubSeq(h[s.array], 1, s.len)

\* The elements of a slice that is within its array.
LEMMA ElementsAt ==
  ASSUME NEW h \in Seq(Seq(Nat)), NEW s \in Slices,
         s.len > 0 => s.array \in DOMAIN h /\ s.len <= Len(h[s.array])
  PROVE  /\ ElementsOf(h, s) \in Seq(Nat) /\ Len(ElementsOf(h, s)) = s.len
         /\ \A j \in 1 .. s.len : ElementsOf(h, s)[j] = h[s.array][j]
<1>1. s.len \in Nat
  BY DEF Slices
<1>2. CASE s.len = 0
  BY <1>2 DEF ElementsOf
<1>3. CASE s.len > 0
  <2> DEFINE S == Seq(Nat)
             g == h[s.array]
  <2>1. g \in Seq(Nat) /\ s.len <= Len(g)
    <3>1. h \in Seq(S)
      OBVIOUS
    <3> HIDE DEF S
    <3>2. h[s.array] \in S
      BY <1>3, <3>1
    <3> QED
      BY <1>3, <3>2 DEF S
  <2> HIDE DEF g
  <2>2. SubSeq(g, 1, s.len) \in Seq(Nat) /\ Len(SubSeq(g, 1, s.len)) = s.len
        /\ \A j \in 1 .. s.len : SubSeq(g, 1, s.len)[j] = g[j]
    <3> DEFINE n == s.len
    <3>1. n \in Nat /\ n > 0 /\ n <= Len(g) /\ g \in Seq(Nat)
      BY <1>1, <1>3, <2>1
    <3> HIDE DEF n
    <3>2. \A i \in 1 .. n : g[i] \in Nat
      BY <3>1
    <3>3. /\ SubSeq(g, 1, n) \in Seq(Nat)
          /\ Len(SubSeq(g, 1, n)) = (IF 1 <= n THEN n - 1 + 1 ELSE 0)
          /\ \A i \in 1 .. n - 1 + 1 : SubSeq(g, 1, n)[i] = g[1 + i - 1]
      BY <3>1, <3>2, SubSeqProperties
    <3>4. n - 1 + 1 = n /\ 1 <= n /\ \A i \in 1 .. n : 1 + i - 1 = i
      BY <3>1
    <3> QED
      BY <3>3, <3>4 DEF n
  <2>3. ElementsOf(h, s) = SubSeq(g, 1, s.len)
    BY <1>1, <1>3 DEF ElementsOf, g
  <2> QED
    BY <2>2, <2>3 DEF g
<1> QED
  BY <1>1, <1>2, <1>3

\* After a round, nothing in the slices behind the head has changed, and the children of
\* the head get the head's slice, with the head appended if it has a subtrace.
LEMMA HeapAfter ==
  ASSUME ModelInv, SearchInv, Visit
  PROVE  /\ heap \in Seq(Seq(Nat)) /\ heap' \in Seq(Seq(Nat))
         /\ Old.len > 0 => Old.array \in DOMAIN heap /\ Old.len <= Len(heap[Old.array])
         /\ \A a \in DOMAIN heap :
                /\ a \in DOMAIN heap' /\ Len(heap'[a]) = Len(heap[a])
                /\ \A j \in 1 .. Len(heap[a]) :
                        heap'[a][j] = heap[a][j] \/ (a = Old.array /\ j > Old.len)
         /\ New.len > 0 => New.array \in DOMAIN heap' /\ New.len <= Len(heap'[New.array])
         /\ \A j \in 1 .. Old.len : heap'[New.array][j] = heap[Old.array][j]
         /\ IF HasSubtrace(Cur) THEN New.len = Old.len + 1 /\ heap'[New.array][New.len] = Cur
                                ELSE New = Old
         /\ New.array = Old.array \/ New.array \notin DOMAIN heap
<1>1. /\ SearchParts /\ Cur \in Nat /\ Old \in Slices
      /\ next[1].ancestors = Old /\ 1 \in DOMAIN next
  BY HeadOfStack
<1>2. heap \in Seq(Seq(Nat))
      /\ (Old.len > 0 => Old.array \in DOMAIN heap /\ Old.len <= Len(heap[Old.array]))
  BY <1>1 DEF SearchParts, SharingInv
<1>3. CASE HasSubtrace(Cur)
  <2>1. AppendTo(Old, Cur)
    BY <1>3 DEF Visit, Cur, Old
  <2>2. Grown(heap, heap', Old, Appended(Old), Cur)
    BY <1>1, <1>2, <2>1, AppendGrows
  <2>3. New = Appended(Old)
    BY <1>3 DEF New
  <2>4. Grown(heap, heap', Old, New, Cur)
    BY <2>2, <2>3
  <2> QED
    BY <1>2, <1>3, <2>4 DEF Grown
<1>4. CASE ~HasSubtrace(Cur)
  <2>1. heap' = heap
    BY <1>4 DEF Visit, Cur
  <2>2. New = Old
    BY <1>4 DEF New
  <2> QED
    BY <1>2, <1>4, <2>1, <2>2
<1> QED
  BY <1>3, <1>4

\* Where an entry of the stack comes from.
LEMMA EntryAfter ==
  ASSUME ModelInv, SearchInv, Visit, NEW k \in DOMAIN next'
  PROVE  \/ /\ k \in 1 .. Len(Unseen)
            /\ next'[k].ancestors = New /\ next'[k].span \in Pushed
         \/ /\ k \in Len(Unseen) + 1 .. Len(next')
            /\ k - Len(Unseen) + 1 \in DOMAIN next /\ k - Len(Unseen) + 1 > 1
            /\ next'[k] = next[k - Len(Unseen) + 1]
<1> DEFINE m == Len(Unseen)
<1>1. /\ m \in Nat /\ DOMAIN next' = 1 .. Len(next') /\ DOMAIN next = 1 .. Len(next)
      /\ \A i \in 1 .. m : m - i + 1 \in 1 .. m /\ next'[i].span = Unseen[m - i + 1]
                           /\ next'[i].ancestors = New
      /\ \A i \in m + 1 .. Len(next') : i - m + 1 \in 2 .. Len(next) /\ next'[i] = next[i - m + 1]
  BY StackAfter
<1>2. Len(next) \in Nat /\ Len(next') \in Nat
  BY HeadOfStack, StackAfter
<1>3. \A i \in 1 .. m : Unseen[i] \in Pushed
  BY DEF Pushed
<1> HIDE DEF m
<1>4. CASE k \in 1 .. m
  BY <1>1, <1>3, <1>4 DEF m
<1>5. CASE k \in m + 1 .. Len(next')
  <2>1. k - m + 1 \in 2 .. Len(next) /\ next'[k] = next[k - m + 1]
    BY <1>1, <1>5
  <2>2. k - m + 1 \in DOMAIN next /\ k - m + 1 > 1
    BY <1>1, <1>2, <2>1
  <2> QED
    BY <1>5, <2>1, <2>2 DEF m
<1> QED
  BY <1>1, <1>2, <1>4, <1>5

\* Of two slices on the stack with one array, that nearer to the head is not shorter.
LEMMA SharingKept ==
  ASSUME ModelInv, SearchInv, Visit
  PROVE  SharingInv'
<1> DEFINE m == Len(Unseen)
<1>1. /\ SearchParts /\ Old \in Slices /\ New \in Slices /\ next[1].ancestors = Old /\ 1 \in DOMAIN next
      /\ Len(next) \in Nat
  BY HeadOfStack
<1>2. m \in Nat /\ DOMAIN next' = 1 .. Len(next') /\ Len(next') \in Nat
      /\ DOMAIN next = 1 .. Len(next)
  BY <1>1, StackAfter
<1>3. SharingInv
  BY <1>1 DEF SearchParts
<1>4. \A k \in DOMAIN next :
        next[k].ancestors.len > 0 =>
            /\ next[k].ancestors.array \in DOMAIN heap
            /\ next[k].ancestors.len <= Len(heap[next[k].ancestors.array])
  BY <1>3 DEF SharingInv
<1>5. \A k, l \in DOMAIN next :
        /\ k < l
        /\ next[l].ancestors.len > 0
        /\ next[k].ancestors.array = next[l].ancestors.array
        => next[l].ancestors.len <= next[k].ancestors.len
  BY <1>3 DEF SharingInv
<1>6. ASSUME NEW k \in DOMAIN next', next'[k].ancestors.len > 0
      PROVE  /\ next'[k].ancestors.array \in DOMAIN heap'
             /\ next'[k].ancestors.len <= Len(heap'[next'[k].ancestors.array])
  <2>1. CASE next'[k].ancestors = New
    BY <1>6, <2>1, HeapAfter
  <2>2. CASE \E i \in DOMAIN next : next'[k] = next[i]
    <3>1. PICK i \in DOMAIN next : next'[k] = next[i]
      BY <2>2
    <3>2. next[i].ancestors.array \in DOMAIN heap
          /\ next[i].ancestors.len <= Len(heap[next[i].ancestors.array])
      BY <1>4, <1>6, <3>1
    <3>3. next[i].ancestors.array \in DOMAIN heap'
          /\ Len(heap'[next[i].ancestors.array]) = Len(heap[next[i].ancestors.array])
      BY <3>2, HeapAfter
    <3> QED
      BY <3>1, <3>2, <3>3
  <2> QED
    BY <2>1, <2>2, EntryAfter
<1>7. ASSUME NEW k \in DOMAIN next', NEW l \in DOMAIN next', k < l,
             next'[l].ancestors.len > 0,
             next'[k].ancestors.array = next'[l].ancestors.array
      PROVE  next'[l].ancestors.len <= next'[k].ancestors.len
  <2>1. New.len \in Nat /\ Old.len \in Nat /\ Old.len <= New.len
    BY <1>1, HeapAfter DEF Slices
  <2>2. CASE l \in 1 .. m
    <3>1. k \in 1 .. m
      BY <1>2, <1>7, <2>2
    <3>2. next'[k].ancestors = New /\ next'[l].ancestors = New
      BY <2>2, <3>1, StackAfter
    <3> QED
      BY <2>1, <3>2
  <2>3. CASE l \in m + 1 .. Len(next')
    <3> DEFINE j == l - m + 1
    <3>1. j \in DOMAIN next /\ j > 1 /\ next'[l] = next[j]
      <4>1. l \notin 1 .. m
        BY <1>2, <2>3
      <4> QED
        BY <4>1, EntryAfter
    <3> HIDE DEF j
    <3>2. CASE k \in 1 .. m
      <4>1. next'[k].ancestors = New
        BY <3>2, StackAfter
      <4>2. New.array = next[j].ancestors.array /\ next[j].ancestors.len > 0
        BY <1>7, <3>1, <4>1
      <4>3. New.array \in DOMAIN heap
        BY <1>4, <3>1, <4>2
      <4>4. Old.array = next[j].ancestors.array
        BY <4>2, <4>3, HeapAfter
      <4>5. next[j].ancestors.len <= Old.len
        BY <1>1, <1>5, <3>1, <4>2, <4>4
      <4>6. next[j].ancestors.len \in Nat
        <5> DEFINE R == [span : Below \ visited, ancestors : Slices]
        <5>1. next \in Seq(R)
          BY <1>1 DEF SearchParts, StackInv
        <5>2. next[j] \in R
          <6> HIDE DEF R
          <6> QED
            BY <3>1, <5>1
        <5> QED
          BY <5>2 DEF Slices
      <4>7. next[j].ancestors.len <= New.len
        BY <2>1, <4>5, <4>6
      <4> QED
        BY <3>1, <4>1, <4>7
    <3>3. CASE k \in m + 1 .. Len(next')
      <4> DEFINE i == k - m + 1
      <4>1. i \in DOMAIN next /\ next'[k] = next[i]
        <5>1. k \notin 1 .. m
          BY <1>2, <3>3
        <5> QED
          BY <5>1, EntryAfter
      <4>2. i < j
        BY <1>2, <1>7, <2>3, <3>3 DEF j
      <4> HIDE DEF i
      <4> QED
        BY <1>5, <1>7, <3>1, <4>1, <4>2
    <3> QED
      BY <1>2, <3>2, <3>3
  <2> QED
    BY <1>2, <2>2, <2>3
<1>8. heap' \in Seq(Seq(Nat))
  BY HeapAfter
<1> QED
  BY <1>6, <1>7, <1>8 DEF SharingInv

\* What a slice behind the head holds is not overwritten.
LEMMA ElementsBehind ==
  ASSUME ModelInv, SearchInv, Visit, NEW i \in DOMAIN next, i > 1
  PROVE  ElementsOf(heap', next[i].ancestors) = ElementsOf(heap, next[i].ancestors)
<1> DEFINE s == next[i].ancestors
           u == ElementsOf(heap', s)
           v == ElementsOf(heap, s)
<1>1. /\ SearchParts /\ next[1].ancestors = Old /\ 1 \in DOMAIN next /\ Old \in Slices
  BY HeadOfStack
<1>2. s \in Slices
  <2> DEFINE R == [span : Below \ visited, ancestors : Slices]
  <2>1. next \in Seq(R)
    BY <1>1 DEF SearchParts, StackInv
  <2>2. next[i] \in R
    <3> HIDE DEF R
    <3> QED
      BY <2>1
  <2> QED
    BY <2>2
<1>3. s.len > 0 => /\ s.array \in DOMAIN heap /\ s.len <= Len(heap[s.array])
                   /\ (Old.array = s.array => s.len <= Old.len)
  <2>1. 1 < i
    BY <1>1, StackAfter
  <2> QED
    BY <1>1, <2>1 DEF SearchParts, SharingInv
<1>4. /\ heap \in Seq(Seq(Nat)) /\ heap' \in Seq(Seq(Nat))
      /\ \A a \in DOMAIN heap :
            /\ a \in DOMAIN heap' /\ Len(heap'[a]) = Len(heap[a])
            /\ \A j \in 1 .. Len(heap[a]) :
                    heap'[a][j] = heap[a][j] \/ (a = Old.array /\ j > Old.len)
  BY HeapAfter
<1> HIDE DEF s
<1>5. s.len > 0 => s.array \in DOMAIN heap' /\ s.len <= Len(heap'[s.array])
  BY <1>3, <1>4
<1>6. /\ v \in Seq(Nat) /\ Len(v) = s.len
      /\ \A j \in 1 .. s.len : v[j] = heap[s.array][j]
  BY <1>2, <1>3, <1>4, ElementsAt
<1>7. /\ u \in Seq(Nat) /\ Len(u) = s.len
      /\ \A j \in 1 .. s.len : u[j] = heap'[s.array][j]
  BY <1>2, <1>4, <1>5, ElementsAt
<1>8. ASSUME NEW j \in 1 .. s.len PROVE u[j] = v[j]
  <2>1. s.len \in Nat /\ Old.len \in Nat /\ s.len > 0
    BY <1>1, <1>2 DEF Slices
  <2>2. s.array \in DOMAIN heap /\ j \in 1 .. Len(heap[s.array])
        /\ ~(s.array = Old.array /\ j > Old.len)
    <3>1. Len(heap[s.array]) \in Nat
      <4> DEFINE S == Seq(Nat)
      <4>1. heap \in Seq(S)
        BY <1>4
      <4> HIDE DEF S
      <4>2. heap[s.array] \in S
        BY <1>3, <2>1, <4>1
      <4> QED
        BY <4>2 DEF S
    <3> QED
      BY <1>3, <2>1, <3>1
  <2>3. heap'[s.array][j] = heap[s.array][j]
    BY <1>4, <2>2
  <2> QED
    BY <1>6, <1>7, <2>3
<1>9. s.len \in Nat
  BY <1>2 DEF Slices
<1> HIDE DEF u, v
<1>10. u = v
  <2>1. /\ u \in Seq(Nat) /\ v \in Seq(Nat) /\ Len(u) = Len(v)
        /\ \A j \in 1 .. Len(u) : u[j] = v[j]
    BY <1>6, <1>7, <1>8
  <2> QED
    BY <2>1, SameSequence
<1> QED
  BY <1>10 DEF u, v, s

\* A sequence without repetition, with a new element at its end.
LEMMA AddedOnce ==
  ASSUME NEW S, NEW b \in Seq(S), NEW x \in S, NEW w \in Seq(S), Len(w) = 1, w[1] = x,
         IsInjective(b), x \notin ToSet(b)
  PROVE  /\ b \o w \in Seq(S) /\ IsInjective(b \o w) /\ ToSet(b \o w) = ToSet(b) \cup {x}
         /\ Len(b \o w) = Len(b) + 1 /\ (b \o w)[Len(b) + 1] = x
         /\ \A j \in 1 .. Len(b) : (b \o w)[j] = b[j]
<1> DEFINE r == b \o w
           n == Len(b)
<1>1. n \in Nat /\ DOMAIN b = 1 .. n
  OBVIOUS
<1>2. r \in Seq(S) /\ Len(r) = n + 1
  BY ConcatProperties
<1>3. \A j \in 1 .. n + 1 : r[j] = IF j <= n THEN b[j] ELSE w[j - n]
  BY ConcatProperties
<1>4. r[n + 1] = x
  <2>1. n + 1 \in 1 .. n + 1 /\ ~(n + 1 <= n) /\ (n + 1) - n = 1
    BY <1>1
  <2> HIDE DEF r, n
  <2> QED
    BY <1>3, <2>1
<1>5. \A j \in 1 .. n : r[j] = b[j]
  <2>1. \A j \in 1 .. n : j \in 1 .. n + 1 /\ j <= n
    BY <1>1
  <2> HIDE DEF r, n
  <2> QED
    BY <1>3, <2>1
<1>6. DOMAIN r = 1 .. n + 1 /\ \A j \in 1 .. n + 1 : j \in 1 .. n \/ j = n + 1
  BY <1>1, <1>2
<1>7. \A j \in 1 .. n : b[j] # x
  BY <1>1 DEF ToSet
<1> HIDE DEF r, n
<1>8. IsInjective(r)
  <2> SUFFICES ASSUME NEW k \in DOMAIN r, NEW l \in DOMAIN r, r[k] = r[l] PROVE k = l
    BY DEF IsInjective
  <2>1. CASE k \in 1 .. n /\ l \in 1 .. n
    BY <1>1, <1>5, <2>1 DEF IsInjective
  <2>2. CASE k = n + 1 /\ l = n + 1
    BY <2>2
  <2>3. CASE k \in 1 .. n /\ l = n + 1
    BY <1>4, <1>5, <1>7, <2>3
  <2>4. CASE l \in 1 .. n /\ k = n + 1
    BY <1>4, <1>5, <1>7, <2>4
  <2> QED
    BY <1>6, <2>1, <2>2, <2>3, <2>4
<1>9. ToSet(r) = ToSet(b) \cup {x}
  <2>1. ASSUME NEW y \in ToSet(r) PROVE y \in ToSet(b) \cup {x}
    BY <1>1, <1>4, <1>5, <1>6 DEF ToSet
  <2>2. ASSUME NEW y \in ToSet(b) PROVE y \in ToSet(r)
    <3>1. PICK j \in 1 .. n : y = b[j]
      BY <1>1 DEF ToSet
    <3>2. j \in DOMAIN r /\ r[j] = y
      BY <1>1, <1>5, <1>6, <3>1
    <3> QED
      BY <3>2 DEF ToSet
  <2>3. x \in ToSet(r)
    <3>1. n + 1 \in DOMAIN r
      BY <1>1, <1>6
    <3> QED
      BY <1>4, <3>1 DEF ToSet
  <2> QED
    BY <2>1, <2>2, <2>3
<1> QED
  BY <1>2, <1>4, <1>5, <1>8, <1>9 DEF r, n

\* The spans that the head is added to the subtraces of are those it is a part of, itself
\* included, and they are what its children's slice holds.
LEMMA LineAfter ==
  ASSUME ModelInv, SearchInv, Visit
  PROVE  /\ Line \in Seq(Nat) /\ IsInjective(Line) /\ ElementsOf(heap', New) = Line
         /\ ToSet(Line) = Above(Cur) \cup (IF HasSubtrace(Cur) THEN {Cur} ELSE {})
         /\ Above(Cur) \subseteq visited
<1> DEFINE b == Elements(Old)
           u == ElementsOf(heap', New)
<1>1. /\ SearchParts /\ next[1].span = Cur /\ next[1].ancestors = Old /\ 1 \in DOMAIN next
      /\ Cur \in Nat /\ Cur \notin visited /\ Old \in Slices /\ New \in Slices
  BY HeadOfStack
<1>2. /\ heap \in Seq(Seq(Nat)) /\ heap' \in Seq(Seq(Nat))
      /\ Old.len > 0 => Old.array \in DOMAIN heap /\ Old.len <= Len(heap[Old.array])
      /\ New.len > 0 => New.array \in DOMAIN heap' /\ New.len <= Len(heap'[New.array])
      /\ \A j \in 1 .. Old.len : heap'[New.array][j] = heap[Old.array][j]
      /\ IF HasSubtrace(Cur) THEN New.len = Old.len + 1 /\ heap'[New.array][New.len] = Cur
                             ELSE New = Old
  BY HeapAfter
<1>3. b = ElementsOf(heap, Old) /\ Old.len \in Nat
  BY <1>1 DEF Elements, ElementsOf, Slices
<1>4. b \in Seq(Nat) /\ Len(b) = Old.len /\ \A j \in 1 .. Old.len : b[j] = heap[Old.array][j]
  <2>1. /\ ElementsOf(heap, Old) \in Seq(Nat) /\ Len(ElementsOf(heap, Old)) = Old.len
        /\ \A j \in 1 .. Old.len : ElementsOf(heap, Old)[j] = heap[Old.array][j]
    BY <1>1, <1>2, ElementsAt
  <2> HIDE DEF b
  <2> QED
    BY <1>3, <2>1
<1>5. u \in Seq(Nat) /\ Len(u) = New.len /\ \A j \in 1 .. New.len : u[j] = heap'[New.array][j]
  BY <1>1, <1>2, ElementsAt
<1>6. IsInjective(b) /\ ToSet(b) = Above(Cur) /\ Above(Cur) \subseteq visited
  BY <1>1 DEF SearchParts, AncestorsInv
<1> HIDE DEF b, u
<1>7. CASE HasSubtrace(Cur)
  <2>1. Line = b \o <<Cur>>
    BY <1>7 DEF Line, b
  <2>2. <<Cur>> \in Seq(Nat) /\ Len(<<Cur>>) = 1 /\ <<Cur>>[1] = Cur
    BY <1>1
  <2>3. Cur \notin ToSet(b)
    BY <1>1, <1>6
  <2> DEFINE w == <<Cur>>
  <2>4. w \in Seq(Nat) /\ Len(w) = 1 /\ w[1] = Cur /\ Line = b \o w
    BY <2>1, <2>2
  <2> HIDE DEF w
  <2>5. /\ Line \in Seq(Nat) /\ IsInjective(Line) /\ ToSet(Line) = ToSet(b) \cup {Cur}
        /\ Len(Line) = Len(b) + 1 /\ Line[Len(b) + 1] = Cur
        /\ \A j \in 1 .. Len(b) : Line[j] = b[j]
    BY <1>1, <1>4, <1>6, <2>3, <2>4, AddedOnce
  <2>6. New.len = Old.len + 1 /\ heap'[New.array][New.len] = Cur
    BY <1>2, <1>7
  <2>7. Len(u) = Len(Line) /\ Len(u) \in Nat
    BY <1>3, <1>4, <1>5, <2>5, <2>6
  <2>8. \A j \in 1 .. Len(u) : u[j] = Line[j]
    <3>1. ASSUME NEW j \in 1 .. Old.len PROVE u[j] = Line[j]
      <4>1. j \in 1 .. New.len /\ j \in 1 .. Len(b)
        BY <1>3, <1>4, <2>6
      <4>2. heap'[New.array][j] = heap[Old.array][j]
        BY <1>2
      <4> QED
        BY <1>4, <1>5, <2>5, <4>1, <4>2
    <3>2. u[Old.len + 1] = Line[Old.len + 1]
      <4>1. New.len \in 1 .. New.len /\ New.len = Len(b) + 1
        BY <1>3, <1>4, <2>6
      <4>2. u[New.len] = Cur
        BY <1>5, <2>6, <4>1
      <4>3. Line[New.len] = Cur
        BY <2>5, <4>1
      <4> QED
        BY <2>6, <4>2, <4>3
    <3>3. \A j \in 1 .. Len(u) : j \in 1 .. Old.len \/ j = Old.len + 1
      BY <1>3, <1>5, <2>6
    <3> QED
      BY <3>1, <3>2, <3>3
  <2>9. u = Line
    <3>1. u \in Seq(Nat) /\ Line \in Seq(Nat) /\ Len(u) = Len(Line)
      BY <1>5, <2>5, <2>7
    <3> QED
      BY <2>8, <3>1, SameSequence
  <2> QED
    BY <1>6, <1>7, <2>5, <2>9 DEF u
<1>8. CASE ~HasSubtrace(Cur)
  <2>1. Line = b
    <3>1. Line = b \o <<>>
      BY <1>8 DEF Line, b
    <3> QED
      BY <1>4, <3>1
  <2>2. New = Old
    BY <1>2, <1>8
  <2>3. \A j \in 1 .. Old.len : u[j] = b[j]
    BY <1>2, <1>4, <1>5, <2>2
  <2>4. u = b
    BY <1>3, <1>4, <1>5, <2>2, <2>3
  <2> QED
    BY <1>4, <1>6, <1>8, <2>1, <2>4 DEF u
<1> QED
  BY <1>7, <1>8

\* A child that is pushed is a part of what the head is a part of.
LEMMA AboveChild ==
  ASSUME ModelInv, SearchInv, Visit, NEW c \in Pushed
  PROVE  Above(c) = ToSet(Line)
<1>1. /\ root \in DOMAIN t /\ Cur \in DOMAIN t /\ Cur \in Below /\ Below \subseteq DOMAIN t
  BY HeadOfStack
<1>2. c \in Below /\ c \notin visited /\ c # Cur /\ c # root /\ Parents(c) = {Cur}
      /\ c \in ChildrenOf[Cur]
  BY UnseenChildren DEF Pushed
<1>3. ToSet(Line) = Above(Cur) \cup (IF HasSubtrace(Cur) THEN {Cur} ELSE {})
      /\ Above(Cur) \subseteq visited
  BY LineAfter
<1>4. ASSUME NEW a \in Above(c) PROVE a \in ToSet(Line)
  <2>1. a \in Below /\ a \in DOMAIN t /\ HasSubtrace(a) /\ a # c /\ c \in Descendants(a)
    BY <1>1, <1>4 DEF Above
  <2>2. \E p \in Descendants(a) : p \in Parents(c)
    BY <2>1, DescendantsParent
  <2>3. Cur \in Descendants(a)
    BY <1>2, <2>2
  <2> QED
    BY <1>3, <2>1, <2>3 DEF Above
<1>5. ASSUME NEW a \in ToSet(Line) PROVE a \in Above(c)
  <2>1. a \in Below /\ a \in DOMAIN t /\ HasSubtrace(a) /\ Cur \in Descendants(a)
    BY <1>1, <1>3, <1>5, DescendantsClosed DEF Above
  <2>2. a # c
    BY <1>2, <1>3, <1>5
  <2>3. c \in Descendants(a)
    BY <1>2, <2>1, DescendantsClosed
  <2> QED
    BY <2>1, <2>2, <2>3 DEF Above
<1> QED
  BY <1>4, <1>5

\* Every slice on the stack holds the spans that its span is a proper part of.
LEMMA AncestorsKept ==
  ASSUME ModelInv, SearchInv, Visit
  PROVE  AncestorsInv'
<1>1. SearchParts
  BY HeadOfStack
<1>2. /\ visited' = visited \cup {Cur} /\ t' = t /\ root' = root
  BY DEF Visit, Cur
<1>3. \A a : Above(a)' = Above(a)
  BY <1>2, TraceUnchanged
<1>4. \A s : Elements(s) = ElementsOf(heap, s) /\ Elements(s)' = ElementsOf(heap', s)
  BY DEF Elements, ElementsOf
<1>5. ASSUME NEW k \in DOMAIN next'
      PROVE  /\ IsInjective(ElementsOf(heap', next'[k].ancestors))
             /\ ToSet(ElementsOf(heap', next'[k].ancestors)) = Above(next'[k].span)
             /\ Above(next'[k].span) \subseteq visited'
  <2>1. CASE next'[k].ancestors = New /\ next'[k].span \in Pushed
    <3>1. ElementsOf(heap', next'[k].ancestors) = Line /\ IsInjective(Line)
      BY <2>1, LineAfter
    <3>2. Above(next'[k].span) = ToSet(Line)
      BY <2>1, AboveChild
    <3>3. ToSet(Line) \subseteq visited'
      BY <1>2, LineAfter
    <3> QED
      BY <3>1, <3>2, <3>3
  <2>2. CASE \E i \in DOMAIN next : i > 1 /\ next'[k] = next[i]
    <3>1. PICK i \in DOMAIN next : i > 1 /\ next'[k] = next[i]
      BY <2>2
    <3>2. ElementsOf(heap', next[i].ancestors) = ElementsOf(heap, next[i].ancestors)
      BY <3>1, ElementsBehind
    <3>3. /\ IsInjective(ElementsOf(heap, next[i].ancestors))
          /\ ToSet(ElementsOf(heap, next[i].ancestors)) = Above(next[i].span)
          /\ Above(next[i].span) \subseteq visited
      BY <1>1, <1>4 DEF SearchParts, AncestorsInv
    <3> QED
      BY <1>2, <3>1, <3>2, <3>3
  <2> QED
    BY <2>1, <2>2, EntryAfter
<1>6. ASSUME NEW k \in DOMAIN next'
      PROVE  /\ IsInjective(Elements(next[k].ancestors)')
             /\ ToSet(Elements(next[k].ancestors)') = Above(next[k].span)'
             /\ Above(next[k].span)' \subseteq visited'
  <2>1. Elements(next[k].ancestors)' = ElementsOf(heap', next'[k].ancestors)
    BY DEF Elements, ElementsOf
  <2>2. Above(next[k].span)' = Above(next'[k].span)
    BY <1>2 DEF Above, Below, Descendants, Closure, ChildrenOf, Parents, HasSubtrace, Children
  <2> QED
    BY <1>5, <2>1, <2>2
<1> QED
  BY <1>6 DEF AncestorsInv

\* Nothing below the head was visited before it.
LEMMA NothingBelow ==
  ASSUME ModelInv, SearchInv, Visit
  PROVE  visited \cap Descendants(Cur) = {}
<1> DEFINE C == Descendants(Cur) \ visited
<1>1. SearchParts /\ Cur \in DOMAIN t /\ Cur \notin visited
  BY HeadOfStack
<1>2. /\ Cur \in Descendants(Cur) /\ Descendants(Cur) \subseteq DOMAIN t
      /\ \A p \in Descendants(Cur) : \A c \in ChildrenOf[p] \ {root} : c \in Descendants(Cur)
  BY <1>1, DescendantsClosed
<1>3. \A w \in visited \ {root} : Parents(w) \subseteq visited
  BY <1>1 DEF SearchParts, FoundInv
<1>4. ASSUME NEW p \in C, NEW c \in ChildrenOf[p] \ {root} PROVE c \in C
  <2>1. p \in DOMAIN t /\ c \in Descendants(Cur)
    BY <1>2
  <2>2. p \in Parents(c)
    BY <2>1, ChildrenListed
  <2> QED
    BY <1>3, <2>1, <2>2
<1>5. C \in SUBSET DOMAIN t /\ Cur \in C
  BY <1>1, <1>2
<1> HIDE DEF C
<1>6. Descendants(Cur) \subseteq C
  BY <1>1, <1>4, <1>5, DescendantsLeast
<1> QED
  BY <1>6 DEF C

Times(a) == Cardinality({k \in DOMAIN Line : Line[k] = a})

\* A span is added once to a subtrace.
LEMMA TimesAdded ==
  ASSUME ModelInv, SearchInv, Visit, NEW a
  PROVE  Times(a) = IF a \in ToSet(Line) THEN 1 ELSE 0
<1> DEFINE K == {k \in DOMAIN Line : Line[k] = a}
<1>1. CASE a \in ToSet(Line)
  <2>1. PICK k \in DOMAIN Line : Line[k] = a
    BY <1>1 DEF ToSet
  <2>2. IsInjective(Line)
    BY LineAfter
  <2>3. K = {k}
    BY <2>1, <2>2 DEF IsInjective
  <2>4. Cardinality({k}) = 1
    BY FS_Singleton
  <2> QED
    BY <1>1, <2>3, <2>4 DEF Times
<1>2. CASE a \notin ToSet(Line)
  <2>1. K = {}
    BY <1>2 DEF ToSet
  <2> QED
    BY <1>2, <2>1, FS_EmptySet DEF Times
<1> QED
  BY <1>1, <1>2

\* Every subtrace holds the spans visited so far that belong to it, each once.
LEMMA SubtracesKept ==
  ASSUME ModelInv, SearchInv, Visit
  PROVE  SubtracesInv'
<1>1. /\ SearchParts /\ root \in DOMAIN t /\ Cur \in DOMAIN t /\ Cur \notin visited /\ Cur \in Below
      /\ Below \subseteq DOMAIN t
  BY HeadOfStack
<1>2. /\ visited' = visited \cup {Cur} /\ t' = t /\ root' = root
  BY DEF Visit, Cur
<1>3. \A a : Descendants(a)' = Descendants(a) /\ HasSubtrace(a)' = HasSubtrace(a)
  BY <1>2, TraceUnchanged
<1>4. subtraces' = [a \in DOMAIN subtraces \cup ToSet(Line) |->
            (IF a \in DOMAIN subtraces THEN subtraces[a] ELSE <<>>) \o [n \in 1 .. Times(a) |-> Cur]]
  BY DEF Visit, Line, Times, Cur, Old
<1>5. /\ ToSet(Line) = Above(Cur) \cup (IF HasSubtrace(Cur) THEN {Cur} ELSE {})
      /\ Above(Cur) \subseteq visited
  BY LineAfter
<1>6. /\ DOMAIN subtraces = {a \in visited : HasSubtrace(a)}
      /\ \A a \in DOMAIN subtraces :
            /\ subtraces[a] \in Seq(DOMAIN t)
            /\ IsInjective(subtraces[a])
            /\ ToSet(subtraces[a]) = visited \cap Descendants(a)
  BY <1>1 DEF SearchParts, SubtracesInv
<1>7. visited \subseteq Below
  BY <1>1 DEF SearchParts, FoundInv
<1>8. \A a \in Above(Cur) : HasSubtrace(a) /\ Cur \in Descendants(a)
  BY DEF Above
<1>9. DOMAIN subtraces' = {a \in visited' : HasSubtrace(a)}
  <2>1. DOMAIN subtraces' = DOMAIN subtraces \cup ToSet(Line)
    BY <1>4
  <2> QED
    BY <1>2, <1>5, <1>6, <1>8, <2>1
<1>10. ASSUME NEW a \in DOMAIN subtraces'
       PROVE  /\ subtraces'[a] \in Seq(DOMAIN t)
              /\ IsInjective(subtraces'[a])
              /\ ToSet(subtraces'[a]) = visited' \cap Descendants(a)
  <2> DEFINE b == IF a \in DOMAIN subtraces THEN subtraces[a] ELSE <<>>
             w == [n \in 1 .. Times(a) |-> Cur]
  <2>1. subtraces'[a] = b \o w
    BY <1>4, <1>10
  <2>2. a \in visited' /\ HasSubtrace(a)
    BY <1>9, <1>10
  <2>3. b \in Seq(DOMAIN t) /\ IsInjective(b) /\ ToSet(b) = visited \cap Descendants(a)
    <3>1. CASE a \in DOMAIN subtraces
      BY <1>6, <3>1
    <3>2. CASE a \notin DOMAIN subtraces
      <4>1. a = Cur
        BY <1>2, <1>6, <2>2, <3>2
      <4>2. b = <<>>
        BY <3>2
      <4>3. visited \cap Descendants(a) = {}
        BY <4>1, NothingBelow
      <4> HIDE DEF b
      <4> QED
        BY <4>2, <4>3 DEF IsInjective, ToSet
    <3> QED
      BY <3>1, <3>2
  <2> HIDE DEF b
  <2>4. CASE a \in ToSet(Line)
    <3>1. Times(a) = 1
      BY <2>4, TimesAdded
    <3>2. w \in Seq(DOMAIN t) /\ Len(w) = 1 /\ w[1] = Cur
      <4>1. w = [n \in 1 .. 1 |-> Cur]
        BY <3>1
      <4> DEFINE D == DOMAIN t
                 x == Cur
      <4>2. w = [n \in 1 .. 1 |-> x] /\ x \in D
        BY <1>1, <4>1
      <4> HIDE DEF w, D, x
      <4>3. w \in Seq(D) /\ Len(w) = 1 /\ w[1] = x
        BY <4>2
      <4> QED
        BY <4>3 DEF D, x
    <3>3. Cur \notin ToSet(b)
      BY <1>1, <2>3
    <3> HIDE DEF w
    <3>4. b \o w \in Seq(DOMAIN t) /\ IsInjective(b \o w) /\ ToSet(b \o w) = ToSet(b) \cup {Cur}
      BY <1>1, <2>3, <3>2, <3>3, AddedOnce
    <3>5. Cur \in Descendants(a)
      BY <1>1, <1>5, <1>8, <2>4, DescendantsClosed
    <3>6. ToSet(b) \cup {Cur} = visited' \cap Descendants(a)
      BY <1>2, <2>3, <3>5
    <3> QED
      BY <2>1, <3>4, <3>6
  <2>5. CASE a \notin ToSet(Line)
    <3>1. Times(a) = 0
      BY <2>5, TimesAdded
    <3>2. w = <<>>
      <4>1. w = [n \in 1 .. 0 |-> Cur]
        BY <3>1
      <4> QED
        BY <4>1
    <3>3. b \o w = b
      <4> HIDE DEF w
      <4> QED
        BY <2>3, <3>2
    <3>4. a # Cur /\ a \in Below
      BY <1>2, <1>5, <1>7, <2>2, <2>5
    <3>5. Cur \notin Descendants(a)
      BY <1>5, <2>2, <2>5, <3>4 DEF Above
    <3> QED
      BY <1>2, <2>1, <2>3, <3>3, <3>5
  <2> QED
    BY <2>4, <2>5
<1> QED
  BY <1>2, <1>3, <1>9, <1>10 DEF SubtracesInv

\* The search begins with the root, of which nothing but itself is above it.
LEMMA SearchBegins ==
  ASSUME ModelInv, SearchInv, ComputeTopLevel
  PROVE  SearchInv'
<1> DEFINE e == [span |-> root, ancestors |-> [array |-> 0, len |-> 0]]
<1>1. /\ pc = "top_level" /\ pc' = "search" /\ root' = root /\ DOMAIN t' = DOMAIN t
      /\ next' = <<e>> /\ root \in DOMAIN t
      /\ heap' = <<>> /\ visited' = {} /\ subtraces' = <<>>
  BY DEF ComputeTopLevel, SearchInv
<1>2. root' \in Below'
  BY <1>1 DEF Below, Descendants, Closure
<1>3. ASSUME NEW a \in DOMAIN t', a # root' PROVE root' \notin Descendants(a)'
  <2> DEFINE C == DOMAIN t' \ {root'}
             step == [p \in DOMAIN t' |-> ChildrenOf'[p] \ {root'}]
  <2>1. ChildrenOf' = [p \in DOMAIN t' |-> {c \in DOMAIN t' : p \in Parents(c)'}]
    BY DEF ChildrenOf
  <2>2. ASSUME NEW p \in C PROVE step[p] \subseteq C
    BY <2>1
  <2>3. C \in SUBSET DOMAIN t' /\ {a} \subseteq C /\ root' \notin C
    BY <1>3
  <2>4. Descendants(a)' = {x \in DOMAIN t' : \A B \in SUBSET DOMAIN t' :
                {a} \subseteq B /\ (\A i \in B : step[i] \subseteq B) => x \in B}
    BY DEF Descendants, Closure
  <2> HIDE DEF C, step
  <2> QED
    BY <2>2, <2>3, <2>4
<1>4. Below' \subseteq DOMAIN t'
  BY DEF Below, Descendants, Closure
<1>5. Above(root)' = {}
  BY <1>3, <1>4 DEF Above
<1>6. /\ e.span = root /\ e.ancestors.len = 0 /\ e.ancestors.array = 0
      /\ e.ancestors \in Slices
  BY DEF Slices
<1>7. e \in [span : Below' \ visited', ancestors : Slices]
  BY <1>1, <1>2, <1>6
<1> HIDE DEF e
<1>8. DOMAIN next' = {1} /\ next'[1] = e
  BY <1>1
<1>9. StackInv'
  <2> DEFINE R == [span : Below' \ visited', ancestors : Slices]
  <2>1. e \in R
    BY <1>7
  <2> HIDE DEF R
  <2>2. next' \in Seq(R)
    BY <1>1, <2>1
  <2>3. next' \in Seq([span : Below' \ visited', ancestors : Slices])
    BY <2>2 DEF R
  <2> QED
    BY <1>8, <2>3 DEF StackInv
<1>10. Waiting' = {root'}
  BY <1>1, <1>6, <1>8 DEF Waiting
<1>11. FoundInv'
  BY <1>1, <1>10 DEF FoundInv
<1>12. SharingInv'
  <2>1. heap' \in Seq(Seq(Nat))
    BY <1>1
  <2>2. \A k \in DOMAIN next' : ~(next'[k].ancestors.len > 0)
    BY <1>6, <1>8
  <2> QED
    BY <2>1, <2>2 DEF SharingInv
<1>13. AncestorsInv'
  <2> SUFFICES ASSUME NEW k \in DOMAIN next'
               PROVE  /\ IsInjective(Elements(next[k].ancestors)')
                      /\ ToSet(Elements(next[k].ancestors)') = Above(next[k].span)'
                      /\ Above(next[k].span)' \subseteq visited'
    BY DEF AncestorsInv
  <2>1. next'[k] = e
    BY <1>8
  <2>2. Elements(next[k].ancestors)' = <<>>
    BY <1>6, <2>1 DEF Elements
  <2>3. Above(next[k].span)' = Above(root)'
    BY <1>1, <1>6, <2>1 DEF Above
  <2> QED
    BY <1>5, <2>2, <2>3 DEF IsInjective, ToSet
<1>14. SubtracesInv'
  BY <1>1 DEF SubtracesInv
<1> QED
  BY <1>1, <1>9, <1>11, <1>12, <1>13, <1>14 DEF SearchInv, SubtracesAreDescendants

\* A sequence without repetition is as long as the set of its elements is large.
LEMMA LengthIsCardinality ==
  ASSUME NEW S, NEW s \in Seq(S), IsInjective(s)
  PROVE  Cardinality(ToSet(s)) = Len(s)
<1> DEFINE D == 1 .. Len(s)
           T == ToSet(s)
<1>1. Len(s) \in Nat /\ DOMAIN s = D
  OBVIOUS
<1>2. s \in [D -> T]
  BY <1>1 DEF ToSet
<1>3. s \in Surjection(D, T)
  BY <1>1, <1>2 DEF Surjection, ToSet
<1>4. s \in Injection(D, T)
  BY <1>2 DEF Injection
<1>5. IsFiniteSet(D) /\ Cardinality(D) = Len(s)
  <2>1. IsFiniteSet(D) /\ Cardinality(D) = IF 1 > Len(s) THEN 0 ELSE Len(s) - 1 + 1
    BY <1>1, FS_Interval
  <2> HIDE DEF D
  <2> QED
    BY <1>1, <2>1
<1> HIDE DEF D, T
<1>6. Cardinality(T) = Cardinality(D)
  BY <1>3, <1>4, <1>5, FS_Surjection
<1> QED
  BY <1>5, <1>6 DEF T

\* When the stack is empty everything below the root was visited.
LEMMA SearchEnds ==
  ASSUME ModelInv, SearchInv, SetSublayers
  PROVE  SearchInv'
<1>1. /\ pc = "search" /\ pc' = "done" /\ next = <<>> /\ t' = t /\ root' = root
      /\ subtraces' = subtraces /\ root \in DOMAIN t
  BY DEF SetSublayers, SearchInv
<1>2. StackInv /\ FoundInv /\ SubtracesInv
  BY <1>1 DEF SearchInv
<1>3. Waiting = {}
  BY <1>1 DEF Waiting
<1>4. root \in visited /\ visited \subseteq Below
      /\ \A v \in visited : ChildrenOf[v] \subseteq visited
  BY <1>2, <1>3 DEF FoundInv
<1>5. visited = Below
  <2>1. Below \subseteq DOMAIN t
    BY <1>1, DescendantsClosed DEF Below
  <2>2. visited \in SUBSET DOMAIN t /\ \A p \in visited : \A c \in ChildrenOf[p] \ {root} : c \in visited
    BY <1>4, <2>1
  <2>3. Descendants(root) \subseteq visited
    BY <1>1, <1>4, <2>2, DescendantsLeast
  <2> QED
    BY <1>4, <2>3 DEF Below
<1>6. DOMAIN subtraces = {a \in Descendants(root) : HasSubtrace(a)}
  BY <1>2, <1>5 DEF SubtracesInv, Below
<1>7. ASSUME NEW a \in DOMAIN subtraces
      PROVE  ToSet(subtraces[a]) = Descendants(a)
             /\ Len(subtraces[a]) = Cardinality(Descendants(a))
  <2>1. /\ subtraces[a] \in Seq(DOMAIN t) /\ IsInjective(subtraces[a])
        /\ ToSet(subtraces[a]) = visited \cap Descendants(a)
    BY <1>2 DEF SubtracesInv
  <2>2. a \in Descendants(root)
    BY <1>6
  <2>3. Descendants(a) \subseteq visited
    BY <1>1, <1>5, <2>2, DescendantsTransitive DEF Below
  <2>4. ToSet(subtraces[a]) = Descendants(a)
    BY <2>1, <2>3
  <2>5. Cardinality(ToSet(subtraces[a])) = Len(subtraces[a])
    BY <2>1, LengthIsCardinality
  <2> QED
    BY <2>4, <2>5
<1>8. \A a : Descendants(a)' = Descendants(a) /\ HasSubtrace(a)' = HasSubtrace(a)
  BY <1>1, TraceUnchanged
<1>9. Descendants(root)' = Descendants(root)
  BY <1>1 DEF Descendants, Closure, ChildrenOf, Parents
<1>10. SubtracesAreDescendants'
  BY <1>1, <1>6, <1>7, <1>8, <1>9 DEF SubtracesAreDescendants
<1> QED
  BY <1>1, <1>10 DEF SearchInv

\* Every step keeps the invariant of the search.
LEMMA SearchStep ==
  ASSUME ModelInv, SearchInv, [ModelNext]_modelVars
  PROVE  SearchInv'
<1>1. CASE NormalizeTrace
  BY <1>1 DEF NormalizeTrace, SearchInv, SubtracesAreDescendants
<1>2. CASE GetRoot
  <2>1. root' \in DOMAIN t /\ t' = t
    BY <1>2, RootFound DEF GetRoot
  <2> QED
    BY <1>2, <2>1 DEF GetRoot, SearchInv, SubtracesAreDescendants
<1>3. CASE ComputeTopLevel
  BY <1>3, SearchBegins
<1>4. CASE Visit
  <2>1. pc = "search" /\ pc' = "search" /\ t' = t /\ root' = root
    BY <1>4 DEF Visit
  <2>2. StackInv' /\ FoundInv' /\ SharingInv'
    BY <1>4, StackKept, FoundKept, SharingKept
  <2>3. AncestorsInv' /\ SubtracesInv'
    BY <1>4, AncestorsKept, SubtracesKept
  <2> QED
    BY <2>1, <2>2, <2>3 DEF SearchInv, SubtracesAreDescendants
<1>5. CASE SetSublayers
  BY <1>5, SearchEnds
<1>6. CASE UNCHANGED modelVars
  <2>1. /\ t' = t /\ pc' = pc /\ root' = root /\ next' = next /\ heap' = heap
        /\ visited' = visited /\ subtraces' = subtraces
    BY <1>6 DEF modelVars
  <2>2. /\ Below' = Below /\ ChildrenOf' = ChildrenOf /\ Waiting' = Waiting
        /\ \A a : /\ Descendants(a)' = Descendants(a) /\ HasSubtrace(a)' = HasSubtrace(a)
                  /\ Above(a)' = Above(a) /\ Parents(a)' = Parents(a)
    BY <2>1, TraceUnchanged DEF Waiting
  <2>3. StackInv' = StackInv
    BY <2>1, <2>2 DEF StackInv
  <2>4. FoundInv' = FoundInv
    BY <2>1, <2>2 DEF FoundInv
  <2>5. SharingInv' = SharingInv
    BY <2>1 DEF SharingInv
  <2>6. AncestorsInv' = AncestorsInv
    BY <2>1 DEF AncestorsInv, Elements, Above, Below, Descendants, Closure, ChildrenOf, Parents,
                HasSubtrace, Children
  <2>7. SubtracesInv' = SubtracesInv
    BY <2>1 DEF SubtracesInv, Descendants, Closure, ChildrenOf, Parents, HasSubtrace, Children
  <2>8. SubtracesAreDescendants' = SubtracesAreDescendants
    BY <2>1 DEF SubtracesAreDescendants, Descendants, Closure, ChildrenOf, Parents, HasSubtrace,
                Children
  <2> QED
    BY <2>1, <2>3, <2>4, <2>5, <2>6, <2>7, <2>8 DEF SearchInv
<1> QED
  BY <1>1, <1>2, <1>3, <1>4, <1>5, <1>6 DEF ModelNext

\* ExtractTopLevelSubtraces yields one subtrace for every top-level span with children
\* below the root, with each of its descendants once, for any traces: the appends to
\* slices that share arrays never disturb a slice that is still to be used.
THEOREM SubtracesCorrect == ModelSpec => []SubtracesAreDescendants
<1>1. ModelInit => ModelInv /\ SearchInv
  BY InputsAssumption
  DEF ModelInit, ModelInv, RootIsAnOrphan, SearchInv, SubtracesAreDescendants
<1>2. ModelInv /\ SearchInv /\ [ModelNext]_modelVars => ModelInv' /\ SearchInv'
  BY ModelStep, SearchStep
<1>3. SearchInv => SubtracesAreDescendants
  BY DEF SearchInv
<1> QED
  BY <1>1, <1>2, <1>3, PTL DEF ModelSpec

-----------------------------------------------------------------------------
(* The time of the subtraces.  Between two neighbouring timestamps nothing  *)
(* starts or ends, so the time a subtrace runs is the sum of the intervals  *)
(* in which some span runs (RunningTime), and what the values of an         *)
(* attribute get is, before it is cut to integers, the sum of the intervals *)
(* with an active span, weighed by the active spans with the attribute      *)
(* (HandedOut).  No interval is lost unless the spans that run form a cycle *)
(* (NoCycle).                                                               *)


\* The end of a span is an integer, whatever wraps.
LEMMA EndInt ==
  ASSUME NEW s, s.start \in Int, s.duration \in Int
  PROVE  End(s) \in Int
<1> DEFINE m == 2 * (MaxInt64 + 1)
           v == s.start + s.duration + MaxInt64 + 1
<1>1. m \in Int /\ m > 0 /\ v \in Int /\ MaxInt64 + 1 \in Int
  BY TimesAssumption
<1>2. End(s) = (v % m) - (MaxInt64 + 1)
  BY DEF End, Wrap
<1> HIDE DEF m, v
<1>3. v % m \in Int
  BY <1>1
<1> QED
  BY <1>1, <1>2, <1>3

\* The spans in S have integer times between the bounds of the normalizer.
Timed(S) ==
    \A i \in S : /\ t[i].start \in Int /\ End(t[i]) \in Int
                 /\ Year2000 <= t[i].start /\ End(t[i]) <= Latest

\* ts lists in ascending order the times at which a span of S starts or ends.
Listed(ts, S) ==
    /\ ts \in Seq(Int)
    /\ \A k, l \in 1 .. Len(ts) : k < l => ts[k] < ts[l]
    /\ \A i \in S : /\ \E k \in 1 .. Len(ts) : ts[k] = t[i].start
                    /\ \E k \in 1 .. Len(ts) : ts[k] = End(t[i])

\* buildTraceTimestamps lists the times.
LEMMA TimestampsListed ==
  ASSUME NEW S, IsFiniteSet(S), Timed(S)
  PROVE  Listed(Timestamps(S), S)
<1> DEFINE A == {t[i].start : i \in S}
           B == {End(t[i]) : i \in S}
           U == A \cup B
<1>1. U \in SUBSET Int
  BY DEF Timed
<1>2. IsFiniteSet(A)
  <2> DEFINE f == [i \in S |-> t[i].start]
  <2>1. f \in [S -> A] /\ \A x \in A : \E i \in S : f[i] = x
    OBVIOUS
  <2> HIDE DEF f, A
  <2>2. f \in Surjection(S, A)
    BY <2>1 DEF Surjection
  <2> QED
    BY <2>2, FS_Surjection
<1>3. IsFiniteSet(B)
  <2> DEFINE f == [i \in S |-> End(t[i])]
  <2>1. f \in [S -> B] /\ \A x \in B : \E i \in S : f[i] = x
    OBVIOUS
  <2> HIDE DEF f, B
  <2>2. f \in Surjection(S, B)
    BY <2>1 DEF Surjection
  <2> QED
    BY <2>2, FS_Surjection
<1>4. IsFiniteSet(U)
  <2> HIDE DEF A, B
  <2> QED
    BY <1>2, <1>3, FS_Union
<1>5. Timestamps(S) = Ascending(U)
  BY DEF Timestamps
<1>6. \A i \in S : t[i].start \in U /\ End(t[i]) \in U
  OBVIOUS
<1> HIDE DEF U
<1>7. /\ Ascending(U) \in Seq(U)
      /\ \A k, l \in 1 .. Len(Ascending(U)) : k < l => Ascending(U)[k] < Ascending(U)[l]
      /\ \A x \in U : \E k \in 1 .. Len(Ascending(U)) : Ascending(U)[k] = x
  BY <1>1, <1>4, AscendingLists
<1>8. Ascending(U) \in Seq(Int)
  <2> DEFINE a == Ascending(U)
  <2>1. a \in Seq(U)
    BY <1>7
  <2> HIDE DEF a
  <2>2. Len(a) \in Nat /\ a = [k \in 1 .. Len(a) |-> a[k]] /\ \A k \in 1 .. Len(a) : a[k] \in U
    BY <2>1
  <2>3. \A k \in 1 .. Len(a) : a[k] \in Int
    BY <1>1, <2>2
  <2>4. a \in Seq(Int)
    BY <2>2, <2>3
  <2> QED
    BY <2>4 DEF a
<1> QED
  BY <1>5, <1>6, <1>7, <1>8 DEF Listed

\* The interval behind the timestamp k, when a span runs there.
Piece(ts, S, k) == IF \E i \in S : RunsAt(i, ts[k]) THEN ts[k] .. ts[k + 1] - 1 ELSE {}
Pieces(ts, S) == [k \in 1 .. Len(ts) - 1 |-> Piece(ts, S, k)]

\* Between two timestamps nothing starts or ends, so that the running time is made up
\* of whole intervals.
LEMMA RunningInPieces ==
  ASSUME NEW S, Timed(S), NEW ts, Listed(ts, S)
  PROVE  Running(S) = UNION {Pieces(ts, S)[k] : k \in 1 .. Len(ts) - 1}
<1> DEFINE n == Len(ts)
           K == 1 .. n - 1
<1>1. n \in Nat /\ \A k \in 1 .. n : ts[k] \in Int
  BY DEF Listed
<1>2. \A k, l \in 1 .. n : k < l => ts[k] < ts[l]
  BY DEF Listed
<1>3. Year2000 \in Int /\ Latest \in Int
  BY TimesAssumption
<1>4. ASSUME NEW x \in Running(S) PROVE \E k \in K : x \in Piece(ts, S, k)
  <2>1. PICK i \in S : x \in Int /\ RunsAt(i, x)
    BY <1>3 DEF Running
  <2>2. PICK p \in 1 .. n : ts[p] = t[i].start
    BY DEF Listed
  <2>3. PICK m \in 1 .. n : ts[m] = End(t[i])
    BY DEF Listed
  <2> DEFINE T == {l \in 1 .. n : ts[l] > x}
  <2>4. T \in SUBSET Nat /\ m \in T
    BY <1>1, <2>1, <2>3 DEF RunsAt
  <2>5. PICK l \in T : \A o \in T : l <= o
    <3> HIDE DEF T
    <3> QED
      BY <2>4, LeastNat
  <2>6. l \in 1 .. n /\ ts[l] > x
    BY <2>5
  <2>7. ts[p] <= x
    BY <2>1, <2>2 DEF RunsAt
  <2>8. p < l
    <3>1. ~(l < p)
      <4> SUFFICES ASSUME l < p PROVE FALSE
        OBVIOUS
      <4>1. ts[l] < ts[p]
        BY <1>2, <2>6
      <4> QED
        BY <1>1, <2>1, <2>6, <2>7, <4>1
    <3>2. l # p
      BY <1>1, <2>1, <2>6, <2>7
    <3> QED
      BY <1>1, <2>6, <3>1, <3>2
  <2> DEFINE k == l - 1
  <2>9. k \in K /\ k + 1 = l /\ k \in 1 .. n
    BY <1>1, <2>6, <2>8
  <2>10. ts[k] <= x
    <3>1. k \notin T
      BY <1>1, <2>5, <2>6, <2>9
    <3> HIDE DEF k
    <3> QED
      BY <1>1, <2>1, <2>9, <3>1
  <2>11. t[i].start <= ts[k]
    <3>1. p < k \/ p = k
      BY <1>1, <2>6, <2>8
    <3>2. p < k => ts[p] < ts[k]
      BY <1>2, <2>9
    <3> HIDE DEF k
    <3> QED
      BY <1>1, <2>2, <2>9, <3>1, <3>2
  <2>12. ts[k] < End(t[i])
    <3> HIDE DEF k
    <3> QED
      BY <1>1, <2>1, <2>9, <2>10 DEF RunsAt, Timed
  <2>13. RunsAt(i, ts[k])
    BY <2>11, <2>12 DEF RunsAt
  <2>14. x \in ts[k] .. ts[k + 1] - 1
    <3> HIDE DEF k
    <3> QED
      BY <1>1, <2>1, <2>6, <2>9, <2>10
  <2> QED
    <3> HIDE DEF k
    <3>1. x \in Piece(ts, S, k)
      BY <2>13, <2>14 DEF Piece
    <3> QED
      BY <2>9, <3>1
<1>5. ASSUME NEW k \in K, NEW x \in Piece(ts, S, k) PROVE x \in Running(S)
  <2>1. PICK i \in S : RunsAt(i, ts[k])
    BY <1>5 DEF Piece
  <2>2. x \in ts[k] .. ts[k + 1] - 1
    BY <1>5, <2>1 DEF Piece
  <2>3. PICK m \in 1 .. n : ts[m] = End(t[i])
    BY DEF Listed
  <2>4. k \in 1 .. n /\ k + 1 \in 1 .. n
    BY <1>1
  <2>5. ts[k] \in Int /\ ts[k + 1] \in Int /\ ts[m] \in Int
    BY <1>1, <2>4
  <2>6. t[i].start <= ts[k] /\ ts[k] < ts[m]
    BY <2>1, <2>3 DEF RunsAt
  <2>7. k < m
    <3>1. m < k => ts[m] < ts[k]
      BY <1>2, <2>4
    <3> QED
      BY <1>1, <2>4, <2>5, <2>6, <3>1
  <2>8. ts[k + 1] <= ts[m]
    <3>1. k + 1 < m \/ k + 1 = m
      BY <1>1, <2>4, <2>7
    <3>2. k + 1 < m => ts[k + 1] < ts[m]
      BY <1>2, <2>4
    <3> QED
      BY <2>5, <3>1, <3>2
  <2>9. x \in Int /\ ts[k] <= x /\ x < ts[k + 1]
    BY <2>2, <2>5
  <2>10. t[i].start \in Int /\ Year2000 <= t[i].start /\ ts[m] <= Latest
    BY <2>3 DEF Timed
  <2>11. t[i].start <= x /\ x < ts[m] /\ x \in Year2000 .. Latest
    BY <1>3, <2>5, <2>6, <2>8, <2>9, <2>10
  <2> QED
    BY <2>3, <2>11 DEF Running, RunsAt
<1>6. \A k \in K : Pieces(ts, S)[k] = Piece(ts, S, k)
  BY DEF Pieces
<1>7. Running(S) \subseteq UNION {Pieces(ts, S)[k] : k \in K}
  BY <1>4, <1>6
<1>8. UNION {Pieces(ts, S)[k] : k \in K} \subseteq Running(S)
  BY <1>5, <1>6
<1> QED
  BY <1>7, <1>8

\* The time from the timestamp k to the next, when a span runs there.
Lengths(ts, S) ==
    [k \in 1 .. Len(ts) - 1 |->
        IF \E i \in S : RunsAt(i, ts[k]) THEN ts[k + 1] - ts[k] ELSE 0]

\* The running time is the sum of the intervals in which a span runs.
LEMMA RunningTime ==
  ASSUME NEW S, Timed(S), NEW ts, Listed(ts, S)
  PROVE  /\ IsFiniteSet(1 .. Len(ts) - 1) /\ IntOn(Lengths(ts, S), 1 .. Len(ts) - 1)
         /\ Cardinality(Running(S)) \in Nat
         /\ Cardinality(Running(S)) = SumFunctionOnSet(Lengths(ts, S), 1 .. Len(ts) - 1)
<1> DEFINE n == Len(ts)
           K == 1 .. n - 1
           B == Pieces(ts, S)
           f == Lengths(ts, S)
<1>1. n \in Nat /\ (\A k \in 1 .. n : ts[k] \in Int)
      /\ \A k, l \in 1 .. n : k < l => ts[k] < ts[l]
  BY DEF Listed
<1>2. IsFiniteSet(K)
  BY <1>1, FS_Interval
<1>3. ASSUME NEW k \in K
      PROVE  IsFiniteSet(B[k]) /\ f[k] = Cardinality(B[k]) /\ f[k] \in Int
  <2>1. B[k] = Piece(ts, S, k)
    BY DEF Pieces
  <2>2. f[k] = IF \E i \in S : RunsAt(i, ts[k]) THEN ts[k + 1] - ts[k] ELSE 0
    BY DEF Lengths
  <2> DEFINE a == ts[k]
             b == ts[k + 1]
  <2>3. a \in Int /\ b \in Int /\ a < b
    BY <1>1
  <2>4. IsFiniteSet(a .. b - 1) /\ Cardinality(a .. b - 1) = b - a
    <3> HIDE DEF a, b
    <3>1. b - 1 \in Int /\ ~(a > b - 1) /\ (b - 1) - a + 1 = b - a
      BY <2>3
    <3> DEFINE e == b - 1
    <3>2. e \in Int /\ ~(a > e) /\ e - a + 1 = b - a
      BY <3>1
    <3> HIDE DEF e
    <3>3. IsFiniteSet(a .. e) /\ Cardinality(a .. e) = IF a > e THEN 0 ELSE e - a + 1
      BY <2>3, <3>2, FS_Interval
    <3>4. IsFiniteSet(a .. e) /\ Cardinality(a .. e) = b - a
      BY <3>2, <3>3
    <3> QED
      BY <3>4 DEF e
  <2>5. CASE \E i \in S : RunsAt(i, ts[k])
    <3>1. B[k] = a .. b - 1 /\ f[k] = b - a
      BY <2>1, <2>2, <2>5 DEF Piece
    <3> HIDE DEF a, b, B, f
    <3> QED
      BY <2>3, <2>4, <3>1
  <2>6. CASE ~ \E i \in S : RunsAt(i, ts[k])
    <3>1. B[k] = {} /\ f[k] = 0
      BY <2>1, <2>2, <2>6 DEF Piece
    <3> HIDE DEF B, f
    <3> QED
      BY <3>1, FS_EmptySet
  <2> QED
    BY <2>5, <2>6
<1>4. ASSUME NEW k \in K, NEW l \in K, k < l PROVE B[k] \cap B[l] = {}
  <2>1. B[k] \subseteq ts[k] .. ts[k + 1] - 1 /\ B[l] \subseteq ts[l] .. ts[l + 1] - 1
    BY DEF Pieces, Piece
  <2>2. k + 1 \in 1 .. n /\ l \in 1 .. n /\ (k + 1 < l \/ k + 1 = l)
    BY <1>1, <1>4
  <2>3. k \in 1 .. n /\ l + 1 \in 1 .. n
    BY <1>1
  <2>4. ts[k] \in Int /\ ts[k + 1] \in Int /\ ts[l] \in Int /\ ts[l + 1] \in Int
    BY <1>1, <2>2, <2>3
  <2>5. ts[k + 1] <= ts[l]
    BY <1>1, <2>2, <2>4
  <2>6. \A x \in Int : ~(x <= ts[k + 1] - 1 /\ ts[l] <= x)
    BY <2>4, <2>5
  <2> HIDE DEF B
  <2> QED
    BY <2>1, <2>4, <2>6
<1>5. Disjoint(B, K)
  <2> SUFFICES ASSUME NEW k \in K, NEW l \in K, k # l PROVE B[k] \cap B[l] = {}
    BY DEF Disjoint
  <2>1. k < l \/ l < k
    BY <1>1
  <2> HIDE DEF B
  <2> QED
    BY <1>4, <2>1
<1>6. Running(S) = UNION {B[k] : k \in K}
  BY RunningInPieces
<1> HIDE DEF B, f, K
<1>7. /\ IsFiniteSet(UNION {B[k] : k \in K})
      /\ Cardinality(UNION {B[k] : k \in K}) = SumFunctionOnSet(f, K)
  BY <1>2, <1>3, <1>5, SumOfSizes
<1>8. IntOn(f, K)
  BY <1>3 DEF IntOn
<1>9. Cardinality(Running(S)) \in Nat
  BY <1>6, <1>7, FS_CardinalityType
<1> QED
  BY <1>2, <1>6, <1>7, <1>8, <1>9 DEF f, K


\* Every number of spans in S divides Scale.
Divided(S) == Scale \in Nat \ {0} /\ \A n \in 1 .. Cardinality(S) : Scale % n = 0

\* An interval of length d, divided among c spans, of which e get their share.
LEMMA Shares ==
  ASSUME Scale \in Nat \ {0}, NEW c \in Nat \ {0}, Scale % c = 0, NEW e \in Nat, e <= c,
         NEW d \in Nat
  PROVE  /\ (Scale \div c) * d \in Nat
         /\ e * ((Scale \div c) * d) <= Scale * d
         /\ e = c => e * ((Scale \div c) * d) = Scale * d
<1> DEFINE q == Scale \div c
<1>1. q \in Nat /\ Scale = c * q
  <2>1. Scale = c * (Scale \div c) + (Scale % c)
    OBVIOUS
  <2>2. q \in Nat
    OBVIOUS
  <2> HIDE DEF q
  <2>3. c * q \in Int
    BY <2>2
  <2> QED
    BY <2>1, <2>2, <2>3 DEF q
<1> HIDE DEF q
<1> DEFINE x == q * d
<1>2. x \in Nat
  BY <1>1
<1>3. c * x = Scale * d
  BY <1>1
<1> HIDE DEF x
<1>4. e * x <= c * x
  <2>1. PICK y \in Nat : c = e + y
    <3>1. c - e \in Nat /\ c = e + (c - e)
      OBVIOUS
    <3> QED
      BY <3>1
  <2>2. y * x \in Nat /\ e * x \in Nat
    BY <1>2, <2>1
  <2>3. (e + y) * x = e * x + y * x
    BY <1>2, <2>1
  <2>4. c * x = e * x + y * x
    BY <2>1, <2>3
  <2> QED
    BY <2>2, <2>4
<1> QED
  BY <1>2, <1>3, <1>4 DEF x, q

\* A value of the attribute for which there is a time to give is one of S.
LEMMA AttributesFinite ==
  ASSUME NEW S, IsFiniteSet(S), NEW attr
  PROVE  IsFiniteSet(Attributes(S, attr))
<1> DEFINE A == {t[i][attr] : i \in S}
           f == [i \in S |-> t[i][attr]]
<1>1. Attributes(S, attr) \in SUBSET A
  BY DEF Attributes, Active
<1>2. f \in [S -> A] /\ \A x \in A : \E i \in S : f[i] = x
  OBVIOUS
<1> HIDE DEF f, A
<1>3. f \in Surjection(S, A)
  BY <1>2 DEF Surjection
<1>4. IsFiniteSet(A)
  BY <1>3, FS_Surjection
<1> QED
  BY <1>1, <1>4, FS_Subset

\* Whenever a span of S runs, one is active.
NeverIdle(S, ts) ==
    \A k \in 1 .. Len(ts) - 1 : (\E i \in S : RunsAt(i, ts[k])) => Active(S, ts[k]) # {}

\* What is given to the values of an attribute is the running time, but for what
\* falls to spans without the attribute or to nobody.
LEMMA HandedOut ==
  ASSUME NEW S, IsFiniteSet(S), Timed(S), Divided(S), NEW attr
  PROVE  /\ IntOn(DurationByAttr(S, attr), Attributes(S, attr))
         /\ Cardinality(Running(S)) \in Nat
         /\ SumFunctionOnSet(DurationByAttr(S, attr), Attributes(S, attr))
                <= Scale * Cardinality(Running(S))
         /\ NeverIdle(S, Timestamps(S)) /\ (\A i \in S : t[i][attr] # "") =>
                SumFunctionOnSet(DurationByAttr(S, attr), Attributes(S, attr))
                    = Scale * Cardinality(Running(S))
<1> DEFINE ts == Timestamps(S)
           K == 1 .. Len(ts) - 1
           V == Attributes(S, attr)
           D == DurationByAttr(S, attr)
           len == Lengths(ts, S)
           Act == [k \in K |-> Active(S, ts[k])]
           w == [k \in K |-> IF Act[k] = {} THEN 0
                             ELSE (Scale \div Cardinality(Act[k])) * (ts[k + 1] - ts[k])]
           lab == [i \in S |-> t[i][attr]]
           E == ByLabel(K, Act, w, lab, V)
<1>1. Listed(ts, S)
  BY TimestampsListed
<1>2. /\ IsFiniteSet(K) /\ IntOn(len, K) /\ Cardinality(Running(S)) \in Nat
      /\ Cardinality(Running(S)) = SumFunctionOnSet(len, K)
  BY <1>1, RunningTime
<1>3. IsFiniteSet(V)
  BY AttributesFinite
<1>4. ASSUME NEW k \in K
      PROVE  /\ ts[k + 1] - ts[k] \in Nat
             /\ Act[k] = Active(S, ts[k]) /\ Act[k] \in SUBSET S
             /\ \A i \in Act[k] : RunsAt(i, ts[k]) /\ i \in S /\ lab[i] = t[i][attr]
             /\ len[k] = IF \E i \in S : RunsAt(i, ts[k]) THEN ts[k + 1] - ts[k] ELSE 0
  <2>1. Len(ts) \in Nat /\ k \in 1 .. Len(ts) /\ k + 1 \in 1 .. Len(ts) /\ k < k + 1
    BY <1>1 DEF Listed
  <2>2. ts[k] \in Int /\ ts[k + 1] \in Int /\ ts[k] < ts[k + 1]
    BY <1>1, <2>1 DEF Listed
  <2>3. ts[k + 1] - ts[k] \in Nat
    BY <2>2
  <2>4. Act[k] = Active(S, ts[k]) /\ Act[k] \in SUBSET S
    BY DEF Active
  <2>5. \A i \in Act[k] : RunsAt(i, ts[k]) /\ i \in S /\ lab[i] = t[i][attr]
    BY DEF Active
  <2>6. len[k] = IF \E i \in S : RunsAt(i, ts[k]) THEN ts[k + 1] - ts[k] ELSE 0
    BY DEF Lengths
  <2> QED
    BY <2>3, <2>4, <2>5, <2>6
<1>5. ASSUME NEW k \in K
      PROVE  IsFiniteSet(Act[k]) /\ Cardinality(Act[k]) \in Nat
             /\ (Act[k] # {} => /\ Cardinality(Act[k]) \in Nat \ {0}
                                /\ Scale % Cardinality(Act[k]) = 0)
  <2>1. Act[k] \in SUBSET S
    BY <1>4
  <2> HIDE DEF Act
  <2>2. IsFiniteSet(Act[k]) /\ Cardinality(Act[k]) <= Cardinality(S)
    BY <2>1, FS_Subset
  <2>3. Cardinality(Act[k]) \in Nat /\ Cardinality(S) \in Nat
        /\ (Cardinality(Act[k]) = 0 <=> Act[k] = {})
    BY <2>2, FS_CardinalityType, FS_EmptySet
  <2> QED
    BY <2>2, <2>3 DEF Divided
<1>6. ASSUME NEW k \in K
      PROVE  w[k] \in Nat
  <2>1. CASE Act[k] = {}
    BY <2>1
  <2>2. CASE Act[k] # {}
    <3> DEFINE c == Cardinality(Act[k])
               d == ts[k + 1] - ts[k]
    <3>1. w[k] = (Scale \div c) * d
      BY <2>2
    <3>2. c \in Nat \ {0} /\ Scale % c = 0 /\ d \in Nat /\ Scale \in Nat \ {0}
      BY <1>4, <1>5, <2>2 DEF Divided
    <3> HIDE DEF c, d, w
    <3>3. c \in Nat /\ c <= c
      BY <3>2
    <3>4. (Scale \div c) * d \in Nat
      BY <3>2, <3>3, Shares
    <3> QED
      BY <3>1, <3>4
  <2> QED
    BY <2>1, <2>2
<1>7. \A v \in V : D[v] = SumFunctionOnSet(ByLabel(K, Act, w, lab, {v}), K)
  <2> SUFFICES ASSUME NEW v \in V
               PROVE  D[v] = SumFunctionOnSet(ByLabel(K, Act, w, lab, {v}), K)
    OBVIOUS
  <2> DEFINE f == [k \in K |-> Portion(S, v, attr, ts, k)]
             g == ByLabel(K, Act, w, lab, {v})
  <2>1. D[v] = SumFunctionOnSet(f, K)
    BY DEF DurationByAttr, DurationOf, SumFunction
  <2>2. ASSUME NEW k \in K PROVE f[k] = g[k]
    <3> DEFINE A == Active(S, ts[k])
               C == {i \in A : t[i][attr] = v}
    <3>1. f[k] = IF A = {} THEN 0
                 ELSE Cardinality(C) * ((Scale \div Cardinality(A)) * (ts[k + 1] - ts[k]))
      BY DEF Portion
    <3>2. Act[k] = A /\ {i \in Act[k] : lab[i] \in {v}} = C
      BY <1>4
    <3>3. g[k] = Cardinality(C) * w[k]
      <4>1. g[k] = Cardinality({i \in Act[k] : lab[i] \in {v}}) * w[k]
        BY Zenon DEF ByLabel
      <4> QED
        BY <3>2, <4>1, Zenon
    <3>4. CASE A = {}
      <4>1. w[k] = 0 /\ C = {}
        BY <3>2, <3>4
      <4>2. Cardinality({}) = 0
        BY FS_EmptySet
      <4> HIDE DEF w, C, g, f, A
      <4> QED
        BY <3>1, <3>3, <3>4, <4>1, <4>2
    <3>5. CASE A # {}
      <4>1. w[k] = (Scale \div Cardinality(A)) * (ts[k + 1] - ts[k])
        BY <3>2, <3>5
      <4> HIDE DEF w, C, g, f, A
      <4> QED
        BY <3>1, <3>3, <3>5, <4>1
    <3> QED
      BY <3>4, <3>5
  <2> HIDE DEF f, g
  <2>3. SumFunctionOnSet(f, K) = SumFunctionOnSet(g, K)
    <3> HIDE DEF K
    <3> QED
      BY <1>2, <2>2, SumSame
  <2> QED
    BY <2>1, <2>3 DEF g
<1>8. IntOn(w, K)
  <2>1. \A k \in K : w[k] \in Int
    <3> HIDE DEF w, K
    <3> QED
      BY <1>6
  <2> HIDE DEF w, K
  <2> QED
    BY <2>1 DEF IntOn
<1>9. IntOn(D, V) /\ SumFunctionOnSet(D, V) = SumFunctionOnSet(E, K)
  <2>1. IsFiniteSet(K) /\ \A k \in K : IsFiniteSet(Act[k])
    <3> HIDE DEF K, Act
    <3> QED
      BY <1>2, <1>5
  <2> HIDE DEF D, V, K, w, Act, lab
  <2>2. SummedByLabel(D, K, Act, w, lab, V)
    BY <1>7 DEF SummedByLabel
  <2>3. IntOn(D, V) /\ SumFunctionOnSet(D, V) = SumFunctionOnSet(ByLabel(K, Act, w, lab, V), K)
    BY <1>3, <1>8, <2>1, <2>2, SumByLabel
  <2> QED
    BY <2>3
<1>10. ASSUME NEW k \in K
       PROVE  /\ E[k] \in Int /\ E[k] <= Scale * len[k] /\ Scale * len[k] \in Int
              /\ NeverIdle(S, ts) /\ (\A i \in S : t[i][attr] # "") => E[k] = Scale * len[k]
  <2> DEFINE C == {i \in Act[k] : lab[i] \in V}
             c == Cardinality(Act[k])
             e == Cardinality(C)
             d == ts[k + 1] - ts[k]
  <2>1. E[k] = e * w[k]
    BY Zenon DEF ByLabel
  <2>2. C \in SUBSET Act[k]
    OBVIOUS
  <2>3. e \in Nat /\ e <= c /\ c \in Nat
    <3> HIDE DEF C, Act
    <3>1. IsFiniteSet(C) /\ Cardinality(C) <= Cardinality(Act[k])
      BY <1>5, <2>2, FS_Subset
    <3> QED
      BY <1>5, <3>1, FS_CardinalityType
  <2>4. d \in Nat /\ Scale \in Nat \ {0}
    BY <1>4 DEF Divided
  <2>5. CASE Act[k] = {}
    <3>1. w[k] = 0
      BY <2>5
    <3>2. E[k] = 0
      <4> HIDE DEF E, e, w
      <4> QED
        BY <2>1, <2>3, <3>1
    <3>3. len[k] \in Nat
      <4> HIDE DEF len, ts
      <4> QED
        BY <1>4
    <3>4. Scale * len[k] \in Nat
      <4> HIDE DEF len
      <4> QED
        BY <2>4, <3>3
    <3>5. NeverIdle(S, ts) => len[k] = 0
      BY <1>4, <2>5 DEF NeverIdle
    <3>6. Scale * 0 = 0
      BY <2>4
    <3> DEFINE x == E[k]
               y == len[k]
    <3>7. x = 0 /\ Scale * y \in Nat /\ (NeverIdle(S, ts) => y = 0)
      BY <3>2, <3>4, <3>5
    <3> HIDE DEF x, y
    <3>8. /\ x \in Int /\ x <= Scale * y /\ Scale * y \in Int
          /\ NeverIdle(S, ts) => x = Scale * y
      BY <3>6, <3>7
    <3> QED
      BY <3>8 DEF x, y
  <2>6. CASE Act[k] # {}
    <3>1. w[k] = (Scale \div c) * d
      BY <2>6
    <3>2. c \in Nat \ {0} /\ Scale % c = 0
      BY <1>5, <2>6
    <3>3. len[k] = d
      BY <1>4, <2>6
    <3>4. (\A i \in S : t[i][attr] # "") => e = c
      <4> SUFFICES ASSUME \A i \in S : t[i][attr] # "" PROVE C = Act[k]
        OBVIOUS
      <4>1. ASSUME NEW i \in Act[k] PROVE lab[i] \in V
        <5>1. i \in S /\ lab[i] = t[i][attr] /\ i \in Active(S, ts[k])
          BY <1>4
        <5> QED
          BY <5>1 DEF Attributes
      <4> QED
        BY <4>1
    <3> HIDE DEF C, c, e, d, E, w, len
    <3>5. /\ (Scale \div c) * d \in Nat
          /\ e * ((Scale \div c) * d) <= Scale * d
          /\ e = c => e * ((Scale \div c) * d) = Scale * d
      BY <2>3, <2>4, <3>2, Shares
    <3>6. e * w[k] \in Int /\ Scale * d \in Int
      <4>1. w[k] \in Nat
        BY <3>1, <3>5
      <4> QED
        BY <2>3, <2>4, <4>1
    <3> QED
      BY <2>1, <3>1, <3>3, <3>4, <3>5, <3>6
  <2> QED
    BY <2>5, <2>6
<1>11. IntOn(E, K)
  <2> HIDE DEF E, len, K
  <2> QED
    BY <1>10 DEF IntOn
<1> DEFINE F == [k \in K |-> Scale * len[k]]
<1>12. IntOn(F, K) /\ \A k \in K : F[k] = Scale * len[k]
  <2> HIDE DEF len, K
  <2> QED
    BY <1>10 DEF IntOn
<1> HIDE DEF E, F, len, K, D, V, ts
<1>13. SumFunctionOnSet(F, K) = Scale * SumFunctionOnSet(len, K)
  <2>1. Scale \in Int
    BY DEF Divided
  <2> QED
    BY <1>2, <1>12, <2>1, SumTimes
<1>14. SumFunctionOnSet(E, K) <= SumFunctionOnSet(F, K)
  <2>1. \A k \in K : E[k] <= F[k]
    BY <1>10, <1>12
  <2> QED
    BY <1>2, <1>11, <1>12, <2>1, SumMonotonic
<1>15. ASSUME NeverIdle(S, ts), \A i \in S : t[i][attr] # ""
       PROVE  SumFunctionOnSet(E, K) = SumFunctionOnSet(F, K)
  <2>1. \A k \in K : E[k] = F[k]
    BY <1>10, <1>12, <1>15
  <2> QED
    BY <1>2, <2>1, SumSame
<1>16. SumFunctionOnSet(D, V) <= Scale * Cardinality(Running(S))
  BY <1>2, <1>9, <1>13, <1>14
<1>17. NeverIdle(S, ts) /\ (\A i \in S : t[i][attr] # "") =>
            SumFunctionOnSet(D, V) = Scale * Cardinality(Running(S))
  BY <1>2, <1>9, <1>13, <1>15
<1> QED
  BY <1>2, <1>9, <1>16, <1>17 DEF D, V, ts


\* A subtrace with no parent of the root in it has no set of spans that all have a child
\* in the set: the children would be as many as the spans, so the set would be a cycle,
\* out of reach of the root.
LEMMA NoCycle ==
  ASSUME t \in Seq(Spans), DistinctIDs, root \in DOMAIN t,
         NEW a \in Descendants(root), Parents(root) \cap Descendants(a) = {},
         NEW Run \in SUBSET Descendants(a),
         \A i \in Run : \E c \in Run : i \in Parents(c)
  PROVE  Run = {}
<1> DEFINE D == Descendants(root)
           C == D \ Run
           child == [i \in Run |-> CHOOSE c \in Run : i \in Parents(c)]
<1>1. /\ root \in D /\ D \subseteq DOMAIN t
      /\ \A p \in D : \A c \in ChildrenOf[p] \ {root} : c \in D
  BY DescendantsClosed
<1>2. Descendants(a) \subseteq D
  BY DescendantsTransitive
<1>3. Run \in SUBSET DOMAIN t /\ Run \subseteq D
  BY <1>1, <1>2
<1>4. IsFiniteSet(Run)
  <2>1. DOMAIN t = 1 .. Len(t) /\ Len(t) \in Nat
    OBVIOUS
  <2>2. IsFiniteSet(DOMAIN t)
    BY <2>1, FS_Interval
  <2> QED
    BY <1>3, <2>2, FS_Subset
<1>5. \A i \in Run : child[i] \in Run /\ i \in Parents(child[i])
  OBVIOUS
<1>6. \A c \in Run : \A p, q \in Parents(c) : p = q
  BY DEF Parents, DistinctIDs
<1>7. child \in [Run -> Run]
  BY <1>5
<1> HIDE DEF child
<1>8. child \in Injection(Run, Run)
  <2>1. ASSUME NEW i \in Run, NEW j \in Run, child[i] = child[j] PROVE i = j
    BY <1>5, <1>6, <2>1
  <2> QED
    BY <1>7, <2>1 DEF Injection, IsInjective
<1>9. child \in Surjection(Run, Run)
  BY <1>4, <1>8, FS_Injection
<1>10. \A c \in Run : \E p \in Run : p \in Parents(c)
  BY <1>5, <1>9 DEF Surjection
<1>11. root \notin Run
  BY <1>10
<1>12. ASSUME NEW p \in C, NEW c \in ChildrenOf[p] \ {root} PROVE c \in C
  <2>1. p \in DOMAIN t /\ c \in D /\ p \notin Run
    BY <1>1
  <2>2. p \in Parents(c)
    BY <2>1 DEF ChildrenOf
  <2> QED
    BY <1>6, <1>10, <2>1, <2>2
<1>13. C \in SUBSET DOMAIN t /\ root \in C
  BY <1>1, <1>11
<1> HIDE DEF C
<1>14. Descendants(root) \subseteq C
  BY <1>12, <1>13, DescendantsLeast
<1> QED
  BY <1>3, <1>14 DEF C

\* Whenever a span of a subtrace without a cycle runs, one without running children does.
LEMMA SubtraceNeverIdle ==
  ASSUME t \in Seq(Spans), DistinctIDs, root \in DOMAIN t,
         NEW a \in Descendants(root), Parents(root) \cap Descendants(a) = {}
  PROVE  NeverIdle(Descendants(a), Timestamps(Descendants(a)))
<1> DEFINE S == Descendants(a)
           ts == Timestamps(S)
<1>1. S \subseteq DOMAIN t
  <2>1. a \in DOMAIN t
    BY DescendantsClosed
  <2> QED
    BY <2>1, DescendantsClosed
<1>2. ASSUME NEW x, Active(S, x) = {}, NEW j \in S, RunsAt(j, x) PROVE FALSE
  <2> DEFINE Run == {i \in S : RunsAt(i, x)}
  <2>1. Run \in SUBSET S /\ j \in Run
    BY <1>2
  <2>2. \A i \in Run : \E c \in Run : i \in Parents(c)
    <3> SUFFICES ASSUME NEW i \in Run PROVE \E c \in Run : i \in Parents(c)
      OBVIOUS
    <3>1. i \in S /\ RunsAt(i, x) /\ i \in DOMAIN t
      BY <1>1
    <3>2. PICK c \in Children(S, t[i].id) : RunsAt(c, x)
      BY <1>2, <3>1 DEF Active
    <3>3. c \in S /\ t[c].parent # 0 /\ t[c].parent = t[i].id
      BY <3>2 DEF Children
    <3>4. i \in Parents(c)
      BY <3>1, <3>3 DEF Parents
    <3> QED
      BY <3>2, <3>3, <3>4
  <2> HIDE DEF Run
  <2>3. Run = {}
    BY <2>1, <2>2, NoCycle
  <2> QED
    BY <2>1, <2>3
<1> HIDE DEF S, ts
<1>3. NeverIdle(S, ts)
  BY <1>2 DEF NeverIdle
<1> QED
  BY <1>3 DEF S, ts


\* The spans that Normalize lets pass have a service and times within its bounds, and
\* the values of the subtraces are those that ComputeSublayers computes.
TimesInv ==
    /\ \A n \in 1 .. Len(t) : Scale % n = 0
    /\ pc \notin {"normalize", "rejected"} =>
        \A i \in DOMAIN t :
            /\ t[i].service # ""
            /\ Year2000 <= t[i].start
            /\ End(t[i]) <= Latest
    /\ pc = "done" =>
        sublayers = [a \in DOMAIN subtraces |-> ComputeSublayers(ToSet(subtraces[a]))]

\* ComputeSublayers depends on the trace alone.
LEMMA SublayersUnchanged ==
  ASSUME t' = t
  PROVE  \A S : ComputeSublayers(S)' = ComputeSublayers(S)
<1>1. \A i, x : RunsAt(i, x)' = RunsAt(i, x)
  BY DEF RunsAt, End, Wrap
<1>2. \A S, id : Children(S, id)' = Children(S, id)
  BY DEF Children
<1>3. \A S, x : Active(S, x)' = Active(S, x)
  BY <1>1, <1>2 DEF Active
<1>4. \A S : Timestamps(S)' = Timestamps(S)
  BY DEF Timestamps, Ascending, End, Wrap
<1>5. \A S, v, attr, ts, k : Portion(S, v, attr, ts, k)' = Portion(S, v, attr, ts, k)
  <2> SUFFICES ASSUME NEW S, NEW v, NEW attr, NEW ts, NEW k
               PROVE  Portion(S, v, attr, ts, k)' = Portion(S, v, attr, ts, k)
    OBVIOUS
  <2> DEFINE A == Active(S, ts[k])
             C == {i \in A : t[i][attr] = v}
  <2>1. A' = A
    BY <1>3
  <2>2. C' = C
    BY <2>1
  <2>3. Portion(S, v, attr, ts, k) =
            IF A = {} THEN 0
            ELSE Cardinality(C) * ((Scale \div Cardinality(A)) * (ts[k + 1] - ts[k]))
    BY DEF Portion
  <2>4. Portion(S, v, attr, ts, k)' =
            IF A' = {} THEN 0
            ELSE Cardinality(C') * ((Scale \div Cardinality(A')) * (ts[k + 1] - ts[k]))
    BY DEF Portion
  <2> HIDE DEF A, C
  <2> QED
    BY <2>1, <2>2, <2>3, <2>4
<1>6. \A S, v, attr : DurationOf(S, v, attr)' = DurationOf(S, v, attr)
  BY <1>4, <1>5 DEF DurationOf
<1>7. \A S, attr : Attributes(S, attr)' = Attributes(S, attr)
  BY <1>3, <1>4 DEF Attributes
<1>8. \A S, attr : DurationByAttr(S, attr)' = DurationByAttr(S, attr)
  BY <1>6, <1>7 DEF DurationByAttr
<1> QED
  BY <1>8 DEF ComputeSublayers, CutToInt64

\* Every step keeps the invariant.
LEMMA TimesStep ==
  ASSUME ModelInv, TimesInv, [ModelNext]_modelVars
  PROVE  TimesInv'
<1>0. Len(t) \in Nat /\ DOMAIN t = 1 .. Len(t) /\ \A i \in DOMAIN t : t[i] \in Spans
  BY DEF ModelInv
<1>1. ASSUME t' = t, \/ pc' = pc
                     \/ pc \notin {"normalize", "rejected"} /\ pc' \in {"top_level", "search"},
             pc' = "done" => sublayers' = sublayers /\ subtraces' = subtraces
      PROVE  TimesInv'
  <2>1. \A i \in DOMAIN t : End(t[i])' = End(t[i])
    BY <1>1 DEF End, Wrap
  <2>2. \A S : ComputeSublayers(S)' = ComputeSublayers(S)
    BY <1>1, SublayersUnchanged
  <2>3. (\A n \in 1 .. Len(t) : Scale % n = 0)'
    BY <1>1 DEF TimesInv
  <2>4. (pc \notin {"normalize", "rejected"} =>
            \A i \in DOMAIN t :
                t[i].service # "" /\ Year2000 <= t[i].start /\ End(t[i]) <= Latest)'
    BY <1>1, <2>1 DEF TimesInv
  <2>5. (pc = "done" =>
            sublayers = [a \in DOMAIN subtraces |-> ComputeSublayers(ToSet(subtraces[a]))])'
    BY <1>1, <2>2 DEF TimesInv
  <2> QED
    BY <2>3, <2>4, <2>5 DEF TimesInv
<1>2. CASE NormalizeTrace
  <2>1. pc = "normalize"
    BY <1>2 DEF NormalizeTrace
  <2>2. CASE Rejects
    BY <1>2, <2>2 DEF NormalizeTrace, TimesInv
  <2>3. CASE ~Rejects
    <3>1. pc' = "root" /\ t' = [i \in DOMAIN t |-> Normalize(t[i])]
      BY <1>2, <2>3 DEF NormalizeTrace
    <3>2. t' \in Seq(Spans)
      BY <1>2, Normalized DEF ModelInv
    <3>3. DOMAIN t' = DOMAIN t /\ Len(t') = Len(t)
      <4>1. DOMAIN t' = DOMAIN t
        BY <3>1
      <4>2. Len(t') \in Nat /\ DOMAIN t' = 1 .. Len(t')
        BY <3>2
      <4> QED
        BY <1>0, <4>1, <4>2
    <3>4. ASSUME NEW i \in DOMAIN t
          PROVE  t'[i].service # "" /\ Year2000 <= t'[i].start /\ End(t'[i]) <= Latest
      <4>1. t[i] \in Spans /\ t'[i] = Normalize(t[i])
        BY <1>0, <3>1
      <4>2. ~Invalid(t[i])
        BY <2>3 DEF Rejects
      <4>3. /\ t'[i].service = t[i].service /\ t'[i].start = t[i].start
            /\ t'[i].duration = t[i].duration
        BY <4>1 DEF Normalize, Spans
      <4>4. End(t'[i]) = End(t[i])
        BY <4>3 DEF End
      <4>5. t[i].start \in Int /\ t[i].duration \in Int
        BY <4>1 DEF Spans
      <4>6. End(t[i]) \in Int
        BY <4>5, EndInt
      <4> DEFINE b == t[i].start
                 e == End(t[i])
      <4>7. t[i].service # "" /\ ~(b < Year2000) /\ ~(e > Latest)
        BY <4>2 DEF Invalid
      <4>8. b \in Int /\ e \in Int /\ t'[i].start = b /\ End(t'[i]) = e
        BY <4>3, <4>4, <4>5, <4>6
      <4> HIDE DEF b, e
      <4>9. \A x, y \in Int : (~(x < y) => y <= x) /\ (~(x > y) => x <= y)
        OBVIOUS
      <4>10. Year2000 <= b /\ e <= Latest
        BY <4>7, <4>8, <4>9, TimesAssumption
      <4> QED
        BY <4>3, <4>7, <4>8, <4>10
    <3>5. (\A i \in DOMAIN t :
                t[i].service # "" /\ Year2000 <= t[i].start /\ End(t[i]) <= Latest)'
      BY <3>3, <3>4 DEF End, Wrap
    <3> QED
      BY <3>1, <3>3, <3>5 DEF TimesInv
  <2> QED
    BY <2>2, <2>3
<1>3. CASE GetRoot
  BY <1>1, <1>3 DEF GetRoot
<1>4. CASE ComputeTopLevel
  <2>1. /\ pc = "top_level" /\ pc' = "search"
        /\ t' = [i \in DOMAIN t |-> IF HasLocalParent(t[i]) THEN t[i]
                                    ELSE [t[i] EXCEPT !.top = TRUE]]
    BY <1>4 DEF ComputeTopLevel
  <2>2. t' \in Seq(Spans)
    BY <1>4, TopLevelComputed DEF ModelInv
  <2>3. DOMAIN t' = DOMAIN t /\ Len(t') = Len(t)
    <3>1. DOMAIN t' = DOMAIN t
      BY <2>1
    <3>2. Len(t') \in Nat /\ DOMAIN t' = 1 .. Len(t')
      BY <2>2
    <3> QED
      BY <1>0, <3>1, <3>2
  <2>4. ASSUME NEW i \in DOMAIN t
        PROVE  t'[i].service # "" /\ Year2000 <= t'[i].start /\ End(t'[i]) <= Latest
    <3>1. t[i] \in Spans /\ t'[i] = IF HasLocalParent(t[i]) THEN t[i]
                                    ELSE [t[i] EXCEPT !.top = TRUE]
      BY <1>0, <2>1
    <3>2. /\ t'[i].service = t[i].service /\ t'[i].start = t[i].start
          /\ t'[i].duration = t[i].duration
      BY <3>1 DEF Spans
    <3>3. End(t'[i]) = End(t[i])
      BY <3>2 DEF End
    <3> QED
      BY <2>1, <3>2, <3>3 DEF TimesInv
  <2>5. (\A i \in DOMAIN t :
              t[i].service # "" /\ Year2000 <= t[i].start /\ End(t[i]) <= Latest)'
    BY <2>3, <2>4 DEF End, Wrap
  <2> QED
    BY <2>1, <2>3, <2>5 DEF TimesInv
<1>5. CASE Visit
  BY <1>1, <1>5 DEF Visit
<1>6. CASE SetSublayers
  <2>1. /\ pc = "search" /\ pc' = "done" /\ t' = t /\ subtraces' = subtraces
        /\ sublayers' = [a \in DOMAIN subtraces |-> ComputeSublayers(ToSet(subtraces[a]))]
    BY <1>6 DEF SetSublayers
  <2>2. \A S : ComputeSublayers(S)' = ComputeSublayers(S)
    BY <2>1, SublayersUnchanged
  <2>3. (sublayers = [a \in DOMAIN subtraces |-> ComputeSublayers(ToSet(subtraces[a]))])'
    BY <2>1, <2>2
  <2>4. \A i \in DOMAIN t : End(t[i])' = End(t[i])
    BY <2>1 DEF End, Wrap
  <2>5. (\A i \in DOMAIN t :
              t[i].service # "" /\ Year2000 <= t[i].start /\ End(t[i]) <= Latest)'
    BY <2>1, <2>4 DEF TimesInv
  <2>6. (\A n \in 1 .. Len(t) : Scale % n = 0)'
    BY <2>1 DEF TimesInv
  <2> QED
    BY <2>3, <2>5, <2>6 DEF TimesInv
<1>7. CASE UNCHANGED modelVars
  <2>1. t' = t /\ pc' = pc /\ sublayers' = sublayers /\ subtraces' = subtraces
    BY <1>7 DEF modelVars
  <2> QED
    BY <1>1, <2>1
<1> QED
  BY <1>2, <1>3, <1>4, <1>5, <1>6, <1>7 DEF ModelNext


\* The least and the most time that ComputeSublayers gives to the values of an
\* attribute, cut to integers.
Given(S, attr, bound) ==
    LET D == DurationByAttr(S, attr)
    IN  [v \in DOMAIN D |-> CutToInt64(D[v])[bound]]

\* A positive factor on both sides.
LEMMA Cancel ==
  ASSUME NEW c \in Nat \ {0}, NEW x \in Int, NEW y \in Int, c * x <= c * y
  PROVE  x <= y
<1>1. CASE ~(x <= y)
  <2>1. PICK z \in Nat \ {0} : x = y + z
    <3>1. x - y \in Nat \ {0} /\ x = y + (x - y)
      BY <1>1
    <3> QED
      BY <3>1
  <2>2. c * (y + z) = c * y + c * z
    BY <2>1
  <2>3. c * z \in Nat \ {0} /\ c * y \in Int
    BY <2>1
  <2> QED
    BY <2>1, <2>2, <2>3
<1> QED
  BY <1>1

\* Values multiplied by m and then cut by a divisor c.
LEMMA CutSums ==
  ASSUME NEW V, IsFiniteSet(V), NEW c \in Nat \ {0}, NEW m \in Nat, NEW D, IntOn(D, V),
         NEW Q, \A v \in V : Q[v] = (m * D[v]) \div c
  PROVE  /\ SumFunctionOnSet(D, V) \in Int /\ SumFunctionOnSet(Q, V) \in Int
         /\ c * SumFunctionOnSet(Q, V) <= m * SumFunctionOnSet(D, V)
         /\ m * SumFunctionOnSet(D, V)
                <= c * SumFunctionOnSet(Q, V) + (c - 1) * Cardinality(V)
<1> DEFINE F == [v \in V |-> m * D[v]]
<1>1. \A v \in V : D[v] \in Int /\ F[v] = m * D[v] /\ F[v] \in Int /\ Q[v] = F[v] \div c
  BY DEF IntOn
<1>2. IntOn(F, V) /\ \A v \in V : F[v] = m * D[v] /\ Q[v] = F[v] \div c
  BY <1>1 DEF IntOn
<1> HIDE DEF F
<1>3. SumFunctionOnSet(F, V) = m * SumFunctionOnSet(D, V)
  BY <1>2, SumTimes
<1>4. SumFunctionOnSet(D, V) \in Int
  BY SumInt
<1>5. /\ SumFunctionOnSet(Q, V) \in Int /\ c * SumFunctionOnSet(Q, V) <= SumFunctionOnSet(F, V)
      /\ SumFunctionOnSet(F, V) <= c * SumFunctionOnSet(Q, V) + (c - 1) * Cardinality(V)
  BY <1>2, SumCut
<1> QED
  BY <1>3, <1>4, <1>5

\* At most the running time and the error of the sums is given, and all of it without
\* the error, but for less than one unit per value, when no interval is lost.
LEMMA TimeGiven ==
  ASSUME NEW S, IsFiniteSet(S), Timed(S), Divided(S), NEW attr
  PROVE  /\ Precision * SumFunction(Given(S, attr, "most"))
                <= (Precision + 1) * Cardinality(Running(S))
         /\ (/\ NeverIdle(S, Timestamps(S)) /\ (\A i \in S : t[i][attr] # "")
             /\ Cardinality(Running(S)) > 0)
            => (Precision - 1) * Cardinality(Running(S))
                < Precision * (SumFunction(Given(S, attr, "least"))
                                + Cardinality(Attributes(S, attr)))
<1> DEFINE D == DurationByAttr(S, attr)
           V == Attributes(S, attr)
           QL == Given(S, attr, "least")
           QM == Given(S, attr, "most")
           R == Cardinality(Running(S))
           full == NeverIdle(S, Timestamps(S)) /\ (\A i \in S : t[i][attr] # "")
           d == SumFunctionOnSet(D, V)
           l == SumFunctionOnSet(QL, V)
           m == SumFunctionOnSet(QM, V)
           n == Cardinality(V)
           P == Precision
           c == Precision * Scale
<1>1. DOMAIN D = V
  BY DEF DurationByAttr
<1>2. /\ DOMAIN QL = V /\ \A v \in V : QL[v] = ((P - 1) * D[v]) \div c
      /\ DOMAIN QM = V /\ \A v \in V : QM[v] = ((P + 1) * D[v]) \div c
  BY <1>1 DEF Given, CutToInt64
<1>3. IsFiniteSet(V) /\ n \in Nat
  BY AttributesFinite, FS_CardinalityType
<1>4. IntOn(D, V) /\ R \in Nat /\ d <= Scale * R /\ (full => d = Scale * R)
  BY HandedOut
<1>5. SumFunction(QL) = l /\ SumFunction(QM) = m
  BY <1>2 DEF SumFunction
<1>6. /\ Scale \in Nat \ {0} /\ P \in Nat \ {0} /\ c \in Nat \ {0} /\ c = P * Scale
      /\ P - 1 \in Nat /\ P + 1 \in Nat
  BY PrecisionAssumption DEF Divided
<1> HIDE DEF D, V, QL, QM, R, full, P, c
<1>7. d \in Int /\ m \in Int /\ c * m <= (P + 1) * d
  BY <1>2, <1>3, <1>4, <1>6, CutSums
<1>8. l \in Int /\ (P - 1) * d <= c * l + (c - 1) * n
  BY <1>2, <1>3, <1>4, <1>6, CutSums
<1> HIDE DEF d, l, m, n
<1>9. P * m <= (P + 1) * R
  <2>1. \E z \in Nat : Scale * R = d + z
    <3>1. Scale * R \in Int
      BY <1>4, <1>6
    <3> DEFINE u == Scale * R
    <3>2. u - d \in Nat /\ u = d + (u - d)
      <4> HIDE DEF u
      <4>1. u \in Int /\ d <= u
        BY <1>4, <3>1 DEF u
      <4> QED
        BY <1>7, <4>1
    <3> QED
      BY <3>2
  <2>2. PICK z \in Nat : Scale * R = d + z
    BY <2>1
  <2>3. (P + 1) * (d + z) = (P + 1) * d + (P + 1) * z /\ (P + 1) * z \in Nat
        /\ (P + 1) * d \in Int
    BY <1>6, <1>7, <2>2
  <2>4. c * m <= (P + 1) * (Scale * R)
    <3>1. c * m \in Int
      BY <1>6, <1>7
    <3> QED
      BY <1>7, <2>2, <2>3, <3>1
  <2>5. \A x, y \in Int : c * x = Scale * (P * x) /\ (P + 1) * (Scale * y) = Scale * ((P + 1) * y)
    BY <1>6
  <2>6. Scale * (P * m) <= Scale * ((P + 1) * R) /\ P * m \in Int /\ (P + 1) * R \in Int
    BY <1>4, <1>6, <1>7, <2>4, <2>5
  <2> QED
    BY <1>6, <2>6, Cancel
<1>10. full /\ R > 0 => (P - 1) * R < P * (l + n)
  <2> SUFFICES ASSUME full, R > 0, ~((P - 1) * R < P * (l + n)) PROVE FALSE
    OBVIOUS
  <2> DEFINE a == (P - 1) * R
             b == P * (l + n)
  <2>1. PICK y \in Nat : a = b + y
    <3>1. a \in Int /\ b \in Int /\ ~(a < b)
      BY <1>3, <1>4, <1>6, <1>8
    <3> HIDE DEF a, b
    <3>2. a - b \in Nat /\ a = b + (a - b)
      BY <3>1
    <3> QED
      BY <3>2
  <2>2. (P - 1) * d = Scale * a
    <3>1. \A x \in Int : (P - 1) * (Scale * x) = Scale * ((P - 1) * x)
      BY <1>6
    <3> QED
      BY <1>4, <3>1
  <2>3. Scale * a = Scale * b + Scale * y /\ Scale * y \in Nat
    <3>1. b \in Int
      BY <1>3, <1>6, <1>8
    <3> HIDE DEF a, b
    <3> QED
      BY <1>6, <2>1, <3>1
  <2>4. Scale * b = c * l + c * n /\ c * l \in Int /\ c * n \in Int
    <3>1. \A x \in Int : Scale * (P * x) = c * x
      BY <1>6
    <3>2. c * (l + n) = c * l + c * n
      BY <1>3, <1>6, <1>8
    <3> QED
      BY <1>3, <1>6, <1>8, <3>1, <3>2
  <2>5. (c - 1) * n = c * n - n
    BY <1>3, <1>6
  <2> HIDE DEF a, b
  <2>6. c * l + c * n + Scale * y <= c * l + (c * n - n)
    BY <1>8, <2>2, <2>3, <2>4, <2>5
  <2>7. n = 0
    BY <1>3, <2>3, <2>4, <2>6
  <2>8. V = {}
    BY <1>3, <2>7, FS_EmptySet DEF n
  <2>9. d = 0
    BY <2>8, SumEmpty DEF d
  <2> QED
    BY <1>4, <1>6, <2>9
<1> QED
  BY <1>5, <1>9, <1>10 DEF QL, QM, R, V, full, n, P

\* The invariants hand every subtrace to the lemma above.
LEMMA TimeConserved ==
  ASSUME ModelInv, SearchInv, TimesInv
  PROVE  SublayersConserveTime
<1> SUFFICES ASSUME pc = "done", NEW a \in DOMAIN sublayers
             PROVE  LET S == ToSet(subtraces[a])
                        time == Cardinality(Running(S))
                        services == sublayers[a].byService
                    IN  /\ Precision * SumOf(services, "most") <= (Precision + 1) * time
                        /\ Precision * SumOf(sublayers[a].byType, "most") <= (Precision + 1) * time
                        /\ Parents(root) \intersect S = {} /\ time > 0 =>
                              (Precision - 1) * time <
                                Precision * (SumOf(services, "least") + Cardinality(DOMAIN services))
  BY DEF SublayersConserveTime
<1> DEFINE S == ToSet(subtraces[a])
<1>1. /\ t \in Seq(Spans) /\ Len(t) \in Nat /\ DOMAIN t = 1 .. Len(t) /\ DistinctIDs
      /\ \A i \in DOMAIN t : t[i] \in Spans
  BY DEF ModelInv
<1>2. root \in DOMAIN t
  BY DEF SearchInv
<1>3. a \in DOMAIN subtraces /\ sublayers[a] = ComputeSublayers(S)
  BY DEF TimesInv
<1>4. a \in Descendants(root) /\ S = Descendants(a)
  BY <1>3 DEF SearchInv, SubtracesAreDescendants
<1>5. S \in SUBSET DOMAIN t
  <2>1. a \in DOMAIN t
    BY <1>2, <1>4, DescendantsClosed
  <2> QED
    BY <1>4, <2>1, DescendantsClosed
<1> HIDE DEF S
<1>6. /\ SumOf(sublayers[a].byService, "least") = SumFunction(Given(S, "service", "least"))
      /\ SumOf(sublayers[a].byService, "most") = SumFunction(Given(S, "service", "most"))
      /\ SumOf(sublayers[a].byType, "most") = SumFunction(Given(S, "type", "most"))
      /\ DOMAIN sublayers[a].byService = Attributes(S, "service")
  <2> DEFINE A == DurationByAttr(S, "service")
             B == DurationByAttr(S, "type")
  <2>1. /\ sublayers[a].byService = [v \in DOMAIN A |-> CutToInt64(A[v])]
        /\ sublayers[a].byType = [v \in DOMAIN B |-> CutToInt64(B[v])]
    BY <1>3 DEF ComputeSublayers
  <2>2. DOMAIN A = Attributes(S, "service")
    BY DEF DurationByAttr
  <2>3. \A bound : /\ SumOf(sublayers[a].byService, bound) = SumFunction(Given(S, "service", bound))
                   /\ SumOf(sublayers[a].byType, bound) = SumFunction(Given(S, "type", bound))
    BY <2>1 DEF SumOf, Given
  <2> QED
    BY <2>1, <2>2, <2>3
<1>7. IsFiniteSet(DOMAIN t) /\ Cardinality(DOMAIN t) = Len(t)
  <2>1. IsFiniteSet(1 .. Len(t)) /\ Cardinality(1 .. Len(t)) = IF 1 > Len(t) THEN 0 ELSE Len(t) - 1 + 1
    BY <1>1, FS_Interval
  <2> QED
    BY <1>1, <2>1
<1>8. IsFiniteSet(S) /\ Cardinality(S) <= Len(t) /\ Cardinality(S) \in Nat
  BY <1>5, <1>7, FS_Subset, FS_CardinalityType
<1>9. Divided(S)
  <2>1. \A n \in 1 .. Cardinality(S) : n \in 1 .. Len(t)
    BY <1>1, <1>8
  <2>2. \A n \in 1 .. Len(t) : Scale % n = 0
    BY DEF TimesInv
  <2> QED
    BY <2>1, <2>2, ScaleAssumption DEF Divided
<1>10. Timed(S)
  <2> SUFFICES ASSUME NEW i \in S
               PROVE  /\ t[i].start \in Int /\ End(t[i]) \in Int
                      /\ Year2000 <= t[i].start /\ End(t[i]) <= Latest
    BY DEF Timed
  <2>1. i \in DOMAIN t /\ t[i].start \in Int /\ t[i].duration \in Int
    BY <1>1, <1>5 DEF Spans
  <2>2. End(t[i]) \in Int
    BY <2>1, EndInt
  <2> QED
    BY <2>1, <2>2 DEF TimesInv
<1>11. \A i \in S : t[i]["service"] # ""
  BY <1>5 DEF TimesInv
<1>12. /\ Precision * SumFunction(Given(S, "service", "most"))
                <= (Precision + 1) * Cardinality(Running(S))
       /\ (/\ NeverIdle(S, Timestamps(S)) /\ (\A i \in S : t[i]["service"] # "")
           /\ Cardinality(Running(S)) > 0)
          => (Precision - 1) * Cardinality(Running(S))
                < Precision * (SumFunction(Given(S, "service", "least"))
                                + Cardinality(Attributes(S, "service")))
  BY <1>8, <1>9, <1>10, TimeGiven
<1>13. Precision * SumFunction(Given(S, "type", "most"))
            <= (Precision + 1) * Cardinality(Running(S))
  BY <1>8, <1>9, <1>10, TimeGiven
<1>14. Parents(root) \cap S = {} => NeverIdle(S, Timestamps(S))
  BY <1>1, <1>2, <1>4, SubtraceNeverIdle
<1>15. /\ Precision * SumOf(sublayers[a].byService, "most")
                <= (Precision + 1) * Cardinality(Running(S))
       /\ Precision * SumOf(sublayers[a].byType, "most")
                <= (Precision + 1) * Cardinality(Running(S))
       /\ Parents(root) \cap S = {} /\ Cardinality(Running(S)) > 0 =>
             (Precision - 1) * Cardinality(Running(S))
                < Precision * (SumOf(sublayers[a].byService, "least")
                                + Cardinality(DOMAIN sublayers[a].byService))
  BY <1>6, <1>11, <1>12, <1>13, <1>14
<1> QED
  BY <1>15, Zenon DEF S

\* ComputeSublayers hands out the time a subtrace runs, never more of it than there is
\* but for the relative error of float64 sums, neither to services nor to types, and to
\* the services all of it but for that error and the cut of each value to an integer,
\* unless the subtrace closes a cycle: for any traces, spans that end before they start
\* or outlive their parents included, and any precision of the sums.
THEOREM SublayersCorrect == ModelSpec => []SublayersConserveTime
<1>1. ModelInit => ModelInv /\ SearchInv /\ TimesInv
  <2>1. ModelInit => ModelInv /\ SearchInv
    BY InputsAssumption
    DEF ModelInit, ModelInv, RootIsAnOrphan, SearchInv, SubtracesAreDescendants
  <2>2. ModelInit => TimesInv
    BY ScaleAssumption DEF ModelInit, TimesInv
  <2> QED
    BY <2>1, <2>2
<1>2. ModelInv /\ SearchInv /\ TimesInv /\ [ModelNext]_modelVars
        => ModelInv' /\ SearchInv' /\ TimesInv'
  BY ModelStep, SearchStep, TimesStep
<1>3. ModelInv /\ SearchInv /\ TimesInv => SublayersConserveTime
  BY TimeConserved
<1> QED
  BY <1>1, <1>2, <1>3, PTL DEF ModelSpec
=============================================================================
