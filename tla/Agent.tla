------------------------------- MODULE Agent -------------------------------
(***************************************************************************)
(* The agent as a whole: the handlers of the HTTP receiver, the counters   *)
(* they share with the main loop and with the goroutine that publishes and *)
(* resets them, the channel of raw traces, Process and the goroutines it   *)
(* starts, all of it also while the nine components are being stopped.     *)
(* The components that have modules of their own are seen from outside: a  *)
(* writer takes what it is sent while it runs, the concentrator takes      *)
(* additions at any time, a Stop takes its time (module Shutdown).         *)
(*                                                                         *)
(* A request is one of Requests, with what is in it; how decoding it ends, *)
(* and what the pre-sampler, the clock, the filters and the engines of     *)
(* the samplers decide, is left open.  The goroutine of the service        *)
(* extractor and the services are in ServicePipeline, as is the writer of  *)
(* services; the counter of spans goes with that of traces, and that of    *)
(* the bytes of services with that of services.                            *)
(***************************************************************************)
EXTENDS Integers, Sequences, FiniteSets, Functions

CONSTANTS
    Requests,       \* request -> [services, tags, bytes, traces]
    Traces,         \* trace -> [valid, priority, error, analyzed, byRate]
    Extractor,      \* "disabled", "analyzed" or "legacy"
    RawCapacity,    \* capacity of rawTraceChan
    MaxRounds       \* bound: rounds of logStats

\* A trace stands for one that was received once: it is in one place of one request.
ASSUME RequestsAssumption ==
    /\ IsFiniteSet(DOMAIN Requests)
    /\ \A r \in DOMAIN Requests :
        /\ Requests[r].bytes \in Nat
        /\ Requests[r].traces \in Seq(DOMAIN Traces)
    /\ \A r1, r2 \in DOMAIN Requests :
        \A k1 \in DOMAIN Requests[r1].traces, k2 \in DOMAIN Requests[r2].traces :
            Requests[r1].traces[k1] = Requests[r2].traces[k2] => r1 = r2 /\ k1 = k2
ASSUME TracesAssumption == IsFiniteSet(DOMAIN Traces)
ASSUME BoundsAssumption == RawCapacity \in Nat /\ MaxRounds \in Nat

\* The counters of a TagStats.
Counters == {"received", "dropped", "filtered", "priority", "bytes", "services"}
NoCounts == [c \in Counters |-> 0]

VARIABLES
    handler,        \* request -> [pc, ts, left]
    stats,          \* ReceiverStats.Stats: tags -> record
    records,        \* the TagStats that were ever created
    raw,            \* rawTraceChan
    main,           \* the goroutine of Run: [pc, trace, ts]
    sampling,       \* trace -> [todo, sampled], the goroutines that sample
    passed,         \* the traces given to the concentrator
    sending,        \* SampledTraces of goroutines blocked on sampledTraceChan
    written,        \* SampledTraces the trace writer received
    kept,           \* trace -> the samplers that kept it
    running,        \* components that were not stopped
    logger,         \* the goroutine of logStats: [pc, rounds]
    published,      \* totals sent to statsd
    counted,        \* totals of all increments
    raced           \* something was counted where it will never be published

statVars == <<stats, records, counted, raced>>
logVars == <<logger, published>>
traceVars == <<sampling, passed, sending, written, kept>>
vars == <<handler, raw, main, running, statVars, logVars, traceVars>>

\* The components, in the order in which Run stops them.
StopOrder ==
    <<"receiver", "concentrator", "trace writer", "stats writer", "service mapper",
      "service writer", "score sampler", "errors sampler", "priority sampler">>

NewHTTPReceiver ==
    /\ handler = [r \in DOMAIN Requests |-> [pc |-> "idle", ts |-> 0, left |-> <<>>]]
    /\ stats = <<>>
    /\ records = <<>>
    /\ logger = [pc |-> "wait", rounds |-> 0]

Init ==
    /\ NewHTTPReceiver
    /\ raw = <<>>
    /\ main = [pc |-> "select", trace |-> 0, ts |-> 0]
    /\ sampling = <<>>
    /\ passed = {}
    /\ sending = {}
    /\ written = {}
    /\ kept = [t \in DOMAIN Traces |-> {}]
    /\ running = Range(StopOrder)
    /\ published = NoCounts
    /\ counted = NoCounts
    /\ raced = FALSE

-----------------------------------------------------------------------------
(* The counters.                                                            *)

Plus(a, b) == [c \in Counters |-> a[c] + b[c]]
Count(c, n) == [NoCounts EXCEPT ![c] = n]

\* GetTagStats leaves its caller with a pointer, which outlives the lock.
GetTagStats(tags, ts) ==
    IF tags \in DOMAIN stats
    THEN ts = stats[tags] /\ UNCHANGED <<stats, records>>
    ELSE /\ ts = Len(records) + 1
         /\ records' = Append(records, NoCounts)
         /\ stats' = [x \in DOMAIN stats \union {tags} |->
                        IF x = tags THEN Len(records) + 1 ELSE stats[x]]

\* atomic.AddInt64, without the lock.  It is in vain on a record that is not in
\* the map any more, or if it was published and is not yet reset.
Add(ts, n) ==
    /\ records' = [records EXCEPT ![ts] = Plus(@, n)]
    /\ counted' = Plus(counted, n)
    /\ raced' = (raced \/ ts \notin Range(stats) \/ logger.pc = "reset")
    /\ UNCHANGED stats

Live(c) == SumFunction([ts \in Range(stats) |-> records[ts][c]])
LiveCounts == [c \in Counters |-> Live(c)]

\* Only the bytes of traces say whether a record is empty.
isEmpty(n) == n["bytes"] = 0

\* Records that are empty by their bytes are not sent.
PublishNonEmpty ==
    [c \in Counters |->
        SumFunction([ts \in Range(stats) |->
                        IF isEmpty(records[ts]) THEN 0 ELSE records[ts][c]])]
PublishAll == LiveCounts

\* The accumulation in accStats, for expvar, is left out.
Publish ==
    /\ logger.pc = "wait"
    /\ logger.rounds < MaxRounds
    /\ published' = Plus(published, PublishAll)
    /\ logger' = [pc |-> "reset", rounds |-> logger.rounds + 1]
    /\ UNCHANGED <<handler, raw, main, running, statVars, traceVars>>

\* Records without traces are deleted, and all of them set to zero.
Reset ==
    /\ logger.pc = "reset"
    /\ stats' = [tags \in {x \in DOMAIN stats : ~isEmpty(records[stats[x]])} |-> stats[tags]]
    /\ records' = [ts \in DOMAIN records |->
                    IF ts \in Range(stats) THEN NoCounts ELSE records[ts]]
    /\ logger' = [logger EXCEPT !.pc = "wait"]
    /\ UNCHANGED <<handler, raw, main, running, counted, raced, traceVars, published>>

-----------------------------------------------------------------------------
(* The receiver.                                                            *)

HandlerUnchanged == UNCHANGED <<main, running, logVars, traceVars>>

\* Nothing of a payload of traces is read when the pre-sampler drops it.
PreSampledOut(r) ==
    /\ ~Requests[r].services
    /\ handler' = [handler EXCEPT ![r].pc = "returned"]

\* The version of the API does not take the content type, or the body is longer
\* than the limit, or cannot be decoded, or its content type makes the decoder
\* panic, which the HTTP server recovers from.
Refused(r) == handler' = [handler EXCEPT ![r].pc = "returned"]

Decoded(r) ==
    handler' = [handler EXCEPT ![r].pc = "stats", ![r].left = Requests[r].traces]

\* The server has the handlers and serves, until it is shut down.
Serving == "receiver" \in running

Handle(r) ==
    /\ handler[r].pc = "idle"
    /\ Serving
    /\ PreSampledOut(r) \/ Refused(r) \/ Decoded(r)
    /\ UNCHANGED <<raw, statVars>>
    /\ HandlerUnchanged

HandlerGetStats(r) ==
    /\ handler[r].pc = "stats"
    /\ \E ts \in 1 .. Len(records) + 1 :
        /\ GetTagStats(Requests[r].tags, ts)
        /\ handler' = [handler EXCEPT ![r].ts = ts,
                            ![r].pc = IF Requests[r].services THEN "services" ELSE "bytes"]
    /\ UNCHANGED <<raw, counted, raced>>
    /\ HandlerUnchanged

AfterTrace(r) == IF Len(handler[r].left) <= 1 THEN "returned" ELSE "trace"

HandlerCountBytes(r) ==
    /\ handler[r].pc = "bytes"
    /\ Add(handler[r].ts, Count("bytes", Requests[r].bytes))
    /\ handler' = [handler EXCEPT ![r].pc = IF handler[r].left = <<>> THEN "returned" ELSE "trace"]
    /\ UNCHANGED raw
    /\ HandlerUnchanged

HandlerReceiveTrace(r) ==
    /\ handler[r].pc = "trace"
    /\ Add(handler[r].ts, Count("received", 1))
    /\ handler' = [handler EXCEPT ![r].pc = "normalize"]
    /\ UNCHANGED raw
    /\ HandlerUnchanged

HasRoom == Len(raw) < RawCapacity

\* A valid trace waits for room.
HandlerSendTraceBlocks(r) ==
    /\ handler[r].pc = "normalize"
    /\ LET trace == Head(handler[r].left)
       IN  IF Traces[trace].valid
           THEN HasRoom /\ raw' = Append(raw, trace) /\ UNCHANGED statVars
           ELSE Add(handler[r].ts, Count("dropped", 1)) /\ UNCHANGED raw
    /\ handler' = [handler EXCEPT ![r].left = Tail(@), ![r].pc = AfterTrace(r)]
    /\ HandlerUnchanged

\* A trace that is not normalized, or finds the channel full, is dropped.
HandlerSendTrace(r) ==
    /\ handler[r].pc = "normalize"
    /\ LET trace == Head(handler[r].left)
       IN  IF Traces[trace].valid /\ HasRoom
           THEN raw' = Append(raw, trace) /\ UNCHANGED statVars
           ELSE Add(handler[r].ts, Count("dropped", 1)) /\ UNCHANGED raw
    /\ handler' = [handler EXCEPT ![r].left = Tail(@), ![r].pc = AfterTrace(r)]
    /\ HandlerUnchanged

\* The send on serviceChan that ends the handler is in ServicePipeline.
HandlerCountServices(r) ==
    /\ handler[r].pc = "services"
    /\ Add(handler[r].ts, Count("services", 1))
    /\ handler' = [handler EXCEPT ![r].pc = "returned"]
    /\ UNCHANGED raw
    /\ HandlerUnchanged

-----------------------------------------------------------------------------
(* The main loop and Process.                                               *)

MainUnchanged == UNCHANGED <<handler, running, logVars>>

TakeTrace ==
    /\ main.pc = "select"
    /\ raw # <<>>
    /\ main' = [main EXCEPT !.pc = "stats", !.trace = Head(raw)]
    /\ raw' = Tail(raw)
    /\ UNCHANGED <<statVars, traceVars>>
    /\ MainUnchanged

\* The counters of no tags.
ProcessGetStats ==
    /\ main.pc = "stats"
    /\ \E ts \in 1 .. Len(records) + 1 :
        /\ GetTagStats("", ts)
        /\ main' = [main EXCEPT !.pc = "priority", !.ts = ts]
    /\ UNCHANGED <<raw, counted, raced, traceVars>>
    /\ MainUnchanged

ProcessCountPriority ==
    /\ main.pc = "priority"
    /\ Add(main.ts, Count("priority", 1))
    /\ main' = [main EXCEPT !.pc = "check"]
    /\ UNCHANGED <<raw, traceVars>>
    /\ MainUnchanged

\* The return is missing.
ProcessSkipsAndGoesOn(counter) ==
    /\ main.pc = "check"
    /\ Add(main.ts, Count(counter, 1))
    /\ UNCHANGED <<main, raw, traceVars>>
    /\ MainUnchanged

\* The root is too old, or a filter rejects it.
ProcessSkips(counter) ==
    /\ main.pc = "check"
    /\ Add(main.ts, Count(counter, 1))
    /\ main' = [main EXCEPT !.pc = "select"]
    /\ UNCHANGED <<raw, traceVars>>
    /\ MainUnchanged

HasPriority(trace) == Traces[trace].priority # "none"
Samplers(trace) ==
    (IF Traces[trace].error THEN {"errors"} ELSE {"score"})
        \union (IF HasPriority(trace) THEN {"priority"} ELSE {})

\* TransactionSampler.Extract finds a span.
Extracts(trace) ==
    CASE Extractor = "disabled" -> FALSE
      [] Extractor = "analyzed" ->
            /\ Traces[trace].analyzed
            /\ Traces[trace].priority = "2" \/ Traces[trace].byRate
      [] Extractor = "legacy" -> Traces[trace].analyzed /\ Traces[trace].byRate

\* Everything goes to the concentrator, whose Add is in the goroutine of the
\* caller, and what has no negative priority to the samplers.
ProcessPassesOn ==
    /\ main.pc = "check"
    /\ passed' = passed \union {main.trace}
    /\ sampling' = IF Traces[main.trace].priority = "negative" THEN sampling
                   ELSE [t \in DOMAIN sampling \union {main.trace} |->
                            IF t = main.trace
                            THEN [todo |-> Samplers(t), sampled |-> FALSE]
                            ELSE sampling[t]]
    /\ main' = [main EXCEPT !.pc = "select"]
    /\ UNCHANGED <<raw, statVars, sending, written, kept>>
    /\ MainUnchanged

GoroutineUnchanged == UNCHANGED <<handler, raw, main, statVars, logVars>>

\* sampled = s.Add(pt) || sampled
LastDecides(before, keeps) == keeps
AnyDecides(before, keeps) == before \/ keeps

SamplerAdd(t) ==
    /\ t \in DOMAIN sampling
    /\ \E s \in sampling[t].todo, keeps \in BOOLEAN :
        /\ s = "priority" => sampling[t].todo = {s}
        /\ kept' = IF keeps THEN [kept EXCEPT ![t] = @ \union {s}] ELSE kept
        /\ sampling' = [sampling EXCEPT ![t].todo = @ \ {s},
                                        ![t].sampled = AnyDecides(@, keeps)]
    /\ UNCHANGED <<passed, sending, written, running>>
    /\ GoroutineUnchanged

\* All samplers have answered; an empty SampledTrace is not sent.
ExtractTransactions(t) ==
    /\ t \in DOMAIN sampling
    /\ sampling[t].todo = {}
    /\ sampling' = [x \in DOMAIN sampling \ {t} |-> sampling[x]]
    /\ sending' = IF sampling[t].sampled \/ Extracts(t)
                  THEN sending \union {[trace |-> t, full |-> sampling[t].sampled]} ELSE sending
    /\ UNCHANGED <<passed, written, kept, running>>
    /\ GoroutineUnchanged

WriterReceive(t) ==
    /\ "trace writer" \in running
    /\ \E x \in sending :
        /\ x.trace = t
        /\ sending' = sending \ {x}
        /\ written' = written \union {x}
    /\ UNCHANGED <<sampling, passed, kept, running>>
    /\ GoroutineUnchanged

-----------------------------------------------------------------------------
(* Shutdown.                                                                *)

StopMain(i) == [main EXCEPT !.pc = IF i > Len(StopOrder) THEN "returned" ELSE "stop",
                            !.trace = i]

\* ctx.Done, at any time the loop is in its select.
Cancelled ==
    /\ main.pc = "select"
    /\ main' = StopMain(1)
    /\ UNCHANGED <<handler, raw, running, statVars, logVars, traceVars>>

\* The Stop of the next component returns; Shutdown has what it may wait for.
StopComponent ==
    /\ main.pc = "stop"
    /\ running' = running \ {StopOrder[main.trace]}
    /\ main' = StopMain(main.trace + 1)
    /\ UNCHANGED <<handler, raw, statVars, logVars, traceVars>>

-----------------------------------------------------------------------------
HandlerStep(r) ==
    \/ HandlerGetStats(r) \/ HandlerCountBytes(r) \/ HandlerReceiveTrace(r)
    \/ HandlerSendTrace(r) \/ HandlerCountServices(r)
ProcessStep ==
    \/ ProcessGetStats \/ ProcessCountPriority
    \/ ProcessSkips("dropped") \/ ProcessSkips("filtered") \/ ProcessPassesOn
GoroutineStep(t) ==
    SamplerAdd(t) \/ ExtractTransactions(t) \/ WriterReceive(t)

Next ==
    \/ \E r \in DOMAIN Requests : Handle(r) \/ HandlerStep(r)
    \/ TakeTrace \/ ProcessStep \/ Cancelled \/ StopComponent
    \/ Publish \/ Reset
    \/ \E t \in DOMAIN Traces : GoroutineStep(t)

Spec == Init /\ [][Next]_vars

\* The scheduler runs every goroutine that can go on.  The main loop is not said
\* to take traces: Process may be slow.
FairSpec ==
    /\ Spec
    /\ \A r \in DOMAIN Requests : WF_vars(HandlerStep(r))
    /\ WF_vars(ProcessStep)
    /\ \A t \in DOMAIN Traces : WF_vars(GoroutineStep(t))

-----------------------------------------------------------------------------
(* Properties.                                                              *)

\* Every trace counted as received is, at any time, in a handler, in the channel,
\* in Process, or counted as dropped or filtered, or was passed on, once: no
\* path of the receiver and of Process counts twice or forgets to count.
TracesAccountedFor ==
    counted["received"] =
        Cardinality({r \in DOMAIN Requests : handler[r].pc = "normalize"})
            + Len(raw) + (IF main.pc \in {"stats", "priority", "check"} THEN 1 ELSE 0)
            + counted["dropped"] + counted["filtered"] + Cardinality(passed)

\* What logStats publishes was counted, and counted once; counts are lost only
\* when a handler or Process adds between Publish and Reset, or adds to a record
\* that Reset has deleted.
CountsLostOnlyInRace ==
    \A c \in Counters :
        /\ logger.pc # "reset" => published[c] + Live(c) <= counted[c]
        /\ logger.pc # "reset" /\ ~raced => published[c] + Live(c) = counted[c]

\* The trace writer is offered a trace exactly if one of its samplers kept it, or
\* the transactions of it if there are any, and nothing of a trace with a
\* negative priority, whose statistics are computed all the same.
WrittenIffKept ==
    /\ \A x \in sending \union written :
        /\ x.trace \in passed
        /\ Traces[x.trace].priority # "negative"
        /\ x.full <=> kept[x.trace] # {}
    /\ \A t \in passed \ DOMAIN sampling :
        Traces[t].priority # "negative" /\ (kept[t] # {} \/ Extracts(t)) =>
            \E x \in sending \union written : x.trace = t

\* The handler of a payload of traces returns although nobody may read the
\* channel: a slow agent must not block its clients.
HandlersReturn ==
    \A r \in DOMAIN Requests :
        ~Requests[r].services /\ handler[r].pc = "stats" ~> handler[r].pc = "returned"
=============================================================================
