# A TLA+ model of the Datadog trace agent

The trace agent receives traces from client libraries over HTTP, computes
statistics over all of them, keeps a sample of them, and forwards sampled
traces, statistics and service metadata to the Datadog intake. It is a pipeline
of goroutines that talk over channels and share a few structures under mutexes.
This directory holds TLA+ modules of it, the TLC configurations that check them,
and proofs that TLAPS checks. `PROJECT.json` maps every definition that
models code to its lines, lists the runs, the hazards and the theorems.

Run a model with `tlc -workers 2 -config TraceWriter.cfg MCTraceWriter` and the
proofs of a module with `tlapm PayloadSenderProofs.tla`.

## 1. Inventory

```
 clients -> RateLimitedListener -> HTTPReceiver --traces (5000)--> Agent.Process
                                     |  ^ rates by service            |  |  |
                              services (50)                           |  |  goroutine: Sampler(s) -> sampledTraceChan -> TraceWriter
                                     v                                |  goroutine: Concentrator.Add ; Flush -> statsChan -> StatsWriter
                                ServiceMapper <--services (50)-- TraceServiceExtractor
                                     | (50)
                                     v
                                ServiceWriter          every writer owns a QueuablePayloadSender -> endpoint
```

| Component | Source | State | Operations | What makes it hard, and what makes it correct |
|---|---|---|---|---|
| Payload sender | `writer/payload.go`, `endpoint.go`, `datadog_endpoint.go` | queue, its byte size, `queuing`, backoff timer, channels `in`, `monitor`, `exit` | `Run`, `Send`, `sendOrQueue`, `enqueue`, `flushQueue`, `discardOldPayloads`, `dropOldestPayload`, `Stop` | retriable failures in the middle of a flush, three limits, timer goroutines, stop at any time. No payload is lost, repeated or reordered; the queue is never stranded; `Stop` returns |
| Backoff timer | `backoff/` | number of retries, delay, `time.Timer`, tick channel | `ScheduleRetry`, `ReceiveTick`, `Reset`, `Stop` | integer overflow after many retries, timer goroutines that outlive `Stop`. The delay is positive and bounded |
| Trace writer | `writer/trace_writer.go` | buffer of traces and transactions, `spansInBuffer`, counters | `Run`, `handleSampledTrace`, `flush`, `updateInfo`, `Stop` | forced flushes, marshalling errors, concurrent counter swaps. Payloads are what came in, within the limit, and counted once |
| Stats writer | `writer/stats_writer.go` | nothing between flushes | `handleStats`, `buildPayloads`, `monitor`, `Stop` | splitting into payloads in random map order, merges, rounding. Counts are conserved and payloads bounded |
| Service mapper and writer | `cmd/trace-agent/service_mapper.go`, `trace_service_extractor.go`, `writer/service_writer.go` | cache, two bounded channels, buffer | `update`, `handleServiceMetadata`, `flush`, two `Stop`s | two producers, two channels, blocking sends against exit. Metadata is only upgraded and is flushed |
| Concentrator | `cmd/trace-agent/concentrator.go` | a bucket per time window | `Add`, `Flush`, `Run`, `Stop` | `Add` on goroutines of its own, a clock read before a lock, a blocking send at exit. Spans are counted once, in their window, and on-time spans find it open |
| Agent | `cmd/trace-agent/agent.go`, `transaction_sampler.go` | channels between the parts, goroutines per trace | `Process`, `Run` (select and shutdown order), watchdog | the shutdown runs while handlers and goroutines still hold traces. Every trace is accounted for, the writer is offered what a sampler kept, the shutdown completes and panics nobody it waited for |
| Priority sampler | `sampler/prioritysampler.go`, `memory_backend.go`, `catalog.go`, `config/ratebyservice.go` | catalog, scores, totals, published rates | `Sample`, `getRateByService`, decay | two locks taken one after the other, decay and pruning in between. Only deleted scores separate the total from the sum of the scores; silent services disappear |
| Score samplers | `sampler/scoresampler.go`, `coresampler.go`, `adjust.go`, `cmd/trace-agent/sampler.go` | backend, offset, slope, unsynchronised counters | `Sample`, `AdjustScoring`, statistics | feedback on floats; races on counters |
| Receiver | `cmd/trace-agent/receiver.go` | trace channel, counters | `handleTraces`, `handleServices`, `logStats`, `Stop` | back pressure of a bounded channel. A slow agent never blocks its clients, and what it drops is counted |
| Receiver statistics | `info/stats.go`, `info/info.go` | counters per tag set | increments, publish, reset | records handed out by pointer, incremented without the lock, published, zeroed and deleted. Counts are lost only in that window |
| Admission | `sampler/presampler.go`, `cmd/trace-agent/listener.go` | pre-sampling rate and decaying counts, connection lease | `Sample`, `decayScore`, `CalcPreSampleRate`, `Accept`, `Refresh` | check, wait and decrement against a refresh; averages that decay. The limits hold |
| Trace model | `model/trace.go`, `top_level.go`, `sublayers.go`, `normalizer.go` | none | root of a trace, top-level spans, subtraces, sublayers, normalisation | cycles, missing or several roots, random map order, shared slices, overflow of end times. Results agree with definitions by reachability and by counting |
| Wire format | `model/span.pb.go`, `trace.pb.go`, `trace_payload.pb.go` | none | `Size`, `MarshalTo`, `Unmarshal`, skip | lengths computed apart from the bytes, unknown fields, truncated data. What is written is read back |
| JSON obfuscator | `obfuscate/json.go`, `json_scanner.go` | the scanner, a stack of closures, the key being kept | `obfuscate`, 32 scanner states | one object for all spans. Values outside kept keys are hidden |
| Quantiles | `quantile/` | a compressed summary | insert, merge, quantile | error bound under compression and merge |
| Filters, other obfuscation, configuration, watchdog, logging, command line | `filters/`, `obfuscate/`, `config/`, `watchdog/`, `cmd/trace-agent/main.go` | none, or read once | string and file work | left out, see section 8 |

The msgpack code is generated, `vendor/` is third-party and `fixtures` are test
data: all three are left aside. The generated protobuf code is modelled, because
every trace leaves the agent through it.

## 2. Modules

| Module | Models |
|---|---|
| `Agent` | the composition: handlers, counters, trace channel, main loop, sampling goroutines |
| `Shutdown` | the nine `Stop`s of `Agent.Run` with the goroutines, channels and wait groups they depend on |
| `PayloadSender` | the payload sender with its timer, monitor, caller of `Stop` and endpoint |
| `RetryLedger` | what a sender promises: an ordered ledger of payloads (abstract) |
| `...Proofs` | theorems about the module of that name; `AgentProofs` holds those about `TraceModel` too, `ControlProofs` those about `BackoffTimer`, `Admission` and `PrioritySampler` |
| `SumTheorems` | lemmas about sums over finite sets and over sequences and about least numbers, for the proofs |
| `BackoffTimer` | the exponential timer, with integer width |
| `Admission` | the rate limited listener, and the pre-sampler with the watchdog |
| `TraceWriter`, `StatsWriter` | the two writers |
| `ServicePipeline` | producers, mapper, both channels and the service writer |
| `Concentrator` | the concentrator with the part of `Agent.Process` that feeds it |
| `PrioritySampler` | the priority engine with backend, catalog and published rates |
| `TraceModel` | normalisation, root, top-level spans, subtraces, sublayers of one trace |
| `ProtoCodec` | the generated encoding and decoding of the payload |
| `JsonObfuscator` | the JSON scanner and obfuscator, with a reference grammar |
| `MC...` | sets of values for TLC; `MCControl` and `MCModel` put independent parts into one run |

All modules cut a goroutine into steps where another actor may come in: a
channel operation, a lock, a clock reading, a call of the endpoint. `pc` (or
`mapper`, `writer`, `sync`) says where the goroutine is, `stop` how far the
caller of `Stop` is: `"no"`, `"waiting"` after `close(exit)`, `"stopped"` once
the wait group let it through because `Run` has returned.

`Stop` may be called at any time after `Start`. The writers, the sender and the
concentrator enter their wait group inside `Run`, on the goroutine that `Start`
launches, so a `Stop` that comes before that goroutine has begun does not wait for
it. Every module has this schedule: `stop` is then `"overtook"` (`"stopped"` in
`PayloadSender`, whose properties do not tell the two apart), `Run` may begin
afterwards, and a writer that then sends finds the channel of its sender closed and
panics (`SendPanics`, `PayloadPanics`, `pc = "panic"`). The properties about `Stop`
say what holds of a `Stop` that waited and what is left of it otherwise. An unbuffered channel is a rendezvous: the sender
holds the value in a variable (`sending`, `event`, `outgoing`, a `pc` of
`"send"`) until the receiver's action takes it.

**PayloadSender.** `sending` is the payload that a blocked `Send` holds;
`inHand` the argument of `sendOrQueue`; `queuedPayloads`, `queuing` and
`currentQueuedSize` are the fields of the struct; `armed` says that the backoff
timer is scheduled and `ticking` counts the timer goroutines blocked on its
channel; `event` is the event a `notify*` call is blocked on. `discard` with
`then` is the loop of `discardOldPayloads`, called from `enqueue`, from a tick
and from the exit. A write to the endpoint succeeds, fails for good or fails in
a retriable way, and in the last two cases the payload may have reached the
endpoint or not. A payload is an id, a size and a creation date.

**BackoffTimer.** `int64` becomes `Width` bits; multiplication wraps, division
truncates, the conversion of an out-of-range float yields the smallest integer
as on amd64. `math.Pow` is a recursive function on integers (`Power`), without the
rounding of float64; a negative power, of a negative growth base, is clamped like one
that is too large. Every configuration of `Configs` is explored.

**TraceWriter.** The buffer is the sequence of samples it was filled from;
`flush` has three ends (nothing to send, marshalling error, payload taken) and
returns to the place `then`, as it is called from four places. `UpdateInfo` is
the goroutine of `updateInfoTicker`.

**StatsWriter.** A bucket is a window and a set of keys, so that counts are
numbers per window and key. `PlaceEntry` is one iteration over a map, in any
order of its keys. `MergeCount` keeps the old count, as the code drops the
result of `Merge`.

**ServicePipeline.** The metadata of a service is what `shouldAdd` tells apart:
none, a type found in a span, or metadata with the key of the services API.

**Concentrator.** A trace is the sequence of the end times of its top-level
spans. `Process` applies the cut-off to the root; `Add` comes any time later;
`FlushTick` reads the clock and `Flush` runs under the mutex. The ticker drops a
tick when the last one was not received and may have any phase.

**PrioritySampler.** Sampling goroutines register, unlock, and count in
separate steps; the publishing loop reads the rates and prunes the catalog under
`catalogMu`. Scores are exact fractions, integers over the variable `scale`: a trace
counts `scale`, and a decay by `FactorN / FactorD` multiplies `scale` by the numerator
and a score by the denominator. The code divides float64, each operation with a
relative error of 2^-53; that error is not modelled, so the equality `TotalConserved`
is one of exact arithmetic. `forgotten` is a history variable: what the scores that
were deleted would be worth today.

**Agent.** A handler goes through the labels of `handleTraces` or
`handleServices`, one step per operation on shared state. A `TagStats` is a
number, as the code hands out pointers: `GetTagStats` takes the lock, the
increments (`Add`) do not, `Publish` and `Reset` are two critical sections, so
that an increment may fall between them or on a record already deleted (`raced`).
The counters that always move together are one counter: traces and spans,
services and their bytes, the five of the priorities. `Process` starts the
goroutine that asks the samplers; the decision of each sampler, of the clock and
of the filters is open. The writer takes what it is sent until it is stopped. Here the
shutdown only matters for what it takes away from handlers and goroutines: each
`Stop` is one step, in the order of the code. What a `Stop` waits for is in `Shutdown`.

**Shutdown.** `main` is at one of the nine `Stop`s, and there at `close(exit)`, at the
wait, or, for a writer, at the `Stop` of its sender. `concentrator`, `mapper` and
`writer[w]` say where the goroutines are: in their `select`, blocked on a channel, done
or not begun. What they block on is modelled, not what they wait for in an abstract
sense: the concentrator on the unbuffered channel that only the stats writer reads, the
mapper on a channel that only the service writer reads, a writer on the channel of its
sender, which is closed once the sender is stopped. Handlers and sampling goroutines are
not waited for and may always have something for the mapper and the trace writer.
`Server.Shutdown` returns by its deadline. The `Stop` of a sampler closes channels only.

**Admission.** `Accept` is called by one goroutine: it checks the lease, waits,
and decrements. A rate is a fraction; the counters of traces share a denominator,
`unit`, which every decay multiplies by 9, so that the decay by 9/8 is exact where
the code uses float64. The watchdog
reads the real rate and sets the new one in two steps.

**TraceModel.** One trace goes through `NormalizeTrace`, `GetRoot`,
`ComputeTopLevel`, the search of `ExtractTopLevelSubtraces` and `ComputeSublayers`.
Pointers are positions. `heap` holds the arrays behind the slices
of ancestors, so that an `append` in place is seen through every slice that
shares the array. The end of a span is an `int64` and wraps beyond `MaxInt64`. A span may
come with the mark of a top-level span set by its client (`client`).
Durations are sums of float64 portions, cut to integers. The exact sum is a multiple of
`1 / Scale`, because `Scale` is divided by every number of spans that may share an
interval; the float64 sum is off by a relative error of at most `1 / Precision`
(`n` roundings of positive numbers leave `Precision` above 2^52 / (n + 2)). Which integer
the cut yields depends on the roundings, so a value is the interval of integers it may be
(`CutToInt64`): ten portions of a tenth are 0 or 1. The properties speak of what can be
reached from a span (`Closure`, the least set closed under a step).

**ProtoCodec.** The generated code is the same few lines for every field, so a
message is a table of fields and the functions are written once over the tables.
The first byte of each field and the expected wire type are separate columns, as
they are written separately in the code. This module is recursive and used by TLC
only.

**JsonObfuscator.** The scanner is the record of its fields, a state function a
function from scanner and byte to scanner and opcode; the ten states inside
`true`, `false` and `null`, the eight inside numbers and the four of `\u` escapes
are tables. `Feed` passes the bytes of a lexeme through the loop of `obfuscate`; any
lexeme may come anywhere, except that digits do not continue a number that was complete.
`Reference` parses the same lexemes by recursive descent.

## 3. Runs

Passing runs:

| Run | Shows |
|---|---|
| `agent` | each received trace is in one place, dropped, filtered or passed on (`TracesAccountedFor`); counters lose increments only in the window of `Reset` (`CountsLostOnlyInRace`); the writer is offered what a sampler kept, and nothing of negative priority (`WrittenIffKept`); handlers of traces return while nobody reads the channel |
| `shutdown` | from every state the nine `Stop`s return, unless a panic ends the process (`ShutdownCompletes`); only a writer whose `Stop` overtook its `Run` can panic; when all have returned, every flush of the concentrator was handled (`StopsLeaveNothingBehind`) |
| `sender` | every payload is in one place or settled once, also at `Stop` (`AccountedOnce`); limits hold and the byte count is exact; neither panic of `enqueue` is reachable; one retry is outstanding exactly while queuing; no payload overtakes an older one; the sender implements `RetryLedger`; the queue drains if the endpoint recovers; `Stop` returns |
| `control` | the clamps of the backoff catch every overflow; no period accepts more connections than its lease; the pre-sampler stays within one payload of its target through every decay, and the target is positive and not above the configured rate; the total score is the sum of the scores and of what was deleted (`TotalConserved`), and silent services are forgotten |
| `trace_writer` | payloads are the traces received, in order, within the limit; lost traces are whole buffers; counters report each span once; a `Stop` that waited returns only when the writer is empty, and only one that did not can make it panic; buffers are flushed |
| `stats_writer` | splitting conserves distributions always, and counts for what the concentrator flushes; payloads are bounded |
| `services` | only upgrades are sent; the cache is what was forwarded; changes are flushed; both `Stop`s return |
| `concentrator` | spans are conserved; on-time spans find their bucket; the delay is at most two buckets when `Run` is scheduled promptly; `Run` ends with a last flush, which is delivered before `Stop` returns unless `Stop` overtook it; `Stop` returns |
| `model` | the root is an orphan for every map order; one top-level span per visit of a service, apart from those the client marked; subtraces are the descendants, each once; sublayers hand out the running time, no more and no less, up to the float64 error and the cuts; messages survive the round trip with unknown fields around them; a truncated message is refused unless it ends between fields |
| `json` | the scanner accepts exactly sequences of JSON values; the output of accepted objects and arrays is the reference's, document after document |

Runs that show a disagreement between the code and what it says about itself:

| Run | Disagreement |
|---|---|
| `stats_writer_merge` | `newsb.Counts[ekey].Merge(e)` drops its result, so a count that meets another in one payload is lost. It takes two buckets with one window in a flush, which `Concentrator.Flush` never produces: only the comment ("cleanly merge instead") is wrong today |
| `json_stale` | `obfuscate` resets the scanner but not its own state. A document that was refused inside a kept key (`{"k":` and an end) leaves `keeping` set, and the values of the next one (`[true]`) are shown, although "it is safe to accept the output, even if partial" |

Other places where the code differs from what it says about itself, and observations
for readers of the code:

- `totalScore` is documented as "the score sum of all traces (equals the sum of all
  signature scores)" (`sampler/memory_backend.go:17`). `decayScore` deletes small scores
  and keeps their share in the total, so the equality fails as soon as one entry is
  deleted; `TotalConserved` says exactly by how much.
- The comment of `ComputeSublayers` works through a trace and gives its types web 70 and
  cache, db and rpc 55 each (`model/sublayers.go:90-95`), in all 235 for a trace of 150.
  By the code, and by `TraceModel` on that trace, they get web 30, cache 27.5, db 27.5
  and rpc 65, which is 150. By service, web-server gets 15 and alert 35 where lines 82
  and 88 say 10 and 40.
- The last closure of the JSON obfuscator is never popped (`obfuscate/json.go:78`), so
  after `{}` the flag `key`, "true if scanning a key", is set outside any object: a
  scalar at the top level that follows, in the same tag or in a later one, is shown.
  `ObfuscatedAsSpecified` therefore speaks of documents of objects and arrays; others
  are fed, and may come before, but what is shown of them is not claimed.
- `Stop` of a sender "waits until it correctly stops" (`writer/payload.go:95`), but not if
  `Run` has not begun. A shutdown right after the start may even end in a panic: a writer
  overtaken by its `Stop` that still has something to flush sends on a closed channel
  (`StopsLeaveNothingBehind` says that this is the only way).
- `break` in `StatsWriter.monitor` leaves the `select`, not the `for`: after `Stop`
  the goroutine spins on the closed channel until the process exits
  (`MonitorAfterBreak`).
- The service writer, "flushing all modified services" at exit, does not drain its
  input channel.
- The priority sampler unlocks the catalog before it counts a trace, so that a new
  key may be pruned although nothing decayed; the next trace registers it again.
- `ComputeTopLevel` sets the metric `_top_level` and never removes it: a mark that a
  client has sent stays, and its span gets a subtrace of its own.
- `Trace.APITrace` computes both `StartTime` and `EndTime` as a minimum.
- `Process` says that traces go to the priority sampler "regardless of priority
  value", but returns before the samplers when the priority is negative.
- `CalcPreSampleRate` may return less than `rateMin`, when the real rate is below
  it and close to what the CPU usage asks for.

## 4. Bounds

- `agent`: a payload of three traces (errors and priority 2 with an analysed span;
  one that is not normalised; negative priority) and a payload of services with
  the same tags, a channel of one place, one round of `logStats`: the channel is
  full when the third trace comes, and `Reset` falls anywhere.
- `sender`: 4 payloads of 3 sizes (fits twice, fits once, never fits), a queue of
  2 payloads and 3 bytes, age limit 1, 3 clock values. Every limit is reached
  with the other two slack, and two payloads can be dropped for one.
- `control`: 8 bits and 9 retries: powers and products overflow for every growth
  base over 1. Bases under 2 units are left out: the configuration counts
  milliseconds, a million units each. A lease of 2 and 2 refreshes; rates 1, 1/2
  and 1/10, payloads of 0, 1 and 20 traces, one decay and two readings of the
  watchdog, of no, half, fitting, double and fiftyfold CPU usage. The parts do not
  share state, so each runs alone; the fourth is the priority sampler.
- `trace_writer`: 3 samples of 0, 1 or 3 spans, 0 or 1 transactions, limit 2: a
  flush before, after, and both before and after the append.
- `stats_writer`: 2 flushes of at most 2 buckets of 3 keys, limit 2: exact and
  inexact division, up to 3 payloads, a bucket spread over several of them.
- `services`: 2 services, channels of capacity 2, 3 messages: both channels fill
  up and the mapper blocks.
- `concentrator`: buckets of 2 ticks, 7 clock values, 2 spans that end at most 1
  tick in the future: enough for a span to be late for its flush and for a bucket
  to be kept one time too many.
- `shutdown`: a channel of one place before the service writer; nothing else is bounded,
  as messages have no content. The mapper can be blocked, and every goroutine can be at
  every point when the context is cancelled.
- The priority sampler in `control`: 2 services, 2 goroutines, 2 traces, at most 4 decays between two
  traces; a decay by 3/2 and a threshold of 1/2, so that a score of 2 is deleted within
  the 4 decays. The code decays by 9/8 to a threshold of 0.01, which takes 39 decays and
  fractions beyond TLC's integers; the theorem has no such limit.
- `model`: all traces of up to 3 spans with any parents (present, absent, itself,
  cycles), 2 services and 4 intervals, one of which wraps 6-bit integers (`MaxInt64 = 31`); all
  trees of 7 spans in which each span is an entry, so that slices of ancestors
  grow past 4 and share arrays; traces with marks of the client below a parent of the same
  service; one trace per reason of rejection; `Precision = 1000`, coarser than float64,
  so that cuts to the integer below occur. Messages
  with and without each kind of field, on 24-bit integers (4-byte varints), a
  string longer than 127 bytes, negative numbers, and five unknown fields.
- `json`: lexemes of a total weight of 6 in at most 2 documents. Closing and separating
  weigh nothing, what opens a container and the common keys and values 1, `true` and a space
  2, the other forms of literals and the malformed ones 4: a document has for instance two
  members with string values and an array in them, a word or a space behind any value, and a
  rare lexeme in any context that two openings or keys reach. All of them may follow a
  complete value at the top level.

Deadlock is not checked where the agent may come to rest: after `Stop`, or when
the bounded inputs are used up.

## 5. Fairness

- A goroutine that can take a step takes it: weak fairness. Go's scheduler is
  preemptive and mutexes are not held for ever.
- `select` picks uniformly among its ready cases, so a case that is ready again
  and again is taken: strong fairness on `exit`, on tickers and on the input
  channels where a property depends on them.
- Tickers and timers fire: weak fairness of `TimerFires`, `DecayTick`, `Sync`.
- In `Agent`, nothing is assumed of the main loop taking traces (`TakeTrace`), nor
  of clients: `HandlersReturn` holds for an agent that is stuck in `Process` or has
  stopped.
- In `Shutdown`, nothing is assumed of ticks or of what handlers and sampling goroutines
  send: the shutdown completes with and without them. Goroutines that were started begin,
  and each takes its `exit` case if that is ready again and again.
- The payload sender takes what a writer offers (`SendReturns`, `SendNext`,
  `PayloadTaken`): this is `StopReturns` and the loop of `PayloadSender`, where
  `Run` always comes back to its `select`; the stats writer likewise receives
  from the concentrator, as it is stopped after it.
- The endpoint is not assumed to work. `QueueDrains` has the hypothesis
  `EndpointRecovers`; every other property holds for an endpoint that never
  answers well.

## 6. Proofs

Each component's theorems are in a module of their own. They hold for every value
of the constants that satisfies the assumptions next to their declaration, the
bounds of the runs included: a theorem about `Spec` with `MaxPayloads` is a theorem
for any number of payloads. The runs show the same properties on small instances.

Each preservation proof has one case per action of `Next`, or a first step that
shows which actions can disturb the invariant.

### Payload sender (`PayloadSenderProofs`)

Assumed (`ConfAssumption`): limits are integers, sizes naturals.

- `TypeCorrect`: `TypeOK` alone is not inductive: steps of `sendOrQueue` and
  `enqueue` use the payload in hand, so `HandInv` adds that it is a payload
  wherever they run, and which loop `discardOldPayloads` returns to.
- `RetryCorrect` (`RetryOutstandingWhenQueuing`): the property speaks of the
  `select` only; `RetryInv` says at every label how many retries are outstanding
  and whether the sender queues: none and not queuing while a payload is sent
  directly, one as soon as it is scheduled, none between the tick and the end of
  the flush that it caused. The exit is the one place where a flush may run with a
  retry outstanding, and no `select` follows it.
- `OrderCorrect`, `EndpointInOrder`, `DiscardCorrect` (`KeptInOrder`,
  `NoOvertaking`, `DiscardIsComplete`): `OrderInv` relates four places a payload may
  be in: what the blocked `Send` holds is younger than all that `Run` has taken, the
  payload in hand is younger than the queue, the queue is sorted, and nothing that
  reached the endpoint is younger than the front of the queue. The step that would
  break it is a direct send while payloads are queued; `~queuing =>
  queuedPayloads = <<>>`, with `RetryInv` for the label `"send"`, excludes it.
- `NoPanic` and `LimitsCorrect` (`EnqueueNeverPanics`, `QueueWithinLimits`):
  `enqueue` trusts the running count `currentQueuedSize`; if it drifted, an empty
  queue could seem full and the code would panic. The invariant says that the count
  is the sum of the sizes in the queue.
- `AccountCorrect` (`AccountedOnce`): `HeldInv` counts, for every id, the places it
  is in; from the order it follows that an id is queued once. `HandFreeInv` says
  where `sendOrQueue` holds no payload, `StopInv` what `Stop` may find.
- `LedgerImplemented` (`Spec => ImplementsLedger`): the refinement of
  `RetryLedger`. The pending payloads of the ledger are the queue and the hand;
  `OrderInv` makes the front of the queue the oldest of them and the hand the
  newest, which is what the steps of the ledger allow to be attempted and given up.

`KeptInOrder` and `DiscardIsComplete` are stated in `PayloadSender` for these
theorems; no run repeats them.

### Agent (`AgentProofs`)

Assumed: requests and traces are finite, a trace is in one place of one request
(`RequestsAssumption`: a trace stands for one that was received once).

- `TracesCorrect` (`TracesAccountedFor`): the account is a sum of cardinalities, so
  a trace must not be passed on twice. `OncePlaced` says that it is with its
  handler, in the channel, in `Process` or passed on, and only in one of these;
  `PendingInv` that a handler goes through its request in order.
- `WrittenCorrect` (`WrittenIffKept`): `SampleInv` adds what holds while a trace is
  sampled: nothing of it was sent, and its goroutine knows whether a sampler has
  kept it; and before that no sampler has seen it, which needs `OncePlaced`.
- `CountsCorrect` (`CountsLostOnlyInRace`): the property says nothing between
  `Publish` and `Reset`. `PublishedInv` says that what was published then covers all
  that was counted, but for races; `RecordsInv` that whoever counts holds a record
  that was created, in the map or not any more.

### Concentrator (`ConcentratorProofs`)

Assumed (`ConfAssumption`): a positive bucket length, and naturals.

- `ConservationCorrect` (`SpansConserved`): every goroutine about to add has an id
  of its own (`AddingInv`), and the send of a flush is over before the next one
  (`OutgoingInv`).
- `LatenessCorrect` (`OnTimeSpansFindTheirBucket`): `Flush` uses a clock reading
  that may be old, but never one of the future.
- `StopCorrect` (`StopDeliversLastFlush`): at the exit, the clock reading of the
  last flush and what came after it. `Stop` may come at any time; the invariant says
  that a `Stop` that waited finds `Run` done, and that `Run` ends only with the flush
  received, whether `Stop` has waited or not.
- `DelayCorrect` (`DelayAtMostTwoBuckets`): where the ticker and the last flush are
  relative to the clock as long as `Run` is prompt, for every phase.

### Trace writer (`TraceWriterProofs`)

`OrderCorrect`, `LimitCorrect` and `ReportsCorrect` (`NothingLostOrReordered`,
`PayloadsWithinLimit`, `FlushesReportedOnce`). `BufferInv` says that
`spansInBuffer` is the number of spans in the buffer; `LimitInv` what the loop knows
of the room in it at every label: the buffer is over the limit only between the
append of an oversized trace to an empty buffer and the flush that follows. `Stop` may
come at any time; a panic is reached only behind a `Stop` that overtook `Run`.

### Service pipeline (`ServicePipelineProofs`)

`UpgradesCorrect` and `CacheCorrect` (`OnlyUpgradesSent`,
`CacheMatchesWhatIsSent`). Mapper and writer do not know of each other; `FlightInv`
joins them: what was sent, what is buffered and what is in the channel are in the
order in which the mapper let them out, and of any two the older is a type and the
newer an app. `KnownInv` and `CachedInv` say that the cache knows of all of them, and
that what it holds is one of them.

### Stats writer (`StatsWriterProofs`)

Assumed (`ConfAssumption`): finite sets of windows and keys, an integer limit.

- `SplitCorrect` (`SplitConserves`): the property speaks of the payloads that are sent;
  `SplitInv` says while entries are placed that what has left `todo` is in the
  payloads. For distributions this is a sum and always holds. A count that meets
  another one is lost, so the invariant for counts has the hypothesis that windows
  differ, and then says that a slot still in `todo` is in no payload. Round robin is
  what bounds the payloads: the slots of payload `p` are at most the rounds that
  reached it, `N * (c - 1) + p <= index`, so at the end no payload has more than
  `MaxEntriesPerPayload` and each has one. When the code returns early with the
  buckets unsplit, the entries cover the slots, so there are no more slots than entries.

### Control (`ControlProofs`)

- `DelayBounded` (`DelayWithinBounds`), for integers of any width of at least 2 bits.
  Assumed (`ConfigAssumption`): the base is at least 2, as the configuration counts
  milliseconds of a million units each, the maximum is positive, the growth base is
  any integer but 0. The clamped power is in 1 .. 2^63; the conversion to `int64`
  leaves it or, for 2^63, yields the smallest integer. If the wrapped product divided
  by the power is the base again, the product did not wrap and is positive; for
  the smallest integer the division cannot give a base of 2 or more back. No more is
  used of the power than its being an integer other than 0 before the clamp, so the
  rounding of float64 does not matter.
- `LeaseCorrect` (`ConnectionsWithinLease`), for any integer limit: between its test
  and its decrement `Accept` holds one unit of a lease, of this period or of an
  earlier one.
- `RateCorrect` (`KeptTracksRate`), for rates in ]0, 1] and a largest trace count:
  while the target stands, a payload moves the distance from it towards zero, or past
  zero by no more than itself, and the decay shrinks it.
- `ScoresConserved` (`TotalConserved`), for any decay factor over 1 and any positive
  threshold: a decay multiplies each score by the denominator of the factor or
  deletes it, and what it deletes moves to `forgotten`, which decays like the total. It
  is exact where float64 is rounded; it says that rounding and deletion are the only
  reasons for which the total can differ from the sum.

### Trace model (`AgentProofs`)

Assumed: ids are naturals, and a span comes in marked only if its client marked it
(`InputsAssumption`); the times that bound spans are integers (`TimesAssumption`);
`Scale` is divided by every number up to the length of a trace (`ScaleAssumption`), so
that exact durations are integers over `Scale`; the float64 sums are within
`1 / Precision` of them, for any positive `Precision` (`PrecisionAssumption`). Nothing is
assumed of the shape of a trace: several roots, missing parents and cycles included.

- `RootCorrect` (`RootIsAnOrphan`): by the three ways `GetRoot` returns; a span whose
  parent id is left in the map after all ids were deleted has no parent, and if
  neither a root nor such an id exists, there are no orphans.
- `EntriesCorrect` (`OneEntryPerVisit`): `ModelInv` says that `NormalizeTrace` leaves
  distinct ids, so a span has at most one parent, and that marks are where no
  local parent is or the client set one. The spans that have one entry then contain the
  orphans and
  are closed under children: an entry is its own, any other span shares that of its
  parent.
- `SubtracesCorrect` (`SubtracesAreDescendants`): `SearchInv`, which TLC checked on the
  traces of the run before it was proved. The stack holds each span once and none that
  was visited (`StackInv`); what was found is closed under parents and children but for
  what waits (`FoundInv`). The hard part is that slices of ancestors share arrays, so
  that an `append` in place may overwrite what another slice shows. `SharingInv` says
  that of two slices on the stack with one array the one nearer the head is not
  shorter: the search appends at the head, behind the end of every slice that waits.
  This is depth first order, and fails for a queue (the mutant `PushBehind`). Therefore
  each slice still holds, once each, the entries above its span (`AncestorsInv`), and
  the subtraces the visited descendants of their entry (`SubtracesInv`).
- `SublayersCorrect` (`SublayersConserveTime`): `TimesInv` says that the spans the
  normalizer lets pass have a service and times within its bounds, and that the values
  are those of `ComputeSublayers`. The rest is about one subtrace. Between
  neighbouring timestamps nothing starts or ends, so the running time is the sum of
  the intervals in which a span runs (`RunningTime`: the intervals are disjoint).
  What all values of an attribute get is a sum over values of sums over intervals;
  exchanged (`SumByLabel`), it is a sum over intervals of the share of the active spans
  that have the attribute, which is at most the interval, and all of it when every
  span has the attribute and one is active (`HandedOut`). Float64 sums that are
  rounded up add at most a `1 / Precision` part; rounded down they lose as much, and
  cutting them to an integer less than one unit each (`SumCut`, `CutSums`, `TimeGiven`). One span is always active while some
  run, unless each span that runs has a child that runs; then the children are as many
  as the spans (an injection of a finite set into itself), the set is a cycle, and the
  descendants of the root never enter it unless the root is in it (`NoCycle`). Parents
  that end before their children, and spans whose end has wrapped, need no special
  treatment: the argument never compares the times of a parent and a child.

### Sums and other recursion

Conservation properties are sums, and the provers have no induction over data.
`SumTheorems` makes up for it with a minimal counterexample: the sets at which a
statement fails are a set of subsets of a finite set, which has a smallest member
(`FS_FiniteSubsetsOfFinite` and well-foundedness, in `SmallestSubset`), and the
statement holds there because it holds for its proper subsets. From the definition of
`SumFunctionOnSet` it derives that the recursion has one solution, that any element
may be taken out first, and from these how sums change, are split by labels and are
cut to integers. `TraceWriterProofs` does the
same for `FlattenSeq`, and `ControlProofs` for the powers of a number, with a least
natural number (`LeastNat`).

### Only model-checked

- All liveness: `HandlersReturn`, `ShutdownCompletes`, `QueueDrains`, `StopReturns`,
  `BufferIsFlushed`, `ChangesAreFlushed`, `SilentServicesForgotten`. Fairness and
  `ENABLED` are out of the prover's reach.
- `StopsLeaveNothingBehind` of `Shutdown`. Its state space is finite
  for a given capacity of one channel, and the runs cover it; the corresponding facts of
  the components (`NothingLostOrReordered`, `StopDeliversLastFlush`) are proved.
- `RoundTrip`, `ScannerAcceptsJson`, `ObfuscatedAsSpecified`: they
  say what recursive operators of `ProtoCodec` and `JsonObfuscator` compute, which
  needs induction over data, and with which the prover loses its arithmetic.

## 7. Plan

1. Done: payload sender, backoff timer, writers, service pipeline, concentrator,
   priority sampler; the agent with receiver and counters; the shutdown; admission;
   trace model, wire format, JSON obfuscator.
2. Done: theorems for every safety invariant of the runs but those of `Shutdown` and of
   the recursive operators listed above, and the refinement of `RetryLedger`.
3. Left: the raw statistics and the tag rewriting of the normalizer.

## 8. Not modelled

- Score samplers and signatures: the scores are logarithms and powers of float64
  and hashes; what the samplers decide is left open in `Agent`. The counters of
  `cmd/trace-agent/sampler.go`, which many goroutines increment without
  synchronisation, are only logged.
- Raw statistics (`model/statsraw.go`) and quantile summaries: aggregation of
  float64 values by key, in one goroutine; `Concentrator` counts spans.
- `Trace.APITrace`: two minima over a trace, with no effect on what follows.
- Payload compression, HTTP requests and the msgpack decoding: pure I/O and
  generated code. Decoding a request is an outcome in `Agent`.
- SQL, Redis, Memcached and HTTP obfuscation, the rewriting of tags and names in
  the normalizer, truncation: stateless, character by character work on strings.
- Filters, configuration, watchdog readings, logging, command line, the expvar
  page of `info/info.go`: no shared state of their own beyond start-up, or
  reporting only. The counters of the stats and service writers likewise.
- `CustomTimer.Close`, `syncBarrier`, `setEndpoint`, `scanner.undo`: called by
  tests only, or by nobody.
