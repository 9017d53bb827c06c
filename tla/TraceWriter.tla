---------------------------- MODULE TraceWriter ----------------------------
(***************************************************************************)
(* writer.TraceWriter: the goroutine of Run buffers sampled traces and     *)
(* turns the buffer into a payload when it would grow past                 *)
(* MaxSpansPerPayload, when the flush ticker ticks and when it exits.  It  *)
(* blocks in payloadSender.Send until the sender takes the payload (see    *)
(* PayloadSender for what happens next), and updateInfo runs on goroutines *)
(* of its own.                                                             *)
(***************************************************************************)
EXTENDS Integers, Sequences, SequencesExt

CONSTANTS
    MaxSpansPerPayload, \* conf.MaxSpansPerPayload
    TraceSizes,         \* lengths of the traces received
    TransactionCounts,  \* numbers of transactions received with a trace
    MaxReceived         \* bound: number of sampled traces received

ASSUME ConfAssumption ==
    /\ MaxSpansPerPayload \in Nat
    /\ TraceSizes \subseteq Nat
    /\ TransactionCounts \subseteq Nat
    /\ MaxReceived \in Nat

\* A SampledTrace: its Trace pointer may be nil and its trace may be empty.
Sampled == [hasTrace : BOOLEAN, spans : TraceSizes, transactions : TransactionCounts]
NoSample == [hasTrace |-> FALSE, spans |-> 0, transactions |-> 0]

Spans(s) == (IF s.hasTrace THEN s.spans ELSE 0) + s.transactions
Empty(s) == ~s.hasTrace /\ s.transactions = 0

VARIABLES
    pc,                 \* where the goroutine of Run is
    then,               \* where flush returns to
    sample,             \* the argument of handleSampledTrace
    handled,            \* history: the samples with data handled, in order
    buffer,             \* traces and transactions, as the samples they are from
    spansInBuffer,
    flushed,            \* history: the buffers that became a payload the sender
                        \* took, or were lost to a marshalling error, in order
    stats,              \* w.stats.Spans and w.stats.SingleMaxSpans
    reported,           \* what the calls of updateInfo have reported
    stop                \* progress of the caller of Stop

bufferVars == <<buffer, spansInBuffer>>
vars == <<pc, then, sample, handled, buffer, spansInBuffer, flushed,
          stats, reported, stop>>

Zero == [spans |-> 0, singleMaxSpans |-> 0]

Init ==
    /\ pc = "starting"
    /\ then = "select"
    /\ sample = NoSample
    /\ handled = <<>>
    /\ buffer = <<>>
    /\ spansInBuffer = 0
    /\ flushed = <<>>
    /\ stats = Zero
    /\ reported = Zero
    /\ stop = "no"

-----------------------------------------------------------------------------
RunBegin ==
    /\ pc = "starting"
    /\ pc' = "select"
    /\ UNCHANGED <<then, sample, handled, bufferVars, flushed, stats,
                   reported, stop>>

\* case sampledTrace := <-w.in.  handleSampledTrace flushes first when the
\* buffer has data and would overflow.
WouldOverflowLate(s) == spansInBuffer > 0 /\ spansInBuffer + Spans(s) > MaxSpansPerPayload + 1
WouldOverflow(s) == spansInBuffer > 0 /\ spansInBuffer + Spans(s) > MaxSpansPerPayload

ReceiveSample(s) ==
    /\ pc = "select"
    /\ Len(handled) < MaxReceived
    /\ ~Empty(s)
    /\ sample' = s
    /\ IF WouldOverflow(s) THEN pc' = "flush" /\ then' = "append"
                           ELSE pc' = "append" /\ UNCHANGED then
    /\ UNCHANGED <<handled, bufferVars, flushed, stats, reported, stop>>

\* appendTrace, appendTransactions and the second flush of handleSampledTrace.
AppendToBuffer(s) ==
    /\ buffer' = IF Spans(s) = 0 THEN buffer ELSE Append(buffer, s)
    /\ spansInBuffer' = spansInBuffer + Spans(s)

AppendSample ==
    /\ pc = "append"
    /\ AppendToBuffer(sample)
    /\ handled' = IF Spans(sample) = 0 THEN handled ELSE Append(handled, sample)
    /\ IF Spans(sample) > MaxSpansPerPayload
       THEN /\ stats' = [stats EXCEPT !.singleMaxSpans = @ + 1]
            /\ pc' = "flush" /\ then' = "select"
       ELSE pc' = "select" /\ UNCHANGED <<stats, then>>
    /\ sample' = NoSample
    /\ UNCHANGED <<flushed, reported, stop>>

FlushTickWhenEmpty ==
    /\ pc = "select"
    /\ buffer = <<>>
    /\ pc' = "flush"
    /\ then' = "select"
    /\ UNCHANGED <<sample, handled, bufferVars, flushed, stats, reported,
                   stop>>

\* case <-flushTicker.C
FlushTick ==
    /\ pc = "select"
    /\ pc' = "flush"
    /\ then' = "select"
    /\ UNCHANGED <<sample, handled, bufferVars, flushed, stats, reported,
                   stop>>

ExitWithoutFlush ==
    /\ pc = "select"
    /\ stop # "no"
    /\ pc' = "lastUpdateInfo"
    /\ UNCHANGED <<then, sample, handled, bufferVars, flushed, stats,
                   reported, stop>>

\* case <-w.exit
ReceiveExit ==
    /\ pc = "select"
    /\ stop # "no"
    /\ pc' = "flush"
    /\ then' = "lastUpdateInfo"
    /\ UNCHANGED <<sample, handled, bufferVars, flushed, stats, reported,
                   stop>>

-----------------------------------------------------------------------------
(* flush.                                                                   *)

ResetBufferForgotten == UNCHANGED bufferVars
ResetBuffer == buffer' = <<>> /\ spansInBuffer' = 0

FlushEmpty ==
    /\ pc = "flush"
    /\ buffer = <<>>
    /\ pc' = then
    /\ UNCHANGED <<then, sample, handled, bufferVars, flushed, stats,
                   reported, stop>>

CountFlush == stats' = [stats EXCEPT !.spans = @ + spansInBuffer]

FlushMarshalFails ==
    /\ pc = "flush"
    /\ buffer # <<>>
    /\ CountFlush
    /\ flushed' = Append(flushed, [sent |-> FALSE, samples |-> buffer])
    /\ ResetBuffer
    /\ pc' = then
    /\ UNCHANGED <<then, sample, handled, reported, stop>>

FlushBuildsPayload ==
    /\ pc = "flush"
    /\ buffer # <<>>
    /\ CountFlush
    /\ pc' = "send"
    /\ UNCHANGED <<then, sample, handled, bufferVars, flushed, reported,
                   stop>>

\* The sender takes the payload that Send offers; flush ends with resetBuffer.
\* After a Stop that overtook Run, the sender is being stopped.
SendReturns ==
    /\ pc = "send"
    /\ stop # "stopped"
    /\ flushed' = Append(flushed, [sent |-> TRUE, samples |-> buffer])
    /\ ResetBuffer
    /\ pc' = then
    /\ UNCHANGED <<then, sample, handled, stats, reported, stop>>

\* Its channel is closed: the send panics, and the panic ends the process.
SendPanics ==
    /\ pc = "send"
    /\ stop \in {"stopped", "overtook"}
    /\ pc' = "panic"
    /\ UNCHANGED <<then, sample, handled, bufferVars, flushed, stats, reported,
                   stop>>

-----------------------------------------------------------------------------
(* updateInfo, Stop.                                                        *)

\* The swaps of the counters, in a goroutine started by updateInfoTicker.
ReportKeeping ==
    reported' = [f \in DOMAIN stats |-> reported[f] + stats[f]] /\ UNCHANGED stats
Report ==
    reported' = [f \in DOMAIN stats |-> reported[f] + stats[f]] /\ stats' = Zero

UpdateInfo ==
    /\ pc \notin {"starting", "panic"}
    /\ stats # Zero
    /\ Report
    /\ UNCHANGED <<pc, then, sample, handled, bufferVars, flushed, stop>>

\* The last updateInfo, the return and the deferred exitWG.Done().
LastUpdateInfo ==
    /\ pc = "lastUpdateInfo"
    /\ Report
    /\ pc' = "done"
    /\ UNCHANGED <<then, sample, handled, bufferVars, flushed, stop>>

\* Run enters the wait group itself: Stop may be called before it has.
StopCloseExit ==
    /\ stop = "no"
    /\ stop' = "waiting"
    /\ UNCHANGED <<pc, then, sample, handled, bufferVars, flushed, stats,
                   reported>>

\* exitWG.Wait(), which does not wait before Run has begun; BaseWriter.Stop then
\* stops the sender, whose channel "in" is closed.
StopWait ==
    /\ stop = "waiting"
    /\ pc \in {"starting", "done"}
    /\ stop' = IF pc = "starting" THEN "overtook" ELSE "stopped"
    /\ UNCHANGED <<pc, then, sample, handled, bufferVars, flushed, stats,
                   reported>>

-----------------------------------------------------------------------------
Next ==
    \/ RunBegin
    \/ \E s \in Sampled : ReceiveSample(s)
    \/ AppendSample \/ FlushTick \/ ReceiveExit
    \/ FlushEmpty \/ FlushMarshalFails \/ FlushBuildsPayload \/ SendReturns \/ SendPanics
    \/ UpdateInfo \/ LastUpdateInfo
    \/ StopCloseExit \/ StopWait

Spec == Init /\ [][Next]_vars

\* The goroutines of Go run, the ticker ticks (and its case is not passed over
\* for ever by the select), the sender takes what it is offered until it is
\* stopped.
Fairness ==
    /\ WF_vars(RunBegin \/ AppendSample \/ FlushEmpty \/ FlushBuildsPayload
               \/ LastUpdateInfo)
    /\ WF_vars(stop # "overtook" /\ SendReturns)
    /\ WF_vars(StopWait)
    /\ SF_vars(FlushTick)
    /\ SF_vars(ReceiveExit)

FairSpec == Spec /\ Fairness

-----------------------------------------------------------------------------
SpansOf(seq) == [k \in DOMAIN seq |-> Spans(seq[k])]
Total(seq) == SumFunction(SpansOf(seq))

\* The samples that have left the buffer, in the order they left it.
FlushedSamples == FlattenSeq([k \in DOMAIN flushed |-> flushed[k].samples])

\* The buffers flushed, followed by the buffer, are the sampled traces in the
\* order they came in: the flushes forced in the middle of handleSampledTrace,
\* the ticks, the exit and the marshalling errors repeat and reorder none, and
\* lose none but those of the buffer that could not be marshalled.  When Run has
\* ended it holds nothing back, and its counters are reported.  A Stop that did
\* not overtake the start of Run returns only then; only one that did may close
\* the channel of the sender under a flush, which ends the process.
NothingLostOrReordered ==
    /\ FlushedSamples \o buffer = handled
    /\ pc = "done" => stop # "no" /\ buffer = <<>> /\ stats = Zero
    /\ stop = "stopped" => pc = "done"
    /\ pc = "panic" => stop = "overtook"

\* A payload holds more than MaxSpansPerPayload spans only when a single
\* sampled trace does.
PayloadsWithinLimit ==
    \A k \in DOMAIN flushed :
        Total(flushed[k].samples) > MaxSpansPerPayload => Len(flushed[k].samples) = 1

\* Every flushed span is reported once by updateInfo, however its goroutines
\* interleave with the flushes.
FlushesReportedOnce ==
    reported.spans + stats.spans =
        Total(FlushedSamples) + (IF pc \in {"send", "panic"} THEN spansInBuffer ELSE 0)

\* A buffered trace is flushed in the end.
BufferIsFlushed == (buffer # <<>>) ~> (buffer = <<>> \/ stop # "no")
=============================================================================
