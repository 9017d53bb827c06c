---------------------------- MODULE Concentrator ----------------------------
(***************************************************************************)
(* The Concentrator (cmd/trace-agent/concentrator.go) and the way the      *)
(* agent feeds it: Agent.Process rejects a trace whose root ended too long *)
(* ago, then hands the trace to a goroutine that calls Add some time later.*)
(* The goroutine of Run flushes the complete buckets at every tick of its  *)
(* ticker and when it exits, and blocks until the stats writer takes them. *)
(* Flush reads the clock before it locks the mutex that Add holds.         *)
(*                                                                         *)
(* A trace is the sequence of the end times of its top-level spans, the    *)
(* root first: other spans are not counted.                                *)
(***************************************************************************)
EXTENDS Integers, Sequences, FiniteSets, FiniteSetsExt

CONSTANTS
    BSize,          \* c.bsize, the length of a bucket in clock ticks
    MaxTime,        \* bound: last value of the clock
    MaxSpans,       \* bound: number of top-level spans processed
    MaxSkew         \* bound: how far in the future a span may end

ASSUME ConfAssumption ==
    /\ BSize \in Nat \ {0}
    /\ MaxTime \in Nat /\ MaxTime >= BSize - 1
    /\ MaxSpans \in Nat /\ MaxSkew \in Nat

Times   == 0 .. MaxTime + MaxSkew
Starts  == {t \in Times : t % BSize = 0}

\* btime: the start of the bucket of a span.
BTime(end) == end - (end % BSize)

Trace   == {<<root>> : root \in Times} \cup {<<root, child>> : root, child \in Times}

VARIABLES
    now,            \* model.Now()
    ticker,         \* when flushTicker ticks next, and whether a tick is waiting
    processed,      \* number of top-level spans that Process has seen
    adding,         \* traces whose goroutine has not called Add yet
    buckets,        \* spans counted in each open bucket; 0: no such bucket
    flushNow,       \* the variable now of Flush
    outgoing,       \* the buckets blocked on OutStats
    delivered,      \* history: spans the stats writer received, per bucket
    adds,           \* history: the spans added: when they ended, when they were
                    \* added, and whether their bucket had been flushed before
    flushed,        \* history: the buckets that were flushed at least once
    slow,           \* history: the clock advanced while Run had work to do
    pc,             \* where the goroutine of Run is
    stop            \* progress of the caller of Stop

vars == <<now, ticker, processed, adding, buckets, flushNow, outgoing, delivered,
          adds, flushed, slow, pc, stop>>

None == [s \in Starts |-> 0]

\* The ticker, which starts with Run, may have any phase relative to the windows.
Init ==
    /\ now \in 0 .. BSize - 1
    /\ ticker = [next |-> now + BSize, waiting |-> FALSE]
    /\ processed = 0
    /\ adding = {}
    /\ buckets = None
    /\ flushNow = 0
    /\ outgoing = None
    /\ delivered = None
    /\ adds = {}
    /\ flushed = {}
    /\ slow = FALSE
    /\ pc = "starting"
    /\ stop = "no"

Ticking == pc \notin {"starting", "done"}

\* The goroutine of Run waits in its select for the next tick.
Idle == pc = "select" /\ ~ticker.waiting

\* The ticker drops a tick when the previous one has not been received.
ClockTick ==
    /\ now < MaxTime
    /\ now' = now + 1
    /\ ticker' = IF Ticking /\ now + 1 = ticker.next
                 THEN [next |-> now + 1 + BSize, waiting |-> TRUE]
                 ELSE ticker
    /\ slow' = (slow \/ ~Idle)
    /\ UNCHANGED <<processed, adding, buckets, flushNow, outgoing, delivered, adds,
                   flushed, pc, stop>>

\* Agent.Process, as far as the concentrator is concerned: the cut-off looks at
\* the root only.  Process runs on the goroutine that also calls Stop.
Process(t) ==
    /\ stop = "no"
    /\ processed + Len(t) <= MaxSpans
    /\ \A k \in DOMAIN t : t[k] <= now + MaxSkew
    /\ processed' = processed + Len(t)
    /\ adding' = IF t[1] < now - 2 * BSize THEN adding
                 ELSE adding \cup {[id |-> processed + 1, ends |-> t]}
    /\ UNCHANGED <<now, ticker, buckets, flushNow, outgoing, delivered, adds,
                   flushed, pc, stop, slow>>

\* Add, under the mutex: one count per top-level span.
SpansIn(ends, s) == Cardinality({k \in DOMAIN ends : BTime(ends[k]) = s})

AddReplacing(ends) ==
    buckets' = [s \in Starts |-> IF SpansIn(ends, s) > 0 THEN SpansIn(ends, s)
                                                        ELSE buckets[s]]
AddSpans(ends) ==
    buckets' = [s \in Starts |-> buckets[s] + SpansIn(ends, s)]

Add(a) ==
    /\ a \in adding
    /\ adding' = adding \ {a}
    /\ AddSpans(a.ends)
    /\ adds' = adds \cup
               {[id |-> <<a.id, k>>, end |-> a.ends[k], at |-> now,
                 late |-> BTime(a.ends[k]) \in flushed] : k \in DOMAIN a.ends}
    /\ UNCHANGED <<now, ticker, processed, flushNow, outgoing, delivered, flushed,
                   pc, stop, slow>>

-----------------------------------------------------------------------------
RunBegin ==
    /\ pc = "starting"
    /\ ticker' = [next |-> now + BSize, waiting |-> FALSE]
    /\ pc' = "select"
    /\ UNCHANGED <<now, processed, adding, buckets, flushNow, outgoing, delivered,
                   adds, flushed, stop, slow>>

\* case <-flushTicker.C, up to the reading of the clock in Flush.
FlushTick ==
    /\ pc = "select"
    /\ ticker.waiting
    /\ ticker' = [ticker EXCEPT !.waiting = FALSE]
    /\ flushNow' = now
    /\ pc' = "flush"
    /\ UNCHANGED <<now, processed, adding, buckets, outgoing, delivered, adds,
                   flushed, stop, slow>>

ReceiveExitLater ==
    /\ pc = "select"
    /\ stop # "no"
    /\ flushNow' = now
    /\ pc' = "flush"
    /\ UNCHANGED <<now, ticker, processed, adding, buckets, outgoing, delivered,
                   adds, flushed, stop, slow>>

\* case <-c.exit, up to the reading of the clock in Flush.
ReceiveExit ==
    /\ pc = "select"
    /\ stop # "no"
    /\ flushNow' = now
    /\ pc' = "lastFlush"
    /\ UNCHANGED <<now, ticker, processed, adding, buckets, outgoing, delivered,
                   adds, flushed, stop, slow>>

\* The buckets that Flush keeps open.
KeepsOne(s) == s > flushNow - BSize
KeepsThree(s) == s > flushNow - 3 * BSize
Keeps(s) == s > flushNow - 2 * BSize

\* The rest of Flush, under the mutex; then the send to OutStats blocks.
Flush ==
    /\ pc \in {"flush", "lastFlush"}
    /\ outgoing' = [s \in Starts |-> IF Keeps(s) THEN 0 ELSE buckets[s]]
    /\ buckets' = [s \in Starts |-> IF Keeps(s) THEN buckets[s] ELSE 0]
    /\ flushed' = flushed \cup {s \in Starts : buckets[s] > 0 /\ ~Keeps(s)}
    /\ pc' = IF pc = "flush" THEN "send" ELSE "lastSend"
    /\ UNCHANGED <<now, ticker, processed, adding, flushNow, delivered, adds, stop,
                   slow>>

\* The stats writer, which is stopped after the concentrator, receives.
StatsReceived ==
    /\ pc \in {"send", "lastSend"}
    /\ delivered' = [s \in Starts |-> delivered[s] + outgoing[s]]
    /\ outgoing' = None
    /\ pc' = IF pc = "send" THEN "select" ELSE "done"
    /\ UNCHANGED <<now, ticker, processed, adding, buckets, flushNow, adds, flushed,
                   stop, slow>>

\* Run enters the wait group itself: Stop may be called before it has.
StopCloseExit ==
    /\ stop = "no"
    /\ stop' = "waiting"
    /\ UNCHANGED <<now, ticker, processed, adding, buckets, flushNow, outgoing,
                   delivered, adds, flushed, pc, slow>>

StopDoesNotWait ==
    /\ stop = "waiting"
    /\ stop' = IF pc = "starting" THEN "overtook" ELSE "stopped"
    /\ UNCHANGED <<now, ticker, processed, adding, buckets, flushNow, outgoing,
                   delivered, adds, flushed, pc, slow>>

\* The wait group is at zero before Run has begun and once it has returned.
StopWait ==
    /\ stop = "waiting"
    /\ pc \in {"starting", "done"}
    /\ stop' = IF pc = "starting" THEN "overtook" ELSE "stopped"
    /\ UNCHANGED <<now, ticker, processed, adding, buckets, flushNow, outgoing,
                   delivered, adds, flushed, pc, slow>>

Next ==
    \/ ClockTick
    \/ \E t \in Trace : Process(t)
    \/ \E a \in adding : Add(a)
    \/ RunBegin \/ FlushTick \/ ReceiveExit \/ Flush \/ StatsReceived
    \/ StopCloseExit \/ StopWait

Spec == Init /\ [][Next]_vars

\* Goroutines run, the select does not pass over "exit" for ever, and the stats
\* writer receives until Stop has returned: a Run that Stop overtook may find
\* nobody to receive its flush.
Fairness ==
    /\ WF_vars(RunBegin)
    /\ WF_vars(Flush)
    /\ WF_vars(stop # "overtook" /\ StatsReceived)
    /\ SF_vars(ReceiveExit)
    /\ WF_vars(StopWait)

FairSpec == Spec /\ Fairness

-----------------------------------------------------------------------------
\* Every span added is counted once, in the bucket of the window it ended in:
\* still in the concentrator, on its way to the stats writer, or received by it,
\* also when its bucket is flushed a second time.
SpansConserved ==
    \A s \in Starts :
        Cardinality({a \in adds : a.end \in s .. s + BSize - 1})
            = buckets[s] + outgoing[s] + delivered[s]

\* "Always keep one bucket opened ... we accept slightly late traces": a span
\* that Add sees within one bucket length of its end never lands in a bucket
\* that was already flushed, although Flush uses a time it read before it locked.
OnTimeSpansFindTheirBucket == \A a \in adds : a.late => a.at - a.end > BSize

\* "But we delay flushing by at most 2 buckets": as long as Run is scheduled
\* promptly, two bucket lengths after its window has ended a bucket is still open
\* only if a span was added to it within the last bucket length, whatever the
\* phase of the ticker and of the windows.
DelayAtMostTwoBuckets ==
    \A s \in Starts :
        ~slow /\ stop = "no" /\ buckets[s] > 0 /\ now >= s + 3 * BSize =>
            \E a \in adds : BTime(a.end) = s /\ a.at >= now - BSize

\* Unless it overtook the start of Run, Stop returns only once the stats writer
\* has received the last flush.  Run always ends with that flush, also if Stop
\* has not waited for it, and then the concentrator holds complete buckets only
\* if a goroutine added a span after that flush.
StopDeliversLastFlush ==
    /\ stop = "stopped" => pc = "done"
    /\ pc = "done" =>
        /\ stop # "no" /\ outgoing = None
        /\ \A s \in Starts :
              buckets[s] > 0 =>
                  \/ s + 2 * BSize > flushNow
                  \/ \E a \in adds : BTime(a.end) = s /\ a.at >= flushNow

\* Stop returns, whatever Run is blocked on when it is called.
StopReturns == (stop = "waiting") ~> (stop \in {"stopped", "overtook"})
=============================================================================
