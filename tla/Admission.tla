----------------------------- MODULE Admission -----------------------------
(***************************************************************************)
(* What the agent lets in: the connections RateLimitedListener accepts, in *)
(* the loop of the HTTP server, against the goroutine that refreshes its   *)
(* lease; and the payloads PreSampler keeps, in many handlers, against its *)
(* decay and the watchdog, which sets its rate from the CPU usage.         *)
(*                                                                         *)
(* A rate is a fraction, a record [n, d].  The counters of traces share    *)
(* the denominator unit, so that their division by 9/8 is exact; the       *)
(* counter of payloads, which nothing reads, is left out, as are the       *)
(* memory and the connections that make the watchdog end the process.      *)
(***************************************************************************)
EXTENDS Integers

CONSTANTS
    ConnectionLimit,
    PreSampleRates, \* values of conf.PreSampleRate
    MaxCPU,         \* conf.MaxCPU, and
    UserAvgs,       \* the CPU usages the watchdog reads, in the same unit
    TraceCounts,    \* values of the header X-Datadog-Trace-Count
    MaxPayloads, MaxDecays, MaxRounds, MaxRefreshes    \* bounds

\* The configuration may set any limit of connections, and a pre-sampling rate
\* in ]0, 1]; a request without the header counts 0 traces, and some request
\* announces the most.
ASSUME AdmissionAssumption ==
    /\ ConnectionLimit \in Int
    /\ \A r \in PreSampleRates :
          r \in [n : Nat \ {0}, d : Nat \ {0}] /\ r.n <= r.d
    /\ MaxCPU \in Int
    /\ UserAvgs \subseteq Nat
    /\ TraceCounts \subseteq Int /\ 0 \in TraceCounts
    /\ \E c \in TraceCounts : \A x \in TraceCounts : x <= c

VARIABLES
    connLease,
    accepting,      \* pc of Accept
    accepted,       \* connections accepted since the last refresh
    preSampleRate,  \* conf.PreSampleRate
    rate, seen, dropped,    \* PreSamplerStats
    unit,           \* what one trace counts for in seen and dropped
    watchdog,       \* the rate watchdog is about to set, or <<>>
    adjusted,       \* watchdog has set the rate
    payloads, decays, rounds, refreshes     \* counters for the bounds

listenerVars == <<connLease, accepting, accepted, refreshes>>
samplerVars == <<preSampleRate, rate, seen, dropped, unit, watchdog, adjusted, payloads, decays, rounds>>
admissionVars == <<listenerVars, samplerVars>>

One == [n |-> 1, d |-> 1]
Greater(a, b) == a.n * b.d > b.n * a.d

NewRateLimitedListener ==
    /\ connLease = ConnectionLimit
    /\ accepting = "call"
    /\ accepted = 0
    /\ refreshes = 0

AdmissionInit ==
    /\ NewRateLimitedListener
    /\ preSampleRate \in PreSampleRates
    /\ rate = preSampleRate
    /\ seen = 0
    /\ dropped = 0
    /\ unit = 1
    /\ watchdog = <<>>
    /\ adjusted = FALSE
    /\ payloads = 0
    /\ decays = 0
    /\ rounds = 0

-----------------------------------------------------------------------------
(* The listener.                                                            *)

Refresh ==
    /\ refreshes < MaxRefreshes
    /\ connLease' = ConnectionLimit
    /\ accepted' = 0
    /\ refreshes' = refreshes + 1
    /\ UNCHANGED <<accepting, samplerVars>>

ExhaustedLate == connLease < 0
Exhausted == connLease <= 0

\* Without a lease Accept returns a temporary error and the server calls again.
AcceptChecks ==
    /\ accepting = "call"
    /\ ~Exhausted
    /\ accepting' = "wait"
    /\ UNCHANGED <<connLease, accepted, refreshes, samplerVars>>

\* TCPListener.Accept returns a connection, or an error that is no timeout.
AcceptReturns ==
    /\ accepting = "wait"
    /\ accepting' = "decrement"
    /\ accepted' \in {accepted, accepted + 1}
    /\ UNCHANGED <<connLease, refreshes, samplerVars>>

AcceptDecrements ==
    /\ accepting = "decrement"
    /\ connLease' = connLease - 1
    /\ accepting' = "call"
    /\ UNCHANGED <<accepted, refreshes, samplerVars>>

-----------------------------------------------------------------------------
(* The pre-sampler.                                                         *)

RealRate == IF seen <= 0 THEN rate ELSE [n |-> seen - dropped, d |-> seen]

\* Under the mutex; no header, or one that is not a positive
\* number, makes no difference to the statistics.
sampleWithCount(traceCount) ==
    /\ payloads < MaxPayloads
    /\ payloads' = payloads + 1
    /\ IF traceCount <= 0 THEN UNCHANGED <<seen, dropped>>
       ELSE /\ dropped' = IF Greater(RealRate, rate) THEN dropped + traceCount * unit ELSE dropped
            /\ seen' = seen + traceCount * unit
    /\ UNCHANGED <<listenerVars, preSampleRate, rate, unit, watchdog, adjusted, decays, rounds>>

\* seen / unit and dropped / unit are divided by 9/8.
DecayTotals == seen' = seen * 8 /\ dropped' = dropped * 9 /\ unit' = unit * 9

DecayAll == seen' = seen * 8 /\ dropped' = dropped * 8 /\ unit' = unit * 9

decayScore ==
    /\ decays < MaxDecays
    /\ DecayAll
    /\ decays' = decays + 1
    /\ UNCHANGED <<listenerVars, preSampleRate, rate, watchdog, adjusted, payloads, rounds>>

\* newRate is current * MaxCPU / userAvg, so its distance from current, relative
\* to current, is MaxCPU / userAvg - 1.  deltaMin is 15%, rateMin 5%.
CalcPreSampleRate(userAvg, current) ==
    LET newRate == [n |-> current.n * MaxCPU, d |-> current.d * userAvg]
        mean    == [n |-> current.n * (MaxCPU + userAvg), d |-> current.d * 2 * userAvg]
        delta   == MaxCPU - userAvg
        rateMin == [n |-> 1, d |-> 20]
    IN  CASE MaxCPU <= 0 \/ userAvg = 0 \/ current.n = 0 -> One
          [] OTHER ->
                CASE newRate.n >= newRate.d -> One
                  [] newRate.n < newRate.d /\ 100 * delta > -15 * userAvg
                                           /\ 100 * delta < 15 * userAvg -> current
                  [] OTHER -> IF Greater(rateMin, mean) THEN rateMin ELSE mean

\* watchdog computes the rate from what it reads ...
WatchdogReads(userAvg) ==
    /\ watchdog = <<>>
    /\ rounds < MaxRounds
    /\ LET new == CalcPreSampleRate(userAvg, RealRate)
       IN  watchdog' = <<IF Greater(new, preSampleRate) THEN preSampleRate ELSE new>>
    /\ rounds' = rounds + 1
    /\ UNCHANGED <<listenerVars, preSampleRate, rate, seen, dropped, unit, adjusted, payloads, decays>>

\* ... and sets it, after what other handlers may have sampled.
SetRate ==
    /\ watchdog # <<>>
    /\ rate' = watchdog[1]
    /\ watchdog' = <<>>
    /\ adjusted' = TRUE
    /\ UNCHANGED <<listenerVars, preSampleRate, seen, dropped, unit, payloads, decays, rounds>>

-----------------------------------------------------------------------------
AdmissionNext ==
    \/ Refresh \/ AcceptChecks \/ AcceptReturns \/ AcceptDecrements
    \/ \E traceCount \in TraceCounts : sampleWithCount(traceCount)
    \/ decayScore
    \/ \E userAvg \in UserAvgs : WatchdogReads(userAvg)
    \/ SetRate

AdmissionSpec == AdmissionInit /\ [][AdmissionNext]_admissionVars

-----------------------------------------------------------------------------
\* Accept tests the lease, waits, and takes from it later, and the lease may be
\* refreshed in between: all the same no period accepts more than its limit (none
\* under a limit that is not positive), and the lease is never overdrawn.
ConnectionsWithinLease ==
    /\ accepted <= IF ConnectionLimit > 0 THEN ConnectionLimit ELSE 0
    /\ connLease >= 0 \/ connLease = ConnectionLimit

LargestPayload == CHOOSE c \in TraceCounts : \A x \in TraceCounts : x <= c

\* Payloads are kept or dropped whole, by what was kept of the earlier ones: the
\* traces kept stay within one payload of the target rate, at any time and
\* through every decay, as long as the target does not move; the target is
\* positive and not above the configured rate whatever the watchdog reads.
KeptTracksRate ==
    /\ dropped \in 0 .. seen
    /\ 0 < rate.n /\ ~Greater(rate, preSampleRate)
    /\ ~adjusted =>
        LET distance == (seen - dropped) * rate.d - seen * rate.n
        IN  /\ distance <= LargestPayload * unit * rate.d
            /\ -distance <= LargestPayload * unit * rate.d
=============================================================================
