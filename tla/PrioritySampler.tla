-------------------------- MODULE PrioritySampler --------------------------
(***************************************************************************)
(* sampler.PriorityEngine with its MemoryBackend, its catalog of service   *)
(* keys and the rates by service that the receiver returns to clients.     *)
(*                                                                         *)
(* Three kinds of goroutine share them: the ones that sample a trace (they *)
(* register its service under catalogMu, unlock, and count it under the    *)
(* lock of the backend), the decay loop of the backend and the loop that   *)
(* computes the rates.  This one holds catalogMu while it reads the scores *)
(* and prunes the catalog, and publishes the result after unlocking.       *)
(*                                                                         *)
(* A service and its signature are one value.  A rate is left out: what is *)
(* published is the set of services that have one.  Scores are exact       *)
(* fractions where the code has float64: integers over the variable scale, *)
(* which a decay multiplies by the numerator of the decay factor.          *)
(***************************************************************************)
EXTENDS Integers, FiniteSets, Functions

CONSTANTS
    Services,       \* services (and environments) of the root spans
    Threads,        \* goroutines that sample
    FactorN, FactorD,   \* decayFactor: FactorN / FactorD
    OffsetN, OffsetD,   \* minSignatureScoreOffset: OffsetN / OffsetD
    MaxTraces,      \* bound: traces sampled
    MaxIdleDecays   \* bound: decays without a trace being counted

ASSUME ConfAssumption ==
    /\ IsFiniteSet(Services) /\ IsFiniteSet(Threads)
    /\ FactorD \in Nat \ {0} /\ FactorN \in Nat /\ FactorD < FactorN
    /\ OffsetN \in Nat \ {0} /\ OffsetD \in Nat \ {0}
    /\ MaxTraces \in Nat /\ MaxIdleDecays \in Nat

Priorities == {-1, 0, 1, 2}
NoTrace == [service |-> "none", priority |-> 0]

VARIABLES
    traces,         \* number of calls of Sample
    pc,             \* where each sampling goroutine is
    trace,          \* the trace each one samples: service and priority
    catalog,        \* keys of the catalog
    scale,          \* the scores below are multiples of 1 / scale
    scores,         \* scores of the backend; 0: no entry
    totalScore,
    sampledScore,
    forgotten,      \* history: the decayed scores of deleted entries
    idleDecays,     \* decays since a trace was counted
    sync,           \* where the loop that computes the rates is
    rates,          \* services in the map it read from the backend
    result,         \* services in the map that getRateByService returned
    published       \* services in rateByService

vars == <<traces, pc, trace, catalog, scale, scores, totalScore, sampledScore, forgotten,
          idleDecays, sync, rates, result, published>>

backendVars == <<scale, scores, totalScore, sampledScore, forgotten, idleDecays>>
syncVars == <<sync, rates, result, published>>

NewMemoryBackend ==
    /\ scale = 1
    /\ scores = [s \in Services |-> 0]
    /\ totalScore = 0
    /\ sampledScore = 0
    /\ forgotten = 0
    /\ idleDecays = 0

Init ==
    /\ traces = 0
    /\ pc = [t \in Threads |-> "idle"]
    /\ trace = [t \in Threads |-> NoTrace]
    /\ catalog = {}
    /\ NewMemoryBackend
    /\ sync = "idle"
    /\ rates = {}
    /\ result = {}
    /\ published = {}

-----------------------------------------------------------------------------
(* Sample.                                                                  *)

CatalogLocked == sync = "locked"

Counts(priority) == priority \in 0 .. 1

\* A trace whose priority was not set by the client library is not counted.
SampleUncounted(t, priority) ==
    /\ pc[t] = "idle"
    /\ traces < MaxTraces
    /\ ~Counts(priority)
    /\ traces' = traces + 1
    /\ UNCHANGED <<pc, trace, catalog, backendVars, syncVars>>

Register(s) == catalog' = catalog \cup {s}

\* s.catalog.register between Lock and Unlock.
SampleRegister(t, s, priority) ==
    /\ pc[t] = "idle"
    /\ traces < MaxTraces
    /\ Counts(priority)
    /\ ~CatalogLocked
    /\ traces' = traces + 1
    /\ trace' = [trace EXCEPT ![t] = [service |-> s, priority |-> priority]]
    /\ Register(s)
    /\ pc' = [pc EXCEPT ![t] = "registered"]
    /\ UNCHANGED <<backendVars, syncVars>>

CountSignatureOnly(s) ==
    /\ scores' = [scores EXCEPT ![s] = @ + scale]
    /\ UNCHANGED totalScore
CountSignature(s) ==
    /\ scores' = [scores EXCEPT ![s] = @ + scale]
    /\ totalScore' = totalScore + scale

Return(t) ==
    /\ pc' = [pc EXCEPT ![t] = "idle"]
    /\ trace' = [trace EXCEPT ![t] = NoTrace]

SampleCountSignature(t) ==
    /\ pc[t] = "registered"
    /\ CountSignature(trace[t].service)
    /\ idleDecays' = 0
    /\ IF trace[t].priority > 0
       THEN pc' = [pc EXCEPT ![t] = "sampled"] /\ UNCHANGED trace
       ELSE Return(t)
    /\ UNCHANGED <<traces, catalog, scale, sampledScore, forgotten, syncVars>>

CountSample(t) ==
    /\ pc[t] = "sampled"
    /\ sampledScore' = sampledScore + scale
    /\ Return(t)
    /\ UNCHANGED <<traces, catalog, scale, scores, totalScore, forgotten, idleDecays, syncVars>>

-----------------------------------------------------------------------------
\* The score is above decayFactor * minSignatureScoreOffset.
Lasts(score) == score * FactorD * OffsetD > scale * FactorN * OffsetN

\* What a decay makes of a score (DecayOneKeeps deletes nothing), and what it deletes.
DecayOneKeeps(score) == IF Lasts(score) THEN FactorD * score ELSE FactorN * score
DecayOne(score) == IF Lasts(score) THEN FactorD * score ELSE 0
Deleted(score) == IF Lasts(score) THEN 0 ELSE score

\* decayScore, under the lock of the backend: what is deleted stays in the total.
DecayScore ==
    /\ scale' = FactorN * scale
    /\ scores' = [s \in Services |-> DecayOne(scores[s])]
    /\ totalScore' = FactorD * totalScore
    /\ sampledScore' = FactorD * sampledScore
    /\ forgotten' = FactorD * (forgotten
                        + SumFunction([s \in Services |-> Deleted(scores[s])]))

\* A tick of MemoryBackend.Run.
DecayTick ==
    /\ idleDecays < MaxIdleDecays
    /\ idleDecays' = idleDecays + 1
    /\ DecayScore
    /\ UNCHANGED <<traces, pc, trace, catalog, syncVars>>

-----------------------------------------------------------------------------
(* s.rateByService.SetAll(s.getRateByService())                             *)

GetSignatureScores == {s \in Services : scores[s] > 0}

\* Lock catalogMu and read the rates from the backend.
SyncReadRates ==
    /\ sync = "idle"
    /\ sync' = "locked"
    /\ rates' = GetSignatureScores
    /\ UNCHANGED <<traces, pc, trace, catalog, backendVars, result, published>>

\* The services that catalog.getRateByService returns.
RatesOfKeys == catalog \cap rates

\* catalog.getRateByService and Unlock; keys without a rate are deleted.
SyncPruneCatalog ==
    /\ sync = "locked"
    /\ sync' = "unlocked"
    /\ result' = RatesOfKeys
    /\ catalog' = RatesOfKeys
    /\ UNCHANGED <<traces, pc, trace, backendVars, rates, published>>

SetAll == published' = result

SyncSetAll ==
    /\ sync = "unlocked"
    /\ sync' = "idle"
    /\ SetAll
    /\ UNCHANGED <<traces, pc, trace, catalog, backendVars, rates, result>>

-----------------------------------------------------------------------------
Sample(t) ==
    \/ \E p \in Priorities : SampleUncounted(t, p)
    \/ \E s \in Services, p \in Priorities : SampleRegister(t, s, p)
    \/ SampleCountSignature(t)
    \/ CountSample(t)

Sync == SyncReadRates \/ SyncPruneCatalog \/ SyncSetAll

Next == (\E t \in Threads : Sample(t)) \/ DecayTick \/ Sync

Spec == Init /\ [][Next]_vars

-----------------------------------------------------------------------------
\* The total that the default rate and the adjustment of the scoring use holds the
\* score of every trace counted, decayed: the scores of the signatures and those
\* of the deleted entries, which decayScore leaves in it although the field is
\* said to be the sum of all signature scores, and nothing else.
TotalConserved == SumFunctionOnSet(scores, Services) + forgotten = totalScore

\* A service that sends no more traces disappears from the published rates and
\* from the catalog ("which have such a low value that they don't matter any
\* more").
SilentServicesForgotten == <>[](published = {} /\ catalog = {})
=============================================================================
