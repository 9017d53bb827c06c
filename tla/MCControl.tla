----------------------------- MODULE MCControl -----------------------------
(* The mechanisms by which the agent holds itself back, each alone: the     *)
(* backoff of the senders, on 8-bit integers, the admission of connections, *)
(* that of payloads, and the scores behind the rates given to clients.      *)
EXTENDS BackoffTimer, Admission, PrioritySampler

VARIABLE which

\* The smallest base the agent's configuration can set is one millisecond, a
\* million of the units of int64, so Base = 1 is left out; growth bases 1
\* (constant delay) to 5 reach and skip the power that equals MaxInt + 1, and
\* the powers of -3 change their sign.
MCConfigs ==
    [GrowthBase : {-3, 1, 2, 3, 4, 5}, Base : {2, 5, 8}, MaxDuration : {1, 12, 100}]

MCPreSampleRates == {One, [n |-> 1, d |-> 2], [n |-> 1, d |-> 10]}

AConf == CHOOSE c \in Configs : TRUE

MCInit ==
    /\ TimerInit
    /\ AdmissionInit
    /\ Init
    /\ \/ which = "backoff" /\ preSampleRate = One
       \/ which = "payloads" /\ conf = AConf
       \/ which = "connections" /\ preSampleRate = One /\ conf = AConf
       \/ which = "priority" /\ preSampleRate = One /\ conf = AConf

mcVars == <<which, timerVars, admissionVars, vars>>
OthersUnchanged == UNCHANGED <<which, timerVars, admissionVars>>
Sampler(A) == which = "priority" /\ A /\ OthersUnchanged

MCNext ==
    \/ which = "backoff" /\ TimerNext /\ UNCHANGED <<which, admissionVars, vars>>
    \/ which = "payloads" /\ AdmissionNext /\ UNCHANGED <<which, timerVars, listenerVars, vars>>
    \/ which = "connections" /\ AdmissionNext /\ UNCHANGED <<which, timerVars, samplerVars, vars>>
    \/ Sampler(Next)

\* The tickers of the priority sampler tick, and a goroutine that began to sample
\* goes on.
MCFairness ==
    /\ WF_mcVars(Sampler(DecayTick))
    /\ WF_mcVars(Sampler(Sync))
    /\ \A th \in Threads :
        WF_mcVars(Sampler(SampleCountSignature(th) \/ CountSample(th)))

MCSpec == MCInit /\ [][MCNext]_mcVars /\ MCFairness
=============================================================================
