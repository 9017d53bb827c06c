---------------------------- MODULE StatsWriter ----------------------------
(***************************************************************************)
(* writer.StatsWriter: the goroutine of Run receives the buckets that the  *)
(* concentrator flushed, splits them into payloads of a bounded number of  *)
(* entries (buildPayloads) and sends these one after the other; a second   *)
(* goroutine (monitor) reads the events of the payload sender.             *)
(*                                                                         *)
(* A stats bucket is a time window and the set of its keys; every entry    *)
(* counts 1 and the keys in DistKeys have a distribution of weight 1 too.  *)
(* Go visits the entries of a map in any order.                            *)
(***************************************************************************)
EXTENDS Integers, Sequences, FiniteSets, Functions

CONSTANTS
    Windows,                \* time windows (start and duration)
    Keys,                   \* keys of the count maps
    DistKeys,               \* keys with a distribution
    MaxEntriesPerPayload,   \* conf.MaxEntriesPerPayload; not positive: no limit
    MaxBuckets,             \* bound: buckets per flush of the concentrator
    MaxFlushes              \* bound: flushes received

ASSUME ConfAssumption ==
    /\ DistKeys \subseteq Keys
    /\ IsFiniteSet(Windows) /\ IsFiniteSet(Keys)
    /\ MaxEntriesPerPayload \in Int
    /\ MaxBuckets \in Nat /\ MaxFlushes \in Nat

Bucket == [window : Windows, keys : SUBSET Keys]
Slot   == Windows \X Keys

\* The argument of handleStats.
Flushes == UNION {[1 .. n -> Bucket] : n \in 0 .. MaxBuckets}

\* Concentrator.Flush builds its buckets from a map by start time, so their
\* windows differ; buildPayloads allows buckets of one window, as its tests do.
OneBucketPerWindow(f) == \A j, k \in DOMAIN f : j # k => f[j].window # f[k].window

VARIABLES
    pc,             \* where the goroutine of Run is
    stats,          \* the argument of handleStats
    todo,           \* entries buildPayloads has not placed: <<bucket, key>>
    index,          \* the counter i of buildPayloads
    payloads,       \* counts and distributions per payload, as slots
    sent,           \* number of payloads of the current flush sent
    flushes,        \* number of flushes received
    monitor,        \* where the monitoring goroutine is
    stop            \* progress of the caller of Stop

vars == <<pc, stats, todo, index, payloads, sent, flushes, monitor, stop>>

EmptyPayload == [counts |-> [s \in Slot |-> 0], dists |-> [s \in Slot |-> 0]]

NbEntries(f) == SumFunction([b \in DOMAIN f |-> Cardinality(f[b].keys)])

Init ==
    /\ pc = "starting"
    /\ stats = <<>>
    /\ todo = {}
    /\ index = 0
    /\ payloads = <<>>
    /\ sent = 0
    /\ flushes = 0
    /\ monitor = "select"
    /\ stop = "no"

RunBegin ==
    /\ pc = "starting"
    /\ pc' = "select"
    /\ UNCHANGED <<stats, todo, index, payloads, sent, flushes, monitor, stop>>

-----------------------------------------------------------------------------
(* buildPayloads.                                                           *)

\* The payload of the early return: the buckets as they are.
Unsplit(f) ==
    LET times(w, k) == Cardinality({j \in DOMAIN f : f[j].window = w /\ k \in f[j].keys})
    IN  [counts |-> [s \in Slot |-> times(s[1], s[2])],
         dists  |-> [s \in Slot |-> IF s[2] \in DistKeys THEN times(s[1], s[2]) ELSE 0]]

NbPayloads(f) ==
    LET n == NbEntries(f)
    IN  (n \div MaxEntriesPerPayload) + (IF n % MaxEntriesPerPayload # 0 THEN 1 ELSE 0)

\* case stats := <-w.InStats
ReceiveStats(f) ==
    /\ pc = "select"
    /\ flushes < MaxFlushes
    /\ flushes' = flushes + 1
    /\ stats' = f
    /\ sent' = 0
    /\ index' = 0
    /\ IF f = <<>>
       THEN pc' = "select" /\ todo' = {} /\ payloads' = <<>>
       ELSE IF MaxEntriesPerPayload <= 0 \/ NbEntries(f) < MaxEntriesPerPayload
       THEN pc' = "send" /\ todo' = {} /\ payloads' = <<Unsplit(f)>>
       ELSE /\ pc' = "place"
            /\ todo' = UNION {{<<b, k>> : k \in f[b].keys} : b \in DOMAIN f}
            /\ payloads' = [p \in 1 .. NbPayloads(f) |-> EmptyPayload]
    /\ UNCHANGED <<monitor, stop>>

\* The counts of a key already present in the new bucket are merged by value:
\* newsb.Counts[ekey].Merge(e) returns the sum, which is not stored.
MergeCount(old) == IF old = 0 THEN 1 ELSE old

\* Distribution.Merge updates the summary the new bucket points to.
MergeDist(old, k) == IF k \in DistKeys THEN old + 1 ELSE old

InFreshBucket(payload, w, k) ==
    [counts |-> [s \in Slot |-> IF s = <<w, k>> THEN 1
                                ELSE IF s[1] = w THEN 0 ELSE payload.counts[s]],
     dists  |-> [s \in Slot |-> IF s = <<w, k>> THEN MergeDist(0, k)
                                ELSE IF s[1] = w THEN 0 ELSE payload.dists[s]]]

AddEntry(payload, w, k) ==
    [counts |-> [payload.counts EXCEPT ![<<w, k>>] = MergeCount(@)],
     dists  |-> [payload.dists EXCEPT ![<<w, k>>] = MergeDist(@, k)]]

\* One iteration over the entries of the buckets, in the order of the buckets.
PlaceEntry(b, k) ==
    /\ pc = "place"
    /\ <<b, k>> \in todo
    /\ \A e \in todo : b <= e[1]
    /\ todo' = todo \ {<<b, k>>}
    /\ payloads' = [payloads EXCEPT ![(index % Len(payloads)) + 1] =
                                       AddEntry(@, stats[b].window, k)]
    /\ index' = index + 1
    /\ UNCHANGED <<pc, stats, sent, flushes, monitor, stop>>

PlacingEnds ==
    /\ pc = "place"
    /\ todo = {}
    /\ pc' = "send"
    /\ UNCHANGED <<stats, todo, index, payloads, sent, flushes, monitor, stop>>

-----------------------------------------------------------------------------
(* The rest of handleStats: encode and send the payloads in turn.           *)

\* The sender takes the next payload.
SendNext ==
    /\ pc = "send"
    /\ sent < Len(payloads)
    /\ stop # "stopped"
    /\ sent' = sent + 1
    /\ pc' = IF sent + 1 = Len(payloads) THEN "select" ELSE "send"
    /\ UNCHANGED <<stats, todo, index, payloads, flushes, monitor, stop>>

\* After a Stop that overtook Run, the sender is being stopped: once its channel
\* is closed, the send panics, and the panic ends the process.
SendPanics ==
    /\ pc = "send"
    /\ stop \in {"stopped", "overtook"}
    /\ pc' = "panic"
    /\ UNCHANGED <<stats, todo, index, payloads, sent, flushes, monitor, stop>>

\* An encoding error ends handleStats.
EncodeFails ==
    /\ pc = "send"
    /\ pc' = "select"
    /\ UNCHANGED <<stats, todo, index, payloads, sent, flushes, monitor, stop>>

-----------------------------------------------------------------------------
(* Exit, Stop and the monitoring goroutine.                                 *)

ReceiveExit ==
    /\ pc = "select"
    /\ stop # "no"
    /\ pc' = "done"
    /\ UNCHANGED <<stats, todo, index, payloads, sent, flushes, monitor, stop>>

\* Run enters the wait group itself: Stop may be called before it has.
StopCloseExit ==
    /\ stop = "no"
    /\ stop' = "waiting"
    /\ UNCHANGED <<pc, stats, todo, index, payloads, sent, flushes, monitor>>

\* exitWG.Wait(), which does not wait before Run has begun; BaseWriter.Stop()
\* then closes the channels of the sender.
StopWait ==
    /\ stop = "waiting"
    /\ pc \in {"starting", "done"}
    /\ stop' = IF pc = "starting" THEN "overtook" ELSE "stopped"
    /\ UNCHANGED <<pc, stats, todo, index, payloads, sent, flushes, monitor>>

\* case e, ok := <-monC: on a closed channel, ok is false and the break leaves
\* the select, not the loop.
MonitorReceivesClosed ==
    /\ monitor = "select"
    /\ stop \in {"stopped", "overtook"}
    /\ pc # "panic"
    /\ monitor' = "break"
    /\ UNCHANGED <<pc, stats, todo, index, payloads, sent, flushes, stop>>

MonitorAfterBreak ==
    /\ monitor = "break"
    /\ pc # "panic"
    /\ monitor' = "select"
    /\ UNCHANGED <<pc, stats, todo, index, payloads, sent, flushes, stop>>

-----------------------------------------------------------------------------
Next ==
    \/ RunBegin
    \/ \E f \in Flushes : ReceiveStats(f)
    \/ \E e \in todo : PlaceEntry(e[1], e[2])
    \/ PlacingEnds \/ SendNext \/ SendPanics \/ EncodeFails
    \/ ReceiveExit \/ StopCloseExit \/ StopWait
    \/ MonitorReceivesClosed \/ MonitorAfterBreak

Spec == Init /\ [][Next]_vars

-----------------------------------------------------------------------------
Placed(field, s) == SumFunction([p \in DOMAIN payloads |-> payloads[p][field][s]])

\* "We must check that we never overwrite an entry in the new stats buckets but
\* cleanly merge instead": the payloads that are sent hold the counts that came
\* in.
CountsConserved ==
    pc = "send" => \A s \in Slot : Placed("counts", s) = Unsplit(stats).counts[s]

\* The payloads that are sent hold the distributions that came in, even when
\* two buckets share a window and keys land in one payload twice, and for what
\* the concentrator flushes the counts that came in too, whatever the order in
\* which Go visits the maps.  No payload holds more than MaxEntriesPerPayload
\* entries, and none is empty when the flush is not: round robin over the
\* rounded-up number of payloads spreads the entries evenly.
SplitConserves ==
    /\ pc = "send" => \A s \in Slot : Placed("dists", s) = Unsplit(stats).dists[s]
    /\ OneBucketPerWindow(stats) => CountsConserved
    /\ pc = "send" /\ MaxEntriesPerPayload > 0 /\ NbEntries(stats) > 0 =>
        \A p \in DOMAIN payloads :
            Cardinality({s \in Slot : payloads[p].counts[s] > 0})
                \in 1 .. MaxEntriesPerPayload

=============================================================================
