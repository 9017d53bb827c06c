------------------------- MODULE ConcentratorProofs -------------------------
(***************************************************************************)
(* Proofs about the concentrator, for every bucket length, every phase of  *)
(* the ticker and any number of spans.                                     *)
(***************************************************************************)
EXTENDS Concentrator, FiniteSetTheorems, TLAPS

\* Types, and what relates the two readings of the clock.
TypeInv ==
    /\ now \in Nat /\ flushNow \in Nat /\ flushNow <= now
    /\ ticker \in [next : Int, waiting : BOOLEAN]
    /\ processed \in Nat
    /\ buckets \in [Starts -> Nat]
    /\ outgoing \in [Starts -> Nat]
    /\ delivered \in [Starts -> Nat]
    /\ flushed \subseteq Starts
    /\ slow \in BOOLEAN
    /\ pc \in {"starting", "select", "flush", "send", "lastFlush", "lastSend", "done"}
    /\ stop \in {"no", "waiting", "stopped", "overtook"}

\* Every trace that a goroutine is about to add has an id of its own, which no
\* span that was added has.
AddingInv ==
    /\ \A a \in adding : a.id \in 1 .. processed /\ a.ends \in Trace
    /\ \A a, b \in adding : a.id = b.id => a = b
    /\ IsFiniteSet(adds)
    /\ \A x \in adds : /\ x.id[1] \in 1 .. processed
                       /\ x.end \in Times /\ x.at \in 0 .. now
                       /\ \A a \in adding : a.id # x.id[1]

\* The send to OutStats is over before the next flush.
OutgoingInv == pc \notin {"send", "lastSend"} => outgoing = None

\* A remainder is smaller than the length of a bucket.
LEMMA Remainder ==
  ASSUME NEW e \in Nat
  PROVE  /\ e % BSize \in 0 .. BSize - 1
         /\ e \div BSize \in Nat
         /\ e = BSize * (e \div BSize) + (e % BSize)
<1>0. BSize \in Nat \ {0}
  BY ConfAssumption
<1>1. e % BSize \in 0 .. BSize - 1
  BY <1>0
<1>2. e \div BSize \in Int
  BY <1>0
<1>3. e \div BSize >= 0
  BY <1>0
<1>4. e = BSize * (e \div BSize) + (e % BSize)
  BY <1>0
<1> QED
  BY <1>1, <1>2, <1>3, <1>4

\* Products are ordered as their factors.
LEMMA ProductOrder ==
  ASSUME NEW p \in Nat, NEW q \in Nat, p < q
  PROVE  BSize * p + BSize <= BSize * q
<1>1. p + 1 <= q /\ BSize \in Nat
  BY ConfAssumption
<1>2. BSize * (p + 1) <= BSize * q
  BY <1>1
<1>3. BSize * (p + 1) = BSize * p + BSize
  BY <1>1
<1> QED
  BY <1>2, <1>3

\* btime: a span belongs to the bucket whose window holds its end.
LEMMA BucketOf ==
  ASSUME NEW e \in Times, NEW s \in Starts
  PROVE  BTime(e) = s <=> e \in s .. s + BSize - 1
<1> DEFINE q == e \div BSize
           r == e % BSize
           p == s \div BSize
<1>1. e \in Nat /\ s \in Nat /\ s % BSize = 0 /\ BSize \in Nat \ {0}
  BY ConfAssumption DEF Times, Starts
<1>2. q \in Nat /\ p \in Nat /\ r \in 0 .. BSize - 1 /\ e = BSize * q + r /\ s = BSize * p + 0
  BY <1>1, Remainder
<1>3. BTime(e) = e - r
  BY DEF BTime
<1>4. p < q => BSize * p + BSize <= BSize * q
  BY <1>2, ProductOrder
<1>5. q < p => BSize * q + BSize <= BSize * p
  BY <1>2, ProductOrder
<1> HIDE DEF q, r, p
<1>6. BSize * q \in Int /\ BSize * p \in Int
  BY <1>1, <1>2
<1>7. p = q \/ p < q \/ q < p
  BY <1>2
<1>8. CASE p = q
  BY <1>1, <1>2, <1>3, <1>6, <1>8
<1>9. CASE p < q
  BY <1>1, <1>2, <1>3, <1>4, <1>6, <1>9
<1>10. CASE q < p
  BY <1>1, <1>2, <1>3, <1>5, <1>6, <1>10
<1> QED
  BY <1>7, <1>8, <1>9, <1>10

\* A trace has one or two top-level spans in this model.
LEMMA TraceType ==
  ASSUME NEW t \in Trace
  PROVE  /\ Len(t) \in {1, 2} /\ DOMAIN t = 1 .. Len(t)
         /\ \A k \in DOMAIN t : t[k] \in Times
  BY DEF Trace

\* SpansIn counts the spans of a trace in a bucket.
LEMMA SpansInType ==
  ASSUME NEW t \in Trace, NEW s
  PROVE  /\ SpansIn(t, s) \in Nat
         /\ IsFiniteSet({k \in DOMAIN t : BTime(t[k]) = s})
         /\ SpansIn(t, s) > 0 => \E k \in DOMAIN t : BTime(t[k]) = s
<1> DEFINE K == {k \in DOMAIN t : BTime(t[k]) = s}
<1>1. DOMAIN t = 1 .. Len(t) /\ Len(t) \in Nat
  BY TraceType
<1>2. IsFiniteSet(DOMAIN t)
  BY <1>1, FS_Interval
<1>3. K \in SUBSET DOMAIN t
  OBVIOUS
<1>4. IsFiniteSet(K)
  <2> HIDE DEF K
  <2> QED
    BY <1>2, <1>3, FS_Subset
<1>5. Cardinality(K) \in Nat /\ (Cardinality(K) = 0 <=> K = {})
  <2> HIDE DEF K
  <2> QED
    BY <1>4, FS_CardinalityType, FS_EmptySet
<1>6. SpansIn(t, s) = Cardinality(K)
  BY DEF SpansIn
<1>7. K # {} => \E k \in DOMAIN t : BTime(t[k]) = s
  OBVIOUS
<1> HIDE DEF K
<1>8. SpansIn(t, s) \in Nat /\ (SpansIn(t, s) > 0 => K # {})
  BY <1>5, <1>6
<1> QED
  BY <1>4, <1>7, <1>8 DEF K

\* Every step keeps the types.
LEMMA NextTypeInv == TypeInv /\ AddingInv /\ [Next]_vars => TypeInv'
<1> SUFFICES ASSUME TypeInv, AddingInv, [Next]_vars PROVE TypeInv'
  OBVIOUS
<1> USE ConfAssumption DEF TypeInv
<1>1. CASE UNCHANGED vars
  BY <1>1 DEF vars
<1>2. CASE ClockTick
  <2>1. ticker' \in [next : Int, waiting : BOOLEAN]
    BY <1>2 DEF ClockTick
  <2>2. now' \in Nat /\ flushNow' <= now' /\ flushNow' \in Nat
    BY <1>2 DEF ClockTick
  <2>3. slow' \in BOOLEAN
    BY <1>2 DEF ClockTick
  <2> QED
    BY <1>2, <2>1, <2>2, <2>3 DEF ClockTick
<1>3. ASSUME NEW t \in Trace, Process(t) PROVE TypeInv'
  <2>1. processed' \in Nat
    BY <1>3, TraceType DEF Process
  <2> QED
    BY <1>3, <2>1 DEF Process
<1>4. ASSUME NEW a \in adding, Add(a) PROVE TypeInv'
  <2>1. a.ends \in Trace
    BY DEF AddingInv
  <2>2. \A s \in Starts : SpansIn(a.ends, s) \in Nat
    BY <2>1, SpansInType
  <2>3. buckets' \in [Starts -> Nat]
    BY <1>4, <2>2 DEF Add, AddSpans
  <2> QED
    BY <1>4, <2>3 DEF Add
<1>5. CASE RunBegin
  BY <1>5 DEF RunBegin
<1>6. CASE FlushTick
  <2>1. ticker' \in [next : Int, waiting : BOOLEAN]
    BY <1>6 DEF FlushTick
  <2>2. flushNow' = now /\ now' = now
    BY <1>6 DEF FlushTick
  <2> QED
    BY <1>6, <2>1, <2>2 DEF FlushTick
<1>7. CASE ReceiveExit
  BY <1>7 DEF ReceiveExit
<1>8. CASE Flush
  <2>1. buckets' \in [Starts -> Nat] /\ outgoing' \in [Starts -> Nat] /\ flushed' \subseteq Starts
    BY <1>8 DEF Flush
  <2> QED
    BY <1>8, <2>1 DEF Flush
<1>9. CASE StatsReceived
  <2>1. delivered' \in [Starts -> Nat] /\ outgoing' \in [Starts -> Nat]
    BY <1>9 DEF StatsReceived, None
  <2> QED
    BY <1>9, <2>1 DEF StatsReceived
<1>10. CASE StopCloseExit \/ StopWait
  BY <1>10 DEF StopCloseExit, StopWait
<1> QED
  BY <1>1, <1>2, <1>3, <1>4, <1>5, <1>6, <1>7, <1>8, <1>9, <1>10 DEF Next

\* The record of a span that Add counts.
AddedSpan(a, k) == [id |-> <<a.id, k>>, end |-> a.ends[k], at |-> now,
                    late |-> BTime(a.ends[k]) \in flushed]

NewSpans(a) == {AddedSpan(a, k) : k \in DOMAIN a.ends}

\* The spans that Add records are finitely many, and new.
LEMMA NewSpansType ==
  ASSUME TypeInv, AddingInv, NEW a \in adding
  PROVE  /\ IsFiniteSet(NewSpans(a))
         /\ NewSpans(a) \cap adds = {}
         /\ \A x \in NewSpans(a) : /\ x.id[1] = a.id /\ x.at = now
                                   /\ \E k \in DOMAIN a.ends : x = AddedSpan(a, k)
                                   /\ x.end \in Times
<1>1. a.ends \in Trace /\ \A x \in adds : a.id # x.id[1]
  BY DEF AddingInv
<1>2. DOMAIN a.ends = 1 .. Len(a.ends) /\ Len(a.ends) \in Nat
      /\ \A k \in DOMAIN a.ends : a.ends[k] \in Times
  BY <1>1, TraceType
<1>3. \A x \in NewSpans(a) : /\ x.id[1] = a.id /\ x.at = now
                             /\ \E k \in DOMAIN a.ends : x = AddedSpan(a, k)
                             /\ x.end \in Times
  BY <1>2 DEF NewSpans, AddedSpan
<1>4. IsFiniteSet(NewSpans(a))
  <2> DEFINE f == [k \in DOMAIN a.ends |-> AddedSpan(a, k)]
  <2>1. f \in Surjection(DOMAIN a.ends, NewSpans(a))
    BY DEF Surjection, NewSpans
  <2>2. IsFiniteSet(DOMAIN a.ends)
    BY <1>2, FS_Interval
  <2> HIDE DEF f
  <2> QED
    BY <2>1, <2>2, FS_Surjection
<1> QED
  BY <1>1, <1>3, <1>4

\* What Add does, in these terms.
LEMMA AddStep ==
  ASSUME NEW a, Add(a)
  PROVE  /\ adds' = adds \cup NewSpans(a)
         /\ adding' = adding \ {a}
         /\ buckets' = [s \in Starts |-> buckets[s] + SpansIn(a.ends, s)]
         /\ UNCHANGED <<now, ticker, processed, flushNow, outgoing, delivered, flushed,
                        pc, stop, slow>>
  BY DEF Add, AddSpans, NewSpans, AddedSpan

\* Every step keeps the ids apart.
LEMMA NextAdding == TypeInv /\ AddingInv /\ [Next]_vars => AddingInv'
<1> SUFFICES ASSUME TypeInv, AddingInv, [Next]_vars PROVE AddingInv'
  OBVIOUS
<1>1. CASE UNCHANGED <<now, processed, adding, adds>>
  BY <1>1 DEF AddingInv
<1>2. CASE ClockTick
  <2>1. now' = now + 1 /\ UNCHANGED <<processed, adding, adds>> /\ now \in Nat
    BY <1>2 DEF ClockTick, TypeInv
  <2> QED
    BY <2>1 DEF AddingInv
<1>3. ASSUME NEW t \in Trace, Process(t) PROVE AddingInv'
  <2> DEFINE new == [id |-> processed + 1, ends |-> t]
  <2>1. /\ processed' = processed + Len(t)
        /\ adding' = adding \/ adding' = adding \cup {new}
        /\ UNCHANGED <<now, adds>>
    BY <1>3 DEF Process
  <2>2. processed \in Nat /\ processed + 1 <= processed' /\ processed' \in Nat
    <3>1. Len(t) \in Nat /\ Len(t) >= 1
      BY TraceType
    <3> QED
      BY <2>1, <3>1 DEF TypeInv
  <2>3. \A a \in adding' : \/ a \in adding /\ a.id \in 1 .. processed
                           \/ a.id = processed + 1 /\ a = new /\ a.ends \in Trace
    BY <2>1 DEF AddingInv
  <2> HIDE DEF new
  <2>4. \A a \in adding' : a.id \in 1 .. processed' /\ a.ends \in Trace
    BY <2>2, <2>3 DEF AddingInv
  <2>5. \A a, b \in adding' : a.id = b.id => a = b
    BY <2>2, <2>3 DEF AddingInv
  <2>6. \A x \in adds : x.id[1] \in 1 .. processed' /\ \A a \in adding' : a.id # x.id[1]
    BY <2>2, <2>3 DEF AddingInv
  <2> QED
    BY <2>1, <2>4, <2>5, <2>6 DEF AddingInv
<1>4. ASSUME NEW a \in adding, Add(a) PROVE AddingInv'
  <2>1. IsFiniteSet(adds')
    <3>1. IsFiniteSet(adds) /\ IsFiniteSet(NewSpans(a)) /\ adds' = adds \cup NewSpans(a)
      BY <1>4, AddStep, NewSpansType DEF AddingInv
    <3> QED
      BY <3>1, FS_Union
  <2>2. now \in Nat
    BY DEF TypeInv
  <2>3. \A x \in NewSpans(a) : /\ x.id[1] \in 1 .. processed
                               /\ x.end \in Times /\ x.at \in 0 .. now
                               /\ \A b \in adding \ {a} : b.id # x.id[1]
    BY <2>2, NewSpansType DEF AddingInv
  <2> QED
    BY <1>4, <2>1, <2>3, AddStep DEF AddingInv
<1>5. \/ UNCHANGED <<now, processed, adding, adds>>
      \/ ClockTick
      \/ \E t \in Trace : Process(t)
      \/ \E a \in adding : Add(a)
  BY DEF Next, vars, RunBegin, FlushTick, ReceiveExit, Flush, StatsReceived, StopCloseExit,
         StopWait
<1> QED
  BY <1>1, <1>2, <1>3, <1>4, <1>5

\* Every step keeps OutStats empty between two sends.
LEMMA NextOutgoing == OutgoingInv /\ [Next]_vars => OutgoingInv'
  BY DEF OutgoingInv, Next, vars, ClockTick, Process, Add, RunBegin, FlushTick,
         ReceiveExit, Flush, StatsReceived, StopCloseExit, StopWait

-----------------------------------------------------------------------------
(* Conservation.                                                            *)

SpansAdded(s) == {a \in adds : a.end \in s .. s + BSize - 1}

\* Add records as many spans of a bucket as it counts in it.
LEMMA AddedInBucket ==
  ASSUME TypeInv, AddingInv, NEW a \in adding, NEW s \in Starts
  PROVE  LET new == {x \in NewSpans(a) : x.end \in s .. s + BSize - 1}
         IN  IsFiniteSet(new) /\ Cardinality(new) = SpansIn(a.ends, s)
<1> DEFINE K == {k \in DOMAIN a.ends : BTime(a.ends[k]) = s}
           new == {x \in NewSpans(a) : x.end \in s .. s + BSize - 1}
           f == [k \in K |-> AddedSpan(a, k)]
<1>1. a.ends \in Trace
  BY DEF AddingInv
<1>2. \A k \in DOMAIN a.ends : a.ends[k] \in Times
  BY <1>1, TraceType
<1>3. \A k \in DOMAIN a.ends : k \in K <=> a.ends[k] \in s .. s + BSize - 1
  BY <1>2, BucketOf
<1>4. \A k \in DOMAIN a.ends : AddedSpan(a, k).end = a.ends[k]
  BY DEF AddedSpan
<1>5. \A k \in K : AddedSpan(a, k) \in new
  BY <1>3, <1>4 DEF NewSpans
<1>6. \A x \in new : \E k \in K : x = AddedSpan(a, k)
  BY <1>3, <1>4 DEF NewSpans
<1>7. \A j, k \in K : AddedSpan(a, j) = AddedSpan(a, k) => j = k
  <2> SUFFICES ASSUME NEW j \in K, NEW k \in K, AddedSpan(a, j) = AddedSpan(a, k)
               PROVE  j = k
    OBVIOUS
  <2>1. AddedSpan(a, j).id = <<a.id, j>> /\ AddedSpan(a, k).id = <<a.id, k>>
    BY DEF AddedSpan
  <2>2. <<a.id, j>> = <<a.id, k>>
    BY <2>1
  <2> QED
    BY <2>2
<1>8. IsFiniteSet(K) /\ SpansIn(a.ends, s) = Cardinality(K)
  BY <1>1, SpansInType DEF SpansIn
<1> HIDE DEF K, new
<1>9. f \in Bijection(K, new)
  BY <1>5, <1>6, <1>7 DEF Bijection, Injection, Surjection, IsInjective
<1>10. ExistsBijection(K, new)
  BY <1>9 DEF ExistsBijection
<1>11. IsFiniteSet(new) /\ Cardinality(new) = Cardinality(K)
  BY <1>8, <1>10, FS_Bijection
<1> QED
  BY <1>8, <1>11 DEF new

\* Add counts what it records.
LEMMA AddConserves ==
  ASSUME TypeInv, AddingInv, SpansConserved, NEW a \in adding, Add(a)
  PROVE  SpansConserved'
<1> SUFFICES ASSUME NEW s \in Starts
             PROVE  Cardinality(SpansAdded(s)') = buckets'[s] + outgoing'[s] + delivered'[s]
  BY DEF SpansConserved, SpansAdded
<1> DEFINE old == SpansAdded(s)
           new == {x \in NewSpans(a) : x.end \in s .. s + BSize - 1}
<1>1. adds' = adds \cup NewSpans(a) /\ NewSpans(a) \cap adds = {}
  BY AddStep, NewSpansType
<1>2. SpansAdded(s)' = old \cup new /\ old \cap new = {}
  BY <1>1 DEF SpansAdded
<1>3. IsFiniteSet(old)
  <2>1. old \in SUBSET adds /\ IsFiniteSet(adds)
    BY DEF SpansAdded, AddingInv
  <2> HIDE DEF old
  <2> QED
    BY <2>1, FS_Subset
<1>4. IsFiniteSet(new) /\ Cardinality(new) = SpansIn(a.ends, s)
  BY AddedInBucket
<1> HIDE DEF old, new
<1>5. Cardinality(old \cup new) = Cardinality(old) + Cardinality(new) - Cardinality(old \cap new)
  BY <1>3, <1>4, FS_Union
<1>6. Cardinality(old \cap new) = 0 /\ Cardinality(old) \in Nat /\ Cardinality(new) \in Nat
  BY <1>2, <1>3, <1>4, FS_EmptySet, FS_CardinalityType
<1>7. Cardinality(SpansAdded(s)') = Cardinality(old) + SpansIn(a.ends, s)
  BY <1>2, <1>4, <1>5, <1>6
<1>8. Cardinality(old) = buckets[s] + outgoing[s] + delivered[s]
  BY DEF SpansConserved, SpansAdded, old
<1>9. /\ buckets'[s] = buckets[s] + SpansIn(a.ends, s)
      /\ outgoing'[s] = outgoing[s] /\ delivered'[s] = delivered[s]
  BY AddStep
<1>10. /\ buckets[s] \in Nat /\ outgoing[s] \in Nat /\ delivered[s] \in Nat
       /\ SpansIn(a.ends, s) \in Nat
  BY <1>4, <1>6 DEF TypeInv
<1> QED
  BY <1>7, <1>8, <1>9, <1>10

\* Every step keeps the spans accounted for.
LEMMA NextConserved ==
    TypeInv /\ AddingInv /\ OutgoingInv /\ SpansConserved /\ [Next]_vars => SpansConserved'
<1> SUFFICES ASSUME TypeInv, AddingInv, OutgoingInv, SpansConserved, [Next]_vars
             PROVE  SpansConserved'
  OBVIOUS
<1>1. CASE UNCHANGED <<buckets, outgoing, delivered, adds>>
  BY <1>1 DEF SpansConserved
<1>2. ASSUME NEW a \in adding, Add(a) PROVE SpansConserved'
  BY <1>2, AddConserves
<1>3. CASE Flush
  <2>1. outgoing = None /\ UNCHANGED <<adds, delivered>>
    BY <1>3 DEF Flush, OutgoingInv
  <2>2. ASSUME NEW s \in Starts
        PROVE  buckets'[s] + outgoing'[s] + delivered'[s] = buckets[s] + outgoing[s] + delivered[s]
    <3>1. buckets[s] \in Nat /\ delivered[s] \in Nat /\ outgoing[s] = 0
      BY <2>1 DEF TypeInv, None
    <3>2. /\ outgoing'[s] = IF Keeps(s) THEN 0 ELSE buckets[s]
          /\ buckets'[s] = IF Keeps(s) THEN buckets[s] ELSE 0
          /\ delivered'[s] = delivered[s]
      BY <1>3 DEF Flush
    <3> QED
      BY <3>1, <3>2
  <2> QED
    BY <2>1, <2>2 DEF SpansConserved
<1>4. CASE StatsReceived
  <2>1. UNCHANGED <<adds, buckets>>
    BY <1>4 DEF StatsReceived
  <2>2. ASSUME NEW s \in Starts
        PROVE  buckets'[s] + outgoing'[s] + delivered'[s] = buckets[s] + outgoing[s] + delivered[s]
    <3>1. buckets[s] \in Nat /\ delivered[s] \in Nat /\ outgoing[s] \in Nat
      BY DEF TypeInv
    <3>2. /\ outgoing'[s] = 0 /\ buckets'[s] = buckets[s]
          /\ delivered'[s] = delivered[s] + outgoing[s]
      BY <1>4 DEF StatsReceived, None
    <3> QED
      BY <3>1, <3>2
  <2> QED
    BY <2>1, <2>2 DEF SpansConserved
<1>5. \/ UNCHANGED <<buckets, outgoing, delivered, adds>>
      \/ \E a \in adding : Add(a)
      \/ Flush \/ StatsReceived
  BY DEF Next, vars, ClockTick, Process, RunBegin, FlushTick, ReceiveExit, StopCloseExit,
         StopWait
<1> QED
  BY <1>1, <1>2, <1>3, <1>4, <1>5

\* The invariant of the concentrator and its goroutines.
BaseInv == TypeInv /\ AddingInv /\ OutgoingInv

\* The concentrator as it starts.
LEMMA InitBase == Init => BaseInv /\ adds = {} /\ buckets = None
<1> SUFFICES ASSUME Init PROVE BaseInv
  BY DEF Init
<1>1. None \in [Starts -> Nat]
  BY DEF None
<1>2. TypeInv
  <2>1. now \in Nat /\ flushNow = 0 /\ ticker = [next |-> now + BSize, waiting |-> FALSE]
    BY ConfAssumption DEF Init
  <2>2. ticker \in [next : Int, waiting : BOOLEAN] /\ flushNow \in Nat /\ flushNow <= now
    BY <2>1, ConfAssumption
  <2> QED
    BY <1>1, <2>1, <2>2 DEF Init, TypeInv
<1>3. AddingInv
  BY FS_EmptySet DEF Init, AddingInv
<1>4. OutgoingInv
  BY DEF Init, OutgoingInv
<1> QED
  BY <1>2, <1>3, <1>4 DEF BaseInv

\* BaseInv is inductive.
LEMMA NextBase == BaseInv /\ [Next]_vars => BaseInv'
  BY NextTypeInv, NextAdding, NextOutgoing DEF BaseInv

\* Every span added is counted once, in the bucket of its window, however often
\* that bucket is flushed: it is in the concentrator, on its way to the stats
\* writer, or received by it.
THEOREM ConservationCorrect == Spec => []SpansConserved
<1>1. Init => BaseInv /\ SpansConserved
  <2> SUFFICES ASSUME Init PROVE SpansConserved
    BY InitBase
  <2>1. adds = {} /\ buckets = None /\ outgoing = None /\ delivered = None
    BY DEF Init
  <2>2. ASSUME NEW s \in Starts
        PROVE  Cardinality({a \in adds : a.end \in s .. s + BSize - 1})
                 = buckets[s] + outgoing[s] + delivered[s]
    <3>1. {a \in adds : a.end \in s .. s + BSize - 1} = {}
      BY <2>1
    <3>2. buckets[s] = 0 /\ outgoing[s] = 0 /\ delivered[s] = 0
      BY <2>1 DEF None
    <3>3. Cardinality({a \in adds : a.end \in s .. s + BSize - 1}) = 0
      BY <3>1, FS_EmptySet
    <3> QED
      BY <3>2, <3>3
  <2> QED
    BY <2>2 DEF SpansConserved
<1>2. BaseInv /\ SpansConserved /\ [Next]_vars => (BaseInv /\ SpansConserved)'
  BY NextBase, NextConserved DEF BaseInv
<1> QED
  BY <1>1, <1>2, PTL DEF Spec
-----------------------------------------------------------------------------
(* Lateness.                                                                *)

\* Only buckets that began two bucket lengths ago were flushed.
FlushedInv == \A s \in flushed : s <= now - 2 * BSize

LateInv == FlushedInv /\ OnTimeSpansFindTheirBucket

\* The bucket of a span begins less than a bucket length before its end.
LEMMA BucketBegin ==
  ASSUME NEW e \in Times
  PROVE  e \in Nat /\ BTime(e) \in Int /\ BTime(e) <= e /\ e < BTime(e) + BSize
<1>1. e \in Nat /\ BSize \in Nat
  BY ConfAssumption DEF Times
<1>2. e % BSize \in 0 .. BSize - 1
  BY <1>1, Remainder
<1> QED
  BY <1>1, <1>2 DEF BTime

\* Every step keeps the flushed buckets in the past.
LEMMA NextLate == BaseInv /\ LateInv /\ [Next]_vars => LateInv'
<1> SUFFICES ASSUME BaseInv, LateInv, [Next]_vars PROVE LateInv'
  OBVIOUS
<1>0. /\ TypeInv /\ AddingInv /\ now \in Nat /\ flushNow \in Nat /\ flushNow <= now
      /\ flushed \subseteq Starts /\ BSize \in Nat
      /\ \A s \in Starts : s \in Nat
  BY ConfAssumption DEF BaseInv, TypeInv, Starts, Times
<1>1. CASE UNCHANGED <<now, adds, flushed>>
  BY <1>1 DEF LateInv, FlushedInv, OnTimeSpansFindTheirBucket
<1>2. CASE ClockTick
  <2>1. now' = now + 1 /\ UNCHANGED <<adds, flushed>>
    BY <1>2 DEF ClockTick
  <2>2. FlushedInv'
    BY <1>0, <2>1 DEF LateInv, FlushedInv
  <2> QED
    BY <2>1, <2>2 DEF LateInv, OnTimeSpansFindTheirBucket
<1>3. ASSUME NEW a \in adding, Add(a) PROVE LateInv'
  <2>1. adds' = adds \cup NewSpans(a) /\ UNCHANGED <<now, flushed>>
    BY <1>3, AddStep
  <2>2. ASSUME NEW x \in NewSpans(a), x.late PROVE x.at - x.end > BSize
    <3>1. PICK k \in DOMAIN a.ends : x = AddedSpan(a, k)
      BY <1>0, NewSpansType
    <3>2. x.at = now /\ x.end = a.ends[k] /\ x.late = (BTime(a.ends[k]) \in flushed)
      BY <3>1 DEF AddedSpan
    <3>3. x.end \in Times
      BY <1>0, NewSpansType
    <3>4. BTime(x.end) \in flushed
      BY <2>2, <3>2
    <3>5. BTime(x.end) <= now - 2 * BSize
      BY <3>4 DEF LateInv, FlushedInv
    <3>6. x.end \in Nat /\ BTime(x.end) \in Int /\ x.end < BTime(x.end) + BSize
      BY <3>3, BucketBegin
    <3> QED
      BY <1>0, <3>2, <3>5, <3>6
  <2> QED
    BY <2>1, <2>2 DEF LateInv, FlushedInv, OnTimeSpansFindTheirBucket
<1>4. CASE Flush
  <2>1. /\ flushed' = flushed \cup {s \in Starts : buckets[s] > 0 /\ ~Keeps(s)}
        /\ UNCHANGED <<now, adds>>
    BY <1>4 DEF Flush
  <2>2. \A s \in Starts : ~Keeps(s) => s <= now - 2 * BSize
    BY <1>0 DEF Keeps
  <2> QED
    BY <2>1, <2>2 DEF LateInv, FlushedInv, OnTimeSpansFindTheirBucket
<1>5. \/ UNCHANGED <<now, adds, flushed>>
      \/ ClockTick \/ (\E a \in adding : Add(a)) \/ Flush
  BY DEF Next, vars, Process, RunBegin, FlushTick, ReceiveExit, StatsReceived,
         StopCloseExit, StopWait
<1> QED
  BY <1>1, <1>2, <1>3, <1>4, <1>5

\* A span added within one bucket length of its end finds its bucket open,
\* although Flush decides with a time that it read before it took the lock.
THEOREM LatenessCorrect == Spec => []OnTimeSpansFindTheirBucket
<1>1. Init => BaseInv /\ LateInv
  BY InitBase DEF Init, LateInv, FlushedInv, OnTimeSpansFindTheirBucket
<1>2. BaseInv /\ LateInv /\ [Next]_vars => (BaseInv /\ LateInv)'
  BY NextBase, NextLate
<1>3. LateInv => OnTimeSpansFindTheirBucket
  BY DEF LateInv
<1> QED
  BY <1>1, <1>2, <1>3, PTL DEF Spec

-----------------------------------------------------------------------------
(***************************************************************************)
(* What a flush leaves behind.  After a flush at time t, an open bucket is *)
(* recent or got a span since; the flush that matters is the last one of   *)
(* Run for Stop, and the one of the last tick for the delay.               *)
(***************************************************************************)
Recent(t) ==
    \A s \in Starts :
        buckets[s] > 0 => s > t - 2 * BSize \/ \E a \in adds : BTime(a.end) = s /\ a.at >= t

\* Nothing changes for a step that adds no span and opens no bucket.
LEMMA RecentUnchanged ==
  ASSUME NEW t, Recent(t), UNCHANGED <<buckets, adds>>
  PROVE  \A u : u = t => Recent(u)'
  BY DEF Recent

\* An older flush leaves more behind.
LEMMA RecentEarlier ==
  ASSUME BaseInv, NEW t \in Int, NEW u \in Int, u <= t, Recent(t)
  PROVE  Recent(u)
<1>1. /\ \A a \in adds : a.at \in Int
      /\ \A s \in Starts : s \in Int
      /\ BSize \in Int
  BY ConfAssumption DEF BaseInv, AddingInv, Starts, Times
<1> QED
  BY <1>1 DEF Recent

\* Whatever Add counts is added now.
LEMMA RecentAdd ==
  ASSUME BaseInv, NEW t \in Int, t <= now, Recent(t), NEW a \in adding, Add(a)
  PROVE  Recent(t)'
<1>0. TypeInv /\ AddingInv /\ a.ends \in Trace /\ now \in Nat
  BY DEF BaseInv, AddingInv, TypeInv
<1>1. /\ adds' = adds \cup NewSpans(a)
      /\ buckets' = [s \in Starts |-> buckets[s] + SpansIn(a.ends, s)]
  BY AddStep
<1> SUFFICES ASSUME NEW s \in Starts, buckets'[s] > 0
             PROVE  s > t - 2 * BSize \/ \E x \in adds' : BTime(x.end) = s /\ x.at >= t
  BY DEF Recent
<1>2. buckets[s] \in Nat /\ SpansIn(a.ends, s) \in Nat
      /\ (SpansIn(a.ends, s) > 0 => \E k \in DOMAIN a.ends : BTime(a.ends[k]) = s)
  BY <1>0, SpansInType DEF TypeInv
<1>3. buckets[s] > 0 \/ SpansIn(a.ends, s) > 0
  BY <1>1, <1>2
<1>4. CASE buckets[s] > 0
  BY <1>1, <1>4 DEF Recent
<1>5. CASE SpansIn(a.ends, s) > 0
  <2>1. PICK k \in DOMAIN a.ends : BTime(a.ends[k]) = s
    BY <1>2, <1>5
  <2>2. AddedSpan(a, k) \in NewSpans(a)
    BY DEF NewSpans
  <2>3. AddedSpan(a, k).end = a.ends[k] /\ AddedSpan(a, k).at = now
    BY DEF AddedSpan
  <2> QED
    BY <1>0, <1>1, <2>1, <2>2, <2>3
<1> QED
  BY <1>3, <1>4, <1>5

\* Flush itself.
LEMMA RecentFlush ==
  ASSUME BaseInv, Flush
  PROVE  Recent(flushNow)'
<1>1. /\ buckets' = [s \in Starts |-> IF Keeps(s) THEN buckets[s] ELSE 0]
      /\ UNCHANGED <<adds, flushNow>>
  BY DEF Flush
<1> QED
  BY <1>1 DEF Recent, Keeps

LastFlushInv ==
    /\ stop = "stopped" => pc = "done"
    /\ pc \in {"lastFlush", "lastSend", "done"} => stop # "no"
    /\ pc \in {"lastSend", "done"} => Recent(flushNow)

\* Every step keeps the result of the last flush.
LEMMA NextLastFlush == BaseInv /\ LastFlushInv /\ [Next]_vars => LastFlushInv'
<1> SUFFICES ASSUME BaseInv, LastFlushInv, [Next]_vars PROVE LastFlushInv'
  OBVIOUS
<1>0. TypeInv /\ now \in Nat /\ flushNow \in Nat /\ flushNow <= now
  BY DEF BaseInv, TypeInv
<1>1. CASE UNCHANGED <<buckets, adds, flushNow, pc, stop>>
  BY <1>1 DEF LastFlushInv, Recent
<1>2. ASSUME NEW a \in adding, Add(a) PROVE LastFlushInv'
  <2>1. UNCHANGED <<pc, stop, flushNow>>
    BY <1>2, AddStep
  <2>2. Recent(flushNow) => Recent(flushNow)'
    <3> SUFFICES ASSUME Recent(flushNow) PROVE Recent(flushNow)'
      OBVIOUS
    <3> DEFINE t == flushNow
    <3>1. t \in Int /\ t <= now /\ Recent(t)
      BY <1>0
    <3>2. ASSUME NEW u \in Int, u = t PROVE Recent(u)'
      BY <1>2, <3>1, <3>2, RecentAdd
    <3> QED
      BY <2>1, <3>1, <3>2 DEF Recent
  <2> QED
    BY <2>1, <2>2 DEF LastFlushInv
<1>3. CASE Flush
  BY <1>3, RecentFlush DEF Flush, LastFlushInv
<1>4. CASE RunBegin \/ FlushTick \/ ReceiveExit
  BY <1>4 DEF RunBegin, FlushTick, ReceiveExit, LastFlushInv
<1>5. CASE StatsReceived
  <2>1. UNCHANGED <<buckets, adds, flushNow, stop>>
    BY <1>5 DEF StatsReceived
  <2>2. Recent(flushNow) => Recent(flushNow)'
    BY <2>1 DEF Recent
  <2> QED
    BY <1>5, <2>1, <2>2 DEF StatsReceived, LastFlushInv
<1>6. CASE StopCloseExit \/ StopWait
  <2>1. UNCHANGED <<buckets, adds, flushNow, pc>>
    BY <1>6 DEF StopCloseExit, StopWait
  <2>2. Recent(flushNow) => Recent(flushNow)'
    BY <2>1 DEF Recent
  <2> QED
    BY <1>6, <2>1, <2>2 DEF StopCloseExit, StopWait, LastFlushInv
<1>7. \/ UNCHANGED <<buckets, adds, flushNow, pc, stop>>
      \/ (\E a \in adding : Add(a)) \/ Flush \/ RunBegin \/ FlushTick \/ ReceiveExit
      \/ StatsReceived \/ StopCloseExit \/ StopWait
  BY DEF Next, vars, ClockTick, Process
<1> QED
  BY <1>1, <1>2, <1>3, <1>4, <1>5, <1>6, <1>7

\* A Stop that waited returns only once the stats writer has received the last
\* flush; when Run has ended, whether Stop waited or overtook it, only spans added
\* after that flush are left in complete buckets.
THEOREM StopCorrect == Spec => []StopDeliversLastFlush
<1>1. Init => BaseInv /\ LastFlushInv
  BY InitBase DEF Init, LastFlushInv
<1>2. BaseInv /\ LastFlushInv /\ [Next]_vars => (BaseInv /\ LastFlushInv)'
  BY NextBase, NextLastFlush
<1>3. BaseInv /\ LastFlushInv => StopDeliversLastFlush
  <2> SUFFICES ASSUME BaseInv, LastFlushInv, pc = "done"
               PROVE  /\ stop # "no" /\ outgoing = None
                      /\ \A s \in Starts :
                            buckets[s] > 0 =>
                               \/ s + 2 * BSize > flushNow
                               \/ \E a \in adds : BTime(a.end) = s /\ a.at >= flushNow
    BY DEF StopDeliversLastFlush, LastFlushInv
  <2>1. pc = "done" /\ stop # "no" /\ Recent(flushNow)
    BY DEF LastFlushInv
  <2>2. outgoing = None
    BY <2>1 DEF BaseInv, OutgoingInv
  <2>3. flushNow \in Int /\ BSize \in Int /\ \A s \in Starts : s \in Int
    BY ConfAssumption DEF BaseInv, TypeInv, Starts, Times
  <2> QED
    BY <2>1, <2>2, <2>3 DEF Recent
<1> QED
  BY <1>1, <1>2, <1>3, PTL DEF Spec

-----------------------------------------------------------------------------
(* The delay.                                                               *)

\* Where the clock and the ticker are as long as Run is scheduled promptly: the
\* clock does not move between a tick and the end of the flush it causes.
PromptInv ==
    ~slow /\ stop = "no" =>
        /\ pc = "starting" => now = ticker.next - BSize /\ Recent(now)
        /\ pc = "select" /\ ~ticker.waiting =>
              /\ ticker.next - BSize <= now /\ now < ticker.next
              /\ Recent(ticker.next - BSize)
        /\ pc = "select" /\ ticker.waiting => now = ticker.next - BSize /\ Recent(now - BSize)
        /\ pc = "flush" => /\ ~ticker.waiting /\ now = ticker.next - BSize /\ flushNow = now
                           /\ Recent(now - BSize)
        /\ pc = "send" => ~ticker.waiting /\ now = ticker.next - BSize /\ Recent(now)

\* The numbers that PromptInv compares.
LEMMA PromptTypes ==
  ASSUME BaseInv
  PROVE  /\ now \in Nat /\ ticker.next \in Int /\ ticker.waiting \in BOOLEAN
         /\ slow \in BOOLEAN /\ BSize \in Nat \ {0}
         /\ ticker \in [next : Int, waiting : BOOLEAN]
         /\ \A s \in Starts : s \in Int
  BY ConfAssumption DEF BaseInv, TypeInv, Starts, Times

\* Every step keeps the flushes on time.
LEMMA NextPrompt ==
    BaseInv /\ LastFlushInv /\ PromptInv /\ [Next]_vars => PromptInv'
<1> SUFFICES ASSUME BaseInv, LastFlushInv, PromptInv, [Next]_vars, ~slow', stop' = "no"
             PROVE  PromptInv'
  BY DEF PromptInv
<1> USE PromptTypes
<1>0. stop = "no" /\ ~slow
  BY DEF Next, vars, ClockTick, Process, Add, RunBegin, FlushTick, ReceiveExit, Flush,
         StatsReceived, StopCloseExit, StopWait
<1>1. CASE UNCHANGED <<now, ticker, buckets, adds, flushNow, pc>>
  BY <1>0, <1>1 DEF PromptInv, Recent
<1>2. CASE ClockTick
  <2>1. /\ Idle /\ now' = now + 1
        /\ ticker' = IF now + 1 = ticker.next THEN [next |-> now + 1 + BSize, waiting |-> TRUE]
                     ELSE ticker
        /\ UNCHANGED <<buckets, adds, pc>>
    BY <1>2 DEF ClockTick, Idle, Ticking
  <2>2. /\ pc = "select" /\ ~ticker.waiting /\ ticker.next - BSize <= now /\ now < ticker.next
        /\ Recent(ticker.next - BSize)
    BY <1>0, <2>1 DEF Idle, PromptInv
  <2>3. \A u : u = ticker.next - BSize => Recent(u)'
    BY <2>1, <2>2, RecentUnchanged
  <2>4. CASE now + 1 = ticker.next
    <3>1. ticker'.next = now + 1 + BSize /\ ticker'.waiting
      BY <2>1, <2>4
    <3>2. now' = ticker'.next - BSize /\ now' - BSize = ticker.next - BSize
      BY <2>1, <2>4, <3>1
    <3>3. Recent(now - BSize)'
      BY <2>3, <3>2 DEF Recent
    <3> QED
      BY <2>1, <2>2, <3>1, <3>2, <3>3 DEF PromptInv
  <2>5. CASE now + 1 # ticker.next
    <3>1. ticker' = ticker /\ now' < ticker.next /\ ticker.next - BSize <= now'
      BY <2>1, <2>2, <2>5
    <3>2. Recent(ticker.next - BSize)'
      BY <2>3, <3>1 DEF Recent
    <3> QED
      BY <2>1, <2>2, <3>1, <3>2 DEF PromptInv
  <2> QED
    BY <2>4, <2>5
<1>3. ASSUME NEW a \in adding, Add(a) PROVE PromptInv'
  <2>1. UNCHANGED <<now, ticker, pc, flushNow>>
    BY <1>3, AddStep
  <2>2. ASSUME NEW t \in Int, t <= now, Recent(t) PROVE Recent(t)'
    BY <1>3, <2>2, RecentAdd
  <2>3. now - BSize \in Int /\ now - BSize <= now /\ ticker.next - BSize \in Int
    OBVIOUS
  <2>4. Recent(now) => Recent(now)'
    BY <2>1, <2>2 DEF Recent
  <2>5. Recent(now - BSize) => Recent(now - BSize)'
    BY <2>1, <2>2, <2>3 DEF Recent
  <2>6. ticker.next - BSize <= now /\ Recent(ticker.next - BSize) => Recent(ticker.next - BSize)'
    BY <2>1, <2>2, <2>3 DEF Recent
  <2> QED
    BY <1>0, <2>1, <2>4, <2>5, <2>6 DEF PromptInv
<1>4. CASE RunBegin
  <2>1. /\ pc = "starting" /\ pc' = "select" /\ ticker' = [next |-> now + BSize, waiting |-> FALSE]
        /\ UNCHANGED <<now, buckets, adds>>
    BY <1>4 DEF RunBegin
  <2>2. Recent(now)
    BY <1>0, <2>1 DEF PromptInv
  <2>3. ticker'.next = now + BSize /\ ~ticker'.waiting /\ ticker'.next - BSize = now
    BY <2>1
  <2>4. Recent(ticker.next - BSize)'
    BY <2>1, <2>2, <2>3 DEF Recent
  <2> QED
    BY <2>1, <2>3, <2>4 DEF PromptInv
<1>5. CASE FlushTick
  <2>1. /\ pc = "select" /\ pc' = "flush" /\ ticker.waiting
        /\ ticker' = [ticker EXCEPT !.waiting = FALSE] /\ flushNow' = now
        /\ UNCHANGED <<now, buckets, adds>>
    BY <1>5 DEF FlushTick
  <2>2. now = ticker.next - BSize /\ Recent(now - BSize)
    BY <1>0, <2>1 DEF PromptInv
  <2>3. ticker'.next = ticker.next /\ ~ticker'.waiting
    BY <2>1
  <2>4. Recent(now - BSize)'
    BY <2>1, <2>2 DEF Recent
  <2> QED
    BY <2>1, <2>2, <2>3, <2>4 DEF PromptInv
<1>6. CASE ReceiveExit
  BY <1>0, <1>6 DEF ReceiveExit
<1>7. CASE Flush
  <2>1. pc = "flush" /\ pc' = "send" /\ UNCHANGED <<now, ticker, flushNow>>
    BY <1>0, <1>7 DEF Flush, LastFlushInv
  <2>2. ~ticker.waiting /\ now = ticker.next - BSize /\ flushNow = now
    BY <1>0, <2>1 DEF PromptInv
  <2>3. Recent(flushNow)'
    BY <1>7, RecentFlush
  <2>4. Recent(now)'
    BY <2>1, <2>2, <2>3 DEF Recent
  <2> QED
    BY <2>1, <2>2, <2>4 DEF PromptInv
<1>8. CASE StatsReceived
  <2>1. pc = "send" /\ pc' = "select" /\ UNCHANGED <<now, ticker, buckets, adds>>
    BY <1>0, <1>8 DEF StatsReceived, LastFlushInv
  <2>2. ~ticker.waiting /\ now = ticker.next - BSize /\ Recent(now)
    BY <1>0, <2>1 DEF PromptInv
  <2>3. Recent(ticker.next - BSize)'
    BY <2>1, <2>2 DEF Recent
  <2>4. ticker.next - BSize <= now /\ now < ticker.next
    BY <2>2
  <2> QED
    BY <2>1, <2>2, <2>3, <2>4 DEF PromptInv
<1>9. \/ UNCHANGED <<now, ticker, buckets, adds, flushNow, pc>>
      \/ ClockTick \/ (\E a \in adding : Add(a)) \/ RunBegin \/ FlushTick \/ ReceiveExit
      \/ Flush \/ StatsReceived
  BY DEF Next, vars, Process, StopCloseExit, StopWait
<1> QED
  BY <1>1, <1>2, <1>3, <1>4, <1>5, <1>6, <1>7, <1>8, <1>9

\* As long as Run is scheduled promptly, two bucket lengths after its window has
\* ended a bucket is open only if a span was added to it within the last bucket
\* length: flushes are delayed by at most two buckets, in every phase of ticker
\* and windows.
THEOREM DelayCorrect == Spec => []DelayAtMostTwoBuckets
<1> DEFINE Inv == BaseInv /\ LastFlushInv /\ PromptInv
<1>1. Init => Inv
  <2> SUFFICES ASSUME Init PROVE LastFlushInv /\ PromptInv
    BY InitBase
  <2>1. BaseInv /\ buckets = None
    BY InitBase
  <2>2. Recent(now)
    BY <2>1 DEF Recent, None
  <2>3. ticker.next = now + BSize /\ now \in Nat /\ BSize \in Nat
    BY <2>1, PromptTypes DEF Init
  <2>4. now = ticker.next - BSize
    BY <2>3
  <2> QED
    BY <2>2, <2>4 DEF Init, LastFlushInv, PromptInv
<1>2. Inv /\ [Next]_vars => Inv'
  BY NextBase, NextLastFlush, NextPrompt
<1>3. Inv => DelayAtMostTwoBuckets
  <2> SUFFICES ASSUME Inv, NEW s \in Starts, ~slow, stop = "no", buckets[s] > 0,
                      now >= s + 3 * BSize
               PROVE  \E a \in adds : BTime(a.end) = s /\ a.at >= now - BSize
    BY DEF DelayAtMostTwoBuckets
  <2>1. pc \in {"starting", "select", "flush", "send"}
    BY DEF BaseInv, TypeInv, LastFlushInv
  <2>2. \E t \in Int : t >= now - BSize /\ Recent(t)
    BY <2>1, PromptTypes DEF PromptInv
  <2>3. PICK t \in Int : t >= now - BSize /\ Recent(t)
    BY <2>2
  <2>4. Recent(now - BSize)
    BY <2>3, RecentEarlier, PromptTypes
  <2>5. ~(s > now - BSize - 2 * BSize)
    BY PromptTypes
  <2> QED
    BY <2>4, <2>5 DEF Recent
<1> QED
  BY <1>1, <1>2, <1>3, PTL DEF Spec
=============================================================================
