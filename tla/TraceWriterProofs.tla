-------------------------- MODULE TraceWriterProofs --------------------------
(***************************************************************************)
(* Proofs about TraceWriter, for any limit, any sizes of the traces and    *)
(* any number of them.                                                     *)
(*                                                                         *)
(* The invariant joins the counter spansInBuffer to the buffer (BufferInv) *)
(* and says what the loop knows about the room in it wherever it is        *)
(* (LimitInv): handleSampledTrace decides to flush before it appends, and  *)
(* the buffer may exceed the limit only between an append of an oversized  *)
(* trace to an empty buffer and the flush that follows.                    *)
(***************************************************************************)
EXTENDS TraceWriter, SumTheorems, TLAPS

-----------------------------------------------------------------------------
(* What FlattenSeq computes: one sequence more is put behind the others.    *)

\* The right-hand side of the recursion of FlattenSeq.
FlattenStep(g, ss, i) == IF i = 1 THEN ss[i] ELSE g[i - 1] \o ss[i]

\* g holds the concatenations of all the prefixes of ss.
Flattens(g, ss) == g = [i \in 1 .. Len(ss) |-> FlattenStep(g, ss, i)]

\* The equation holds at every position.
LEMMA FlattenAt ==
  ASSUME NEW ss, NEW g, Flattens(g, ss), NEW i \in 1 .. Len(ss)
  PROVE  g[i] = FlattenStep(g, ss, i)
  BY DEF Flattens

\* The recursive equation has at most one solution.
LEMMA FlattenUnique ==
  ASSUME NEW U, NEW ss \in Seq(U), NEW g, NEW h, Flattens(g, ss), Flattens(h, ss)
  PROVE  g = h
<1> DEFINE T == {i \in 1 .. Len(ss) : g[i] # h[i]}
<1>1. T \in SUBSET Nat /\ Len(ss) \in Nat
  OBVIOUS
<1>2. ASSUME T # {} PROVE FALSE
  <2>1. PICK i \in T : \A j \in T : i <= j
    <3> HIDE DEF T
    <3> QED
      BY <1>1, <1>2, LeastNat
  <2>2. i \in 1 .. Len(ss) /\ g[i] # h[i]
    BY <2>1
  <2>3. g[i] = FlattenStep(g, ss, i) /\ h[i] = FlattenStep(h, ss, i)
    BY <2>2, FlattenAt
  <2>4. i # 1
    BY <2>2, <2>3 DEF FlattenStep
  <2>5. i - 1 \in 1 .. Len(ss) /\ ~ (i <= i - 1)
    BY <1>1, <2>2, <2>4
  <2>6. g[i - 1] = h[i - 1]
    BY <2>1, <2>5
  <2> QED
    BY <2>2, <2>3, <2>4, <2>6 DEF FlattenStep
<1>3. \A i \in 1 .. Len(ss) : g[i] = h[i]
  BY <1>2
<1> QED
  BY <1>3 DEF Flattens

\* The solution for one sequence more.
Extended(g, ss, b) ==
    [i \in 1 .. Len(ss) + 1 |->
        IF i = Len(ss) + 1 THEN (IF i = 1 THEN b ELSE g[i - 1] \o b) ELSE g[i]]

\* It is a solution indeed.
LEMMA FlattenExtended ==
  ASSUME NEW U, NEW ss \in Seq(U), NEW b \in U, NEW g, Flattens(g, ss)
  PROVE  Flattens(Extended(g, ss, b), Append(ss, b))
<1> DEFINE n == Len(ss)
           h == Extended(g, ss, b)
           tt == Append(ss, b)
<1>1. /\ n \in Nat /\ Len(tt) = n + 1 /\ tt[n + 1] = b
      /\ \A i \in 1 .. n : tt[i] = ss[i]
  OBVIOUS
<1>2. /\ h = [i \in 1 .. n + 1 |-> h[i]]
      /\ \A i \in 1 .. n + 1 :
            h[i] = IF i = n + 1 THEN (IF i = 1 THEN b ELSE g[i - 1] \o b) ELSE g[i]
  BY DEF Extended
<1>3. \A i \in 1 .. n : g[i] = FlattenStep(g, ss, i)
  BY FlattenAt
<1> HIDE DEF n, h, tt
<1>4. ASSUME NEW i \in 1 .. n + 1 PROVE h[i] = FlattenStep(h, tt, i)
  <2>1. i # 1 => i - 1 \in 1 .. n + 1 /\ i - 1 # n + 1 /\ h[i - 1] = g[i - 1]
    <3>1. i # 1 => i - 1 \in 1 .. n + 1 /\ i - 1 # n + 1
      BY <1>1
    <3> QED
      BY <1>2, <3>1
  <2>2. CASE i = n + 1
    BY <1>1, <1>2, <2>1, <2>2 DEF FlattenStep
  <2>3. CASE i # n + 1
    <3>1. i \in 1 .. n
      BY <1>1, <2>3
    <3> QED
      BY <1>1, <1>2, <1>3, <2>1, <2>3, <3>1 DEF FlattenStep
  <2> QED
    BY <2>2, <2>3
<1>5. h = [i \in 1 .. Len(tt) |-> FlattenStep(h, tt, i)]
  BY <1>1, <1>2, <1>4
<1> QED
  BY <1>5 DEF Flattens, h, tt

\* The recursive equation has a solution, whose values are sequences.
LEMMA FlattenExists ==
  ASSUME NEW S, NEW ss \in Seq(Seq(S))
  PROVE  \E g : Flattens(g, ss) /\ \A i \in 1 .. Len(ss) : g[i] \in Seq(S)
<1> DEFINE Solved(tt) == \E g : Flattens(g, tt) /\ \A i \in 1 .. Len(tt) : g[i] \in Seq(S)
           T == {n \in Nat : \E tt \in Seq(Seq(S)) : Len(tt) = n /\ ~Solved(tt)}
<1>1. ASSUME T # {} PROVE FALSE
  <2>1. PICK n \in T : \A m \in T : n <= m
    <3>1. T \in SUBSET Nat
      OBVIOUS
    <3> HIDE DEF T
    <3> QED
      BY <1>1, <3>1, LeastNat
  <2>2. PICK tt \in Seq(Seq(S)) : Len(tt) = n /\ ~Solved(tt)
    BY <2>1
  <2> HIDE DEF T
  <2>3. tt # <<>>
    <3> SUFFICES ASSUME tt = <<>> PROVE FALSE
      OBVIOUS
    <3> DEFINE g == [i \in 1 .. Len(tt) |-> <<>>]
    <3>1. 1 .. Len(tt) = {}
      OBVIOUS
    <3>2. Flattens(g, tt) /\ \A i \in 1 .. Len(tt) : g[i] \in Seq(S)
      BY <3>1 DEF Flattens
    <3> QED
      BY <2>2, <3>2
  <2>4. PICK uu \in Seq(Seq(S)), b \in Seq(S) : tt = Append(uu, b)
    BY <2>3, SequenceEmptyOrAppend
  <2>5. Len(uu) \in Nat /\ n = Len(uu) + 1
    BY <2>2, <2>4
  <2>6. Solved(uu)
    <3>1. Len(uu) \notin T
      BY <2>1, <2>5
    <3> HIDE DEF Solved
    <3> QED
      BY <2>5, <3>1 DEF T
  <2>7. PICK g : Flattens(g, uu) /\ \A i \in 1 .. Len(uu) : g[i] \in Seq(S)
    BY <2>6
  <2> DEFINE h == Extended(g, uu, b)
  <2>8. Flattens(h, tt)
    BY <2>4, <2>7, FlattenExtended
  <2>9. ASSUME NEW i \in 1 .. Len(tt) PROVE h[i] \in Seq(S)
    <3>1. h[i] = IF i = Len(uu) + 1 THEN (IF i = 1 THEN b ELSE g[i - 1] \o b) ELSE g[i]
      BY <2>2, <2>5 DEF Extended
    <3>2. i # Len(uu) + 1 => i \in 1 .. Len(uu)
      BY <2>2, <2>5
    <3>3. i = Len(uu) + 1 /\ i # 1 => i - 1 \in 1 .. Len(uu)
      BY <2>5
    <3>4. i = Len(uu) + 1 /\ i # 1 => g[i - 1] \o b \in Seq(S)
      BY <2>7, <3>3, ConcatProperties
    <3> HIDE DEF h
    <3> QED
      BY <2>4, <2>7, <3>1, <3>2, <3>4
  <2> QED
    BY <2>2, <2>8, <2>9
<1>2. Len(ss) \in Nat /\ Len(ss) \notin T
  BY <1>1
<1> QED
  BY <1>2

\* FlattenSeq is the value of the solution at the last position.
LEMMA FlattenUnfolded ==
  ASSUME NEW ss
  PROVE  FlattenSeq(ss) = IF Len(ss) = 0 THEN ss ELSE (CHOOSE g : Flattens(g, ss))[Len(ss)]
  BY DEF FlattenSeq, Flattens, FlattenStep

\* The value of FlattenSeq, from any solution.
LEMMA FlattenValue ==
  ASSUME NEW U, NEW ss \in Seq(U), ss # <<>>, NEW g, Flattens(g, ss)
  PROVE  FlattenSeq(ss) = g[Len(ss)]
<1> DEFINE c == CHOOSE h : Flattens(h, ss)
<1>1. Flattens(c, ss)
  OBVIOUS
<1>2. c = g
  <2> HIDE DEF c
  <2> QED
    BY <1>1, FlattenUnique
<1>3. Len(ss) # 0
  OBVIOUS
<1> QED
  BY <1>2, <1>3, FlattenUnfolded

\* Flattening one sequence more.
LEMMA FlattenAppend ==
  ASSUME NEW S, NEW ss \in Seq(Seq(S)), NEW b \in Seq(S)
  PROVE  /\ FlattenSeq(ss) \in Seq(S)
         /\ FlattenSeq(Append(ss, b)) = FlattenSeq(ss) \o b
<1>1. PICK g : Flattens(g, ss) /\ \A i \in 1 .. Len(ss) : g[i] \in Seq(S)
  BY FlattenExists
<1> DEFINE n == Len(ss)
           h == Extended(g, ss, b)
           tt == Append(ss, b)
<1>2. Flattens(h, tt)
  BY <1>1, FlattenExtended
<1>3. n \in Nat /\ tt \in Seq(Seq(S)) /\ Len(tt) = n + 1 /\ tt # <<>>
  <2> DEFINE T == Seq(S)
  <2>1. ss \in Seq(T) /\ b \in T
    OBVIOUS
  <2> HIDE DEF T
  <2>2. n \in Nat /\ tt \in Seq(T) /\ Len(tt) = n + 1 /\ tt # <<>>
    BY <2>1, AppendProperties
  <2> QED
    BY <2>2 DEF T
<1>4. FlattenSeq(tt) = h[n + 1]
  <2> HIDE DEF h, tt, n
  <2> QED
    BY <1>2, <1>3, FlattenValue
<1>5. h[n + 1] = IF n + 1 = 1 THEN b ELSE g[n] \o b
  <2>1. n + 1 \in 1 .. n + 1 /\ (n + 1) - 1 = n
    BY <1>3
  <2> QED
    BY <2>1 DEF Extended
<1> HIDE DEF h, tt
<1>6. CASE ss = <<>>
  <2>1. FlattenSeq(ss) = <<>> /\ n = 0
    BY <1>6, FlattenUnfolded
  <2>2. <<>> \o b = b /\ <<>> \in Seq(S)
    BY ConcatEmptySeq
  <2> QED
    BY <1>4, <1>5, <2>1, <2>2 DEF tt
<1>7. CASE ss # <<>>
  <2>1. FlattenSeq(ss) = g[n] /\ n # 0 /\ n \in 1 .. n
    BY <1>1, <1>3, <1>7, FlattenValue
  <2>2. g[n] \in Seq(S)
    BY <1>1, <2>1
  <2>3. n + 1 # 1
    BY <1>3, <2>1
  <2>4. FlattenSeq(tt) = g[n] \o b
    BY <1>4, <1>5, <2>3
  <2> HIDE DEF n
  <2> QED
    BY <2>1, <2>2, <2>4 DEF tt
<1> QED
  BY <1>6, <1>7

-----------------------------------------------------------------------------
(* The invariant.                                                           *)

Flushes == [sent : BOOLEAN, samples : Seq(Sampled)]
Counts == [spans : Nat, singleMaxSpans : Nat]

TypeInv ==
    /\ pc \in {"starting", "select", "append", "flush", "send", "lastUpdateInfo", "done", "panic"}
    /\ then \in {"select", "append", "lastUpdateInfo"}
    /\ sample \in Sampled \cup {NoSample}
    /\ handled \in Seq(Sampled)
    /\ buffer \in Seq(Sampled)
    /\ spansInBuffer \in Nat
    /\ flushed \in Seq(Flushes)
    /\ stats \in Counts
    /\ reported \in Counts
    /\ stop \in {"no", "waiting", "stopped", "overtook"}

\* The counter agrees with the buffer, and is zero only when it is empty.
BufferInv ==
    /\ spansInBuffer = Total(buffer)
    /\ buffer # <<>> => spansInBuffer > 0
    /\ pc = "append" => sample \in Sampled
    /\ pc \in {"flush", "send"} /\ then = "append" => sample \in Sampled

\* The writer begins and exits with nothing in its hands.
ExitInv ==
    /\ pc \in {"starting", "lastUpdateInfo", "done"} => buffer = <<>>
    /\ pc = "done" => stats = Zero
    /\ stop = "stopped" => pc = "done"
    /\ pc \in {"lastUpdateInfo", "done"} => stop # "no"
    /\ pc \in {"flush", "send"} /\ then = "lastUpdateInfo" => stop # "no"
    /\ pc = "panic" => stop = "overtook"
    /\ pc = "send" => buffer # <<>>

OrderInv == FlushedSamples \o buffer = handled

\* When a sample is appended there is room for it, or the buffer is empty.
LimitInv ==
    /\ spansInBuffer > MaxSpansPerPayload => Len(buffer) = 1
    /\ pc = "select" => spansInBuffer <= MaxSpansPerPayload
    /\ pc = "append" => \/ buffer = <<>>
                        \/ spansInBuffer + Spans(sample) <= MaxSpansPerPayload

WriterInv ==
    TypeInv /\ BufferInv /\ ExitInv /\ OrderInv /\ LimitInv /\ PayloadsWithinLimit
        /\ FlushesReportedOnce

-----------------------------------------------------------------------------
(* Numbers of spans.                                                        *)

\* A sampled trace has a number of spans.
LEMMA SpansNat ==
  ASSUME NEW s \in Sampled
  PROVE  Spans(s) \in Nat
<1>1. s.hasTrace \in BOOLEAN /\ s.spans \in Nat /\ s.transactions \in Nat
  BY ConfAssumption DEF Sampled
<1>2. CASE s.hasTrace
  BY <1>1, <1>2 DEF Spans
<1>3. CASE ~s.hasTrace
  BY <1>1, <1>3 DEF Spans
<1> QED
  BY <1>2, <1>3

\* The numbers of spans of a sequence of samples.
LEMMA SpansSeq ==
  ASSUME NEW q \in Seq(Sampled)
  PROVE  /\ SpansOf(q) \in Seq(Int) /\ Len(SpansOf(q)) = Len(q)
         /\ \A k \in 1 .. Len(q) : SpansOf(q)[k] = Spans(q[k])
         /\ Total(q) \in Int
<1> DEFINE n == Len(q)
<1>1. n \in Nat /\ DOMAIN q = 1 .. n /\ \A k \in 1 .. n : q[k] \in Sampled
  OBVIOUS
<1>2. \A k \in 1 .. n : Spans(q[k]) \in Int
  BY <1>1, SpansNat
<1>3. SpansOf(q) = [k \in 1 .. n |-> Spans(q[k])]
  BY <1>1 DEF SpansOf
<1> HIDE DEF n
<1>4. SpansOf(q) \in Seq(Int) /\ Len(SpansOf(q)) = n
  BY <1>1, <1>2, <1>3
<1> QED
  BY <1>3, <1>4, SeqTerms DEF Total, n

\* No samples, no spans.
LEMMA TotalEmpty == Total(<<>>) = 0
<1>1. SpansOf(<<>>) = <<>>
  BY DEF SpansOf
<1> QED
  BY <1>1, SumEmptySeq DEF Total

\* The spans of two sequences of samples.
LEMMA TotalConcat ==
  ASSUME NEW q \in Seq(Sampled), NEW r \in Seq(Sampled)
  PROVE  Total(q \o r) = Total(q) + Total(r)
<1> DEFINE a == SpansOf(q)
           b == SpansOf(r)
           c == SpansOf(q \o r)
           m == Len(q)
           n == Len(r)
<1>1. /\ q \o r \in Seq(Sampled) /\ Len(q \o r) = m + n
      /\ \A k \in 1 .. m + n : (q \o r)[k] = IF k <= m THEN q[k] ELSE r[k - m]
  BY ConcatProperties
<1>2. /\ a \in Seq(Int) /\ Len(a) = m /\ \A k \in 1 .. m : a[k] = Spans(q[k])
      /\ b \in Seq(Int) /\ Len(b) = n /\ \A k \in 1 .. n : b[k] = Spans(r[k])
  BY SpansSeq
<1>3. c \in Seq(Int) /\ Len(c) = m + n /\ \A k \in 1 .. m + n : c[k] = Spans((q \o r)[k])
  BY <1>1, SpansSeq
<1>4. m \in Nat /\ n \in Nat
  OBVIOUS
<1> HIDE DEF a, b, c, m, n
<1>5. /\ a \o b \in Seq(Int) /\ Len(a \o b) = m + n
      /\ \A k \in 1 .. m + n : (a \o b)[k] = IF k <= m THEN a[k] ELSE b[k - m]
  BY <1>2, ConcatProperties
<1>6. ASSUME NEW k \in 1 .. m + n PROVE c[k] = (a \o b)[k]
  <2>1. CASE k <= m
    <3>1. k \in 1 .. m
      BY <1>4, <2>1
    <3>2. (q \o r)[k] = q[k] /\ (a \o b)[k] = a[k]
      BY <1>1, <1>5, <2>1
    <3>3. a[k] = Spans(q[k])
      BY <1>2, <3>1
    <3> QED
      BY <1>3, <3>2, <3>3
  <2>2. CASE ~ (k <= m)
    <3>1. k - m \in 1 .. n
      BY <1>4, <2>2
    <3>2. (q \o r)[k] = r[k - m] /\ (a \o b)[k] = b[k - m]
      BY <1>1, <1>5, <2>2
    <3>3. b[k - m] = Spans(r[k - m])
      BY <1>2, <3>1
    <3> QED
      BY <1>3, <3>2, <3>3
  <2> QED
    BY <2>1, <2>2
<1>7. c = a \o b
  BY <1>3, <1>5, <1>6, SeqEqual
<1>8. SumFunction(a \o b) = SumFunction(a) + SumFunction(b)
  BY <1>2, SumConcat
<1> QED
  BY <1>7, <1>8 DEF Total, a, b, c

\* The spans of one sample more.
LEMMA TotalAppend ==
  ASSUME NEW q \in Seq(Sampled), NEW s \in Sampled
  PROVE  Total(Append(q, s)) = Total(q) + Spans(s)
<1>1. Append(q, s) = q \o <<s>> /\ <<s>> \in Seq(Sampled)
  BY AppendIsConcat
<1>2. Total(<<s>>) = Spans(s)
  <2>1. SpansOf(<<s>>) = Append(<<>>, Spans(s))
    <3>1. SpansOf(<<s>>) \in Seq(Int) /\ Len(SpansOf(<<s>>)) = 1 /\ SpansOf(<<s>>)[1] = Spans(s)
      <4> DEFINE q1 == <<s>>
      <4>1. q1 \in Seq(Sampled) /\ Len(q1) = 1 /\ q1[1] = s /\ 1 \in 1 .. 1
        OBVIOUS
      <4> HIDE DEF q1
      <4>2. SpansOf(q1) \in Seq(Int) /\ Len(SpansOf(q1)) = 1 /\ SpansOf(q1)[1] = Spans(s)
        BY <4>1, SpansSeq
      <4> QED
        BY <4>2 DEF q1
    <3>2. Append(<<>>, Spans(s)) \in Seq(Int) /\ Len(Append(<<>>, Spans(s))) = 1
          /\ Append(<<>>, Spans(s))[1] = Spans(s)
      BY SpansNat
    <3> DEFINE u == SpansOf(<<s>>)
               v == Append(<<>>, Spans(s))
    <3> HIDE DEF u, v
    <3>3. u \in Seq(Int) /\ v \in Seq(Int) /\ Len(u) = Len(v) /\ \A k \in 1 .. Len(u) : u[k] = v[k]
      BY <3>1, <3>2 DEF u, v
    <3>4. u = v
      BY <3>3, SeqEqual
    <3> QED
      BY <3>4 DEF u, v
  <2>2. SumFunction(Append(<<>>, Spans(s))) = SumFunction(<<>>) + Spans(s)
    <3>1. <<>> \in Seq(Int) /\ Spans(s) \in Int
      BY SpansNat
    <3> QED
      BY <3>1, SumAppend
  <2> QED
    BY <2>1, <2>2, SumEmptySeq, SpansNat DEF Total
<1> QED
  BY <1>1, <1>2, TotalConcat

-----------------------------------------------------------------------------
(* Steps.                                                                   *)

\* The values of the variables stay in their types.
LEMMA TypeStep ==
  ASSUME TypeInv, BufferInv, [Next]_vars
  PROVE  TypeInv'
<1> USE DEF TypeInv
<1>0. ASSUME CountFlush PROVE stats' \in Counts
  <2>1. /\ stats.spans \in Nat /\ stats.singleMaxSpans \in Nat
        /\ stats = [spans |-> stats.spans, singleMaxSpans |-> stats.singleMaxSpans]
    BY DEF Counts
  <2>2. stats' = [spans |-> stats.spans + spansInBuffer, singleMaxSpans |-> stats.singleMaxSpans]
    BY <1>0, <2>1 DEF CountFlush
  <2> QED
    BY <2>1, <2>2 DEF Counts
<1>1. CASE \E s \in Sampled : ReceiveSample(s)
  <2>1. PICK s \in Sampled : ReceiveSample(s)
    BY <1>1
  <2> QED
    BY <2>1 DEF ReceiveSample, bufferVars
<1>2. CASE AppendSample
  <2>1. sample \in Sampled /\ Spans(sample) \in Nat
    BY <1>2, SpansNat DEF AppendSample, BufferInv
  <2>2. stats' \in Counts
    BY <1>2 DEF AppendSample, Counts
  <2> QED
    BY <1>2, <2>1, <2>2 DEF AppendSample, AppendToBuffer
<1>3. CASE FlushMarshalFails \/ SendReturns
  <2>1. [sent |-> FALSE, samples |-> buffer] \in Flushes
        /\ [sent |-> TRUE, samples |-> buffer] \in Flushes
    BY DEF Flushes
  <2>2. stats' \in Counts
    BY <1>0, <1>3 DEF FlushMarshalFails, SendReturns
  <2>3. flushed' \in Seq(Flushes)
    <3> DEFINE x == [sent |-> FALSE, samples |-> buffer]
               y == [sent |-> TRUE, samples |-> buffer]
    <3>1. flushed' = Append(flushed, x) \/ flushed' = Append(flushed, y)
      BY <1>3 DEF FlushMarshalFails, SendReturns
    <3>2. x \in Flushes /\ y \in Flushes
      BY <2>1
    <3> HIDE DEF x, y
    <3>3. Append(flushed, x) \in Seq(Flushes) /\ Append(flushed, y) \in Seq(Flushes)
      BY <3>2, AppendProperties
    <3> QED
      BY <3>1, <3>3
  <2>4. buffer' = <<>> /\ spansInBuffer' = 0 /\ pc' = then
        /\ UNCHANGED <<then, sample, handled, reported, stop>>
    BY <1>3 DEF FlushMarshalFails, SendReturns, ResetBuffer
  <2> QED
    BY <2>2, <2>3, <2>4
<1>4. CASE FlushBuildsPayload
  <2>1. stats' \in Counts
    BY <1>0, <1>4 DEF FlushBuildsPayload
  <2> QED
    BY <1>4, <2>1 DEF FlushBuildsPayload, bufferVars
<1>5. CASE UpdateInfo \/ LastUpdateInfo
  <2>1. Zero \in Counts
    BY DEF Zero, Counts
  <2>2. DOMAIN stats = {"spans", "singleMaxSpans"}
    BY DEF Counts
  <2>3. [f \in DOMAIN stats |-> reported[f] + stats[f]]
            = [spans |-> reported.spans + stats.spans,
               singleMaxSpans |-> reported.singleMaxSpans + stats.singleMaxSpans]
    BY <2>2
  <2>4. reported' \in Counts /\ stats' \in Counts
    BY <1>5, <2>1, <2>3 DEF UpdateInfo, LastUpdateInfo, Report, Counts
  <2> QED
    BY <1>5, <2>4 DEF UpdateInfo, LastUpdateInfo, bufferVars
<1>6. CASE RunBegin \/ FlushTick \/ ReceiveExit \/ FlushEmpty \/ SendPanics
           \/ StopCloseExit \/ StopWait
  BY <1>6 DEF RunBegin, FlushTick, ReceiveExit, FlushEmpty, SendPanics, StopCloseExit, StopWait,
              bufferVars
<1>7. CASE UNCHANGED vars
  BY <1>7 DEF vars
<1> QED
  BY <1>1, <1>2, <1>3, <1>4, <1>5, <1>6, <1>7 DEF Next

\* A flush puts the buffer behind the samples flushed before.
LEMMA FlushedMore ==
  ASSUME TypeInv, NEW ok \in BOOLEAN,
         flushed' = Append(flushed, [sent |-> ok, samples |-> buffer])
  PROVE  FlushedSamples \in Seq(Sampled) /\ FlushedSamples' = FlushedSamples \o buffer
<1> DEFINE ss == [k \in DOMAIN flushed |-> flushed[k].samples]
           tt == [k \in DOMAIN flushed' |-> flushed'[k].samples]
           n == Len(flushed)
           x == [sent |-> ok, samples |-> buffer]
<1>1. n \in Nat /\ DOMAIN flushed = 1 .. n /\ \A k \in 1 .. n : flushed[k].samples \in Seq(Sampled)
  <2>1. n \in Nat /\ DOMAIN flushed = 1 .. n /\ \A k \in 1 .. n : flushed[k] \in Flushes
    BY DEF TypeInv
  <2> QED
    BY <2>1 DEF Flushes
<1>2. x \in Flushes /\ x.samples = buffer
  BY DEF Flushes, TypeInv
<1>3. /\ DOMAIN flushed' = 1 .. n + 1 /\ flushed'[n + 1] = x
      /\ \A k \in 1 .. n : flushed'[k] = flushed[k]
  <2> HIDE DEF x
  <2> QED
    BY <1>2 DEF TypeInv, x
<1>4. ss = [k \in 1 .. n |-> flushed[k].samples]
  BY <1>1
<1>5. tt = [k \in 1 .. n + 1 |-> flushed'[k].samples]
  BY <1>3
<1>6. FlushedSamples = FlattenSeq(ss) /\ FlushedSamples' = FlattenSeq(tt)
  BY DEF FlushedSamples
<1> HIDE DEF ss, tt, n, x
<1>7. ss \in Seq(Seq(Sampled)) /\ Len(ss) = n
  BY <1>1, <1>4
<1>8. \A k \in 1 .. n : tt[k] = ss[k]
  BY <1>1, <1>3, <1>4, <1>5
<1>9. tt[n + 1] = buffer /\ buffer \in Seq(Sampled)
  BY <1>1, <1>2, <1>3, <1>5 DEF TypeInv
<1>10. tt \in Seq(Seq(Sampled)) /\ Len(tt) = n + 1
  <2>1. \A k \in 1 .. n + 1 : tt[k] \in Seq(Sampled)
    <3>1. \A k \in 1 .. n : ss[k] \in Seq(Sampled)
      BY <1>7
    <3>2. \A k \in 1 .. n + 1 : k = n + 1 \/ k \in 1 .. n
      BY <1>1
    <3> QED
      BY <1>8, <1>9, <3>1, <3>2
  <2> QED
    BY <1>1, <1>5, <2>1
<1>11. tt = Append(ss, buffer)
  <2> DEFINE u == Append(ss, buffer)
  <2>1. u \in Seq(Seq(Sampled)) /\ Len(u) = n + 1
    BY <1>7, <1>9
  <2>2. u[n + 1] = buffer /\ \A k \in 1 .. n : u[k] = ss[k]
    BY <1>7, <1>9
  <2> HIDE DEF u
  <2>3. \A k \in 1 .. n + 1 : k = n + 1 \/ k \in 1 .. n
    BY <1>1
  <2>4. \A k \in 1 .. n + 1 : tt[k] = u[k]
    BY <1>8, <1>9, <2>2, <2>3
  <2>5. tt = u
    BY <1>10, <2>1, <2>4, SeqEqual
  <2> QED
    BY <2>5 DEF u
<1> QED
  BY <1>6, <1>7, <1>9, <1>11, FlattenAppend

\* The samples flushed so far are a sequence of samples.
LEMMA FlushedType ==
  ASSUME TypeInv
  PROVE  FlushedSamples \in Seq(Sampled)
<1> DEFINE ss == [k \in DOMAIN flushed |-> flushed[k].samples]
           n == Len(flushed)
<1>1. n \in Nat /\ DOMAIN flushed = 1 .. n /\ \A k \in 1 .. n : flushed[k].samples \in Seq(Sampled)
  <2>1. n \in Nat /\ DOMAIN flushed = 1 .. n /\ \A k \in 1 .. n : flushed[k] \in Flushes
    BY DEF TypeInv
  <2> QED
    BY <2>1 DEF Flushes
<1>2. ss = [k \in 1 .. n |-> flushed[k].samples]
  BY <1>1
<1>3. FlushedSamples = FlattenSeq(ss) /\ buffer \in Seq(Sampled)
  BY DEF FlushedSamples, TypeInv
<1> HIDE DEF ss, n
<1>4. ss \in Seq(Seq(Sampled))
  BY <1>1, <1>2
<1> QED
  BY <1>3, <1>4, FlattenAppend

\* What the end of flush does, whether the payload was taken or not marshalled.
EndOfFlush(ok) ==
    /\ flushed' = Append(flushed, [sent |-> ok, samples |-> buffer])
    /\ buffer' = <<>> /\ spansInBuffer' = 0
    /\ pc' = then
    /\ UNCHANGED <<then, sample, handled, reported, stop>>

\* A flush changes nothing of the order of the samples, and builds a payload that
\* is within the limit.
LEMMA FlushStep ==
  ASSUME WriterInv, NEW ok \in BOOLEAN, EndOfFlush(ok), TypeInv', pc \in {"flush", "send"},
         stats'.spans + (IF pc = "send" THEN spansInBuffer ELSE 0) = stats.spans + spansInBuffer
  PROVE  WriterInv'
<1>1. TypeInv /\ BufferInv /\ ExitInv /\ OrderInv /\ LimitInv /\ PayloadsWithinLimit
      /\ FlushesReportedOnce
  BY DEF WriterInv
<1>2. FlushedSamples \in Seq(Sampled) /\ FlushedSamples' = FlushedSamples \o buffer
  BY <1>1, FlushedMore DEF EndOfFlush
<1>3. FlushedSamples' \in Seq(Sampled) /\ FlushedSamples' = handled
  BY <1>1, <1>2, ConcatProperties DEF OrderInv, TypeInv
<1>4. OrderInv'
  <2>1. FlushedSamples' \o <<>> = FlushedSamples'
    BY <1>3, ConcatEmptySeq
  <2>2. buffer' = <<>> /\ handled' = handled
    BY DEF EndOfFlush
  <2> QED
    BY <1>3, <2>1, <2>2 DEF OrderInv
<1>5. /\ pc' = then /\ then' = then /\ buffer' = <<>> /\ spansInBuffer' = 0 /\ stop' = stop
      /\ sample' = sample /\ reported' = reported /\ Len(buffer') = 0
  BY DEF EndOfFlush
<1>6. then \in {"select", "append", "lastUpdateInfo"}
  BY <1>1 DEF TypeInv
<1>7. BufferInv'
  <2>1. pc' = "append" => sample' \in Sampled
    BY <1>1, <1>5 DEF BufferInv
  <2> QED
    BY <1>1, <1>5, <1>6, <2>1, TotalEmpty DEF BufferInv
<1>8. ExitInv' /\ LimitInv'
  BY <1>1, <1>5, <1>6, ConfAssumption DEF ExitInv, LimitInv
<1>9. PayloadsWithinLimit'
  <2> DEFINE n == Len(flushed)
             x == [sent |-> ok, samples |-> buffer]
  <2>1. /\ n \in Nat /\ DOMAIN flushed = 1 .. n /\ DOMAIN flushed' = 1 .. n + 1
        /\ flushed'[n + 1] = x /\ \A k \in 1 .. n : flushed'[k] = flushed[k]
    <3>1. x \in Flushes
      BY <1>1 DEF Flushes, TypeInv
    <3> HIDE DEF x
    <3> QED
      BY <1>1, <3>1 DEF TypeInv, EndOfFlush, x
  <2>2. x.samples = buffer
    OBVIOUS
  <2>3. Total(buffer) > MaxSpansPerPayload => Len(buffer) = 1
    BY <1>1 DEF BufferInv, LimitInv
  <2> HIDE DEF n, x
  <2>4. \A k \in 1 .. n + 1 : k = n + 1 \/ k \in 1 .. n
    BY <2>1
  <2> QED
    BY <1>1, <2>1, <2>2, <2>3, <2>4 DEF PayloadsWithinLimit
<1>10. FlushesReportedOnce'
  <2>1. Total(FlushedSamples') = Total(FlushedSamples) + Total(buffer)
        /\ Total(FlushedSamples) \in Int
    BY <1>1, <1>2, TotalConcat, SpansSeq DEF TypeInv
  <2>2. pc' \notin {"send", "panic"} /\ Total(buffer) = spansInBuffer
    BY <1>1, <1>5, <1>6 DEF BufferInv
  <2>3. reported.spans + stats.spans =
            Total(FlushedSamples) + (IF pc \in {"send", "panic"} THEN spansInBuffer ELSE 0)
    BY <1>1 DEF FlushesReportedOnce
  <2>4. /\ reported.spans \in Int /\ stats.spans \in Int /\ stats'.spans \in Int
        /\ spansInBuffer \in Int
    BY <1>1 DEF TypeInv, Counts
  <2>5. reported'.spans + stats'.spans = Total(FlushedSamples')
    <3>1. CASE pc = "send"
      BY <1>5, <2>1, <2>2, <2>3, <2>4, <3>1
    <3>2. CASE pc # "send"
      BY <1>5, <2>1, <2>2, <2>3, <2>4, <3>2
    <3> QED
      BY <3>1, <3>2
  <2>6. Total(FlushedSamples') \in Int
    BY <2>4, <2>5, <1>3, SpansSeq
  <2> QED
    BY <2>2, <2>5, <2>6 DEF FlushesReportedOnce
<1> QED
  BY <1>4, <1>7, <1>8, <1>9, <1>10 DEF WriterInv

\* A sample appended is the last one, and there was room for it.
LEMMA AppendStep ==
  ASSUME WriterInv, AppendSample, TypeInv'
  PROVE  WriterInv'
<1>1. TypeInv /\ BufferInv /\ ExitInv /\ OrderInv /\ LimitInv /\ PayloadsWithinLimit
      /\ FlushesReportedOnce
  BY DEF WriterInv
<1>2. /\ sample \in Sampled /\ Spans(sample) \in Nat /\ buffer \in Seq(Sampled)
      /\ spansInBuffer \in Nat /\ MaxSpansPerPayload \in Nat
  BY <1>1, SpansNat, ConfAssumption DEF AppendSample, BufferInv, TypeInv
<1>3. /\ pc = "append" /\ pc' \in {"select", "flush"} /\ UNCHANGED <<flushed, reported, stop>>
      /\ pc' = "flush" <=> Spans(sample) > MaxSpansPerPayload
      /\ pc' = "flush" => then' = "select"
      /\ stats'.spans = stats.spans
      /\ spansInBuffer' = spansInBuffer + Spans(sample)
  <2>1. stats' = stats \/ stats' = [stats EXCEPT !.singleMaxSpans = @ + 1]
    BY DEF AppendSample
  <2>2. stats'.spans = stats.spans
    BY <1>1, <2>1 DEF TypeInv, Counts
  <2> QED
    BY <2>2 DEF AppendSample, AppendToBuffer
<1>4. FlushedSamples' = FlushedSamples
  BY <1>3 DEF FlushedSamples
<1>5. FlushesReportedOnce' /\ PayloadsWithinLimit'
  <2>1. pc' \notin {"send", "panic"} /\ pc \notin {"send", "panic"}
    BY <1>3
  <2> QED
    BY <1>1, <1>3, <1>4, <2>1 DEF FlushesReportedOnce, PayloadsWithinLimit
<1>6. ExitInv'
  BY <1>1, <1>3 DEF ExitInv
<1>7. CASE Spans(sample) = 0
  <2>1. UNCHANGED <<buffer, handled, spansInBuffer>> /\ pc' = "select"
    BY <1>2, <1>3, <1>7 DEF AppendSample, AppendToBuffer
  <2>2. OrderInv'
    BY <1>1, <1>4, <2>1 DEF OrderInv
  <2>3. BufferInv'
    BY <1>1, <2>1 DEF BufferInv
  <2>4. buffer = <<>> => spansInBuffer = 0
    BY <1>1, TotalEmpty DEF BufferInv
  <2>5. LimitInv'
    BY <1>1, <1>2, <1>3, <1>7, <2>1, <2>4 DEF LimitInv
  <2> QED
    BY <1>5, <1>6, <2>2, <2>3, <2>5 DEF WriterInv
<1>8. CASE Spans(sample) # 0
  <2>1. buffer' = Append(buffer, sample) /\ handled' = Append(handled, sample)
    BY <1>8 DEF AppendSample, AppendToBuffer
  <2>2. OrderInv'
    <3>1. FlushedSamples \in Seq(Sampled) /\ <<sample>> \in Seq(Sampled)
      BY <1>1, <1>2, FlushedType
    <3>2. FlushedSamples \o buffer = handled /\ handled \in Seq(Sampled)
      BY <1>1 DEF OrderInv, TypeInv
    <3>3. (FlushedSamples \o buffer) \o <<sample>> = FlushedSamples \o (buffer \o <<sample>>)
      <4> DEFINE f == FlushedSamples
                 e == <<sample>>
      <4>1. f \in Seq(Sampled) /\ buffer \in Seq(Sampled) /\ e \in Seq(Sampled)
        BY <1>2, <3>1
      <4> HIDE DEF f, e
      <4>2. (f \o buffer) \o e = f \o (buffer \o e)
        BY <4>1, ConcatAssociative
      <4> QED
        BY <4>2 DEF f, e
    <3>4. Append(buffer, sample) = buffer \o <<sample>> /\ Append(handled, sample) = handled \o <<sample>>
      BY <1>2, <3>2, AppendIsConcat
    <3> QED
      BY <1>4, <2>1, <3>2, <3>3, <3>4 DEF OrderInv
  <2>3. BufferInv'
    <3>1. Total(Append(buffer, sample)) = Total(buffer) + Spans(sample)
      BY <1>2, TotalAppend
    <3>2. spansInBuffer' > 0
      BY <1>2, <1>3, <1>8
    <3> QED
      BY <1>1, <1>3, <2>1, <3>1, <3>2 DEF BufferInv
  <2>4. buffer = <<>> => spansInBuffer = 0 /\ Len(buffer') = 1
    BY <1>1, <2>1, TotalEmpty DEF BufferInv
  <2>5. buffer = <<>> \/ spansInBuffer + Spans(sample) <= MaxSpansPerPayload
    BY <1>1, <1>3 DEF LimitInv
  <2>6. LimitInv'
    <3>1. CASE buffer = <<>>
      BY <1>2, <1>3, <2>4, <3>1 DEF LimitInv
    <3>2. CASE spansInBuffer + Spans(sample) <= MaxSpansPerPayload
      BY <1>2, <1>3, <3>2 DEF LimitInv
    <3> QED
      BY <2>5, <3>1, <3>2
  <2> QED
    BY <1>5, <1>6, <2>2, <2>3, <2>6 DEF WriterInv
<1> QED
  BY <1>7, <1>8

\* The steps that leave the buffer alone: the loop goes from one place to
\* another, and updateInfo takes the counters.
LEMMA KeepStep ==
  ASSUME WriterInv, TypeInv', UNCHANGED <<handled, buffer, spansInBuffer, flushed>>,
         BufferInv', ExitInv', LimitInv',
         reported'.spans + stats'.spans =
            reported.spans + stats.spans + (IF pc # "send" /\ pc' = "send" THEN spansInBuffer ELSE 0),
         pc = "panic" => pc' = "panic", pc = "send" => pc' \in {"send", "panic"},
         pc' = "panic" => pc \in {"send", "panic"}
  PROVE  WriterInv'
<1>1. TypeInv /\ BufferInv /\ ExitInv /\ OrderInv /\ LimitInv /\ PayloadsWithinLimit
      /\ FlushesReportedOnce
  BY DEF WriterInv
<1>2. FlushedSamples' = FlushedSamples
  BY DEF FlushedSamples
<1>3. OrderInv' /\ PayloadsWithinLimit'
  BY <1>1, <1>2 DEF OrderInv, PayloadsWithinLimit
<1>4. FlushesReportedOnce'
  <2>1. Total(FlushedSamples) \in Int /\ spansInBuffer \in Int
    BY <1>1, FlushedType, SpansSeq DEF TypeInv
  <2>2. /\ reported.spans + stats.spans =
            Total(FlushedSamples) + (IF pc \in {"send", "panic"} THEN spansInBuffer ELSE 0)
        /\ spansInBuffer' = spansInBuffer
    BY <1>1 DEF FlushesReportedOnce
  <2>3. CASE pc \in {"send", "panic"}
    BY <1>2, <2>1, <2>2, <2>3 DEF FlushesReportedOnce
  <2>4. CASE pc \notin {"send", "panic"} /\ pc' = "send"
    BY <1>2, <2>1, <2>2, <2>4 DEF FlushesReportedOnce
  <2>5. CASE pc \notin {"send", "panic"} /\ pc' \notin {"send", "panic"}
    BY <1>2, <2>1, <2>2, <2>5 DEF FlushesReportedOnce
  <2> QED
    BY <2>3, <2>4, <2>5
<1> QED
  BY <1>3, <1>4 DEF WriterInv

\* updateInfo moves the counters.
LEMMA ReportStep ==
  ASSUME TypeInv, Report
  PROVE  /\ reported'.spans + stats'.spans = reported.spans + stats.spans
         /\ reported.spans \in Int /\ stats.spans \in Int
<1>1. "spans" \in DOMAIN stats /\ reported.spans \in Int /\ stats.spans \in Int
  BY DEF TypeInv, Counts
<1>2. reported'["spans"] = reported["spans"] + stats["spans"] /\ stats' = Zero
  BY <1>1 DEF Report
<1> QED
  BY <1>1, <1>2 DEF Zero

\* The invariant is kept by every step.
LEMMA WriterStep ==
  ASSUME WriterInv, [Next]_vars
  PROVE  WriterInv'
<1>1. TypeInv /\ BufferInv /\ ExitInv /\ LimitInv
  BY DEF WriterInv
<1>2. TypeInv'
  BY <1>1, TypeStep
<1>3. /\ reported.spans \in Int /\ stats.spans \in Int /\ spansInBuffer \in Nat
      /\ MaxSpansPerPayload \in Nat
      /\ then \in {"select", "append", "lastUpdateInfo"}
  BY <1>1, ConfAssumption DEF TypeInv, Counts
<1>4. ASSUME CountFlush PROVE stats'.spans = stats.spans + spansInBuffer
  BY <1>1, <1>4 DEF CountFlush, TypeInv, Counts
<1>5. CASE \E s \in Sampled : ReceiveSample(s)
  <2>1. PICK s \in Sampled : ReceiveSample(s)
    BY <1>5
  <2>2. /\ UNCHANGED <<handled, buffer, spansInBuffer, flushed, stats, reported, stop>>
        /\ pc = "select" /\ sample' = s /\ pc' \in {"append", "flush"}
        /\ pc' = "append" => ~WouldOverflow(s)
        /\ pc' = "flush" => then' = "append"
    BY <2>1 DEF ReceiveSample, bufferVars
  <2>3. BufferInv' /\ ExitInv'
    BY <1>1, <2>2 DEF BufferInv, ExitInv
  <2>4. pc' = "append" => buffer = <<>> \/ spansInBuffer + Spans(s) <= MaxSpansPerPayload
    BY <1>1, <1>3, <2>2, SpansNat DEF WouldOverflow, BufferInv
  <2>5. LimitInv'
    BY <1>1, <2>2, <2>4 DEF LimitInv
  <2> QED
    BY <1>2, <1>3, <2>2, <2>3, <2>5, KeepStep
<1>6. CASE AppendSample
  BY <1>2, <1>6, AppendStep
<1>7. CASE FlushTick \/ ReceiveExit
  <2>1. /\ UNCHANGED <<handled, buffer, spansInBuffer, flushed, stats, reported, stop, sample>>
        /\ pc = "select" /\ pc' = "flush" /\ then' \in {"select", "lastUpdateInfo"}
        /\ then' = "lastUpdateInfo" => stop # "no"
    BY <1>7 DEF FlushTick, ReceiveExit, bufferVars
  <2>2. BufferInv' /\ ExitInv' /\ LimitInv'
    BY <1>1, <2>1 DEF BufferInv, ExitInv, LimitInv
  <2> QED
    BY <1>2, <1>3, <2>1, <2>2, KeepStep
<1>8. CASE FlushEmpty
  <2>1. /\ UNCHANGED <<handled, buffer, spansInBuffer, flushed, stats, reported, stop, sample, then>>
        /\ pc = "flush" /\ pc' = then /\ buffer = <<>>
    BY <1>8 DEF FlushEmpty, bufferVars
  <2>2. spansInBuffer = 0
    BY <1>1, <2>1, TotalEmpty DEF BufferInv
  <2>3. BufferInv'
    BY <1>1, <1>3, <2>1 DEF BufferInv
  <2>4. ExitInv' /\ LimitInv'
    BY <1>1, <1>3, <2>1, <2>2 DEF ExitInv, LimitInv
  <2> QED
    BY <1>2, <1>3, <2>1, <2>3, <2>4, KeepStep
<1>9. CASE FlushMarshalFails
  <2>1. EndOfFlush(FALSE) /\ pc = "flush"
    BY <1>9 DEF FlushMarshalFails, EndOfFlush, ResetBuffer
  <2>2. stats'.spans + 0 = stats.spans + spansInBuffer
    BY <1>3, <1>4, <1>9 DEF FlushMarshalFails
  <2> QED
    BY <1>2, <2>1, <2>2, FlushStep
<1>10. CASE FlushBuildsPayload
  <2>1. /\ UNCHANGED <<handled, buffer, spansInBuffer, flushed, reported, stop, sample, then>>
        /\ pc = "flush" /\ pc' = "send" /\ buffer # <<>>
    BY <1>10 DEF FlushBuildsPayload, bufferVars
  <2>2. stats'.spans = stats.spans + spansInBuffer
    BY <1>4, <1>10 DEF FlushBuildsPayload
  <2>3. BufferInv' /\ ExitInv' /\ LimitInv'
    BY <1>1, <2>1 DEF BufferInv, ExitInv, LimitInv
  <2>4. reported'.spans + stats'.spans = reported.spans + stats.spans + spansInBuffer
    BY <1>3, <2>1, <2>2
  <2> QED
    BY <1>2, <2>1, <2>3, <2>4, KeepStep
<1>11. CASE SendReturns
  <2>1. EndOfFlush(TRUE) /\ pc = "send" /\ stats' = stats
    BY <1>11 DEF SendReturns, EndOfFlush, ResetBuffer
  <2> QED
    BY <1>2, <2>1, FlushStep
<1>16. CASE SendPanics
  <2>1. /\ UNCHANGED <<handled, buffer, spansInBuffer, flushed, stats, reported, stop, sample, then>>
        /\ pc = "send" /\ pc' = "panic" /\ stop \in {"stopped", "overtook"}
    BY <1>16 DEF SendPanics, bufferVars
  <2>2. BufferInv' /\ ExitInv' /\ LimitInv'
    BY <1>1, <2>1 DEF BufferInv, ExitInv, LimitInv
  <2> QED
    BY <1>2, <1>3, <2>1, <2>2, KeepStep
<1>12. CASE UpdateInfo
  <2>1. /\ UNCHANGED <<handled, buffer, spansInBuffer, flushed, stop, sample, pc, then>>
        /\ Report /\ stats' = Zero
    BY <1>12 DEF UpdateInfo, Report, bufferVars
  <2>2. BufferInv' /\ ExitInv' /\ LimitInv'
    BY <1>1, <2>1 DEF BufferInv, ExitInv, LimitInv
  <2>3. reported'.spans + stats'.spans = reported.spans + stats.spans + 0
    BY <1>1, <1>3, <2>1, ReportStep
  <2> QED
    BY <1>2, <2>1, <2>2, <2>3, KeepStep
<1>13. CASE LastUpdateInfo
  <2>1. /\ UNCHANGED <<handled, buffer, spansInBuffer, flushed, stop, sample, then>>
        /\ Report /\ stats' = Zero /\ pc = "lastUpdateInfo" /\ pc' = "done"
    BY <1>13 DEF LastUpdateInfo, Report, bufferVars
  <2>2. BufferInv' /\ ExitInv' /\ LimitInv'
    BY <1>1, <2>1 DEF BufferInv, ExitInv, LimitInv
  <2>3. reported'.spans + stats'.spans = reported.spans + stats.spans + 0
    BY <1>1, <1>3, <2>1, ReportStep
  <2> QED
    BY <1>2, <2>1, <2>2, <2>3, KeepStep
<1>14. CASE RunBegin
  <2>1. /\ UNCHANGED <<handled, buffer, spansInBuffer, flushed, stop, sample, then, stats, reported>>
        /\ pc = "starting" /\ pc' = "select"
    BY <1>14 DEF RunBegin, bufferVars
  <2>2. BufferInv' /\ ExitInv'
    BY <1>1, <2>1 DEF BufferInv, ExitInv
  <2>3. spansInBuffer = 0
    BY <1>1, <2>1, TotalEmpty DEF ExitInv, BufferInv
  <2>4. LimitInv'
    BY <1>1, <1>3, <2>1, <2>3 DEF LimitInv
  <2> QED
    BY <1>2, <1>3, <2>1, <2>2, <2>4, KeepStep
<1>15. CASE StopCloseExit \/ StopWait \/ UNCHANGED vars
  <2>1. /\ UNCHANGED <<handled, buffer, spansInBuffer, flushed, sample, then, stats, reported, pc>>
        /\ \/ stop' = stop
           \/ stop = "no" /\ stop' = "waiting"
           \/ pc = "starting" /\ stop' = "overtook"
           \/ pc = "done" /\ stop' = "stopped"
    BY <1>15 DEF StopCloseExit, StopWait, vars, bufferVars
  <2>2. BufferInv' /\ ExitInv' /\ LimitInv'
    BY <1>1, <2>1 DEF BufferInv, ExitInv, LimitInv
  <2> QED
    BY <1>2, <1>3, <2>1, <2>2, KeepStep
<1> QED
  BY <1>5, <1>6, <1>7, <1>8, <1>9, <1>10, <1>11, <1>12, <1>13, <1>14, <1>15, <1>16 DEF Next

\* The buffer is empty at the start.
LEMMA WriterInit == Init => WriterInv
<1> SUFFICES ASSUME Init PROVE WriterInv
  OBVIOUS
<1>1. Zero \in Counts /\ Zero.spans = 0
  BY DEF Zero, Counts
<1>2. TypeInv
  BY <1>1 DEF Init, TypeInv
<1>3. FlushedSamples = <<>> /\ DOMAIN flushed = {}
  <2>1. DOMAIN flushed = {} /\ [k \in DOMAIN flushed |-> flushed[k].samples] = <<>>
    BY DEF Init
  <2>2. FlattenSeq(<<>>) = <<>>
    BY FlattenUnfolded
  <2> QED
    BY <2>1, <2>2 DEF FlushedSamples
<1>4. BufferInv /\ ExitInv
  BY TotalEmpty DEF Init, BufferInv, ExitInv
<1>5. LimitInv
  BY ConfAssumption DEF Init, LimitInv
<1>6. OrderInv
  <2>1. <<>> \o <<>> = <<>>
    BY ConcatEmptySeq
  <2> QED
    BY <1>3, <2>1 DEF Init, OrderInv
<1>7. PayloadsWithinLimit
  BY <1>3 DEF PayloadsWithinLimit
<1>8. FlushesReportedOnce
  BY <1>1, <1>3, TotalEmpty DEF Init, FlushesReportedOnce
<1> QED
  BY <1>2, <1>4, <1>5, <1>6, <1>7, <1>8 DEF WriterInv

\* The invariant of the writer holds in every state.
LEMMA WriterInvariant == Spec => []WriterInv
  BY WriterInit, WriterStep, PTL DEF Spec

\* The payloads hold every sampled trace once and in order, and Run ends, and a Stop
\* that waited for it returns, with an empty buffer and nothing left to report, for
\* any number of traces, any limit and any interleaving with the goroutines of
\* updateInfo.
THEOREM OrderCorrect == Spec => []NothingLostOrReordered
<1>1. WriterInv => NothingLostOrReordered
  BY DEF WriterInv, OrderInv, ExitInv, NothingLostOrReordered
<1> QED
  BY <1>1, WriterInvariant, PTL

\* A payload is over MaxSpansPerPayload only when it is a single sampled trace.
THEOREM LimitCorrect == Spec => []PayloadsWithinLimit
<1>1. WriterInv => PayloadsWithinLimit
  BY DEF WriterInv
<1> QED
  BY <1>1, WriterInvariant, PTL

\* updateInfo reports every flushed span exactly once.
THEOREM ReportsCorrect == Spec => []FlushesReportedOnce
<1>1. WriterInv => FlushesReportedOnce
  BY DEF WriterInv
<1> QED
  BY <1>1, WriterInvariant, PTL
=============================================================================
