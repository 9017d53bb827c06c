-------------------------- MODULE StatsWriterProofs --------------------------
(***************************************************************************)
(* Proofs about buildPayloads, for all finite sets of windows and keys,    *)
(* every limit and flushes of any length.                                  *)
(*                                                                         *)
(* While the entries are placed, in the order Go visits the maps in, the   *)
(* payloads hold what was taken out of todo (SplitInv): the distributions  *)
(* always, the counts as long as no key comes twice in one window.  Round  *)
(* robin bounds the slots of each payload by the index.                    *)
(***************************************************************************)
EXTENDS StatsWriter, SumTheorems, TLAPS

PayloadType == [counts : [Slot -> Nat], dists : [Slot -> Nat]]

\* The entries of one bucket, and of the buckets whose indices are in D.
Pairs(b, K) == {<<b, k>> : k \in K}
Entries(f, D) == UNION {{<<b, k>> : k \in f[b].keys} : b \in D}

-----------------------------------------------------------------------------
(* The entries of a flush.                                                  *)

\* A flush is a sequence of buckets of finitely many keys.
LEMMA FlushType ==
  ASSUME NEW f \in Flushes
  PROVE  /\ IsFiniteSet(DOMAIN f)
         /\ \A b \in DOMAIN f : /\ b \in Int
                                /\ f[b].window \in Windows /\ f[b].keys \subseteq Keys
                                /\ IsFiniteSet(f[b].keys) /\ Cardinality(f[b].keys) \in Nat
<1>1. PICK n \in 0 .. MaxBuckets : f \in [1 .. n -> Bucket]
  BY DEF Flushes
<1>2. n \in Nat /\ DOMAIN f = 1 .. n /\ IsFiniteSet(1 .. n)
  BY <1>1, FS_Interval, ConfAssumption
<1>3. \A b \in 1 .. n : f[b].window \in Windows /\ f[b].keys \in SUBSET Keys
  BY <1>1 DEF Bucket
<1>4. \A b \in 1 .. n : IsFiniteSet(f[b].keys)
  BY <1>3, FS_Subset, ConfAssumption
<1>5. \A b \in 1 .. n : Cardinality(f[b].keys) \in Nat
  BY <1>4, FS_CardinalityType
<1> QED
  BY <1>2, <1>3, <1>4, <1>5

\* What an entry is.
LEMMA EntryMember ==
  ASSUME NEW f, NEW D, NEW e
  PROVE  e \in Entries(f, D) <=> \E b \in D : \E k \in f[b].keys : e = <<b, k>>
  BY DEF Entries

\* The entries of one bucket are as many as its keys.
LEMMA BucketEntries ==
  ASSUME NEW b, NEW K, IsFiniteSet(K)
  PROVE  IsFiniteSet(Pairs(b, K)) /\ Cardinality(Pairs(b, K)) = Cardinality(K)
<1> DEFINE T == Pairs(b, K)
           g == [k \in K |-> <<b, k>>]
<1>1. g \in Bijection(K, T)
  BY DEF Pairs, Bijection, Injection, Surjection, IsInjective
<1>2. ExistsBijection(K, T)
  BY <1>1 DEF ExistsBijection
<1> QED
  BY <1>2, FS_Bijection

\* len(s.Counts), summed over the buckets, is the number of entries.
LEMMA EntriesCounted ==
  ASSUME NEW f \in Flushes
  PROVE  /\ IsFiniteSet(Entries(f, DOMAIN f))
         /\ Cardinality(Entries(f, DOMAIN f)) = NbEntries(f)
         /\ NbEntries(f) \in Nat
<1> DEFINE S == DOMAIN f
           c == [b \in S |-> Cardinality(f[b].keys)]
           Good(D) == /\ IsFiniteSet(Entries(f, D))
                      /\ Cardinality(Entries(f, D)) = SumFunctionOnSet(c, D)
           T == {D \in SUBSET S : ~Good(D)}
<1>1. IsFiniteSet(S) /\ \A b \in S : c[b] \in Int /\ c[b] = Cardinality(f[b].keys) /\ IsFiniteSet(f[b].keys)
  BY FlushType
<1>2. ASSUME T # {} PROVE FALSE
  <2>1. PICK D \in T : \A U \in T : U \subseteq D => U = D
    <3>1. T \in SUBSET (SUBSET S)
      OBVIOUS
    <3> HIDE DEF T
    <3> QED
      BY <1>1, <1>2, <3>1, SmallestSubset
  <2>2. IsFiniteSet(D) /\ D \in SUBSET S /\ ~Good(D)
    BY <1>1, <2>1, FS_Subset
  <2>3. D # {}
    <3>1. Entries(f, {}) = {}
      BY DEF Entries
    <3> QED
      BY <2>2, <3>1, SumEmpty, FS_EmptySet
  <2>4. PICK x : x \in D
    BY <2>3
  <2>5. D \ {x} \in SUBSET S /\ Good(D \ {x})
    BY <2>1, <2>2, <2>4
  <2> HIDE DEF c
  <2>6. IntOn(c, D) /\ c[x] = Cardinality(f[x].keys) /\ IsFiniteSet(f[x].keys)
    BY <1>1, <2>2, <2>4 DEF IntOn
  <2>7. SumFunctionOnSet(c, D) = c[x] + SumFunctionOnSet(c, D \ {x})
    BY <2>2, <2>4, <2>6, SumRemove
  <2> DEFINE A == Entries(f, D \ {x})
             B == Pairs(x, f[x].keys)
  <2>8. Entries(f, D) = A \cup B /\ A \cap B = {}
    <3>1. ASSUME NEW e PROVE e \in Entries(f, D) <=> e \in A \cup B
      <4>1. e \in Entries(f, D) <=> \E b \in D : \E k \in f[b].keys : e = <<b, k>>
        BY EntryMember
      <4>2. e \in A <=> \E b \in D \ {x} : \E k \in f[b].keys : e = <<b, k>>
        BY EntryMember
      <4>3. e \in B <=> \E k \in f[x].keys : e = <<x, k>>
        BY DEF Pairs
      <4> HIDE DEF A, B
      <4> QED
        BY <2>4, <4>1, <4>2, <4>3
    <3>2. A \cap B = {}
      BY DEF Entries, Pairs
    <3> HIDE DEF A, B
    <3> QED
      BY <3>1, <3>2
  <2>9. IsFiniteSet(A) /\ IsFiniteSet(B) /\ Cardinality(B) = c[x]
        /\ Cardinality(A) = SumFunctionOnSet(c, D \ {x})
    BY <2>5, <2>6, BucketEntries
  <2> HIDE DEF A, B
  <2>10. /\ IsFiniteSet(A \cup B)
         /\ Cardinality(A \cup B) = Cardinality(A) + Cardinality(B) - Cardinality(A \cap B)
         /\ Cardinality(A) \in Nat /\ Cardinality(B) \in Nat
    BY <2>9, FS_Union, FS_CardinalityType
  <2>11. Cardinality(A \cap B) = 0
    BY <2>8, FS_EmptySet
  <2> QED
    BY <2>2, <2>7, <2>8, <2>9, <2>10, <2>11
<1>3. Good(S)
  BY <1>2
<1>4. NbEntries(f) = SumFunctionOnSet(c, S)
  <2>1. DOMAIN c = S
    OBVIOUS
  <2>2. NbEntries(f) = SumFunction(c)
    BY DEF NbEntries
  <2> HIDE DEF c
  <2> QED
    BY <2>1, <2>2 DEF SumFunction
<1> QED
  BY <1>3, <1>4, FS_CardinalityType

-----------------------------------------------------------------------------
(* What the payloads hold together.                                         *)

Total(ps, field, s) == SumFunction([p \in DOMAIN ps |-> ps[p][field][s]])

Payloads(ps, n) == n \in Nat /\ ps \in [1 .. n -> PayloadType]

\* The field of a payload at a slot is a number.
LEMMA FieldType ==
  ASSUME NEW payload \in PayloadType, NEW field \in {"counts", "dists"}, NEW s \in Slot
  PROVE  payload[field][s] \in Nat
  BY DEF PayloadType

\* The terms of a total.
LEMMA TotalTerms ==
  ASSUME NEW ps, NEW n, Payloads(ps, n), NEW field \in {"counts", "dists"}, NEW s \in Slot
  PROVE  LET t == [p \in 1 .. n |-> ps[p][field][s]]
         IN  /\ Total(ps, field, s) = SumFunctionOnSet(t, 1 .. n)
             /\ IsFiniteSet(1 .. n) /\ IntOn(t, 1 .. n)
             /\ \A p \in 1 .. n : t[p] = ps[p][field][s] /\ t[p] \in Nat
<1> DEFINE t == [p \in 1 .. n |-> ps[p][field][s]]
<1>1. n \in Nat /\ DOMAIN ps = 1 .. n /\ \A p \in 1 .. n : ps[p] \in PayloadType
  BY DEF Payloads
<1>2. \A p \in 1 .. n : t[p] = ps[p][field][s] /\ t[p] \in Nat
  BY <1>1, FieldType
<1>3. Total(ps, field, s) = SumFunction(t) /\ DOMAIN t = 1 .. n
  BY <1>1 DEF Total
<1>4. IsFiniteSet(1 .. n)
  BY <1>1, FS_Interval
<1> HIDE DEF t
<1>5. Total(ps, field, s) = SumFunctionOnSet(t, 1 .. n) /\ IntOn(t, 1 .. n)
  BY <1>2, <1>3 DEF SumFunction, IntOn
<1> QED
  BY <1>2, <1>4, <1>5 DEF t

\* One payload holds at most what all hold.
LEMMA TotalCovers ==
  ASSUME NEW ps, NEW n, Payloads(ps, n), NEW field \in {"counts", "dists"}, NEW s \in Slot,
         NEW p \in 1 .. n
  PROVE  Total(ps, field, s) \in Int /\ ps[p][field][s] <= Total(ps, field, s)
<1> DEFINE t == [q \in 1 .. n |-> ps[q][field][s]]
           z == [q \in 1 .. n |-> 0]
           S == 1 .. n
<1>1. /\ Total(ps, field, s) = SumFunctionOnSet(t, S)
      /\ IsFiniteSet(S) /\ IntOn(t, S)
      /\ \A q \in S : t[q] = ps[q][field][s] /\ t[q] \in Nat
  BY TotalTerms
<1>2. \A q \in S : z[q] = 0
  OBVIOUS
<1>3. p \in S
  OBVIOUS
<1> HIDE DEF t, z, S
<1>4. /\ SumFunctionOnSet(t, S) = t[p] + SumFunctionOnSet(t, S \ {p})
      /\ SumFunctionOnSet(t, S \ {p}) \in Int
  BY <1>1, <1>3, SumRemove
<1> DEFINE R == S \ {p}
<1>5. /\ IsFiniteSet(R) /\ IntOn(t, R) /\ IntOn(z, R)
      /\ \A q \in R : z[q] <= t[q] /\ z[q] = 0
  BY <1>1, <1>2, FS_RemoveElement DEF IntOn
<1> HIDE DEF R
<1>6. SumFunctionOnSet(z, R) = 0 /\ SumFunctionOnSet(z, R) <= SumFunctionOnSet(t, R)
  BY <1>5, SumZero, SumMonotonic
<1>7. SumFunctionOnSet(t, S \ {p}) >= 0
  BY <1>4, <1>6 DEF R
<1> QED
  BY <1>1, <1>3, <1>4, <1>7

\* One payload of ps is replaced.
Replaced(ps, qs, n, p) ==
    /\ Payloads(ps, n) /\ Payloads(qs, n)
    /\ \A q \in 1 .. n : q # p => qs[q] = ps[q]

\* What all hold changes by what the replaced one holds.
LEMMA TotalReplaced ==
  ASSUME NEW ps, NEW qs, NEW n, NEW p \in 1 .. n, Replaced(ps, qs, n, p),
         NEW field \in {"counts", "dists"}, NEW s \in Slot
  PROVE  Total(qs, field, s) = Total(ps, field, s) - ps[p][field][s] + qs[p][field][s]
<1> DEFINE t == [q \in 1 .. n |-> ps[q][field][s]]
           u == [q \in 1 .. n |-> qs[q][field][s]]
           S == 1 .. n
           z == p
<1>1. /\ Total(ps, field, s) = SumFunctionOnSet(t, S)
      /\ IsFiniteSet(S) /\ IntOn(t, S)
      /\ \A q \in S : t[q] = ps[q][field][s]
  BY TotalTerms DEF Replaced
<1>2. /\ Total(qs, field, s) = SumFunctionOnSet(u, S)
      /\ IntOn(u, S)
      /\ \A q \in S : u[q] = qs[q][field][s]
  BY TotalTerms DEF Replaced
<1>3. z \in S /\ \A q \in S \ {z} : t[q] = u[q]
  BY DEF Replaced
<1> HIDE DEF t, u, S, z
<1>4. SumFunctionOnSet(u, S) = SumFunctionOnSet(t, S) - t[z] + u[z]
  BY <1>1, <1>2, <1>3, SumChange
<1> QED
  BY <1>1, <1>2, <1>3, <1>4 DEF z

-----------------------------------------------------------------------------
(* One entry more.                                                          *)

Slots(payload) == {s \in Slot : payload.counts[s] > 0}

\* There are finitely many slots.
LEMMA SlotsFinite ==
  ASSUME NEW payload
  PROVE  IsFiniteSet(Slots(payload)) /\ Cardinality(Slots(payload)) \in Nat
<1>1. IsFiniteSet(Slot)
  BY FS_Product, ConfAssumption DEF Slot
<1>2. Slots(payload) \in SUBSET Slot
  BY DEF Slots
<1>3. IsFiniteSet(Slots(payload))
  BY <1>1, <1>2, FS_Subset
<1> QED
  BY <1>3, FS_CardinalityType

\* What AddEntry does at each slot.
LEMMA AddedEntry ==
  ASSUME NEW payload \in PayloadType, NEW w \in Windows, NEW k \in Keys
  PROVE  LET new == AddEntry(payload, w, k)
             t == <<w, k>>
         IN  /\ new \in PayloadType
             /\ t \in Slot
             /\ new.counts[t] = MergeCount(payload.counts[t]) /\ payload.counts[t] \in Nat
             /\ new.dists[t] = MergeDist(payload.dists[t], k) /\ payload.dists[t] \in Nat
             /\ \A s \in Slot : s # t => /\ new.counts[s] = payload.counts[s]
                                         /\ new.dists[s] = payload.dists[s]
<1> DEFINE new == AddEntry(payload, w, k)
           t == <<w, k>>
<1>1. t \in Slot
  BY DEF Slot
<1>2. payload.counts \in [Slot -> Nat] /\ payload.dists \in [Slot -> Nat]
  BY DEF PayloadType
<1>3. /\ new = [counts |-> new.counts, dists |-> new.dists]
      /\ new.counts = [payload.counts EXCEPT ![t] = MergeCount(payload.counts[t])]
      /\ new.dists = [payload.dists EXCEPT ![t] = MergeDist(payload.dists[t], k)]
  BY DEF AddEntry
<1>4. /\ payload.counts[t] \in Nat /\ payload.dists[t] \in Nat
      /\ MergeCount(payload.counts[t]) \in Nat /\ MergeDist(payload.dists[t], k) \in Nat
  BY <1>1, <1>2 DEF MergeCount, MergeDist
<1> HIDE DEF new, t
<1>5. new.counts \in [Slot -> Nat] /\ new.dists \in [Slot -> Nat]
  BY <1>2, <1>3, <1>4
<1>6. new \in PayloadType
  BY <1>3, <1>5 DEF PayloadType
<1>7. /\ new.counts[t] = MergeCount(payload.counts[t])
      /\ new.dists[t] = MergeDist(payload.dists[t], k)
      /\ \A s \in Slot : s # t => /\ new.counts[s] = payload.counts[s]
                                  /\ new.dists[s] = payload.dists[s]
  BY <1>1, <1>2, <1>3
<1> QED
  BY <1>1, <1>4, <1>6, <1>7 DEF new, t

\* The slot of the entry is used then.
LEMMA AddedSlots ==
  ASSUME NEW payload \in PayloadType, NEW w \in Windows, NEW k \in Keys
  PROVE  LET old == Cardinality(Slots(payload))
             new == Cardinality(Slots(AddEntry(payload, w, k)))
         IN  old \in Nat /\ new \in Nat /\ 1 <= new /\ new <= old + 1 /\ old <= new
<1> DEFINE q == AddEntry(payload, w, k)
           t == <<w, k>>
<1>1. /\ t \in Slot /\ q.counts[t] = MergeCount(payload.counts[t]) /\ payload.counts[t] \in Nat
      /\ \A s \in Slot : s # t => q.counts[s] = payload.counts[s]
  BY AddedEntry
<1> HIDE DEF q, t
<1>2. q.counts[t] > 0
  BY <1>1 DEF MergeCount
<1>3. Slots(q) = Slots(payload) \cup {t}
  BY <1>1, <1>2 DEF Slots
<1>4. IsFiniteSet(Slots(payload)) /\ Cardinality(Slots(payload)) \in Nat /\ Cardinality(Slots(q)) \in Nat
  BY SlotsFinite
<1>5. Cardinality(Slots(q)) = IF t \in Slots(payload) THEN Cardinality(Slots(payload))
                              ELSE Cardinality(Slots(payload)) + 1
  BY <1>3, <1>4, FS_AddElement
<1>6. Cardinality(Slots(q)) # 0
  BY <1>3, SlotsFinite, FS_EmptySet
<1> QED
  BY <1>4, <1>5, <1>6 DEF q, t

-----------------------------------------------------------------------------
(* The invariant of the loop that places the entries.                       *)

\* The buckets whose entry at slot s was placed; rest is what was not.
PlacedOf(f, rest, s) ==
    {j \in DOMAIN f : f[j].window = s[1] /\ s[2] \in f[j].keys /\ <<j, s[2]>> \notin rest}

DistsPlaced(f, rest, ps) ==
    \A s \in Slot : Total(ps, "dists", s)
                      = IF s[2] \in DistKeys THEN Cardinality(PlacedOf(f, rest, s)) ELSE 0

CountsPlaced(f, rest, ps) ==
    \A s \in Slot : Total(ps, "counts", s) = Cardinality(PlacedOf(f, rest, s))

\* Payload p got the entries p - 1, p - 1 + n, ... among the first i.
RoundRobin(ps, n, i) ==
    \A p \in 1 .. n :
        LET c == Cardinality(Slots(ps[p]))
        IN  /\ c >= 1 => n * (c - 1) + (p - 1) < i
            /\ p - 1 < i => c >= 1

Placing(f, rest, i, ps, n) ==
    /\ f \in Flushes /\ Payloads(ps, n) /\ i \in Nat
    /\ MaxEntriesPerPayload >= 1 /\ NbEntries(f) >= MaxEntriesPerPayload
    /\ n = NbPayloads(f)
    /\ rest \subseteq Entries(f, DOMAIN f)
    /\ i + Cardinality(rest) = NbEntries(f)
    /\ DistsPlaced(f, rest, ps)
    /\ OneBucketPerWindow(f) => CountsPlaced(f, rest, ps)
    /\ RoundRobin(ps, n, i)

\* How the placed buckets change with an entry.
LEMMA PlacedMore ==
  ASSUME NEW f \in Flushes, NEW rest, NEW b \in DOMAIN f, NEW k \in f[b].keys, <<b, k>> \in rest
  PROVE  LET t == <<f[b].window, k>>
             less == rest \ {<<b, k>>}
         IN  /\ Cardinality(PlacedOf(f, rest, t)) \in Nat
             /\ Cardinality(PlacedOf(f, less, t)) = Cardinality(PlacedOf(f, rest, t)) + 1
             /\ \A s \in Slot : s # t => PlacedOf(f, less, s) = PlacedOf(f, rest, s)
             /\ OneBucketPerWindow(f) => Cardinality(PlacedOf(f, rest, t)) = 0
<1> DEFINE t == <<f[b].window, k>>
           less == rest \ {<<b, k>>}
           P == PlacedOf(f, rest, t)
           Q == PlacedOf(f, less, t)
<1>1. IsFiniteSet(P) /\ Cardinality(P) \in Nat
  <2>1. IsFiniteSet(DOMAIN f) /\ P \in SUBSET (DOMAIN f)
    BY FlushType DEF PlacedOf
  <2>2. IsFiniteSet(P)
    <3> HIDE DEF P
    <3> QED
      BY <2>1, FS_Subset
  <2> QED
    BY <2>2, FS_CardinalityType
<1>2. Q = P \cup {b} /\ b \notin P
  BY DEF PlacedOf
<1>3. Cardinality(Q) = Cardinality(P) + 1
  <2> HIDE DEF P, Q
  <2> QED
    BY <1>1, <1>2, FS_AddElement
<1>4. ASSUME NEW s \in Slot, s # t PROVE PlacedOf(f, less, s) = PlacedOf(f, rest, s)
  <2>1. s = <<s[1], s[2]>>
    BY DEF Slot
  <2>2. ASSUME NEW j \in DOMAIN f, f[j].window = s[1]
        PROVE  <<j, s[2]>> \in less <=> <<j, s[2]>> \in rest
    <3>1. <<j, s[2]>> # <<b, k>>
      BY <1>4, <2>1, <2>2
    <3> QED
      BY <3>1
  <2> QED
    BY <2>2 DEF PlacedOf
<1>5. OneBucketPerWindow(f) => P = {}
  BY DEF OneBucketPerWindow, PlacedOf
<1>6. OneBucketPerWindow(f) => Cardinality(P) = 0
  BY <1>5, FS_EmptySet
<1> QED
  BY <1>1, <1>3, <1>4, <1>6

\* The distributions stay in step with the entries.
LEMMA DistsStep ==
  ASSUME NEW f \in Flushes, NEW rest, NEW b \in DOMAIN f, NEW k \in f[b].keys, <<b, k>> \in rest,
         NEW ps, NEW qs, NEW n, NEW p \in 1 .. n, Replaced(ps, qs, n, p),
         qs[p] = AddEntry(ps[p], f[b].window, k),
         DistsPlaced(f, rest, ps)
  PROVE  DistsPlaced(f, rest \ {<<b, k>>}, qs)
<1> DEFINE t == <<f[b].window, k>>
           less == rest \ {<<b, k>>}
<1>0. f[b].window \in Windows /\ k \in Keys /\ ps[p] \in PayloadType
  BY FlushType DEF Replaced, Payloads
<1>1. /\ t \in Slot /\ t[2] = k
      /\ qs[p].dists[t] = MergeDist(ps[p].dists[t], k) /\ ps[p].dists[t] \in Nat
      /\ \A s \in Slot : s # t => qs[p].dists[s] = ps[p].dists[s]
  BY <1>0, AddedEntry
<1>2. /\ Cardinality(PlacedOf(f, rest, t)) \in Nat
      /\ Cardinality(PlacedOf(f, less, t)) = Cardinality(PlacedOf(f, rest, t)) + 1
      /\ \A s \in Slot : s # t => PlacedOf(f, less, s) = PlacedOf(f, rest, s)
  <2>1. Cardinality(PlacedOf(f, rest, t)) \in Nat
    BY PlacedMore
  <2>2. Cardinality(PlacedOf(f, less, t)) = Cardinality(PlacedOf(f, rest, t)) + 1
    BY PlacedMore
  <2>3. \A s \in Slot : s # t => PlacedOf(f, less, s) = PlacedOf(f, rest, s)
    BY PlacedMore
  <2> QED
    BY <2>1, <2>2, <2>3
<1>3. ASSUME NEW s \in Slot
      PROVE  Total(qs, "dists", s) = IF s[2] \in DistKeys THEN Cardinality(PlacedOf(f, less, s)) ELSE 0
  <2>1. /\ Total(qs, "dists", s) = Total(ps, "dists", s) - ps[p].dists[s] + qs[p].dists[s]
        /\ Total(ps, "dists", s) \in Int /\ ps[p].dists[s] \in Nat
    BY <1>0, TotalReplaced, TotalCovers, FieldType DEF Replaced
  <2>2. Total(ps, "dists", s) = IF s[2] \in DistKeys THEN Cardinality(PlacedOf(f, rest, s)) ELSE 0
    BY DEF DistsPlaced
  <2> HIDE DEF t, less
  <2>3. CASE s # t
    BY <1>1, <1>2, <2>1, <2>2, <2>3
  <2>4. CASE s = t
    BY <1>1, <1>2, <2>1, <2>2, <2>4 DEF MergeDist
  <2> QED
    BY <2>3, <2>4
<1> QED
  BY <1>3 DEF DistsPlaced

\* So do the counts when the windows differ: the slot is still free then.
LEMMA CountsStep ==
  ASSUME NEW f \in Flushes, NEW rest, NEW b \in DOMAIN f, NEW k \in f[b].keys, <<b, k>> \in rest,
         NEW ps, NEW qs, NEW n, NEW p \in 1 .. n, Replaced(ps, qs, n, p),
         qs[p] = AddEntry(ps[p], f[b].window, k),
         OneBucketPerWindow(f), CountsPlaced(f, rest, ps)
  PROVE  CountsPlaced(f, rest \ {<<b, k>>}, qs)
<1> DEFINE t == <<f[b].window, k>>
           less == rest \ {<<b, k>>}
<1>0. f[b].window \in Windows /\ k \in Keys /\ ps[p] \in PayloadType
  BY FlushType DEF Replaced, Payloads
<1>1. /\ t \in Slot
      /\ qs[p].counts[t] = MergeCount(ps[p].counts[t]) /\ ps[p].counts[t] \in Nat
      /\ \A s \in Slot : s # t => qs[p].counts[s] = ps[p].counts[s]
  BY <1>0, AddedEntry
<1>2. /\ Cardinality(PlacedOf(f, rest, t)) = 0
      /\ Cardinality(PlacedOf(f, less, t)) = Cardinality(PlacedOf(f, rest, t)) + 1
      /\ \A s \in Slot : s # t => PlacedOf(f, less, s) = PlacedOf(f, rest, s)
  BY PlacedMore
<1>3. ASSUME NEW s \in Slot
      PROVE  Total(qs, "counts", s) = Cardinality(PlacedOf(f, less, s))
  <2>1. /\ Total(qs, "counts", s) = Total(ps, "counts", s) - ps[p].counts[s] + qs[p].counts[s]
        /\ Total(ps, "counts", s) \in Int /\ ps[p].counts[s] \in Nat
        /\ ps[p].counts[s] <= Total(ps, "counts", s)
    BY <1>0, TotalReplaced, TotalCovers, FieldType DEF Replaced
  <2>2. Total(ps, "counts", s) = Cardinality(PlacedOf(f, rest, s))
    BY DEF CountsPlaced
  <2> HIDE DEF t, less
  <2>3. CASE s # t
    BY <1>1, <1>2, <2>1, <2>2, <2>3
  <2>4. CASE s = t
    BY <1>1, <1>2, <2>1, <2>2, <2>4 DEF MergeCount
  <2> QED
    BY <2>3, <2>4
<1> QED
  BY <1>3 DEF CountsPlaced

\* The index in its round.
LEMMA Rounds ==
  ASSUME NEW i \in Nat, NEW n \in Nat \ {0}
  PROVE  /\ i % n \in 0 .. n - 1 /\ i \div n \in Nat
         /\ i = n * (i \div n) + (i % n)
  OBVIOUS

\* An entry goes to the payload whose turn it is, which has one slot per earlier
\* round at most.
LEMMA TurnBound ==
  ASSUME NEW n \in Nat \ {0}, NEW q \in Nat, NEW r \in Nat, NEW c \in Nat,
         c >= 1 => n * (c - 1) + r < n * q + r
  PROVE  n * c + r <= n * q + r
<1>1. CASE c = 0
  BY <1>1
<1>2. CASE c >= 1
  <2>1. n * (c - 1) < n * q
    BY <1>2
  <2>2. c - 1 < q
    BY <1>2, <2>1
  <2>3. c <= q
    BY <2>2
  <2>4. n * c <= n * q
    BY <2>3
  <2> QED
    BY <2>4
<1> QED
  BY <1>1, <1>2

\* Round robin keeps the payloads level.
LEMMA RoundRobinStep ==
  ASSUME NEW ps, NEW qs, NEW n \in Nat \ {0}, NEW i \in Nat,
         \A q \in 1 .. n : q # (i % n) + 1 => qs[q] = ps[q],
         LET old == Cardinality(Slots(ps[(i % n) + 1]))
             new == Cardinality(Slots(qs[(i % n) + 1]))
         IN  old \in Nat /\ new \in Nat /\ 1 <= new /\ new <= old + 1 /\ old <= new,
         RoundRobin(ps, n, i)
  PROVE  RoundRobin(qs, n, i + 1)
<1> DEFINE p == (i % n) + 1
           old == Cardinality(Slots(ps[p]))
           new == Cardinality(Slots(qs[p]))
           r == i % n
           k == i \div n
<1>1. r \in 0 .. n - 1 /\ k \in Nat /\ i = n * k + r /\ p = r + 1 /\ p \in 1 .. n
  <2>1. r \in 0 .. n - 1 /\ k \in Nat
    BY Rounds
  <2>2. i = n * k + r
    BY Rounds
  <2>3. p = r + 1
    OBVIOUS
  <2> HIDE DEF r, k, p
  <2> QED
    BY <2>1, <2>2, <2>3
<1>2. old \in Nat /\ new \in Nat /\ 1 <= new /\ new <= old + 1 /\ old <= new
  OBVIOUS
<1>3. old >= 1 => n * (old - 1) + (p - 1) < i
  BY <1>1 DEF RoundRobin
<1>4. \A q \in 1 .. n : q # p => qs[q] = ps[q]
  OBVIOUS
<1> HIDE DEF p, old, new, r, k
<1>5. n * (new - 1) + (p - 1) < i + 1
  <2>1. n * old + r <= n * k + r
    <3>1. old >= 1 => n * (old - 1) + r < n * k + r
      BY <1>1, <1>3
    <3> QED
      BY <1>1, <1>2, <3>1, TurnBound
  <2>2. n * (new - 1) <= n * old
    <3>1. new - 1 \in Nat /\ new - 1 <= old
      BY <1>2
    <3> DEFINE m == new - 1
    <3>2. m \in Nat /\ m <= old
      BY <3>1
    <3> HIDE DEF m
    <3>3. n * m <= n * old
      BY <1>2, <3>2
    <3> QED
      BY <3>3 DEF m
  <2> DEFINE x == n * (new - 1)
             y == n * old
             z == n * k
  <2>3. x \in Int /\ y \in Int /\ z \in Int /\ x <= y /\ y + r <= z + r /\ i = z + r
    BY <1>1, <1>2, <2>1, <2>2
  <2> HIDE DEF x, y, z
  <2>4. x + (p - 1) < i + 1
    BY <1>1, <2>3
  <2> QED
    BY <2>4 DEF x
<1>6. ASSUME NEW q \in 1 .. n
      PROVE  LET c == Cardinality(Slots(qs[q]))
             IN  /\ c >= 1 => n * (c - 1) + (q - 1) < i + 1
                 /\ q - 1 < i + 1 => c >= 1
  <2>1. CASE q = p
    BY <1>2, <1>5, <2>1 DEF new
  <2>2. CASE q # p
    <3> DEFINE c == Cardinality(Slots(qs[q]))
    <3>1. /\ c \in Nat
          /\ c >= 1 => n * (c - 1) + (q - 1) < i
          /\ q - 1 < i => c >= 1
      BY <1>4, <2>2, SlotsFinite DEF RoundRobin
    <3>2. q - 1 # i
      <4>1. ASSUME q - 1 = i PROVE FALSE
        <5>1. i < n
          BY <4>1
        <5>2. i % n = i
          BY <5>1
        <5> QED
          BY <1>1, <2>2, <4>1, <5>2 DEF r
      <4> QED
        BY <4>1
    <3> HIDE DEF c
    <3> DEFINE x == n * (c - 1)
    <3>3. x \in Int /\ (c >= 1 => x + (q - 1) < i)
      BY <3>1
    <3> HIDE DEF x
    <3>4. c >= 1 => x + (q - 1) < i + 1
      BY <3>3
    <3>5. q - 1 < i + 1 => c >= 1
      BY <3>1, <3>2
    <3> QED
      BY <3>4, <3>5 DEF c, x
  <2> QED
    BY <2>1, <2>2
<1> QED
  BY <1>6 DEF RoundRobin

\* Enough payloads for the entries, and not more payloads than entries.
LEMMA NbPayloadsBounds ==
  ASSUME NEW f, NbEntries(f) \in Nat, MaxEntriesPerPayload >= 1,
         NbEntries(f) >= MaxEntriesPerPayload
  PROVE  /\ NbPayloads(f) \in Nat \ {0} /\ NbPayloads(f) <= NbEntries(f)
         /\ NbEntries(f) <= NbPayloads(f) * MaxEntriesPerPayload
<1> DEFINE e == NbEntries(f)
           m == MaxEntriesPerPayload
           q == e \div m
           r == e % m
<1>1. e \in Nat /\ m \in Nat \ {0} /\ e >= m
  BY ConfAssumption
<1>2. r \in 0 .. m - 1 /\ q \in Nat /\ e = m * q + r
  <2> HIDE DEF e, m
  <2> QED
    BY <1>1, Rounds
<1>3. NbPayloads(f) = q + (IF r # 0 THEN 1 ELSE 0)
  BY DEF NbPayloads
<1> HIDE DEF e, m, q, r
<1>4. q >= 1
  <2>1. ASSUME q = 0 PROVE FALSE
    BY <1>1, <1>2, <2>1
  <2> QED
    BY <1>2, <2>1
<1>5. q <= m * q
  BY <1>1, <1>2
<1>6. q + (IF r # 0 THEN 1 ELSE 0) <= e
  <2> DEFINE x == m * q
  <2>1. x \in Int /\ q <= x /\ e = x + r
    BY <1>1, <1>2, <1>5
  <2> HIDE DEF x
  <2> QED
    BY <1>2, <2>1
<1>7. e <= (q + (IF r # 0 THEN 1 ELSE 0)) * m
  <2>1. (q + 1) * m = m * q + m /\ q * m = m * q /\ (q + 0) * m = m * q
    BY <1>1, <1>2
  <2> DEFINE x == m * q
             y == q + 1
             z == q + 0
  <2>2. x \in Int /\ e = x + r /\ y * m = x + m /\ z * m = x
    BY <1>1, <1>2, <2>1
  <2>3. CASE r # 0
    <3>1. q + (IF r # 0 THEN 1 ELSE 0) = y
      BY <2>3
    <3> HIDE DEF x, y
    <3> QED
      BY <1>1, <1>2, <2>2, <3>1
  <2>4. CASE r = 0
    <3>1. q + (IF r # 0 THEN 1 ELSE 0) = z
      BY <2>4
    <3> HIDE DEF x, z
    <3> QED
      BY <1>1, <1>2, <2>2, <2>4, <3>1
  <2> QED
    BY <2>3, <2>4
<1> QED
  BY <1>2, <1>3, <1>4, <1>6, <1>7 DEF e, m

\* Before the first entry.
LEMMA PlacingBegins ==
  ASSUME NEW f \in Flushes, MaxEntriesPerPayload >= 1, NbEntries(f) >= MaxEntriesPerPayload,
         NEW ps, Payloads(ps, NbPayloads(f)), \A p \in 1 .. NbPayloads(f) : ps[p] = EmptyPayload
  PROVE  Placing(f, Entries(f, DOMAIN f), 0, ps, NbPayloads(f))
<1> DEFINE n == NbPayloads(f)
           all == Entries(f, DOMAIN f)
<1>1. NbEntries(f) \in Nat /\ Cardinality(all) = NbEntries(f) /\ n \in Nat \ {0}
  BY EntriesCounted, NbPayloadsBounds
<1>2. /\ EmptyPayload \in PayloadType
      /\ \A s \in Slot : EmptyPayload["counts"][s] = 0 /\ EmptyPayload["dists"][s] = 0
  BY DEF EmptyPayload, PayloadType
<1>3. Payloads(ps, n) /\ \A p \in 1 .. n : ps[p] = EmptyPayload
  OBVIOUS
<1> HIDE DEF n
<1>4. ASSUME NEW field \in {"counts", "dists"}, NEW s \in Slot
      PROVE  Total(ps, field, s) = 0
  <2> DEFINE t == [p \in 1 .. n |-> ps[p][field][s]]
             S == 1 .. n
  <2>1. /\ Total(ps, field, s) = SumFunctionOnSet(t, S)
        /\ IsFiniteSet(S)
        /\ \A p \in S : t[p] = ps[p][field][s]
    BY <1>3, TotalTerms
  <2>2. \A p \in S : ps[p][field][s] = 0
    BY <1>2, <1>3
  <2> HIDE DEF t, S
  <2>3. SumFunctionOnSet(t, S) = 0
    BY <2>1, <2>2, SumZero
  <2> QED
    BY <2>1, <2>3
<1>5. ASSUME NEW s PROVE Cardinality(PlacedOf(f, all, s)) = 0
  <2>1. ASSUME NEW j \in DOMAIN f, s[2] \in f[j].keys PROVE <<j, s[2]>> \in all
    BY <2>1, EntryMember
  <2>2. PlacedOf(f, all, s) = {}
    BY <2>1 DEF PlacedOf
  <2> QED
    BY <2>2, FS_EmptySet
<1>6. DistsPlaced(f, all, ps) /\ CountsPlaced(f, all, ps)
  BY <1>4, <1>5 DEF DistsPlaced, CountsPlaced
<1>7. RoundRobin(ps, n, 0)
  <2>1. Slots(EmptyPayload) = {}
    BY <1>2 DEF Slots
  <2>2. Cardinality(Slots(EmptyPayload)) = 0
    BY <2>1, FS_EmptySet
  <2>3. ASSUME NEW p \in 1 .. n
        PROVE  LET c == Cardinality(Slots(ps[p]))
               IN  /\ c >= 1 => n * (c - 1) + (p - 1) < 0
                   /\ p - 1 < 0 => c >= 1
    <3>1. Cardinality(Slots(ps[p])) = 0 /\ ~(p - 1 < 0)
      BY <1>1, <1>3, <2>2
    <3> QED
      BY <3>1
  <2> QED
    BY <2>3 DEF RoundRobin
<1>8. all \subseteq Entries(f, DOMAIN f) /\ 0 + Cardinality(all) = NbEntries(f) /\ 0 \in Nat
  BY <1>1
<1> HIDE DEF all
<1>9. Placing(f, all, 0, ps, n)
  BY <1>3, <1>6, <1>7, <1>8 DEF Placing, n
<1> QED
  BY <1>9 DEF all, n

\* One iteration.
LEMMA PlacingContinues ==
  ASSUME NEW f, NEW rest, NEW i, NEW ps, NEW n, Placing(f, rest, i, ps, n),
         NEW b, NEW k, <<b, k>> \in rest,
         NEW qs, qs = [ps EXCEPT ![(i % n) + 1] = AddEntry(ps[(i % n) + 1], f[b].window, k)]
  PROVE  Placing(f, rest \ {<<b, k>>}, i + 1, qs, n)
<1> DEFINE p == (i % n) + 1
           less == rest \ {<<b, k>>}
           new == AddEntry(ps[p], f[b].window, k)
<1>1. /\ f \in Flushes /\ Payloads(ps, n) /\ i \in Nat
      /\ MaxEntriesPerPayload >= 1 /\ NbEntries(f) >= MaxEntriesPerPayload
      /\ n = NbPayloads(f) /\ NbEntries(f) \in Nat
      /\ rest \subseteq Entries(f, DOMAIN f)
      /\ i + Cardinality(rest) = NbEntries(f)
  BY EntriesCounted DEF Placing
<1>2. n \in Nat \ {0}
  BY <1>1, NbPayloadsBounds
<1>3. b \in DOMAIN f /\ k \in f[b].keys
  BY <1>1, EntryMember
<1>4. f[b].window \in Windows /\ k \in Keys
  BY <1>1, <1>3, FlushType
<1>5. p \in 1 .. n
  <2>1. i % n \in 0 .. n - 1
    BY <1>1, <1>2, Rounds
  <2> DEFINE r == i % n
  <2>2. r \in 0 .. n - 1 /\ p = r + 1
    BY <2>1
  <2> HIDE DEF r, p
  <2> QED
    BY <1>2, <2>2
<1>6. ps[p] \in PayloadType
  BY <1>1, <1>5 DEF Payloads
<1>7. new \in PayloadType
  BY <1>4, <1>6, AddedEntry
<1>8. Replaced(ps, qs, n, p) /\ qs[p] = new
  <2>1. qs = [ps EXCEPT ![p] = new] /\ ps \in [1 .. n -> PayloadType]
    BY <1>1 DEF Payloads
  <2> HIDE DEF p, new
  <2>2. qs \in [1 .. n -> PayloadType] /\ qs[p] = new /\ \A q \in 1 .. n : q # p => qs[q] = ps[q]
    BY <1>5, <1>7, <2>1
  <2> QED
    BY <1>1, <2>2 DEF Replaced, Payloads
<1>9. DistsPlaced(f, less, qs)
  <2>1. DistsPlaced(f, rest, ps)
    BY DEF Placing
  <2> HIDE DEF p
  <2> QED
    BY <1>1, <1>3, <1>5, <1>8, <2>1, DistsStep
<1>10. OneBucketPerWindow(f) => CountsPlaced(f, less, qs)
  <2>1. OneBucketPerWindow(f) => CountsPlaced(f, rest, ps)
    BY DEF Placing
  <2> HIDE DEF p
  <2> QED
    BY <1>1, <1>3, <1>5, <1>8, <2>1, CountsStep
<1>11. RoundRobin(qs, n, i + 1)
  <2>1. RoundRobin(ps, n, i)
    BY DEF Placing
  <2>2. LET old == Cardinality(Slots(ps[p]))
            add == Cardinality(Slots(qs[p]))
        IN  old \in Nat /\ add \in Nat /\ 1 <= add /\ add <= old + 1 /\ old <= add
    BY <1>4, <1>6, <1>8, AddedSlots
  <2>3. \A q \in 1 .. n : q # p => qs[q] = ps[q]
    BY <1>8 DEF Replaced
  <2> QED
    BY <1>1, <1>2, <2>1, <2>2, <2>3, RoundRobinStep
<1>12. less \subseteq Entries(f, DOMAIN f) /\ (i + 1) + Cardinality(less) = NbEntries(f)
  <2>1. IsFiniteSet(Entries(f, DOMAIN f))
    BY <1>1, EntriesCounted
  <2>2. IsFiniteSet(rest)
    BY <1>1, <2>1, FS_Subset
  <2>3. Cardinality(less) = Cardinality(rest) - 1 /\ Cardinality(rest) \in Nat
    BY <2>2, FS_RemoveElement, FS_CardinalityType
  <2> QED
    BY <1>1, <2>3
<1>13. Payloads(qs, n) /\ i + 1 \in Nat
  BY <1>1, <1>8 DEF Replaced
<1> HIDE DEF less, p, new
<1>14. Placing(f, less, i + 1, qs, n)
  BY <1>1, <1>9, <1>10, <1>11, <1>12, <1>13 DEF Placing
<1> QED
  BY <1>14 DEF less

-----------------------------------------------------------------------------
(* The payloads that are sent.                                              *)

\* What SplitConserves says of the payloads ps of the flush f.
SplitOf(f, ps) ==
    /\ \A s \in Slot : Total(ps, "dists", s) = Unsplit(f).dists[s]
    /\ OneBucketPerWindow(f) => \A s \in Slot : Total(ps, "counts", s) = Unsplit(f).counts[s]
    /\ MaxEntriesPerPayload > 0 /\ NbEntries(f) > 0 =>
          \A p \in DOMAIN ps : Cardinality(Slots(ps[p])) \in 1 .. MaxEntriesPerPayload

\* The early return's payload, in terms of the placed entries.
LEMMA UnsplitHolds ==
  ASSUME NEW f, NEW s \in Slot
  PROVE  /\ Unsplit(f).counts[s] = Cardinality(PlacedOf(f, {}, s))
         /\ Unsplit(f).dists[s]
              = IF s[2] \in DistKeys THEN Cardinality(PlacedOf(f, {}, s)) ELSE 0
<1>1. PlacedOf(f, {}, s) = {j \in DOMAIN f : f[j].window = s[1] /\ s[2] \in f[j].keys}
  BY DEF PlacedOf
<1> QED
  BY <1>1 DEF Unsplit

\* After the last entry everything is placed, and the payloads are level.
LEMMA PlacingDone ==
  ASSUME NEW f, NEW i, NEW ps, NEW n, Placing(f, {}, i, ps, n)
  PROVE  SplitOf(f, ps)
<1>1. /\ f \in Flushes /\ DOMAIN ps = 1 .. n /\ i \in Nat
      /\ MaxEntriesPerPayload >= 1 /\ NbEntries(f) >= MaxEntriesPerPayload
      /\ n = NbPayloads(f) /\ NbEntries(f) \in Nat
  BY EntriesCounted DEF Placing, Payloads
<1>2. i = NbEntries(f)
  <2>1. i + Cardinality({}) = NbEntries(f)
    BY DEF Placing
  <2> QED
    BY <1>1, <2>1, FS_EmptySet
<1>3. /\ n \in Nat \ {0} /\ n <= i /\ i <= n * MaxEntriesPerPayload
  BY <1>1, <1>2, NbPayloadsBounds
<1>4. ASSUME NEW p \in 1 .. n
      PROVE  Cardinality(Slots(ps[p])) \in 1 .. MaxEntriesPerPayload
  <2> DEFINE c == Cardinality(Slots(ps[p]))
             m == MaxEntriesPerPayload
  <2>1. /\ c \in Nat
        /\ c >= 1 => n * (c - 1) + (p - 1) < i
        /\ p - 1 < i => c >= 1
    BY SlotsFinite DEF Placing, RoundRobin
  <2>2. m \in Nat
    BY <1>1, ConfAssumption
  <2> HIDE DEF c, m
  <2>3. c >= 1
    BY <1>1, <1>3, <2>1
  <2>4. n * (c - 1) < n * m
    <3> DEFINE x == n * (c - 1)
               y == n * m
    <3>1. x \in Int /\ y \in Int /\ x + (p - 1) < i /\ i <= y
      BY <1>1, <1>3, <2>1, <2>2, <2>3 DEF m
    <3> HIDE DEF x, y
    <3>2. x < y
      BY <1>1, <1>3, <3>1
    <3> QED
      BY <3>2 DEF x, y
  <2>5. c - 1 < m
    <3> DEFINE d == c - 1
    <3>1. d \in Nat /\ n * d < n * m
      BY <2>1, <2>3, <2>4
    <3> HIDE DEF d
    <3>2. ASSUME m <= d PROVE FALSE
      <4>1. n * m <= n * d
        BY <1>3, <2>2, <3>1, <3>2
      <4> QED
        BY <1>3, <2>2, <3>1, <4>1
    <3> QED
      BY <2>2, <3>1, <3>2 DEF d
  <2>6. c \in 1 .. m
    BY <2>1, <2>2, <2>3, <2>5
  <2> QED
    BY <2>6 DEF c, m
<1>5. \A s \in Slot : Total(ps, "dists", s) = Unsplit(f).dists[s]
  BY UnsplitHolds DEF Placing, DistsPlaced
<1>6. OneBucketPerWindow(f) => \A s \in Slot : Total(ps, "counts", s) = Unsplit(f).counts[s]
  BY UnsplitHolds DEF Placing, CountsPlaced
<1> QED
  BY <1>1, <1>4, <1>5, <1>6 DEF SplitOf

\* The slots of the early return's payload are those of the entries.
LEMMA UnsplitSlots ==
  ASSUME NEW f \in Flushes, NbEntries(f) > 0
  PROVE  Cardinality(Slots(Unsplit(f))) \in 1 .. NbEntries(f)
<1> DEFINE all == Entries(f, DOMAIN f)
           U == Slots(Unsplit(f))
           g == [e \in all |-> <<f[e[1]].window, e[2]>>]
<1>1. IsFiniteSet(all) /\ Cardinality(all) = NbEntries(f) /\ NbEntries(f) \in Nat
  BY EntriesCounted
<1>2. ASSUME NEW s \in Slot
      PROVE  s \in U <=> \E j \in DOMAIN f : f[j].window = s[1] /\ s[2] \in f[j].keys
  <2> DEFINE P == PlacedOf(f, {}, s)
  <2>1. Unsplit(f).counts[s] = Cardinality(P)
    BY UnsplitHolds
  <2>2. IsFiniteSet(DOMAIN f) /\ P \in SUBSET (DOMAIN f)
    BY FlushType DEF PlacedOf
  <2>3. P # {} <=> \E j \in DOMAIN f : f[j].window = s[1] /\ s[2] \in f[j].keys
    BY DEF PlacedOf
  <2> HIDE DEF P
  <2>4. IsFiniteSet(P)
    BY <2>2, FS_Subset
  <2>5. Cardinality(P) \in Nat /\ (Cardinality(P) = 0 <=> P = {})
    BY <2>4, FS_CardinalityType, FS_EmptySet
  <2> QED
    BY <2>1, <2>3, <2>5 DEF Slots
<1>3. U \subseteq Slot
  BY DEF Slots
<1>4. g \in Surjection(all, U)
  <2>1. ASSUME NEW e \in all PROVE g[e] \in U
    <3>1. PICK b \in DOMAIN f : \E k \in f[b].keys : e = <<b, k>>
      BY EntryMember
    <3>2. PICK k \in f[b].keys : e = <<b, k>>
      BY <3>1
    <3>3. g[e] = <<f[b].window, k>>
      BY <3>2
    <3>4. <<f[b].window, k>> \in Slot
      BY <3>1, <3>2, FlushType DEF Slot
    <3> HIDE DEF U, g
    <3> QED
      BY <1>2, <3>3, <3>4
  <2>2. ASSUME NEW s \in U PROVE \E e \in all : g[e] = s
    <3>1. s \in Slot /\ s = <<s[1], s[2]>>
      BY <1>3 DEF Slot
    <3>2. PICK j \in DOMAIN f : f[j].window = s[1] /\ s[2] \in f[j].keys
      BY <1>2, <3>1
    <3>3. <<j, s[2]>> \in all
      BY <3>2, EntryMember
    <3>4. g[<<j, s[2]>>] = s
      BY <3>1, <3>2, <3>3
    <3> QED
      BY <3>3, <3>4
  <2>3. g \in [all -> U]
    <3>1. g = [e \in all |-> g[e]]
      OBVIOUS
    <3> HIDE DEF g
    <3> QED
      BY <2>1, <3>1
  <2> HIDE DEF g, all, U
  <2> QED
    BY <2>2, <2>3 DEF Surjection
<1> HIDE DEF g, all, U
<1>5. IsFiniteSet(U) /\ Cardinality(U) <= Cardinality(all) /\ Cardinality(U) \in Nat
  BY <1>1, <1>4, FS_Surjection, FS_CardinalityType
<1>6. all # {}
  BY <1>1, FS_EmptySet
<1>7. U # {}
  BY <1>4, <1>6 DEF Surjection
<1>8. Cardinality(U) # 0
  BY <1>5, <1>7, FS_EmptySet
<1> QED
  BY <1>1, <1>5, <1>8 DEF U

\* The early return.
LEMMA UnsplitSent ==
  ASSUME NEW f \in Flushes, MaxEntriesPerPayload <= 0 \/ NbEntries(f) < MaxEntriesPerPayload
  PROVE  SplitOf(f, <<Unsplit(f)>>)
<1> DEFINE u == Unsplit(f)
           ps == <<u>>
<1>1. DOMAIN ps = {1} /\ ps[1] = u
  OBVIOUS
<1>2. ASSUME NEW field \in {"counts", "dists"}, NEW s \in Slot, u[field][s] \in Int
      PROVE  Total(ps, field, s) = u[field][s]
  <2> DEFINE t == [p \in DOMAIN ps |-> ps[p][field][s]]
  <2>1. Total(ps, field, s) = SumFunction(t) /\ DOMAIN t = {1} /\ t[1] = u[field][s]
    BY <1>1 DEF Total
  <2> HIDE DEF t
  <2>2. Total(ps, field, s) = SumFunctionOnSet(t, {1})
    BY <2>1 DEF SumFunction
  <2> QED
    BY <1>2, <2>1, <2>2, SumSingleton
<1>3. ASSUME NEW s \in Slot
      PROVE  u.counts[s] \in Int /\ u.dists[s] \in Int
  <2> DEFINE P == PlacedOf(f, {}, s)
  <2>1. IsFiniteSet(DOMAIN f) /\ P \in SUBSET (DOMAIN f)
    BY FlushType DEF PlacedOf
  <2>2. u.counts[s] = Cardinality(P) /\ u.dists[s] = IF s[2] \in DistKeys THEN Cardinality(P) ELSE 0
    BY UnsplitHolds
  <2> HIDE DEF P, u
  <2>3. Cardinality(P) \in Nat
    BY <2>1, FS_Subset, FS_CardinalityType
  <2> QED
    BY <2>2, <2>3
<1>4. MaxEntriesPerPayload > 0 /\ NbEntries(f) > 0 =>
          Cardinality(Slots(u)) \in 1 .. MaxEntriesPerPayload
  <2> SUFFICES ASSUME MaxEntriesPerPayload > 0, NbEntries(f) > 0
               PROVE  Cardinality(Slots(u)) \in 1 .. MaxEntriesPerPayload
    OBVIOUS
  <2>1. Cardinality(Slots(u)) \in 1 .. NbEntries(f) /\ NbEntries(f) \in Nat
    BY UnsplitSlots, EntriesCounted
  <2> HIDE DEF u
  <2> QED
    BY <2>1, ConfAssumption
<1>5. /\ \A s \in Slot : Total(ps, "dists", s) = u.dists[s]
      /\ \A s \in Slot : Total(ps, "counts", s) = u.counts[s]
  BY <1>2, <1>3
<1> HIDE DEF u
<1> QED
  BY <1>1, <1>4, <1>5 DEF SplitOf, u

-----------------------------------------------------------------------------
(* The invariant and the theorem.                                           *)

SplitInv ==
    /\ pc = "place" => Placing(stats, todo, index, payloads, Len(payloads))
    /\ pc = "send" => SplitOf(stats, payloads)

\* Receiving a flush.
LEMMA ReceiveSplit ==
  ASSUME NEW f \in Flushes, ReceiveStats(f)
  PROVE  SplitInv'
<1>1. CASE f = <<>>
  <2>1. pc' = "select"
    BY <1>1 DEF ReceiveStats
  <2> QED
    BY <2>1 DEF SplitInv
<1>2. CASE f # <<>> /\ (MaxEntriesPerPayload <= 0 \/ NbEntries(f) < MaxEntriesPerPayload)
  <2>1. pc' = "send" /\ stats' = f /\ payloads' = <<Unsplit(f)>>
    BY <1>2 DEF ReceiveStats
  <2>2. SplitOf(f, <<Unsplit(f)>>)
    BY <1>2, UnsplitSent
  <2>3. SplitOf(stats', payloads')
    BY <2>1, <2>2
  <2> QED
    BY <2>1, <2>3 DEF SplitInv
<1>3. CASE f # <<>> /\ ~(MaxEntriesPerPayload <= 0 \/ NbEntries(f) < MaxEntriesPerPayload)
  <2>1. /\ pc' = "place" /\ stats' = f /\ index' = 0
        /\ payloads' = [p \in 1 .. NbPayloads(f) |-> EmptyPayload]
        /\ todo' = Entries(f, DOMAIN f)
    BY <1>3 DEF ReceiveStats, Entries
  <2>2. /\ NbEntries(f) \in Nat /\ MaxEntriesPerPayload >= 1
        /\ NbEntries(f) >= MaxEntriesPerPayload
    BY <1>3, EntriesCounted, ConfAssumption
  <2>3. NbPayloads(f) \in Nat
    BY <2>2, NbPayloadsBounds
  <2>4. EmptyPayload \in PayloadType
    BY DEF EmptyPayload, PayloadType
  <2>5. /\ Payloads(payloads', NbPayloads(f)) /\ Len(payloads') = NbPayloads(f)
        /\ \A p \in 1 .. NbPayloads(f) : payloads'[p] = EmptyPayload
    BY <2>1, <2>3, <2>4 DEF Payloads
  <2>6. Placing(f, Entries(f, DOMAIN f), 0, payloads', NbPayloads(f))
    BY <2>2, <2>5, PlacingBegins
  <2>7. Placing(stats', todo', index', payloads', Len(payloads'))
    BY <2>1, <2>5, <2>6
  <2> QED
    BY <2>1, <2>7 DEF SplitInv
<1> QED
  BY <1>1, <1>2, <1>3

\* Placing an entry.
LEMMA PlaceSplit ==
  ASSUME SplitInv, NEW b, NEW k, PlaceEntry(b, k)
  PROVE  SplitInv'
<1> DEFINE n == Len(payloads)
<1>1. /\ pc = "place" /\ pc' = "place" /\ stats' = stats /\ index' = index + 1
      /\ <<b, k>> \in todo /\ todo' = todo \ {<<b, k>>}
      /\ payloads' = [payloads EXCEPT ![(index % n) + 1] =
                        AddEntry(payloads[(index % n) + 1], stats[b].window, k)]
  BY DEF PlaceEntry
<1>2. Placing(stats, todo, index, payloads, n)
  BY <1>1 DEF SplitInv
<1> HIDE DEF n
<1>3. Placing(stats, todo \ {<<b, k>>}, index + 1, payloads', n)
  BY <1>1, <1>2, PlacingContinues
<1>4. Len(payloads') = n
  <2>1. n \in Nat /\ payloads' \in [1 .. n -> PayloadType]
    BY <1>3 DEF Placing, Payloads
  <2> QED
    BY <2>1
<1>5. Placing(stats', todo', index', payloads', Len(payloads'))
  BY <1>1, <1>3, <1>4
<1> QED
  BY <1>1, <1>5 DEF SplitInv

\* Every step keeps the invariant.
LEMMA NextSplit == SplitInv /\ [Next]_vars => SplitInv'
<1> SUFFICES ASSUME SplitInv, [Next]_vars PROVE SplitInv'
  OBVIOUS
<1>1. ASSUME NEW f \in Flushes, ReceiveStats(f) PROVE SplitInv'
  BY <1>1, ReceiveSplit
<1>2. ASSUME NEW e \in todo, PlaceEntry(e[1], e[2]) PROVE SplitInv'
  BY <1>2, PlaceSplit
<1>3. CASE PlacingEnds
  <2>1. pc = "place" /\ todo = {} /\ pc' = "send" /\ UNCHANGED <<stats, payloads>>
    BY <1>3 DEF PlacingEnds
  <2>2. Placing(stats, {}, index, payloads, Len(payloads))
    BY <2>1 DEF SplitInv
  <2>3. SplitOf(stats, payloads)
    BY <2>2, PlacingDone
  <2>4. SplitOf(stats', payloads')
    BY <2>1, <2>3
  <2> QED
    BY <2>1, <2>4 DEF SplitInv
<1>4. CASE UNCHANGED <<stats, todo, index, payloads>> /\ pc' \in {pc, "select", "done", "panic"}
  <2>1. pc' = pc \/ (pc' # "place" /\ pc' # "send")
    BY <1>4
  <2> QED
    BY <1>4, <2>1 DEF SplitInv
<1>5. \/ \E f \in Flushes : ReceiveStats(f)
      \/ \E e \in todo : PlaceEntry(e[1], e[2])
      \/ PlacingEnds
      \/ UNCHANGED <<stats, todo, index, payloads>> /\ pc' \in {pc, "select", "done", "panic"}
  BY DEF Next, vars, RunBegin, SendNext, SendPanics, EncodeFails, ReceiveExit, StopCloseExit,
         StopWait, MonitorReceivesClosed, MonitorAfterBreak
<1> QED
  BY <1>1, <1>2, <1>3, <1>4, <1>5

\* However Go orders the entries of the maps, the payloads that are sent hold the
\* distributions that came in, and the counts too when the windows differ; each
\* has an entry and at most MaxEntriesPerPayload.
THEOREM SplitCorrect == Spec => []SplitConserves
<1>1. Init => SplitInv
  BY DEF Init, SplitInv
<1>2. SplitInv => SplitConserves
  <2> SUFFICES ASSUME SplitInv PROVE SplitConserves
    OBVIOUS
  <2>1. \A field, s : Placed(field, s) = Total(payloads, field, s)
    BY DEF Placed, Total
  <2>2. \A p : Slots(payloads[p]) = {s \in Slot : payloads[p].counts[s] > 0}
    BY DEF Slots
  <2>3. pc = "send" => \A s \in Slot : Placed("dists", s) = Unsplit(stats).dists[s]
    BY <2>1 DEF SplitInv, SplitOf
  <2>4. OneBucketPerWindow(stats) => CountsConserved
    BY <2>1 DEF SplitInv, SplitOf, CountsConserved
  <2>5. pc = "send" /\ MaxEntriesPerPayload > 0 /\ NbEntries(stats) > 0 =>
          \A p \in DOMAIN payloads :
              Cardinality({s \in Slot : payloads[p].counts[s] > 0}) \in 1 .. MaxEntriesPerPayload
    BY <2>2 DEF SplitInv, SplitOf
  <2> QED
    BY <2>3, <2>4, <2>5 DEF SplitConserves
<1> QED
  BY <1>1, <1>2, NextSplit, PTL DEF Spec
=============================================================================
