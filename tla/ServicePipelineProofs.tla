------------------------ MODULE ServicePipelineProofs ------------------------
(***************************************************************************)
(* Proofs about ServicePipeline, for any services, any capacity of the     *)
(* channels and any number of messages.                                    *)
(*                                                                         *)
(* The mapper decides with its cache, the writer merges in its buffer, and *)
(* the two do not know of each other.  What joins them is the order in     *)
(* flight: what was sent, what is buffered and what is in the channel are  *)
(* in the order in which the mapper let them out, and of any two of them   *)
(* the older is a type and the newer an app (FlightInv).                   *)
(***************************************************************************)
EXTENDS ServicePipeline, SequenceTheorems, TLAPS

TypeInv ==
    /\ serviceChan \in Seq(Metadata)
    /\ mapper \in {"select", "send", "done"}
    /\ changes \in Metadata
    /\ cache \in Metadata
    /\ filteredChan \in Seq(Metadata)
    /\ writer \in {"starting", "select", "send", "lastSend", "done", "panic"}
    /\ serviceBuffer \in Metadata
    /\ payload \in Metadata
    /\ sent \in [Services -> Seq(Kinds)]
    /\ lost \subseteq Services

\* a may be followed by b.
Before(a, b) == a # "none" /\ b # "none" => a = "type" /\ b = "app"

\* The cache knows of x.
KnownAs(x, c) == x # "none" => c = x \/ c = "app"

LastSent(s) == IF sent[s] = <<>> THEN "none" ELSE sent[s][Len(sent[s])]

\* The sender is offered the buffer, which does not change until it is taken.
PayloadInv == writer \in {"send", "lastSend"} => payload = serviceBuffer

\* Two metadata of a service in flight are a type and an app after it, and the
\* changes the mapper holds go on from its cache.
FlightInv ==
    \A s \in Services :
        /\ Before(LastSent(s), serviceBuffer[s])
        /\ \A k \in DOMAIN filteredChan :
            /\ Before(LastSent(s), filteredChan[k][s])
            /\ Before(serviceBuffer[s], filteredChan[k][s])
            /\ \A j \in DOMAIN filteredChan :
                j < k => Before(filteredChan[j][s], filteredChan[k][s])
        /\ mapper = "send" => Before(cache[s], changes[s])

\* Nothing is in flight that the cache does not know of.
KnownInv ==
    \A s \in Services :
        /\ KnownAs(LastSent(s), cache[s])
        /\ KnownAs(serviceBuffer[s], cache[s])
        /\ \A k \in DOMAIN filteredChan : KnownAs(filteredChan[k][s], cache[s])

\* What the cache holds is in flight, unless an encoding error threw it away.
CachedInv ==
    \A s \in Services \ lost :
        cache[s] # "none" =>
            \/ cache[s] = LastSent(s)
            \/ cache[s] = serviceBuffer[s]
            \/ \E k \in DOMAIN filteredChan : cache[s] = filteredChan[k][s]

UpgradeInv ==
    TypeInv /\ PayloadInv /\ OnlyUpgradesSent /\ FlightInv /\ KnownInv /\ CachedInv

-----------------------------------------------------------------------------
\* A merge of metadata is metadata: a service of m2 replaces that of m1.
LEMMA MergeType ==
  ASSUME NEW m1 \in Metadata, NEW m2 \in Metadata
  PROVE  /\ Merge(m1, m2) \in Metadata
         /\ \A s \in Services :
                Merge(m1, m2)[s] = IF m2[s] = "none" THEN m1[s] ELSE m2[s]
  BY DEF Merge, Metadata

\* No metadata at all.
LEMMA NoMetaType == NoMeta \in Metadata /\ \A s \in Services : NoMeta[s] = "none"
  BY DEF NoMeta, Metadata, Kinds

\* The values of the variables stay in their types.
LEMMA TypeStep ==
  ASSUME TypeInv, PayloadInv, [Next]_vars
  PROVE  TypeInv'
<1> USE DEF TypeInv
<1>1. CASE \E m \in Metadata \ {NoMeta} : Produce(m)
  BY <1>1 DEF Produce, mapperVars, writerVars
<1>2. CASE Update
  <2> DEFINE m == Head(serviceChan)
             new == [s \in Services |-> IF m[s] # "none" /\ ShouldAdd(s, m)
                                        THEN m[s] ELSE "none"]
  <2>1. m \in Metadata /\ Tail(serviceChan) \in Seq(Metadata)
    BY <1>2 DEF Update
  <2>2. new \in Metadata
    <3> HIDE DEF m
    <3> QED
      BY <2>1 DEF Metadata
  <2>3. mapper' \in {"select", "send", "done"} /\ changes' \in Metadata
    <3> HIDE DEF new
    <3>1. \/ mapper' = "send" /\ changes' = new
          \/ UNCHANGED <<mapper, changes>>
      BY <1>2 DEF Update, new
    <3> QED
      BY <2>2, <3>1
  <2> QED
    BY <1>2, <2>1, <2>3 DEF Update, writerVars
<1>3. CASE SendChanges
  BY <1>3, MergeType, NoMetaType DEF SendChanges, MergeCache, writerVars
<1>4. CASE HandleServiceMetadata
  <2>1. Head(filteredChan) \in Metadata /\ Tail(filteredChan) \in Seq(Metadata)
    BY <1>4 DEF HandleServiceMetadata
  <2> QED
    BY <1>4, <2>1, MergeType DEF HandleServiceMetadata, BufferMerged, mapperVars
<1>5. CASE FlushTick \/ WriterExit
  BY <1>5, NoMetaType DEF FlushTick, WriterExit, FlushEncodes, mapperVars
<1>6. CASE PayloadTaken
  <2>1. ASSUME NEW s \in Services
        PROVE  (IF payload[s] = "none" THEN sent[s] ELSE Append(sent[s], payload[s])) \in Seq(Kinds)
    BY DEF Metadata
  <2>2. sent' \in [Services -> Seq(Kinds)]
    BY <1>6, <2>1 DEF PayloadTaken
  <2> QED
    BY <1>6, <2>2, NoMetaType DEF PayloadTaken, mapperVars
<1>7. CASE MapperExit \/ WriterRunBegin \/ PayloadPanics \/ StopMapper \/ StopWriter \/ StopReturn
  BY <1>7 DEF MapperExit, WriterRunBegin, PayloadPanics, StopMapper, StopWriter, StopReturn,
              mapperVars, writerVars
<1>8. CASE UNCHANGED vars
  BY <1>8 DEF vars
<1> QED
  BY <1>1, <1>2, <1>3, <1>4, <1>5, <1>6, <1>7, <1>8 DEF Next

\* Where the buffer and the payload are the same, they stay the same.
LEMMA PayloadStep ==
  ASSUME TypeInv, PayloadInv, [Next]_vars
  PROVE  PayloadInv'
<1> USE DEF TypeInv, PayloadInv
<1>1. CASE FlushTick \/ WriterExit
  BY <1>1 DEF FlushTick, WriterExit, FlushEncodes
<1>2. CASE HandleServiceMetadata \/ PayloadTaken \/ PayloadPanics \/ WriterRunBegin
  BY <1>2 DEF HandleServiceMetadata, PayloadTaken, PayloadPanics, WriterRunBegin
<1>3. CASE UNCHANGED writerVars
  BY <1>3 DEF writerVars
<1> QED
  BY <1>1, <1>2, <1>3 DEF Next, Produce, Update, SendChanges, MapperExit, StopMapper,
     StopWriter, StopReturn, vars, writerVars

\* What is said of one service.
ServiceInv(s) ==
    /\ sent[s] \in {<<>>, <<"type">>, <<"app">>, <<"type", "app">>}
    /\ Before(LastSent(s), serviceBuffer[s])
    /\ \A k \in DOMAIN filteredChan :
        /\ Before(LastSent(s), filteredChan[k][s])
        /\ Before(serviceBuffer[s], filteredChan[k][s])
        /\ \A j \in DOMAIN filteredChan :
            j < k => Before(filteredChan[j][s], filteredChan[k][s])
    /\ mapper = "send" => Before(cache[s], changes[s])
    /\ KnownAs(LastSent(s), cache[s])
    /\ KnownAs(serviceBuffer[s], cache[s])
    /\ \A k \in DOMAIN filteredChan : KnownAs(filteredChan[k][s], cache[s])
    /\ s \notin lost /\ cache[s] # "none" =>
        \/ cache[s] = LastSent(s)
        \/ cache[s] = serviceBuffer[s]
        \/ \E k \in DOMAIN filteredChan : cache[s] = filteredChan[k][s]

\* The invariant, service by service.
LEMMA ByService ==
  UpgradeInv <=> TypeInv /\ PayloadInv /\ \A s \in Services : ServiceInv(s)
  BY DEF UpgradeInv, OnlyUpgradesSent, FlightInv, KnownInv, CachedInv, ServiceInv

\* The values of a service.
LEMMA ServiceValues ==
  ASSUME TypeInv, NEW s \in Services, ServiceInv(s)
  PROVE  /\ cache[s] \in {"none", "type", "app"}
         /\ changes[s] \in {"none", "type", "app"}
         /\ serviceBuffer[s] \in {"none", "type", "app"}
         /\ LastSent(s) \in {"none", "type", "app"}
         /\ \A k \in DOMAIN filteredChan : filteredChan[k][s] \in {"none", "type", "app"}
         /\ DOMAIN filteredChan = 1 .. Len(filteredChan)
  BY DEF TypeInv, Metadata, Kinds, LastSent, ServiceInv

\* Update: what shouldAdd lets through goes on from the cache.
LEMMA UpdateService ==
  ASSUME TypeInv, NEW s \in Services, ServiceInv(s), Update
  PROVE  ServiceInv(s)'
<1> DEFINE m == Head(serviceChan)
           new == [x \in Services |-> IF m[x] # "none" /\ ShouldAdd(x, m)
                                      THEN m[x] ELSE "none"]
<1>1. m \in Metadata
  BY DEF Update, TypeInv
<1>2. new[s] \in {"none", "type", "app"} /\ (cache[s] # "none" /\ new[s] # "none" => cache[s] # "app" /\ new[s] = "app")
  <2> HIDE DEF m
  <2> QED
    BY <1>1 DEF ShouldAdd, Metadata, Kinds
<1>3. UNCHANGED <<cache, filteredChan, serviceBuffer, sent, lost>>
  BY DEF Update, writerVars
<1>4. mapper' = "send" => Before(cache[s], changes'[s])
  <2> HIDE DEF new
  <2>1. \/ mapper' = "send" /\ changes' = new
        \/ UNCHANGED <<mapper, changes>> /\ mapper = "select"
    BY DEF Update, new
  <2> QED
    BY <1>2, <2>1, ServiceValues DEF Before
<1> QED
  BY <1>3, <1>4 DEF ServiceInv, LastSent

\* SendChanges: the newest in the channel is what the cache has now.
LEMMA SendService ==
  ASSUME TypeInv, NEW s \in Services, ServiceInv(s), SendChanges
  PROVE  ServiceInv(s)'
<1>1. /\ cache'[s] = (IF changes[s] = "none" THEN cache[s] ELSE changes[s])
      /\ mapper' = "select" /\ UNCHANGED <<serviceBuffer, sent, lost>>
      /\ Before(cache[s], changes[s])
  BY MergeType DEF SendChanges, MergeCache, writerVars, ServiceInv, TypeInv
<1> DEFINE n == Len(filteredChan)
<1>2. n \in Nat /\ DOMAIN filteredChan = 1 .. n /\ DOMAIN filteredChan' = 1 .. n + 1
  BY DEF SendChanges, TypeInv
<1>3. /\ filteredChan'[n + 1] = changes
      /\ \A k \in 1 .. n : filteredChan'[k] = filteredChan[k]
  BY DEF SendChanges, TypeInv
<1>4. LastSent(s)' = LastSent(s)
  BY <1>1 DEF LastSent
<1> HIDE DEF n
<1>5. \A k \in 1 .. n + 1 : k = n + 1 \/ k \in 1 .. n
  BY <1>2
<1>6. ASSUME NEW k \in DOMAIN filteredChan'
      PROVE  /\ Before(LastSent(s)', filteredChan'[k][s])
             /\ Before(serviceBuffer'[s], filteredChan'[k][s])
             /\ KnownAs(filteredChan'[k][s], cache'[s])
  BY <1>1, <1>2, <1>3, <1>4, <1>5, ServiceValues DEF ServiceInv, Before, KnownAs
<1>7. ASSUME NEW k \in DOMAIN filteredChan', NEW j \in DOMAIN filteredChan', j < k
      PROVE  Before(filteredChan'[j][s], filteredChan'[k][s])
  <2>1. j \in 1 .. n
    BY <1>2, <1>7
  <2>2. CASE k = n + 1
    BY <1>1, <1>2, <1>3, <2>1, <2>2, ServiceValues DEF ServiceInv, Before, KnownAs
  <2>3. CASE k \in 1 .. n
    BY <1>2, <1>3, <1>7, <2>1, <2>3 DEF ServiceInv
  <2> QED
    BY <1>2, <1>5, <2>2, <2>3
<1>8. /\ KnownAs(LastSent(s)', cache'[s])
      /\ KnownAs(serviceBuffer'[s], cache'[s])
  BY <1>1, <1>4, ServiceValues DEF ServiceInv, Before, KnownAs
<1>9. s \notin lost' /\ cache'[s] # "none" =>
        \/ cache'[s] = LastSent(s)'
        \/ cache'[s] = serviceBuffer'[s]
        \/ \E k \in DOMAIN filteredChan' : cache'[s] = filteredChan'[k][s]
  <2>1. n + 1 \in DOMAIN filteredChan' /\ \A k \in DOMAIN filteredChan : k \in DOMAIN filteredChan'
    BY <1>2
  <2> QED
    BY <1>1, <1>2, <1>3, <1>4, <2>1 DEF ServiceInv
<1> QED
  BY <1>1, <1>4, <1>6, <1>7, <1>8, <1>9 DEF ServiceInv

\* HandleServiceMetadata: the oldest in the channel replaces what is buffered.
LEMMA MergeService ==
  ASSUME TypeInv, NEW s \in Services, ServiceInv(s), HandleServiceMetadata
  PROVE  ServiceInv(s)'
<1> DEFINE n == Len(filteredChan)
           h == filteredChan[1]
<1>1. /\ n \in Nat \ {0} /\ DOMAIN filteredChan = 1 .. n /\ DOMAIN filteredChan' = 1 .. n - 1
      /\ \A k \in 1 .. n - 1 : filteredChan'[k] = filteredChan[k + 1]
      /\ h \in Metadata /\ Head(filteredChan) = h
  BY DEF HandleServiceMetadata, TypeInv
<1>2. /\ serviceBuffer'[s] = (IF h[s] = "none" THEN serviceBuffer[s] ELSE h[s])
      /\ UNCHANGED <<mapper, changes, cache, sent, lost>>
  BY <1>1, MergeType DEF HandleServiceMetadata, BufferMerged, mapperVars, TypeInv
<1> HIDE DEF n
<1>3. 1 \in 1 .. n /\ \A k \in 1 .. n - 1 : k + 1 \in 1 .. n /\ 1 < k + 1
  BY <1>1
<1>4. LastSent(s)' = LastSent(s)
  BY <1>2 DEF LastSent
<1>5. ASSUME NEW k \in DOMAIN filteredChan'
      PROVE  /\ Before(LastSent(s)', filteredChan'[k][s])
             /\ Before(serviceBuffer'[s], filteredChan'[k][s])
             /\ KnownAs(filteredChan'[k][s], cache'[s])
  BY <1>1, <1>2, <1>3, <1>4 DEF ServiceInv
<1>6. ASSUME NEW k \in DOMAIN filteredChan', NEW j \in DOMAIN filteredChan', j < k
      PROVE  Before(filteredChan'[j][s], filteredChan'[k][s])
  <2>1. j + 1 < k + 1
    BY <1>1, <1>6
  <2> QED
    BY <1>1, <1>3, <2>1 DEF ServiceInv
<1>7. /\ Before(LastSent(s)', serviceBuffer'[s])
      /\ KnownAs(LastSent(s)', cache'[s])
      /\ KnownAs(serviceBuffer'[s], cache'[s])
  BY <1>1, <1>2, <1>3, <1>4 DEF ServiceInv
<1>8. s \notin lost' /\ cache'[s] # "none" =>
        \/ cache'[s] = LastSent(s)'
        \/ cache'[s] = serviceBuffer'[s]
        \/ \E k \in DOMAIN filteredChan' : cache'[s] = filteredChan'[k][s]
  <2> SUFFICES ASSUME s \notin lost, cache[s] # "none", cache[s] # LastSent(s)
               PROVE  \/ cache[s] = serviceBuffer'[s]
                      \/ \E k \in DOMAIN filteredChan' : cache[s] = filteredChan'[k][s]
    BY <1>2, <1>4
  <2>1. CASE cache[s] = serviceBuffer[s]
    BY <1>1, <1>2, <1>3, <2>1, ServiceValues DEF ServiceInv, Before, KnownAs
  <2>2. CASE \E k \in DOMAIN filteredChan : cache[s] = filteredChan[k][s]
    <3>1. PICK k \in 1 .. n : cache[s] = filteredChan[k][s]
      BY <1>1, <2>2
    <3>2. CASE k = 1
      BY <1>2, <3>1, <3>2
    <3>3. CASE k # 1
      <4>1. k - 1 \in 1 .. n - 1 /\ (k - 1) + 1 = k
        BY <1>1, <3>1, <3>3
      <4> QED
        BY <1>1, <3>1, <4>1
    <3> QED
      BY <3>2, <3>3
  <2> QED
    BY <2>1, <2>2 DEF ServiceInv
<1> QED
  BY <1>2, <1>4, <1>5, <1>6, <1>7, <1>8 DEF ServiceInv

\* flush: an encoding error loses the services it empties the buffer of.
LEMMA FlushService ==
  ASSUME TypeInv, NEW s \in Services, ServiceInv(s), FlushTick \/ WriterExit
  PROVE  ServiceInv(s)'
<1>1. UNCHANGED <<mapper, changes, cache, filteredChan, sent>>
  BY DEF FlushTick, WriterExit, mapperVars
<1>2. LastSent(s)' = LastSent(s)
  BY <1>1 DEF LastSent
<1>3. \/ UNCHANGED <<serviceBuffer, lost>>
      \/ serviceBuffer' = NoMeta /\ lost' = lost \cup {x \in Services : serviceBuffer[x] # "none"}
  BY DEF FlushTick, WriterExit, FlushEncodes
<1>4. CASE UNCHANGED <<serviceBuffer, lost>>
  BY <1>1, <1>2, <1>4 DEF ServiceInv
<1>5. CASE serviceBuffer' = NoMeta /\ lost' = lost \cup {x \in Services : serviceBuffer[x] # "none"}
  <2>1. serviceBuffer'[s] = "none"
    BY <1>5, NoMetaType
  <2>2. s \notin lost' => s \notin lost /\ serviceBuffer[s] = "none"
    BY <1>5
  <2> QED
    BY <1>1, <1>2, <2>1, <2>2 DEF ServiceInv, Before, KnownAs
<1> QED
  BY <1>3, <1>4, <1>5

\* PayloadTaken: what was buffered is the last that was sent.
LEMMA TakenService ==
  ASSUME TypeInv, PayloadInv, NEW s \in Services, ServiceInv(s), PayloadTaken
  PROVE  ServiceInv(s)'
<1>1. /\ UNCHANGED <<mapper, changes, cache, filteredChan, lost>>
      /\ serviceBuffer'[s] = "none" /\ payload = serviceBuffer
      /\ sent'[s] = (IF serviceBuffer[s] = "none" THEN sent[s]
                     ELSE Append(sent[s], serviceBuffer[s]))
  BY NoMetaType DEF PayloadTaken, PayloadInv, mapperVars
<1>2. CASE serviceBuffer[s] = "none"
  BY <1>1, <1>2 DEF ServiceInv, LastSent, Before, KnownAs
<1>3. CASE serviceBuffer[s] # "none"
  <2>1. sent[s] = <<>> \/ (sent[s] = <<"type">> /\ serviceBuffer[s] = "app")
    <3>1. sent[s] = <<>> \/ (LastSent(s) = "type" /\ serviceBuffer[s] = "app")
      BY <1>3, ServiceValues DEF ServiceInv, LastSent, Before
    <3>2. sent[s] # <<>> /\ sent[s] # <<"type">> => LastSent(s) = "app"
      BY DEF ServiceInv, LastSent
    <3> QED
      BY <3>1, <3>2
  <2>2. /\ sent'[s] \in {<<>>, <<"type">>, <<"app">>, <<"type", "app">>}
        /\ LastSent(s)' = serviceBuffer[s]
    <3>1. sent'[s] = Append(sent[s], serviceBuffer[s]) /\ serviceBuffer[s] \in {"type", "app"}
      BY <1>1, <1>3, ServiceValues
    <3>2. CASE sent[s] = <<>>
      <4>1. sent'[s] = <<serviceBuffer[s]>>
        BY <3>1, <3>2
      <4> QED
        BY <3>1, <4>1 DEF LastSent
    <3>3. CASE sent[s] = <<"type">> /\ serviceBuffer[s] = "app"
      <4>1. Append(<<"type">>, "app") = <<"type", "app">>
        <5> DEFINE u == Append(<<"type">>, "app")
                   v == <<"type", "app">>
        <5>1. u \in Seq(Kinds) /\ Len(u) = 2 /\ u[1] = "type" /\ u[2] = "app"
          BY DEF Kinds
        <5>2. v \in Seq(Kinds) /\ Len(v) = 2 /\ v[1] = "type" /\ v[2] = "app"
          BY DEF Kinds
        <5> HIDE DEF u, v
        <5>3. \A k \in 1 .. Len(u) : u[k] = v[k]
          BY <5>1, <5>2
        <5>4. u = v
          BY <5>1, <5>2, <5>3, SeqEqual
        <5> QED
          BY <5>4 DEF u, v
      <4>2. sent'[s] = <<"type", "app">>
        BY <3>1, <3>3, <4>1
      <4> QED
        BY <3>3, <4>2 DEF LastSent
    <3> QED
      BY <2>1, <3>2, <3>3
  <2>3. serviceBuffer[s] = cache[s] \/ cache[s] = "app"
    BY <1>3 DEF ServiceInv, KnownAs
  <2>4. cache[s] = LastSent(s) => cache[s] = serviceBuffer[s]
    BY <1>3, <2>3, ServiceValues DEF ServiceInv, Before
  <2> QED
    BY <1>1, <2>2, <2>3, <2>4 DEF ServiceInv, Before, KnownAs
<1> QED
  BY <1>2, <1>3

\* The steps that touch nothing of what is in flight.
LEMMA OtherService ==
  ASSUME NEW s \in Services, ServiceInv(s),
         UNCHANGED <<changes, cache, filteredChan, serviceBuffer, sent, lost>>,
         mapper' = mapper \/ mapper' = "done"
  PROVE  ServiceInv(s)'
  BY DEF ServiceInv, LastSent

\* Every step keeps the order in flight.
LEMMA UpgradeStep ==
  ASSUME UpgradeInv, [Next]_vars
  PROVE  UpgradeInv'
<1>1. TypeInv /\ PayloadInv /\ \A s \in Services : ServiceInv(s)
  BY ByService
<1>2. TypeInv' /\ PayloadInv'
  BY <1>1, TypeStep, PayloadStep
<1>3. ASSUME NEW s \in Services PROVE ServiceInv(s)'
  <2>1. CASE Update \/ SendChanges \/ HandleServiceMetadata
    BY <1>1, <2>1, UpdateService, SendService, MergeService
  <2>2. CASE FlushTick \/ WriterExit \/ PayloadTaken
    BY <1>1, <2>2, FlushService, TakenService
  <2>3. CASE /\ UNCHANGED <<changes, cache, filteredChan, serviceBuffer, sent, lost>>
             /\ mapper' = mapper \/ mapper' = "done"
    BY <1>1, <2>3, OtherService
  <2> QED
    BY <2>1, <2>2, <2>3 DEF Next, Produce, MapperExit, WriterRunBegin, PayloadPanics, StopMapper,
       StopWriter, StopReturn, mapperVars, writerVars, vars
<1> QED
  BY <1>2, <1>3 DEF UpgradeInv, OnlyUpgradesSent, FlightInv, KnownInv, CachedInv, ServiceInv

\* Nothing is in flight at the start.
LEMMA UpgradeInit == Init => UpgradeInv
<1> SUFFICES ASSUME Init PROVE UpgradeInv
  OBVIOUS
<1>1. TypeInv /\ PayloadInv
  BY NoMetaType DEF Init, NewServiceWriter, TypeInv, PayloadInv
<1>2. \A s \in Services : ServiceInv(s)
  BY NoMetaType DEF Init, NewServiceWriter, ServiceInv, LastSent, Before, KnownAs
<1> QED
  BY <1>1, <1>2, ByService

\* The invariant of the order in flight holds in every state.
LEMMA UpgradeInvariant == Spec => []UpgradeInv
  BY UpgradeInit, UpgradeStep, PTL DEF Spec

\* What is sent for a service is only ever upgraded, for any number of services
\* and messages: shouldAdd of the mapper, the channel and the merge of the
\* writer agree.
THEOREM UpgradesCorrect == Spec => []OnlyUpgradesSent
<1>1. UpgradeInv => OnlyUpgradesSent
  BY DEF UpgradeInv
<1> QED
  BY <1>1, UpgradeInvariant, PTL

-----------------------------------------------------------------------------
\* Where the parts of what is in flight are in the sequence of all of it.
LEMMA FlightSeq ==
  ASSUME TypeInv, NEW s \in Services
  PROVE  LET a == Len(sent[s])
             n == Len(filteredChan)
         IN  /\ a \in Nat /\ n \in Nat
             /\ DOMAIN InFlight(s) = 1 .. a + 1 + n
             /\ \A k \in 1 .. a : InFlight(s)[k] = sent[s][k]
             /\ InFlight(s)[a + 1] = serviceBuffer[s]
             /\ \A k \in 1 .. n : InFlight(s)[a + 1 + k] = filteredChan[k][s]
<1> DEFINE a == Len(sent[s])
           n == Len(filteredChan)
           c == [k \in DOMAIN filteredChan |-> filteredChan[k][s]]
           M == Kinds \cup {"none"}
           q == sent[s] \o <<serviceBuffer[s]>>
<1>1. sent[s] \in Seq(M) /\ <<serviceBuffer[s]>> \in Seq(M) /\ c \in Seq(M) /\ Len(c) = n
  <2>1. n \in Nat /\ DOMAIN filteredChan = 1 .. n /\ c \in [1 .. n -> M]
    BY DEF TypeInv, Metadata
  <2>2. sent[s] \in Seq(Kinds) /\ serviceBuffer[s] \in M
    BY DEF TypeInv, Metadata
  <2> HIDE DEF c
  <2> QED
    BY <2>1, <2>2
<1>2. a \in Nat /\ n \in Nat
  BY DEF TypeInv
<1>3. InFlight(s) = q \o c
  BY DEF InFlight
<1> HIDE DEF c, M, a, n
<1>4. /\ q \in Seq(M) /\ Len(q) = a + 1 /\ q[a + 1] = serviceBuffer[s]
      /\ \A k \in 1 .. a : q[k] = sent[s][k]
  <2>1. <<serviceBuffer[s]>> \in Seq(M) /\ Len(<<serviceBuffer[s]>>) = 1
    BY <1>1
  <2>2. q \in Seq(M) /\ Len(q) = a + 1
    BY <1>1, <2>1, ConcatProperties DEF a
  <2>3. \A k \in 1 .. a + 1 : q[k] = IF k <= a THEN sent[s][k] ELSE <<serviceBuffer[s]>>[k - a]
    BY <1>1, <2>1, ConcatProperties DEF a
  <2>4. a + 1 \in 1 .. a + 1 /\ ~(a + 1 <= a) /\ (a + 1) - a = 1
    BY <1>2
  <2> HIDE DEF q
  <2>5. <<serviceBuffer[s]>>[1] = serviceBuffer[s]
    OBVIOUS
  <2>6. q[a + 1] = serviceBuffer[s]
    BY <2>3, <2>4, <2>5
  <2>7. \A k \in 1 .. a : k \in 1 .. a + 1 /\ k <= a
    BY <1>2
  <2> QED
    BY <2>2, <2>3, <2>6, <2>7
<1> HIDE DEF q
<1>5. /\ DOMAIN (q \o c) = 1 .. a + 1 + n
      /\ \A k \in 1 .. a + 1 : (q \o c)[k] = q[k]
      /\ \A k \in 1 .. n : (q \o c)[a + 1 + k] = c[k]
  <2>1. q \o c \in Seq(M) /\ Len(q \o c) = a + 1 + n
    <3>1. q \in Seq(M) /\ c \in Seq(M) /\ Len(q) = a + 1 /\ Len(c) = n
      BY <1>1, <1>4
    <3> HIDE DEF M, c, n, a
    <3>2. q \o c \in Seq(M) /\ Len(q \o c) = Len(q) + Len(c)
      BY <3>1, ConcatProperties
    <3> QED
      BY <3>1, <3>2
  <2>2. \A k \in 1 .. Len(q) + Len(c) :
            (q \o c)[k] = IF k <= Len(q) THEN q[k] ELSE c[k - Len(q)]
    BY <1>1, <1>4, ConcatProperties
  <2>3. ASSUME NEW k \in 1 .. n PROVE (q \o c)[a + 1 + k] = c[k]
    <3>1. a + 1 + k \in 1 .. Len(q) + Len(c) /\ ~(a + 1 + k <= Len(q)) /\ (a + 1 + k) - Len(q) = k
      BY <1>1, <1>2, <1>4
    <3> QED
      BY <2>2, <3>1
  <2>4. ASSUME NEW k \in 1 .. a + 1 PROVE (q \o c)[k] = q[k]
    <3>1. k \in 1 .. Len(q) + Len(c) /\ k <= Len(q)
      BY <1>1, <1>2, <1>4
    <3> QED
      BY <2>2, <3>1
  <2>5. DOMAIN (q \o c) = 1 .. a + 1 + n
    BY <2>1
  <2> QED
    BY <2>3, <2>4, <2>5
<1>6. \A k \in 1 .. n : c[k] = filteredChan[k][s]
  BY <1>2 DEF c, n, TypeInv
<1>7. a + 1 \in 1 .. a + 1 /\ \A k \in 1 .. a : k \in 1 .. a + 1
  BY <1>2
<1> QED
  BY <1>2, <1>3, <1>4, <1>5, <1>6, <1>7 DEF a, n

\* The last that differs from "none" is what the cache holds.
LEMMA CacheIsNewest ==
  ASSUME TypeInv, NEW s \in Services, s \notin lost, ServiceInv(s)
  PROVE  Newest(cache[s], InFlight(s))
<1> DEFINE a == Len(sent[s])
           n == Len(filteredChan)
           q == InFlight(s)
<1>1. /\ a \in Nat /\ n \in Nat
      /\ DOMAIN q = 1 .. a + 1 + n
      /\ \A k \in 1 .. a : q[k] = sent[s][k]
      /\ q[a + 1] = serviceBuffer[s]
      /\ \A k \in 1 .. n : q[a + 1 + k] = filteredChan[k][s]
  BY FlightSeq
<1>2. /\ DOMAIN filteredChan = 1 .. n
      /\ sent[s] = <<>> <=> a = 0
      /\ a > 0 => LastSent(s) = sent[s][a] /\ sent[s][a] # "none"
  BY DEF TypeInv, LastSent, Kinds
<1> HIDE DEF a, n, q
<1>3. \A k \in 1 .. a + 1 + n :
        k \in 1 .. a \/ k = a + 1 \/ (k - a - 1 \in 1 .. n /\ a + 1 + (k - a - 1) = k)
  BY <1>1
<1>4. CASE cache[s] = "none"
  <2>1. a = 0 /\ serviceBuffer[s] = "none" /\ \A k \in 1 .. n : filteredChan[k][s] = "none"
    <3>1. LastSent(s) = "none"
      BY <1>4 DEF ServiceInv, KnownAs
    <3>2. a = 0
      BY <1>1, <1>2, <3>1
    <3> QED
      BY <1>2, <1>4, <3>2 DEF ServiceInv, KnownAs
  <2>2. ASSUME NEW k \in DOMAIN q PROVE q[k] = "none"
    <3>1. k = a + 1 \/ (k - a - 1 \in 1 .. n /\ a + 1 + (k - a - 1) = k)
      BY <1>1, <1>3, <2>1
    <3> QED
      BY <1>1, <2>1, <3>1
  <2> QED
    BY <1>4, <2>2 DEF Newest, q
<1>5. ASSUME cache[s] # "none", NEW k \in DOMAIN q, q[k] = cache[s],
             \A j \in DOMAIN q : j > k => q[j] = "none"
      PROVE  Newest(cache[s], InFlight(s))
  BY <1>5 DEF Newest, q
<1>6. ASSUME NEW i \in 1 .. n, cache[s] = filteredChan[i][s], cache[s] # "none"
      PROVE  Newest(cache[s], InFlight(s))
  <2>1. \A j \in 1 .. n : j > i => filteredChan[j][s] = "none"
    BY <1>1, <1>2, <1>6, ServiceValues DEF ServiceInv, Before, KnownAs
  <2>2. \A j \in DOMAIN q : j > a + 1 + i => q[j] = "none"
    <3> SUFFICES ASSUME NEW j \in DOMAIN q, j > a + 1 + i PROVE q[j] = "none"
      OBVIOUS
    <3>1. j - a - 1 \in 1 .. n /\ a + 1 + (j - a - 1) = j /\ j - a - 1 > i
      BY <1>1, <1>3
    <3> QED
      BY <1>1, <2>1, <3>1
  <2>3. a + 1 + i \in DOMAIN q /\ q[a + 1 + i] = cache[s]
    BY <1>1, <1>6
  <2> QED
    BY <1>5, <1>6, <2>2, <2>3
<1>7. CASE cache[s] # "none" /\ \E i \in 1 .. n : cache[s] = filteredChan[i][s]
  BY <1>6, <1>7
<1>8. CASE /\ cache[s] # "none" /\ ~ \E i \in 1 .. n : cache[s] = filteredChan[i][s]
           /\ cache[s] = serviceBuffer[s]
  <2>1. \A i \in 1 .. n : filteredChan[i][s] = "none"
    BY <1>1, <1>2, <1>8, ServiceValues DEF ServiceInv, Before, KnownAs
  <2>2. ASSUME NEW j \in DOMAIN q, j > a + 1 PROVE q[j] = "none"
    <3>1. j - a - 1 \in 1 .. n /\ a + 1 + (j - a - 1) = j
      BY <1>1, <1>3, <2>2
    <3> QED
      BY <1>1, <2>1, <3>1
  <2>3. a + 1 \in DOMAIN q
    BY <1>1
  <2> QED
    BY <1>1, <1>5, <1>8, <2>2, <2>3
<1>9. CASE /\ cache[s] # "none" /\ ~ \E i \in 1 .. n : cache[s] = filteredChan[i][s]
           /\ cache[s] # serviceBuffer[s]
  <2>1. cache[s] = LastSent(s) /\ a > 0
    BY <1>1, <1>2, <1>9 DEF ServiceInv, LastSent
  <2>2. serviceBuffer[s] = "none" /\ \A i \in 1 .. n : filteredChan[i][s] = "none"
    BY <1>2, <1>9, <2>1, ServiceValues DEF ServiceInv, Before, KnownAs
  <2>3. ASSUME NEW j \in DOMAIN q, j > a PROVE q[j] = "none"
    <3>1. j = a + 1 \/ (j - a - 1 \in 1 .. n /\ a + 1 + (j - a - 1) = j)
      BY <1>1, <1>3, <2>3
    <3> QED
      BY <1>1, <2>2, <3>1
  <2>4. a \in DOMAIN q /\ q[a] = cache[s]
    BY <1>1, <1>2, <2>1
  <2> QED
    BY <1>5, <1>9, <2>3, <2>4
<1> QED
  BY <1>2, <1>4, <1>7, <1>8, <1>9

\* The cache of the mapper and what the API was or will be told agree, service by
\* service, whatever is in the channel, in the buffer of the writer, or taken by
\* the sender.
THEOREM CacheCorrect == Spec => []CacheMatchesWhatIsSent
<1>1. UpgradeInv => CacheMatchesWhatIsSent
  BY ByService, CacheIsNewest DEF CacheMatchesWhatIsSent
<1> QED
  BY <1>1, UpgradeInvariant, PTL
=============================================================================
