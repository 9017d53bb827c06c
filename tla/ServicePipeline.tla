-------------------------- MODULE ServicePipeline --------------------------
(***************************************************************************)
(* The path of the service metadata: goroutines of the receiver            *)
(* (handleServices) and of the trace service extractor put metadata in a   *)
(* bounded channel, the ServiceMapper keeps what is new and puts it in a   *)
(* second bounded channel, the ServiceWriter merges it in a buffer that it *)
(* flushes at every tick and when it exits.  The agent stops the mapper    *)
(* first and the writer after it.                                          *)
(*                                                                         *)
(* The metadata of a service is "app" when it holds the key ServiceApp (it *)
(* came from the services API) and "type" when it holds only the type that *)
(* was found in a span.                                                    *)
(***************************************************************************)
EXTENDS Integers, Sequences, FiniteSets

CONSTANTS
    Services,       \* names of services
    ChanCap,        \* capacity of serviceChan and of filteredServiceChan
    MaxProduced     \* bound: messages put in serviceChan

ASSUME ConfAssumption ==
    /\ IsFiniteSet(Services)
    /\ ChanCap \in Nat \ {0}
    /\ MaxProduced \in Nat

Kinds == {"type", "app"}
NoMeta == [s \in Services |-> "none"]

\* model.ServicesMetadata; a service that is "none" is not in the map.
Metadata == [Services -> Kinds \cup {"none"}]

Merge(m1, m2) == [s \in Services |-> IF m2[s] = "none" THEN m1[s] ELSE m2[s]]

VARIABLES
    produced,       \* number of messages put in serviceChan
    serviceChan,
    mapper,         \* where the goroutine of the mapper is
    changes,        \* the variable changes of update
    cache,
    filteredChan,   \* filteredServiceChan
    writer,         \* where the goroutine of the writer is
    serviceBuffer,
    payload,        \* what flush encoded
    sent,           \* per service, the metadata the sender took, in order
    lost,           \* services whose metadata an encoding error threw away
    stop            \* progress of the agent through the two Stops

vars == <<produced, serviceChan, mapper, changes, cache, filteredChan, writer,
          serviceBuffer, payload, sent, lost, stop>>

mapperVars == <<mapper, changes, cache>>
writerVars == <<writer, serviceBuffer, payload, sent, lost>>

NewServiceWriter ==
    /\ writer = "starting"
    /\ serviceBuffer = NoMeta
    /\ payload = NoMeta
    /\ sent = [s \in Services |-> <<>>]
    /\ lost = {}

Init ==
    /\ produced = 0
    /\ serviceChan = <<>>
    /\ mapper = "select"
    /\ changes = NoMeta
    /\ cache = NoMeta
    /\ filteredChan = <<>>
    /\ NewServiceWriter
    /\ stop = "no"

\* handleServices of the receiver, or Process of the trace service extractor,
\* which sends nothing when it found nothing.
Produce(m) ==
    /\ writer # "panic"
    /\ produced < MaxProduced
    /\ Len(serviceChan) < ChanCap
    /\ produced' = produced + 1
    /\ serviceChan' = Append(serviceChan, m)
    /\ UNCHANGED <<mapperVars, filteredChan, writerVars, stop>>

-----------------------------------------------------------------------------
(* The mapper.                                                              *)

ShouldAddUnknown(s, m) == cache[s] = "none" \/ m[s] = "app"
ShouldAdd(s, m) ==
    \/ cache[s] = "none"
    \/ cache[s] # "app" /\ m[s] = "app"

\* changes is made when the first change is found, and not sent when nil.
HasChanges(new) == new # NoMeta

\* case metadata := <-s.in, up to the send of the changes.
Update ==
    /\ mapper = "select"
    /\ serviceChan # <<>>
    /\ LET m == Head(serviceChan)
           new == [s \in Services |-> IF m[s] # "none" /\ ShouldAdd(s, m)
                                      THEN m[s] ELSE "none"]
       IN  IF HasChanges(new) THEN mapper' = "send" /\ changes' = new
                              ELSE UNCHANGED <<mapper, changes>>
    /\ serviceChan' = Tail(serviceChan)
    /\ UNCHANGED <<produced, cache, filteredChan, writerVars, stop>>

MergeCache == cache' = Merge(cache, changes)

\* s.out <- changes, then the merge into the cache.
SendChanges ==
    /\ mapper = "send"
    /\ Len(filteredChan) < ChanCap
    /\ filteredChan' = Append(filteredChan, changes)
    /\ MergeCache
    /\ changes' = NoMeta
    /\ mapper' = "select"
    /\ UNCHANGED <<produced, serviceChan, writerVars, stop>>

MapperExitContinues ==
    /\ mapper = "select"
    /\ stop # "no"
    /\ UNCHANGED vars

MapperExit ==
    /\ mapper = "select"
    /\ stop # "no"
    /\ mapper' = "done"
    /\ UNCHANGED <<produced, serviceChan, changes, cache, filteredChan, writerVars,
                   stop>>

-----------------------------------------------------------------------------
(* The writer.                                                              *)

WriterRunBegin ==
    /\ writer = "starting"
    /\ writer' = "select"
    /\ UNCHANGED <<produced, serviceChan, mapperVars, filteredChan, serviceBuffer,
                   payload, sent, lost, stop>>

\* Replaces the buffer instead of merging into it.
BufferReplaced(m) == serviceBuffer' = m
BufferMerged(m) == serviceBuffer' = Merge(serviceBuffer, m)

\* case sm := <-w.InServices
HandleServiceMetadata ==
    /\ writer = "select"
    /\ filteredChan # <<>>
    /\ filteredChan' = Tail(filteredChan)
    /\ BufferMerged(Head(filteredChan))
    /\ UNCHANGED <<produced, serviceChan, mapperVars, writer, payload, sent, lost,
                   stop>>

\* flush, up to the send: where the writer goes to send, and where it goes when
\* there is nothing to send.
FlushEncodes(to, empty) ==
    \/ /\ serviceBuffer = NoMeta
       /\ writer' = empty
       /\ UNCHANGED <<serviceBuffer, payload, lost>>
    \/ /\ serviceBuffer # NoMeta
       /\ writer' = to
       /\ payload' = serviceBuffer
       /\ UNCHANGED <<serviceBuffer, lost>>
    \/ /\ serviceBuffer # NoMeta     \* encoding error
       /\ writer' = empty
       /\ lost' = lost \cup {s \in Services : serviceBuffer[s] # "none"}
       /\ serviceBuffer' = NoMeta
       /\ UNCHANGED payload

FlushTickWhenEmpty ==
    /\ writer = "select"
    /\ serviceBuffer = NoMeta
    /\ FlushEncodes("send", "select")
    /\ UNCHANGED <<produced, serviceChan, mapperVars, filteredChan, sent, stop>>

\* case <-flushTicker.C
FlushTick ==
    /\ writer = "select"
    /\ FlushEncodes("send", "select")
    /\ UNCHANGED <<produced, serviceChan, mapperVars, filteredChan, sent, stop>>

\* case <-w.exit
WriterExit ==
    /\ writer = "select"
    /\ stop \in {"writer", "stopped", "overtook"}
    /\ FlushEncodes("lastSend", "done")
    /\ UNCHANGED <<produced, serviceChan, mapperVars, filteredChan, sent, stop>>

\* The payload sender, which BaseWriter.Stop stops last, takes the payload; it is
\* being stopped after a Stop that overtook Run.
PayloadTaken ==
    /\ writer \in {"send", "lastSend"}
    /\ sent' = [s \in Services |-> IF payload[s] = "none" THEN sent[s]
                                   ELSE Append(sent[s], payload[s])]
    /\ payload' = NoMeta
    /\ serviceBuffer' = NoMeta
    /\ writer' = IF writer = "send" THEN "select" ELSE "done"
    /\ UNCHANGED <<produced, serviceChan, mapperVars, filteredChan, lost, stop>>

\* The channel of the sender is closed: the send panics, and the panic ends the
\* process.
PayloadPanics ==
    /\ writer \in {"send", "lastSend"}
    /\ stop \in {"stopped", "overtook"}
    /\ writer' = "panic"
    /\ UNCHANGED <<produced, serviceChan, mapperVars, filteredChan, serviceBuffer,
                   payload, sent, lost, stop>>

-----------------------------------------------------------------------------
(* Agent.Run: ServiceMapper.Stop(), then ServiceWriter.Stop().              *)

StopMapper ==
    /\ stop = "no"
    /\ stop' = "mapper"
    /\ UNCHANGED <<produced, serviceChan, mapperVars, filteredChan, writerVars>>

StopWriter ==
    /\ stop = "mapper"
    /\ mapper = "done"
    /\ stop' = "writer"
    /\ UNCHANGED <<produced, serviceChan, mapperVars, filteredChan, writerVars>>

\* Start enters the mapper in its wait group, but Run the writer: Stop does not
\* wait for a writer that has not begun.
StopReturn ==
    /\ stop = "writer"
    /\ writer \in {"starting", "done"}
    /\ stop' = IF writer = "starting" THEN "overtook" ELSE "stopped"
    /\ UNCHANGED <<produced, serviceChan, mapperVars, filteredChan, writerVars>>

-----------------------------------------------------------------------------
Next ==
    \/ \E m \in Metadata \ {NoMeta} : Produce(m)
    \/ Update \/ SendChanges \/ MapperExit
    \/ WriterRunBegin \/ HandleServiceMetadata \/ FlushTick \/ WriterExit
    \/ PayloadTaken \/ PayloadPanics
    \/ StopMapper \/ StopWriter \/ StopReturn

Spec == Init /\ [][Next]_vars

\* Goroutines run; the two selects do not pass over a ready case for ever; the
\* sender takes what it is offered until it is stopped.
Fairness ==
    /\ SF_vars(Update)
    /\ WF_vars(SendChanges)
    /\ SF_vars(MapperExit)
    /\ WF_vars(WriterRunBegin)
    /\ SF_vars(HandleServiceMetadata)
    /\ SF_vars(FlushTick)
    /\ SF_vars(WriterExit)
    /\ WF_vars(stop # "overtook" /\ PayloadTaken)
    /\ WF_vars(StopWriter) /\ WF_vars(StopReturn)

FairSpec == Spec /\ Fairness

-----------------------------------------------------------------------------
\* The metadata sent for a service is only ever upgraded: what was found in a
\* span may be followed, once, by what came from the services API, and nothing
\* follows that.  The filtering in shouldAdd, the order of the channel and the
\* merge in the buffer of the writer have to agree for it.
OnlyUpgradesSent ==
    \A s \in Services : sent[s] \in {<<>>, <<"type">>, <<"app">>, <<"type", "app">>}

\* The metadata of s that left the mapper, oldest first; "none" is a gap.
InFlight(s) ==
    sent[s] \o <<serviceBuffer[s]>> \o [k \in DOMAIN filteredChan |-> filteredChan[k][s]]

\* m is the newest metadata in q.
Newest(m, q) ==
    \/ m = "none" /\ \A k \in DOMAIN q : q[k] = "none"
    \/ \E k \in DOMAIN q : /\ q[k] = m /\ m # "none"
                           /\ \A j \in DOMAIN q : j > k => q[j] = "none"

\* What the mapper remembers having forwarded is what the API will know: the
\* newest metadata of a service that was sent, buffered or is in the channel is
\* the one in the cache, unless an encoding error threw it away.
CacheMatchesWhatIsSent == \A s \in Services \ lost : Newest(cache[s], InFlight(s))

\* Metadata that leaves the mapper does not stay in the channel or in the
\* buffer of the writer, unless the agent is stopped.
ChangesAreFlushed ==
    (filteredChan # <<>> \/ serviceBuffer # NoMeta) ~>
        (stop # "no" \/ (filteredChan = <<>> /\ serviceBuffer = NoMeta))

\* The two Stops return: a mapper that is blocked on a full channel when it is
\* stopped gets rid of its changes, because the writer still runs.
StopReturns == (stop = "mapper") ~> (stop \in {"stopped", "overtook"})
=============================================================================
