--------------------------- MODULE PayloadSender ---------------------------
(***************************************************************************)
(* The QueuablePayloadSender of writer/payload.go, with the backoff timer  *)
(* of backoff/backoff.go it owns.  One goroutine executes Run; it shares   *)
(* with the rest of the agent                                              *)
(*                                                                         *)
(*   - the unbuffered channel "in", fed by one writer goroutine (Send),    *)
(*   - the unbuffered channel "monitor", drained by the writer's           *)
(*     monitoring goroutine,                                               *)
(*   - the timer goroutine that time.AfterFunc starts when a retry is due, *)
(*   - the channel "exit" and the wait group used by Stop,                 *)
(*   - the endpoint, which may accept a payload, refuse it for good, or    *)
(*     fail in a retriable way before or after having taken it.            *)
(*                                                                         *)
(* Run is cut into steps at the points where another goroutine, the clock  *)
(* or the endpoint may act: every Write, every event sent to the monitor,  *)
(* every iteration of the discarding, dropping and flushing loops.         *)
(***************************************************************************)
EXTENDS Integers, Sequences, Functions

CONSTANTS
    MaxQueuedPayloads,  \* conf.MaxQueuedPayloads; not positive: no limit
    MaxQueuedBytes,     \* conf.MaxQueuedBytes; not positive: no limit
    MaxAge,             \* conf.MaxAge, in clock ticks; not positive: no limit
    Sizes,              \* the sizes of the payloads the writer builds
    MaxPayloads,        \* bound: number of payloads the writer builds
    MaxTime             \* bound: last value of the clock

ASSUME ConfAssumption ==
    /\ MaxQueuedPayloads \in Int
    /\ MaxQueuedBytes \in Int
    /\ MaxAge \in Int
    /\ Sizes \subseteq Nat
    /\ MaxPayloads \in Nat
    /\ MaxTime \in Nat

VARIABLES
    now,                \* the clock behind time.Now and time.Since
    built,              \* number of payloads built so far; their ids are 1..built
    sending,            \* the payload a blocked Send holds, or NoPayload
    pc,                 \* where the goroutine of Run is
    then,               \* what follows the current run of discardOldPayloads
    inHand,             \* the argument of sendOrQueue until it is settled
    queuedPayloads,
    queuing,
    currentQueuedSize,
    armed,              \* the backoff timer is scheduled and has not fired
    ticking,            \* timer goroutines blocked on tickChannel
    event,              \* the event a blocked notify* call holds, or NoEvent
    terminal,           \* per payload: success and failure events received
    received,           \* id of the last payload that reached the endpoint
    stop                \* progress of the caller of Stop

payloadVars == <<now, built>>
timerVars   == <<armed, ticking>>
queueVars   == <<queuedPayloads, queuing, currentQueuedSize>>
vars == <<now, built, sending, pc, then, inHand, queuedPayloads, queuing,
          currentQueuedSize, armed, ticking, event, terminal, received, stop>>

Ids      == 1 .. MaxPayloads
Payload  == [id : Ids, size : Sizes, created : 0 .. MaxTime]
NoPayload == [id |-> 0, size |-> 0, created |-> 0]

Kinds    == {"success", "failure", "retry"}
NoEvent  == [kind |-> "none", id |-> 0]
Event    == [kind : Kinds, id : Ids] \cup {NoEvent}

PCs == {"starting", "select", "send", "enqueue", "discard", "makeRoom",
        "flush", "return", "done"}

Init ==
    /\ now = 0
    /\ built = 0
    /\ sending = NoPayload
    /\ pc = "starting"
    /\ then = "flush"
    /\ inHand = NoPayload
    /\ queuedPayloads = <<>>
    /\ queuing = FALSE
    /\ currentQueuedSize = 0
    /\ armed = FALSE
    /\ ticking = 0
    /\ event = NoEvent
    /\ terminal = [i \in Ids |-> 0]
    /\ received = 0
    /\ stop = "no"

-----------------------------------------------------------------------------
(* The rest of the agent: the clock, the writer goroutine, the monitoring  *)
(* goroutine and the caller of Stop.                                        *)

ClockTick ==
    /\ now < MaxTime
    /\ now' = now + 1
    /\ UNCHANGED <<built, sending, pc, then, inHand, queueVars, timerVars,
                   event, terminal, received, stop>>

\* NewPayload, then Send: the writer blocks on the unbuffered channel "in".
\* The writers stop their own loop before they stop their sender, so nothing
\* is sent once Stop has been called (their own modules have the Send that panics,
\* of a writer whose Stop came before its Run).
Send(size) ==
    /\ stop = "no"
    /\ sending = NoPayload
    /\ built < MaxPayloads
    /\ built' = built + 1
    /\ sending' = [id |-> built + 1, size |-> size, created |-> now]
    /\ UNCHANGED <<now, pc, then, inHand, queueVars, timerVars, event,
                   terminal, received, stop>>

\* The monitoring goroutine receives the event that notifySuccess,
\* notifyError or notifyRetry is blocked on.
MonitorReceive ==
    /\ event # NoEvent
    /\ event' = NoEvent
    /\ terminal' = IF event.kind = "retry" THEN terminal
                   ELSE [terminal EXCEPT ![event.id] = @ + 1]
    /\ UNCHANGED <<payloadVars, sending, pc, then, inHand, queueVars,
                   timerVars, received, stop>>

\* Stop: close(exit), once the writer's own goroutine has returned.
StopCloseExit ==
    /\ stop = "no"
    /\ sending = NoPayload
    /\ stop' = "waiting"
    /\ UNCHANGED <<payloadVars, sending, pc, then, inHand, queueVars,
                   timerVars, event, terminal, received>>

\* Stop: exitWG.Wait() returns when the counter is zero (Run increments it
\* itself, so a Run that has not begun does not count); then close(in) and
\* close(monitor).
StopWait ==
    /\ stop = "waiting"
    /\ pc \in {"starting", "done"}
    /\ stop' = "stopped"
    /\ UNCHANGED <<payloadVars, sending, pc, then, inHand, queueVars,
                   timerVars, event, terminal, received>>

-----------------------------------------------------------------------------
(* The backoff timer (CustomTimer).                                         *)

\* ScheduleRetry: stop a pending timer, start another one.  A timer goroutine
\* that is already blocked on tickChannel is not affected.
ScheduleRetryForgotten == UNCHANGED timerVars

ScheduleRetry == armed' = TRUE /\ UNCHANGED ticking

\* Reset: stop a pending timer (and forget the number of retries).
Reset == armed' = FALSE /\ UNCHANGED ticking

\* The delay has elapsed: the function given to AfterFunc starts to run and
\* blocks on the unbuffered tickChannel.
TimerFires ==
    /\ armed
    /\ armed' = FALSE
    /\ ticking' = ticking + 1
    /\ UNCHANGED <<payloadVars, sending, pc, then, inHand, queueVars, event,
                   terminal, received, stop>>

-----------------------------------------------------------------------------
(* Run.  A step of the goroutine needs its previous event delivered.        *)

At(label) == pc = label /\ event = NoEvent

Notify(kind, id) == event' = [kind |-> kind, id |-> id]

\* exitWG.Add(1) and the first select.
RunBegin ==
    /\ At("starting")
    /\ pc' = "select"
    /\ UNCHANGED <<payloadVars, sending, then, inHand, queueVars, timerVars,
                   event, terminal, received, stop>>

\* case payload := <-s.in, up to the test of s.queuing in sendOrQueue.  (A
\* nil payload, received when "in" is closed, changes nothing.)
MustQueueNever == FALSE
MustQueue == queuing

ReceivePayload ==
    /\ At("select")
    /\ sending # NoPayload
    /\ inHand' = sending
    /\ sending' = NoPayload
    /\ pc' = IF MustQueue THEN "enqueue" ELSE "send"
    /\ UNCHANGED <<payloadVars, then, queueVars, timerVars, event, terminal,
                   received, stop>>

\* case <-s.backoffTimer.ReceiveTick(): flushQueue starts by discarding.
ReceiveTick ==
    /\ At("select")
    /\ ticking > 0
    /\ ticking' = ticking - 1
    /\ pc' = "discard"
    /\ then' = "flush"
    /\ UNCHANGED <<payloadVars, sending, inHand, queueVars, armed, event,
                   terminal, received, stop>>

\* case <-s.exit: the last flushQueue.
ReceiveExit ==
    /\ At("select")
    /\ stop # "no"
    /\ pc' = "discard"
    /\ then' = "flushAndReturn"
    /\ UNCHANGED <<payloadVars, sending, inHand, queueVars, timerVars, event,
                   terminal, received, stop>>

-----------------------------------------------------------------------------
(* sendOrQueue and enqueue.                                                 *)

\* endpoint.Write as the sender sees it: whether the payload reached the
\* endpoint is independent of a retriable error (a timeout, a 5xx answer).
WriteReaches(p) == received' = p.id
WriteMayReach(p) == received' \in {received, p.id}

SendSucceeds ==
    /\ At("send")
    /\ WriteReaches(inHand)
    /\ Notify("success", inHand.id)
    /\ inHand' = NoPayload
    /\ pc' = "select"
    /\ UNCHANGED <<payloadVars, sending, then, queueVars, timerVars, terminal,
                   stop>>

\* A non-retriable error goes back to Run, which notifies it.
SendFails ==
    /\ At("send")
    /\ WriteMayReach(inHand)
    /\ Notify("failure", inHand.id)
    /\ inHand' = NoPayload
    /\ pc' = "select"
    /\ UNCHANGED <<payloadVars, sending, then, queueVars, timerVars, terminal,
                   stop>>

SendIsRetriable ==
    /\ At("send")
    /\ WriteMayReach(inHand)
    /\ ScheduleRetry
    /\ Notify("retry", inHand.id)
    /\ pc' = "enqueue"
    /\ UNCHANGED <<payloadVars, sending, then, inHand, queueVars, terminal,
                   stop>>

Enqueue ==
    /\ At("enqueue")
    /\ queuing' = TRUE
    /\ pc' = "discard"
    /\ then' = "makeRoom"
    /\ UNCHANGED <<payloadVars, sending, inHand, queuedPayloads,
                   currentQueuedSize, timerVars, event, terminal, received,
                   stop>>

\* removeQueuedPayload, applied to the front of the list.
RemoveFrontForgetsSize ==
    /\ queuedPayloads' = Tail(queuedPayloads)
    /\ UNCHANGED currentQueuedSize

RemoveFrontKeepsElement ==
    /\ currentQueuedSize' = currentQueuedSize - Head(queuedPayloads).size
    /\ UNCHANGED queuedPayloads

RemoveBack ==
    /\ queuedPayloads' = SubSeq(queuedPayloads, 1, Len(queuedPayloads) - 1)
    /\ currentQueuedSize' = currentQueuedSize - Head(queuedPayloads).size

RemoveFront ==
    /\ queuedPayloads' = Tail(queuedPayloads)
    /\ currentQueuedSize' = currentQueuedSize - Head(queuedPayloads).size

TooOld(p) == MaxAge > 0 /\ now - p.created >= MaxAge

OldInFront == queuedPayloads # <<>> /\ TooOld(Head(queuedPayloads))

\* One iteration of discardOldPayloads.
DiscardOld ==
    /\ At("discard")
    /\ OldInFront
    /\ Notify("failure", Head(queuedPayloads).id)
    /\ RemoveFront
    /\ UNCHANGED <<payloadVars, sending, pc, then, inHand, queuing, timerVars,
                   terminal, received, stop>>

\* The end of discardOldPayloads: no payload left, or a young one in front.
DiscardEnds ==
    /\ At("discard")
    /\ ~OldInFront
    /\ pc' = IF then = "makeRoom" THEN "makeRoom" ELSE "flush"
    /\ UNCHANGED <<payloadVars, sending, then, inHand, queueVars, timerVars,
                   event, terminal, received, stop>>

TooManyQueued == MaxQueuedPayloads > 0 /\ Len(queuedPayloads) >= MaxQueuedPayloads
NeverTooBig(p) == FALSE
TooBig(p)     == MaxQueuedBytes > 0 /\ p.size > MaxQueuedBytes
NoSpaceFor(p) == MaxQueuedBytes > 0 /\ currentQueuedSize + p.size > MaxQueuedBytes

\* dropOldestPayload, for either limit of enqueue.
MustDrop == TooManyQueued \/ (~TooBig(inHand) /\ NoSpaceFor(inHand))

DropOldest ==
    /\ At("makeRoom")
    /\ MustDrop
    /\ queuedPayloads # <<>>
    /\ RemoveFront
    /\ Notify("failure", Head(queuedPayloads).id)
    /\ UNCHANGED <<payloadVars, sending, pc, then, inHand, queuing, timerVars,
                   terminal, received, stop>>

\* enqueue fails: the payload is bigger than the whole queue may be, and Run
\* notifies the error.
RejectTooBig ==
    /\ At("makeRoom")
    /\ ~TooManyQueued
    /\ TooBig(inHand)
    /\ Notify("failure", inHand.id)
    /\ inHand' = NoPayload
    /\ pc' = "select"
    /\ UNCHANGED <<payloadVars, sending, then, queueVars, timerVars, terminal,
                   received, stop>>

QueueBehind(p) == Append(queuedPayloads, p)

PushBack ==
    /\ At("makeRoom")
    /\ ~TooBig(inHand)
    /\ ~MustDrop
    /\ queuedPayloads' = QueueBehind(inHand)
    /\ currentQueuedSize' = currentQueuedSize + inHand.size
    /\ inHand' = NoPayload
    /\ pc' = "select"
    /\ UNCHANGED <<payloadVars, sending, then, queuing, timerVars, event,
                   terminal, received, stop>>

-----------------------------------------------------------------------------
(* flushQueue, one iteration at a time.                                     *)

AfterFlushSelect == "select"
AfterFlush == IF then = "flushAndReturn" THEN "return" ELSE "select"

FlushSucceeds ==
    /\ At("flush")
    /\ queuedPayloads # <<>>
    /\ WriteReaches(Head(queuedPayloads))
    /\ Notify("success", Head(queuedPayloads).id)
    /\ RemoveFront
    /\ UNCHANGED <<payloadVars, sending, pc, then, inHand, queuing, timerVars,
                   terminal, stop>>

FlushFails ==
    /\ At("flush")
    /\ queuedPayloads # <<>>
    /\ WriteMayReach(Head(queuedPayloads))
    /\ Notify("failure", Head(queuedPayloads).id)
    /\ RemoveFront
    /\ UNCHANGED <<payloadVars, sending, pc, then, inHand, queuing, timerVars,
                   terminal, stop>>

FlushIsRetriable ==
    /\ At("flush")
    /\ queuedPayloads # <<>>
    /\ WriteMayReach(Head(queuedPayloads))
    /\ ScheduleRetry
    /\ Notify("retry", Head(queuedPayloads).id)
    /\ pc' = AfterFlush
    /\ UNCHANGED <<payloadVars, sending, then, inHand, queueVars, terminal,
                   stop>>

FlushEnds ==
    /\ At("flush")
    /\ queuedPayloads = <<>>
    /\ queuing' = FALSE
    /\ Reset
    /\ pc' = AfterFlush
    /\ UNCHANGED <<payloadVars, sending, then, inHand, queuedPayloads,
                   currentQueuedSize, event, terminal, received, stop>>

\* return, with the deferred exitWG.Done().
RunReturns ==
    /\ At("return")
    /\ pc' = "done"
    /\ UNCHANGED <<payloadVars, sending, then, inHand, queueVars, timerVars,
                   event, terminal, received, stop>>

-----------------------------------------------------------------------------
Sender ==
    \/ RunBegin \/ ReceivePayload \/ ReceiveTick \/ ReceiveExit
    \/ SendSucceeds \/ SendFails \/ SendIsRetriable
    \/ Enqueue \/ DiscardOld \/ DiscardEnds
    \/ DropOldest \/ RejectTooBig \/ PushBack
    \/ FlushSucceeds \/ FlushFails \/ FlushIsRetriable \/ FlushEnds
    \/ RunReturns

\* Every goroutine may be idle once the sender has been stopped.
Next ==
    \/ ClockTick
    \/ \E size \in Sizes : Send(size)
    \/ MonitorReceive
    \/ StopCloseExit
    \/ StopWait
    \/ TimerFires
    \/ Sender

Spec == Init /\ [][Next]_vars

\* Go runs every goroutine that can run and the timer does fire.  A select
\* with several ready cases picks one of them uniformly, so a case that is
\* ready again and again is not passed over for ever (strong fairness).
Fairness ==
    /\ WF_vars(Sender)
    /\ WF_vars(MonitorReceive)
    /\ WF_vars(TimerFires)
    /\ WF_vars(StopWait)
    /\ SF_vars(ReceivePayload)
    /\ SF_vars(ReceiveTick)
    /\ SF_vars(ReceiveExit)

FairSpec == Spec /\ Fairness

\* The endpoint does not answer every retry of a flush with a retriable error.
EndpointRecovers == SF_vars(FlushSucceeds)

-----------------------------------------------------------------------------
(* Safety.                                                                  *)

\* Type correctness of the state of the sender and of its environment.
TypeOK ==
    /\ now \in 0 .. MaxTime
    /\ built \in 0 .. MaxPayloads
    /\ sending \in Payload \cup {NoPayload}
    /\ pc \in PCs
    /\ then \in {"makeRoom", "flush", "flushAndReturn"}
    /\ inHand \in Payload \cup {NoPayload}
    /\ queuedPayloads \in Seq(Payload)
    /\ queuing \in BOOLEAN
    /\ currentQueuedSize \in Int
    /\ armed \in BOOLEAN
    /\ ticking \in Nat
    /\ event \in Event
    /\ terminal \in [Ids -> Nat]
    /\ received \in 0 .. MaxPayloads
    /\ stop \in {"no", "waiting", "stopped"}

Queued(i) == \E k \in DOMAIN queuedPayloads : queuedPayloads[k].id = i
Ended(i)  == event.id = i /\ event.kind \in {"success", "failure"}
One(p)    == IF p THEN 1 ELSE 0

\* Every payload that entered Run is in exactly one place: the argument of
\* the running sendOrQueue, the queue, or one success or failure event (sent
\* or on its way to the monitor).  No error path of sendOrQueue, enqueue,
\* discardOldPayloads or flushQueue loses a payload or reports it twice.  "Stop
\* asks this sender to stop and waits until it correctly stops": once anything
\* was sent through the sender, Stop returns only after Run has returned; before
\* that Stop may overtake the goroutine of Run, which is not in the wait group
\* yet, but even then nothing is sent to the monitor channel once it is closed.
AccountedOnce ==
    /\ \A i \in 1 .. built :
        (sending.id # i) =>
            One(inHand.id = i) + One(Queued(i)) + One(Ended(i)) + terminal[i] = 1
    /\ stop = "stopped" => event = NoEvent /\ (built > 0 => pc = "done")

SizesOf(q) == [k \in DOMAIN q |-> q[k].size]

LimitsRespected ==
    /\ MaxQueuedPayloads > 0 => Len(queuedPayloads) <= MaxQueuedPayloads
    /\ MaxQueuedBytes > 0 => currentQueuedSize <= MaxQueuedBytes

\* The running count currentQueuedSize is the size of the queue, and the queue
\* respects both limits of the configuration at every step of every handler.
QueueWithinLimits ==
    /\ currentQueuedSize = SumFunction(SizesOf(queuedPayloads))
    /\ LimitsRespected

\* The two panics of enqueue ("unable to respect max queued payloads", "unable
\* to find space") are unreachable: there is something to drop whenever
\* enqueue wants to drop.
EnqueueNeverPanics ==
    At("makeRoom") /\ MustDrop => queuedPayloads # <<>>

\* While Run waits in its select, the sender queues exactly when one retry is
\* outstanding, scheduled or already blocked on tickChannel: queued payloads
\* are never stranded without a retry, and no stale tick flushes an idle
\* sender.
RetryOutstandingWhenQueuing ==
    pc = "select" => One(armed) + ticking = One(queuing)

\* "Payloads are kept in order" (discardOldPayloads, dropOldestPayload): by
\* id and by creation date, and the payload in hand is younger than all.
KeptInOrder ==
    LET all == IF inHand = NoPayload THEN queuedPayloads
                                     ELSE Append(queuedPayloads, inHand)
    IN  \A j, k \in DOMAIN all :
            j < k => all[j].id < all[k].id /\ all[j].created <= all[k].created

-----------------------------------------------------------------------------
(* What a step may never do, and what must happen.                          *)

\* The endpoint gets payloads in the order in which the writer built them,
\* retries included: a payload is never sent while an older one waits.
NoOvertaking == [][received' >= received]_vars

\* When discardOldPayloads ends, none of the payloads left is too old: the
\* early exit at the first young payload misses none.
DiscardIsComplete ==
    [][pc = "discard" /\ pc' # "discard" =>
          \A k \in DOMAIN queuedPayloads : ~TooOld(queuedPayloads[k])]_vars

\* The sender implements the ledger that its writer relies on: payloads are
\* settled once, reach the endpoint in order, and only the oldest or the
\* newest pending payload is ever given up.
AcceptedCount == built - One(sending # NoPayload)
PendingIds == {i \in Ids : Queued(i) \/ inHand.id = i}

Ledger == INSTANCE RetryLedger
          WITH accepted <- AcceptedCount, pending <- PendingIds, reached <- received

ImplementsLedger == Ledger!Spec

\* If the endpoint recovers, a queued payload leaves the queue in the end: sent,
\* failed, dropped or discarded, unless the sender is stopped.
QueueDrains ==
    EndpointRecovers => \A i \in Ids : Queued(i) ~> (~Queued(i) \/ stop # "no")

\* Stop returns, whatever the endpoint answers.
StopReturns == (stop = "waiting") ~> (stop = "stopped")
=============================================================================
