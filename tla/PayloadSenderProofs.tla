------------------------ MODULE PayloadSenderProofs ------------------------
(***************************************************************************)
(* Proofs about the payload sender, for every configuration of its queue   *)
(* and every number and size of payloads.                                  *)
(***************************************************************************)
EXTENDS PayloadSender, SumTheorems, TLAPS

\* The argument of sendOrQueue is a payload wherever the code dereferences it.
HandInv ==
    /\ pc \in {"send", "enqueue", "makeRoom"} => inHand \in Payload
    /\ pc = "discard" /\ then = "makeRoom" => inHand \in Payload
    /\ pc = "makeRoom" => then = "makeRoom"
    /\ pc = "flush" => then # "makeRoom"

TypeInv == TypeOK /\ HandInv

\* The front of a list and the rest of it, in the terms of sequences.
LEMMA HeadTail ==
  ASSUME NEW S, NEW s \in Seq(S), s # <<>>
  PROVE  /\ Head(s) \in S
         /\ Tail(s) \in Seq(S)
         /\ Len(s) \in Nat \ {0}
         /\ Len(Tail(s)) = Len(s) - 1
         /\ \A k \in 1 .. Len(s) - 1 : Tail(s)[k] = s[k + 1]
         /\ Head(s) = s[1]
  OBVIOUS

\* What the loops of enqueue and flushQueue know about the front of the list.
LEMMA Front ==
  ASSUME TypeOK, queuedPayloads # <<>>
  PROVE  /\ Head(queuedPayloads) \in Payload
         /\ Head(queuedPayloads).id \in Ids
         /\ Head(queuedPayloads).size \in Int
         /\ Tail(queuedPayloads) \in Seq(Payload)
<1>1. queuedPayloads \in Seq(Payload)
  BY DEF TypeOK
<1>2. Head(queuedPayloads) \in Payload /\ Tail(queuedPayloads) \in Seq(Payload)
  BY <1>1, HeadTail
<1>3. Head(queuedPayloads).id \in Ids /\ Head(queuedPayloads).size \in Sizes
  BY <1>2 DEF Payload
<1>4. Head(queuedPayloads).size \in Nat
  BY <1>3, ConfAssumption
<1> QED
  BY <1>2, <1>3, <1>4

\* What notifySuccess, notifyError and notifyRetry put on the channel.
LEMMA NotifyType ==
  ASSUME NEW kind \in Kinds, NEW i \in Ids, Notify(kind, i)
  PROVE  event' \in Event
  BY DEF Notify, Event

\* The sender that Start launches is well typed.
LEMMA InitTypeInv == Init => TypeInv
<1> SUFFICES ASSUME Init PROVE TypeInv
  OBVIOUS
<1>1. event \in Event
  BY DEF Init, Event
<1>2. queuedPayloads \in Seq(Payload)
  BY DEF Init
<1>3. terminal \in [Ids -> Nat]
  BY DEF Init
<1>4. now \in 0 .. MaxTime /\ built \in 0 .. MaxPayloads /\ received \in 0 .. MaxPayloads
  BY ConfAssumption DEF Init
<1>5. ticking \in Nat /\ currentQueuedSize \in Int
  BY DEF Init
<1>6. TypeOK
  BY <1>1, <1>2, <1>3, <1>4, <1>5, Zenon DEF Init, TypeOK, PCs
<1> QED
  BY <1>6 DEF Init, TypeInv, HandInv

\* Every step of Run, of its timer and of its environment keeps the types.
LEMMA NextTypeInv == TypeInv /\ [Next]_vars => TypeInv'
<1> SUFFICES ASSUME TypeInv, [Next]_vars PROVE TypeInv'
  OBVIOUS
<1> USE ConfAssumption DEF TypeInv, TypeOK, HandInv, payloadVars, timerVars, queueVars
<1>1. CASE UNCHANGED vars
  BY <1>1 DEF vars
<1>2. CASE ClockTick
  BY <1>2 DEF ClockTick
<1>3. ASSUME NEW size \in Sizes, Send(size) PROVE TypeInv'
  BY <1>3 DEF Send, Payload, Ids
<1>4. CASE MonitorReceive
  <2>1. event' \in Event
    BY <1>4 DEF MonitorReceive, Event
  <2>3. event # NoEvent => event.id \in Ids
    BY DEF Event
  <2>4. terminal' \in [Ids -> Nat]
    BY <1>4, <2>3 DEF MonitorReceive
  <2> QED
    BY <1>4, <2>1, <2>4 DEF MonitorReceive
<1>5. CASE StopCloseExit
  BY <1>5 DEF StopCloseExit
<1>6. CASE StopWait
  BY <1>6 DEF StopWait
<1>7. CASE TimerFires
  <2>1. ticking' \in Nat
    BY <1>7 DEF TimerFires
  <2> QED
    BY <1>7, <2>1, Zenon DEF TimerFires
<1>8. CASE Sender
  <2> USE DEF At, PCs
  <2>1. CASE RunBegin
    BY <2>1 DEF RunBegin
  <2>2. CASE ReceivePayload
    BY <2>2 DEF ReceivePayload
  <2>3. CASE ReceiveTick
    BY <2>3 DEF ReceiveTick
  <2>4. CASE ReceiveExit
    BY <2>4 DEF ReceiveExit
  <2>5. CASE SendSucceeds
    BY <2>5 DEF SendSucceeds, WriteReaches, Notify, Event, Kinds, Payload, Ids
  <2>6. CASE SendFails
    BY <2>6 DEF SendFails, WriteMayReach, Notify, Event, Kinds, Payload, Ids
  <2>7. CASE SendIsRetriable
    BY <2>7 DEF SendIsRetriable, WriteMayReach, ScheduleRetry, Notify, Event, Kinds, Payload, Ids
  <2>8. CASE Enqueue
    BY <2>8 DEF Enqueue
  <2>9. CASE DiscardOld
    <3>1. queuedPayloads # <<>> /\ Notify("failure", Head(queuedPayloads).id)
      BY <2>9 DEF DiscardOld, OldInFront
    <3>2. event' \in Event
      BY <3>1, Front, NotifyType DEF Kinds
    <3> QED
      BY <2>9, <3>1, <3>2, Front DEF DiscardOld, RemoveFront
  <2>10. CASE DiscardEnds
    BY <2>10 DEF DiscardEnds
  <2>11. CASE DropOldest
    <3>1. queuedPayloads # <<>> /\ Notify("failure", Head(queuedPayloads).id)
      BY <2>11 DEF DropOldest
    <3>2. event' \in Event
      BY <3>1, Front, NotifyType DEF Kinds
    <3> QED
      BY <2>11, <3>1, <3>2, Front DEF DropOldest, RemoveFront
  <2>12. CASE RejectTooBig
    BY <2>12 DEF RejectTooBig, Notify, Event, Kinds, Payload, Ids
  <2>13. CASE PushBack
    BY <2>13 DEF PushBack, QueueBehind, Payload
  <2>14. CASE FlushSucceeds
    <3>1. queuedPayloads # <<>> /\ Notify("success", Head(queuedPayloads).id)
      BY <2>14 DEF FlushSucceeds
    <3>2. event' \in Event
      BY <3>1, Front, NotifyType DEF Kinds
    <3> QED
      BY <2>14, <3>1, <3>2, Front DEF FlushSucceeds, RemoveFront, WriteReaches, Ids
  <2>15. CASE FlushFails
    <3>1. queuedPayloads # <<>> /\ Notify("failure", Head(queuedPayloads).id)
      BY <2>15 DEF FlushFails
    <3>2. event' \in Event
      BY <3>1, Front, NotifyType DEF Kinds
    <3>3. queuedPayloads' \in Seq(Payload) /\ currentQueuedSize' \in Int
      BY <2>15, <3>1, Front DEF FlushFails, RemoveFront
    <3>4. received' \in 0 .. MaxPayloads
      BY <2>15, <3>1, Front DEF FlushFails, WriteMayReach, Ids
    <3> QED
      BY <2>15, <3>2, <3>3, <3>4 DEF FlushFails
  <2>16. CASE FlushIsRetriable
    <3>1. queuedPayloads # <<>> /\ Notify("retry", Head(queuedPayloads).id)
      BY <2>16 DEF FlushIsRetriable
    <3>2. event' \in Event
      BY <3>1, Front, NotifyType DEF Kinds
    <3> QED
      BY <2>16, <3>1, <3>2, Front DEF FlushIsRetriable, AfterFlush, ScheduleRetry, WriteMayReach, Ids
  <2>17. CASE FlushEnds
    BY <2>17 DEF FlushEnds, AfterFlush, Reset
  <2>18. CASE RunReturns
    BY <2>18 DEF RunReturns
  <2> QED
    BY <1>8, <2>1, <2>2, <2>3, <2>4, <2>5, <2>6, <2>7, <2>8, <2>9, <2>10, <2>11,
       <2>12, <2>13, <2>14, <2>15, <2>16, <2>17, <2>18 DEF Sender
<1> QED
  BY <1>1, <1>2, <1>3, <1>4, <1>5, <1>6, <1>7, <1>8 DEF Next

\* Every field of the sender keeps its type, and the argument of sendOrQueue is
\* a payload wherever it is used.
THEOREM TypeCorrect == Spec => []TypeOK
<1>1. TypeInv => TypeOK
  BY DEF TypeInv
<1> QED
  BY <1>1, InitTypeInv, NextTypeInv, PTL DEF Spec

-----------------------------------------------------------------------------
(***************************************************************************)
(* One retry is outstanding exactly while the sender queues.  In the       *)
(* select this is RetryOutstandingWhenQueuing; between two selects the     *)
(* count depends on how far the handler has come: a tick that was received *)
(* is spent, and a retriable error has scheduled the next one before the   *)
(* flag is raised.  Once "exit" was received nothing is claimed.           *)
(***************************************************************************)
Outstanding == One(armed) + ticking

RetryInv ==
    /\ pc = "starting" => ~queuing /\ Outstanding = 0
    /\ pc = "select" => Outstanding = One(queuing)
    /\ pc = "send" => ~queuing /\ Outstanding = 0
    /\ pc = "enqueue" => Outstanding = 1
    /\ pc \in {"discard", "makeRoom"} /\ then = "makeRoom" =>
          queuing /\ Outstanding = 1
    /\ pc \in {"discard", "flush"} /\ then = "flush" =>
          queuing /\ Outstanding = 0

\* A fresh sender neither queues nor has a retry scheduled.
LEMMA InitRetryInv == Init => RetryInv
  BY DEF Init, RetryInv, Outstanding, One

\* Every step keeps queuing and the number of outstanding retries in step.
LEMMA NextRetryInv == TypeInv /\ RetryInv /\ [Next]_vars => RetryInv'
<1> SUFFICES ASSUME TypeInv, RetryInv, [Next]_vars PROVE RetryInv'
  OBVIOUS
<1> USE DEF RetryInv, Outstanding, One, TypeInv, TypeOK, HandInv, PCs,
            payloadVars, timerVars, queueVars
<1>1. CASE UNCHANGED vars
  BY <1>1 DEF vars
<1>2. CASE ClockTick \/ MonitorReceive \/ StopCloseExit \/ StopWait
  BY <1>2 DEF ClockTick, MonitorReceive, StopCloseExit, StopWait
<1>3. ASSUME NEW size \in Sizes, Send(size) PROVE RetryInv'
  BY <1>3 DEF Send
<1>4. CASE TimerFires
  BY <1>4 DEF TimerFires
<1>5. CASE Sender
  <2> USE DEF At
  <2>1. CASE RunBegin \/ ReceivePayload \/ ReceiveTick \/ ReceiveExit
    BY <2>1 DEF RunBegin, ReceivePayload, ReceiveTick, ReceiveExit, MustQueue
  <2>2. CASE SendSucceeds \/ SendFails \/ SendIsRetriable
    BY <2>2 DEF SendSucceeds, SendFails, SendIsRetriable, ScheduleRetry
  <2>3. CASE Enqueue \/ DiscardOld \/ DiscardEnds
    BY <2>3 DEF Enqueue, DiscardOld, DiscardEnds
  <2>4. CASE DropOldest \/ RejectTooBig \/ PushBack
    BY <2>4 DEF DropOldest, RejectTooBig, PushBack
  <2>5. CASE FlushSucceeds \/ FlushFails
    BY <2>5 DEF FlushSucceeds, FlushFails
  <2>6. CASE FlushIsRetriable
    BY <2>6 DEF FlushIsRetriable, AfterFlush, ScheduleRetry
  <2>7. CASE FlushEnds
    BY <2>7 DEF FlushEnds, AfterFlush, Reset
  <2>8. CASE RunReturns
    BY <2>8 DEF RunReturns
  <2> QED
    BY <1>5, <2>1, <2>2, <2>3, <2>4, <2>5, <2>6, <2>7, <2>8 DEF Sender
<1> QED
  BY <1>1, <1>2, <1>3, <1>4, <1>5 DEF Next

\* The sender queues exactly while one retry is outstanding: no queued payload
\* is stranded without a timer, and no stale tick reaches an idle sender.
THEOREM RetryCorrect == Spec => []RetryOutstandingWhenQueuing
<1>1. Init => TypeInv /\ RetryInv
  BY InitTypeInv, InitRetryInv
<1>2. TypeInv /\ RetryInv /\ [Next]_vars => (TypeInv /\ RetryInv)'
  BY NextTypeInv, NextRetryInv
<1>3. TypeInv /\ RetryInv => RetryOutstandingWhenQueuing
  BY DEF RetryInv, RetryOutstandingWhenQueuing, Outstanding
<1> QED
  BY <1>1, <1>2, <1>3, PTL DEF Spec
-----------------------------------------------------------------------------
(* Order.                                                                   *)

\* Payload p was taken by Run before the one that Send may be blocked on.
Accepted(p) ==
    /\ p.id <= built
    /\ p.created <= now
    /\ sending # NoPayload => p.id < sending.id /\ p.created <= sending.created

\* The payloads of a queue are older and older towards its front.
Ordered(q) ==
    \A j, k \in DOMAIN q : j < k => q[j].id < q[k].id /\ q[j].created <= q[k].created

\* p follows all payloads of a queue.
Follows(p, q) == \A k \in DOMAIN q : q[k].id < p.id /\ q[k].created <= p.created

\* Nothing younger than a pending payload has reached the endpoint, and the
\* queue is empty whenever payloads are sent directly.
OrderInv ==
    /\ sending # NoPayload => sending.id = built /\ sending.created <= now
    /\ received <= built
    /\ sending # NoPayload => received < sending.id
    /\ \A k \in DOMAIN queuedPayloads : /\ Accepted(queuedPayloads[k])
                                        /\ received <= queuedPayloads[k].id
    /\ inHand # NoPayload => Accepted(inHand) /\ received <= inHand.id
    /\ inHand # NoPayload => Follows(inHand, queuedPayloads)
    /\ Ordered(queuedPayloads)
    /\ ~queuing => queuedPayloads = <<>>

\* What the order speaks of; most steps leave it alone.
orderVars == <<now, built, sending, inHand, queuedPayloads, queuing, received>>

\* The numbers that the order compares.
LEMMA OrderTypes ==
  ASSUME TypeOK
  PROVE  /\ now \in Int /\ built \in Int /\ received \in Int
         /\ sending # NoPayload => sending.id \in Int /\ sending.created \in Int
         /\ inHand # NoPayload => inHand.id \in Int /\ inHand.created \in Int
         /\ Len(queuedPayloads) \in Nat
         /\ DOMAIN queuedPayloads = 1 .. Len(queuedPayloads)
         /\ \A k \in DOMAIN queuedPayloads :
               queuedPayloads[k].id \in Int /\ queuedPayloads[k].created \in Int
<1>1. \A p \in Payload : p.id \in Int /\ p.created \in Int
  BY ConfAssumption DEF Payload, Ids
<1>2. now \in Int /\ built \in Int /\ received \in Int
  BY ConfAssumption DEF TypeOK
<1>3. /\ sending # NoPayload => sending \in Payload
      /\ inHand # NoPayload => inHand \in Payload
  BY DEF TypeOK
<1>4. queuedPayloads \in Seq(Payload)
  BY DEF TypeOK
<1>5. /\ Len(queuedPayloads) \in Nat
      /\ DOMAIN queuedPayloads = 1 .. Len(queuedPayloads)
      /\ \A k \in DOMAIN queuedPayloads : queuedPayloads[k] \in Payload
  BY <1>4
<1> QED
  BY <1>1, <1>2, <1>3, <1>5

\* The queue behind its front: removeQueuedPayload moves every payload up.
LEMMA BehindFront ==
  ASSUME TypeOK, queuedPayloads # <<>>
  PROVE  /\ 1 \in DOMAIN queuedPayloads
         /\ Head(queuedPayloads) = queuedPayloads[1]
         /\ \A k \in DOMAIN Tail(queuedPayloads) :
               /\ k \in Int /\ 1 < k + 1
               /\ k + 1 \in DOMAIN queuedPayloads
               /\ Tail(queuedPayloads)[k] = queuedPayloads[k + 1]
<1>1. queuedPayloads \in Seq(Payload)
  BY DEF TypeOK
<1>2. /\ Len(queuedPayloads) \in Nat \ {0}
      /\ Tail(queuedPayloads) \in Seq(Payload)
      /\ Len(Tail(queuedPayloads)) = Len(queuedPayloads) - 1
      /\ \A k \in 1 .. Len(queuedPayloads) - 1 :
            Tail(queuedPayloads)[k] = queuedPayloads[k + 1]
      /\ Head(queuedPayloads) = queuedPayloads[1]
  BY <1>1, HeadTail
<1>3. /\ DOMAIN queuedPayloads = 1 .. Len(queuedPayloads)
      /\ DOMAIN Tail(queuedPayloads) = 1 .. Len(queuedPayloads) - 1
  BY <1>1, <1>2
<1> QED
  BY <1>2, <1>3

\* A step that leaves the queue, the payloads and the endpoint alone.
LEMMA OrderUnchanged ==
  ASSUME OrderInv, UNCHANGED orderVars
  PROVE  OrderInv'
  BY DEF OrderInv, orderVars, Accepted, Ordered, Follows

\* An attempt to send the front of the queue, or none, that leaves the queue
\* as it is.
LEMMA OrderAttempt ==
  ASSUME TypeOK, OrderInv, queuedPayloads # <<>>,
         received' \in {received, Head(queuedPayloads).id},
         UNCHANGED <<now, built, sending, inHand, queuedPayloads, queuing>>
  PROVE  OrderInv'
<1> USE OrderTypes, BehindFront
<1>1. /\ received' <= built
      /\ sending # NoPayload => received' < sending.id
      /\ inHand # NoPayload => received' <= inHand.id
  BY DEF OrderInv, Accepted, Follows
<1>2. \A k \in DOMAIN queuedPayloads : received' <= queuedPayloads[k].id
  BY DEF OrderInv, Ordered
<1> QED
  BY <1>1, <1>2 DEF OrderInv, Accepted, Ordered, Follows

\* The front of the queue leaves it: discarded, dropped or settled.
LEMMA OrderRemove ==
  ASSUME TypeOK, OrderInv, queuedPayloads # <<>>, RemoveFront,
         received' \in {received, Head(queuedPayloads).id},
         UNCHANGED <<now, built, sending, inHand, queuing>>
  PROVE  OrderInv'
<1> USE OrderTypes, BehindFront
<1>1. queuedPayloads' = Tail(queuedPayloads)
  BY DEF RemoveFront
<1>2. /\ received' <= built
      /\ sending # NoPayload => received' < sending.id
      /\ inHand # NoPayload => received' <= inHand.id
  BY DEF OrderInv, Accepted, Follows
<1>3. ASSUME NEW k \in DOMAIN queuedPayloads PROVE received' <= queuedPayloads[k].id
  <2>1. CASE received' = received
    BY <2>1 DEF OrderInv
  <2>2. CASE received' = Head(queuedPayloads).id
    <3>1. k = 1 \/ 1 < k
      OBVIOUS
    <3> QED
      BY <2>2, <3>1 DEF OrderInv, Ordered
  <2> QED
    BY <2>1, <2>2
<1>4. \A k \in DOMAIN queuedPayloads' :
         /\ Accepted(queuedPayloads'[k])
         /\ received' <= queuedPayloads'[k].id
         /\ inHand # NoPayload => /\ queuedPayloads'[k].id < inHand.id
                                  /\ queuedPayloads'[k].created <= inHand.created
  BY <1>1, <1>3 DEF OrderInv, Follows
<1>5. Ordered(queuedPayloads')
  <2> SUFFICES ASSUME NEW j \in DOMAIN Tail(queuedPayloads),
                      NEW k \in DOMAIN Tail(queuedPayloads), j < k
               PROVE  /\ Tail(queuedPayloads)[j].id < Tail(queuedPayloads)[k].id
                      /\ Tail(queuedPayloads)[j].created <= Tail(queuedPayloads)[k].created
    BY <1>1 DEF Ordered
  <2>1. j + 1 \in DOMAIN queuedPayloads /\ k + 1 \in DOMAIN queuedPayloads /\ j + 1 < k + 1
    OBVIOUS
  <2> QED
    BY <2>1 DEF OrderInv, Ordered
<1>6. queuing
  BY DEF OrderInv
<1> QED
  BY <1>2, <1>4, <1>5, <1>6 DEF OrderInv, Accepted, Ordered, Follows

\* enqueue puts the payload in hand behind all others.
LEMMA OrderPush ==
  ASSUME TypeOK, OrderInv, inHand \in Payload, queuing,
         queuedPayloads' = Append(queuedPayloads, inHand),
         inHand' = NoPayload,
         UNCHANGED <<now, built, sending, queuing, received>>
  PROVE  OrderInv'
<1> DEFINE n == Len(queuedPayloads)
<1> USE OrderTypes
<1>1. queuedPayloads \in Seq(Payload) /\ n \in Nat
  BY DEF TypeOK
<1>2. /\ DOMAIN queuedPayloads = 1 .. n
      /\ DOMAIN queuedPayloads' = 1 .. n + 1
      /\ queuedPayloads'[n + 1] = inHand
      /\ \A k \in 1 .. n : queuedPayloads'[k] = queuedPayloads[k]
  BY <1>1
<1>3. inHand # NoPayload
  BY DEF Payload, NoPayload, Ids
<1> HIDE DEF n
<1>4. \A k \in 1 .. n + 1 : k \in 1 .. n \/ k = n + 1
  BY <1>1
<1>5. \A k \in DOMAIN queuedPayloads' :
         Accepted(queuedPayloads'[k]) /\ received <= queuedPayloads'[k].id
  BY <1>2, <1>3, <1>4 DEF OrderInv
<1>6. Ordered(queuedPayloads')
  BY <1>1, <1>2, <1>3, <1>4 DEF OrderInv, Ordered, Follows
<1> QED
  BY <1>5, <1>6 DEF OrderInv, Accepted, Ordered

\* Nothing is pending when Start launches the sender.
LEMMA InitOrderInv == Init => OrderInv
  BY DEF Init, OrderInv, Accepted, Ordered, Follows

\* Every step of Run and of its environment keeps the order.
LEMMA NextOrderInv ==
    TypeInv /\ RetryInv /\ OrderInv /\ [Next]_vars => OrderInv'
<1> SUFFICES ASSUME TypeInv, RetryInv, OrderInv, [Next]_vars PROVE OrderInv'
  OBVIOUS
<1>0. TypeOK /\ HandInv
  BY DEF TypeInv
<1> USE <1>0, OrderTypes DEF payloadVars, timerVars, queueVars
<1>1. CASE UNCHANGED vars
  BY <1>1, OrderUnchanged DEF vars, orderVars
<1>2. CASE ClockTick
  BY <1>2 DEF ClockTick, OrderInv, Accepted, Ordered, Follows
<1>3. ASSUME NEW size \in Sizes, Send(size) PROVE OrderInv'
  <2>1. /\ sending'.id = built + 1 /\ sending'.created = now /\ built' = built + 1
        /\ sending = NoPayload
        /\ UNCHANGED <<now, inHand, queuedPayloads, queuing, received>>
    BY <1>3 DEF Send
  <2> QED
    BY <2>1 DEF OrderInv, Accepted, Ordered, Follows
<1>4. CASE MonitorReceive \/ StopCloseExit \/ StopWait \/ TimerFires
  BY <1>4, OrderUnchanged
     DEF MonitorReceive, StopCloseExit, StopWait, TimerFires, orderVars
<1>5. CASE RunBegin \/ ReceiveTick \/ ReceiveExit \/ DiscardEnds \/ RunReturns
  BY <1>5, OrderUnchanged
     DEF RunBegin, ReceiveTick, ReceiveExit, DiscardEnds, RunReturns, orderVars
<1>6. CASE ReceivePayload
  BY <1>6 DEF ReceivePayload, OrderInv, Accepted, Ordered, Follows
<1>7. CASE SendSucceeds \/ SendFails \/ SendIsRetriable
  <2>1. pc = "send"
    BY <1>7 DEF SendSucceeds, SendFails, SendIsRetriable, At
  <2>2. inHand \in Payload /\ queuedPayloads = <<>>
    BY <2>1 DEF HandInv, RetryInv, OrderInv
  <2>3. inHand # NoPayload
    BY <2>2 DEF Payload, NoPayload, Ids
  <2>4. /\ received' \in {received, inHand.id} /\ inHand' \in {inHand, NoPayload}
        /\ UNCHANGED <<now, built, sending, queuedPayloads, queuing>>
    BY <1>7 DEF SendSucceeds, SendFails, SendIsRetriable, WriteReaches, WriteMayReach
  <2> QED
    BY <2>2, <2>3, <2>4 DEF OrderInv, Accepted, Ordered, Follows
<1>8. CASE Enqueue \/ RejectTooBig
  BY <1>8 DEF Enqueue, RejectTooBig, OrderInv, Accepted, Ordered, Follows
<1>9. CASE DiscardOld \/ DropOldest \/ FlushSucceeds \/ FlushFails
  <2>1. /\ queuedPayloads # <<>> /\ RemoveFront
        /\ received' \in {received, Head(queuedPayloads).id}
        /\ UNCHANGED <<now, built, sending, inHand, queuing>>
    BY <1>9 DEF DiscardOld, OldInFront, DropOldest, FlushSucceeds, FlushFails,
                WriteReaches, WriteMayReach
  <2> QED
    BY <2>1, OrderRemove
<1>10. CASE PushBack
  <2>1. pc = "makeRoom"
    BY <1>10 DEF PushBack, At
  <2>2. inHand \in Payload /\ queuing
    BY <2>1 DEF HandInv, RetryInv
  <2> QED
    BY <1>10, <2>2, OrderPush DEF PushBack, QueueBehind
<1>11. CASE FlushIsRetriable
  BY <1>11, OrderAttempt DEF FlushIsRetriable, WriteMayReach
<1>12. CASE FlushEnds
  BY <1>12 DEF FlushEnds, OrderInv, Accepted, Ordered, Follows
<1> QED
  BY <1>1, <1>2, <1>3, <1>4, <1>5, <1>6, <1>7, <1>8, <1>9, <1>10, <1>11, <1>12
     DEF Next, Sender

\* The three invariants together.
SenderInv == TypeInv /\ RetryInv /\ OrderInv

\* They hold of every reachable state.
LEMMA SenderInvariant == Spec => []SenderInv
<1>1. Init => SenderInv
  BY InitTypeInv, InitRetryInv, InitOrderInv DEF SenderInv
<1>2. SenderInv /\ [Next]_vars => SenderInv'
  BY NextTypeInv, NextRetryInv, NextOrderInv DEF SenderInv
<1> QED
  BY <1>1, <1>2, PTL DEF Spec

\* "Payloads are kept in order": the queue, with the payload in hand behind it,
\* is sorted by id and by creation date, which the early exit of
\* discardOldPayloads and the choice of dropOldestPayload rely on.
THEOREM OrderCorrect == Spec => []KeptInOrder
<1>1. SenderInv => KeptInOrder
  <2> SUFFICES ASSUME SenderInv PROVE KeptInOrder
    OBVIOUS
  <2> USE OrderTypes DEF SenderInv, TypeInv
  <2>1. CASE inHand = NoPayload
    BY <2>1 DEF KeptInOrder, OrderInv, Ordered
  <2>2. CASE inHand # NoPayload
    <3> DEFINE n == Len(queuedPayloads)
               all == Append(queuedPayloads, inHand)
    <3>1. queuedPayloads \in Seq(Payload) /\ n \in Nat
      BY DEF TypeOK
    <3>2. /\ DOMAIN queuedPayloads = 1 .. n
          /\ DOMAIN all = 1 .. n + 1
          /\ all[n + 1] = inHand
          /\ \A k \in 1 .. n : all[k] = queuedPayloads[k]
      BY <3>1
    <3> HIDE DEF n, all
    <3>3. \A k \in 1 .. n + 1 : k \in 1 .. n \/ k = n + 1
      BY <3>1
    <3>4. \A j, k \in DOMAIN all :
             j < k => all[j].id < all[k].id /\ all[j].created <= all[k].created
      BY <2>2, <3>1, <3>2, <3>3 DEF OrderInv, Ordered, Follows
    <3> QED
      BY <2>2, <3>4 DEF KeptInOrder, all
  <2> QED
    BY <2>1, <2>2
<1> QED
  BY <1>1, SenderInvariant, PTL

\* The endpoint never gets a payload after a younger one, whatever fails and
\* is retried: the flag "queuing" keeps new payloads behind the queue.
THEOREM EndpointInOrder == Spec => NoOvertaking
<1>1. SenderInv /\ [Next]_vars => [received' >= received]_vars
  <2> SUFFICES ASSUME SenderInv, Next PROVE received' >= received
    OBVIOUS
  <2> USE OrderTypes, BehindFront DEF SenderInv, TypeInv
  <2>1. CASE UNCHANGED received
    BY <2>1
  <2>2. CASE SendSucceeds \/ SendFails \/ SendIsRetriable
    <3>1. pc = "send" /\ received' \in {received, inHand.id}
      BY <2>2 DEF SendSucceeds, SendFails, SendIsRetriable, WriteReaches,
                  WriteMayReach, At
    <3>2. inHand \in Payload
      BY <3>1 DEF HandInv
    <3>3. inHand # NoPayload
      BY <3>2 DEF Payload, NoPayload, Ids
    <3> QED
      BY <3>1, <3>3 DEF OrderInv
  <2>3. CASE FlushSucceeds \/ FlushFails \/ FlushIsRetriable
    <3>1. queuedPayloads # <<>> /\ received' \in {received, Head(queuedPayloads).id}
      BY <2>3 DEF FlushSucceeds, FlushFails, FlushIsRetriable, WriteReaches,
                  WriteMayReach
    <3> QED
      BY <3>1 DEF OrderInv
  <2>4. \/ UNCHANGED received
        \/ SendSucceeds \/ SendFails \/ SendIsRetriable
        \/ FlushSucceeds \/ FlushFails \/ FlushIsRetriable
    BY DEF Next, Sender, ClockTick, Send, MonitorReceive, StopCloseExit, StopWait,
           TimerFires, RunBegin, ReceivePayload, ReceiveTick, ReceiveExit, Enqueue,
           DiscardOld, DiscardEnds, DropOldest, RejectTooBig, PushBack, FlushEnds,
           RunReturns
  <2> QED
    BY <2>1, <2>2, <2>3, <2>4
<1> QED
  BY <1>1, SenderInvariant, PTL DEF Spec, NoOvertaking

\* discardOldPayloads may stop at the first young payload: when it ends, no
\* payload behind that one is too old.
THEOREM DiscardCorrect == Spec => DiscardIsComplete
<1> DEFINE Complete == pc = "discard" /\ pc' # "discard" =>
                         \A k \in DOMAIN queuedPayloads : ~TooOld(queuedPayloads[k])
<1>1. SenderInv /\ [Next]_vars => [Complete]_vars
  <2> SUFFICES ASSUME SenderInv, Next, pc = "discard", pc' # "discard",
                      NEW k \in DOMAIN queuedPayloads
               PROVE  ~TooOld(queuedPayloads[k])
    OBVIOUS
  <2> USE OrderTypes, BehindFront, ConfAssumption DEF SenderInv, TypeInv
  <2>1. DiscardEnds
    BY DEF Next, Sender, At, ClockTick, Send, MonitorReceive, StopCloseExit, StopWait,
           TimerFires, RunBegin, ReceivePayload, ReceiveTick, ReceiveExit,
           SendSucceeds, SendFails, SendIsRetriable, Enqueue, DiscardOld, DropOldest,
           RejectTooBig, PushBack, FlushSucceeds, FlushFails, FlushIsRetriable,
           FlushEnds, RunReturns
  <2>2. queuedPayloads # <<>> /\ ~TooOld(queuedPayloads[1])
    BY <2>1 DEF DiscardEnds, OldInFront
  <2>3. queuedPayloads[1].created <= queuedPayloads[k].created
    BY <2>2 DEF OrderInv, Ordered
  <2> QED
    BY <2>2, <2>3 DEF TooOld
<1> QED
  BY <1>1, SenderInvariant, PTL DEF Spec, DiscardIsComplete

-----------------------------------------------------------------------------
(***************************************************************************)
(* Size.  enqueue trusts currentQueuedSize, which is kept by additions and *)
(* subtractions.  QueueWithinLimits is inductive given the types.          *)
(***************************************************************************)

\* Sizes are natural numbers.
LEMMA SizesAreNat == \A p \in Payload : p.size \in Nat
  BY ConfAssumption DEF Payload

\* The sizes of a queue are a sequence of integers.
LEMMA SizesType ==
  ASSUME NEW q \in Seq(Payload)
  PROVE  /\ SizesOf(q) \in Seq(Int) /\ Len(SizesOf(q)) = Len(q)
         /\ \A k \in 1 .. Len(q) : SizesOf(q)[k] = q[k].size
<1>1. DOMAIN q = 1 .. Len(q) /\ Len(q) \in Nat
  OBVIOUS
<1>2. \A k \in 1 .. Len(q) : q[k].size \in Int
  BY SizesAreNat
<1> QED
  BY <1>1, <1>2 DEF SizesOf

\* The sizes of a queue without its front.
LEMMA SizesTail ==
  ASSUME NEW q \in Seq(Payload), q # <<>>
  PROVE  /\ SizesOf(q) # <<>> /\ Head(SizesOf(q)) = Head(q).size
         /\ SizesOf(Tail(q)) = Tail(SizesOf(q))
<1> DEFINE s == SizesOf(q)
           r == SizesOf(Tail(q))
<1>1. /\ Tail(q) \in Seq(Payload) /\ Len(q) \in Nat \ {0} /\ Head(q) = q[1]
      /\ Len(Tail(q)) = Len(q) - 1
      /\ \A k \in 1 .. Len(q) - 1 : Tail(q)[k] = q[k + 1]
  BY HeadTail
<1>2. s \in Seq(Int) /\ Len(s) = Len(q) /\ \A k \in 1 .. Len(q) : s[k] = q[k].size
  BY SizesType
<1>3. r \in Seq(Int) /\ Len(r) = Len(q) - 1 /\ \A k \in 1 .. Len(q) - 1 : r[k] = Tail(q)[k].size
  BY <1>1, SizesType
<1> HIDE DEF s, r
<1>4. s # <<>>
  BY <1>1, <1>2
<1>5. /\ Tail(s) \in Seq(Int) /\ Len(Tail(s)) = Len(q) - 1 /\ Head(s) = s[1]
      /\ \A k \in 1 .. Len(q) - 1 : Tail(s)[k] = s[k + 1]
  BY <1>2, <1>4, HeadTail
<1>6. \A k \in 1 .. Len(q) - 1 : r[k] = Tail(s)[k]
  BY <1>1, <1>2, <1>3, <1>5
<1>7. r = Tail(s)
  BY <1>1, <1>3, <1>5, <1>6, SameSequence
<1> QED
  BY <1>1, <1>2, <1>4, <1>5, <1>7 DEF s, r

\* The sizes of a queue with one more payload.
LEMMA SizesAppend ==
  ASSUME NEW q \in Seq(Payload), NEW p \in Payload
  PROVE  SizesOf(Append(q, p)) = Append(SizesOf(q), p.size)
<1> DEFINE s == SizesOf(q)
           r == SizesOf(Append(q, p))
<1>1. p.size \in Int
  BY SizesAreNat
<1>2. s \in Seq(Int) /\ Len(s) = Len(q) /\ \A k \in 1 .. Len(q) : s[k] = q[k].size
  BY SizesType
<1>3. /\ Append(q, p) \in Seq(Payload) /\ Len(Append(q, p)) = Len(q) + 1 /\ Len(q) \in Nat
      /\ \A k \in 1 .. Len(q) : Append(q, p)[k] = q[k]
      /\ Append(q, p)[Len(q) + 1] = p
  OBVIOUS
<1>4. r \in Seq(Int) /\ Len(r) = Len(q) + 1
      /\ \A k \in 1 .. Len(q) + 1 : r[k] = Append(q, p)[k].size
  BY <1>3, SizesType
<1> HIDE DEF s, r
<1>5. ASSUME NEW k \in 1 .. Len(q) + 1 PROVE r[k] = Append(s, p.size)[k]
  <2>1. CASE k = Len(q) + 1
    <3>1. r[k] = p.size
      BY <1>3, <1>4, <2>1
    <3>2. Append(s, p.size)[Len(s) + 1] = p.size
      BY <1>1, <1>2
    <3> QED
      BY <1>2, <2>1, <3>1, <3>2
  <2>2. CASE k # Len(q) + 1
    <3>1. k \in 1 .. Len(q)
      BY <1>3, <2>2
    <3>2. r[k] = s[k]
      BY <1>2, <1>3, <1>4, <3>1
    <3>3. Append(s, p.size)[k] = s[k]
      BY <1>1, <1>2, <3>1
    <3> QED
      BY <3>2, <3>3
  <2> QED
    BY <2>1, <2>2
<1>6. Append(s, p.size) \in Seq(Int) /\ Len(Append(s, p.size)) = Len(q) + 1
  BY <1>1, <1>2
<1>7. r = Append(s, p.size)
  BY <1>4, <1>5, <1>6, SameSequence
<1> QED
  BY <1>7 DEF s, r

\* A queue without payloads counts no bytes.
LEMMA EmptyCountsNothing ==
  ASSUME QueueWithinLimits, queuedPayloads = <<>>
  PROVE  currentQueuedSize = 0
<1>1. SizesOf(<<>>) = <<>>
  BY DEF SizesOf
<1> QED
  BY <1>1, SumEmptySeq DEF QueueWithinLimits

\* A step that leaves the queue alone.
LEMMA SizeUnchanged ==
  ASSUME QueueWithinLimits, UNCHANGED <<queuedPayloads, currentQueuedSize>>
  PROVE  QueueWithinLimits'
  BY DEF QueueWithinLimits, LimitsRespected

\* removeQueuedPayload subtracts what the front had added.
LEMMA SizeRemove ==
  ASSUME TypeOK, QueueWithinLimits, queuedPayloads # <<>>, RemoveFront
  PROVE  QueueWithinLimits'
<1> DEFINE q == queuedPayloads
<1>1. q \in Seq(Payload) /\ currentQueuedSize \in Int
  BY DEF TypeOK
<1>2. /\ Head(q) \in Payload /\ Len(q) \in Nat /\ Len(Tail(q)) = Len(q) - 1
  BY <1>1, HeadTail
<1>3. queuedPayloads' = Tail(q) /\ currentQueuedSize' = currentQueuedSize - Head(q).size
  BY DEF RemoveFront
<1>4. Head(q).size \in Nat
  BY <1>2, SizesAreNat
<1>5. SumFunction(SizesOf(Tail(q))) = SumFunction(SizesOf(q)) - Head(q).size
  BY <1>1, SizesType, SizesTail, SumTail
<1>6. currentQueuedSize' = SumFunction(SizesOf(queuedPayloads'))
  BY <1>3, <1>5 DEF QueueWithinLimits
<1>7. LimitsRespected'
  BY <1>1, <1>2, <1>3, <1>4, ConfAssumption DEF QueueWithinLimits, LimitsRespected
<1> QED
  BY <1>6, <1>7 DEF QueueWithinLimits

\* enqueue appends a payload only when there is room, and counts its bytes.
LEMMA SizePush ==
  ASSUME TypeOK, QueueWithinLimits, inHand \in Payload, ~TooBig(inHand), ~MustDrop,
         queuedPayloads' = Append(queuedPayloads, inHand),
         currentQueuedSize' = currentQueuedSize + inHand.size
  PROVE  QueueWithinLimits'
<1>1. queuedPayloads \in Seq(Payload) /\ currentQueuedSize \in Int
  BY DEF TypeOK
<1>2. Len(queuedPayloads) \in Nat /\ Len(queuedPayloads') = Len(queuedPayloads) + 1
  BY <1>1
<1>3. inHand.size \in Nat
  BY SizesAreNat
<1>4. SumFunction(SizesOf(queuedPayloads')) = SumFunction(SizesOf(queuedPayloads)) + inHand.size
  <2>1. SizesOf(queuedPayloads) \in Seq(Int) /\ inHand.size \in Int
    BY <1>1, <1>3, SizesType
  <2> QED
    BY <1>1, <2>1, SizesAppend, SumAppend
<1>5. currentQueuedSize' = SumFunction(SizesOf(queuedPayloads'))
  BY <1>4 DEF QueueWithinLimits
<1>6. MaxQueuedPayloads > 0 => Len(queuedPayloads) < MaxQueuedPayloads
  BY <1>2, ConfAssumption DEF MustDrop, TooManyQueued
<1>7. MaxQueuedBytes > 0 => currentQueuedSize + inHand.size <= MaxQueuedBytes
  BY <1>1, <1>3, ConfAssumption DEF MustDrop, NoSpaceFor
<1>8. LimitsRespected'
  BY <1>1, <1>2, <1>3, <1>6, <1>7, ConfAssumption DEF LimitsRespected
<1> QED
  BY <1>5, <1>8 DEF QueueWithinLimits

\* The empty queue of a fresh sender.
LEMMA InitSize == Init => QueueWithinLimits
<1> SUFFICES ASSUME Init PROVE QueueWithinLimits
  OBVIOUS
<1>1. queuedPayloads = <<>> /\ currentQueuedSize = 0 /\ Len(queuedPayloads) = 0
  BY DEF Init
<1>2. SizesOf(<<>>) = <<>>
  BY DEF SizesOf
<1> QED
  BY <1>1, <1>2, SumEmptySeq, ConfAssumption DEF QueueWithinLimits, LimitsRespected

\* Every step keeps the byte count exact and the queue within its limits.
LEMMA NextSize == TypeInv /\ QueueWithinLimits /\ [Next]_vars => QueueWithinLimits'
<1> SUFFICES ASSUME TypeInv, QueueWithinLimits, [Next]_vars PROVE QueueWithinLimits'
  OBVIOUS
<1>0. TypeOK /\ HandInv
  BY DEF TypeInv
<1> USE <1>0 DEF payloadVars, timerVars, queueVars
<1>1. CASE DiscardOld \/ DropOldest \/ FlushSucceeds \/ FlushFails
  <2>1. queuedPayloads # <<>> /\ RemoveFront
    BY <1>1 DEF DiscardOld, OldInFront, DropOldest, FlushSucceeds, FlushFails
  <2> QED
    BY <2>1, SizeRemove
<1>2. CASE PushBack
  <2>1. pc = "makeRoom"
    BY <1>2 DEF PushBack, At
  <2>2. inHand \in Payload
    BY <2>1 DEF HandInv
  <2> QED
    BY <1>2, <2>2, SizePush DEF PushBack, QueueBehind
<1>3. \/ UNCHANGED <<queuedPayloads, currentQueuedSize>>
      \/ DiscardOld \/ DropOldest \/ FlushSucceeds \/ FlushFails \/ PushBack
  BY DEF Next, vars, Sender, ClockTick, Send, MonitorReceive, StopCloseExit, StopWait,
         TimerFires, RunBegin, ReceivePayload, ReceiveTick, ReceiveExit, SendSucceeds,
         SendFails, SendIsRetriable, Enqueue, DiscardEnds, RejectTooBig,
         FlushIsRetriable, FlushEnds, RunReturns
<1> QED
  BY <1>1, <1>2, <1>3, SizeUnchanged

\* The byte count is exact in every reachable state.
LEMMA SizeInvariant == Spec => [](TypeInv /\ QueueWithinLimits)
<1>1. Init => TypeInv /\ QueueWithinLimits
  BY InitTypeInv, InitSize
<1>2. TypeInv /\ QueueWithinLimits /\ [Next]_vars => (TypeInv /\ QueueWithinLimits)'
  BY NextTypeInv, NextSize
<1> QED
  BY <1>1, <1>2, PTL DEF Spec

\* The running count of bytes is the size of the queue, and the queue never
\* exceeds MaxQueuedPayloads or MaxQueuedBytes, not even while enqueue makes room.
THEOREM LimitsCorrect == Spec => []QueueWithinLimits
  BY SizeInvariant, PTL

\* Neither panic of enqueue is reachable: when it has to drop a payload, there
\* is one.  An empty queue counts no bytes, so a payload that is not too big for
\* the queue fits into it.
THEOREM NoPanic == Spec => []EnqueueNeverPanics
<1>1. TypeInv /\ QueueWithinLimits => EnqueueNeverPanics
  <2> SUFFICES ASSUME TypeInv, QueueWithinLimits, At("makeRoom"), queuedPayloads = <<>>
               PROVE  ~MustDrop
    BY DEF EnqueueNeverPanics
  <2>1. currentQueuedSize = 0 /\ Len(queuedPayloads) = 0
    BY EmptyCountsNothing
  <2>2. inHand \in Payload
    BY DEF TypeInv, HandInv, At
  <2>3. inHand.size \in Nat
    BY <2>2, SizesAreNat
  <2>4. ~TooManyQueued
    BY <2>1, ConfAssumption DEF TooManyQueued
  <2>5. NoSpaceFor(inHand) => TooBig(inHand)
    BY <2>1, <2>3, ConfAssumption DEF NoSpaceFor, TooBig
  <2> QED
    BY <2>4, <2>5 DEF MustDrop
<1> QED
  BY <1>1, SizeInvariant, PTL
-----------------------------------------------------------------------------
(***************************************************************************)
(* Accounting.  A payload that Run has taken is held in exactly one place, *)
(* and a payload that it has not taken is held nowhere; the second half is *)
(* what makes AccountedOnce inductive.  The hand is empty between two      *)
(* calls of sendOrQueue, so receiving a payload or flushing the queue      *)
(* overwrites none.  Stop returns early only when nothing was ever sent.   *)
(***************************************************************************)
Held(i) == One(inHand.id = i) + One(Queued(i)) + One(Ended(i)) + terminal[i]

\* Between two calls of sendOrQueue.
HandFree ==
    \/ pc \in {"starting", "select", "flush", "return", "done"}
    \/ pc = "discard" /\ then # "makeRoom"

HandFreeInv == HandFree => inHand = NoPayload

HeldInv == \A i \in Ids : Held(i) = One(i <= built /\ sending.id # i)

StopInv ==
    /\ event # NoEvent => event.id <= built
    /\ stop # "no" => sending = NoPayload
    /\ pc = "starting" => event = NoEvent /\ built = One(sending # NoPayload)
    /\ pc = "done" => event = NoEvent
    /\ stop = "stopped" => pc = "done" \/ built = 0

AccountInv == SenderInv /\ HandFreeInv /\ HeldInv /\ StopInv

\* sendOrQueue returns with its argument sent, queued or refused.
LEMMA NextHandFree == TypeInv /\ HandFreeInv /\ [Next]_vars => HandFreeInv'
<1> SUFFICES ASSUME TypeInv, HandFreeInv, [Next]_vars PROVE HandFreeInv'
  OBVIOUS
<1> USE DEF HandFreeInv, HandFree, TypeInv, HandInv, At, payloadVars, timerVars, queueVars
<1>1. CASE UNCHANGED <<pc, then, inHand>>
  BY <1>1
<1>2. CASE RunBegin \/ ReceivePayload \/ ReceiveTick \/ ReceiveExit
  BY <1>2 DEF RunBegin, ReceivePayload, ReceiveTick, ReceiveExit
<1>3. CASE SendSucceeds \/ SendFails \/ SendIsRetriable
  BY <1>3 DEF SendSucceeds, SendFails, SendIsRetriable
<1>4. CASE Enqueue \/ DiscardEnds \/ RejectTooBig \/ PushBack
  BY <1>4 DEF Enqueue, DiscardEnds, RejectTooBig, PushBack
<1>5. CASE FlushIsRetriable \/ FlushEnds \/ RunReturns
  BY <1>5 DEF FlushIsRetriable, FlushEnds, RunReturns, AfterFlush
<1>6. \/ UNCHANGED <<pc, then, inHand>>
      \/ RunBegin \/ ReceivePayload \/ ReceiveTick \/ ReceiveExit
      \/ SendSucceeds \/ SendFails \/ SendIsRetriable
      \/ Enqueue \/ DiscardEnds \/ RejectTooBig \/ PushBack
      \/ FlushIsRetriable \/ FlushEnds \/ RunReturns
  BY DEF Next, vars, Sender, ClockTick, Send, MonitorReceive, StopCloseExit, StopWait,
         TimerFires, DiscardOld, DropOldest, FlushSucceeds, FlushFails
<1> QED
  BY <1>1, <1>2, <1>3, <1>4, <1>5, <1>6

\* The ids of the payloads, and the id of none.
LEMMA PayloadIds ==
  ASSUME TypeOK
  PROVE  /\ \A i \in Ids : i \in Nat \ {0}
         /\ \A p \in Payload : p.id \in Ids /\ p # NoPayload
         /\ NoPayload.id = 0
         /\ sending # NoPayload => sending.id \in Ids
         /\ inHand # NoPayload => inHand.id \in Ids
         /\ \A k \in DOMAIN queuedPayloads : queuedPayloads[k].id \in Ids
         /\ event # NoEvent => event.id \in Ids
         /\ NoEvent.id = 0
<1>1. /\ \A i \in Ids : i \in Nat \ {0}
      /\ NoPayload.id = 0
      /\ NoEvent.id = 0
  BY ConfAssumption DEF Ids, NoPayload, NoEvent
<1>2. \A p \in Payload : p.id \in Ids
  BY DEF Payload
<1>3. \A p \in Payload : p # NoPayload
  BY <1>1, <1>2
<1>4. /\ sending # NoPayload => sending \in Payload
      /\ inHand # NoPayload => inHand \in Payload
      /\ queuedPayloads \in Seq(Payload)
  BY DEF TypeOK
<1>5. \A k \in DOMAIN queuedPayloads : queuedPayloads[k] \in Payload
  BY <1>4
<1>6. event # NoEvent => event.id \in Ids
  BY DEF TypeOK, Event
<1> QED
  BY <1>1, <1>2, <1>3, <1>4, <1>5, <1>6

\* removeQueuedPayload takes the front out of the queue, and nothing else.
LEMMA QueuedRemove ==
  ASSUME TypeOK, OrderInv, queuedPayloads # <<>>, RemoveFront
  PROVE  /\ Queued(Head(queuedPayloads).id)
         /\ \A i : Queued(i)' <=> Queued(i) /\ i # Head(queuedPayloads).id
<1> USE OrderTypes, BehindFront
<1>1. queuedPayloads' = Tail(queuedPayloads)
  BY DEF RemoveFront
<1>2. Queued(Head(queuedPayloads).id)
  BY DEF Queued
<1>3. ASSUME NEW i, Queued(i)' PROVE Queued(i) /\ i # Head(queuedPayloads).id
  <2>1. PICK k \in DOMAIN Tail(queuedPayloads) : Tail(queuedPayloads)[k].id = i
    BY <1>1, <1>3 DEF Queued
  <2>2. k + 1 \in DOMAIN queuedPayloads /\ 1 < k + 1 /\ queuedPayloads[k + 1].id = i
    BY <2>1
  <2>3. queuedPayloads[1].id < queuedPayloads[k + 1].id
    BY <2>2 DEF OrderInv, Ordered
  <2> QED
    BY <2>2, <2>3 DEF Queued
<1>4. ASSUME NEW i, Queued(i), i # Head(queuedPayloads).id PROVE Queued(i)'
  <2>1. PICK k \in DOMAIN queuedPayloads : queuedPayloads[k].id = i
    BY <1>4 DEF Queued
  <2>2. k # 1 /\ k \in 1 .. Len(queuedPayloads) /\ Len(queuedPayloads) \in Nat
    BY <1>4, <2>1
  <2>3. queuedPayloads \in Seq(Payload)
    BY DEF TypeOK
  <2>4. DOMAIN Tail(queuedPayloads) = 1 .. Len(queuedPayloads) - 1
    BY <2>3, HeadTail
  <2>5. k - 1 \in DOMAIN Tail(queuedPayloads)
    BY <2>2, <2>4
  <2>6. Tail(queuedPayloads)[k - 1] = queuedPayloads[k - 1 + 1] /\ k - 1 + 1 = k
    BY <2>2, <2>5
  <2> QED
    BY <1>1, <2>1, <2>5, <2>6 DEF Queued
<1> QED
  BY <1>2, <1>3, <1>4

\* enqueue adds the payload in hand, which was not queued.
LEMMA QueuedPush ==
  ASSUME TypeOK, OrderInv, inHand \in Payload,
         queuedPayloads' = Append(queuedPayloads, inHand)
  PROVE  /\ ~Queued(inHand.id)
         /\ \A i : Queued(i)' <=> Queued(i) \/ i = inHand.id
<1> DEFINE n == Len(queuedPayloads)
<1> USE OrderTypes, PayloadIds
<1>1. queuedPayloads \in Seq(Payload) /\ n \in Nat
  BY DEF TypeOK
<1>2. /\ DOMAIN queuedPayloads = 1 .. n
      /\ DOMAIN queuedPayloads' = 1 .. n + 1
      /\ queuedPayloads'[n + 1] = inHand
      /\ \A k \in 1 .. n : queuedPayloads'[k] = queuedPayloads[k]
  BY <1>1
<1> HIDE DEF n
<1>3. \A k \in 1 .. n + 1 : k \in 1 .. n \/ k = n + 1
  BY <1>1
<1>4. n + 1 \in 1 .. n + 1 /\ \A k \in 1 .. n : k \in 1 .. n + 1
  BY <1>1
<1>5. ~Queued(inHand.id)
  BY DEF Queued, OrderInv, Follows
<1> QED
  BY <1>2, <1>3, <1>4, <1>5 DEF Queued

\* An event that settles payload i, sent when none was on its way.
LEMMA SettledEvent ==
  ASSUME TypeOK, event = NoEvent, NEW i \in Ids, NEW kind \in {"success", "failure"},
         Notify(kind, i)
  PROVE  \A j \in Ids : ~Ended(j) /\ (Ended(j)' <=> j = i)
  BY PayloadIds DEF Ended, Notify, NoEvent

\* A retry event settles nothing.
LEMMA RetryEvent ==
  ASSUME TypeOK, event = NoEvent, NEW i, Notify("retry", i)
  PROVE  \A j \in Ids : ~Ended(j) /\ ~Ended(j)'
  BY PayloadIds DEF Ended, Notify, NoEvent

\* The front of the queue is settled.
LEMMA HeldFrontSettled ==
  ASSUME TypeOK, OrderInv, HeldInv, queuedPayloads # <<>>, RemoveFront, event = NoEvent,
         NEW kind \in {"success", "failure"}, Notify(kind, Head(queuedPayloads).id),
         UNCHANGED <<built, sending, inHand, terminal>>
  PROVE  HeldInv'
<1> DEFINE h == Head(queuedPayloads).id
<1>1. h \in Ids
  BY Front
<1>2. Queued(h) /\ \A i : Queued(i)' <=> Queued(i) /\ i # h
  BY QueuedRemove
<1>3. \A j \in Ids : ~Ended(j) /\ (Ended(j)' <=> j = h)
  BY <1>1, SettledEvent
<1> HIDE DEF h
<1>4. terminal \in [Ids -> Nat]
  BY DEF TypeOK
<1> QED
  BY <1>2, <1>3, <1>4 DEF HeldInv, Held, One

\* The payload in hand is settled.
LEMMA HeldHandSettled ==
  ASSUME TypeOK, HeldInv, inHand \in Payload, event = NoEvent, inHand' = NoPayload,
         NEW kind \in {"success", "failure"}, Notify(kind, inHand.id),
         UNCHANGED <<built, sending, queuedPayloads, terminal>>
  PROVE  HeldInv'
<1>1. inHand.id \in Ids /\ \A i \in Ids : inHand'.id # i
  BY PayloadIds
<1>2. \A j \in Ids : ~Ended(j) /\ (Ended(j)' <=> j = inHand.id)
  BY <1>1, SettledEvent
<1>3. \A i : Queued(i)' <=> Queued(i)
  BY DEF Queued
<1>4. terminal \in [Ids -> Nat]
  BY DEF TypeOK
<1> QED
  BY <1>1, <1>2, <1>3, <1>4 DEF HeldInv, Held, One

\* A step that moves no payload and settles none.
LEMMA HeldUnchanged ==
  ASSUME HeldInv, UNCHANGED <<built, sending, inHand, queuedPayloads, terminal>>,
         \A j \in Ids : Ended(j)' <=> Ended(j)
  PROVE  HeldInv'
<1>1. \A i : Queued(i)' <=> Queued(i)
  BY DEF Queued
<1> QED
  BY <1>1 DEF HeldInv, Held, One

\* Every step keeps every payload in exactly one place.
LEMMA NextHeld ==
    SenderInv /\ HandFreeInv /\ HeldInv /\ [Next]_vars => HeldInv'
<1> SUFFICES ASSUME SenderInv, HandFreeInv, HeldInv, [Next]_vars PROVE HeldInv'
  OBVIOUS
<1>0. TypeOK /\ HandInv /\ OrderInv
  BY DEF SenderInv, TypeInv
<1>t. terminal \in [Ids -> Nat] /\ built \in Int
  BY <1>0, OrderTypes DEF TypeOK
<1> USE <1>0 DEF payloadVars, timerVars, queueVars
<1>1. CASE UNCHANGED <<built, sending, inHand, queuedPayloads, terminal, event>>
  <2>1. \A j \in Ids : Ended(j)' <=> Ended(j)
    BY <1>1 DEF Ended
  <2> QED
    BY <1>1, <2>1, HeldUnchanged
<1>2. ASSUME NEW size \in Sizes, Send(size) PROVE HeldInv'
  <2>1. /\ sending'.id = built + 1 /\ built' = built + 1 /\ sending = NoPayload
        /\ UNCHANGED <<inHand, queuedPayloads, terminal, event>>
    BY <1>2 DEF Send
  <2>2. \A i : (Queued(i)' <=> Queued(i)) /\ (Ended(i)' <=> Ended(i))
    BY <2>1 DEF Queued, Ended
  <2>3. ASSUME NEW i \in Ids
        PROVE  (i <= built' /\ sending'.id # i) <=> (i <= built /\ sending.id # i)
    BY <1>t, <2>1, PayloadIds
  <2>4. \A i \in Ids : Held(i)' = Held(i)
    BY <2>1, <2>2 DEF Held, One
  <2> QED
    BY <2>3, <2>4 DEF HeldInv, One
<1>3. CASE MonitorReceive
  <2>1. /\ event # NoEvent /\ event' = NoEvent
        /\ terminal' = IF event.kind = "retry" THEN terminal
                       ELSE [terminal EXCEPT ![event.id] = @ + 1]
        /\ UNCHANGED <<built, sending, inHand, queuedPayloads>>
    BY <1>3 DEF MonitorReceive
  <2>2. event.id \in Ids /\ event.kind \in Kinds
    BY <2>1 DEF TypeOK, Event
  <2>3. \A i : Queued(i)' <=> Queued(i)
    BY <2>1 DEF Queued
  <2>4. \A i \in Ids : ~Ended(i)'
    BY <2>1 DEF Ended, NoEvent
  <2>5. \A i \in Ids : terminal'[i] = terminal[i] + One(Ended(i))
    BY <1>t, <2>1, <2>2 DEF Ended, Kinds, One
  <2>6. \A i \in Ids : terminal'[i] \in Nat /\ Held(i)' = Held(i)
    BY <1>t, <2>1, <2>3, <2>4, <2>5 DEF Held, One
  <2> QED
    BY <2>1, <2>6 DEF HeldInv
<1>4. CASE ReceivePayload
  <2>1. /\ pc = "select" /\ sending # NoPayload /\ inHand' = sending /\ sending' = NoPayload
        /\ UNCHANGED <<built, queuedPayloads, terminal, event>>
    BY <1>4 DEF ReceivePayload, At
  <2>2. inHand = NoPayload
    BY <2>1 DEF HandFreeInv, HandFree
  <2>3. \A i : (Queued(i)' <=> Queued(i)) /\ (Ended(i)' <=> Ended(i))
    BY <2>1 DEF Queued, Ended
  <2>4. sending.id = built /\ sending.id \in Ids
    BY <2>1, PayloadIds DEF OrderInv
  <2>5. ASSUME NEW i \in Ids
        PROVE  Held(i)' = One(i <= built' /\ sending'.id # i)
    <3>1. inHand.id # i /\ sending'.id # i
      BY <2>1, <2>2, PayloadIds
    <3>2. Held(i) = One(i <= built /\ sending.id # i)
      BY DEF HeldInv
    <3>3. terminal[i] \in Nat /\ i \in Int
      BY <1>t, PayloadIds
    <3> QED
      BY <1>t, <2>1, <2>3, <2>4, <3>1, <3>2, <3>3 DEF Held, One
  <2> QED
    BY <2>5 DEF HeldInv
<1>5. CASE SendSucceeds \/ SendFails \/ RejectTooBig
  <2>1. pc \in {"send", "makeRoom"} /\ event = NoEvent /\ inHand' = NoPayload
        /\ UNCHANGED <<built, sending, queuedPayloads, terminal>>
    BY <1>5 DEF SendSucceeds, SendFails, RejectTooBig, At
  <2>2. inHand \in Payload
    BY <2>1 DEF HandInv
  <2>3. Notify("success", inHand.id) \/ Notify("failure", inHand.id)
    BY <1>5 DEF SendSucceeds, SendFails, RejectTooBig
  <2> QED
    BY <2>1, <2>2, <2>3, HeldHandSettled
<1>6. CASE SendIsRetriable \/ FlushIsRetriable
  <2>1. event = NoEvent /\ UNCHANGED <<built, sending, inHand, queuedPayloads, terminal>>
    BY <1>6 DEF SendIsRetriable, FlushIsRetriable, At
  <2>2. \E i : Notify("retry", i)
    BY <1>6 DEF SendIsRetriable, FlushIsRetriable
  <2> QED
    BY <2>1, <2>2, RetryEvent, HeldUnchanged
<1>7. CASE DiscardOld \/ DropOldest \/ FlushSucceeds \/ FlushFails
  <2>1. /\ queuedPayloads # <<>> /\ RemoveFront /\ event = NoEvent
        /\ UNCHANGED <<built, sending, inHand, terminal>>
    BY <1>7 DEF DiscardOld, OldInFront, DropOldest, FlushSucceeds, FlushFails, At
  <2>2. \/ Notify("success", Head(queuedPayloads).id)
        \/ Notify("failure", Head(queuedPayloads).id)
    BY <1>7 DEF DiscardOld, DropOldest, FlushSucceeds, FlushFails
  <2> QED
    BY <2>1, <2>2, HeldFrontSettled
<1>8. CASE PushBack
  <2>1. /\ pc = "makeRoom" /\ queuedPayloads' = Append(queuedPayloads, inHand)
        /\ inHand' = NoPayload /\ UNCHANGED <<built, sending, terminal, event>>
    BY <1>8 DEF PushBack, QueueBehind, At
  <2>2. inHand \in Payload
    BY <2>1 DEF HandInv
  <2>3. ~Queued(inHand.id) /\ \A i : Queued(i)' <=> Queued(i) \/ i = inHand.id
    BY <2>1, <2>2, QueuedPush
  <2>4. \A i : Ended(i)' <=> Ended(i)
    BY <2>1 DEF Ended
  <2>5. \A i \in Ids : inHand'.id # i
    BY <2>1, PayloadIds
  <2>6. \A i \in Ids : terminal[i] \in Nat /\ Held(i)' = Held(i)
    BY <1>t, <2>1, <2>3, <2>4, <2>5 DEF Held, One
  <2> QED
    BY <2>1, <2>6 DEF HeldInv
<1>9. \/ UNCHANGED <<built, sending, inHand, queuedPayloads, terminal, event>>
      \/ \E size \in Sizes : Send(size)
      \/ MonitorReceive \/ ReceivePayload
      \/ SendSucceeds \/ SendFails \/ RejectTooBig
      \/ SendIsRetriable \/ FlushIsRetriable
      \/ DiscardOld \/ DropOldest \/ FlushSucceeds \/ FlushFails
      \/ PushBack
  BY DEF Next, vars, Sender, ClockTick, StopCloseExit, StopWait, TimerFires, RunBegin,
         ReceiveTick, ReceiveExit, Enqueue, DiscardEnds, FlushEnds, RunReturns
<1> QED
  BY <1>1, <1>2, <1>3, <1>4, <1>5, <1>6, <1>7, <1>8, <1>9

\* Stop may overtake the start of Run only when nothing was sent.
LEMMA NextStop == SenderInv /\ StopInv /\ [Next]_vars => StopInv'
<1> SUFFICES ASSUME SenderInv, StopInv, [Next]_vars PROVE StopInv'
  OBVIOUS
<1>0. TypeOK /\ HandInv /\ OrderInv
  BY DEF SenderInv, TypeInv
<1>t. built \in Nat
  BY <1>0, ConfAssumption DEF TypeOK
<1> USE <1>0, <1>t DEF StopInv, payloadVars, timerVars, queueVars, At
<1>1. CASE UNCHANGED <<pc, built, sending, event, stop>>
  BY <1>1
<1>2. ASSUME NEW size \in Sizes, Send(size) PROVE StopInv'
  <2>1. /\ sending'.id = built + 1 /\ built' = built + 1 /\ sending = NoPayload /\ stop = "no"
        /\ UNCHANGED <<pc, event, stop>>
    BY <1>2 DEF Send
  <2>2. sending' # NoPayload
    BY <2>1 DEF NoPayload
  <2>3. event # NoEvent => event.id \in Int
    BY PayloadIds
  <2> QED
    BY <2>1, <2>2, <2>3 DEF One
<1>3. CASE MonitorReceive \/ StopCloseExit \/ StopWait
  BY <1>3 DEF MonitorReceive, StopCloseExit, StopWait, One
<1>4. CASE RunBegin \/ ReceivePayload \/ ReceiveTick \/ ReceiveExit
  BY <1>4 DEF RunBegin, ReceivePayload, ReceiveTick, ReceiveExit
<1>5. CASE SendSucceeds \/ SendFails \/ RejectTooBig \/ SendIsRetriable
  <2>1. /\ pc \in {"send", "makeRoom"} /\ event'.id = inHand.id /\ pc' \in {"select", "enqueue"}
        /\ UNCHANGED <<built, sending, stop>>
    BY <1>5 DEF SendSucceeds, SendFails, RejectTooBig, SendIsRetriable, Notify
  <2>2. inHand \in Payload
    BY <2>1 DEF HandInv
  <2>3. inHand.id <= built
    BY <2>2, PayloadIds DEF OrderInv, Accepted
  <2> QED
    BY <2>1, <2>3
<1>6. CASE DiscardOld \/ DropOldest \/ FlushSucceeds \/ FlushFails \/ FlushIsRetriable
  <2>1. /\ queuedPayloads # <<>> /\ event'.id = Head(queuedPayloads).id
        /\ pc \in {"discard", "makeRoom", "flush"}
        /\ pc' \in {"discard", "makeRoom", "flush", "select", "return"}
        /\ UNCHANGED <<built, sending, stop>>
    BY <1>6 DEF DiscardOld, OldInFront, DropOldest, FlushSucceeds, FlushFails,
                FlushIsRetriable, AfterFlush, Notify
  <2>2. Head(queuedPayloads).id <= built
    BY <2>1, BehindFront DEF OrderInv, Accepted
  <2> QED
    BY <2>1, <2>2
<1>7. CASE Enqueue \/ DiscardEnds \/ PushBack \/ FlushEnds \/ RunReturns
  BY <1>7 DEF Enqueue, DiscardEnds, PushBack, FlushEnds, RunReturns, AfterFlush
<1>8. \/ UNCHANGED <<pc, built, sending, event, stop>>
      \/ \E size \in Sizes : Send(size)
      \/ MonitorReceive \/ StopCloseExit \/ StopWait
      \/ RunBegin \/ ReceivePayload \/ ReceiveTick \/ ReceiveExit
      \/ SendSucceeds \/ SendFails \/ RejectTooBig \/ SendIsRetriable
      \/ DiscardOld \/ DropOldest \/ FlushSucceeds \/ FlushFails \/ FlushIsRetriable
      \/ Enqueue \/ DiscardEnds \/ PushBack \/ FlushEnds \/ RunReturns
  BY DEF Next, vars, Sender, ClockTick, TimerFires
<1> QED
  BY <1>1, <1>2, <1>3, <1>4, <1>5, <1>6, <1>7, <1>8

\* The accounting of a sender that Start has just launched.
LEMMA InitAccount == Init => HandFreeInv /\ HeldInv /\ StopInv
<1> SUFFICES ASSUME Init PROVE HandFreeInv /\ HeldInv /\ StopInv
  OBVIOUS
<1>1. HandFreeInv /\ StopInv
  BY DEF Init, HandFreeInv, StopInv, One
<1>2. TypeOK
  BY InitTypeInv DEF TypeInv
<1>3. ASSUME NEW i \in Ids PROVE Held(i) = One(i <= built /\ sending.id # i)
  <2>1. ~Queued(i)
    BY DEF Init, Queued
  <2>2. ~Ended(i)
    BY DEF Init, Ended, NoEvent
  <2>3. i \in Nat \ {0} /\ inHand.id # i /\ ~(i <= built) /\ terminal[i] = 0
    BY <1>2, PayloadIds DEF Init
  <2> QED
    BY <2>1, <2>2, <2>3 DEF Held, One
<1> QED
  BY <1>1, <1>3 DEF HeldInv

\* The accounting holds in every reachable state.
LEMMA AccountInvariant == Spec => []AccountInv
<1>1. Init => AccountInv
  BY InitAccount, InitTypeInv, InitRetryInv, InitOrderInv DEF AccountInv, SenderInv
<1>2. AccountInv /\ [Next]_vars => AccountInv'
  <2> SUFFICES ASSUME AccountInv, [Next]_vars PROVE AccountInv'
    OBVIOUS
  <2>1. SenderInv /\ HandFreeInv /\ HeldInv /\ StopInv
    BY DEF AccountInv
  <2>2. SenderInv'
    BY <2>1, NextTypeInv, NextRetryInv, NextOrderInv DEF SenderInv
  <2>3. HandFreeInv'
    BY <2>1, NextHandFree DEF SenderInv
  <2> QED
    BY <2>1, <2>2, <2>3, NextHeld, NextStop DEF AccountInv
<1> QED
  BY <1>1, <1>2, PTL DEF Spec

\* Every payload that entered Run is in exactly one place: in hand, in the
\* queue, or settled by one success or failure event; nothing is reported after
\* Stop has returned, and a sender that sent anything has then finished Run.
THEOREM AccountCorrect == Spec => []AccountedOnce
<1>1. AccountInv => AccountedOnce
  <2> SUFFICES ASSUME AccountInv PROVE AccountedOnce
    OBVIOUS
  <2>1. TypeOK
    BY DEF AccountInv, SenderInv, TypeInv
  <2>2. built \in 0 .. MaxPayloads
    BY <2>1 DEF TypeOK
  <2>3. ASSUME NEW i \in 1 .. built, sending.id # i
        PROVE  One(inHand.id = i) + One(Queued(i)) + One(Ended(i)) + terminal[i] = 1
    <3>1. i \in Ids /\ i <= built
      BY <2>2, ConfAssumption DEF Ids
    <3>2. Held(i) = 1
      BY <2>3, <3>1 DEF AccountInv, HeldInv, One
    <3> QED
      BY <3>2 DEF Held
  <2>4. event # NoEvent => event.id \in Nat \ {0}
    BY <2>1, PayloadIds
  <2>5. stop = "stopped" => event = NoEvent /\ (built > 0 => pc = "done")
    BY <2>2, <2>4, ConfAssumption DEF AccountInv, StopInv
  <2> QED
    BY <2>3, <2>5 DEF AccountedOnce
<1> QED
  BY <1>1, AccountInvariant, PTL
-----------------------------------------------------------------------------
(***************************************************************************)
(* Refinement.  The ledger's pending payloads are the queue and the hand;  *)
(* the front of the queue is the oldest of them, and the payload in hand   *)
(* the newest.                                                             *)
(***************************************************************************)

\* The front of the queue is the oldest pending payload.
LEMMA FrontIsOldest ==
  ASSUME TypeOK, OrderInv, queuedPayloads # <<>>
  PROVE  Ledger!Oldest(Head(queuedPayloads).id)
<1> DEFINE h == Head(queuedPayloads).id
<1> USE OrderTypes, BehindFront
<1>1. h \in Ids /\ Queued(h) /\ h = queuedPayloads[1].id
  BY Front DEF Queued
<1>2. ASSUME NEW i \in Ids, Queued(i) PROVE h <= i
  <2>1. PICK k \in DOMAIN queuedPayloads : queuedPayloads[k].id = i
    BY <1>2 DEF Queued
  <2>2. k = 1 \/ 1 < k
    OBVIOUS
  <2> QED
    BY <1>1, <2>1, <2>2 DEF OrderInv, Ordered
<1>3. ASSUME NEW i \in Ids, inHand.id = i PROVE h <= i
  <2>1. inHand # NoPayload
    BY <1>3, PayloadIds
  <2> QED
    BY <1>1, <1>3, <2>1 DEF OrderInv, Follows
<1> HIDE DEF h
<1>4. h \in PendingIds /\ \A j \in PendingIds : h <= j
  BY <1>1, <1>2, <1>3 DEF PendingIds
<1> QED
  BY <1>4 DEF Ledger!Oldest, h

\* The payload in hand is the newest pending payload.
LEMMA HandIsNewest ==
  ASSUME TypeOK, OrderInv, inHand \in Payload
  PROVE  Ledger!Newest(inHand.id)
<1> USE OrderTypes, PayloadIds
<1>1. inHand.id \in PendingIds
  BY DEF PendingIds
<1>2. \A j \in PendingIds : j <= inHand.id
  BY DEF PendingIds, Queued, OrderInv, Follows
<1> QED
  BY <1>1, <1>2 DEF Ledger!Newest

\* A payload that is sent directly is the only pending one.
LEMMA HandIsOldest ==
  ASSUME TypeOK, OrderInv, inHand \in Payload, queuedPayloads = <<>>
  PROVE  PendingIds = {inHand.id} /\ Ledger!Oldest(inHand.id)
<1> USE PayloadIds
<1>1. \A i : ~Queued(i)
  BY DEF Queued
<1>2. inHand.id \in Nat
  OBVIOUS
<1>3. PendingIds = {inHand.id}
  BY <1>1 DEF PendingIds
<1> QED
  BY <1>2, <1>3 DEF Ledger!Oldest

\* The step of the ledger for each step of the sender.
LEMMA LedgerStep ==
  AccountInv /\ [Next]_vars => [Ledger!Next]_<<AcceptedCount, PendingIds, received>>
<1> SUFFICES ASSUME AccountInv, [Next]_vars
             PROVE  Ledger!Next \/ UNCHANGED <<AcceptedCount, PendingIds, received>>
  OBVIOUS
<1>0. TypeOK /\ HandInv /\ RetryInv /\ OrderInv /\ HandFreeInv
  BY DEF AccountInv, SenderInv, TypeInv
<1> USE <1>0, OrderTypes DEF payloadVars, timerVars, queueVars
<1>a. UNCHANGED <<built, sending>> => UNCHANGED AcceptedCount
  BY DEF AcceptedCount
<1>b. UNCHANGED <<queuedPayloads, inHand>> => UNCHANGED PendingIds
  BY DEF PendingIds, Queued
<1>1. CASE UNCHANGED <<built, sending, inHand, queuedPayloads, received>>
  BY <1>1, <1>a, <1>b
<1>2. ASSUME NEW size \in Sizes, Send(size)
      PROVE  UNCHANGED <<AcceptedCount, PendingIds, received>>
  <2>1. /\ sending'.id = built + 1 /\ built' = built + 1 /\ sending = NoPayload
        /\ UNCHANGED <<inHand, queuedPayloads, received>>
    BY <1>2 DEF Send
  <2>2. sending' # NoPayload
    BY <2>1, PayloadIds DEF TypeOK
  <2> QED
    BY <1>b, <2>1, <2>2 DEF AcceptedCount, One
<1>3. CASE ReceivePayload
  <2>1. /\ pc = "select" /\ sending # NoPayload /\ inHand' = sending /\ sending' = NoPayload
        /\ UNCHANGED <<built, queuedPayloads, received>>
    BY <1>3 DEF ReceivePayload, At
  <2>2. inHand = NoPayload
    BY <2>1 DEF HandFreeInv, HandFree
  <2>3. sending.id = built /\ sending.id \in Ids
    BY <2>1, PayloadIds DEF OrderInv
  <2>4. AcceptedCount' = AcceptedCount + 1 /\ AcceptedCount + 1 = built
    BY <2>1 DEF AcceptedCount, One
  <2>5. \A i : Queued(i)' <=> Queued(i)
    BY <2>1 DEF Queued
  <2>6. PendingIds' = PendingIds \cup {built}
    BY <2>1, <2>2, <2>3, <2>5, PayloadIds DEF PendingIds
  <2> QED
    BY <2>1, <2>4, <2>6 DEF Ledger!Next, Ledger!Accept
<1>4. CASE SendSucceeds \/ SendFails
  <2>1. /\ pc = "send" /\ inHand' = NoPayload /\ received' \in {received, inHand.id}
        /\ UNCHANGED <<built, sending, queuedPayloads>>
    BY <1>4 DEF SendSucceeds, SendFails, WriteReaches, WriteMayReach, At
  <2>2. inHand \in Payload /\ queuedPayloads = <<>>
    BY <2>1 DEF HandInv, RetryInv, OrderInv
  <2>3. PendingIds = {inHand.id} /\ Ledger!Oldest(inHand.id)
    BY <2>2, HandIsOldest
  <2>4. PendingIds' = {}
    BY <2>1, <2>2, PayloadIds DEF PendingIds, Queued
  <2>5. Ledger!Settle(inHand.id)
    BY <1>a, <2>1, <2>3, <2>4 DEF Ledger!Settle
  <2> QED
    BY <2>3, <2>5 DEF Ledger!Next
<1>5. CASE SendIsRetriable
  <2>1. /\ pc = "send" /\ received' \in {received, inHand.id}
        /\ UNCHANGED <<built, sending, inHand, queuedPayloads>>
    BY <1>5 DEF SendIsRetriable, WriteMayReach, At
  <2>2. inHand \in Payload /\ queuedPayloads = <<>>
    BY <2>1 DEF HandInv, RetryInv, OrderInv
  <2>3. PendingIds = {inHand.id} /\ Ledger!Oldest(inHand.id)
    BY <2>2, HandIsOldest
  <2>4. received' = inHand.id => Ledger!Attempt(inHand.id)
    BY <1>a, <1>b, <2>1, <2>3 DEF Ledger!Attempt
  <2> QED
    BY <1>a, <1>b, <2>1, <2>3, <2>4 DEF Ledger!Next
<1>6. CASE DiscardOld \/ DropOldest \/ FlushSucceeds \/ FlushFails
  <2> DEFINE h == Head(queuedPayloads).id
  <2>1. /\ queuedPayloads # <<>> /\ RemoveFront /\ received' \in {received, h}
        /\ UNCHANGED <<built, sending, inHand>>
    BY <1>6 DEF DiscardOld, OldInFront, DropOldest, FlushSucceeds, FlushFails,
                WriteReaches, WriteMayReach
  <2>2. Queued(h) /\ \A i : Queued(i)' <=> Queued(i) /\ i # h
    BY <2>1, QueuedRemove
  <2>3. h \in Ids /\ Ledger!Oldest(h)
    BY <2>1, Front, FrontIsOldest
  <2>4. inHand.id # h
    <3>1. CASE inHand = NoPayload
      BY <2>3, <3>1, PayloadIds
    <3>2. CASE inHand # NoPayload
      BY <2>1, <3>2, BehindFront DEF OrderInv, Follows
    <3> QED
      BY <3>1, <3>2
  <2> HIDE DEF h
  <2>5. PendingIds' = PendingIds \ {h} /\ h \in PendingIds
    BY <2>1, <2>2, <2>3, <2>4 DEF PendingIds
  <2>6. Ledger!Settle(h)
    BY <1>a, <2>1, <2>3, <2>5 DEF Ledger!Settle
  <2> QED
    BY <2>5, <2>6 DEF Ledger!Next
<1>7. CASE FlushIsRetriable
  <2> DEFINE h == Head(queuedPayloads).id
  <2>1. /\ queuedPayloads # <<>> /\ received' \in {received, h}
        /\ UNCHANGED <<built, sending, inHand, queuedPayloads>>
    BY <1>7 DEF FlushIsRetriable, WriteMayReach
  <2>2. Ledger!Oldest(h)
    BY <2>1, FrontIsOldest
  <2> HIDE DEF h
  <2>3. received' = h => Ledger!Attempt(h)
    BY <1>a, <1>b, <2>1, <2>2 DEF Ledger!Attempt
  <2>4. h \in PendingIds
    BY <2>2 DEF Ledger!Oldest
  <2> QED
    BY <1>a, <1>b, <2>1, <2>3, <2>4 DEF Ledger!Next
<1>8. CASE RejectTooBig
  <2>1. /\ pc = "makeRoom" /\ inHand' = NoPayload
        /\ UNCHANGED <<built, sending, queuedPayloads, received>>
    BY <1>8 DEF RejectTooBig, At
  <2>2. inHand \in Payload
    BY <2>1 DEF HandInv
  <2>3. Ledger!Newest(inHand.id)
    BY <2>2, HandIsNewest
  <2>4. ~Queued(inHand.id) /\ \A i : Queued(i)' <=> Queued(i)
    BY <2>1, <2>2, PayloadIds DEF Queued, OrderInv, Follows
  <2>5. PendingIds' = PendingIds \ {inHand.id} /\ inHand.id \in PendingIds
    BY <2>1, <2>2, <2>4, PayloadIds DEF PendingIds
  <2>6. Ledger!GiveUp(inHand.id)
    BY <1>a, <2>1, <2>3, <2>5 DEF Ledger!GiveUp
  <2> QED
    BY <2>5, <2>6 DEF Ledger!Next
<1>9. CASE PushBack
  <2>1. /\ pc = "makeRoom" /\ queuedPayloads' = Append(queuedPayloads, inHand)
        /\ inHand' = NoPayload /\ UNCHANGED <<built, sending, received>>
    BY <1>9 DEF PushBack, QueueBehind, At
  <2>2. inHand \in Payload
    BY <2>1 DEF HandInv
  <2>3. \A i : Queued(i)' <=> Queued(i) \/ i = inHand.id
    BY <2>1, <2>2, QueuedPush
  <2>4. UNCHANGED PendingIds
    BY <2>1, <2>2, <2>3, PayloadIds DEF PendingIds
  <2> QED
    BY <1>a, <2>1, <2>4
<1>10. \/ UNCHANGED <<built, sending, inHand, queuedPayloads, received>>
       \/ \E size \in Sizes : Send(size)
       \/ ReceivePayload \/ SendSucceeds \/ SendFails \/ SendIsRetriable
       \/ DiscardOld \/ DropOldest \/ FlushSucceeds \/ FlushFails
       \/ FlushIsRetriable \/ RejectTooBig \/ PushBack
  BY DEF Next, vars, Sender, ClockTick, MonitorReceive, StopCloseExit, StopWait,
         TimerFires, RunBegin, ReceiveTick, ReceiveExit, Enqueue, DiscardEnds,
         FlushEnds, RunReturns
<1> QED
  BY <1>1, <1>2, <1>3, <1>4, <1>5, <1>6, <1>7, <1>8, <1>9, <1>10

\* The sender implements the ledger its writer relies on: payloads are settled
\* once, only the oldest pending one is attempted, and only the oldest (too old,
\* no room) or the newest one (too big to queue) is ever given up.
THEOREM LedgerImplemented == Spec => ImplementsLedger
<1>1. Init => Ledger!Init
  <2> SUFFICES ASSUME Init PROVE Ledger!Init
    OBVIOUS
  <2>1. TypeOK
    BY InitTypeInv DEF TypeInv
  <2>2. PendingIds = {}
    BY <2>1, PayloadIds DEF Init, PendingIds, Queued
  <2>3. AcceptedCount = 0
    BY DEF Init, AcceptedCount, One
  <2> QED
    BY <2>2, <2>3 DEF Init, Ledger!Init
<1>2. AccountInv /\ [Next]_vars => [Ledger!Next]_<<AcceptedCount, PendingIds, received>>
  BY LedgerStep
<1> QED
  BY <1>1, <1>2, AccountInvariant, PTL DEF Spec, ImplementsLedger, Ledger!Spec
=============================================================================
