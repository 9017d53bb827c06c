------------------------------ MODULE Shutdown ------------------------------
(***************************************************************************)
(* How the agent stops: the nine Stops of Agent.Run in their order, and    *)
(* the goroutines and channels on which they may block.                    *)
(*                                                                         *)
(*   - concentrator -> statsChan (no buffer) -> stats writer               *)
(*   - service mapper -> filteredServiceChan -> service writer             *)
(*   - every writer -> channel "in" (no buffer) -> its payload sender,     *)
(*     which takes what it is offered until it is stopped (PayloadSender)  *)
(*                                                                         *)
(* The goroutines of Process and the handlers that feed the trace writer   *)
(* and the mapper go on while the agent stops: there may be something on   *)
(* sampledTraceChan and on serviceChan at any time.  They are not waited   *)
(* for, save for the handlers until the deadline of Server.Shutdown.  What *)
(* travels is left out: of a message, only the room that it takes and      *)
(* whether it makes its receiver send on.                                  *)
(*                                                                         *)
(* Start launches a goroutine, and for all but the mapper it is this       *)
(* goroutine that enters the wait group of Stop: a Stop that comes first   *)
(* does not wait for it.                                                   *)
(***************************************************************************)
EXTENDS Naturals, Sequences

CONSTANT ChanCap    \* capacity of filteredServiceChan

ASSUME ChanCapAssumption == ChanCap \in Nat \ {0}

Writers == {"trace writer", "stats writer", "service writer"}
Samplers == {"score sampler", "errors sampler", "priority sampler"}

VARIABLES
    main,           \* the goroutine of Agent.Run: which Stop it is in, and where
    exits,          \* components whose channel "exit" is closed
    closed,         \* writers whose sender is stopped: its channel "in" is closed
    overtaken,      \* components whose Stop did not wait, as Run had not begun
    concentrator,   \* where the goroutine of Run is; likewise the next two
    mapper,
    writer,
    filteredChan,   \* number of messages in filteredServiceChan
    owed            \* flushes of the concentrator not handled by the stats writer

stopVars == <<main, exits, closed, overtaken>>
vars == <<stopVars, concentrator, mapper, writer, filteredChan, owed>>

\* NewAgent, and Run up to its loop: every component was started, and has as yet
\* done nothing.
Init ==
    /\ main = [at |-> 0, pc |-> "loop"]
    /\ exits = {} /\ closed = {} /\ overtaken = {}
    /\ concentrator = "starting"
    /\ mapper = "select"
    /\ writer = [w \in Writers |-> "starting"]
    /\ filteredChan = 0
    /\ owed = 0

\* A panic ends the process: LogOnPanic panics again.
Crashed == \E w \in Writers : writer[w] = "panic"

-----------------------------------------------------------------------------
(* The loops of the components.                                             *)

ConcentratorBegins ==
    /\ concentrator = "starting"
    /\ concentrator' = "select"
    /\ UNCHANGED <<stopVars, mapper, writer, filteredChan, owed>>

\* case <-flushTicker.C, up to the send on OutStats.
ConcentratorTick ==
    /\ concentrator = "select"
    /\ owed' = owed + 1
    /\ concentrator' = "send"
    /\ UNCHANGED <<stopVars, mapper, writer, filteredChan>>

\* case <-c.exit, up to the send on OutStats.
ConcentratorExit ==
    /\ concentrator = "select"
    /\ "concentrator" \in exits
    /\ owed' = owed + 1
    /\ concentrator' = "lastSend"
    /\ UNCHANGED <<stopVars, mapper, writer, filteredChan>>

\* case metadata := <-s.in, with changes to send on.
MapperReceives ==
    /\ mapper = "select"
    /\ mapper' = "send"
    /\ UNCHANGED <<stopVars, concentrator, writer, filteredChan, owed>>

\* s.out <- changes, which does not look at exit.
MapperSends ==
    /\ mapper = "send"
    /\ filteredChan < ChanCap
    /\ filteredChan' = filteredChan + 1
    /\ mapper' = "select"
    /\ UNCHANGED <<stopVars, concentrator, writer, owed>>

MapperExit ==
    /\ mapper = "select"
    /\ "service mapper" \in exits
    /\ mapper' = "done"
    /\ UNCHANGED <<stopVars, concentrator, writer, filteredChan, owed>>

WriterBegins(w) ==
    /\ writer[w] = "starting"
    /\ writer' = [writer EXCEPT ![w] = "select"]
    /\ UNCHANGED <<stopVars, concentrator, mapper, filteredChan, owed>>

\* case stats := <-w.InStats: the concentrator goes on; there is nothing to send
\* if the flush is empty or cannot be encoded.
StatsWriterReceives ==
    /\ writer["stats writer"] = "select"
    /\ concentrator \in {"send", "lastSend"}
    /\ concentrator' = IF concentrator = "send" THEN "select" ELSE "done"
    /\ \/ owed' = owed - 1 /\ UNCHANGED writer
       \/ writer' = [writer EXCEPT !["stats writer"] = "send"] /\ UNCHANGED owed
    /\ UNCHANGED <<stopVars, mapper, filteredChan>>

\* case sm := <-w.InServices: merged into the buffer.
ServiceWriterReceives ==
    /\ writer["service writer"] = "select"
    /\ filteredChan > 0
    /\ filteredChan' = filteredChan - 1
    /\ UNCHANGED <<stopVars, concentrator, mapper, writer, owed>>

\* case <-flushTicker.C with something in the buffer, or a sampled trace that
\* makes the buffer of the trace writer overflow.
WriterFlushes(w) ==
    /\ w # "stats writer"
    /\ writer[w] = "select"
    /\ writer' = [writer EXCEPT ![w] = "send"]
    /\ UNCHANGED <<stopVars, concentrator, mapper, filteredChan, owed>>

\* case <-w.exit: the stats writer has no buffer to flush.
WriterExit(w) ==
    /\ writer[w] = "select"
    /\ w \in exits
    /\ \E pc \in (IF w = "stats writer" THEN {"done"} ELSE {"lastSend", "done"}) :
        writer' = [writer EXCEPT ![w] = pc]
    /\ UNCHANGED <<stopVars, concentrator, mapper, filteredChan, owed>>

\* The sender takes the payload that Send offers it.
SenderReceives(w) ==
    /\ writer[w] \in {"send", "lastSend"}
    /\ w \notin closed
    /\ writer' = [writer EXCEPT ![w] = IF writer[w] = "send" THEN "select" ELSE "done"]
    /\ owed' = IF w = "stats writer" THEN owed - 1 ELSE owed
    /\ UNCHANGED <<stopVars, concentrator, mapper, filteredChan>>

\* Send panics when the channel of the sender is closed.
WriterPanics(w) ==
    /\ writer[w] \in {"send", "lastSend"}
    /\ w \in closed
    /\ writer' = [writer EXCEPT ![w] = "panic"]
    /\ UNCHANGED <<stopVars, concentrator, mapper, filteredChan, owed>>

-----------------------------------------------------------------------------
(* The case <-a.ctx.Done() of Agent.Run.                                    *)

StatsWriterFirst ==
    <<"receiver", "stats writer", "concentrator", "trace writer", "service mapper",
      "service writer", "score sampler", "errors sampler", "priority sampler">>
StopOrder ==
    <<"receiver", "concentrator", "trace writer", "stats writer", "service mapper",
      "service writer", "score sampler", "errors sampler", "priority sampler">>

Stopping == StopOrder[main.at]
Returned == main.at > Len(StopOrder)
StopUnchanged == UNCHANGED <<concentrator, mapper, writer, filteredChan, owed>>

Cancelled ==
    /\ main.at = 0
    /\ main' = [at |-> 1, pc |-> "close"]
    /\ UNCHANGED <<exits, closed, overtaken>>
    /\ StopUnchanged

StopEnds == main' = [at |-> main.at + 1, pc |-> "close"]

\* close(exit), or the end of the listening; the Stop of a sampler does no more.
StopCloses ==
    /\ main.at \in DOMAIN StopOrder /\ main.pc = "close"
    /\ exits' = exits \cup {Stopping}
    /\ IF Stopping \in Samplers THEN StopEnds ELSE main' = [main EXCEPT !.pc = "wait"]
    /\ UNCHANGED <<closed, overtaken>>
    /\ StopUnchanged

NotBegun(c) ==
    \/ c = "concentrator" /\ concentrator = "starting"
    \/ c \in Writers /\ writer[c] = "starting"

\* exitWG.Wait() goes through: the counter of the wait group is zero, because Run
\* has returned or, unless Start has counted it, has not begun.  Server.Shutdown
\* returns by its deadline.
GoneOrNot(c) == TRUE
Gone(c) ==
    \/ c = "receiver"
    \/ c = "service mapper" /\ mapper = "done"
    \/ c = "concentrator" /\ concentrator = "done"
    \/ c \in Writers /\ writer[c] = "done"

StopWaits ==
    /\ main.pc = "wait"
    /\ NotBegun(Stopping) \/ Gone(Stopping)
    /\ overtaken' = IF NotBegun(Stopping) THEN overtaken \cup {Stopping} ELSE overtaken
    /\ IF Stopping \in Writers THEN main' = [main EXCEPT !.pc = "sender"] ELSE StopEnds
    /\ UNCHANGED <<exits, closed>>
    /\ StopUnchanged

\* BaseWriter.Stop: the sender ends and its channels are closed.
StopsSender ==
    /\ main.pc = "sender"
    /\ closed' = closed \cup {Stopping}
    /\ StopEnds
    /\ UNCHANGED <<exits, overtaken>>
    /\ StopUnchanged

-----------------------------------------------------------------------------
Alive == ~Crashed
StopStep == Alive /\ (StopCloses \/ StopWaits \/ StopsSender)
WriterStep(w) ==
    WriterBegins(w) \/ WriterFlushes(w) \/ WriterExit(w) \/ SenderReceives(w) \/ WriterPanics(w)

Next ==
    \/ StopStep
    \/ /\ Alive
       /\ \/ ConcentratorBegins \/ ConcentratorTick \/ ConcentratorExit
          \/ MapperReceives \/ MapperSends \/ MapperExit
          \/ StatsWriterReceives \/ ServiceWriterReceives
          \/ \E w \in Writers : WriterStep(w)
          \/ Cancelled

Spec == Init /\ [][Next]_vars

\* Goroutines that can go on do, senders take what they are offered, and a select
\* does not pass over a case that is ready again and again.
Fairness ==
    /\ WF_vars(StopStep)
    /\ WF_vars(Alive /\ ConcentratorBegins)
    /\ SF_vars(Alive /\ ConcentratorExit)
    /\ WF_vars(Alive /\ MapperSends)
    /\ SF_vars(Alive /\ MapperExit)
    /\ SF_vars(Alive /\ StatsWriterReceives)
    /\ SF_vars(Alive /\ ServiceWriterReceives)
    /\ \A w \in Writers :
        /\ WF_vars(Alive /\ (WriterBegins(w) \/ SenderReceives(w)))
        /\ SF_vars(Alive /\ WriterExit(w))

FairSpec == Spec /\ Fairness

-----------------------------------------------------------------------------
\* Once the context is cancelled, the nine Stops return one after the other,
\* whichever goroutines are blocked on which channels at that moment: each Stop
\* that waits for a last delivery comes before the Stop of the component that
\* takes it.  Only a panic can keep Run from returning.
ShutdownCompletes == main.at > 0 ~> Returned \/ Crashed

\* A Stop that waited leaves nothing behind.  A writer finds the channel of its
\* sender closed, and panics, only if its Stop overtook the start of its Run.  When
\* Run has returned, the stats writer has handled every flush that the concentrator
\* made, its last one included, unless one of the two was overtaken; at no time are
\* there more than two flushes on the way.
StopsLeaveNothingBehind ==
    /\ \A w \in Writers : writer[w] = "panic" => w \in overtaken
    /\ owed \in 0 .. 2
    /\ Returned /\ overtaken \cap {"concentrator", "stats writer"} = {} =>
        concentrator = "done" /\ owed = 0
=============================================================================
