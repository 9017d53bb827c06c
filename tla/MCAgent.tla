------------------------------ MODULE MCAgent ------------------------------
(* A payload of three traces and a payload of services.                     *)
EXTENDS Agent

MCRequests ==
    << [services |-> FALSE, tags |-> "go", bytes |-> 1, traces |-> <<1, 2, 3>>],
       [services |-> TRUE, tags |-> "go", bytes |-> 1, traces |-> <<>>] >>

Trace(valid, priority, error, analyzed, byRate) ==
    [valid |-> valid, priority |-> priority, error |-> error, analyzed |-> analyzed,
     byRate |-> byRate]
MCTraces == << Trace(TRUE, "2", TRUE, TRUE, FALSE),
               Trace(FALSE, "none", FALSE, FALSE, FALSE),
               Trace(TRUE, "negative", FALSE, TRUE, TRUE) >>
=============================================================================
