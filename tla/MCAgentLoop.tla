---------------------------- MODULE MCAgentLoop -----------------------------
(* Instances of AgentLoop for TLC.                                          *)
EXTENDS AgentLoop

(* Every kind of request, goroutines that are not overtaken between a check *)
(* and the step it guards.                                                  *)
Turns ==
    [requests |-> {1, 2, 3}, ops |-> {"user", "new", "compact", "stop"}, repeats |-> FALSE, summaries |-> TRUE, elides |-> FALSE,
     preempt |-> {}, failures |-> {"run", "open", "save", "summary"}, maxFaults |-> 1, maxCrashes |-> 0]

(* A text sent again.                                                       *)
Repeated == [Turns EXCEPT !.ops = {"user", "new"}, !.repeats = TRUE, !.maxFaults = 0]

(* A crash and failures on the way to the memory fabric, whose goroutines   *)
(* may be overtaken.                                                        *)
Memory ==
    [requests |-> {1, 2, 3}, ops |-> {"user", "compact"}, repeats |-> FALSE, summaries |-> TRUE, elides |-> FALSE,
     preempt |-> {"ack"}, failures |-> {"enqueue", "save", "tools", "append"}, maxFaults |-> 1, maxCrashes |-> 1]

(* The same with summaries overtaken too, /stop, histories too long for one *)
(* summary and a runner that returns no message.                            *)
Overtaken ==
    [Memory EXCEPT !.requests = {1, 2}, !.ops = {"user", "new", "compact", "stop"}, !.preempt = {"commit", "ack"},
                   !.elides = TRUE, !.failures = @ \cup {"blank"}]

(* A reset and another turn overtake the goroutine that clears a marker.    *)
Reset ==
    [Memory EXCEPT !.ops = {"user", "new"}, !.summaries = FALSE, !.failures = {"run", "blank"}, !.maxCrashes = 0]

All == {Turns, Repeated, Memory, Overtaken, Reset}
=============================================================================
