------------------------------- MODULE MCA2A -------------------------------
(* A2ATasks on small instances. *)
EXTENDS A2ATasks

Base == [ops |-> <<{"stream"}, {"cancel"}, {"subscribe"}>>, continues |-> FALSE, expires |-> FALSE,
         leaves |-> FALSE, flushes |-> TRUE, filters |-> {}, tasks |-> 2, faults |-> {},
         maxRetained |-> 3, trimTarget |-> 2, buffer |-> 2]
Cancelled == Base
Twice     == [Base EXCEPT !.ops = <<{"send"}, {"cancel"}, {"cancel"}>>]
Full      == [Base EXCEPT !.ops = <<{"stream"}, {"send"}, {}>>, !.maxRetained = 1, !.trimTarget = 0, !.buffer = 1]
Leaving   == [Base EXCEPT !.ops = <<{"stream"}, {}, {"subscribe"}>>, !.tasks = 1, !.leaves = TRUE]
Expiring  == [Base EXCEPT !.ops = <<{"send"}, {"send"}, {"subscribe"}>>, !.expires = TRUE]
Continued == [Base EXCEPT !.ops = <<{"send"}, {"send"}, {"subscribe"}>>, !.continues = TRUE, !.tasks = 1, !.buffer = 1]
Listed    == [Base EXCEPT !.ops = <<{"send"}, {"send"}, {"list"}>>, !.filters = {None, "working", "completed"}]
Faults    == [Base EXCEPT !.ops = <<{"send", "stream"}, {"get", "subscribe"}, {}>>, !.flushes = FALSE,
                          !.faults = {"parse", "request", "version", "method", "params", "content"}]
All == {Cancelled, Twice, Full, Leaving, Expiring, Continued, Listed, Faults}
=============================================================================
