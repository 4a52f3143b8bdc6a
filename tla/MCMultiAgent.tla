---------------------------- MODULE MCMultiAgent ----------------------------
(* Instances of the multi-agent runtime for TLC.                            *)
EXTENDS MultiAgent, TLC

CONSTANTS coder, reviewer, c1, c2

OneWay == (coder :> {reviewer}) @@ (reviewer :> {})

(* One slot, profiles of one execution each, three tasks.                   *)
Nested ==
    [delegateTo |-> OneWay, profileMax |-> [a \in Agents |-> 1], maxParallel |-> 1, maxChildren |-> 1,
     maxTasks |-> 3, tasks |-> {1, 2, 3}, calls |-> {c1}, timedWaits |-> FALSE, deadlines |-> FALSE,
     cancels |-> FALSE, persistent |-> FALSE, persistFails |-> FALSE, maxRestarts |-> 0]

(* Snapshots and a restart.                                                 *)
Restarted ==
    [Nested EXCEPT !.maxTasks = 2, !.tasks = {1, 2}, !.persistent = TRUE, !.maxRestarts = 1]

(* Deadlines and a restart, writes that fail, a store of one task.          *)
BadDisk == [Restarted EXCEPT !.maxTasks = 1, !.deadlines = TRUE, !.persistFails = TRUE]

(* Two calls at a time, waits with a timeout.                               *)
Batched ==
    [Nested EXCEPT !.maxTasks = 2, !.tasks = {1, 2}, !.calls = {c1, c2}, !.timedWaits = TRUE, !.deadlines = TRUE]

(* Operators that cancel, a task that waits for its child.                  *)
Cancelled == [Nested EXCEPT !.maxTasks = 2, !.tasks = {1, 2}, !.cancels = TRUE]

All == {Nested, Restarted, BadDisk, Batched, Cancelled}

(* Two blocking calls of one executor at the same time.                     *)
Parallel ==
    {[Nested EXCEPT !.profileMax = [a \in Agents |-> 2], !.maxChildren = 2, !.calls = {c1, c2}]}
=============================================================================
