----------------------------- MODULE MultiAgent -----------------------------
(***************************************************************************)
(* The multi-agent runtime (internal/multiagent/manager.go and tool.go):   *)
(* delegated tasks, the goroutine that runs each, the global and the       *)
(* per-profile semaphores, the slot a parent yields while it waits for a   *)
(* child, cancellation and deadlines through nested contexts, and the      *)
(* snapshot file with what a restart makes of it.                          *)
(*                                                                         *)
(* A critical section of Manager.mu is one action; writing the snapshot is *)
(* two, for the file may be written long after its content was read.  The  *)
(* executor (a language model with tools) is free: it delegates, waits and *)
(* returns as it likes.                                                    *)
(***************************************************************************)
EXTENDS Integers, FiniteSets

CONSTANTS
    Tasks,          \* task ids, taken in increasing order
    Agents,         \* the enabled profiles
    Calls,          \* the tool calls one executor may run at the same time
    MaxDepth,       \* Limits.MaxDepth
    Setups,         \* the configurations and environments considered
    NoTask

ASSUME MultiAgentAssumption ==
    /\ IsFiniteSet(Tasks) /\ Tasks \subseteq Nat
    /\ IsFiniteSet(Agents) /\ Agents # {} /\ IsFiniteSet(Calls)
    /\ MaxDepth \in Nat \ {0}
    /\ \A s \in Setups :
        /\ s.delegateTo \in [Agents -> SUBSET Agents]
        /\ s.profileMax \in [Agents -> Nat \ {0}]
        /\ {s.maxParallel, s.maxChildren, s.maxTasks} \subseteq Nat \ {0}
        /\ s.tasks \subseteq Tasks /\ s.calls \subseteq Calls
        /\ {s.timedWaits, s.deadlines, s.cancels, s.persistent, s.persistFails} \subseteq BOOLEAN
        /\ s.maxRestarts \in Nat
    /\ NoTask \notin Tasks

VARIABLES
    setup,          \* the configuration and environment of this behaviour
    status,         \* Task.Status; "none" before the task, "gone" once removed
    agent, parent, depth, ancestry,     \* fields of Task
    done,           \* the done channels that are closed
    cancels,        \* keys of Manager.cancels
    under,          \* the tasks whose contexts each task's context is under
    cancelled,      \* the contexts that were cancelled or passed their deadline
    asked,          \* the unfinished tasks an operator asked to cancel
    pc,             \* where the goroutine of each task is
    slots, profiles,    \* holders of Manager.sem and of Manager.profileSems
    call, target,   \* the tool calls of each executor
    writer, snap,   \* holder of persistMu, and what it will write
    disk,           \* the snapshot file
    restarts

taskVars == <<agent, parent, depth, ancestry>>
ctxVars == <<cancels, under, cancelled, asked>>
semVars == <<slots, profiles>>
callVars == <<call, target>>
diskVars == <<writer, snap, disk>>
vars == <<setup, status, taskVars, done, ctxVars, pc, semVars, callVars, diskVars, restarts>>

delegateTo   == setup.delegateTo    \* Profile.DelegateTo
profileMax   == setup.profileMax    \* Profile.MaxParallel, normalised
MaxParallel  == setup.maxParallel   \* Limits.MaxParallel
MaxChildren  == setup.maxChildren   \* Limits.MaxChildren
MaxTasks     == setup.maxTasks      \* Limits.MaxTasks
TimedWaits   == setup.timedWaits    \* whether the wait operation is given a timeout
Deadlines    == setup.deadlines     \* whether tasks may run into their deadline
Cancels      == setup.cancels       \* whether operators cancel tasks
Persistent   == setup.persistent    \* persistTasks: whether there is a snapshot file
PersistFails == setup.persistFails  \* whether writing it may fail
MaxRestarts  == setup.maxRestarts   \* bound: restarts of the process

Terminal(s) == s \in {"completed", "failed", "canceled"}
Live(st) == {t \in Tasks : st[t] \notin {"none", "gone"}}
CtxDone(t) == under[t] \cap cancelled # {}

Statuses == {"none", "submitted", "working", "completed", "failed", "canceled", "gone"}
Stages == {"none", "created", "unregistered", "queued", "profiled", "leased", "started",
           "executing", "finished", "closing", "closed", "ended"}

CallStates == {"idle", "calling", "delegated", "waiting", "expired", "returning", "returned"}

NoStatus == [t \in Tasks |-> "none"]
NoSnapshot == <<>>

TypeOK ==
    /\ setup \in Setups
    /\ status \in [Tasks -> Statuses]
    /\ agent \in [Tasks -> Agents]
    /\ parent \in [Tasks -> Tasks \cup {NoTask}]
    /\ depth \in [Tasks -> 0 .. MaxDepth]
    /\ ancestry \in [Tasks -> SUBSET Agents]
    /\ done \subseteq Tasks
    /\ cancels \subseteq Tasks
    /\ under \in [Tasks -> SUBSET Tasks]
    /\ cancelled \subseteq Tasks
    /\ asked \subseteq Tasks
    /\ pc \in [Tasks -> Stages]
    /\ slots \subseteq Tasks /\ Cardinality(slots) <= MaxParallel
    /\ profiles \subseteq Tasks
    /\ \A a \in Agents : Cardinality({t \in profiles : agent[t] = a}) <= profileMax[a]
    /\ call \in [Tasks \X Calls -> CallStates]
    /\ target \in [Tasks \X Calls -> Tasks \cup {NoTask}]
    /\ writer \in Tasks \cup {NoTask}
    /\ snap \in [Tasks -> [Tasks -> Statuses] \cup {NoSnapshot}]
    /\ disk \in [Tasks -> Statuses]
    /\ restarts \in 0 .. MaxRestarts


Init ==
    /\ setup \in Setups
    /\ status = NoStatus
    /\ agent = [t \in Tasks |-> CHOOSE a \in Agents : TRUE]
    /\ parent = [t \in Tasks |-> NoTask]
    /\ depth = [t \in Tasks |-> 0]
    /\ ancestry = [t \in Tasks |-> {}]
    /\ done = {}
    /\ cancels = {}
    /\ under = [t \in Tasks |-> {t}]
    /\ cancelled = {}
    /\ asked = {}
    /\ pc = [t \in Tasks |-> "none"]
    /\ slots = {}
    /\ profiles = {}
    /\ call = [x \in Tasks \X Calls |-> "idle"]
    /\ target = [x \in Tasks \X Calls |-> NoTask]
    /\ writer = NoTask
    /\ snap = [t \in Tasks |-> NoSnapshot]
    /\ disk = NoStatus
    /\ restarts = 0

-----------------------------------------------------------------------------
(* Removing terminal tasks past their retention.                            *)

Expirable == {t \in Tasks : Terminal(status[t])}

Cleaned(old) == [t \in Tasks |-> IF t \in old THEN "gone" ELSE status[t]]

(* List, like NewManager, cleans up.                                        *)
List(old) ==
    /\ old # {}
    /\ status' = Cleaned(old)
    /\ cancels' = cancels \ old
    /\ UNCHANGED <<setup, taskVars, done, under, cancelled, asked, pc, semVars, callVars, diskVars, restarts>>

-----------------------------------------------------------------------------
(* Delegate: by the commander or an operator (p = NoTask), or by a task.    *)

Allowed(p, a) ==
    p # NoTask =>
        /\ depth[p] < MaxDepth
        /\ a \in delegateTo[agent[p]]
        /\ a \notin ancestry[p] \cup {agent[p]}
        /\ Cardinality({t \in Live(status) : parent[t] = p}) < MaxChildren

(* A task id that was not used before.                                      *)
Fresh(t) == t \in setup.tasks /\ status[t] = "none" /\ \A u \in Tasks : u < t => status[u] # "none"

(* Mutant of Submit: one task too many.                                     *)
SubmitOneMore(t, a, p, wait, old) ==
    /\ Fresh(t)
    /\ Allowed(p, a)
    /\ Cardinality(Live(Cleaned(old))) <= MaxTasks
    /\ status' = [Cleaned(old) EXCEPT ![t] = "submitted"]
    /\ agent' = [agent EXCEPT ![t] = a]
    /\ parent' = [parent EXCEPT ![t] = p]
    /\ depth' = [depth EXCEPT ![t] = IF p = NoTask THEN 1 ELSE depth[p] + 1]
    /\ ancestry' = [ancestry EXCEPT ![t] = IF p = NoTask THEN {} ELSE ancestry[p] \cup {agent[p]}]
    /\ under' = [under EXCEPT ![t] = IF wait THEN under[p] \cup {t} ELSE {t}]
    /\ cancels' = cancels \ old
    /\ pc' = [pc EXCEPT ![t] = "created"]
    /\ UNCHANGED <<setup, done, cancelled, asked, diskVars, restarts>>

Submit(t, a, p, wait, old) ==
    /\ Fresh(t)
    /\ Allowed(p, a)
    /\ Cardinality(Live(Cleaned(old))) < MaxTasks
    /\ status' = [Cleaned(old) EXCEPT ![t] = "submitted"]
    /\ agent' = [agent EXCEPT ![t] = a]
    /\ parent' = [parent EXCEPT ![t] = p]
    /\ depth' = [depth EXCEPT ![t] = IF p = NoTask THEN 1 ELSE depth[p] + 1]
    /\ ancestry' = [ancestry EXCEPT ![t] = IF p = NoTask THEN {} ELSE ancestry[p] \cup {agent[p]}]
    /\ under' = [under EXCEPT ![t] = IF wait THEN under[p] \cup {t} ELSE {t}]
    /\ cancels' = cancels \ old
    /\ pc' = [pc EXCEPT ![t] = "created"]
    /\ UNCHANGED <<setup, done, cancelled, asked, diskVars, restarts>>

DelegateRoot(t, a, old) ==
    /\ Submit(t, a, NoTask, FALSE, old)
    /\ UNCHANGED <<setup, semVars, callVars>>

DelegateDetached(p, t, a, old) ==
    /\ pc[p] = "executing"
    /\ \A c \in Calls : call[<<p, c>>] \in {"idle", "returned"}
    /\ Submit(t, a, p, FALSE, old)
    /\ UNCHANGED <<setup, semVars, callVars>>

(* Delegate goes on without the lock: the snapshot is written before the    *)
(* cancel function is registered and the goroutine started.                 *)
Register(t) ==
    /\ pc[t] = "unregistered"
    /\ pc' = [pc EXCEPT ![t] = "queued"]
    /\ cancels' = cancels \cup {t}
    /\ UNCHANGED <<setup, status, taskVars, done, under, cancelled, asked, semVars, callVars, diskVars, restarts>>

-----------------------------------------------------------------------------
(* persist: the snapshot is read and written under persistMu.               *)

AfterPersist == [s \in {"created", "started", "finished"} |->
    CASE s = "created" -> "unregistered" [] s = "started" -> "executing" [] OTHER -> "closing"]

Snapshot == [t \in Tasks |-> IF status[t] = "gone" THEN "none" ELSE status[t]]

(* Mutant of PersistRead: reads the tasks before it takes persistMu.        *)
PersistReadUnlocked(t) ==
    /\ Persistent
    /\ pc[t] \in DOMAIN AfterPersist
    /\ snap[t] = NoSnapshot
    /\ snap' = [snap EXCEPT ![t] = Snapshot]
    /\ writer' = t
    /\ UNCHANGED <<setup, status, taskVars, done, ctxVars, pc, semVars, callVars, disk, restarts>>

PersistRead(t) ==
    /\ Persistent
    /\ pc[t] \in DOMAIN AfterPersist
    /\ writer = NoTask
    /\ writer' = t
    /\ snap' = [snap EXCEPT ![t] = Snapshot]
    /\ UNCHANGED <<setup, status, taskVars, done, ctxVars, pc, semVars, callVars, disk, restarts>>

PersistEnds(t) ==
    /\ snap[t] # NoSnapshot
    /\ writer' = NoTask
    /\ snap' = [snap EXCEPT ![t] = NoSnapshot]
    /\ pc' = [pc EXCEPT ![t] = AfterPersist[pc[t]]]
    /\ UNCHANGED <<setup, status, taskVars, done, ctxVars, semVars, callVars, restarts>>

PersistWrite(t) == PersistEnds(t) /\ disk' = snap[t]

(* Without a snapshot file, persist returns at once.                        *)
PersistSkip(t) ==
    /\ ~Persistent
    /\ pc[t] \in DOMAIN AfterPersist
    /\ pc' = [pc EXCEPT ![t] = AfterPersist[@]]
    /\ UNCHANGED <<setup, status, taskVars, done, ctxVars, semVars, callVars, diskVars, restarts>>

(* Marshalling, the directory or the file fail: the error is dropped.       *)
PersistError(t) == PersistFails /\ PersistEnds(t) /\ UNCHANGED disk

-----------------------------------------------------------------------------
(* run: the goroutine of a task.                                            *)

AcquireProfile(t) ==
    /\ pc[t] = "queued"
    /\ Cardinality({u \in profiles : agent[u] = agent[t]}) < profileMax[agent[t]]
    /\ profiles' = profiles \cup {t}
    /\ pc' = [pc EXCEPT ![t] = "profiled"]
    /\ UNCHANGED <<setup, status, taskVars, done, ctxVars, slots, callVars, diskVars, restarts>>

(* Mutant of AcquireSlot: one slot too many.                                *)
AcquireSlotOverrun(t) ==
    /\ pc[t] = "profiled"
    /\ Cardinality(slots) <= MaxParallel
    /\ slots' = slots \cup {t}
    /\ pc' = [pc EXCEPT ![t] = "leased"]
    /\ UNCHANGED <<setup, status, taskVars, done, ctxVars, profiles, callVars, diskVars, restarts>>

AcquireSlot(t) ==
    /\ pc[t] = "profiled"
    /\ Cardinality(slots) < MaxParallel
    /\ slots' = slots \cup {t}
    /\ pc' = [pc EXCEPT ![t] = "leased"]
    /\ UNCHANGED <<setup, status, taskVars, done, ctxVars, profiles, callVars, diskVars, restarts>>

Work(t) ==
    /\ pc[t] = "leased"
    /\ status' = [status EXCEPT ![t] = "working"]
    /\ pc' = [pc EXCEPT ![t] = "started"]
    /\ UNCHANGED <<setup, taskVars, done, ctxVars, semVars, callVars, diskVars, restarts>>

(* finish, up to persist.                                                   *)
Finish(t, s) ==
    /\ status' = [status EXCEPT ![t] = s]
    /\ pc' = [pc EXCEPT ![t] = "finished"]
    /\ UNCHANGED <<setup, taskVars, done, ctxVars, semVars, callVars, diskVars, restarts>>

(* The context ends before a slot is free.                                  *)
GiveUp(t) ==
    /\ pc[t] \in {"queued", "profiled"}
    /\ CtxDone(t)
    /\ Finish(t, "canceled")

(* The executor returns, with a result or an error; an error of a context,  *)
(* its own or one under it, counts as a cancellation.                       *)
Return(t) ==
    /\ pc[t] = "executing"
    /\ \A c \in Calls : call[<<t, c>>] \in {"idle", "returned"}
    /\ \/ Finish(t, "completed") \/ Finish(t, "canceled")
       \/ ~CtxDone(t) /\ Finish(t, "failed")

CloseDone(t) ==
    /\ pc[t] = "closing"
    /\ done' = done \cup {t}
    /\ pc' = [pc EXCEPT ![t] = "closed"]
    /\ UNCHANGED <<setup, status, taskVars, ctxVars, semVars, callVars, diskVars, restarts>>

(* Mutant of Exit: keeps the profile's slot.                                *)
ExitKeepsProfile(t) ==
    /\ pc[t] = "closed"
    /\ slots' = slots \ {t}
    /\ cancels' = cancels \ {t}
    /\ cancelled' = cancelled \cup {t}
    /\ pc' = [pc EXCEPT ![t] = "ended"]
    /\ UNCHANGED <<setup, status, taskVars, done, under, asked, profiles, callVars, diskVars, restarts>>

(* The deferred calls of run.                                               *)
Exit(t) ==
    /\ pc[t] = "closed"
    /\ slots' = slots \ {t}
    /\ profiles' = profiles \ {t}
    /\ cancels' = cancels \ {t}
    /\ cancelled' = cancelled \cup {t}
    /\ pc' = [pc EXCEPT ![t] = "ended"]
    /\ UNCHANGED <<setup, status, taskVars, done, under, asked, callVars, diskVars, restarts>>

-----------------------------------------------------------------------------
(* withYieldedSlot: the blocking tool calls of an executor.                 *)

(* Mutant of Yield: the parent keeps its slot while it waits.               *)
YieldNothing(p, c) ==
    /\ pc[p] = "executing"
    /\ c \in setup.calls /\ call[<<p, c>>] = "idle"
    /\ \A d \in Calls : call[<<p, d>>] \notin {"returning", "expired"}
    /\ call' = [call EXCEPT ![<<p, c>>] = "calling"]
    /\ UNCHANGED <<setup, status, taskVars, done, ctxVars, pc, semVars, target, diskVars, restarts>>

(* The slot is given back; lease.mu keeps a new call out while another one  *)
(* is taking it again.                                                      *)
Yield(p, c) ==
    /\ pc[p] = "executing"
    /\ c \in setup.calls /\ call[<<p, c>>] = "idle"
    /\ \A d \in Calls : call[<<p, d>>] \notin {"returning", "expired"}
    /\ slots' = slots \ {p}
    /\ call' = [call EXCEPT ![<<p, c>>] = "calling"]
    /\ UNCHANGED <<setup, status, taskVars, done, ctxVars, pc, profiles, target, diskVars, restarts>>

DelegateWait(p, c, t, a, old) ==
    /\ call[<<p, c>>] = "calling"
    /\ Submit(t, a, p, TRUE, old)
    /\ call' = [call EXCEPT ![<<p, c>>] = "delegated"]
    /\ target' = [target EXCEPT ![<<p, c>>] = t]
    /\ UNCHANGED semVars

(* The wait operation, on any task: one this one delegated, a stranger's,   *)
(* an ancestor or itself.                                                   *)
WaitFor(p, c, t) ==
    /\ call[<<p, c>>] = "calling"
    /\ t \in Live(status)
    /\ call' = [call EXCEPT ![<<p, c>>] = "waiting"]
    /\ target' = [target EXCEPT ![<<p, c>>] = t]
    /\ UNCHANGED <<setup, status, taskVars, done, ctxVars, pc, semVars, diskVars, restarts>>

(* The delegation is refused, or the task to wait for does not exist.       *)
Refused(p, c) ==
    /\ call[<<p, c>>] = "calling"
    /\ call' = [call EXCEPT ![<<p, c>>] = "returning"]
    /\ UNCHANGED <<setup, status, taskVars, done, ctxVars, pc, semVars, target, diskVars, restarts>>

(* Wait returns: the task was already terminal, its channel is closed, or   *)
(* the caller's context is done.  Delegate waits once it has started the    *)
(* goroutine of the new task.                                               *)
WaitReturns(p, c) ==
    /\ call[<<p, c>>] \in {"delegated", "waiting"}
    /\ LET t == target[<<p, c>>]
       IN  /\ call[<<p, c>>] = "delegated" => pc[t] \notin {"created", "unregistered"}
           /\ Terminal(status[t]) \/ t \in done \/ CtxDone(p)
    /\ call' = [call EXCEPT ![<<p, c>>] = "returning"]
    /\ target' = [target EXCEPT ![<<p, c>>] = NoTask]
    /\ UNCHANGED <<setup, status, taskVars, done, ctxVars, pc, semVars, diskVars, restarts>>

(* The timeout of the wait operation, whose context also bounds the return. *)
WaitTimesOut(p, c) ==
    /\ TimedWaits
    /\ call[<<p, c>>] = "waiting"
    /\ call' = [call EXCEPT ![<<p, c>>] = "expired"]
    /\ target' = [target EXCEPT ![<<p, c>>] = NoTask]
    /\ UNCHANGED <<setup, status, taskVars, done, ctxVars, pc, semVars, diskVars, restarts>>

(* A call is over; the executor goes on when the last of its batch is.      *)
Settle(p, c) ==
    call' = IF \A d \in Calls \ {c} : call[<<p, d>>] \in {"idle", "returned"}
            THEN [x \in Tasks \X Calls |-> IF x[1] = p THEN "idle" ELSE call[x]]
            ELSE [call EXCEPT ![<<p, c>>] = "returned"]

(* lease.acquire at the end of withYieldedSlot.                             *)
Reacquire(p, c) ==
    /\ call[<<p, c>>] \in {"returning", "expired"}
    /\ p \in slots \/ Cardinality(slots) < MaxParallel
    /\ slots' = slots \cup {p}
    /\ Settle(p, c)
    /\ UNCHANGED <<setup, status, taskVars, done, ctxVars, pc, profiles, target, diskVars, restarts>>

(* Mutant of ReacquireFails: gives up at once when the slots are taken.     *)
ReacquireAtOnce(p, c) ==
    /\ p \notin slots
    /\ call[<<p, c>>] \in {"returning", "expired"}
    /\ Settle(p, c)
    /\ UNCHANGED <<setup, status, taskVars, done, ctxVars, pc, semVars, target, diskVars, restarts>>

(* Its context is done: the executor goes on without a slot.                *)
ReacquireFails(p, c) ==
    /\ p \notin slots
    /\ \/ call[<<p, c>>] = "expired"
       \/ call[<<p, c>>] = "returning" /\ CtxDone(p)
    /\ Settle(p, c)
    /\ UNCHANGED <<setup, status, taskVars, done, ctxVars, pc, semVars, target, diskVars, restarts>>

-----------------------------------------------------------------------------
(* Cancellation, deadlines and restarts.                                    *)

Cancel(t) ==
    /\ Cancels
    /\ t \in Live(status)
    /\ ~Terminal(status[t])
    /\ asked' = asked \cup {t}
    /\ cancelled' = IF t \in cancels THEN cancelled \cup {t} ELSE cancelled
    /\ UNCHANGED <<setup, status, taskVars, done, cancels, under, pc, semVars, callVars, diskVars, restarts>>

Deadline(t) ==
    /\ Deadlines
    /\ pc[t] \notin {"none", "created", "unregistered", "ended"}
    /\ t \notin cancelled
    /\ cancelled' = cancelled \cup {t}
    /\ UNCHANGED <<setup, status, taskVars, done, cancels, under, asked, pc, semVars, callVars, diskVars, restarts>>

Recovered(s) == IF s \in {"submitted", "working"} THEN "failed" ELSE s

(* The process stops; NewManager loads the snapshot.                        *)
Restart ==
    /\ restarts < MaxRestarts
    /\ restarts' = restarts + 1
    /\ status' = [t \in Tasks |->
          IF disk[t] # "none" THEN Recovered(disk[t])
          ELSE IF status[t] = "none" THEN "none" ELSE "gone"]
    /\ done' = {t \in Tasks : disk[t] # "none"}
    /\ pc' = [t \in Tasks |-> IF status[t] = "none" THEN "none" ELSE "ended"]
    /\ cancels' = {}
    /\ asked' = {}
    /\ slots' = {}
    /\ profiles' = {}
    /\ call' = [x \in Tasks \X Calls |-> "idle"]
    /\ target' = [x \in Tasks \X Calls |-> NoTask]
    /\ writer' = NoTask
    /\ snap' = [t \in Tasks |-> NoSnapshot]
    /\ UNCHANGED <<setup, taskVars, under, cancelled, disk>>

-----------------------------------------------------------------------------
RunStep(t) ==
    \/ Register(t) \/ PersistRead(t) \/ PersistWrite(t) \/ PersistSkip(t) \/ PersistError(t)
    \/ AcquireProfile(t) \/ AcquireSlot(t) \/ Work(t) \/ GiveUp(t)
    \/ CloseDone(t) \/ Exit(t)

CallStep(p, c) ==
    \/ Refused(p, c) \/ WaitReturns(p, c)
    \/ Reacquire(p, c) \/ ReacquireFails(p, c)

Next ==
    \/ \E old \in SUBSET Expirable :
          \/ List(old)
          \/ \E t \in Tasks, a \in Agents :
                \/ DelegateRoot(t, a, old)
                \/ \E p \in Tasks : DelegateDetached(p, t, a, old)
                \/ \E p \in Tasks, c \in Calls : DelegateWait(p, c, t, a, old)
    \/ \E t \in Tasks : RunStep(t) \/ Return(t) \/ Cancel(t) \/ Deadline(t)
    \/ \E p \in Tasks, c \in Calls :
          \/ Yield(p, c) \/ CallStep(p, c) \/ WaitTimesOut(p, c)
          \/ \E t \in Tasks : WaitFor(p, c, t)
    \/ Restart

Spec == Init /\ [][Next]_vars

(* Goroutines run, deadlines come, a tool call gets past its arguments, and *)
(* an executor whose context is done returns, for the agent's loop looks at *)
(* its context before every turn: it may start calls meanwhile, so strong   *)
(* fairness.  A live executor may work for ever.                            *)
Fairness ==
    /\ \A t \in Tasks :
          /\ WF_vars(RunStep(t))
          /\ SF_vars(CtxDone(t) /\ Return(t))
    /\ WF_vars(\E t \in Tasks : Deadline(t))
    /\ \A p \in Tasks : WF_vars(\E c \in Calls : CallStep(p, c))

FairSpec == Spec /\ Fairness

-----------------------------------------------------------------------------
(* A task whose done channel is closed keeps its status until retention     *)
(* removes it, whatever crashes: finish closes the channel after persist so *)
(* that a restart does not recover a finished task as interrupted.  A write *)
(* that fails is given up, so only where the writes succeed.                *)
DoneIsFinal ==
    [][~PersistFails => \A t \in done : status[t] # "gone" => status'[t] \in {status[t], "gone"}]_vars

(* What finish's comment claims: a status that Get, List or Wait may return *)
(* as terminal is never changed by a restart.                               *)
TerminalIsFinal ==
    [][\A t \in Tasks : Terminal(status[t]) => status'[t] \in {status[t], "gone"}]_vars

(* An executor that is not inside a blocking call and whose context is live *)
(* holds one of the MaxParallel slots, also after it yielded it and came    *)
(* back (withYieldedSlot).  A wait that was given a timeout may come back   *)
(* without.                                                                 *)
RunningHoldsSlot == ~TimedWaits =>
    \A t \in Tasks :
        /\ pc[t] = "executing"
        /\ \A c \in Calls : call[<<t, c>>] = "idle"
        /\ ~CtxDone(t)
        => t \in slots

(* D is a set of tasks each of which waits for others of D only: a caller   *)
(* for a task, a goroutine for a profile's or for the global semaphore.     *)
Stuck(D) ==
    \A t \in D :
        \/ /\ pc[t] = "executing"
           /\ \A c \in Calls : call[<<t, c>>] \in {"idle", "delegated", "waiting", "returned"}
           /\ \E c \in Calls : call[<<t, c>>] \in {"delegated", "waiting"} /\ target[<<t, c>>] \in D
        \/ /\ pc[t] = "queued"
           /\ LET holders == {u \in profiles : agent[u] = agent[t]}
              IN  Cardinality(holders) = profileMax[agent[t]] /\ holders \subseteq D
        \/ /\ pc[t] = "profiled"
           /\ Cardinality(slots) = MaxParallel /\ slots \subseteq D

(* What the calls of D wait for are tasks that D delegated.  The wait       *)
(* operation also takes the id of a stranger's task, of an ancestor or of   *)
(* the task itself, and then only a deadline may end it.                    *)
WaitsForChildren(D) ==
    \A t \in D, c \in Calls :
        call[<<t, c>>] \in {"delegated", "waiting"} => parent[target[<<t, c>>]] = t

(* Blocking nested delegation never makes tasks wait for one another in a   *)
(* circle that only a deadline breaks (withYieldedSlot).                    *)
NoCircularWait ==
    \A D \in SUBSET Tasks : Stuck(D) /\ WaitsForChildren(D) => D = {} \/ \E t \in D : CtxDone(t)

(* The same where an executor makes one blocking call at a time and no      *)
(* profile delegates that is delegated to.                                  *)
NestingNeverBlocks ==
    /\ Cardinality(setup.calls) = 1
    /\ \A a, b \in Agents : b \in delegateTo[a] => delegateTo[b] = {}
    => NoCircularWait

(* The tasks in memory stay within MaxTasks and the children a task has in  *)
(* memory within MaxChildren, also when a restart brings back tasks that    *)
(* retention had removed (Delegate, cleanupLocked, load).                   *)
StoreBounded ==
    /\ Cardinality(Live(status)) <= MaxTasks
    /\ \A p \in Tasks : Cardinality({t \in Live(status) : parent[t] = p}) <= MaxChildren

(* Cancel reaches every task it finds unfinished.                           *)
CancelReachesTask ==
    \A t \in asked : Terminal(status[t]) \/ status[t] = "gone" \/ CtxDone(t)

(* A task that is over and holds nothing.                                   *)
Ended(t) ==
    /\ pc[t] = "ended"
    /\ Terminal(status[t]) \/ status[t] = "gone"
    /\ t \notin slots \cup profiles

(* Every task ends and gives back what it held: no goroutine waits for ever *)
(* for a semaphore, a child or the snapshot, for its deadline reaches it.   *)
(* Each id is used once, so in the end all tasks have ended.                *)
EveryTaskEnds == <>[](Deadlines => \A t \in Tasks : status[t] = "none" \/ Ended(t))

(* The bounds of the runtime (docs/MULTI_AGENT.md:62): the semaphores and   *)
(* their types, an executor that works only with a slot, and the tasks and  *)
(* children in memory; and within these bounds nested delegation does not   *)
(* block itself.                                                            *)
BoundsKept == TypeOK /\ RunningHoldsSlot /\ StoreBounded /\ NestingNeverBlocks
=============================================================================
