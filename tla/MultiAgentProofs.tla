-------------------------- MODULE MultiAgentProofs --------------------------
(***************************************************************************)
(* Proofs about the multi-agent runtime, for every set of tasks, profiles  *)
(* and tool calls and every limit: the semaphores, the tasks in memory and *)
(* their children stay within their bounds across restarts, an executor at *)
(* work holds a slot, nested delegation in one blocking call does not      *)
(* block itself, and a finished task keeps its status.                     *)
(***************************************************************************)
EXTENDS MultiAgentSteps, FiniteSetTheorems

(* Sets of tasks and of calls are finite.                                  *)
LEMMA Counts == Counting
<1>1. ASSUME NEW S \in SUBSET Tasks
      PROVE  /\ IsFiniteSet(S) /\ Cardinality(S) \in Nat
             /\ \A R \in SUBSET S : Cardinality(R) <= Cardinality(S)
             /\ \A t \in Tasks : Cardinality(S \cup {t}) <= Cardinality(S) + 1
  <2>1. IsFiniteSet(S)
    BY MultiAgentAssumption, FS_Subset, Zenon
  <2>2. Cardinality(S) \in Nat
    BY <2>1, FS_CardinalityType, Zenon
  <2>3. \A R \in SUBSET S : Cardinality(R) <= Cardinality(S)
    BY <2>1, FS_Subset, Zenon
  <2>4. ASSUME NEW t \in Tasks
        PROVE  Cardinality(S \cup {t}) <= Cardinality(S) + 1
    <3>1. CASE t \in S
      <4>1. S \cup {t} = S
        BY <3>1, Zenon
      <4>2. Cardinality(S) <= Cardinality(S) + 1
        BY <2>2
      <4> QED
        BY <4>1, <4>2, Zenon
    <3>2. CASE t \notin S
      <4>1. Cardinality(S \cup {t}) = Cardinality(S) + 1
        BY <2>1, <3>2, FS_AddElement, Zenon
      <4>2. Cardinality(S) + 1 <= Cardinality(S) + 1
        BY <2>2
      <4> QED
        BY <4>1, <4>2, Zenon
    <3> QED
      BY <3>1, <3>2, Zenon
  <2> QED
    BY <2>1, <2>2, <2>3, <2>4, Zenon
<1>2. ASSUME NEW C \in SUBSET Calls, Cardinality(C) = 1
      PROVE  \E c : C = {c}
  <2>1. IsFiniteSet(C)
    BY MultiAgentAssumption, FS_Subset, Zenon
  <2> QED
    BY <1>2, <2>1, FS_Singleton, Zenon
<1> QED
  BY <1>1, <1>2, Zenon DEF Counting

(* A fresh runtime satisfies the invariant.                                 *)
LEMMA InitIInv == Init => IInv
<1> SUFFICES ASSUME Init
             PROVE  IInv
  BY Zenon
<1>0. IsFiniteSet({}) /\ Cardinality({}) = 0
  BY FS_EmptySet, Zenon
<1>1. (CHOOSE a \in Agents : TRUE) \in Agents
  BY MultiAgentAssumption, Zenon
<1>2. /\ status \in [Tasks -> Statuses] /\ agent \in [Tasks -> Agents] /\ parent \in [Tasks -> Tasks \cup {NoTask}]
      /\ ancestry \in [Tasks -> SUBSET Agents] /\ under \in [Tasks -> SUBSET Tasks] /\ pc \in [Tasks -> Stages]
      /\ snap \in [Tasks -> [Tasks -> Statuses] \cup {NoSnapshot}] /\ disk \in [Tasks -> Statuses]
  BY <1>1, Zenon DEF Init, NoStatus, Statuses, Stages
<1>3. depth \in [Tasks -> 0 .. MaxDepth] /\ restarts \in 0 .. MaxRestarts
  BY MultiAgentAssumption DEF Init, MaxRestarts
<1>4. Cardinality(slots) <= MaxParallel
  <2>1. MaxParallel \in Nat
    BY MultiAgentAssumption, Zenon DEF Init, MaxParallel
  <2> QED
    BY <1>0, <2>1 DEF Init
<1>5. ASSUME NEW a \in Agents
      PROVE  Cardinality({t \in profiles : agent[t] = a}) <= profileMax[a]
  <2>1. profileMax[a] \in Nat
    BY MultiAgentAssumption, Zenon DEF Init, profileMax
  <2>2. {t \in profiles : agent[t] = a} = {}
    BY Zenon DEF Init
  <2>3. 0 <= profileMax[a]
    BY <2>1
  <2> QED
    BY <1>0, <2>2, <2>3, Zenon
<1>6. /\ call \in [Tasks \X Calls -> CallStates]
      /\ target \in [Tasks \X Calls -> Tasks \cup {NoTask}]
      /\ \A x \in Tasks, c \in Calls : call[<<x, c>>] = "idle"
  BY Zenon DEF Init, CallStates
<1>7. TypeOK
  BY <1>2, <1>3, <1>4, <1>5, <1>6, Zenon DEF TypeOK, Init
<1>8. Staged /\ Delegated
  BY Zenon DEF Init, Staged, Delegated, NoStatus, Before, During, Leasing, After
<1>9. Calling
  BY <1>6, Zenon DEF Calling, Waiting
<1>10. Leased
  <2>1. \A x \in Tasks : pc[x] \notin Leasing
    BY Zenon DEF Init, During, Leasing
  <2> QED
    BY <1>6, <2>1, Zenon DEF Leased
<1>11. Saved
  <2>1. Live(NoStatus) = {}
    BY Zenon DEF Live, NoStatus
  <2>2. \A p \in Tasks : Children(NoStatus, p) = {}
    BY <2>1, Zenon DEF Children
  <2>3. 0 <= MaxTasks /\ 0 <= MaxChildren
    BY <1>7, SetupFacts
  <2>4. Within(NoStatus)
    BY <1>0, <2>1, <2>2, <2>3, Zenon DEF Within
  <2>5. Within(status) /\ Within(disk)
    BY <2>4, Zenon DEF Init
  <2> QED
    BY <2>5, Zenon DEF Init, Saved, Sound, NoStatus
<1> QED
  BY <1>7, <1>8, <1>9, <1>10, <1>11, Zenon DEF IInv

(* Every step of the runtime preserves the invariant.                       *)
LEMMA NextIInv == IInv /\ [Next]_vars => IInv'
<1> SUFFICES ASSUME Counting, IInv, [Next]_vars
             PROVE  IInv'
  BY Counts, Zenon
<1>1. ASSUME NEW old \in SUBSET Expirable, List(old)
      PROVE  IInv'
  BY <1>1, ListKeeps, Zenon
<1>2. ASSUME NEW old \in SUBSET Expirable, NEW t \in Tasks, NEW a \in Agents, DelegateRoot(t, a, old)
      PROVE  IInv'
  <2>1. Submit(t, a, NoTask, FALSE, old) /\ UNCHANGED <<slots, profiles, call, target>>
    BY <1>2, Zenon DEF DelegateRoot, semVars, callVars
  <2> QED
    BY <2>1, SubmitKeeps, MultiAgentAssumption, Zenon DEF IInv, TypeOK
<1>3. ASSUME NEW old \in SUBSET Expirable, NEW t \in Tasks, NEW a \in Agents, NEW p \in Tasks,
             DelegateDetached(p, t, a, old)
      PROVE  IInv'
  <2>1. Submit(t, a, p, FALSE, old) /\ pc[p] = "executing" /\ UNCHANGED <<slots, profiles, call, target>>
    BY <1>3, Zenon DEF DelegateDetached, semVars, callVars
  <2> QED
    BY <2>1, SubmitKeeps, Zenon DEF IInv, TypeOK
<1>4. ASSUME NEW old \in SUBSET Expirable, NEW t \in Tasks, NEW a \in Agents, NEW p \in Tasks, NEW c \in Calls,
             DelegateWait(p, c, t, a, old)
      PROVE  IInv'
  <2>1. /\ call[<<p, c>>] = "calling" /\ Submit(t, a, p, TRUE, old) /\ UNCHANGED <<slots, profiles>>
        /\ call' = [call EXCEPT ![<<p, c>>] = "delegated"] /\ target' = [target EXCEPT ![<<p, c>>] = t]
    BY <1>4, Zenon DEF DelegateWait, semVars
  <2>2. pc[p] = "executing"
    BY <2>1, Zenon DEF IInv, Calling
  <2>3. /\ call' \in [Tasks \X Calls -> CallStates]
        /\ target' \in [Tasks \X Calls -> Tasks \cup {NoTask}]
        /\ \A x \in Tasks, d \in Calls :
              \/ call'[<<x, d>>] = call[<<x, d>>] /\ target'[<<x, d>>] = target[<<x, d>>]
              \/ x = p /\ call[<<x, d>>] = "calling" /\ call'[<<x, d>>] = "delegated" /\ target'[<<x, d>>] = t
    BY <2>1, Zenon DEF IInv, TypeOK, CallStates
  <2>4. Submit(t, a, p, TRUE, old) /\ UNCHANGED <<slots, profiles>> /\ p \in Tasks \cup {NoTask} /\ TRUE \in BOOLEAN
    BY <2>1, Zenon
  <2> QED
    BY <2>2, <2>3, <2>4, SubmitKeeps, Zenon
<1>5. ASSUME NEW t \in Tasks, RunStep(t) \/ Return(t) \/ Cancel(t) \/ Deadline(t)
      PROVE  IInv'
  <2>1. CASE PersistWrite(t) \/ PersistError(t)
    BY <2>1, PersistEndsKeeps, Zenon DEF PersistWrite, PersistError
  <2>2. CASE GiveUp(t)
    BY <2>2, FinishKeeps DEF GiveUp, IInv, Calling
  <2>3. CASE Return(t)
    <3>1. pc[t] = "executing" /\ \A c \in Calls : call[<<t, c>>] = "idle"
      BY <2>3, Zenon DEF Return, IInv, Leased
    <3>2. PICK s \in {"completed", "failed", "canceled"} : Finish(t, s)
      BY <2>3, Zenon DEF Return
    <3> QED
      BY <3>1, <3>2, FinishKeeps, Zenon
  <2> QED
    BY <1>5, <2>1, <2>2, <2>3, RegisterKeeps, PersistReadKeeps, PersistSkipKeeps, AcquireProfileKeeps,
       AcquireSlotKeeps, WorkKeeps, CloseDoneKeeps, ExitKeeps, CancelKeeps, Zenon DEF RunStep
<1>6. ASSUME NEW p \in Tasks, NEW c \in Calls,
             \/ Yield(p, c) \/ CallStep(p, c) \/ WaitTimesOut(p, c)
             \/ \E t \in Tasks : WaitFor(p, c, t)
      PROVE  IInv'
  BY <1>6, YieldKeeps, WaitMoves, ReacquireKeeps, Zenon DEF CallStep
<1>7. CASE Restart
  BY <1>7, RestartKeeps, Zenon
<1>8. CASE UNCHANGED vars
  <2>1. UNCHANGED <<setup, status, agent, parent, depth, ancestry, done, cancels, under, cancelled, asked, pc, slots,
                    profiles, call, target, writer, snap, disk, restarts>>
    BY <1>8, Zenon DEF vars, taskVars, ctxVars, semVars, callVars, diskVars
  <2>2. TypeOK'
    BY <2>1, Zenon DEF IInv, TypeOK, MaxParallel, profileMax, MaxRestarts
  <2>3. Calling'
    BY <2>1, CallingFrame, Zenon DEF IInv, Known
  <2>4. Leased'
    BY <2>1, LeasedFrame, Zenon DEF IInv
  <2> QED
    BY <2>1, <2>2, <2>3, <2>4, CallFrame, Zenon DEF TypeOK
<1> QED
  BY <1>1, <1>2, <1>3, <1>4, <1>5, <1>6, <1>7, <1>8, Zenon DEF Next

(* The invariant holds throughout.                                          *)
LEMMA Invariant == Spec => []IInv
  BY InitIInv, NextIInv, PTL DEF Spec

-----------------------------------------------------------------------------
(* An executor that waits in its only call has given its slot back, and its *)
(* child is of a profile that does not delegate.  So no child waits in a    *)
(* call, nobody holds a slot and waits for one, and every holder of the     *)
(* profile a child queues for runs to its end.                              *)
LEMMA NoBlock == IInv => NestingNeverBlocks
<1> SUFFICES ASSUME IInv, Cardinality(setup.calls) = 1,
                    \A a, b \in Agents : b \in delegateTo[a] => delegateTo[b] = {},
                    NEW D \in SUBSET Tasks, Stuck(D), WaitsForChildren(D), D # {}
             PROVE  FALSE
  BY Zenon DEF NestingNeverBlocks, NoCircularWait
<1> DEFINE Blocked(t) == \E c \in Calls : call[<<t, c>>] \in Waiting /\ target[<<t, c>>] \in D
           Delegates(t) == delegateTo[agent[t]] # {}
<1>1. ASSUME NEW t \in D, Blocked(t)
      PROVE  t \notin slots /\ Delegates(t) /\ \E u \in D : ~Delegates(u)
  <2>1. PICK c \in Calls : call[<<t, c>>] \in Waiting /\ target[<<t, c>>] \in D
    BY <1>1, Zenon
  <2>2. t \notin slots
    BY <2>1, Zenon DEF IInv, Leased, Waiting
  <2>3. PICK u \in D : parent[u] = t /\ status[u] # "none"
    <3>1. parent[target[<<t, c>>]] = t /\ status[target[<<t, c>>]] # "none"
      BY <2>1 DEF IInv, Calling, WaitsForChildren, Waiting
    <3> QED
      BY <2>1, <3>1, Zenon
  <2>4. parent[u] # NoTask
    BY <2>3, MultiAgentAssumption, Zenon
  <2>5. agent[u] \in delegateTo[agent[t]] /\ agent[u] \in Agents /\ agent[t] \in Agents
    BY <2>3, <2>4, Zenon DEF IInv, Delegated, TypeOK
  <2> QED
    BY <2>2, <2>5, Zenon
<1>2. ASSUME NEW t \in D
      PROVE  pc[t] \in {"executing", "queued", "profiled"} /\ (pc[t] = "executing" => Blocked(t))
  BY Zenon DEF Stuck, Waiting
<1>3. ASSUME NEW t \in D
      PROVE  pc[t] # "profiled"
  <2> SUFFICES ASSUME pc[t] = "profiled"
               PROVE  FALSE
    BY Zenon
  <2>1. Cardinality(slots) = MaxParallel /\ slots \subseteq D
    BY Zenon DEF Stuck
  <2>2. slots # {}
    BY <2>1, SetupFacts, FS_EmptySet, Zenon DEF IInv
  <2>3. PICK h \in slots : TRUE
    BY <2>2, Zenon
  <2>4. pc[h] \notin {"queued", "profiled"}
    BY <2>1, Zenon DEF IInv, Staged, During, Leasing, After
  <2>5. Blocked(h)
    BY <1>2, <2>1, <2>4, Zenon
  <2> QED
    BY <1>1, <2>1, <2>5, Zenon
<1>4. ASSUME NEW t \in D
      PROVE  \E h \in D : Blocked(h) /\ agent[h] = agent[t]
  <2>1. CASE pc[t] = "executing"
    BY <1>2, <2>1, Zenon
  <2>2. CASE pc[t] = "queued"
    <3> DEFINE holders == {u \in profiles : agent[u] = agent[t]}
    <3>1. Cardinality(holders) = profileMax[agent[t]] /\ holders \subseteq D
      BY <2>2, Zenon DEF Stuck
    <3>2. profileMax[agent[t]] \in Nat \ {0}
      BY SetupFacts, Zenon DEF IInv, TypeOK
    <3>3. holders # {}
      <4> SUFFICES ASSUME holders = {}
                   PROVE  FALSE
        BY Zenon
      <4>1. Cardinality(holders) = 0
        BY FS_EmptySet, Zenon
      <4> HIDE DEF holders
      <4> QED
        BY <3>1, <3>2, <4>1, Zenon
    <3>4. PICK h \in holders : TRUE
      BY <3>3, Zenon
    <3>5. h \in D /\ h \in profiles /\ agent[h] = agent[t]
      BY <3>1, <3>4, Zenon
    <3>6. pc[h] # "queued"
      BY <3>5, Zenon DEF IInv, Staged, During, Leasing, After
    <3> QED
      BY <1>2, <1>3, <3>5, <3>6, Zenon
  <2> QED
    BY <1>2, <1>3, <2>1, <2>2, Zenon
<1>5. \A t \in D : Delegates(t)
  BY <1>1, <1>4
<1> QED
  BY <1>1, <1>4, <1>5, Zenon

(* The bounds of the runtime hold for every set of tasks, profiles and      *)
(* calls, every limit and every number of restarts: the two semaphores      *)
(* never have more holders than places (AcquireProfile, AcquireSlot and the *)
(* slot a call takes again), an executor at work has a slot                 *)
(* (withYieldedSlot), tasks and children in memory stay within their limits *)
(* although a restart brings back what retention removed (Delegate, load),  *)
(* and nested delegation in one call at a time does not block itself.       *)
THEOREM BoundsCorrect == Spec => []BoundsKept
<1>1. IInv => BoundsKept
  <2> SUFFICES ASSUME IInv
               PROVE  BoundsKept
    BY Zenon
  <2>1. TypeOK
    BY Zenon DEF IInv
  <2>2. RunningHoldsSlot
    BY Zenon DEF IInv, Leased, RunningHoldsSlot, During, Leasing
  <2>3. StoreBounded
    BY Zenon DEF IInv, Saved, Within, Children, StoreBounded
  <2> QED
    BY <2>1, <2>2, <2>3, NoBlock, Zenon DEF BoundsKept
<1> QED
  BY <1>1, Invariant, PTL

-----------------------------------------------------------------------------
(* A step that leaves the snapshots alone, changes no status that finish    *)
(* has persisted other than by retention, and persists none.                *)
Late == {"closing", "closed", "ended"}

Quiet ==
    /\ UNCHANGED <<setup, disk, snap>>
    /\ \A x \in Tasks :
          /\ pc[x] \in Late => status'[x] \in {status[x], "gone"}
          /\ status'[x] # "gone" /\ pc'[x] \in Late => pc[x] \in Late
          /\ status'[x] # "gone" /\ pc'[x] = "finished" /\ snap[x] # NoSnapshot =>
                pc[x] = "finished" /\ status'[x] = status[x]

LEMMA QuietSteps ==
    ASSUME IInv, [Next]_vars
    PROVE  \/ Quiet \/ Restart
           \/ \E t \in Tasks : PersistRead(t) \/ PersistWrite(t) \/ PersistError(t) \/ PersistSkip(t)
<1>0. /\ pc \in [Tasks -> Stages] /\ status \in [Tasks -> Statuses]
      /\ \A x \in Tasks : snap[x] # NoSnapshot => pc[x] \in {"created", "started", "finished"}
  BY Zenon DEF IInv, TypeOK, Saved
<1>1. ASSUME NEW old \in SUBSET Expirable, List(old)
      PROVE  Quiet
  BY <1>0, <1>1, Zenon DEF List, Cleaned, Quiet, diskVars
<1>2. ASSUME NEW old \in SUBSET Expirable, NEW t \in Tasks, NEW a \in Agents, NEW p, NEW wait,
             Submit(t, a, p, wait, old)
      PROVE  Quiet
  <2>1. pc[t] = "none"
    BY <1>2, Zenon DEF Submit, Fresh, IInv, Staged
  <2>2. /\ UNCHANGED <<setup, disk, snap>>
        /\ status' = [Cleaned(old) EXCEPT ![t] = "submitted"] /\ pc' = [pc EXCEPT ![t] = "created"]
    BY <1>2, Zenon DEF Submit, diskVars
  <2>3. /\ pc'[t] = "created"
        /\ \A x \in Tasks : x # t => pc'[x] = pc[x] /\ status'[x] \in {status[x], "gone"}
    BY <1>0, <2>2, Zenon DEF Cleaned
  <2> QED
    BY <2>1, <2>2, <2>3, Zenon DEF Quiet, Late
<1>3. ASSUME NEW t \in Tasks, NEW s, Finish(t, s), pc[t] \in {"queued", "profiled", "executing"}
      PROVE  Quiet
  BY <1>0, <1>3, Zenon DEF Finish, Quiet, Late, diskVars
<1>4. ASSUME NEW t \in Tasks, RunStep(t) \/ Return(t) \/ Cancel(t) \/ Deadline(t)
      PROVE  Quiet \/ PersistRead(t) \/ PersistWrite(t) \/ PersistError(t) \/ PersistSkip(t)
  <2>1. CASE Register(t) \/ AcquireProfile(t) \/ CloseDone(t) \/ Exit(t)
    BY <1>0, <2>1, Zenon DEF Register, AcquireProfile, CloseDone, Exit, Quiet, Late, diskVars
  <2>2. CASE AcquireSlot(t)
    BY <1>0, <2>2, Zenon DEF AcquireSlot, Quiet, Late, diskVars
  <2>6. CASE Work(t)
    BY <1>0, <2>6, Zenon DEF Work, Quiet, Late, diskVars
  <2>3. CASE Cancel(t) \/ Deadline(t)
    BY <1>0, <2>3, Zenon DEF Cancel, Deadline, Quiet, Late, diskVars
  <2>4. CASE GiveUp(t)
    BY <1>3, <2>4, Zenon DEF GiveUp
  <2>5. CASE Return(t)
    BY <1>3, <2>5, Zenon DEF Return
  <2> QED
    BY <1>4, <2>1, <2>2, <2>3, <2>4, <2>5, <2>6, Zenon DEF RunStep
<1>5. ASSUME UNCHANGED <<setup, disk, snap, status, pc>>
      PROVE  Quiet
  BY <1>5, Zenon DEF Quiet
<1>6. ASSUME NEW p \in Tasks, NEW c \in Calls,
             \/ Yield(p, c) \/ CallStep(p, c) \/ WaitTimesOut(p, c)
             \/ \E t \in Tasks : WaitFor(p, c, t)
      PROVE  Quiet
  BY <1>5, <1>6, Zenon DEF Yield, CallStep, Refused, WaitReturns, Reacquire, ReacquireFails, WaitTimesOut, WaitFor, diskVars
<1>7. CASE UNCHANGED vars
  BY <1>5, <1>7, Zenon DEF vars, diskVars
<1>8. ASSUME NEW old \in SUBSET Expirable, NEW t \in Tasks, NEW a \in Agents,
             \/ DelegateRoot(t, a, old)
             \/ \E p \in Tasks : DelegateDetached(p, t, a, old)
             \/ \E p \in Tasks, c \in Calls : DelegateWait(p, c, t, a, old)
      PROVE  Quiet
  BY <1>2, <1>8, Zenon DEF DelegateRoot, DelegateDetached, DelegateWait
<1> QED
  BY <1>1, <1>4, <1>6, <1>7, <1>8, Zenon DEF Next

LEMMA InitFinal == Init => Final
  BY Zenon DEF Init, Final, NoStatus

(* finish writes its snapshot before it closes the done channel, and        *)
(* persist reads and writes under its lock, so no older content overwrites  *)
(* a status that was written.                                               *)
LEMMA NextFinal ==
    ASSUME IInv, Final, [Next]_vars
    PROVE  Final'
<1> SUFFICES ASSUME ~PersistFails'
             PROVE  /\ ~Persistent' => \A t \in Tasks : disk'[t] = "none"
                    /\ Persistent' =>
                          \A t \in Tasks : status'[t] # "gone" =>
                             /\ pc'[t] \in Late =>
                                   /\ disk'[t] # "none" /\ Recovered(disk'[t]) = status'[t]
                                   /\ \A w \in Tasks : snap'[w] # NoSnapshot =>
                                         snap'[w][t] # "none" /\ Recovered(snap'[w][t]) = status'[t]
                             /\ pc'[t] = "finished" /\ snap'[t] # NoSnapshot =>
                                   snap'[t][t] # "none" /\ Recovered(snap'[t][t]) = status'[t]
  BY Zenon DEF Final, Recovers, Recovered, Late
<1>0. /\ setup' = setup => Persistent' = Persistent /\ PersistFails' = PersistFails
      /\ pc \in [Tasks -> Stages]
      /\ \A x \in Tasks : snap[x] # NoSnapshot => Persistent /\ writer = x /\ pc[x] \in {"created", "started", "finished"}
  BY Zenon DEF Persistent, PersistFails, IInv, TypeOK, Saved
<1>1. ~PersistFails =>
        /\ ~Persistent => \A t \in Tasks : disk[t] = "none"
        /\ Persistent =>
             \A t \in Tasks : status[t] # "gone" =>
                /\ pc[t] \in Late =>
                      /\ disk[t] # "none" /\ Recovered(disk[t]) = status[t]
                      /\ \A w \in Tasks : snap[w] # NoSnapshot =>
                            snap[w][t] # "none" /\ Recovered(snap[w][t]) = status[t]
                /\ pc[t] = "finished" /\ snap[t] # NoSnapshot =>
                      snap[t][t] # "none" /\ Recovered(snap[t][t]) = status[t]
  BY Zenon DEF Final, Recovers, Late
<1> HIDE DEF Recovered
<1> DEFINE Goal ==
      /\ ~Persistent' => \A t \in Tasks : disk'[t] = "none"
      /\ Persistent' =>
            \A t \in Tasks : status'[t] # "gone" =>
               /\ pc'[t] \in Late =>
                     /\ disk'[t] # "none" /\ Recovered(disk'[t]) = status'[t]
                     /\ \A w \in Tasks : snap'[w] # NoSnapshot =>
                           snap'[w][t] # "none" /\ Recovered(snap'[w][t]) = status'[t]
               /\ pc'[t] = "finished" /\ snap'[t] # NoSnapshot =>
                     snap'[t][t] # "none" /\ Recovered(snap'[t][t]) = status'[t]
<1>2. CASE Quiet
  <2>1. UNCHANGED <<setup, disk, snap>>
    BY <1>2, Zenon DEF Quiet
  <2>2. ASSUME Persistent, NEW t \in Tasks, status'[t] # "gone", pc'[t] \in Late
        PROVE  /\ disk'[t] # "none" /\ Recovered(disk'[t]) = status'[t]
               /\ \A w \in Tasks : snap'[w] # NoSnapshot =>
                     snap'[w][t] # "none" /\ Recovered(snap'[w][t]) = status'[t]
    <3>1. pc[t] \in Late /\ status'[t] = status[t]
      BY <1>2, <2>2, Zenon DEF Quiet
    <3> QED
      BY <1>0, <1>1, <2>1, <2>2, <3>1
  <2>3. ASSUME Persistent, NEW t \in Tasks, status'[t] # "gone", pc'[t] = "finished", snap'[t] # NoSnapshot
        PROVE  snap'[t][t] # "none" /\ Recovered(snap'[t][t]) = status'[t]
    <3>1. pc[t] = "finished" /\ status'[t] = status[t]
      BY <1>2, <2>1, <2>3, Zenon DEF Quiet
    <3> QED
      BY <1>0, <1>1, <2>1, <2>3, <3>1
  <2> QED
    BY <1>0, <1>1, <2>1, <2>2, <2>3
<1>3. ASSUME NEW t \in Tasks, PersistRead(t)
      PROVE  Goal
  <2>1. /\ UNCHANGED <<setup, status, pc, disk>> /\ Persistent /\ snap' = [snap EXCEPT ![t] = Snapshot]
        /\ writer = NoTask
    BY <1>3, Zenon DEF PersistRead
  <2>2. snap'[t] = Snapshot /\ \A w \in Tasks : w # t => snap'[w] = NoSnapshot
    BY <1>0, <2>1, MultiAgentAssumption, Zenon DEF IInv, TypeOK
  <2>3. ASSUME NEW x \in Tasks, status[x] # "gone", pc[x] \in Late \cup {"finished"}
        PROVE  Snapshot[x] # "none" /\ Recovered(Snapshot[x]) = status[x]
    BY <2>3, Zenon DEF IInv, Staged, Late, After, Terminal, Snapshot, Recovered
  <2>4. ~PersistFails
    BY <1>0, <2>1, Zenon
  <2>5. ASSUME NEW x \in Tasks, status'[x] # "gone", pc'[x] \in Late
        PROVE  /\ disk'[x] # "none" /\ Recovered(disk'[x]) = status'[x]
               /\ \A w \in Tasks : snap'[w] # NoSnapshot =>
                     snap'[w][x] # "none" /\ Recovered(snap'[w][x]) = status'[x]
    <3>1. status[x] # "gone" /\ pc[x] \in Late /\ status'[x] = status[x] /\ disk'[x] = disk[x]
      BY <2>1, <2>5, Zenon
    <3>2. disk[x] # "none" /\ Recovered(disk[x]) = status[x]
      BY <1>1, <2>1, <2>4, <3>1, Zenon
    <3> QED
      BY <2>2, <2>3, <3>1, <3>2, Zenon
  <2>6. ASSUME NEW x \in Tasks, status'[x] # "gone", pc'[x] = "finished", snap'[x] # NoSnapshot
        PROVE  snap'[x][x] # "none" /\ Recovered(snap'[x][x]) = status'[x]
    <3>1. x = t /\ snap'[x] = Snapshot /\ status'[x] = status[x] /\ pc[x] = "finished"
      BY <2>1, <2>2, <2>6, Zenon
    <3> QED
      BY <2>3, <2>6, <3>1, Zenon
  <2>7. Persistent'
    BY <1>0, <2>1, Zenon
  <2> QED
    BY <2>5, <2>6, <2>7, Zenon
<1>4. ASSUME NEW t \in Tasks, PersistWrite(t)
      PROVE  Goal
  <2>1. /\ UNCHANGED <<setup, status>> /\ snap[t] # NoSnapshot /\ snap' = [snap EXCEPT ![t] = NoSnapshot]
        /\ pc' = [pc EXCEPT ![t] = AfterPersist[pc[t]]] /\ disk' = snap[t]
    BY <1>4, Zenon DEF PersistWrite, PersistEnds
  <2>2. \A w \in Tasks : snap'[w] = NoSnapshot
    BY <1>0, <2>1, Zenon DEF IInv, TypeOK
  <2>3. pc'[t] \in Late => pc[t] = "finished"
    BY <1>0, <2>1, Zenon DEF AfterPersist, Late
  <2>4. \A x \in Tasks : x # t => pc'[x] = pc[x]
    BY <1>0, <2>1, Zenon
  <2>5. ~PersistFails /\ Persistent /\ Persistent'
    BY <1>0, <2>1
  <2>6. ASSUME NEW x \in Tasks, status'[x] # "gone", pc'[x] \in Late
        PROVE  disk'[x] # "none" /\ Recovered(disk'[x]) = status'[x]
    <3>1. status[x] # "gone" /\ status'[x] = status[x] /\ disk'[x] = snap[t][x]
      BY <2>1, <2>6, Zenon
    <3>2. CASE x = t
      BY <1>1, <2>1, <2>3, <2>5, <2>6, <3>1, <3>2, Zenon
    <3>3. CASE x # t
      <4>1. pc[x] \in Late
        BY <2>4, <2>6, <3>3, Zenon
      <4> QED
        BY <1>1, <2>1, <2>5, <3>1, <4>1, Zenon
    <3> QED
      BY <3>2, <3>3, Zenon
  <2> QED
    BY <2>2, <2>5, <2>6, Zenon
<1>5. ASSUME NEW t \in Tasks, PersistError(t)
      PROVE  FALSE
  BY <1>0, <1>5, Zenon DEF PersistError, PersistEnds
<1>6. ASSUME NEW t \in Tasks, PersistSkip(t)
      PROVE  Goal
  <2>1. ~Persistent /\ setup' = setup /\ disk' = disk
    BY <1>6, Zenon DEF PersistSkip, diskVars
  <2> QED
    BY <1>0, <1>1, <2>1
<1>7. CASE Restart
  <2>1. /\ UNCHANGED <<setup, disk>> /\ \A x \in Tasks : snap'[x] = NoSnapshot
        /\ \A x \in Tasks :
              /\ status'[x] = IF disk[x] # "none" THEN Recovered(disk[x])
                              ELSE IF status[x] = "none" THEN "none" ELSE "gone"
              /\ pc'[x] = IF status[x] = "none" THEN "none" ELSE "ended"
    BY <1>7, Zenon DEF Restart
  <2> QED
    BY <1>0, <1>1, <2>1 DEF Late
<1> QED
  BY <1>2, <1>3, <1>4, <1>5, <1>6, <1>7, QuietSteps, Zenon

(* No step changes the status of a task whose done channel is closed, other *)
(* than by removing it.                                                     *)
LEMMA DoneStep ==
    ASSUME IInv, Final, [Next]_vars, ~PersistFails, NEW t \in done, status[t] # "gone"
    PROVE  status'[t] \in {status[t], "gone"}
<1>1. t \in Tasks /\ pc[t] \in {"closed", "ended"} /\ status[t] # "none"
  BY Zenon DEF IInv, TypeOK, Staged
<1>2. CASE Quiet
  BY <1>1, <1>2, Zenon DEF Quiet, Late
<1>3. CASE Restart
  <2>1. status'[t] = IF disk[t] # "none" THEN Recovered(disk[t]) ELSE "gone"
    BY <1>1, <1>3, Zenon DEF Restart
  <2>2. Persistent => disk[t] # "none" /\ Recovered(disk[t]) = status[t]
    BY <1>1, Zenon DEF Final, Recovers
  <2>3. ~Persistent => disk[t] = "none"
    BY <1>1, Zenon DEF Final
  <2> QED
    BY <2>1, <2>2, <2>3, Zenon
<1>4. ASSUME NEW u \in Tasks, PersistRead(u) \/ PersistWrite(u) \/ PersistError(u) \/ PersistSkip(u)
      PROVE  status' = status
  BY <1>4, Zenon DEF PersistRead, PersistWrite, PersistError, PersistSkip, PersistEnds
<1> QED
  BY <1>2, <1>3, <1>4, QuietSteps, Zenon

(* A task whose done channel is closed keeps its status until retention     *)
(* removes it, across every crash and restart, however many goroutines      *)
(* persist at the same time: finish closes the channel after persist.       *)
THEOREM DoneFinalCorrect == Spec => DoneIsFinal
<1>1. IInv /\ Final /\ [Next]_vars =>
        [~PersistFails => \A t \in done : status[t] # "gone" => status'[t] \in {status[t], "gone"}]_vars
  BY DoneStep, Zenon
<1>2. IInv /\ Final /\ [Next]_vars => Final'
  BY NextFinal, Zenon
<1> QED
  BY <1>1, <1>2, InitFinal, Invariant, PTL DEF Spec, DoneIsFinal
=============================================================================
