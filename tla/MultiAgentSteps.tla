-------------------------- MODULE MultiAgentSteps --------------------------
(***************************************************************************)
(* The inductive invariant of the multi-agent runtime (IInv), and lemmas   *)
(* saying that every step keeps it, one lemma per action: an executor      *)
(* goroutine, persist, delegating calls, the creation of a task and the    *)
(* restart.  MultiAgentProofs draws the conclusions.                       *)
(***************************************************************************)
EXTENDS MultiAgent, TLAPS

Before == {"created", "unregistered", "queued", "profiled", "leased"}
During == {"started", "executing"}
Leasing == {"leased"} \cup During
After == {"finished", "closing", "closed", "ended"}

(* Where a goroutine is says what status its task has and what it may hold. *)
Staged ==
    \A t \in Tasks :
        /\ pc[t] = "none" <=> status[t] = "none"
        /\ pc[t] \in Before => status[t] = "submitted"
        /\ pc[t] \in During => status[t] = "working"
        /\ pc[t] \in After => Terminal(status[t]) \/ status[t] = "gone"
        /\ t \in slots => pc[t] \in (Leasing \cup After) \ {"ended"}
        /\ t \in profiles => pc[t] \in ({"profiled"} \cup Leasing \cup After) \ {"ended"}
        /\ t \in done => pc[t] \in {"closed", "ended"}

(* A task with a parent is one its parent may delegate to.                  *)
Delegated ==
    \A t \in Tasks :
        status[t] # "none" /\ parent[t] # NoTask => agent[t] \in delegateTo[agent[parent[t]]] /\ status[parent[t]] # "none"

(* Only an executor is inside calls; it waits for a task that was created.  *)
Waiting == {"delegated", "waiting"}

Calling ==
    \A p \in Tasks, c \in Calls :
        /\ call[<<p, c>>] # "idle" => pc[p] = "executing" /\ c \in setup.calls
        /\ call[<<p, c>>] = "expired" => TimedWaits
        /\ call[<<p, c>>] \in Waiting =>
              target[<<p, c>>] \in Tasks /\ status[target[<<p, c>>]] # "none"

(* An executor between its calls has a slot; one whose only call is not     *)
(* over has none; the calls of a batch are cleared with the last of them.   *)
Leased ==
    /\ ~TimedWaits =>
          \A t \in Tasks :
              /\ pc[t] \in Leasing
              /\ \A c \in Calls : call[<<t, c>>] \in {"idle", "returned"}
              /\ ~CtxDone(t)
              => t \in slots
    /\ Cardinality(setup.calls) = 1 =>
          \A t \in Tasks, c \in Calls : call[<<t, c>>] # "idle" => t \notin slots /\ call[<<t, c>>] # "returned"
    /\ \A t \in Tasks :
          (\A c \in Calls : call[<<t, c>>] \in {"idle", "returned"}) => \A c \in Calls : call[<<t, c>>] = "idle"

(* A snapshot, written or about to be, holds no task that never was and     *)
(* stays within the bounds.                                                 *)
Children(st, p) == {t \in Live(st) : parent[t] = p}
Within(st) ==
    /\ Cardinality(Live(st)) <= MaxTasks
    /\ \A p \in Tasks : Cardinality(Children(st, p)) <= MaxChildren

Sound(st) ==
    /\ \A t \in Tasks : st[t] # "gone" /\ (st[t] # "none" => status[t] # "none")
    /\ Within(st)

Saved ==
    /\ Within(status)
    /\ Sound(disk)
    /\ \A w \in Tasks : snap[w] # NoSnapshot =>
          /\ Persistent /\ writer = w /\ pc[w] \in {"created", "started", "finished"}
          /\ snap[w] \in [Tasks -> Statuses] /\ Sound(snap[w])

IInv == TypeOK /\ Staged /\ Delegated /\ Calling /\ Leased /\ Saved

(* Once finish has written its snapshot, every snapshot recovers the task   *)
(* with the status it has.                                                  *)
Recovers(st, t) == st[t] # "none" /\ Recovered(st[t]) = status[t]

Final ==
    ~PersistFails =>
        /\ ~Persistent => \A t \in Tasks : disk[t] = "none"
        /\ Persistent =>
             \A t \in Tasks : status[t] # "gone" =>
                /\ pc[t] \in {"closing", "closed", "ended"} =>
                      /\ Recovers(disk, t)
                      /\ \A w \in Tasks : snap[w] # NoSnapshot => Recovers(snap[w], t)
                /\ pc[t] = "finished" /\ snap[t] # NoSnapshot => Recovers(snap[t], t)

-----------------------------------------------------------------------------
(* What the proofs need to know of the sizes of sets of tasks and calls;    *)
(* MultiAgentProofs proves it from the theorems on finite sets.             *)
Counting ==
    /\ \A S \in SUBSET Tasks :
          /\ IsFiniteSet(S) /\ Cardinality(S) \in Nat
          /\ \A R \in SUBSET S : Cardinality(R) <= Cardinality(S)
          /\ \A t \in Tasks : Cardinality(S \cup {t}) <= Cardinality(S) + 1
    /\ \A C \in SUBSET Calls : Cardinality(C) = 1 => \E c : C = {c}

LEMMA TaskSets ==
    ASSUME Counting, NEW S \in SUBSET Tasks
    PROVE  /\ IsFiniteSet(S) /\ Cardinality(S) \in Nat
           /\ \A R \in SUBSET S : Cardinality(R) <= Cardinality(S)
           /\ \A t \in Tasks : Cardinality(S \cup {t}) <= Cardinality(S) + 1
  BY Zenon DEF Counting

LEMMA OneCall ==
    ASSUME Counting, NEW C \in SUBSET Calls, Cardinality(C) = 1
    PROVE  \E c : C = {c}
  BY Zenon DEF Counting

(* What the assumption says of a configuration.                             *)
LEMMA SetupFacts ==
    ASSUME TypeOK
    PROVE  /\ MaxParallel \in Nat \ {0} /\ MaxChildren \in Nat \ {0} /\ MaxTasks \in Nat \ {0}
           /\ profileMax \in [Agents -> Nat \ {0}] /\ delegateTo \in [Agents -> SUBSET Agents]
           /\ setup.calls \subseteq Calls /\ setup.tasks \subseteq Tasks /\ MaxRestarts \in Nat
           /\ TimedWaits \in BOOLEAN /\ Persistent \in BOOLEAN /\ PersistFails \in BOOLEAN
<1>1. setup \in Setups
  BY Zenon DEF TypeOK
<1> QED
  BY <1>1, MultiAgentAssumption, Zenon DEF MaxParallel, MaxChildren, MaxTasks, profileMax, delegateTo, MaxRestarts,
       TimedWaits, Persistent, PersistFails

(* No task comes to be or is forgotten.                                     *)
Known == \A x \in Tasks : status'[x] = "none" <=> status[x] = "none"

LEMMA DelegatedFrame ==
    ASSUME TypeOK, Delegated, UNCHANGED <<setup, agent, parent>>, Known
    PROVE  Delegated'
  BY DEF TypeOK, Delegated, delegateTo, Known

LEMMA CallingFrame ==
    ASSUME TypeOK, Calling, UNCHANGED <<setup, parent, call, target>>, Known,
           \A x \in Tasks : pc[x] = "executing" =>
              pc'[x] = "executing" \/ \A c \in Calls : call[<<x, c>>] = "idle"
    PROVE  Calling'
<1>1. TimedWaits' = TimedWaits
  BY Zenon DEF TimedWaits
<1>2. ASSUME NEW p \in Tasks, NEW c \in Calls
      PROVE  /\ call'[<<p, c>>] # "idle" => pc'[p] = "executing" /\ c \in setup'.calls
             /\ call'[<<p, c>>] = "expired" => TimedWaits'
             /\ call'[<<p, c>>] \in Waiting =>
                   target'[<<p, c>>] \in Tasks /\ status'[target'[<<p, c>>]] # "none"
  <2>1. call'[<<p, c>>] = call[<<p, c>>] /\ target'[<<p, c>>] = target[<<p, c>>]
    BY Zenon
  <2> QED
    BY <1>1, <2>1 DEF Calling, Known
<1> QED
  BY <1>2, Zenon DEF Calling

LEMMA LeasedFrame ==
    ASSUME Leased, UNCHANGED <<setup, under, call>>, cancelled \subseteq cancelled', slots' \subseteq slots,
           \A x \in Tasks : pc'[x] \in Leasing => pc[x] \in Leasing /\ (x \in slots => x \in slots')
    PROVE  Leased'
<1>1. \A x \in Tasks : CtxDone(x) => CtxDone(x)'
  BY Zenon DEF CtxDone
<1> HIDE DEF CtxDone
<1> QED
  BY <1>1, Zenon DEF Leased, TimedWaits

(* Fewer tasks, and the same parents, stay within the bounds.               *)
LEMMA WithinFrame ==
    ASSUME Counting, TypeOK, UNCHANGED <<setup, parent>>, NEW a, NEW b, Within(a), Live(b) \subseteq Live(a)
    PROVE  /\ Cardinality(Live(b)) <= MaxTasks'
           /\ \A p \in Tasks : Cardinality({t \in Live(b) : parent'[t] = p}) <= MaxChildren'
<1>1. MaxTasks' = MaxTasks /\ MaxChildren' = MaxChildren /\ MaxTasks \in Nat /\ MaxChildren \in Nat
  BY SetupFacts, Zenon DEF MaxTasks, MaxChildren
<1>2. Live(a) \in SUBSET Tasks /\ Live(b) \in SUBSET Tasks
  BY Zenon DEF Live
<1>3. Cardinality(Live(b)) <= MaxTasks
  BY <1>1, <1>2, TaskSets DEF Within
<1>4. ASSUME NEW p \in Tasks
      PROVE  Cardinality({t \in Live(b) : parent'[t] = p}) <= MaxChildren
  <2> DEFINE B == {t \in Live(b) : parent'[t] = p}
  <2>1. B \in SUBSET Children(a, p) /\ Children(a, p) \in SUBSET Tasks
    BY <1>2, Zenon DEF Children
  <2>2. Cardinality(Children(a, p)) <= MaxChildren
    BY Zenon DEF Within
  <2> HIDE DEF B
  <2>3. Cardinality(B) <= MaxChildren
    BY <1>1, <2>1, <2>2, TaskSets
  <2> QED
    BY <2>3, Zenon DEF B
<1> QED
  BY <1>1, <1>3, <1>4, Zenon

LEMMA SavedFrame ==
    ASSUME Counting, TypeOK, Saved, UNCHANGED <<setup, parent, writer, snap, disk>>, Known,
           Live(status') \subseteq Live(status),
           \A x \in Tasks : snap[x] # NoSnapshot => pc'[x] = pc[x]
    PROVE  Saved'
<1>1. Within(status)'
  <2>1. Within(status)
    BY Zenon DEF Saved
  <2> QED
    BY <2>1, WithinFrame DEF Within, Children, Live
<1>2. Sound(disk)'
  <2>1. Sound(disk) /\ Within(disk)
    BY Zenon DEF Saved, Sound
  <2>2. Within(disk)'
    BY <2>1, WithinFrame DEF Within, Children, Live
  <2> QED
    BY <2>1, <2>2, Zenon DEF Sound, Known
<1>3. ASSUME NEW w \in Tasks, snap[w] # NoSnapshot
      PROVE  /\ Persistent' /\ writer' = w /\ pc'[w] \in {"created", "started", "finished"}
             /\ snap'[w] \in [Tasks -> Statuses] /\ Sound(snap[w])'
  <2>1. /\ Persistent /\ writer = w /\ pc[w] \in {"created", "started", "finished"}
        /\ snap[w] \in [Tasks -> Statuses] /\ Sound(snap[w]) /\ Within(snap[w])
    BY <1>3, Zenon DEF Saved, Sound
  <2>2. Within(snap[w])'
    BY <2>1, WithinFrame DEF Within, Children, Live
  <2>3. Sound(snap[w])'
    BY <2>1, <2>2, Zenon DEF Sound, Known
  <2> QED
    BY <1>3, <2>1, <2>3, Zenon DEF Persistent
<1> QED
  BY <1>1, <1>2, <1>3, Zenon DEF Saved

(* Giving back a slot keeps a semaphore within its bound.                   *)
LEMMA FewerSlots ==
    ASSUME Counting, TypeOK, slots' \subseteq slots
    PROVE  Cardinality(slots') <= MaxParallel
<1>1. slots \in SUBSET Tasks /\ slots' \in SUBSET slots /\ Cardinality(slots) <= MaxParallel /\ MaxParallel \in Nat
  BY SetupFacts, Zenon DEF TypeOK
<1>2. Cardinality(slots') <= Cardinality(slots) /\ Cardinality(slots) \in Nat /\ Cardinality(slots') \in Nat
  BY <1>1, TaskSets, Zenon
<1> QED
  BY <1>1, <1>2

LEMMA FewerProfiles ==
    ASSUME Counting, TypeOK, profiles' \subseteq profiles, UNCHANGED agent, NEW a \in Agents
    PROVE  Cardinality({u \in profiles' : agent[u] = a}) <= profileMax[a]
<1> DEFINE H == {u \in profiles : agent[u] = a}
           K == {u \in profiles' : agent[u] = a}
<1>1. H \in SUBSET Tasks /\ K \in SUBSET H /\ K \in SUBSET Tasks /\ Cardinality(H) <= profileMax[a] /\ profileMax[a] \in Nat
  BY SetupFacts, Zenon DEF TypeOK
<1> HIDE DEF H, K
<1>2. Cardinality(K) <= Cardinality(H) /\ Cardinality(H) \in Nat /\ Cardinality(K) \in Nat
  BY <1>1, TaskSets, Zenon
<1>3. Cardinality(K) <= profileMax[a]
  BY <1>1, <1>2
<1> QED
  BY <1>3, Zenon DEF K

(* The goroutine of a task goes on.                                         *)
LEMMA RegisterKeeps ==
    ASSUME Counting, IInv, NEW t \in Tasks, Register(t)
    PROVE  IInv'
<1>0. /\ pc[t] = "unregistered" /\ pc' = [pc EXCEPT ![t] = "queued"] /\ cancels' = cancels \cup {t}
      /\ UNCHANGED <<setup, status, agent, parent, depth, ancestry, done, under, cancelled, asked, slots, profiles, call, target, writer, snap, disk, restarts>>
  BY Zenon DEF Register, taskVars, ctxVars, semVars, callVars, diskVars
<1>1. TypeOK'
  BY <1>0, Zenon DEF IInv, TypeOK, Stages, Statuses, MaxParallel, profileMax, MaxRestarts
<1>2. Staged'
  BY <1>0 DEF IInv, TypeOK, Staged, Before, During, Leasing, After, Terminal
<1>3. Known
  BY <1>0, Zenon DEF Known
<1>4. Delegated'
  BY <1>0, <1>3, DelegatedFrame, Zenon DEF IInv
<1>5. Calling'
  BY <1>0, <1>3, CallingFrame, Zenon DEF IInv, TypeOK
<1>6. Leased'
  BY <1>0, LeasedFrame, Zenon DEF IInv, TypeOK, During, Leasing
<1>7. Saved'
  <2>1. Live(status') \subseteq Live(status)
    BY <1>0, Zenon DEF Live
  <2>2. \A x \in Tasks : snap[x] # NoSnapshot => pc'[x] = pc[x]
    BY <1>0, Zenon DEF IInv, TypeOK, Saved
  <2> QED
    BY <1>0, <1>3, <2>1, <2>2, SavedFrame, Zenon DEF IInv
<1> QED
  BY <1>1, <1>2, <1>4, <1>5, <1>6, <1>7, Zenon DEF IInv

LEMMA PersistSkipKeeps ==
    ASSUME Counting, IInv, NEW t \in Tasks, PersistSkip(t)
    PROVE  IInv'
<1>0. /\ ~Persistent /\ pc[t] \in {"created", "started", "finished"} /\ pc' = [pc EXCEPT ![t] = AfterPersist[pc[t]]]
      /\ pc[t] = "created" => AfterPersist[pc[t]] = "unregistered"
      /\ pc[t] = "started" => AfterPersist[pc[t]] = "executing"
      /\ pc[t] = "finished" => AfterPersist[pc[t]] = "closing"
      /\ UNCHANGED <<setup, status, agent, parent, depth, ancestry, done, cancels, under, cancelled, asked, slots, profiles, call, target, writer, snap, disk, restarts>>
  BY Zenon DEF PersistSkip, AfterPersist, taskVars, ctxVars, semVars, callVars, diskVars
<1>1. TypeOK'
  BY <1>0, Zenon DEF IInv, TypeOK, Stages, Statuses, MaxParallel, profileMax, MaxRestarts
<1>2. Staged'
  BY <1>0 DEF IInv, TypeOK, Staged, Before, During, Leasing, After, Terminal
<1>3. Known
  BY <1>0, Zenon DEF Known
<1>4. Delegated'
  BY <1>0, <1>3, DelegatedFrame, Zenon DEF IInv
<1>5. Calling'
  BY <1>0, <1>3, CallingFrame, Zenon DEF IInv, TypeOK
<1>6. Leased'
  BY <1>0, LeasedFrame, Zenon DEF IInv, TypeOK, During, Leasing
<1>7. Saved'
  <2>1. Live(status') \subseteq Live(status)
    BY <1>0, Zenon DEF Live
  <2>2. \A x \in Tasks : snap[x] # NoSnapshot => pc'[x] = pc[x]
    BY <1>0, Zenon DEF IInv, TypeOK, Saved
  <2> QED
    BY <1>0, <1>3, <2>1, <2>2, SavedFrame, Zenon DEF IInv
<1> QED
  BY <1>1, <1>2, <1>4, <1>5, <1>6, <1>7, Zenon DEF IInv

LEMMA AcquireProfileKeeps ==
    ASSUME Counting, IInv, NEW t \in Tasks, AcquireProfile(t)
    PROVE  IInv'
<1>0. /\ pc[t] = "queued" /\ pc' = [pc EXCEPT ![t] = "profiled"] /\ profiles' = profiles \cup {t}
      /\ Cardinality({u \in profiles : agent[u] = agent[t]}) < profileMax[agent[t]]
      /\ UNCHANGED <<setup, status, agent, parent, depth, ancestry, done, cancels, under, cancelled, asked, slots, call, target, writer, snap, disk, restarts>>
  BY Zenon DEF AcquireProfile, taskVars, ctxVars, semVars, callVars, diskVars
<1>1. TypeOK'
  <2>1. ASSUME NEW a \in Agents
        PROVE  Cardinality({u \in profiles' : agent[u] = a}) <= profileMax[a]
    <3> DEFINE H == {u \in profiles : agent[u] = a}
    <3>1. Cardinality(H) <= profileMax[a] /\ profileMax[a] \in Nat /\ H \in SUBSET Tasks
      BY SetupFacts, Zenon DEF IInv, TypeOK
    <3>2. CASE a = agent[t]
      <4>1. {u \in profiles' : agent[u] = a} = H \cup {t}
        BY <1>0, <3>2, Zenon
      <4>2. Cardinality(H) < profileMax[a] /\ Cardinality(H \cup {t}) <= Cardinality(H) + 1 /\ Cardinality(H) \in Nat
        BY <1>0, <3>1, <3>2, TaskSets, Zenon
      <4>3. Cardinality(H \cup {t}) \in Nat
        BY <3>1, TaskSets, Zenon
      <4> HIDE DEF H
      <4>4. Cardinality(H \cup {t}) <= profileMax[a]
        BY <3>1, <4>2, <4>3
      <4> QED
        BY <4>1, <4>4, Zenon
    <3>3. CASE a # agent[t]
      <4>1. {u \in profiles' : agent[u] = a} = H
        BY <1>0, <3>3, Zenon
      <4> QED
        BY <3>1, <4>1, Zenon
    <3> QED
      BY <3>2, <3>3, Zenon
  <2>2. profiles' \subseteq Tasks /\ pc' \in [Tasks -> Stages]
    BY <1>0, Zenon DEF IInv, TypeOK, Stages
  <2> QED
    BY <1>0, <2>1, <2>2, Zenon DEF IInv, TypeOK, MaxParallel, profileMax, MaxRestarts
<1>2. Staged'
  BY <1>0 DEF IInv, TypeOK, Staged, Before, During, Leasing, After, Terminal
<1>3. Known
  BY <1>0, Zenon DEF Known
<1>4. Delegated'
  BY <1>0, <1>3, DelegatedFrame, Zenon DEF IInv
<1>5. Calling'
  BY <1>0, <1>3, CallingFrame, Zenon DEF IInv, TypeOK
<1>6. Leased'
  BY <1>0, LeasedFrame, Zenon DEF IInv, TypeOK, During, Leasing
<1>7. Saved'
  <2>1. Live(status') \subseteq Live(status)
    BY <1>0, Zenon DEF Live
  <2>2. \A x \in Tasks : snap[x] # NoSnapshot => pc'[x] = pc[x]
    BY <1>0, Zenon DEF IInv, TypeOK, Saved
  <2> QED
    BY <1>0, <1>3, <2>1, <2>2, SavedFrame, Zenon DEF IInv
<1> QED
  BY <1>1, <1>2, <1>4, <1>5, <1>6, <1>7, Zenon DEF IInv

LEMMA AcquireSlotKeeps ==
    ASSUME Counting, IInv, NEW t \in Tasks, AcquireSlot(t)
    PROVE  IInv'
<1>0. /\ pc[t] = "profiled" /\ pc' = [pc EXCEPT ![t] = "leased"]
      /\ slots' = slots \cup {t} /\ Cardinality(slots) < MaxParallel
      /\ UNCHANGED <<setup, status, agent, parent, depth, ancestry, done, cancels, under, cancelled, asked, profiles, call, target, writer, snap, disk, restarts>>
  BY Zenon DEF AcquireSlot, taskVars, ctxVars, semVars, callVars, diskVars
<1>1. TypeOK'
  <2>1. Cardinality(slots') <= MaxParallel
    <3>1. slots \in SUBSET Tasks /\ MaxParallel \in Nat
      BY SetupFacts, Zenon DEF IInv, TypeOK
    <3>2. Cardinality(slots \cup {t}) <= Cardinality(slots) + 1 /\ Cardinality(slots) \in Nat /\ Cardinality(slots \cup {t}) \in Nat
      BY <3>1, TaskSets, Zenon
    <3> QED
      BY <1>0, <3>1, <3>2
  <2>2. slots' \subseteq Tasks /\ pc' \in [Tasks -> Stages]
    BY <1>0, Zenon DEF IInv, TypeOK, Stages
  <2> QED
    BY <1>0, <2>1, <2>2, Zenon DEF IInv, TypeOK, MaxParallel, profileMax, MaxRestarts
<1>2. Staged'
  BY <1>0 DEF IInv, TypeOK, Staged, Before, During, Leasing, After, Terminal
<1>3. Known
  BY <1>0, Zenon DEF Known
<1>4. Delegated'
  BY <1>0, <1>3, DelegatedFrame, Zenon DEF IInv
<1>5. Calling'
  BY <1>0, <1>3, CallingFrame, Zenon DEF IInv, TypeOK
<1>6. Leased'
  <2>1. \A x \in Tasks : CtxDone(x)' = CtxDone(x)
    BY <1>0, Zenon DEF CtxDone
  <2>2. \A c \in Calls : call[<<t, c>>] = "idle"
    BY <1>0, Zenon DEF IInv, Calling
  <2>3. \A x \in Tasks \ {t} : pc'[x] = pc[x] /\ (x \in slots' <=> x \in slots)
    BY <1>0, Zenon DEF IInv, TypeOK
  <2>4. t \in slots' /\ TimedWaits' = TimedWaits
    BY <1>0, Zenon DEF TimedWaits
  <2> HIDE DEF CtxDone
  <2> QED
    BY <1>0, <2>1, <2>2, <2>3, <2>4 DEF IInv, Leased
<1>7. Saved'
  <2>1. Live(status') \subseteq Live(status)
    BY <1>0, Zenon DEF Live
  <2>2. \A x \in Tasks : snap[x] # NoSnapshot => pc'[x] = pc[x]
    BY <1>0, Zenon DEF IInv, TypeOK, Saved
  <2> QED
    BY <1>0, <1>3, <2>1, <2>2, SavedFrame, Zenon DEF IInv
<1> QED
  BY <1>1, <1>2, <1>4, <1>5, <1>6, <1>7, Zenon DEF IInv

LEMMA WorkKeeps ==
    ASSUME Counting, IInv, NEW t \in Tasks, Work(t)
    PROVE  IInv'
<1>0. /\ pc[t] = "leased" /\ pc' = [pc EXCEPT ![t] = "started"] /\ status' = [status EXCEPT ![t] = "working"]
      /\ UNCHANGED <<setup, agent, parent, depth, ancestry, done, cancels, under, cancelled, asked, slots, profiles, call, target, writer, snap, disk, restarts>>
  BY Zenon DEF Work, taskVars, ctxVars, semVars, callVars, diskVars
<1>1. TypeOK'
  BY <1>0, Zenon DEF IInv, TypeOK, Stages, Statuses, MaxParallel, profileMax, MaxRestarts
<1>2. Staged'
  BY <1>0 DEF IInv, TypeOK, Staged, Before, During, Leasing, After, Terminal
<1>3. Known
  BY <1>0, Zenon DEF Known, IInv, TypeOK, Staged, Before
<1>4. Delegated'
  BY <1>0, <1>3, DelegatedFrame, Zenon DEF IInv
<1>5. Calling'
  BY <1>0, <1>3, CallingFrame, Zenon DEF IInv, TypeOK
<1>6. Leased'
  BY <1>0, LeasedFrame, Zenon DEF IInv, TypeOK, During, Leasing
<1>7. Saved'
  <2>1. Live(status') \subseteq Live(status)
    BY <1>0, Zenon DEF Live, IInv, TypeOK, Staged, Before
  <2>2. \A x \in Tasks : snap[x] # NoSnapshot => pc'[x] = pc[x]
    BY <1>0, Zenon DEF IInv, TypeOK, Saved
  <2> QED
    BY <1>0, <1>3, <2>1, <2>2, SavedFrame, Zenon DEF IInv
<1> QED
  BY <1>1, <1>2, <1>4, <1>5, <1>6, <1>7, Zenon DEF IInv

(* finish, called where the task is not over.                               *)
LEMMA FinishKeeps ==
    ASSUME Counting, IInv, NEW t \in Tasks, NEW s \in {"completed", "failed", "canceled"}, Finish(t, s),
           pc[t] \in {"queued", "profiled", "executing"},
           \A c \in Calls : call[<<t, c>>] = "idle"
    PROVE  IInv'
<1>0. /\ pc' = [pc EXCEPT ![t] = "finished"] /\ status' = [status EXCEPT ![t] = s]
      /\ UNCHANGED <<setup, agent, parent, depth, ancestry, done, cancels, under, cancelled, asked, slots, profiles, call, target, writer, snap, disk, restarts>>
  BY Zenon DEF Finish, taskVars, ctxVars, semVars, callVars, diskVars
<1>1. TypeOK'
  BY <1>0, Zenon DEF IInv, TypeOK, Stages, Statuses, MaxParallel, profileMax, MaxRestarts
<1>2. Staged'
  BY <1>0 DEF IInv, TypeOK, Staged, Before, During, Leasing, After, Terminal
<1>3. Known
  BY <1>0, Zenon DEF Known, IInv, TypeOK, Staged, Before, During, Leasing
<1>4. Delegated'
  BY <1>0, <1>3, DelegatedFrame, Zenon DEF IInv
<1>5. Calling'
  BY <1>0, <1>3, CallingFrame, Zenon DEF IInv, TypeOK
<1>6. Leased'
  BY <1>0, LeasedFrame, Zenon DEF IInv, TypeOK, During, Leasing
<1>7. Saved'
  <2>1. Live(status') \subseteq Live(status)
    BY <1>0, Zenon DEF Live, IInv, TypeOK, Staged, Before, During, Leasing
  <2>2. \A x \in Tasks : snap[x] # NoSnapshot => pc'[x] = pc[x]
    BY <1>0, Zenon DEF IInv, TypeOK, Saved
  <2> QED
    BY <1>0, <1>3, <2>1, <2>2, SavedFrame, Zenon DEF IInv
<1> QED
  BY <1>1, <1>2, <1>4, <1>5, <1>6, <1>7, Zenon DEF IInv

LEMMA CloseDoneKeeps ==
    ASSUME Counting, IInv, NEW t \in Tasks, CloseDone(t)
    PROVE  IInv'
<1>0. /\ pc[t] = "closing" /\ pc' = [pc EXCEPT ![t] = "closed"] /\ done' = done \cup {t}
      /\ UNCHANGED <<setup, status, agent, parent, depth, ancestry, cancels, under, cancelled, asked, slots, profiles, call, target, writer, snap, disk, restarts>>
  BY Zenon DEF CloseDone, taskVars, ctxVars, semVars, callVars, diskVars
<1>1. TypeOK'
  BY <1>0, Zenon DEF IInv, TypeOK, Stages, Statuses, MaxParallel, profileMax, MaxRestarts
<1>2. Staged'
  BY <1>0 DEF IInv, TypeOK, Staged, Before, During, Leasing, After, Terminal
<1>3. Known
  BY <1>0, Zenon DEF Known
<1>4. Delegated'
  BY <1>0, <1>3, DelegatedFrame, Zenon DEF IInv
<1>5. Calling'
  BY <1>0, <1>3, CallingFrame, Zenon DEF IInv, TypeOK
<1>6. Leased'
  BY <1>0, LeasedFrame, Zenon DEF IInv, TypeOK, During, Leasing
<1>7. Saved'
  <2>1. Live(status') \subseteq Live(status)
    BY <1>0, Zenon DEF Live
  <2>2. \A x \in Tasks : snap[x] # NoSnapshot => pc'[x] = pc[x]
    BY <1>0, Zenon DEF IInv, TypeOK, Saved
  <2> QED
    BY <1>0, <1>3, <2>1, <2>2, SavedFrame, Zenon DEF IInv
<1> QED
  BY <1>1, <1>2, <1>4, <1>5, <1>6, <1>7, Zenon DEF IInv

LEMMA ExitKeeps ==
    ASSUME Counting, IInv, NEW t \in Tasks, Exit(t)
    PROVE  IInv'
<1>0. /\ pc[t] = "closed" /\ pc' = [pc EXCEPT ![t] = "ended"] /\ slots' = slots \ {t} /\ profiles' = profiles \ {t}
      /\ cancels' = cancels \ {t} /\ cancelled' = cancelled \cup {t}
      /\ UNCHANGED <<setup, status, agent, parent, depth, ancestry, done, under, asked, call, target, writer, snap, disk, restarts>>
  BY Zenon DEF Exit, taskVars, ctxVars, semVars, callVars, diskVars
<1>1. TypeOK'
  <2>1. Cardinality(slots') <= MaxParallel
    BY <1>0, SetupFacts, FewerSlots, Zenon DEF IInv
  <2>2. \A a \in Agents : Cardinality({u \in profiles' : agent[u] = a}) <= profileMax[a]
    BY <1>0, FewerProfiles, Zenon DEF IInv
  <2>3. slots' \subseteq Tasks /\ profiles' \subseteq Tasks /\ pc' \in [Tasks -> Stages] /\ cancels' \subseteq Tasks /\ cancelled' \subseteq Tasks
    BY <1>0, Zenon DEF IInv, TypeOK, Stages
  <2> QED
    BY <1>0, <2>1, <2>2, <2>3, Zenon DEF IInv, TypeOK, MaxParallel, profileMax, MaxRestarts
<1>2. Staged'
  BY <1>0 DEF IInv, TypeOK, Staged, Before, During, Leasing, After, Terminal
<1>3. Known
  BY <1>0, Zenon DEF Known
<1>4. Delegated'
  BY <1>0, <1>3, DelegatedFrame, Zenon DEF IInv
<1>5. Calling'
  BY <1>0, <1>3, CallingFrame, Zenon DEF IInv, TypeOK
<1>6. Leased'
  BY <1>0, LeasedFrame, Zenon DEF IInv, TypeOK, During, Leasing
<1>7. Saved'
  <2>1. Live(status') \subseteq Live(status)
    BY <1>0, Zenon DEF Live
  <2>2. \A x \in Tasks : snap[x] # NoSnapshot => pc'[x] = pc[x]
    BY <1>0, Zenon DEF IInv, TypeOK, Saved
  <2> QED
    BY <1>0, <1>3, <2>1, <2>2, SavedFrame, Zenon DEF IInv
<1> QED
  BY <1>1, <1>2, <1>4, <1>5, <1>6, <1>7, Zenon DEF IInv

LEMMA ListKeeps ==
    ASSUME Counting, IInv, NEW old \in SUBSET Expirable, List(old)
    PROVE  IInv'
<1>0. /\ status' = [t \in Tasks |-> IF t \in old THEN "gone" ELSE status[t]]
      /\ cancels' = cancels \ old /\ \A t \in old : t \in Tasks /\ Terminal(status[t])
      /\ UNCHANGED <<setup, agent, parent, depth, ancestry, done, under, cancelled, asked, pc, slots, profiles, call, target, writer, snap, disk, restarts>>
  BY Zenon DEF List, Cleaned, Expirable, taskVars, ctxVars, semVars, callVars, diskVars
<1>1. TypeOK'
  BY <1>0, Zenon DEF IInv, TypeOK, Stages, Statuses, MaxParallel, profileMax, MaxRestarts
<1>2. Staged'
  BY <1>0 DEF IInv, TypeOK, Staged, Before, During, Leasing, After, Terminal
<1>3. Known
  BY <1>0, Zenon DEF Known, Terminal
<1>4. Delegated'
  BY <1>0, <1>3, DelegatedFrame, Zenon DEF IInv
<1>5. Calling'
  BY <1>0, <1>3, CallingFrame, Zenon DEF IInv, TypeOK
<1>6. Leased'
  BY <1>0, LeasedFrame, Zenon DEF IInv, TypeOK, During, Leasing
<1>7. Saved'
  <2>1. Live(status') \subseteq Live(status)
    BY <1>0, Zenon DEF Live
  <2>2. \A x \in Tasks : snap[x] # NoSnapshot => pc'[x] = pc[x]
    BY <1>0, Zenon DEF IInv, TypeOK, Saved
  <2> QED
    BY <1>0, <1>3, <2>1, <2>2, SavedFrame, Zenon DEF IInv
<1> QED
  BY <1>1, <1>2, <1>4, <1>5, <1>6, <1>7, Zenon DEF IInv

(* A context ends.                                                          *)
LEMMA CancelKeeps ==
    ASSUME Counting, IInv, NEW t \in Tasks, Cancel(t) \/ Deadline(t)
    PROVE  IInv'
<1>0. /\ cancelled \subseteq cancelled' /\ cancelled' \subseteq cancelled \cup {t} /\ asked' \subseteq asked \cup {t}
      /\ UNCHANGED <<setup, status, agent, parent, depth, ancestry, done, cancels, under, pc, slots, profiles, call, target, writer, snap, disk, restarts>>
  BY Zenon DEF Cancel, Deadline, taskVars, ctxVars, semVars, callVars, diskVars
<1>1. TypeOK'
  <2>1. cancelled' \subseteq Tasks /\ asked' \subseteq Tasks
    BY <1>0, Zenon DEF IInv, TypeOK
  <2> QED
    BY <1>0, <2>1, Zenon DEF IInv, TypeOK, MaxParallel, profileMax, MaxRestarts
<1>2. Staged'
  BY <1>0, Zenon DEF IInv, TypeOK, Staged, Before, During, Leasing, After, Terminal
<1>3. Known
  BY <1>0, Zenon DEF Known
<1>4. Delegated'
  BY <1>0, <1>3, DelegatedFrame, Zenon DEF IInv
<1>5. Calling'
  BY <1>0, <1>3, CallingFrame, Zenon DEF IInv, TypeOK
<1>6. Leased'
  BY <1>0, LeasedFrame, Zenon DEF IInv, TypeOK, During, Leasing
<1>7. Saved'
  <2>1. Live(status') \subseteq Live(status)
    BY <1>0, Zenon DEF Live
  <2>2. \A x \in Tasks : snap[x] # NoSnapshot => pc'[x] = pc[x]
    BY <1>0, Zenon DEF IInv, TypeOK, Saved
  <2> QED
    BY <1>0, <1>3, <2>1, <2>2, SavedFrame, Zenon DEF IInv
<1> QED
  BY <1>1, <1>2, <1>4, <1>5, <1>6, <1>7, Zenon DEF IInv
-----------------------------------------------------------------------------
(* The snapshot is read.                                                    *)
LEMMA PersistReadKeeps ==
    ASSUME Counting, IInv, NEW t \in Tasks, PersistRead(t)
    PROVE  IInv'
<1>0. /\ Persistent /\ pc[t] \in {"created", "started", "finished"} /\ writer = NoTask /\ writer' = t
      /\ snap' = [snap EXCEPT ![t] = Snapshot]
      /\ UNCHANGED <<setup, status, agent, parent, depth, ancestry, done, cancels, under, cancelled, asked, pc, slots,
                     profiles, call, target, disk, restarts>>
  BY Zenon DEF PersistRead, AfterPersist, taskVars, ctxVars, semVars, callVars
<1>1. Snapshot \in [Tasks -> Statuses]
  BY Zenon DEF IInv, TypeOK, Snapshot, Statuses
<1>2. TypeOK'
  <2>1. snap' \in [Tasks -> [Tasks -> Statuses] \cup {NoSnapshot}] /\ writer' \in Tasks \cup {NoTask}
    BY <1>0, <1>1, Zenon DEF IInv, TypeOK
  <2> QED
    BY <1>0, <2>1, Zenon DEF IInv, TypeOK, MaxParallel, profileMax, MaxRestarts
<1>3. Staged'
  BY <1>0, Zenon DEF IInv, Staged
<1>4. Known
  BY <1>0, Zenon DEF Known
<1>5. Delegated'
  BY <1>0, <1>4, DelegatedFrame, Zenon DEF IInv
<1>6. Calling'
  BY <1>0, <1>4, CallingFrame, Zenon DEF IInv
<1>7. Leased'
  BY <1>0, LeasedFrame, Zenon DEF IInv
<1>8. Saved'
  <2>1. Within(status) /\ Sound(disk) /\ Within(disk)
    BY Zenon DEF IInv, Saved, Sound
  <2>2. Within(status)' /\ Within(disk)'
    BY <1>0, <2>1, Zenon DEF Within, Children, Live, MaxTasks, MaxChildren
  <2>3. Sound(disk)'
    BY <1>0, <2>1, <2>2, Zenon DEF Sound
  <2>4. ASSUME NEW w \in Tasks, snap'[w] # NoSnapshot
        PROVE  w = t
    BY <1>0, <2>4, MultiAgentAssumption, Zenon DEF IInv, TypeOK, Saved
  <2>5. snap'[t] = Snapshot
    BY <1>0, Zenon DEF IInv, TypeOK
  <2>6. Live(snap'[t]) = Live(status)
    BY <2>5, Zenon DEF Live, Snapshot
  <2>7. Within(snap[t])'
    BY <1>0, <2>1, <2>6, WithinFrame DEF Within, Children, Live, IInv
  <2>8. Sound(snap[t])'
    BY <1>0, <2>5, <2>7 DEF Sound, Snapshot
  <2>9. Persistent'
    BY <1>0, Zenon DEF Persistent
  <2> QED
    BY <1>0, <1>1, <2>2, <2>3, <2>4, <2>5, <2>8, <2>9, Zenon DEF Saved
<1> QED
  BY <1>2, <1>3, <1>5, <1>6, <1>7, <1>8, Zenon DEF IInv

(* The snapshot is written, or the write fails.                             *)
LEMMA PersistEndsKeeps ==
    ASSUME Counting, IInv, NEW t \in Tasks, PersistEnds(t), disk' \in {snap[t], disk}
    PROVE  IInv'
<1>0. /\ snap[t] # NoSnapshot /\ writer' = NoTask /\ snap' = [snap EXCEPT ![t] = NoSnapshot]
      /\ pc' = [pc EXCEPT ![t] = AfterPersist[pc[t]]]
      /\ UNCHANGED <<setup, status, agent, parent, depth, ancestry, done, cancels, under, cancelled, asked, slots,
                     profiles, call, target, restarts>>
  BY Zenon DEF PersistEnds, taskVars, ctxVars, semVars, callVars
<1>1. /\ writer = t /\ pc[t] \in {"created", "started", "finished"}
      /\ snap[t] \in [Tasks -> Statuses] /\ Sound(snap[t])
  BY <1>0, Zenon DEF IInv, Saved
<1>2. /\ pc[t] = "created" => AfterPersist[pc[t]] = "unregistered"
      /\ pc[t] = "started" => AfterPersist[pc[t]] = "executing"
      /\ pc[t] = "finished" => AfterPersist[pc[t]] = "closing"
  BY <1>1, Zenon DEF AfterPersist
<1>3. TypeOK'
  <2>1. pc' \in [Tasks -> Stages]
    BY <1>0, <1>1, <1>2, Zenon DEF IInv, TypeOK, Stages
  <2>2. /\ snap' \in [Tasks -> [Tasks -> Statuses] \cup {NoSnapshot}] /\ writer' \in Tasks \cup {NoTask}
        /\ disk' \in [Tasks -> Statuses]
    BY <1>0, <1>1, Zenon DEF IInv, TypeOK
  <2> QED
    BY <1>0, <2>1, <2>2, Zenon DEF IInv, TypeOK, MaxParallel, profileMax, MaxRestarts
<1>4. Staged'
  BY <1>0, <1>1, <1>2 DEF IInv, TypeOK, Staged, Before, During, Leasing, After, Terminal
<1>5. Known
  BY <1>0, Zenon DEF Known
<1>6. Delegated'
  BY <1>0, <1>5, DelegatedFrame, Zenon DEF IInv
<1>7. Calling'
  BY <1>0, <1>1, <1>2, <1>5, CallingFrame, Zenon DEF IInv, TypeOK
<1>8. Leased'
  BY <1>0, <1>1, <1>2, LeasedFrame, Zenon DEF IInv, TypeOK, During, Leasing
<1>9. Saved'
  <2>1. Within(status) /\ Sound(disk) /\ Within(disk) /\ Within(snap[t])
    BY <1>1, Zenon DEF IInv, Saved, Sound
  <2>0. TypeOK /\ UNCHANGED <<setup, parent>> /\ status' = status
    BY <1>0, Zenon DEF IInv
  <2>2. Within(status)'
    BY <2>0, <2>1, Zenon DEF Within, Children, Live, MaxTasks, MaxChildren
  <2>5. Within(disk)'
    <3>1. CASE disk' = snap[t]
      BY <2>0, <2>1, <3>1, Zenon DEF Within, Children, Live, MaxTasks, MaxChildren
    <3>2. CASE disk' = disk
      BY <2>0, <2>1, <3>2, Zenon DEF Within, Children, Live, MaxTasks, MaxChildren
    <3> QED
      BY <3>1, <3>2, Zenon
  <2>3. Sound(disk)'
    BY <1>0, <1>1, <2>1, <2>5, Zenon DEF Sound
  <2>4. \A w \in Tasks : snap'[w] = NoSnapshot
    BY <1>0, <1>1, Zenon DEF IInv, TypeOK, Saved
  <2> QED
    BY <2>2, <2>3, <2>4, Zenon DEF Saved
<1> QED
  BY <1>3, <1>4, <1>6, <1>7, <1>8, <1>9, Zenon DEF IInv
-----------------------------------------------------------------------------

(* Steps of the tool calls: where goroutines are, statuses and snapshots    *)
(* stay.                                                                    *)
LEMMA CallFrame ==
    ASSUME Counting, IInv, TypeOK', Calling', Leased', slots' \subseteq Tasks,
           \A x \in Tasks : x \in slots' => x \in slots \/ pc[x] = "executing",
           UNCHANGED <<setup, status, agent, parent, done, pc, profiles, writer, snap, disk>>
    PROVE  IInv'
<1>1. Staged'
  BY DEF IInv, Staged, During, Leasing, After, Terminal
<1>2. Known
  BY Zenon DEF Known
<1>3. Delegated'
  BY <1>2, DelegatedFrame, Zenon DEF IInv
<1>4. Saved'
  BY <1>2, SavedFrame, Zenon DEF IInv
<1> QED
  BY <1>1, <1>3, <1>4, Zenon DEF IInv

(* Every call is over, as it was, moving on, or waits for a task.           *)
LEMMA CallingStep ==
    ASSUME Calling, UNCHANGED <<setup, status, parent, pc>>,
           \A x \in Tasks, d \in Calls :
              \/ call'[<<x, d>>] = "idle"
              \/ call'[<<x, d>>] = call[<<x, d>>] /\ target'[<<x, d>>] = target[<<x, d>>]
              \/ /\ pc[x] = "executing" /\ d \in setup.calls
                 /\ call'[<<x, d>>] = "expired" => TimedWaits
                 /\ call'[<<x, d>>] \in Waiting =>
                       target'[<<x, d>>] \in Tasks /\ status[target'[<<x, d>>]] # "none"
    PROVE  Calling'
<1>1. TimedWaits' = TimedWaits
  BY Zenon DEF TimedWaits
<1>2. ASSUME NEW x \in Tasks, NEW d \in Calls
      PROVE  /\ call'[<<x, d>>] # "idle" => pc'[x] = "executing" /\ d \in setup'.calls
             /\ call'[<<x, d>>] = "expired" => TimedWaits'
             /\ call'[<<x, d>>] \in Waiting =>
                   target'[<<x, d>>] \in Tasks /\ status'[target'[<<x, d>>]] # "none"
  BY <1>1 DEF Calling, Waiting
<1> QED
  BY <1>2, Zenon DEF Calling

LEMMA YieldKeeps ==
    ASSUME Counting, IInv, NEW p \in Tasks, NEW c \in Calls, Yield(p, c)
    PROVE  IInv'
<1>0. /\ pc[p] = "executing" /\ c \in setup.calls /\ call[<<p, c>>] = "idle"
      /\ slots' = slots \ {p} /\ call' = [call EXCEPT ![<<p, c>>] = "calling"]
      /\ UNCHANGED <<setup, status, agent, parent, depth, ancestry, done, cancels, under, cancelled, asked, pc,
                     profiles, target, writer, snap, disk, restarts>>
  BY Zenon DEF Yield, taskVars, ctxVars, diskVars
<1>1. \A x \in Tasks, d \in Calls :
        call'[<<x, d>>] = IF x = p /\ d = c THEN "calling" ELSE call[<<x, d>>]
  BY <1>0, Zenon DEF IInv, TypeOK
<1>2. TypeOK'
  <2>1. Cardinality(slots') <= MaxParallel
    BY <1>0, FewerSlots, Zenon DEF IInv
  <2>2. slots' \subseteq Tasks
    BY <1>0, Zenon DEF IInv, TypeOK
  <2>3. call' \in [Tasks \X Calls -> CallStates]
    BY <1>0, Zenon DEF IInv, TypeOK, CallStates
  <2> QED
    BY <1>0, <2>1, <2>2, <2>3, Zenon DEF IInv, TypeOK, MaxParallel, profileMax, MaxRestarts
<1>3. Calling'
  BY <1>0, <1>1, CallingStep DEF IInv, Waiting
<1>4. Leased'
  <2>1. \A x \in Tasks : CtxDone(x)' = CtxDone(x)
    BY <1>0, Zenon DEF CtxDone
  <2>2. TimedWaits' = TimedWaits
    BY <1>0, Zenon DEF TimedWaits
  <2> HIDE DEF CtxDone
  <2> QED
    BY <1>0, <1>1, <2>1, <2>2 DEF IInv, Leased
<1> QED
  BY <1>0, <1>2, <1>3, <1>4, CallFrame, Zenon DEF TypeOK

(* A call begins or ends its wait.                                          *)
LEMMA WaitKeeps ==
    ASSUME Counting, IInv, NEW p \in Tasks, NEW c \in Calls, NEW t \in Tasks \cup {NoTask},
           NEW s \in {"waiting", "returning", "expired"},
           call[<<p, c>>] \in {"calling"} \cup Waiting,
           call' = [call EXCEPT ![<<p, c>>] = s],
           target' = [target EXCEPT ![<<p, c>>] = t] \/ UNCHANGED target,
           s = "waiting" =>
              target' = [target EXCEPT ![<<p, c>>] = t] /\ t \in Tasks /\ status[t] # "none",
           s = "expired" => TimedWaits,
           UNCHANGED <<setup, status, agent, parent, depth, ancestry, done, cancels, under, cancelled, asked, pc,
                     slots, profiles, writer, snap, disk, restarts>>
    PROVE  IInv'
<1>1. \A x \in Tasks, d \in Calls :
        call'[<<x, d>>] = IF x = p /\ d = c THEN s ELSE call[<<x, d>>]
  BY Zenon DEF IInv, TypeOK
<1>2. \A x \in Tasks, d \in Calls :
        target'[<<x, d>>] = target[<<x, d>>] \/ (x = p /\ d = c /\ target'[<<x, d>>] = t)
  BY Zenon DEF IInv, TypeOK
<1>3. TypeOK'
  <2>1. call' \in [Tasks \X Calls -> CallStates]
    BY Zenon DEF IInv, TypeOK, CallStates
  <2>2. target' \in [Tasks \X Calls -> Tasks \cup {NoTask}]
    BY Zenon DEF IInv, TypeOK
  <2> QED
    BY <2>1, <2>2, Zenon DEF IInv, TypeOK, MaxParallel, profileMax, MaxRestarts
<1>4. Calling'
  <2>1. s = "waiting" => target'[<<p, c>>] = t
    BY Zenon DEF IInv, TypeOK
  <2>2. pc[p] = "executing" /\ c \in setup.calls
    BY Zenon DEF IInv, Calling, Waiting
  <2>3. \A x \in Tasks, d \in Calls : ~(x = p /\ d = c) => target'[<<x, d>>] = target[<<x, d>>]
    BY <1>2, Zenon
  <2> QED
    BY <1>1, <2>1, <2>2, <2>3, CallingStep DEF IInv, Waiting
<1>5. Leased'
  <2>1. \A x \in Tasks : CtxDone(x)' = CtxDone(x)
    BY Zenon DEF CtxDone
  <2>2. TimedWaits' = TimedWaits
    BY Zenon DEF TimedWaits
  <2> HIDE DEF CtxDone
  <2> QED
    BY <1>1, <2>1, <2>2 DEF IInv, Leased, Waiting
<1> QED
  BY <1>3, <1>4, <1>5, CallFrame, Zenon DEF IInv, TypeOK

(* The call is refused, waits, or has its answer.                           *)
LEMMA WaitMoves ==
    ASSUME Counting, IInv, NEW p \in Tasks, NEW c \in Calls,
           \/ Refused(p, c) \/ WaitReturns(p, c) \/ WaitTimesOut(p, c)
           \/ \E t \in Tasks : WaitFor(p, c, t)
    PROVE  IInv'
<1> DEFINE Rest == UNCHANGED <<setup, status, agent, parent, depth, ancestry, done, cancels, under, cancelled, asked, pc,
                     slots, profiles, writer, snap, disk, restarts>>
<1>1. CASE Refused(p, c)
  <2>1. call[<<p, c>>] = "calling" /\ call' = [call EXCEPT ![<<p, c>>] = "returning"] /\ UNCHANGED target /\ Rest
    BY <1>1, Zenon DEF Refused, taskVars, ctxVars, semVars, diskVars
  <2> QED
    BY <2>1, WaitKeeps, Zenon
<1>2. CASE WaitReturns(p, c)
  <2>1. /\ call[<<p, c>>] \in Waiting /\ call' = [call EXCEPT ![<<p, c>>] = "returning"]
        /\ target' = [target EXCEPT ![<<p, c>>] = NoTask] /\ Rest
    BY <1>2, Zenon DEF WaitReturns, Waiting, taskVars, ctxVars, semVars, diskVars
  <2> QED
    BY <2>1, WaitKeeps, Zenon
<1>3. CASE WaitTimesOut(p, c)
  <2>1. /\ TimedWaits /\ call[<<p, c>>] \in Waiting /\ call' = [call EXCEPT ![<<p, c>>] = "expired"]
        /\ target' = [target EXCEPT ![<<p, c>>] = NoTask] /\ Rest
    BY <1>3, Zenon DEF WaitTimesOut, Waiting, taskVars, ctxVars, semVars, diskVars
  <2> QED
    BY <2>1, WaitKeeps, Zenon
<1>4. ASSUME NEW t \in Tasks, WaitFor(p, c, t)
      PROVE  IInv'
  <2>1. /\ call[<<p, c>>] = "calling" /\ status[t] # "none"
        /\ call' = [call EXCEPT ![<<p, c>>] = "waiting"]
        /\ target' = [target EXCEPT ![<<p, c>>] = t] /\ Rest
    BY <1>4, Zenon DEF WaitFor, Live, taskVars, ctxVars, semVars, diskVars
  <2> QED
    BY <2>1, WaitKeeps, Zenon
<1> QED
  BY <1>1, <1>2, <1>3, <1>4, Zenon

LEMMA ReacquireKeeps ==
    ASSUME Counting, IInv, NEW p \in Tasks, NEW c \in Calls, Reacquire(p, c) \/ ReacquireFails(p, c)
    PROVE  IInv'
<1>0. /\ call[<<p, c>>] \in {"returning", "expired"} /\ Settle(p, c)
      /\ slots' = slots \cup {p} \/ slots' = slots
      /\ ~TimedWaits => slots' = slots \cup {p} \/ CtxDone(p)
      /\ p \in slots \/ Cardinality(slots) < MaxParallel \/ slots' = slots
      /\ UNCHANGED <<setup, status, agent, parent, depth, ancestry, done, cancels, under, cancelled, asked, pc,
                     profiles, target, writer, snap, disk, restarts>>
  BY Zenon DEF IInv, Calling, Reacquire, ReacquireFails, taskVars, ctxVars, diskVars, semVars
<1>1. pc[p] = "executing" /\ c \in setup.calls
  BY <1>0, Zenon DEF IInv, Calling
<1>2. \/ /\ \A d \in Calls \ {c} : call[<<p, d>>] \in {"idle", "returned"}
         /\ \A d \in Calls : call'[<<p, d>>] = "idle"
      \/ /\ \E d \in Calls \ {c} : call[<<p, d>>] \notin {"idle", "returned"}
         /\ \A d \in Calls : call'[<<p, d>>] = IF d = c THEN "returned" ELSE call[<<p, d>>]
  BY <1>0, Zenon DEF Settle, IInv, TypeOK
<1>3. \A x \in Tasks \ {p}, d \in Calls : call'[<<x, d>>] = call[<<x, d>>]
  BY <1>0, Zenon DEF Settle, IInv, TypeOK
<1>4. TypeOK'
  <2>1. Cardinality(slots') <= MaxParallel /\ slots' \subseteq Tasks
    <3>1. slots \in SUBSET Tasks /\ MaxParallel \in Nat /\ Cardinality(slots) <= MaxParallel
      BY SetupFacts, Zenon DEF IInv, TypeOK
    <3>2. Cardinality(slots \cup {p}) <= Cardinality(slots) + 1 /\ Cardinality(slots) \in Nat /\ Cardinality(slots \cup {p}) \in Nat
      BY <3>1, TaskSets, Zenon
    <3>3. CASE p \in slots
      <4>1. slots' = slots
        BY <1>0, <3>3, Zenon
      <4> QED
        BY <3>1, <4>1, Zenon
    <3>4. CASE p \notin slots
      BY <1>0, <3>1, <3>2, <3>4
    <3> QED
      BY <3>3, <3>4, Zenon
  <2>2. call' \in [Tasks \X Calls -> CallStates]
    BY <1>0, Zenon DEF IInv, TypeOK, Settle, CallStates
  <2> QED
    BY <1>0, <2>1, <2>2, Zenon DEF IInv, TypeOK, MaxParallel, profileMax, MaxRestarts
<1>5. Calling'
  <2>1. \A x \in Tasks, d \in Calls : target'[<<x, d>>] = target[<<x, d>>]
    BY <1>0, Zenon
  <2>2. \A d \in Calls : \/ call'[<<p, d>>] = "idle"
                         \/ call'[<<p, d>>] = call[<<p, d>>]
                         \/ d = c /\ call'[<<p, d>>] = "returned"
    BY <1>2, Zenon
  <2> QED
    BY <1>0, <1>1, <1>3, <2>1, <2>2, CallingStep DEF IInv, Waiting
<1>6. Leased'
  <2>1. \A x \in Tasks : CtxDone(x)' = CtxDone(x)
    BY <1>0, Zenon DEF CtxDone
  <2>2. TimedWaits' = TimedWaits /\ setup' = setup
    BY <1>0, Zenon DEF TimedWaits
  <2>3. \A x \in Tasks \ {p} : x \in slots' <=> x \in slots
    BY <1>0, Zenon
  <2>4. Cardinality(setup.calls) = 1 => \A d \in Calls \ {c} : call[<<p, d>>] = "idle"
    <3> SUFFICES ASSUME Cardinality(setup.calls) = 1, NEW d \in Calls \ {c}, call[<<p, d>>] # "idle"
                 PROVE  FALSE
      BY Zenon
    <3>1. d \in setup.calls
      BY Zenon DEF IInv, Calling
    <3>2. PICK e : setup.calls = {e}
      BY SetupFacts, OneCall, Zenon DEF IInv
    <3> QED
      BY <1>1, <3>1, <3>2, Zenon
  <2> HIDE DEF CtxDone
  <2>5. ASSUME ~TimedWaits', NEW x \in Tasks, pc'[x] \in Leasing, ~CtxDone(x)',
               \A d \in Calls : call'[<<x, d>>] \in {"idle", "returned"}
        PROVE  x \in slots'
    BY <1>0, <1>3, <2>1, <2>2, <2>3, <2>5 DEF IInv, Leased
  <2>6. ASSUME Cardinality(setup'.calls) = 1, NEW x \in Tasks, NEW d \in Calls, call'[<<x, d>>] # "idle"
        PROVE  x \notin slots' /\ call'[<<x, d>>] # "returned"
    <3>1. x # p
      BY <1>2, <2>2, <2>4, <2>6, Zenon
    <3> QED
      BY <1>3, <2>2, <2>3, <2>6, <3>1 DEF IInv, Leased
  <2>7. ASSUME NEW x \in Tasks, \A d \in Calls : call'[<<x, d>>] \in {"idle", "returned"}
        PROVE  \A d \in Calls : call'[<<x, d>>] = "idle"
    <3>1. CASE x = p
      BY <1>2, <2>7, <3>1, Zenon
    <3>2. CASE x # p
      BY <1>3, <2>7, <3>2, Zenon DEF IInv, Leased
    <3> QED
      BY <3>1, <3>2, Zenon
  <2> QED
    BY <2>5, <2>6, <2>7, Zenon DEF Leased
<1> QED
  BY <1>0, <1>1, <1>4, <1>5, <1>6, CallFrame, Zenon DEF TypeOK

-----------------------------------------------------------------------------

(* A snapshot taken before a task was created stays sound when it is.       *)
LEMMA SoundStep ==
    ASSUME Counting, TypeOK, NEW st, Sound(st), NEW t \in Tasks, status[t] = "none", setup' = setup,
           \A x \in Tasks : status[x] # "none" => status'[x] # "none",
           \A x \in Tasks : x # t => parent'[x] = parent[x]
    PROVE  /\ \A x \in Tasks : st[x] # "gone" /\ (st[x] # "none" => status'[x] # "none")
           /\ Cardinality(Live(st)) <= MaxTasks'
           /\ \A p \in Tasks : Cardinality({x \in Live(st) : parent'[x] = p}) <= MaxChildren'
<1>1. MaxTasks' = MaxTasks /\ MaxChildren' = MaxChildren
  BY Zenon DEF MaxTasks, MaxChildren
<1>2. t \notin Live(st) /\ Live(st) \subseteq Tasks
  BY Zenon DEF Sound, Live
<1>3. ASSUME NEW p \in Tasks
      PROVE  Cardinality({x \in Live(st) : parent'[x] = p}) <= MaxChildren
  <2>1. {x \in Live(st) : parent'[x] = p} = Children(st, p)
    BY <1>2, Zenon DEF Children
  <2>2. Cardinality(Children(st, p)) <= MaxChildren
    BY Zenon DEF Sound, Within
  <2> QED
    BY <2>1, <2>2, Zenon
<1>4. Cardinality(Live(st)) <= MaxTasks
  BY Zenon DEF Sound, Within
<1> QED
  BY <1>1, <1>3, <1>4, Zenon DEF Sound

(* Creating t removes the old tasks and leaves the others as they are.      *)
Others(t, old) ==
    \A x \in Tasks : x # t =>
        /\ status'[x] = IF x \in old THEN "gone" ELSE status[x]
        /\ agent'[x] = agent[x] /\ parent'[x] = parent[x] /\ pc'[x] = pc[x] /\ under'[x] = under[x]

(* A task that never was holds nothing and is in no call, and it stays      *)
(* apart from those that were.                                              *)
LEMMA SubmitFresh ==
    ASSUME Staged, Calling, NEW t \in Tasks, NEW p \in Tasks \cup {NoTask}, status[t] = "none",
           p \in Tasks => pc[p] = "executing"
    PROVE  /\ pc[t] = "none" /\ t # p /\ t \notin slots /\ t \notin profiles /\ t \notin done
           /\ \A c \in Calls : call[<<t, c>>] = "idle"
<1>1. pc[t] = "none" /\ t \notin slots /\ t \notin profiles /\ t \notin done
  BY Zenon DEF Staged, During, Leasing, After
<1>2. t # p
  BY <1>1, MultiAgentAssumption, Zenon
<1>3. \A c \in Calls : call[<<t, c>>] = "idle"
  BY <1>1, Zenon DEF Calling
<1> QED
  BY <1>1, <1>2, <1>3, Zenon

LEMMA SubmitKnown ==
    ASSUME NEW t \in Tasks, NEW old, Others(t, old), status[t] = "none", status'[t] = "submitted"
    PROVE  \A x \in Tasks : status[x] # "none" => x # t /\ status'[x] # "none"
<1> SUFFICES ASSUME NEW x \in Tasks, status[x] # "none"
             PROVE  x # t /\ status'[x] # "none"
  BY Zenon
<1>1. x # t
  BY Zenon
<1>2. status'[x] = "gone" \/ status'[x] = status[x]
  BY <1>1, Zenon DEF Others
<1> QED
  BY <1>1, <1>2, Zenon

(* A task t is created, inside a call of p or by an outside caller: the     *)
(* calls are still those of executors, waiting for tasks they delegated.    *)
LEMMA SubmitCalling ==
    ASSUME Calling, NEW t \in Tasks, NEW p \in Tasks \cup {NoTask}, setup' = setup,
           \A c \in Calls : call[<<t, c>>] = "idle",
           parent'[t] = p, status'[t] = "submitted",
           \A x \in Tasks : x # t => parent'[x] = parent[x] /\ pc'[x] = pc[x],
           \A x \in Tasks : status[x] # "none" => x # t /\ status'[x] # "none",
           \A x \in Tasks, d \in Calls :
              \/ call'[<<x, d>>] = call[<<x, d>>] /\ target'[<<x, d>>] = target[<<x, d>>]
              \/ x = p /\ call[<<x, d>>] = "calling" /\ call'[<<x, d>>] = "delegated" /\ target'[<<x, d>>] = t
    PROVE  Calling'
<1>0. TimedWaits' = TimedWaits
  BY Zenon DEF TimedWaits
<1>1. ASSUME NEW x \in Tasks, NEW d \in Calls
      PROVE  /\ call'[<<x, d>>] # "idle" => pc'[x] = "executing" /\ d \in setup'.calls
             /\ call'[<<x, d>>] = "expired" => TimedWaits'
             /\ call'[<<x, d>>] \in Waiting =>
                   target'[<<x, d>>] \in Tasks /\ status'[target'[<<x, d>>]] # "none"
  <2>1. call'[<<x, d>>] # "idle" => call[<<x, d>>] # "idle"
    BY Zenon
  <2>2. call[<<x, d>>] # "idle" => pc[x] = "executing" /\ d \in setup.calls /\ x # t
    BY DEF Calling
  <2>3. CASE call'[<<x, d>>] = call[<<x, d>>] /\ target'[<<x, d>>] = target[<<x, d>>]
    <3>1. call[<<x, d>>] \in Waiting => target[<<x, d>>] \in Tasks /\ status[target[<<x, d>>]] # "none"
      BY DEF Calling
    <3>2. call[<<x, d>>] = "expired" => TimedWaits
      BY DEF Calling
    <3>3. call'[<<x, d>>] # "idle" => pc'[x] = "executing" /\ d \in setup'.calls
      BY <2>2, <2>3, Zenon
    <3>4. ASSUME call'[<<x, d>>] \in Waiting
          PROVE  target'[<<x, d>>] \in Tasks /\ status'[target'[<<x, d>>]] # "none"
      <4>1. PICK y \in Tasks : y = target[<<x, d>>] /\ y = target'[<<x, d>>] /\ status[y] # "none"
        BY <2>3, <3>1, <3>4, Zenon
      <4>2. status'[y] # "none"
        BY <4>1, Zenon
      <4> QED
        BY <4>1, <4>2, Zenon
    <3> QED
      BY <1>0, <2>3, <3>2, <3>3, <3>4, Zenon
  <2>4. CASE x = p /\ call[<<x, d>>] = "calling" /\ call'[<<x, d>>] = "delegated" /\ target'[<<x, d>>] = t
    BY <2>2, <2>4, Zenon DEF Waiting
  <2> QED
    BY <2>3, <2>4, Zenon
<1> QED
  BY <1>1, Zenon DEF Calling

(* Likewise for who holds a slot.                                           *)
LEMMA SubmitLeased ==
    ASSUME Leased, NEW t \in Tasks, NEW p \in Tasks \cup {NoTask}, setup' = setup, slots' = slots,
           pc'[t] = "created", \A x \in Tasks : x # t => pc'[x] = pc[x] /\ CtxDone(x)' = CtxDone(x),
           \A x \in Tasks, d \in Calls :
              \/ call'[<<x, d>>] = call[<<x, d>>] /\ target'[<<x, d>>] = target[<<x, d>>]
              \/ x = p /\ call[<<x, d>>] = "calling" /\ call'[<<x, d>>] = "delegated" /\ target'[<<x, d>>] = t
    PROVE  Leased'
<1>0. TimedWaits' = TimedWaits /\ setup' = setup
  BY Zenon DEF TimedWaits
<1>2. \A x \in Tasks, d \in Calls :
         /\ call'[<<x, d>>] # "idle" => call[<<x, d>>] # "idle"
         /\ call'[<<x, d>>] = "returned" => call[<<x, d>>] = "returned"
         /\ call'[<<x, d>>] \in {"idle", "returned"} => call'[<<x, d>>] = call[<<x, d>>]
  BY Zenon
<1>3. \A x \in Tasks : pc'[x] \in Leasing => x # t /\ pc[x] \in Leasing
  BY Zenon DEF Leasing, During
<1>4. ASSUME ~TimedWaits, NEW x \in Tasks, pc'[x] \in Leasing, ~CtxDone(x)',
             \A c \in Calls : call'[<<x, c>>] \in {"idle", "returned"}
      PROVE  x \in slots'
  BY <1>2, <1>3, <1>4, Zenon DEF Leased
<1>5. ASSUME Cardinality(setup.calls) = 1, NEW x \in Tasks, NEW c \in Calls, call'[<<x, c>>] # "idle"
      PROVE  x \notin slots' /\ call'[<<x, c>>] # "returned"
  BY <1>2, <1>5 DEF Leased
<1>6. ASSUME NEW x \in Tasks, \A c \in Calls : call'[<<x, c>>] \in {"idle", "returned"}
      PROVE  \A c \in Calls : call'[<<x, c>>] = "idle"
  BY <1>2, <1>6 DEF Leased
<1> QED
  BY <1>0, <1>4, <1>5, <1>6, Zenon DEF Leased

(* The new task counts against the bounds retention left room in.           *)
LEMMA SubmitWithin ==
    ASSUME Counting, TypeOK, Within(status), NEW t \in Tasks, NEW a \in Agents, NEW p \in Tasks \cup {NoTask}, NEW old \in SUBSET Tasks,
           setup' = setup, status[t] = "none", Allowed(p, a), Cardinality(Live(Cleaned(old))) < MaxTasks,
           \A x \in old : Terminal(status[x]), status'[t] = "submitted", parent'[t] = p,
           Others(t, old)
    PROVE  Within(status)'
<1>1. MaxTasks' = MaxTasks /\ MaxChildren' = MaxChildren /\ MaxTasks \in Nat /\ MaxChildren \in Nat
  BY SetupFacts, Zenon DEF MaxTasks, MaxChildren
<1>2. Live(status') = Live(Cleaned(old)) \cup {t}
  BY Zenon DEF Live, Cleaned, Others
<1>3. Live(Cleaned(old)) \subseteq Live(status) /\ Live(status) \subseteq Tasks /\ t \notin Live(status)
  BY Zenon DEF Live, Cleaned, Terminal
<1>4. Cardinality(Live(status')) <= MaxTasks
  <2> DEFINE L == Live(Cleaned(old))
  <2>0. L \in SUBSET Tasks /\ L \cup {t} \in SUBSET Tasks /\ Cardinality(L) < MaxTasks /\ Live(status') = L \cup {t}
    BY <1>2, <1>3, Zenon
  <2> HIDE DEF L
  <2>1. Cardinality(L \cup {t}) <= Cardinality(L) + 1 /\ Cardinality(L) \in Nat
    BY <2>0, TaskSets, Zenon
  <2>2. Cardinality(L \cup {t}) \in Nat
    BY <2>0, TaskSets, Zenon
  <2>3. Cardinality(L \cup {t}) <= MaxTasks
    BY <1>1, <2>0, <2>1, <2>2
  <2> QED
    BY <2>0, <2>3, Zenon
<1>5. ASSUME NEW q \in Tasks
      PROVE  Cardinality({x \in Live(status') : parent'[x] = q}) <= MaxChildren
  <2> DEFINE B == {x \in Live(status') : parent'[x] = q}
             C == Children(status, q)
  <2>1. C \in SUBSET Tasks
    BY <1>3, Zenon DEF Children
  <2>2. Cardinality(C) <= MaxChildren
    BY Zenon DEF Within
  <2>3. CASE q = p
    <3>1. Cardinality(C) < MaxChildren
      <4>1. q # NoTask
        BY MultiAgentAssumption, Zenon
      <4> QED
        BY <2>3, <4>1, Zenon DEF Allowed, Children
    <3>2. B \subseteq C \cup {t}
      BY <1>2, <1>3, Zenon DEF Children, Others
    <3> HIDE DEF B, C
    <3>3. Cardinality(C \cup {t}) <= Cardinality(C) + 1 /\ Cardinality(C) \in Nat
      BY <2>1, TaskSets, Zenon
    <3>4. C \cup {t} \in SUBSET Tasks
      BY <2>1, Zenon
    <3>5. Cardinality(B) <= Cardinality(C \cup {t}) /\ Cardinality(C \cup {t}) \in Nat
      BY <3>2, <3>4, TaskSets, Zenon
    <3>6. Cardinality(B) \in Nat
      BY <3>2, <3>4, TaskSets, Zenon
    <3>7. Cardinality(B) <= MaxChildren
      BY <1>1, <3>1, <3>3, <3>5, <3>6
    <3> QED
      BY <3>7, Zenon DEF B
  <2>4. CASE q # p
    <3>1. B \subseteq C
      BY <1>2, <1>3, <2>4, Zenon DEF Children, Others
    <3> HIDE DEF B, C
    <3>2. Cardinality(B) <= Cardinality(C) /\ Cardinality(C) \in Nat /\ Cardinality(B) \in Nat
      BY <2>1, <3>1, TaskSets, Zenon
    <3>3. Cardinality(B) <= MaxChildren
      BY <1>1, <2>2, <3>2
    <3> QED
      BY <3>3, Zenon DEF B
  <2> QED
    BY <2>3, <2>4, Zenon
<1> QED
  BY <1>1, <1>4, <1>5, Zenon DEF Within, Children, Live

(* Likewise for the stages of the tasks,                                    *)
LEMMA SubmitStaged ==
    ASSUME Staged, NEW t \in Tasks, NEW old, slots' = slots, profiles' = profiles, done' = done,
           t \notin slots, t \notin profiles, t \notin done,
           status[t] = "none", status'[t] = "submitted", pc'[t] = "created",
           \A x \in old : x \in Tasks /\ Terminal(status[x]) /\ x # t,
           Others(t, old)
    PROVE  Staged'
<1>1. ASSUME NEW x \in Tasks, x # t
      PROVE  /\ pc'[x] = "none" <=> status'[x] = "none"
             /\ pc'[x] \in Before => status'[x] = "submitted"
             /\ pc'[x] \in During => status'[x] = "working"
             /\ pc'[x] \in After => Terminal(status'[x]) \/ status'[x] = "gone"
             /\ x \in slots' => pc'[x] \in (Leasing \cup After) \ {"ended"}
             /\ x \in profiles' => pc'[x] \in ({"profiled"} \cup Leasing \cup After) \ {"ended"}
             /\ x \in done' => pc'[x] \in {"closed", "ended"}
  <2>1. pc'[x] = pc[x] /\ (x \in slots' <=> x \in slots) /\ (x \in profiles' <=> x \in profiles)
        /\ (x \in done' <=> x \in done)
    BY <1>1, Zenon DEF Others
  <2>2. x \in old => Terminal(status[x])
    BY Zenon
  <2>3. status'[x] = IF x \in old THEN "gone" ELSE status[x]
    BY <1>1, Zenon DEF Others
  <2> QED
    BY <2>1, <2>2, <2>3 DEF Staged, Before, During, Leasing, After, Terminal
<1>2. /\ t \notin slots' /\ t \notin profiles' /\ t \notin done'
      /\ pc'[t] = "created" /\ status'[t] = "submitted"
  BY Zenon
<1>3. /\ "created" \in Before /\ "created" \notin During /\ "created" \notin After
  BY Zenon DEF Before, During, Leasing, After
<1> QED
  BY <1>1, <1>2, <1>3, Zenon DEF Staged

(* for what a parent may delegate,                                          *)
LEMMA SubmitDelegated ==
    ASSUME TypeOK, Delegated, NEW t \in Tasks, NEW a \in Agents, NEW p \in Tasks \cup {NoTask}, NEW old, setup' = setup, t # p,
           p \in Tasks => status[p] = "working" /\ a \in delegateTo[agent[p]],
           \A x \in Tasks : status[x] # "none" => x # t /\ status'[x] # "none",
           status[t] = "none", status'[t] = "submitted", agent'[t] = a, parent'[t] = p,
           \A x \in old : x \in Tasks /\ Terminal(status[x]) /\ x # t,
           Others(t, old)
    PROVE  Delegated'
<1>0. delegateTo' = delegateTo
  BY Zenon DEF delegateTo
<1>1. ASSUME NEW x \in Tasks, x # t, status'[x] # "none", parent'[x] # NoTask
      PROVE  agent'[x] \in delegateTo'[agent'[parent'[x]]] /\ status'[parent'[x]] # "none"
  <2>1. status[x] # "none" /\ parent'[x] = parent[x] /\ parent[x] \in Tasks
    <3>1. parent[x] \in Tasks \cup {NoTask}
      BY Zenon DEF TypeOK
    <3>2. x \in old => status[x] # "none"
      BY Zenon DEF Terminal
    <3> QED
      BY <1>1, <3>1, <3>2, Zenon DEF Others
  <2>2. agent[x] \in delegateTo[agent[parent[x]]] /\ status[parent[x]] # "none"
    BY <1>1, <2>1, Zenon DEF Delegated
  <2> QED
    BY <1>0, <1>1, <2>1, <2>2 DEF Others
<1>2. p # NoTask => agent'[t] \in delegateTo'[agent'[p]] /\ status'[p] # "none"
  BY <1>0, Zenon DEF Others
<1> QED
  BY <1>1, <1>2, Zenon DEF Delegated

(* and for the snapshots.                                                   *)
LEMMA SubmitSaved ==
    ASSUME Counting, TypeOK, Saved, Within(status)', NEW t \in Tasks, status[t] = "none", pc[t] = "none",
           UNCHANGED <<setup, writer, snap, disk>>,
           \A x \in Tasks : status[x] # "none" => status'[x] # "none",
           \A x \in Tasks : x # t => parent'[x] = parent[x] /\ pc'[x] = pc[x]
    PROVE  Saved'
<1>0. \A x \in Tasks : x # t => parent'[x] = parent[x]
  BY Zenon
<1>2. Sound(disk)'
  <2>1. Sound(disk)
    BY Zenon DEF Saved
  <2>2. /\ \A x \in Tasks : disk[x] # "gone" /\ (disk[x] # "none" => status'[x] # "none")
        /\ Cardinality(Live(disk)) <= MaxTasks'
        /\ \A q \in Tasks : Cardinality({x \in Live(disk) : parent'[x] = q}) <= MaxChildren'
    BY <1>0, <2>1, SoundStep, Zenon
  <2>3. disk' = disk
    BY Zenon
  <2> QED
    BY <2>2, <2>3, Zenon DEF Sound, Within, Children, Live
<1>3. ASSUME NEW w \in Tasks, snap'[w] # NoSnapshot
      PROVE  /\ Persistent' /\ writer' = w /\ pc'[w] \in {"created", "started", "finished"}
             /\ snap'[w] \in [Tasks -> Statuses] /\ Sound(snap[w])'
  <2>1. /\ Persistent /\ writer = w /\ pc[w] \in {"created", "started", "finished"}
        /\ snap[w] \in [Tasks -> Statuses] /\ Sound(snap[w])
    BY <1>3, Zenon DEF Saved
  <2>2. Sound(snap[w])'
    <3>2. /\ \A x \in Tasks : snap[w][x] # "gone" /\ (snap[w][x] # "none" => status'[x] # "none")
          /\ Cardinality(Live(snap[w])) <= MaxTasks'
          /\ \A q \in Tasks : Cardinality({x \in Live(snap[w]) : parent'[x] = q}) <= MaxChildren'
      BY <1>0, <2>1, SoundStep, Zenon
    <3>3. snap' = snap
      BY Zenon
    <3> QED
      BY <3>2, <3>3, Zenon DEF Sound, Within, Children, Live
  <2> QED
    BY <2>1, <2>2, Zenon DEF Persistent
<1> QED
  BY <1>2, <1>3, Zenon DEF Saved

(* Its fields have their types, and no lease changes hands.                 *)
LEMMA SubmitTypes ==
    ASSUME TypeOK, NEW t \in Tasks, NEW a \in Agents, NEW p \in Tasks \cup {NoTask}, NEW wait \in BOOLEAN,
           NEW old \in SUBSET Expirable, t \notin profiles, wait => p \in Tasks,
           p \in Tasks => status[p] = "working" /\ depth[p] < MaxDepth /\ a \in delegateTo[agent[p]],
           status' = [Cleaned(old) EXCEPT ![t] = "submitted"],
           agent' = [agent EXCEPT ![t] = a], parent' = [parent EXCEPT ![t] = p],
           depth' = [depth EXCEPT ![t] = IF p = NoTask THEN 1 ELSE depth[p] + 1],
           ancestry' = [ancestry EXCEPT ![t] = IF p = NoTask THEN {} ELSE ancestry[p] \cup {agent[p]}],
           under' = [under EXCEPT ![t] = IF wait THEN under[p] \cup {t} ELSE {t}],
           cancels' = cancels \ old, pc' = [pc EXCEPT ![t] = "created"],
           UNCHANGED <<setup, done, cancelled, asked, writer, snap, disk, restarts>>,
           UNCHANGED <<slots, profiles>>,
           call' \in [Tasks \X Calls -> CallStates],
           target' \in [Tasks \X Calls -> Tasks \cup {NoTask}]
    PROVE  TypeOK'
<1>1. status' \in [Tasks -> Statuses]
  BY Zenon DEF TypeOK, Cleaned, Statuses
<1>2. /\ agent' \in [Tasks -> Agents] /\ parent' \in [Tasks -> Tasks \cup {NoTask}]
      /\ pc' \in [Tasks -> Stages] /\ cancels' \subseteq Tasks
  BY Zenon DEF TypeOK, Stages
<1>3. depth' \in [Tasks -> 0 .. MaxDepth]
  <2>1. (IF p = NoTask THEN 1 ELSE depth[p] + 1) \in 0 .. MaxDepth
    BY MultiAgentAssumption DEF TypeOK
  <2> QED
    BY <2>1, Zenon DEF TypeOK
<1>4. ancestry' \in [Tasks -> SUBSET Agents]
  <2>1. (IF p = NoTask THEN {} ELSE ancestry[p] \cup {agent[p]}) \in SUBSET Agents
    BY DEF TypeOK
  <2> QED
    BY <2>1, Zenon DEF TypeOK
<1>5. under' \in [Tasks -> SUBSET Tasks]
  <2>1. (IF wait THEN under[p] \cup {t} ELSE {t}) \in SUBSET Tasks
    BY Zenon DEF TypeOK
  <2> QED
    BY <2>1, Zenon DEF TypeOK
<1>6. ASSUME NEW b \in Agents
      PROVE  Cardinality({u \in profiles' : agent'[u] = b}) <= profileMax'[b]
  <2>1. {u \in profiles' : agent'[u] = b} = {u \in profiles : agent[u] = b}
    BY Zenon DEF TypeOK
  <2>2. Cardinality({u \in profiles : agent[u] = b}) <= profileMax[b] /\ profileMax' = profileMax
    BY Zenon DEF TypeOK, profileMax
  <2> QED
    BY <2>1, <2>2, Zenon
<1> QED
  BY <1>1, <1>2, <1>3, <1>4, <1>5, <1>6, Zenon DEF TypeOK, MaxParallel, MaxRestarts

(* A task is created: retention first removes the old tasks, then the new   *)
(* one counts against the bounds.                                           *)
LEMMA SubmitKeeps ==
    ASSUME Counting, IInv, NEW t \in Tasks, NEW a \in Agents, NEW p \in Tasks \cup {NoTask}, NEW wait \in BOOLEAN,
           NEW old \in SUBSET Expirable, Submit(t, a, p, wait, old), UNCHANGED <<slots, profiles>>,
           wait => p \in Tasks, p \in Tasks => pc[p] = "executing",
           call' \in [Tasks \X Calls -> CallStates],
           target' \in [Tasks \X Calls -> Tasks \cup {NoTask}],
           \A x \in Tasks, d \in Calls :
              \/ call'[<<x, d>>] = call[<<x, d>>] /\ target'[<<x, d>>] = target[<<x, d>>]
              \/ x = p /\ call[<<x, d>>] = "calling" /\ call'[<<x, d>>] = "delegated" /\ target'[<<x, d>>] = t
    PROVE  IInv'
<1>0. /\ status[t] = "none" /\ Allowed(p, a) /\ Cardinality(Live(Cleaned(old))) < MaxTasks
      /\ status' = [Cleaned(old) EXCEPT ![t] = "submitted"]
      /\ agent' = [agent EXCEPT ![t] = a] /\ parent' = [parent EXCEPT ![t] = p]
      /\ depth' = [depth EXCEPT ![t] = IF p = NoTask THEN 1 ELSE depth[p] + 1]
      /\ ancestry' = [ancestry EXCEPT ![t] = IF p = NoTask THEN {} ELSE ancestry[p] \cup {agent[p]}]
      /\ under' = [under EXCEPT ![t] = IF wait THEN under[p] \cup {t} ELSE {t}]
      /\ cancels' = cancels \ old /\ pc' = [pc EXCEPT ![t] = "created"]
      /\ UNCHANGED <<setup, done, cancelled, asked, writer, snap, disk, restarts>>
  BY Zenon DEF Submit, Fresh, diskVars
<1>1. /\ pc[t] = "none" /\ t # p /\ t \notin slots /\ t \notin profiles /\ t \notin done
      /\ \A c \in Calls : call[<<t, c>>] = "idle"
  <2>1. Staged /\ Calling /\ status[t] = "none"
    BY <1>0, Zenon DEF IInv
  <2> QED
    BY <2>1, SubmitFresh, Zenon
<1>2. \A x \in old : x \in Tasks /\ Terminal(status[x]) /\ x # t
  BY <1>0, Zenon DEF Expirable, Terminal
<1>3. /\ status'[t] = "submitted" /\ agent'[t] = a /\ parent'[t] = p /\ pc'[t] = "created"
      /\ Others(t, old)
  BY <1>0, Zenon DEF IInv, TypeOK, Cleaned, Others
<1>4. \A x \in Tasks : status[x] # "none" => x # t /\ status'[x] # "none"
  BY <1>0, <1>3, SubmitKnown, Zenon
<1>5. p \in Tasks => status[p] = "working" /\ depth[p] < MaxDepth /\ a \in delegateTo[agent[p]]
  BY <1>0, MultiAgentAssumption, Zenon DEF IInv, Staged, During, Leasing, Allowed
<1>6. TypeOK'
  BY <1>0, <1>1, <1>5, SubmitTypes, Zenon DEF IInv
<1>7. Staged'
  <2>1. Staged /\ slots' = slots /\ profiles' = profiles /\ done' = done
    BY <1>0, Zenon DEF IInv
  <2> QED
    BY <1>0, <1>1, <1>2, <1>3, <2>1, SubmitStaged, Zenon
<1>8. Delegated'
  <2>1. /\ TypeOK /\ Delegated /\ setup' = setup
        /\ p \in Tasks => status[p] = "working" /\ a \in delegateTo[agent[p]]
    BY <1>0, <1>5, Zenon DEF IInv
  <2> QED
    BY <1>0, <1>1, <1>2, <1>3, <1>4, <2>1, SubmitDelegated, Zenon
<1>9. Calling'
  <2>1. \A x \in Tasks : x # t => parent'[x] = parent[x] /\ pc'[x] = pc[x]
    BY <1>3, Zenon DEF Others
  <2>2. Calling /\ setup' = setup /\ parent'[t] = p /\ status'[t] = "submitted"
    BY <1>0, <1>3, Zenon DEF IInv
  <2> QED
    BY <1>1, <1>4, <2>1, <2>2, SubmitCalling, Zenon
<1>10. Leased'
  <2>1. \A x \in Tasks : x # t => CtxDone(x)' = CtxDone(x)
    BY <1>0, <1>3, Zenon DEF CtxDone, Others
  <2>2. \A x \in Tasks : x # t => pc'[x] = pc[x] /\ CtxDone(x)' = CtxDone(x)
    BY <1>3, <2>1, Zenon DEF Others
  <2> QED
    BY <1>0, <1>3, <2>2, SubmitLeased, Zenon DEF IInv
<1>11. Saved'
  <2>1. old \in SUBSET Tasks /\ TypeOK /\ Within(status) /\ setup' = setup
    BY <1>0, <1>2, Zenon DEF IInv, Saved
  <2>2. Within(status)'
    BY <1>0, <1>2, <1>3, <2>1, SubmitWithin, Zenon
  <2>3. \A x \in Tasks : x # t => parent'[x] = parent[x] /\ pc'[x] = pc[x]
    BY <1>3, Zenon DEF Others
  <2>4. /\ Saved /\ status[t] = "none" /\ pc[t] = "none" /\ UNCHANGED <<setup, writer, snap, disk>>
        /\ \A x \in Tasks : status[x] # "none" => status'[x] # "none"
    BY <1>0, <1>1, <1>4, Zenon DEF IInv
  <2> QED
    BY <2>1, <2>2, <2>3, <2>4, SubmitSaved, Zenon
<1> QED
  BY <1>6, <1>7, <1>8, <1>9, <1>10, <1>11, Zenon DEF IInv

(* The process restarts from its snapshot.                                  *)
LEMMA RestartKeeps ==
    ASSUME Counting, IInv, Restart
    PROVE  IInv'
<1>0. /\ restarts < MaxRestarts /\ restarts' = restarts + 1
      /\ status' = [t \in Tasks |-> IF disk[t] # "none" THEN Recovered(disk[t])
                                    ELSE IF status[t] = "none" THEN "none" ELSE "gone"]
      /\ done' = {t \in Tasks : disk[t] # "none"}
      /\ pc' = [t \in Tasks |-> IF status[t] = "none" THEN "none" ELSE "ended"]
      /\ cancels' = {} /\ asked' = {} /\ slots' = {} /\ profiles' = {}
      /\ call' = [x \in Tasks \X Calls |-> "idle"] /\ target' = [x \in Tasks \X Calls |-> NoTask]
      /\ writer' = NoTask /\ snap' = [t \in Tasks |-> NoSnapshot]
      /\ UNCHANGED <<setup, agent, parent, depth, ancestry, under, cancelled, disk>>
  BY Zenon DEF Restart, taskVars
<1>1. Sound(disk) /\ Within(disk)
  BY Zenon DEF IInv, Saved, Sound
<1>2. \A t \in Tasks : /\ disk[t] \in Statuses \ {"gone"} /\ (disk[t] # "none" => status[t] # "none")
                       /\ status'[t] = IF disk[t] # "none" THEN Recovered(disk[t])
                                       ELSE IF status[t] = "none" THEN "none" ELSE "gone"
  BY <1>0, <1>1, Zenon DEF IInv, TypeOK, Sound
<1>3. /\ Known
      /\ \A t \in Tasks : status'[t] \in Statuses /\ (status'[t] # "none" => Terminal(status'[t]) \/ status'[t] = "gone")
      /\ Live(status') \subseteq Live(disk)
  BY <1>2 DEF Known, Statuses, Recovered, Terminal, Live
<1>4. TypeOK'
  <2>1. status' \in [Tasks -> Statuses] /\ pc' \in [Tasks -> Stages]
    BY <1>0, <1>3, Zenon DEF Stages
  <2>2. Cardinality(slots') <= MaxParallel
    BY <1>0, FewerSlots, Zenon DEF IInv
  <2>3. ASSUME NEW a \in Agents
        PROVE  Cardinality({u \in profiles' : agent[u] = a}) <= profileMax[a]
    BY <1>0, FewerProfiles, Zenon DEF IInv
  <2>4. /\ call' \in [Tasks \X Calls -> CallStates]
        /\ target' \in [Tasks \X Calls -> Tasks \cup {NoTask}]
    BY <1>0, Zenon DEF CallStates
  <2>5. /\ writer' \in Tasks \cup {NoTask} /\ snap' \in [Tasks -> [Tasks -> Statuses] \cup {NoSnapshot}]
    BY <1>0, Zenon
  <2>6. restarts' \in 0 .. MaxRestarts
    <3>1. restarts \in 0 .. MaxRestarts /\ MaxRestarts \in Nat
      BY SetupFacts, Zenon DEF IInv, TypeOK
    <3> QED
      BY <1>0, <3>1
  <2>7. /\ done' \subseteq Tasks /\ cancels' \subseteq Tasks /\ asked' \subseteq Tasks /\ slots' \subseteq Tasks
        /\ profiles' \subseteq Tasks
        /\ UNCHANGED <<setup, agent, parent, depth, ancestry, under, cancelled, disk>>
    BY <1>0, Zenon
  <2> QED
    BY <2>1, <2>2, <2>3, <2>4, <2>5, <2>6, <2>7, Zenon DEF IInv, TypeOK, MaxParallel, profileMax, MaxRestarts
<1>5. Staged'
  BY <1>0, <1>2, <1>3, Zenon DEF Staged, Known, Before, During, Leasing, After
<1>6. Delegated'
  BY <1>0, <1>3, DelegatedFrame, Zenon DEF IInv
<1>7. \A x \in Tasks, c \in Calls : call'[<<x, c>>] = "idle"
  BY <1>0, Zenon
<1>8. Calling'
  BY <1>7, Zenon DEF Calling, Waiting
<1>9. Leased'
  <2>1. \A x \in Tasks : pc'[x] \notin Leasing
    BY <1>0, Zenon DEF Leasing, During
  <2> QED
    BY <1>7, <2>1, Zenon DEF Leased
<1>10. Saved'
  <2>0. TypeOK /\ UNCHANGED <<setup, parent, disk>>
    BY <1>0, Zenon DEF IInv
  <2>1. Within(status)'
    BY <1>1, <1>3, <2>0, WithinFrame DEF Within, Children, Live
  <2>3. Within(disk)'
    BY <1>1, <2>0, WithinFrame DEF Within, Children, Live
  <2>2. Sound(disk)'
    BY <1>1, <1>3, <2>0, <2>3, Zenon DEF Sound, Known
  <2> QED
    BY <1>0, <2>1, <2>2, Zenon DEF Saved
<1> QED
  BY <1>4, <1>5, <1>6, <1>8, <1>9, <1>10, Zenon DEF IInv

=============================================================================
