---------------------------- MODULE MemoryFabric ----------------------------
(***************************************************************************)
(* The Memory Fabric (internal/memoryfabric/store.go) with the consumers   *)
(* and the administration that drive it (cmd/haosbot/projection_manager.go *)
(* and memory_admin.go): canonical records, one outbox job per record and  *)
(* projection, leased and retried by projection workers, queue counters    *)
(* maintained incrementally, and the rebuild and prune operations that     *)
(* reset the derived indexes.                                              *)
(*                                                                         *)
(* A SQLite transaction is one action.  Time is abstract: a retry becomes  *)
(* due and a lease runs out at any moment.  The content of a record counts *)
(* by its size only, in bytes where the code takes len and in characters   *)
(* where SQL takes LENGTH.                                                 *)
(***************************************************************************)
EXTENDS Integers, FiniteSets, FiniteSetsExt

CONSTANTS
    Records,            \* record ids
    Projections,        \* "graph" and "obsidian"
    Workers, serves,    \* projection workers, and the projection of each
    Admins,             \* concurrent administration requests
    Setups,             \* the configurations and environments considered
    NoJob

Jobs == Records \X Projections

VARIABLES
    setup,          \* the configuration and environment of this behaviour
    records,        \* memory_records
    older,          \* their order by created_at
    state,          \* memory_outbox.state, "none" without a row
    attempts,       \* memory_outbox.attempts
    due,            \* next_attempt_at has come
    leased,         \* lease_until has not
    pendingJobs,    \* memory_queue_counters
    pendingBytes,
    applied,        \* the jobs whose document is in the derived index
    pc, claim,      \* the projection workers
    apc, todo, victims, \* the administration requests
    faults

queueVars == <<state, attempts, due, leased, pendingJobs, pendingBytes>>
workerVars == <<pc, claim>>
adminVars == <<apc, todo, victims>>
vars == <<setup, records, older, queueVars, applied, workerVars, adminVars, faults>>

AdminOps        == setup.adminOps        \* the administration requests made: rebuild, prune, retry
maxPending      == setup.maxPending      \* Config.MaxPending
maxPendingBytes == setup.maxPendingBytes \* Config.MaxPendingBytes
maxAttempts     == setup.maxAttempts     \* Config.MaxAttempts
bytes           == setup.bytes           \* the size of each record's content in bytes
chars           == setup.chars           \* and in characters
SlowWorkers     == setup.slowWorkers     \* whether a lease may run out under a live worker
MaxFaults       == setup.maxFaults       \* bound: crashes and failed transactions
AttemptBound    == setup.attemptBound    \* bound: claims of one job between two requeues

TypeOK ==
    /\ setup \in Setups
    /\ records \subseteq Records
    /\ older \subseteq records \X records
    /\ state \in [Jobs -> {"none", "queued", "running", "succeeded", "dead"}]
    /\ attempts \in [Jobs -> Nat]
    /\ due \in [Jobs -> BOOLEAN]
    /\ leased \in [Jobs -> BOOLEAN]
    /\ pendingJobs \in Nat
    /\ pendingBytes \in Nat
    /\ applied \subseteq Jobs
    /\ pc \in [Workers -> {"idle", "working", "done", "failed"}]
    /\ claim \in [Workers -> Jobs \cup {NoJob}]
    /\ apc \in [Admins -> {"idle", "requeue", "select", "delete"}]
    /\ todo \in [Admins -> SUBSET Projections]
    /\ victims \in [Admins -> SUBSET Records]
    /\ faults \in 0 .. MaxFaults

Init ==
    /\ setup \in Setups
    /\ records = {}
    /\ older = {}
    /\ state = [j \in Jobs |-> "none"]
    /\ attempts = [j \in Jobs |-> 0]
    /\ due = [j \in Jobs |-> TRUE]
    /\ leased = [j \in Jobs |-> FALSE]
    /\ pendingJobs = 0
    /\ pendingBytes = 0
    /\ applied = {}
    /\ pc = [w \in Workers |-> "idle"]
    /\ claim = [w \in Workers |-> NoJob]
    /\ apc = [a \in Admins |-> "idle"]
    /\ todo = [a \in Admins |-> {}]
    /\ victims = [a \in Admins |-> {}]
    /\ faults = 0

-----------------------------------------------------------------------------
Unfinished(s) == s \in {"queued", "running"}

PendingIn(st) == {j \in Jobs : Unfinished(st[j])}

RecordPending(st, r) == \E p \in Projections : Unfinished(st[<<r, p>>])

(* The content of the records that have an unfinished job.                  *)
BytesIn(st, size) ==
    MapThenSumSet(LAMBDA r : size[r], {r \in Records : RecordPending(st, r)})

(* Mutant of AppendTurn: tests the budgets before the turn, not after.      *)
AppendTurnUnbudgeted(r) ==
    LET missing == {p \in Projections : state[<<r, p>>] = "none"}
        cost    == IF RecordPending(state, r) THEN 0 ELSE bytes[r]
    IN  /\ missing # {}
        /\ pendingJobs <= maxPending
        /\ pendingBytes <= maxPendingBytes
        /\ records' = records \cup {r}
        /\ older' = IF r \in records THEN older ELSE older \cup (records \X {r})
        /\ state' = [j \in Jobs |-> IF j[1] = r /\ j[2] \in missing THEN "queued" ELSE state[j]]
        /\ pendingJobs' = pendingJobs + Cardinality(missing)
        /\ pendingBytes' = pendingBytes + cost
        /\ UNCHANGED <<setup, attempts, due, leased, applied, workerVars, adminVars, faults>>

(* AppendTurnScoped: the record and its missing jobs in one transaction,    *)
(* refused as a whole when a budget would be exceeded.                      *)
AppendTurn(r) ==
    LET missing == {p \in Projections : state[<<r, p>>] = "none"}
        cost    == IF RecordPending(state, r) THEN 0 ELSE bytes[r]
    IN  /\ missing # {}
        /\ pendingJobs + Cardinality(missing) <= maxPending
        /\ pendingBytes + cost <= maxPendingBytes
        /\ records' = records \cup {r}
        /\ older' = IF r \in records THEN older ELSE older \cup (records \X {r})
        /\ state' = [j \in Jobs |-> IF j[1] = r /\ j[2] \in missing THEN "queued" ELSE state[j]]
        /\ pendingJobs' = pendingJobs + Cardinality(missing)
        /\ pendingBytes' = pendingBytes + cost
        /\ UNCHANGED <<setup, attempts, due, leased, applied, workerVars, adminVars, faults>>

(* Mutant of Claimable: nobody takes over from a worker that died.          *)
ClaimableQueuedOnly(j) == state[j] = "queued" /\ due[j]

Claimable(j) == (state[j] = "queued" /\ due[j]) \/ (state[j] = "running" /\ ~leased[j])

(* Mutant of Claim: takes a running job whatever its lease says.            *)
ClaimIgnoresLease(w, j) ==
    /\ pc[w] = "idle"
    /\ j[2] = serves[w]
    /\ attempts[j] < AttemptBound
    /\ Unfinished(state[j])
    /\ state' = [state EXCEPT ![j] = "running"]
    /\ attempts' = [attempts EXCEPT ![j] = @ + 1]
    /\ leased' = [leased EXCEPT ![j] = TRUE]
    /\ pc' = [pc EXCEPT ![w] = "working"]
    /\ claim' = [claim EXCEPT ![w] = j]
    /\ UNCHANGED <<setup, records, older, due, pendingJobs, pendingBytes, applied, adminVars, faults>>

(* Claim: the oldest job of the projection that is due, or whose lease ran  *)
(* out.  The worker then projects it, holding its graph store.              *)
Claim(w, j) ==
    /\ pc[w] = "idle"
    /\ j[2] = serves[w]
    /\ attempts[j] < AttemptBound
    /\ Claimable(j)
    /\ \A r \in records : Claimable(<<r, j[2]>>) => <<r, j[1]>> \notin older
    /\ state' = [state EXCEPT ![j] = "running"]
    /\ attempts' = [attempts EXCEPT ![j] = @ + 1]
    /\ leased' = [leased EXCEPT ![j] = TRUE]
    /\ pc' = [pc EXCEPT ![w] = "working"]
    /\ claim' = [claim EXCEPT ![w] = j]
    /\ UNCHANGED <<setup, records, older, due, pendingJobs, pendingBytes, applied, adminVars, faults>>

(* processGraph and processObsidian: the document is looked up before it is *)
(* added, or replaces itself, so that projecting twice is projecting once.  *)
Project(w) ==
    /\ pc[w] = "working"
    /\ applied' = applied \cup {claim[w]}
    /\ pc' = [pc EXCEPT ![w] = "done"]
    /\ UNCHANGED <<setup, records, older, queueVars, claim, adminVars, faults>>

(* Mutant of ProjectFails: the error is swallowed.                          *)
ProjectFailsQuietly(w) ==
    /\ pc[w] = "working"
    /\ pc' = [pc EXCEPT ![w] = "done"]
    /\ UNCHANGED <<setup, records, older, queueVars, applied, claim, adminVars, faults>>

ProjectFails(w) ==
    /\ pc[w] = "working"
    /\ pc' = [pc EXCEPT ![w] = "failed"]
    /\ UNCHANGED <<setup, records, older, queueVars, applied, claim, adminVars, faults>>

(* decrementPendingCounter, for a job that leaves the unfinished states.    *)
decrementPendingCounter(j, st) ==
    LET delta == IF RecordPending(st, j[1]) THEN 0 ELSE chars[j[1]]
    IN  /\ pendingJobs' = IF pendingJobs > 0 THEN pendingJobs - 1 ELSE 0
        /\ pendingBytes' = IF pendingBytes > delta THEN pendingBytes - delta ELSE 0

Finish(w) ==
    /\ pc' = [pc EXCEPT ![w] = "idle"]
    /\ claim' = [claim EXCEPT ![w] = NoJob]

(* Ack by job id: nothing says the worker still holds the lease.            *)
Ack(w) ==
    LET j  == claim[w]
        st == [state EXCEPT ![j] = "succeeded"]
    IN  /\ pc[w] = "done"
        /\ IF Unfinished(state[j])
             THEN /\ state' = st
                  /\ leased' = [leased EXCEPT ![j] = FALSE]
                  /\ decrementPendingCounter(j, st)
             ELSE UNCHANGED <<setup, state, leased, pendingJobs, pendingBytes>>
        /\ Finish(w)
        /\ UNCHANGED <<setup, records, older, attempts, due, applied, adminVars, faults>>

(* Mutant of Retry: requeues the job in whatever state it finds it.         *)
RetryAnyState(w) ==
    LET j == claim[w]
    IN  /\ pc[w] = "failed"
        /\ IF state[j] # "none"
             THEN /\ state' = [state EXCEPT ![j] = IF attempts[j] >= maxAttempts THEN "dead" ELSE "queued"]
                  /\ leased' = [leased EXCEPT ![j] = FALSE]
                  /\ due' = [due EXCEPT ![j] = FALSE]
             ELSE UNCHANGED <<setup, state, leased, due>>
        /\ Finish(w)
        /\ UNCHANGED <<setup, records, older, attempts, pendingJobs, pendingBytes, applied, adminVars, faults>>

(* Retry: back to the queue with a delay, or dead after maxAttempts.        *)
Retry(w) ==
    LET j    == claim[w]
        dies == attempts[j] >= maxAttempts
        st   == [state EXCEPT ![j] = IF dies THEN "dead" ELSE "queued"]
    IN  /\ pc[w] = "failed"
        /\ IF Unfinished(state[j])
             THEN /\ state' = st
                  /\ leased' = [leased EXCEPT ![j] = FALSE]
                  /\ due' = [due EXCEPT ![j] = dies /\ @]
                  /\ IF dies THEN decrementPendingCounter(j, st)
                             ELSE UNCHANGED <<setup, pendingJobs, pendingBytes>>
             ELSE UNCHANGED <<setup, state, leased, due, pendingJobs, pendingBytes>>
        /\ Finish(w)
        /\ UNCHANGED <<setup, records, older, attempts, applied, adminVars, faults>>

(* An Ack that fails is followed by a Retry; a Retry that fails is dropped  *)
(* and leaves the job to its lease.                                         *)
AckFails(w) ==
    /\ faults < MaxFaults /\ faults' = faults + 1
    /\ pc[w] = "done"
    /\ pc' = [pc EXCEPT ![w] = "failed"]
    /\ UNCHANGED <<setup, records, older, queueVars, applied, claim, adminVars>>

RetryFails(w) ==
    /\ faults < MaxFaults /\ faults' = faults + 1
    /\ pc[w] = "failed"
    /\ Finish(w)
    /\ UNCHANGED <<setup, records, older, queueVars, applied, adminVars>>

(* Time passes.                                                             *)
RetryDue(j) ==
    /\ state[j] = "queued" /\ ~due[j]
    /\ due' = [due EXCEPT ![j] = TRUE]
    /\ UNCHANGED <<setup, records, older, state, attempts, leased, pendingJobs, pendingBytes,
                   applied, workerVars, adminVars, faults>>

LeaseExpires(j) ==
    /\ state[j] = "running" /\ leased[j]
    /\ SlowWorkers \/ \A w \in Workers : claim[w] # j
    /\ leased' = [leased EXCEPT ![j] = FALSE]
    /\ UNCHANGED <<setup, records, older, state, attempts, due, pendingJobs, pendingBytes,
                   applied, workerVars, adminVars, faults>>

(* The process stops and Open rebuilds the counters from the tables.        *)
Restart ==
    /\ faults < MaxFaults /\ faults' = faults + 1
    /\ pendingJobs' = Cardinality(PendingIn(state))
    /\ pendingBytes' = BytesIn(state, chars)
    /\ pc' = [w \in Workers |-> "idle"]
    /\ claim' = [w \in Workers |-> NoJob]
    /\ apc' = [a \in Admins |-> "idle"]
    /\ todo' = [a \in Admins |-> {}]
    /\ victims' = [a \in Admins |-> {}]
    /\ UNCHANGED <<setup, records, older, state, attempts, due, leased, applied>>

-----------------------------------------------------------------------------
(* ResetAll of the graph pool refuses while a worker holds a store.         *)
GraphIdle == \A w \in Workers : pc[w] = "working" => claim[w][2] # "graph"

(* Rebuild first empties the derived index, then requeues its projection.   *)
Rebuild(a, p) ==
    /\ "rebuild" \in AdminOps
    /\ apc[a] = "idle"
    /\ p = "graph" => GraphIdle
    /\ applied' = {j \in applied : j[2] # p}
    /\ apc' = [apc EXCEPT ![a] = "requeue"]
    /\ todo' = [todo EXCEPT ![a] = {p}]
    /\ UNCHANGED <<setup, records, older, queueVars, workerVars, victims, faults>>

(* RequeueProjection: every record of the canonical table, whatever the     *)
(* state of its job, and the counters from the tables.                      *)
RequeueProjection(a, p) ==
    LET st == [j \in Jobs |-> IF j[2] = p /\ j[1] \in records THEN "queued" ELSE state[j]]
    IN  /\ apc[a] = "requeue"
        /\ p \in todo[a]
        /\ state' = st
        /\ attempts' = [j \in Jobs |-> IF j[2] = p THEN 0 ELSE attempts[j]]
        /\ due' = [j \in Jobs |-> j[2] = p \/ due[j]]
        /\ leased' = [j \in Jobs |-> j[2] # p /\ leased[j]]
        /\ pendingJobs' = Cardinality(PendingIn(st))
        /\ pendingBytes' = BytesIn(st, chars)
        /\ todo' = [todo EXCEPT ![a] = @ \ {p}]
        /\ apc' = [apc EXCEPT ![a] = IF todo[a] = {p} THEN "idle" ELSE "requeue"]
        /\ UNCHANGED <<setup, records, older, applied, workerVars, victims, faults>>

(* Prune drains and removes the derived indexes, selects the records to     *)
(* delete, deletes them in another transaction, and requeues the rest.      *)
Prune(a) ==
    /\ "prune" \in AdminOps
    /\ apc[a] = "idle"
    /\ GraphIdle
    /\ applied' = {}
    /\ apc' = [apc EXCEPT ![a] = "select"]
    /\ UNCHANGED <<setup, records, older, queueVars, workerVars, todo, victims, faults>>

(* Mutant of Prunable: takes a dead job for a finished one.                 *)
PrunableWhenDead(r) ==
    /\ r \in records
    /\ \E p \in Projections : state[<<r, p>>] # "none"
    /\ \A p \in Projections : ~Unfinished(state[<<r, p>>])

Prunable(r) ==
    /\ r \in records
    /\ \E p \in Projections : state[<<r, p>>] # "none"
    /\ \A p \in Projections : state[<<r, p>>] \in {"none", "succeeded"}

(* The cutoff, the namespace and the limit may keep any of them.            *)
PruneSelect(a) ==
    /\ apc[a] = "select"
    /\ \E v \in SUBSET {r \in records : Prunable(r)} :
          victims' = [victims EXCEPT ![a] = v]
    /\ apc' = [apc EXCEPT ![a] = "delete"]
    /\ UNCHANGED <<setup, records, older, queueVars, applied, workerVars, todo, faults>>

(* Mutant of PruneDelete: uncounts jobs that were not counted any more.     *)
PruneDeleteUncounts(a) ==
    /\ apc[a] = "delete"
    /\ records' = records \ victims[a]
    /\ older' = {p \in older : p[1] \notin victims[a] /\ p[2] \notin victims[a]}
    /\ state' = [j \in Jobs |-> IF j[1] \in victims[a] THEN "none" ELSE state[j]]
    /\ attempts' = [j \in Jobs |-> IF j[1] \in victims[a] THEN 0 ELSE attempts[j]]
    /\ due' = [j \in Jobs |-> j[1] \in victims[a] \/ due[j]]
    /\ leased' = [j \in Jobs |-> j[1] \notin victims[a] /\ leased[j]]
    /\ apc' = [apc EXCEPT ![a] = "requeue"]
    /\ todo' = [todo EXCEPT ![a] = Projections]
    /\ victims' = [victims EXCEPT ![a] = {}]
    /\ pendingJobs' = pendingJobs - Cardinality(victims[a])
    /\ UNCHANGED <<setup, pendingBytes, applied, workerVars, faults>>

PruneDelete(a) ==
    /\ apc[a] = "delete"
    /\ records' = records \ victims[a]
    /\ older' = {p \in older : p[1] \notin victims[a] /\ p[2] \notin victims[a]}
    /\ state' = [j \in Jobs |-> IF j[1] \in victims[a] THEN "none" ELSE state[j]]
    /\ attempts' = [j \in Jobs |-> IF j[1] \in victims[a] THEN 0 ELSE attempts[j]]
    /\ due' = [j \in Jobs |-> j[1] \in victims[a] \/ due[j]]
    /\ leased' = [j \in Jobs |-> j[1] \notin victims[a] /\ leased[j]]
    /\ apc' = [apc EXCEPT ![a] = "requeue"]
    /\ todo' = [todo EXCEPT ![a] = Projections]
    /\ victims' = [victims EXCEPT ![a] = {}]
    /\ UNCHANGED <<setup, pendingJobs, pendingBytes, applied, workerVars, faults>>

(* Mutant of RetryDead: forgets to count the revived job.                   *)
RetryDeadUncounted(j) ==
    /\ "retry" \in AdminOps
    /\ state[j] = "dead"
    /\ pendingJobs + 1 <= maxPending
    /\ state' = [state EXCEPT ![j] = "queued"]
    /\ attempts' = [attempts EXCEPT ![j] = 0]
    /\ due' = [due EXCEPT ![j] = TRUE]
    /\ UNCHANGED <<setup, records, older, leased, pendingJobs, pendingBytes, applied, workerVars, adminVars, faults>>

RetryDead(j) ==
    LET cost == IF RecordPending(state, j[1]) THEN 0 ELSE chars[j[1]]
    IN  /\ "retry" \in AdminOps
        /\ state[j] = "dead"
        /\ pendingJobs + 1 <= maxPending
        /\ pendingBytes + cost <= maxPendingBytes
        /\ state' = [state EXCEPT ![j] = "queued"]
        /\ attempts' = [attempts EXCEPT ![j] = 0]
        /\ due' = [due EXCEPT ![j] = TRUE]
        /\ leased' = [leased EXCEPT ![j] = FALSE]
        /\ pendingJobs' = pendingJobs + 1
        /\ pendingBytes' = pendingBytes + cost
        /\ UNCHANGED <<setup, records, older, applied, workerVars, adminVars, faults>>

-----------------------------------------------------------------------------
WorkerStep(w) ==
    \/ \E j \in Jobs : Claim(w, j)
    \/ Project(w) \/ ProjectFails(w)
    \/ Ack(w) \/ Retry(w)

Next ==
    \/ \E r \in Records : AppendTurn(r)
    \/ \E w \in Workers : WorkerStep(w) \/ AckFails(w) \/ RetryFails(w)
    \/ \E j \in Jobs : RetryDue(j) \/ LeaseExpires(j) \/ RetryDead(j)
    \/ Restart
    \/ \E a \in Admins :
          \/ \E p \in Projections : Rebuild(a, p) \/ RequeueProjection(a, p)
          \/ Prune(a) \/ PruneSelect(a) \/ PruneDelete(a)

Spec == Init /\ [][Next]_vars

(* The workers poll on a timer, a projection runs under a timeout, and time *)
(* passes.  Nothing is assumed of the producers, of the administration, or  *)
(* of how a projection ends.                                                *)
Fairness ==
    /\ \A w \in Workers : WF_vars(WorkerStep(w))
    /\ \A j \in Jobs : WF_vars(RetryDue(j)) /\ WF_vars(LeaseExpires(j))

FairSpec == Spec /\ Fairness

-----------------------------------------------------------------------------
(* store.go:88-91 and 589-592: through appends, acks and retries by workers *)
(* that may have lost their lease, revived jobs, rebuilds, prunes and       *)
(* restarts, the incremental counters are what a recount would give.        *)
CountersExact ==
    /\ pendingJobs = Cardinality(PendingIn(state))
    /\ pendingBytes = BytesIn(state, bytes)

(* An append or the revival of a dead job never takes the unfinished jobs,  *)
(* counted in the table itself, over a budget (store.go, AppendTurnScoped   *)
(* and RetryDead); only a rebuild may.                                      *)
AdmissionBounded ==
    (\E r \in Records : AppendTurn(r)) \/ (\E j \in Jobs : RetryDead(j))
        => /\ Cardinality(PendingIn(state')) <= maxPending
           /\ BytesIn(state', bytes) <= maxPendingBytes

(* A finished job, succeeded or dead, is reopened by the administration     *)
(* only: a worker that lost its lease and comes back late cannot.           *)
SettledIsFinal ==
    \A j \in Jobs :
        state[j] \in {"succeeded", "dead"} /\ state'[j] # state[j]
            => \/ RetryDead(j)
               \/ \E a \in Admins : PruneDelete(a) \/ RequeueProjection(a, j[2])

(* docs/MULTI_AGENT.md:87: "records with queued/running/dead projection     *)
(* state are preserved" by a prune.                                         *)
PrunePreservesUnfinished ==
    \A r \in records \ records' : \A p \in Projections : state[<<r, p>>] \in {"none", "succeeded"}

(* A lease excludes: where leases outlast projections, no two workers       *)
(* project the same job, also after restarts and dropped retries.           *)
OneWorkerPerJob ==
    ~SlowWorkers => \A v, w \in Workers : v # w /\ claim[v] # NoJob => claim[v] # claim[w]

(* What succeeded is in the derived index: a crash, a lost lease or a       *)
(* failed Ack never leaves a job acknowledged and not projected.            *)
SucceededIsApplied ==
    AdminOps = {} => \A j \in Jobs : state[j] = "succeeded" => j \in applied

(* The same with rebuilds and prunes: when no administration request is     *)
(* under way the rebuilt index is complete (MULTI_AGENT.md:87).  The code   *)
(* does not keep it: an Ack by job id may arrive after a rebuild.           *)
RebuiltIsComplete ==
    (\A a \in Admins : apc[a] = "idle") =>
        \A j \in Jobs : state[j] = "succeeded" => j \in applied

(* README.md:95-96: "The memory fabric also enforces bounded pending bytes" *)
(* The code keeps it only where a character is a byte.                      *)
PendingBytesBounded == BytesIn(state, bytes) <= maxPendingBytes

(* README.md:13: with leases, retries and crash recovery, every job comes   *)
(* to an end, applied or dead, while the administration leaves it alone.    *)
AllSettled == AdminOps = {} /\ ~SlowWorkers => \A j \in Jobs : ~Unfinished(state[j])

JobSettles == []<>AllSettled

(* The table and its counters: types, counters equal to a recount, and a    *)
(* job in the hands of one worker where leases outlast projections.         *)
FabricInv == TypeOK /\ CountersExact /\ OneWorkerPerJob

(* What a step may never do to a record or a job: admit one over a budget,  *)
(* reopen a finished job from a late worker, or prune an unfinished record. *)
FabricStepsAllowed == AdmissionBounded /\ SettledIsFinal /\ PrunePreservesUnfinished
=============================================================================
