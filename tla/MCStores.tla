------------------------------ MODULE MCStores ------------------------------
(***************************************************************************)
(* The stores: the outbox of the Memory Fabric, the pool of graph stores   *)
(* its projections and searches use, the namespaces under which workspaces *)
(* find their sessions, and the git store of the memory files.  A          *)
(* behaviour is about one of them: a projection reaches the pool through   *)
(* Acquire and release only, which the pool allows at any moment.          *)
(***************************************************************************)
EXTENDS GraphPool

CONSTANTS
    r1, r2, Records, Projections, Workers, Admins, NoJob,
    Openers, Paths, MaxIds, MaxChanges, NoPath,
    GitClients, TrackedFiles, FileContents, MaxCommits, MaxEdits, MaxGitCrashes, Empty, Gone, TornIndex

VARIABLES
    setup, records, older, state, attempts, due, leased, pendingJobs, pendingBytes, applied, fabPc, claim,
    apc, todo, victims, faults
fabric == <<setup, records, older, state, attempts, due, leased, pendingJobs, pendingBytes, applied, fabPc, claim,
            apc, todo, victims, faults>>
VARIABLES
    present, identity, space, migrationLock, opener, drawn, changes, home, ambiguous
namespaces == <<present, identity, space, migrationLock, opener, drawn, changes, home, ambiguous>>
VARIABLES
    worktree, gitDir, gitIndex, commits, gitHead, client, edits, gitCrashes, returned, overlapped
repository == <<worktree, gitDir, gitIndex, commits, gitHead, client, edits, gitCrashes, returned, overlapped>>
VARIABLE which      \* the store this behaviour is about
mcVars == <<which, vars, fabric, namespaces, repository>>

-----------------------------------------------------------------------------
Size(first, second) == [r \in Records |-> IF r = r1 THEN first ELSE second]
serves == [w \in Workers |-> "graph"]

(* Tight budgets, workers that outlive their lease, every administration    *)
(* request.                                                                 *)
Administered ==
    [adminOps |-> {"rebuild", "prune", "retry"}, maxPending |-> 1, maxPendingBytes |-> 2, maxAttempts |-> 1,
     bytes |-> Size(1, 2), chars |-> Size(1, 2), slowWorkers |-> TRUE, maxFaults |-> 1, attemptBound |-> 2]
(* Leases that outlast the projections, two crashes or failed transactions. *)
Unattended ==
    [adminOps |-> {}, maxPending |-> 2, maxPendingBytes |-> 2, maxAttempts |-> 2,
     bytes |-> Size(1, 1), chars |-> Size(1, 1), slowWorkers |-> FALSE, maxFaults |-> 2, attemptBound |-> 6]
Setups == {Administered, Unattended}

F == INSTANCE MemoryFabric WITH pc <- fabPc
N == INSTANCE Namespaces
G == INSTANCE GitStore

-----------------------------------------------------------------------------
MCInit ==
    /\ which \in {"pool", "fabric", "namespaces", "git"}
    /\ Init
    /\ F!Init /\ (which = "fabric" \/ setup = Unattended)
    /\ N!NsInit /\ (which = "namespaces" \/ present = {CHOOSE p \in Paths : TRUE})
    /\ G!GitInit

PoolStep   == which = "pool" /\ Next /\ UNCHANGED <<which, fabric, namespaces, repository>>
FabricStep == which = "fabric" /\ F!Next /\ UNCHANGED <<which, vars, namespaces, repository>>
OpenStore  == which = "namespaces" /\ N!NsNext /\ UNCHANGED <<which, vars, fabric, repository>>
Git        == which = "git" /\ G!GitNext /\ UNCHANGED <<which, vars, fabric, namespaces>>

MCNext == PoolStep \/ FabricStep \/ OpenStore \/ Git

(* The fairness of each module, asked where the behaviour is its own.       *)
MCSpec ==
    /\ MCInit /\ [][MCNext]_mcVars
    /\ \A u \in Users : WF_vars(which = "pool" /\ GoesOn(u))
    /\ \A w \in Workers : WF_fabric(which = "fabric" /\ F!WorkerStep(w))
    /\ \A j \in F!Jobs :
        WF_fabric(which = "fabric" /\ F!RetryDue(j)) /\ WF_fabric(which = "fabric" /\ F!LeaseExpires(j))

-----------------------------------------------------------------------------
(* The queue counters of the fabric are what a recount gives, a lease       *)
(* excludes, and what succeeded is in the derived index (store.go);         *)
(* workspaces share no namespace and find their sessions again (NewStore);  *)
(* a commit that was returned stays in the log of HEAD (AutoCommit,         *)
(* Revert).                                                                 *)
StoresInv ==
    /\ which = "fabric" => F!FabricInv /\ F!SucceededIsApplied
    /\ which = "namespaces" => N!NamespaceInv
    /\ which = "git" => G!GitInv

(* What no step may do: abandon a detached graph store, except in a reset   *)
(* whose other close failed; admit a record over a budget, reopen a         *)
(* finished job from a late worker, or prune an unfinished record; return   *)
(* from a call of the git store while HEAD lacks the files it staged.       *)
StoreSteps ==
    [][/\ which = "pool" => AbandonedByResetOnly
       /\ which = "fabric" => F!FabricStepsAllowed
       /\ which = "git" => G!HeadHoldsStaged]_mcVars

(* Detached graph stores are closed, and outbox jobs the administration     *)
(* leaves alone are applied or dead, again and again.                       *)
StoresSettle == []<>((which = "pool" => NoneToClose) /\ (which = "fabric" => F!AllSettled))
=============================================================================
