------------------------------ MODULE Triggers ------------------------------
(***************************************************************************)
(* Local triggers, internal/triggers/service.go: deliveries are files that *)
(* move between the directories inbox, processing and failed while one     *)
(* loop claims, executes and settles them.                                 *)
(*                                                                         *)
(* Deliveries are numbered in the order of their file names, which begin   *)
(* with the time they were created.  A file is the attempts it records.    *)
(***************************************************************************)
EXTENDS Naturals, FiniteSets, FiniteSetsExt

CONSTANTS
    None,         \* no file, no delivery
    MaxDelivery,  \* deliveries are 1..MaxDelivery
    MaxAttempts,  \* maxAttempts
    Setups        \* the operations and faults considered

Deliveries == 1..MaxDelivery

VARIABLES
    setup,      \* the operations and faults of this behaviour
    inbox, processing, failed, \* the file of each delivery, or None
    trigger,    \* the trigger: on, off or gone
    phase,      \* the process: down, up, running, closing
    stopped,    \* Service.ctx is cancelled
    wake,       \* Service.wake holds a token
    loop,       \* the loop: off, idle, drain, run, ran, sweep
    cur,        \* the delivery in hand
    tries,      \* the attempts recorded in it
    result,     \* what its execution returned: ok or error
    sent,       \* ghost: deliveries Enqueue has accepted
    ok, bad,    \* ghost: executions of each delivery that worked, that counted as failed
    ticked,     \* ghost: the ticker fired since the last failed execution
    faults, crashes, closes

vars  == <<setup, inbox, processing, failed, trigger, phase, stopped, wake, loop, cur, tries, result, sent, ok, bad,
           ticked, faults, crashes, closes>>
files == <<inbox, processing, failed>>
hand  == <<cur, tries, result>>
ghost == <<sent, ok, bad, ticked>>

Malformed  == setup.malformed  \* the files that are not JSON
Ops        == setup.ops        \* error: the executor may fail; update: the trigger is edited
MaxFaults  == setup.maxFaults  \* bound: failed file operations
MaxCrashes == setup.maxCrashes \* bound: crashes
MaxCloses  == setup.maxCloses  \* bound: orderly shutdowns

Fault == faults < MaxFaults /\ faults' = faults + 1
NoFault == UNCHANGED faults

Present(dir) == {d \in Deliveries : dir[d] # None}
Put(dir, d, n) == [dir EXCEPT ![d] = n]
Without(dir, some) == [d \in Deliveries |-> IF d \in some THEN None ELSE dir[d]]

-----------------------------------------------------------------------------
(* The process.                                                            *)

Boot ==
    /\ phase = "down" /\ phase' = "up"
    /\ UNCHANGED <<setup, files, trigger, stopped, wake, loop, hand, ghost, faults, crashes, closes>>

(* A change: an interrupted delivery is taken for a finished one.          *)
RecoverNothing(some) == processing' = Without(processing, some) /\ UNCHANGED inbox

(* recoverProcessingLocked: every file a run was interrupted in goes back, *)
(* over a copy of it that may be in the inbox.                             *)
Recover(some) ==
    /\ inbox' = [d \in Deliveries |-> IF d \in some THEN processing[d] ELSE inbox[d]]
    /\ processing' = Without(processing, some)

Start ==
    /\ phase = "up" /\ phase' = "running"
    /\ Recover(Present(processing))
    /\ loop' = "idle"
    /\ UNCHANGED <<setup, failed, trigger, stopped, wake, hand, ghost, faults, crashes, closes>>

(* A file that cannot be moved back ends the gateway.                      *)
StartFails ==
    /\ phase = "up" /\ phase' = "down"
    /\ wake' = FALSE
    /\ Fault
    /\ \E some \in SUBSET Present(processing) : some # Present(processing) /\ Recover(some)
    /\ UNCHANGED <<setup, failed, trigger, stopped, loop, hand, ghost, crashes, closes>>

Close ==
    /\ closes < MaxCloses /\ closes' = closes + 1
    /\ phase = "running" /\ phase' = "closing"
    /\ stopped' = TRUE /\ wake' = TRUE
    /\ UNCHANGED <<setup, files, trigger, loop, hand, ghost, faults, crashes>>

(* Nothing but the files outlives the process.                             *)
Gone ==
    /\ phase' = "down" /\ stopped' = FALSE /\ wake' = FALSE /\ loop' = "off"
    /\ cur' = None /\ tries' = 0 /\ result' = None
    /\ UNCHANGED <<setup, files, trigger, ghost, faults, closes>>

Exit == phase = "closing" /\ loop = "off" /\ Gone /\ UNCHANGED crashes

Crash == phase # "down" /\ crashes < MaxCrashes /\ crashes' = crashes + 1 /\ Gone

-----------------------------------------------------------------------------
(* The operations.                                                         *)

Update(state) ==
    /\ "update" \in Ops /\ phase # "down"
    /\ trigger # "gone" /\ trigger # state
    /\ trigger' = state
    /\ UNCHANGED <<setup, files, phase, stopped, wake, loop, hand, ghost, faults, crashes, closes>>

(* Enqueue writes the file, then saves the trigger; the file of a failed   *)
(* save is removed.                                                        *)
Enqueue(d) ==
    /\ phase # "down" /\ trigger = "on"
    /\ d <= setup.last /\ d \notin sent \cup Malformed
    /\ \A e \in Deliveries : e < d => e \in sent \cup Malformed
    /\ \/ NoFault /\ inbox' = Put(inbox, d, 0) /\ sent' = sent \cup {d} /\ wake' = TRUE
       \/ Fault /\ UNCHANGED <<setup, inbox, sent, wake>>
    /\ UNCHANGED <<setup, processing, failed, trigger, phase, stopped, loop, hand, ok, bad, ticked, crashes, closes>>

(* Someone puts a file there that is no delivery.                          *)
Drop(d) ==
    /\ d \in Malformed /\ \A dir \in {inbox, processing, failed} : dir[d] = None
    /\ inbox' = Put(inbox, d, 0)
    /\ UNCHANGED <<setup, processing, failed, trigger, phase, stopped, wake, loop, hand, ghost, faults, crashes, closes>>

-----------------------------------------------------------------------------
(* The loop.                                                               *)

LoopStops ==
    /\ loop = "idle" /\ stopped
    /\ loop' = "off"
    /\ UNCHANGED <<setup, files, trigger, phase, stopped, wake, hand, ghost, faults, crashes, closes>>

Woken ==
    /\ loop = "idle" /\ wake
    /\ wake' = FALSE /\ loop' = "drain"
    /\ UNCHANGED <<setup, files, trigger, phase, stopped, hand, ghost, faults, crashes, closes>>

Ticks ==
    /\ loop = "idle"
    /\ loop' = "drain" /\ ticked' = TRUE
    /\ UNCHANGED <<setup, files, trigger, phase, stopped, wake, hand, sent, ok, bad, faults, crashes, closes>>

DrainEnds ==
    /\ loop = "drain" /\ stopped
    /\ loop' = "idle"
    /\ UNCHANGED <<setup, files, trigger, phase, stopped, wake, hand, ghost, faults, crashes, closes>>

Wanted(d) == d \notin Malformed /\ trigger = "on"

(* claimOne passes over the files it cannot read or move, and quarantines  *)
(* the ones before the first it wants.                                     *)
Claim(seen) ==
    LET wanted == {d \in seen : Wanted(d)}
        passed == {d \in seen \ wanted : \A e \in wanted : d < e}
        take   == IF wanted = {} THEN {} ELSE {Min(wanted)}
    IN  /\ failed' = [d \in Deliveries |-> IF d \in passed THEN inbox[d] ELSE failed[d]]
        /\ processing' = [d \in Deliveries |-> IF d \in take THEN inbox[d] ELSE processing[d]]
        /\ inbox' = Without(inbox, passed \cup take)
        /\ loop' = IF take = {} THEN "idle" ELSE "run"
        /\ cur' = IF take = {} THEN None ELSE Min(wanted)
        /\ tries' = IF take = {} THEN 0 ELSE inbox[Min(wanted)]

ClaimOne ==
    /\ loop = "drain" /\ ~stopped
    /\ \E stuck \in SUBSET Present(inbox) :
        /\ IF stuck = {} THEN NoFault ELSE Fault
        /\ Claim(Present(inbox) \ stuck)
    /\ UNCHANGED <<setup, trigger, phase, stopped, wake, result, ghost, crashes, closes>>

(* The ghost bad counts no further than the properties look.               *)
MaxBad == MaxAttempts + MaxCrashes + MaxFaults + MaxCloses

(* The executor works or fails; after Close it may fail because of it.     *)
Execute(r) ==
    /\ loop = "run"
    /\ r = "error" => stopped \/ "error" \in Ops
    /\ result' = r /\ loop' = "ran"
    /\ ok' = IF r = "ok" THEN [ok EXCEPT ![cur] = @ + 1] ELSE ok
    /\ bad' = IF r = "error" /\ ~stopped /\ bad[cur] <= MaxBad THEN [bad EXCEPT ![cur] = @ + 1] ELSE bad
    /\ ticked' = (r = "ok" /\ ticked)
    /\ UNCHANGED <<setup, files, trigger, phase, stopped, wake, cur, tries, sent, faults, crashes, closes>>

Settled(at) == loop' = at /\ cur' = None /\ tries' = 0 /\ result' = None

(* finish gives up when it cannot load the triggers: the file stays.       *)
FinishUnread ==
    /\ loop = "ran" /\ Fault
    /\ Settled("drain")
    /\ UNCHANGED <<setup, files, trigger, phase, stopped, wake, ghost, crashes, closes>>

(* A change: the file of a finished delivery stays.                        *)
FinishOkKeeps ==
    /\ loop = "ran" /\ result = "ok" /\ NoFault
    /\ Settled("drain")
    /\ UNCHANGED <<setup, files, trigger, phase, stopped, wake, ghost, crashes, closes>>

FinishOk ==
    /\ loop = "ran" /\ result = "ok"
    /\ \/ NoFault /\ processing' = Without(processing, {cur})
       \/ Fault /\ UNCHANGED processing
    /\ Settled("drain")
    /\ UNCHANGED <<setup, inbox, failed, trigger, phase, stopped, wake, ghost, crashes, closes>>

(* A change: one attempt too many.                                         *)
FateLate ==
    CASE stopped -> [to |-> "inbox", tries |-> tries]
      [] ~stopped /\ tries + 1 > MaxAttempts -> [to |-> "failed", tries |-> tries + 1]
      [] OTHER -> [to |-> "inbox", tries |-> tries + 1]

(* A change: an interrupted delivery uses up an attempt.                   *)
FateBurns ==
    IF tries + 1 >= MaxAttempts THEN [to |-> "failed", tries |-> tries + 1]
                                ELSE [to |-> "inbox", tries |-> tries + 1]

(* A change: the attempt is not recorded.                                  *)
FateUncounted == [to |-> "inbox", tries |-> tries]

(* The directory a failed delivery goes to and the attempts it records:    *)
(* an interrupted one has not used one up.                                 *)
Fate ==
    CASE stopped -> [to |-> "inbox", tries |-> tries]
      [] ~stopped /\ tries + 1 >= MaxAttempts -> [to |-> "failed", tries |-> tries + 1]
      [] OTHER -> [to |-> "inbox", tries |-> tries + 1]

(* A change: the old file is removed before the new one is written.        *)
RequeueRemovesFirst ==
    /\ loop = "ran" /\ result = "error"
    /\ processing' = Without(processing, {cur})
    /\ \/ NoFault /\ inbox' = Put(inbox, cur, Fate.tries)
       \/ Fault /\ UNCHANGED inbox
    /\ Settled("idle") /\ wake' = TRUE
    /\ UNCHANGED <<setup, failed, trigger, phase, stopped, ghost, crashes, closes>>

(* requeueDelivery writes the new file and only then removes the old one.  *)
Requeue ==
    /\ loop = "ran" /\ result = "error"
    /\ \/ /\ NoFault
          /\ inbox' = IF Fate.to = "inbox" THEN Put(inbox, cur, Fate.tries) ELSE inbox
          /\ failed' = IF Fate.to = "failed" THEN Put(failed, cur, Fate.tries) ELSE failed
          /\ loop' = "sweep"
          /\ UNCHANGED <<setup, processing, hand>>
       \/ /\ Fault
          /\ Settled("idle")
          /\ UNCHANGED files
    /\ wake' = (wake \/ (~stopped /\ Fate.to = "inbox"))
    /\ UNCHANGED <<setup, trigger, phase, stopped, ghost, crashes, closes>>

Sweep ==
    /\ loop = "sweep"
    /\ \/ NoFault /\ processing' = Without(processing, {cur})
       \/ Fault /\ UNCHANGED processing
    /\ Settled("idle")
    /\ UNCHANGED <<setup, inbox, failed, trigger, phase, stopped, wake, ghost, crashes, closes>>

-----------------------------------------------------------------------------
Init ==
    /\ setup \in Setups
    /\ inbox = [d \in Deliveries |-> None] /\ processing = inbox /\ failed = inbox
    /\ trigger = "on"
    /\ phase = "down" /\ stopped = FALSE /\ wake = FALSE
    /\ loop = "off" /\ cur = None /\ tries = 0 /\ result = None
    /\ sent = {} /\ ok = [d \in Deliveries |-> 0] /\ bad = ok
    /\ ticked = TRUE
    /\ faults = 0 /\ crashes = 0 /\ closes = 0

LoopStep ==
    \/ LoopStops \/ Woken \/ DrainEnds \/ ClaimOne
    \/ \E r \in {"ok", "error"} : Execute(r)
    \/ FinishUnread \/ FinishOk \/ Requeue \/ Sweep

Next ==
    \/ Boot \/ Start \/ StartFails \/ Close \/ Exit \/ Crash
    \/ \E state \in {"on", "off", "gone"} : Update(state)
    \/ \E d \in Deliveries : Enqueue(d) \/ Drop(d)
    \/ LoopStep \/ Ticks

Spec == Init /\ [][Next]_vars

(* The process is started again and again, the loop goroutine runs, and    *)
(* the executor returns: its context ends after ten minutes.  The select   *)
(* of the loop draws among what is ready, so it does not pass over the end *)
(* of the context for ever.                                                *)
FairSpec ==
    /\ Spec
    /\ WF_vars(Boot \/ Start \/ Exit)
    /\ WF_vars(LoopStep) /\ WF_vars(Ticks) /\ SF_vars(LoopStops)

-----------------------------------------------------------------------------
Files == [Deliveries -> {None} \cup 0..MaxAttempts]

(* The variables keep their types; no file records more attempts than the  *)
(* service allows.                                                         *)
TypeOK ==
    /\ setup \in Setups
    /\ inbox \in Files /\ processing \in Files /\ failed \in Files
    /\ trigger \in {"on", "off", "gone"}
    /\ phase \in {"down", "up", "running", "closing"}
    /\ loop \in {"off", "idle", "drain", "run", "ran", "sweep"}
    /\ cur \in Deliveries \cup {None} /\ tries \in 0..MaxAttempts
    /\ stopped \in BOOLEAN /\ wake \in BOOLEAN
    /\ sent \subseteq Deliveries

Somewhere(d) == inbox[d] # None \/ processing[d] # None \/ failed[d] # None

(* An accepted delivery that has not been executed successfully is in one  *)
(* of the directories at every moment, whichever file operation fails and  *)
(* wherever the process dies.                                              *)
NeverLost == \A d \in sent : ok[d] = 0 => Somewhere(d)

(* A delivery is given up only after MaxAttempts executions that failed on *)
(* their own: a shutdown uses none up.                                     *)
NotBurned ==
    \A d \in sent : failed[d] # None /\ failed[d] >= MaxAttempts => bad[d] >= MaxAttempts

(* A delivery is executed successfully once, and once more for every crash *)
(* or failed file operation that could hide it.                            *)
DoneOnce == \A d \in Deliveries : ok[d] <= 1 + crashes + faults

(* A delivery fails MaxAttempts times at most, and once more for each      *)
(* crash, failed file operation or shutdown that hides a failure.          *)
AttemptsBounded == \A d \in Deliveries : bad[d] <= MaxAttempts + crashes + faults + closes

(* A failed delivery is tried again at the pace of the ticker.             *)
RetryPaced == [][\A d \in Deliveries : loop = "drain" /\ cur' = d /\ cur # d /\ inbox[d] > 0 => ticked]_vars

(* Where the file system works, every delivery leaves the service in the   *)
(* end, executed or given up, and nothing is left behind in the inbox or   *)
(* in the directory of interrupted work.                                   *)
AllSettled ==
    MaxFaults = 0 =>
        /\ Present(inbox) = {} /\ Present(processing) = {}
        /\ \A d \in sent : ok[d] > 0 \/ failed[d] # None

Settles == <>[]AllSettled

(* The attempts: types, none burned by a shutdown, and no delivery executed *)
(* or tried more often than the faults explain.                             *)
AttemptsInv == TypeOK /\ NotBurned /\ DoneOnce /\ AttemptsBounded
=============================================================================
