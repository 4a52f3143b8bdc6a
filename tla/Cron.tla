-------------------------------- MODULE Cron --------------------------------
(***************************************************************************)
(* The automation scheduler, internal/cron/service.go: the jobs a process  *)
(* keeps in memory and in one store file, the loop that sleeps until the   *)
(* next job is due, the runs it launches, the operations of the API and of *)
(* the cron tool beside it, and the processes that share the file.         *)
(*                                                                         *)
(* Time is a counter of at most Horizon; one tick is the second nextDelay  *)
(* waits when it cannot dispatch.  0 is the nil instant.  What a run does, *)
(* its status, history and run records are left out: a run is the instant  *)
(* it was launched for, and it ends when it ends, cancelled or not.        *)
(***************************************************************************)
EXTENDS Naturals, FiniteSets, FiniteSetsExt

CONSTANTS
    None,           \* no job, no lease holder
    Procs,          \* processes that open the store
    Jobs,           \* job identifiers, the lowest free one given to a new job
    SystemSchedule, \* the schedule of a system job
    MaxSleep,       \* the longest sleep of the loop
    Setups          \* the configurations and environments considered

(* The schedules ValidateSchedule accepts.                                  *)
WellFormed(s) ==
    \/ s.kind = "at" /\ s.at \in Nat \ {0}
    \/ s.kind = "every" /\ s.every \in Nat \ {0}
    \/ s.kind = "cron"

ASSUME CronAssumption ==
    /\ IsFiniteSet(Procs) /\ None \notin Procs
    /\ IsFiniteSet(Jobs) /\ Jobs \subseteq Nat /\ MaxSleep \in Nat \ {0}
    /\ WellFormed(SystemSchedule)
    /\ \A s \in Setups :
        /\ \A x \in s.schedules : WellFormed(x)
        /\ s.procs \subseteq Procs /\ s.chats \subseteq s.procs
        /\ s.jobs \subseteq Jobs /\ s.systemJobs \subseteq Jobs \ s.jobs
        /\ s.oneShot \subseteq Jobs
        /\ s.policy \in [Jobs -> {"fire_once", "skip"}] /\ s.grace \in [Jobs -> Nat]
        /\ {s.maxConcurrent, s.horizon} \subseteq Nat \ {0}
        /\ {s.maxFaults, s.maxCrashes} \subseteq Nat
        /\ s.ops \subseteq {"add", "pause", "reschedule", "remove", "run", "restart"}
        /\ DOMAIN s.wall \subseteq Nat \ {0}

VARIABLES
    setup,      \* the configuration and environment of this behaviour
    now,        \* the clock
    disk,       \* the jobs of the store file
    holder,     \* the process that holds the lease
    phase,      \* where each process is: down, loaded, running, closing, closed
    configured, \* the system jobs it has upserted since it loaded
    boot,       \* when it started its scheduler
    mem,        \* Service.store
    dirty,      \* Service.dirty
    active,     \* Service.active: the instant each running job runs for
    closed,     \* Service.closed
    stopped,    \* Service.ctx is cancelled
    loop,       \* the loop goroutine, with the instant it sleeps to or read
    wake,       \* Service.wake holds a token
    lag,        \* ghost: ended runs of a job since the last save
    fired,      \* ghost: the instants the loop has launched a job for
    faults, crashes

vars == <<setup, now, disk, holder, phase, configured, boot, mem, dirty, active, closed, stopped,
          loop, wake, lag, fired, faults, crashes>>

life  == <<phase, configured, boot, closed, stopped>>
world == <<now, holder, crashes>>

Chats         == setup.chats         \* the processes that never start the scheduler (haosbot chat)
SystemJobs    == setup.systemJobs    \* the heartbeat and the dream, upserted at startup
Schedules     == setup.schedules     \* the schedules users give their jobs
Policy        == setup.policy        \* the misfire policy of each job
Grace         == setup.grace         \* its misfire grace, 0 for none
OneShot       == setup.oneShot       \* the jobs with DeleteAfterRun
MaxConcurrent == setup.maxConcurrent \* Service.maxConcurrent
Horizon       == setup.horizon       \* bound: the last instant of the clock
Wall          == setup.wall          \* the local wall-clock minute of each instant
Ops           == setup.ops           \* the operations used
MaxFaults     == setup.maxFaults     \* bound: failed saves
MaxCrashes    == setup.maxCrashes    \* bound: processes that end without Close

-----------------------------------------------------------------------------
(* Schedules.                                                              *)

Occurrences(s, t) == {u \in DOMAIN Wall : u > t /\ Wall[u] \in s.minutes}

(* NextRun fails for a cron expression that never occurs.                  *)
HasNext(s, t) == s.kind = "cron" => Occurrences(s, t) # {}

NextRun(s, t) ==
    CASE s.kind = "at"    -> IF s.at <= t THEN 0 ELSE s.at
      [] s.kind = "every" -> t + s.every
      [] s.kind = "cron"  -> IF HasNext(s, t) THEN Min(Occurrences(s, t)) ELSE 0

(* The minute an instant falls in: on the wall clock of the zone that the  *)
(* schedule names.  For a schedule without one it is the minute in UTC,    *)
(* which no clock repeats, although the schedule itself is read by the     *)
(* local clock.                                                            *)
CronWallKey(s, u) == IF s.tz THEN <<"wall", Wall[u]>> ELSE <<"utc", u>>

(* A change: the repeated minute counts as another.                       *)
FreshRepeats(s, t, prev) == Occurrences(s, t)

(* The occurrences that do not repeat the minute of the last one, as they  *)
(* do when the clock is set back.                                          *)
Fresh(s, t, prev) ==
    {u \in Occurrences(s, t) : prev \in DOMAIN Wall => CronWallKey(s, u) # CronWallKey(s, prev)}

NextRecurringAfter(s, t, prev) ==
    IF s.kind = "every"
    THEN LET next == prev + s.every
         IN  IF next <= t THEN next + ((t - next) \div s.every + 1) * s.every ELSE next
    ELSE IF Fresh(s, t, prev) = {} THEN 0 ELSE Min(Fresh(s, t, prev))

NewJob(s, t) == [on |-> TRUE, sched |-> s, next |-> NextRun(s, t), last |-> 0]

(* A change: the grace is ignored.                                         *)
MisfireAnyTime(j, job, t) == Policy[j] = "fire_once"

ShouldFireMisfire(j, job, t) ==
    /\ Policy[j] = "fire_once"
    /\ Grace[j] = 0 \/ t - job.next <= Grace[j]

(* A change: every start recomputes the next run.                          *)
PrepareAfresh(j, job, t) ==
    IF job.on THEN [job EXCEPT !.next = NextRun(job.sched, t)] ELSE [job EXCEPT !.next = 0]

PrepareJobOnStart(j, job, t) ==
    LET missed == job.next # 0 /\ job.next <= t
        keep   == job.next > t \/ (missed /\ ShouldFireMisfire(j, job, t))
    IN  CASE ~job.on -> [job EXCEPT !.next = 0]
          [] job.on /\ keep -> job
          [] job.on /\ ~keep /\ missed /\ job.sched.kind = "at" -> [job EXCEPT !.on = FALSE, !.next = 0]
          [] OTHER -> [job EXCEPT !.on = HasNext(job.sched, t), !.next = NextRun(job.sched, t)]

(* A change: the next run is not moved.                                    *)
AfterRunUnmoved(j, job, t, inst) == [job EXCEPT !.last = inst]

(* What the end of a run makes of its job, the schedule being the one the  *)
(* job has by then.                                                        *)
AfterRun(j, job, t, inst) ==
    IF job.sched.kind = "at"
    THEN IF j \in OneShot THEN None ELSE [job EXCEPT !.on = FALSE, !.next = 0, !.last = inst]
    ELSE LET next == IF job.on THEN NextRecurringAfter(job.sched, t, inst) ELSE 0
         IN  [job EXCEPT !.on = next # 0, !.next = next, !.last = inst]

-----------------------------------------------------------------------------
(* Saving and waking.                                                      *)

Fault == faults < MaxFaults /\ faults' = faults + 1
NoFault == UNCHANGED faults

NoLag == [j \in Jobs |-> 0]

(* saveLocked: the file is replaced by what is in memory.                  *)
Save(p, jobs) ==
    /\ NoFault
    /\ disk' = jobs
    /\ mem' = [mem EXCEPT ![p] = jobs]
    /\ dirty' = [dirty EXCEPT ![p] = FALSE]
    /\ lag' = [lag EXCEPT ![p] = NoLag]

(* A change: the rollback clears the dirty flag.                           *)
RollBackClears(p) == Fault /\ dirty' = [dirty EXCEPT ![p] = FALSE] /\ UNCHANGED <<setup, disk, mem, lag>>

(* A failed save of an operation takes the change out of memory again and  *)
(* restores the dirty flag saveLocked has set.                             *)
RollBack(p) == Fault /\ UNCHANGED <<setup, disk, mem, dirty, lag>>

Signal(p) == wake' = [wake EXCEPT ![p] = TRUE]

(* A change: the loop is not told.                                         *)
MutateUntold(p, jobs) ==
    /\ Save(p, jobs) \/ RollBack(p)
    /\ UNCHANGED <<setup, world, life, active, loop, fired, wake>>

(* An operation changes the jobs and saves them, or undoes the change.     *)
Mutate(p, jobs) ==
    /\ \/ Save(p, jobs) /\ Signal(p)
       \/ RollBack(p) /\ UNCHANGED wake
    /\ UNCHANGED <<setup, world, life, active, loop, fired>>

(* A change: the unsaved run is forgotten.                                 *)
FlushForgets(p) == NoFault /\ dirty' = [dirty EXCEPT ![p] = FALSE] /\ UNCHANGED <<setup, disk, mem, lag>>

(* What an earlier run left unsaved is saved before anything is launched.  *)
Flush(p) ==
    IF dirty[p] THEN Save(p, mem[p]) ELSE NoFault /\ UNCHANGED <<setup, disk, mem, dirty, lag>>

FlushFails(p) == dirty[p] /\ Fault /\ UNCHANGED <<setup, disk, mem, dirty, lag>>

Running(p) == {j \in Jobs : active[p][j] # 0}

Launch(p, runs) ==
    active' = [active EXCEPT ![p] = [j \in Jobs |-> IF j \in DOMAIN runs THEN runs[j] ELSE @[j]]]

-----------------------------------------------------------------------------
(* The life of a process.                                                  *)

Fallen(p) ==
    /\ phase' = [phase EXCEPT ![p] = "down"]
    /\ holder' = IF holder = p THEN None ELSE holder
    /\ active' = [active EXCEPT ![p] = NoLag]
    /\ loop' = [loop EXCEPT ![p] = [at |-> "off", t |-> 0]]
    /\ dirty' = [dirty EXCEPT ![p] = FALSE]
    /\ lag' = [lag EXCEPT ![p] = NoLag]
    /\ wake' = [wake EXCEPT ![p] = FALSE]
    /\ mem' = [mem EXCEPT ![p] = [j \in Jobs |-> None]]
    /\ configured' = [configured EXCEPT ![p] = {}]
    /\ boot' = [boot EXCEPT ![p] = 0]
    /\ closed' = [closed EXCEPT ![p] = FALSE]
    /\ stopped' = [stopped EXCEPT ![p] = FALSE]
    /\ UNCHANGED <<setup, now, disk, fired>>

(* NewService and Load.                                                    *)
Load(p) ==
    /\ p \in setup.procs /\ phase[p] = "down"
    /\ phase' = [phase EXCEPT ![p] = "loaded"]
    /\ mem' = [mem EXCEPT ![p] = disk]
    /\ UNCHANGED <<setup, world, configured, boot, closed, stopped, disk, dirty, active, loop, wake, lag, fired, faults>>

(* configureSystemAutomations upserts each system job before the scheduler *)
(* starts; the job keeps its state but for the next run.                   *)
UpsertSystemJob(p, j) ==
    /\ phase[p] = "loaded" /\ p \notin Chats
    /\ j \in SystemJobs \ configured[p]
    /\ LET last == IF mem[p][j] = None THEN 0 ELSE mem[p][j].last
        IN  Save(p, [mem[p] EXCEPT ![j] = [NewJob(SystemSchedule, now) EXCEPT !.last = last]])
    /\ Signal(p)
    /\ configured' = [configured EXCEPT ![p] = @ \cup {j}]
    /\ UNCHANGED <<setup, world, phase, boot, closed, stopped, active, loop, fired>>

CanStart(p) ==
    \/ phase[p] = "loaded" /\ p \notin Chats /\ configured[p] = SystemJobs
    \/ phase[p] = "closed" /\ "restart" \in Ops

Start(p) ==
    /\ CanStart(p)
    /\ holder = None
    /\ holder' = p
    /\ Save(p, [j \in Jobs |-> IF mem[p][j] = None THEN None ELSE PrepareJobOnStart(j, mem[p][j], now)])
    /\ phase' = [phase EXCEPT ![p] = "running"]
    /\ boot' = [boot EXCEPT ![p] = now]
    /\ closed' = [closed EXCEPT ![p] = FALSE]
    /\ loop' = [loop EXCEPT ![p] = [at |-> "poll", t |-> 0]]
    /\ Signal(p)
    /\ UNCHANGED <<setup, now, crashes, configured, stopped, active, fired>>

(* The gateway ends when the lease is taken, or when a save of its startup *)
(* fails.                                                                  *)
StartRefused(p) ==
    /\ \/ CanStart(p) /\ holder \notin {None, p} /\ NoFault
       \/ phase[p] = "loaded" /\ p \notin Chats /\ Fault
    /\ Fallen(p)
    /\ UNCHANGED crashes

(* Close marks the service closed under the lock, then waits for the loop  *)
(* and for the runs.                                                       *)
Close(p) ==
    /\ phase[p] = "running"
    /\ phase' = [phase EXCEPT ![p] = "closing"]
    /\ closed' = [closed EXCEPT ![p] = TRUE]
    /\ stopped' = [stopped EXCEPT ![p] = TRUE]
    /\ Signal(p)
    /\ UNCHANGED <<setup, world, configured, boot, disk, mem, dirty, active, loop, lag, fired, faults>>

(* A change: Close waits for the loop only.                                *)
CloseReturnsEarly(p) ==
    /\ phase[p] = "closing"
    /\ loop[p].at = "off"
    /\ phase' = [phase EXCEPT ![p] = "closed"]
    /\ holder' = None
    /\ UNCHANGED <<setup, now, crashes, configured, boot, closed, stopped, disk, mem, dirty, active, loop, wake, lag,
                   fired, faults>>

CloseReturns(p) ==
    /\ phase[p] = "closing"
    /\ loop[p].at = "off" /\ Running(p) = {}
    /\ phase' = [phase EXCEPT ![p] = "closed"]
    /\ holder' = None
    /\ UNCHANGED <<setup, now, crashes, configured, boot, closed, stopped, disk, mem, dirty, active, loop, wake, lag,
                   fired, faults>>

Exit(p) == phase[p] = "closed" /\ Fallen(p) /\ UNCHANGED <<setup, faults, crashes>>

(* The process dies, or leaves when Close has waited long enough.          *)
Crash(p) ==
    /\ phase[p] # "down"
    /\ crashes < MaxCrashes /\ crashes' = crashes + 1
    /\ Fallen(p)
    /\ UNCHANGED faults

-----------------------------------------------------------------------------
(* The loop.                                                               *)

Waiting(p) == {j \in Jobs : /\ mem[p][j] # None
                            /\ mem[p][j].on /\ mem[p][j].next # 0
                            /\ active[p][j] = 0}

Due(p, t) == {j \in Waiting(p) : mem[p][j].next <= t}

(* The instant nextDelay sleeps to.                                        *)
NextWake(p) ==
    LET earliest == Min({now + MaxSleep} \cup {mem[p][j].next : j \in Waiting(p)})
    IN  IF dirty[p] \/ Cardinality(Running(p)) >= MaxConcurrent THEN now + 1 ELSE earliest

NextDelay(p) ==
    /\ loop[p].at = "poll"
    /\ loop' = [loop EXCEPT ![p] = [at |-> "sleep", t |-> NextWake(p)]]
    /\ UNCHANGED <<setup, world, life, disk, mem, dirty, active, wake, lag, fired, faults>>

LoopStops(p) ==
    /\ loop[p].at = "sleep" /\ stopped[p]
    /\ loop' = [loop EXCEPT ![p] = [at |-> "off", t |-> 0]]
    /\ UNCHANGED <<setup, world, life, disk, mem, dirty, active, wake, lag, fired, faults>>

LoopWoken(p) ==
    /\ loop[p].at = "sleep" /\ wake[p]
    /\ wake' = [wake EXCEPT ![p] = FALSE]
    /\ loop' = [loop EXCEPT ![p] = [at |-> "poll", t |-> 0]]
    /\ UNCHANGED <<setup, world, life, disk, mem, dirty, active, lag, fired, faults>>

(* The timer fires; at the end of the clock every timer does.  dispatchDue *)
(* reads the time before it takes the lock.                                *)
TimerFires(p) ==
    /\ loop[p].at = "sleep"
    /\ loop[p].t <= now \/ now = Horizon
    /\ loop' = [loop EXCEPT ![p] = [at |-> "due", t |-> now]]
    /\ UNCHANGED <<setup, world, life, disk, mem, dirty, active, wake, lag, fired, faults>>

(* A change: the runs under way are not counted.                           *)
PickedAll(p, due) == {some \in SUBSET due : Cardinality(some) <= MaxConcurrent}

(* The earliest candidates, as many as there is room for.                  *)
Picked(p, due) ==
    LET room == IF Cardinality(Running(p)) < MaxConcurrent THEN MaxConcurrent - Cardinality(Running(p)) ELSE 0
    IN  {some \in SUBSET due :
            /\ Cardinality(some) = (IF Cardinality(due) <= room THEN Cardinality(due) ELSE room)
            /\ \A j \in some, k \in due \ some : mem[p][j].next <= mem[p][k].next}

DispatchDue(p) ==
    /\ loop[p].at = "due"
    /\ loop' = [loop EXCEPT ![p] = [at |-> "poll", t |-> 0]]
    /\ \/ /\ ~closed[p]
          /\ Flush(p)
          /\ \E some \in Picked(p, Due(p, loop[p].t)) :
                /\ Launch(p, [j \in some |-> mem[p][j].next])
                /\ fired' = [j \in Jobs |-> IF j \in some THEN fired[j] \cup {mem[p][j].next} ELSE fired[j]]
       \/ /\ ~closed[p]
          /\ FlushFails(p)
          /\ UNCHANGED <<setup, active, fired>>
       \/ /\ closed[p]
          /\ UNCHANGED <<setup, disk, mem, dirty, active, lag, fired, faults>>
    /\ UNCHANGED <<setup, world, life, wake>>

(* A change: the ended run stays in the active table.                      *)
RunEndsStaysActive(p, j) ==
    /\ active[p][j] # 0 /\ mem[p][j] # None
    /\ Save(p, [mem[p] EXCEPT ![j] = AfterRun(j, @, now, active[p][j])])
    /\ Signal(p)
    /\ UNCHANGED <<setup, world, life, active, loop, fired>>

(* The end of execute: a job nobody could remove while it ran.             *)
RunEnds(p, j) ==
    /\ active[p][j] # 0
    /\ Launch(p, [k \in {j} |-> 0])
    /\ LET jobs == [mem[p] EXCEPT ![j] = AfterRun(j, @, now, active[p][j])]
       IN  \/ Save(p, jobs)
           \/ /\ Fault
              /\ mem' = [mem EXCEPT ![p] = jobs]
              /\ dirty' = [dirty EXCEPT ![p] = TRUE]
              /\ lag' = [lag EXCEPT ![p][j] = @ + 1]
              /\ UNCHANGED disk
    /\ Signal(p)
    /\ UNCHANGED <<setup, world, life, loop, fired>>

-----------------------------------------------------------------------------
(* The operations.  Adding and removing want the scheduler to run; pausing *)
(* and running a job do not, so a chat process does them too.              *)

Serving(p) == phase[p] \in {"running", "closing"}
Reached(p) == Serving(p) \/ (p \in Chats /\ phase[p] = "loaded")

AddJob(p, j, s) ==
    /\ "add" \in Ops /\ Serving(p)
    /\ j \in setup.jobs /\ mem[p][j] = None
    /\ \A k \in setup.jobs : k < j => mem[p][k] # None
    /\ HasNext(s, now)
    /\ Mutate(p, [mem[p] EXCEPT ![j] = NewJob(s, now)])

Editable(p, j) == j \notin SystemJobs /\ mem[p][j] # None

(* UpdateJob with an Enabled of its own: pause and resume.                 *)
SetEnabled(p, j, on) ==
    /\ "pause" \in Ops /\ Reached(p) /\ Editable(p, j)
    /\ on => HasNext(mem[p][j].sched, now)
    /\ Mutate(p, [mem[p] EXCEPT ![j].on = on,
                                ![j].next = IF on THEN NextRun(mem[p][j].sched, now) ELSE 0])

(* UpdateJob with a new schedule.                                          *)
Reschedule(p, j, s) ==
    /\ "reschedule" \in Ops /\ Serving(p) /\ Editable(p, j)
    /\ HasNext(s, now)
    /\ Mutate(p, [mem[p] EXCEPT ![j].sched = s,
                                ![j].next = IF mem[p][j].on THEN NextRun(s, now) ELSE 0])

RemoveJob(p, j) ==
    /\ "remove" \in Ops /\ Serving(p) /\ Editable(p, j)
    /\ active[p][j] = 0
    /\ Mutate(p, [mem[p] EXCEPT ![j] = None])

(* A change: a closed scheduler still launches.                            *)
RunNowClosed(p, j) ==
    /\ "run" \in Ops
    /\ Reached(p) \/ phase[p] = "closed"
    /\ Flush(p)
    /\ mem[p][j] # None /\ active[p][j] = 0
    /\ Launch(p, [k \in {j} |-> now])
    /\ UNCHANGED <<setup, world, life, loop, wake, fired>>

(* RunNow refuses a job that runs and a full scheduler, but only after it  *)
(* has saved what was unsaved.                                             *)
RunNow(p, j) ==
    /\ "run" \in Ops
    /\ Reached(p) \/ phase[p] = "closed"
    /\ ~closed[p]
    /\ \/ /\ Flush(p)
          /\ IF mem[p][j] # None /\ active[p][j] = 0 /\ Cardinality(Running(p)) < MaxConcurrent
             THEN Launch(p, [k \in {j} |-> now])
             ELSE UNCHANGED active
       \/ /\ FlushFails(p)
          /\ UNCHANGED active
    /\ UNCHANGED <<setup, world, life, loop, wake, fired>>

Tick ==
    /\ now < Horizon
    /\ now' = now + 1
    /\ UNCHANGED <<setup, disk, holder, life, mem, dirty, active, loop, wake, lag, fired, faults, crashes>>

-----------------------------------------------------------------------------
Init ==
    /\ setup \in Setups
    /\ now = 1
    /\ disk = [j \in Jobs |-> None]
    /\ holder = None
    /\ phase = [p \in Procs |-> "down"]
    /\ configured = [p \in Procs |-> {}]
    /\ boot = [p \in Procs |-> 0]
    /\ mem = [p \in Procs |-> [j \in Jobs |-> None]]
    /\ dirty = [p \in Procs |-> FALSE]
    /\ active = [p \in Procs |-> NoLag]
    /\ closed = [p \in Procs |-> FALSE]
    /\ stopped = [p \in Procs |-> FALSE]
    /\ loop = [p \in Procs |-> [at |-> "off", t |-> 0]]
    /\ wake = [p \in Procs |-> FALSE]
    /\ lag = [p \in Procs |-> NoLag]
    /\ fired = [j \in Jobs |-> {}]
    /\ faults = 0
    /\ crashes = 0

LoopStep(p) == NextDelay(p) \/ LoopStops(p) \/ LoopWoken(p) \/ TimerFires(p) \/ DispatchDue(p)

Operation(p, j) ==
    \/ \E s \in Schedules : AddJob(p, j, s) \/ Reschedule(p, j, s)
    \/ \E on \in BOOLEAN : SetEnabled(p, j, on)
    \/ RemoveJob(p, j)
    \/ RunNow(p, j)

Next ==
    \/ \E p \in Procs :
        \/ Load(p) \/ Start(p) \/ StartRefused(p)
        \/ Close(p) \/ CloseReturns(p) \/ Exit(p) \/ Crash(p)
        \/ LoopStep(p)
        \/ \E j \in Jobs : UpsertSystemJob(p, j) \/ RunEnds(p, j) \/ Operation(p, j)
    \/ Tick

Spec == Init /\ [][Next]_vars

(* The loop goroutine keeps running, the clock advances, and every run     *)
(* ends, by its timeout at the latest.                                     *)
FairSpec ==
    /\ Spec
    /\ WF_vars(Tick)
    /\ \A p \in Procs : WF_vars(LoopStep(p)) /\ WF_vars(\E j \in Jobs : RunEnds(p, j))

-----------------------------------------------------------------------------
ScheduleSet == Schedules \cup {SystemSchedule}
Job == [on : BOOLEAN, sched : ScheduleSet, next : Nat, last : Nat]
JobSet == {None} \cup Job

(* The variables keep their types.                                         *)
TypeOK ==
    /\ setup \in Setups
    /\ now \in 1..Horizon
    /\ disk \in [Jobs -> JobSet] /\ mem \in [Procs -> [Jobs -> JobSet]]
    /\ holder \in Procs \cup {None}
    /\ phase \in [Procs -> {"down", "loaded", "running", "closing", "closed"}]
    /\ configured \in [Procs -> SUBSET Jobs] /\ boot \in [Procs -> Nat]
    /\ dirty \in [Procs -> BOOLEAN] /\ closed \in [Procs -> BOOLEAN] /\ stopped \in [Procs -> BOOLEAN]
    /\ active \in [Procs -> [Jobs -> Nat]] /\ lag \in [Procs -> [Jobs -> Nat]]
    /\ loop \in [Procs -> [at : {"off", "poll", "sleep", "due"}, t : Nat]]
    /\ wake \in [Procs -> BOOLEAN]
    /\ fired \in [Jobs -> SUBSET Nat]

(* While the loop sleeps and nothing is there to wake it, it does not      *)
(* sleep past the next run of any waiting job by more than the second of a *)
(* retry: no operation can add or move a job behind its back.              *)
NoOversleep ==
    \A p \in Procs :
        loop[p].at = "sleep" /\ ~wake[p] =>
            \A j \in Waiting(p) : loop[p].t <= mem[p][j].next \/ loop[p].t <= now + 1

(* What the dirty flag is for: at most one ended run of a job is missing   *)
(* from the store file, so a crash repeats at most one.                    *)
LagAtMostOne == \A p \in Procs, j \in Jobs : lag[p][j] <= 1

LoopLaunches(p, j) ==
    loop[p].at = "due" /\ loop'[p].at = "poll" /\ active[p][j] = 0 /\ active'[p][j] # 0

(* The loop never launches a job for an instant at or before the last one  *)
(* the store file has recorded for it, through crashes, updates and failed *)
(* saves; where one process opens the store.                               *)
InstantOnce ==
    [][Cardinality(setup.procs) = 1 => \A p \in Procs, j \in Jobs :
          LoopLaunches(p, j) => active'[p][j] > disk'[j].last]_vars

(* No more jobs run than maxConcurrent allows, whether the loop or RunNow  *)
(* launched them.                                                          *)
CapKept == \A p \in Procs : Cardinality(Running(p)) <= MaxConcurrent

(* Once Close has returned and given the lease back, nothing of the        *)
(* scheduler runs and nothing can be launched.                             *)
QuietWhenClosed ==
    \A p \in Procs : phase[p] = "closed" => loop[p].at = "off" /\ Running(p) = {} /\ holder # p

(* The holder of the lease owns the store file: what it has in memory is   *)
(* on disk, or it knows that it is not; where one process opens the store. *)
HolderOwnsStore == Cardinality(setup.procs) = 1 => \A p \in Procs : holder = p /\ ~dirty[p] => disk = mem[p]

(* Two gateways never schedule at the same time: while the loop or a run   *)
(* of one is alive, the other has neither.                                 *)
OneScheduler ==
    LET Alive(p) == loop[p].at # "off" \/ Running(p) # {}
    IN  \A p, q \in Procs \ Chats : Alive(p) /\ Alive(q) => p = q

(* A running scheduler has a loop.                                         *)
RunningHasLoop == \A p \in Procs : phase[p] = "running" => loop[p].at # "off"

(* The job has no cron expression without a time zone.                     *)
NamesZone(j) ==
    \A job \in {disk[j]} \cup {mem[p][j] : p \in Procs} :
        job # None /\ job.sched.kind = "cron" => job.sched.tz

(* No two launches of a job that names its time zone fall on the same      *)
(* wall-clock minute of that zone, although its clock may be set back.     *)
WallClockOnce ==
    \A j \in Jobs : NamesZone(j) =>
        \A t, u \in fired[j] \cap DOMAIN Wall : Wall[t] = Wall[u] => t = u

(* An instant that passed before the scheduler started is launched only    *)
(* if the misfire policy and the grace of the job allow it.                *)
MissedByPolicy ==
    [][\A p \in Procs, j \in Jobs :
          LoopLaunches(p, j) /\ active'[p][j] <= boot[p] =>
              Policy[j] = "fire_once" /\ (Grace[j] = 0 \/ boot[p] - active'[p][j] <= Grace[j])]_vars

(* A due instant of a fire_once job is in the store file until it has been *)
(* launched, however often the process restarts, if nobody changes the job. *)
MissedIsFired ==
    [][Ops \subseteq {"add"} => \A j \in Jobs :
          /\ Policy[j] = "fire_once" /\ Grace[j] = 0
          /\ disk[j] # None /\ disk'[j] # None
          /\ disk[j].on /\ disk[j].next # 0 /\ disk[j].next <= now
          /\ disk'[j].next # disk[j].next
          => disk[j].next \in fired[j]]_vars

(* A job that is due is launched, unless the scheduler stops: a full       *)
(* scheduler and an unsaved run only delay it.  Where nobody changes the   *)
(* jobs, there is always a later moment at which nothing is due.           *)
DueIsRun ==
    []<>(Ops \subseteq {"add"} => \A p \in Procs : phase[p] = "running" => Due(p, now) = {})

(* The scheduler and its store: types, no more runs than allowed, a file    *)
(* that is one run behind at most and that the holder of the lease knows,   *)
(* quiet after Close, one gateway scheduling at a time, and no sleep past   *)
(* a waiting job.                                                           *)
SchedulerInv ==
    /\ TypeOK /\ CapKept /\ LagAtMostOne /\ HolderOwnsStore /\ QuietWhenClosed /\ OneScheduler
    /\ NoOversleep

(* What the loop may launch: never an instant that is recorded already, and *)
(* a missed one only as the policy of the job allows.                       *)
LaunchesRight == InstantOnce /\ MissedByPolicy

(* What the loop must launch: a job that is due, a missed instant before it *)
(* leaves the store file, and a repeated minute of a named zone only once.  *)
OccurrencesKept == DueIsRun /\ MissedIsFired /\ []WallClockOnce
=============================================================================
