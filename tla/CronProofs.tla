----------------------------- MODULE CronProofs -----------------------------
(***************************************************************************)
(* Proofs about the scheduler, for every set of processes and jobs, every  *)
(* schedule, policy and clock, and any number of faults and crashes: what  *)
(* SchedulerInv says of the loop, the runs and the store file, and what    *)
(* LaunchesRight says of the instants the loop launches.                   *)
(***************************************************************************)
EXTENDS Cron, FiniteSetTheorems, TLAPS

(* What is known of the next run of a job: it is later than the last one;   *)
(* when it was just computed, later than the clock; and when it was missed, *)
(* one that the policy of the job makes up for.                             *)
Current(job, t) == job.last <= t /\ (job.next = 0 \/ job.next > t)
Ordered(job, t) == job.last <= t /\ (job.next = 0 \/ job.next > job.last)
Allowed(j, job, b) ==
    job.on /\ job.next # 0 /\ job.next <= b =>
        Policy[j] = "fire_once" /\ (Grace[j] = 0 \/ b - job.next <= Grace[j])

(* Where a process is says who holds the lease and what may be alive.       *)
Placed(p) ==
    /\ phase[p] # "down" => p \in setup.procs
    /\ p \in Chats => phase[p] \in {"down", "loaded"}
    /\ Serving(p) <=> holder = p
    /\ phase[p] \in {"closing", "closed"} => closed[p]
    /\ loop[p].at # "off" => Serving(p)
    /\ loop[p].at = "due" => loop[p].t <= now
    /\ boot[p] <= now
    /\ ~Reached(p) => \A j \in Jobs : active[p][j] = 0

(* The jobs of a process: what runs is a job it has, was due, and has no    *)
(* unsaved run before it; an unsaved run is known.                          *)
Kept(p) ==
    \A j \in Jobs :
        /\ active[p][j] # 0 => active[p][j] <= now /\ mem[p][j] \in Job /\ lag[p][j] = 0
        /\ lag[p][j] <= 1 /\ (lag[p][j] # 0 => dirty[p])
        /\ mem[p][j] # None => Ordered(mem[p][j], now) /\ (Serving(p) => Allowed(j, mem[p][j], boot[p]))

Owns(p) == Cardinality(setup.procs) = 1 /\ holder = p /\ ~dirty[p] => disk = mem[p]

Awake(p) ==
    loop[p].at = "sleep" /\ ~wake[p] =>
        \A j \in Waiting(p) : loop[p].t <= mem[p][j].next \/ loop[p].t <= now + 1

Capped(p) == Cardinality(Running(p)) <= MaxConcurrent

Good(p) == Placed(p) /\ Kept(p) /\ Owns(p) /\ Awake(p) /\ Capped(p)

Stored == \A j \in Jobs : disk[j] # None => Ordered(disk[j], now)

IInv == TypeOK /\ Stored /\ \A p \in Procs : Good(p)

-----------------------------------------------------------------------------
(* What the assumption says of a configuration.                             *)
LEMMA SetupFacts ==
    ASSUME TypeOK
    PROVE  /\ Policy \in [Jobs -> {"fire_once", "skip"}] /\ Grace \in [Jobs -> Nat]
           /\ MaxConcurrent \in Nat \ {0} /\ Horizon \in Nat \ {0} /\ MaxSleep \in Nat \ {0}
           /\ setup.procs \subseteq Procs /\ Chats \subseteq setup.procs
           /\ DOMAIN Wall \subseteq Nat \ {0} /\ SystemJobs \subseteq Jobs
           /\ now \in Nat \ {0}
           /\ \A s \in ScheduleSet : WellFormed(s)
<1>1. setup \in Setups /\ now \in 1 .. Horizon
  BY Zenon DEF TypeOK
<1>2. Horizon \in Nat \ {0}
  BY <1>1, CronAssumption, Zenon DEF Horizon
<1>3. now \in Nat \ {0}
  BY <1>1, <1>2
<1> QED
  BY <1>1, <1>2, <1>3, CronAssumption, Zenon
     DEF Policy, Grace, MaxConcurrent, Chats, Wall, SystemJobs, ScheduleSet, Schedules

(* Where one process opens the store there is no other.                     *)
LEMMA Alone ==
    ASSUME TypeOK, Cardinality(setup.procs) = 1, NEW p \in setup.procs, NEW q \in setup.procs
    PROVE  p = q
<1>1. IsFiniteSet(setup.procs)
  BY SetupFacts, CronAssumption, FS_Subset, Zenon
<1>2. PICK x : setup.procs = {x}
  BY <1>1, FS_Singleton, Zenon
<1> QED
  BY <1>2, Zenon

(* The cells of the tables of a process.                                    *)
LEMMA Cells ==
    ASSUME TypeOK, NEW p \in Procs
    PROVE  /\ mem[p] \in [Jobs -> JobSet] /\ boot[p] \in Nat /\ loop[p].t \in Nat
           /\ \A j \in Jobs : /\ mem[p][j] \in JobSet /\ (mem[p][j] # None => mem[p][j] \in Job)
                              /\ active[p][j] \in Nat /\ lag[p][j] \in Nat
<1>1. /\ mem \in [Procs -> [Jobs -> JobSet]] /\ boot \in [Procs -> Nat]
      /\ active \in [Procs -> [Jobs -> Nat]] /\ lag \in [Procs -> [Jobs -> Nat]]
      /\ loop \in [Procs -> [at : {"off", "poll", "sleep", "due"}, t : Nat]]
  BY Zenon DEF TypeOK
<1>2. \A j \in Jobs : mem[p][j] \in JobSet
  BY <1>1
<1>3. \A j \in Jobs : mem[p][j] # None => mem[p][j] \in Job
  BY <1>2, Zenon DEF JobSet
<1> QED
  BY <1>1, <1>2, <1>3

(* Sets of jobs are finite.                                                 *)
LEMMA JobSets ==
    ASSUME NEW S \in SUBSET Jobs
    PROVE  IsFiniteSet(S) /\ Cardinality(S) \in Nat
  BY CronAssumption, FS_Subset, FS_CardinalityType, Zenon

(* A set of instants that is not empty has a least element.                 *)
LEMMA MinFacts ==
    ASSUME NEW S \in SUBSET Nat, S # {}
    PROVE  Min(S) \in S /\ \A y \in S : Min(S) <= y
<1>1. PICK x \in S : \A y \in S : ~(<<y, x>> \in OpToRel(<, Nat))
  BY NatLessThanWellFounded, WFMin, Zenon
<1>2. \A y \in S : ~(y < x)
  BY <1>1, Zenon DEF OpToRel
<1>3. \A y \in S : x <= y
  BY <1>2
<1> QED
  BY <1>3, Zenon DEF Min

(* The periods that have passed are fewer than the quotient plus one.       *)
LEMMA Periods ==
    ASSUME NEW a \in Nat, NEW e \in Nat \ {0}
    PROVE  a \div e \in Nat /\ a < (a \div e + 1) * e /\ (a \div e + 1) * e \in Nat
  OBVIOUS

-----------------------------------------------------------------------------
(* Schedules.                                                               *)

(* The next run of a schedule is later than the instant it is asked for.    *)
LEMMA NextRunLater ==
    ASSUME TypeOK, NEW s \in ScheduleSet, NEW t \in Nat
    PROVE  NextRun(s, t) \in Nat /\ (NextRun(s, t) = 0 \/ NextRun(s, t) > t)
<1>1. WellFormed(s) /\ DOMAIN Wall \subseteq Nat \ {0}
  BY SetupFacts, Zenon
<1>2. CASE s.kind = "at"
  BY <1>1, <1>2 DEF NextRun, WellFormed
<1>3. CASE s.kind = "every"
  BY <1>1, <1>3 DEF NextRun, WellFormed
<1>4. CASE s.kind = "cron" /\ ~HasNext(s, t)
  BY <1>4, Zenon DEF NextRun
<1>5. CASE s.kind = "cron" /\ HasNext(s, t)
  <2>1. Occurrences(s, t) \in SUBSET Nat /\ Occurrences(s, t) # {}
    BY <1>1, <1>5, Zenon DEF Occurrences, HasNext
  <2>2. Min(Occurrences(s, t)) \in Occurrences(s, t)
    BY <2>1, MinFacts, Zenon
  <2>3. NextRun(s, t) = Min(Occurrences(s, t))
    BY <1>5, Zenon DEF NextRun
  <2> QED
    BY <2>1, <2>2, <2>3, Zenon DEF Occurrences
<1> QED
  BY <1>1, <1>2, <1>3, <1>4, <1>5, Zenon DEF WellFormed

(* The next run after one that has ended is later than that end.            *)
LEMMA RecursLater ==
    ASSUME TypeOK, NEW s \in ScheduleSet, s.kind # "at", NEW t \in Nat, NEW prev \in Nat
    PROVE  /\ NextRecurringAfter(s, t, prev) \in Nat
           /\ NextRecurringAfter(s, t, prev) = 0 \/ NextRecurringAfter(s, t, prev) > t
<1>1. WellFormed(s) /\ DOMAIN Wall \subseteq Nat \ {0}
  BY SetupFacts, Zenon
<1>2. CASE s.kind = "every"
  <2>1. s.every \in Nat \ {0}
    BY <1>1, <1>2, Zenon DEF WellFormed
  <2> DEFINE next == prev + s.every
             k == (t - next) \div s.every + 1
  <2>2. next \in Nat
    BY <2>1
  <2>3. NextRecurringAfter(s, t, prev) = IF next <= t THEN next + k * s.every ELSE next
    BY <1>2, Zenon DEF NextRecurringAfter
  <2>4. ASSUME next <= t
        PROVE  t - next < k * s.every /\ k * s.every \in Nat
    <3>1. t - next \in Nat
      BY <2>2, <2>4
    <3> QED
      BY <2>1, <3>1, Periods, Zenon
  <2> HIDE DEF next, k
  <2> QED
    BY <2>2, <2>3, <2>4
<1>3. CASE s.kind # "every" /\ Fresh(s, t, prev) = {}
  BY <1>3, Zenon DEF NextRecurringAfter
<1>4. CASE s.kind # "every" /\ Fresh(s, t, prev) # {}
  <2>1. Fresh(s, t, prev) \in SUBSET Nat
    BY <1>1, Zenon DEF Fresh, Occurrences
  <2>2. Min(Fresh(s, t, prev)) \in Fresh(s, t, prev)
    BY <1>4, <2>1, MinFacts, Zenon
  <2>3. NextRecurringAfter(s, t, prev) = Min(Fresh(s, t, prev))
    BY <1>4, Zenon DEF NextRecurringAfter
  <2> QED
    BY <2>1, <2>2, <2>3, Zenon DEF Fresh, Occurrences
<1> QED
  BY <1>2, <1>3, <1>4, Zenon

(* A next run later than the clock is later than the last run, and is no    *)
(* missed one.                                                              *)
LEMMA CurrentFacts ==
    ASSUME NEW job \in Job, NEW t \in Nat, Current(job, t), NEW j, NEW b \in Nat, b <= t
    PROVE  Ordered(job, t) /\ Allowed(j, job, b)
  BY DEF Current, Ordered, Allowed, Job

LEMMA NewJobCurrent ==
    ASSUME TypeOK, NEW s \in ScheduleSet, NEW t \in Nat
    PROVE  NewJob(s, t) \in Job /\ Current(NewJob(s, t), t)
  BY NextRunLater DEF NewJob, Job, Current

(* A job with its state and next run replaced.                              *)
LEMMA JobWith ==
    ASSUME NEW job \in Job, NEW on \in BOOLEAN, NEW next \in Nat
    PROVE  /\ [job EXCEPT !.on = on, !.next = next] \in Job
           /\ [job EXCEPT !.on = on, !.next = next].next = next
           /\ [job EXCEPT !.on = on, !.next = next].last = job.last
  BY Zenon DEF Job

(* What the start of the scheduler makes of a job it has loaded.            *)
LEMMA PreparedFacts ==
    ASSUME TypeOK, NEW j \in Jobs, NEW job \in Job, NEW t \in Nat, Ordered(job, t)
    PROVE  /\ PrepareJobOnStart(j, job, t) \in Job
           /\ Ordered(PrepareJobOnStart(j, job, t), t)
           /\ Allowed(j, PrepareJobOnStart(j, job, t), t)
<1> DEFINE missed == job.next # 0 /\ job.next <= t
           keep == job.next > t \/ (missed /\ ShouldFireMisfire(j, job, t))
           new == PrepareJobOnStart(j, job, t)
<1>1. /\ job.on \in BOOLEAN /\ job.sched \in ScheduleSet /\ job.next \in Nat /\ job.last \in Nat
      /\ NextRun(job.sched, t) \in Nat
      /\ NextRun(job.sched, t) = 0 \/ NextRun(job.sched, t) > t
      /\ HasNext(job.sched, t) \in BOOLEAN /\ FALSE \in BOOLEAN /\ 0 \in Nat
  BY NextRunLater, Zenon DEF Job, HasNext
<1>2. CASE ~job.on
  <2>1. new = [job EXCEPT !.next = 0]
    BY <1>2, Zenon DEF PrepareJobOnStart
  <2> QED
    BY <1>1, <2>1, Zenon DEF Job, Ordered, Allowed
<1>3. CASE job.on /\ keep
  <2>1. new = job
    BY <1>3, Zenon DEF PrepareJobOnStart
  <2> QED
    BY <1>1, <1>3, <2>1 DEF Ordered, Allowed, ShouldFireMisfire
<1>4. CASE job.on /\ ~keep /\ missed /\ job.sched.kind = "at"
  <2>1. new = [job EXCEPT !.on = FALSE, !.next = 0]
    BY <1>4, Zenon DEF PrepareJobOnStart
  <2>2. /\ [job EXCEPT !.on = FALSE, !.next = 0] \in Job
        /\ [job EXCEPT !.on = FALSE, !.next = 0].next = 0
        /\ [job EXCEPT !.on = FALSE, !.next = 0].last = job.last
    BY <1>1, JobWith, Zenon
  <2>3. new \in Job /\ new.next = 0 /\ new.last = job.last
    BY <2>1, <2>2, Zenon
  <2> QED
    BY <2>3, Zenon DEF Ordered, Allowed
<1>5. CASE job.on /\ ~keep /\ ~(missed /\ job.sched.kind = "at")
  <2> DEFINE on == HasNext(job.sched, t)
             next == NextRun(job.sched, t)
  <2>1. new = [job EXCEPT !.on = on, !.next = next] /\ on \in BOOLEAN /\ next \in Nat /\ (next = 0 \/ next > t)
    BY <1>1, <1>5, Zenon DEF PrepareJobOnStart
  <2> HIDE DEF on, next
  <2>2. /\ [job EXCEPT !.on = on, !.next = next] \in Job
        /\ [job EXCEPT !.on = on, !.next = next].next = next
        /\ [job EXCEPT !.on = on, !.next = next].last = job.last
    BY <2>1, JobWith, ZenonT(30)
  <2>3. new \in Job /\ new.next = next /\ new.last = job.last
    BY <2>1, <2>2, Zenon
  <2> QED
    BY <1>1, <2>1, <2>3 DEF Ordered, Allowed
<1> QED
  BY <1>1, <1>2, <1>3, <1>4, <1>5, Zenon

(* What the end of a run makes of its job.                                  *)
LEMMA AfterRunFacts ==
    ASSUME TypeOK, NEW j \in Jobs, NEW job \in Job, NEW t \in Nat, NEW inst \in Nat, inst <= t
    PROVE  LET new == AfterRun(j, job, t, inst)
           IN  new \in JobSet /\ (new # None => new \in Job /\ Current(new, t))
<1> DEFINE new == AfterRun(j, job, t, inst)
           next == IF job.on THEN NextRecurringAfter(job.sched, t, inst) ELSE 0
<1>1. job.sched \in ScheduleSet /\ FALSE \in BOOLEAN /\ 0 \in Nat
  BY Zenon DEF Job
<1>2. CASE job.sched.kind = "at"
  <2> DEFINE a == [job EXCEPT !.on = FALSE, !.next = 0]
             x == [a EXCEPT !.last = inst]
  <2>1. new = None \/ new = x
    BY <1>2, Zenon DEF AfterRun
  <2>2. a \in Job /\ a.next = 0
    BY <1>1, JobWith, Zenon
  <2> HIDE DEF a
  <2>3. x \in Job /\ x.next = 0 /\ x.last = inst
    BY <2>2, Zenon DEF Job
  <2> HIDE DEF x
  <2> QED
    BY <2>1, <2>3, Zenon DEF JobSet, Current
<1>3. CASE job.sched.kind # "at"
  <2>1. next \in Nat /\ (next = 0 \/ next > t)
    BY <1>1, <1>3, RecursLater, Zenon
  <2> DEFINE on == next # 0
             a == [job EXCEPT !.on = on, !.next = next]
             x == [a EXCEPT !.last = inst]
  <2>2. new = x
    BY <1>3, Zenon DEF AfterRun
  <2>3. on \in BOOLEAN
    BY Zenon
  <2> HIDE DEF next, on
  <2>4. a \in Job /\ a.next = next
    BY <2>1, <2>3, JobWith, Zenon
  <2> HIDE DEF a
  <2>5. x \in Job /\ x.next = next /\ x.last = inst
    BY <2>4, Zenon DEF Job
  <2> HIDE DEF x
  <2> QED
    BY <2>1, <2>2, <2>5, Zenon DEF JobSet, Current
<1> QED
  BY <1>2, <1>3, Zenon

-----------------------------------------------------------------------------
(* What a step of one process leaves alone of the others.                   *)
Only(p) ==
    /\ setup' = setup /\ now' = now
    /\ \A q \in Procs \ {p} :
        /\ phase'[q] = phase[q] /\ boot'[q] = boot[q] /\ closed'[q] = closed[q]
        /\ mem'[q] = mem[q] /\ dirty'[q] = dirty[q] /\ lag'[q] = lag[q]
        /\ active'[q] = active[q] /\ loop'[q] = loop[q] /\ wake'[q] = wake[q]
        /\ holder' = q <=> holder = q

(* A step of one process keeps what is known of the others; two of them     *)
(* may write the store file only where more than one opens it.              *)
LEMMA Others ==
    ASSUME IInv, NEW p \in Procs, p \in setup.procs, Only(p), NEW q \in Procs \ {p}
    PROVE  Good(q)'
<1>1. Good(q) /\ TypeOK
  BY Zenon DEF IInv
<1>2. /\ setup' = setup /\ now' = now
      /\ phase'[q] = phase[q] /\ boot'[q] = boot[q] /\ closed'[q] = closed[q]
      /\ mem'[q] = mem[q] /\ dirty'[q] = dirty[q] /\ lag'[q] = lag[q]
      /\ active'[q] = active[q] /\ loop'[q] = loop[q] /\ wake'[q] = wake[q]
      /\ holder' = q <=> holder = q
  BY Zenon DEF Only
<1>3. Placed(q)'
  BY <1>1, <1>2, Zenon DEF Good, Placed, Serving, Reached, Chats
<1>4. Kept(q)'
  BY <1>1, <1>2, Zenon DEF Good, Kept, Serving, Allowed, Ordered, Policy, Grace, Job, ScheduleSet, Schedules
<1>5. Owns(q)'
  <2> SUFFICES ASSUME Cardinality(setup.procs) = 1, holder = q
               PROVE  FALSE
    BY <1>2, Zenon DEF Owns
  <2>1. q \in setup.procs
    BY <1>1, Zenon DEF Good, Placed, Serving
  <2> QED
    BY <1>1, <2>1, Alone, Zenon
<1>6. Awake(q)'
  BY <1>1, <1>2, Zenon DEF Good, Awake, Waiting
<1>7. Capped(q)'
  BY <1>1, <1>2, Zenon DEF Good, Capped, Running, MaxConcurrent
<1> QED
  BY <1>3, <1>4, <1>5, <1>6, <1>7, Zenon DEF Good

(* So only the process that steps has to be looked at.                      *)
LEMMA StepKeeps ==
    ASSUME IInv, NEW p \in Procs, p \in setup.procs, Only(p), TypeOK', Stored', Good(p)'
    PROVE  IInv'
<1>1. ASSUME NEW q \in Procs \ {p}
      PROVE  Good(q)'
  BY Others, Zenon
<1> QED
  BY <1>1, Zenon DEF IInv

-----------------------------------------------------------------------------
(* Saving.                                                                  *)

LEMMA SaveFacts ==
    ASSUME TypeOK, NEW p \in Procs, NEW jobs \in [Jobs -> JobSet], Save(p, jobs), setup' = setup
    PROVE  /\ disk' = jobs /\ mem'[p] = jobs /\ dirty'[p] = FALSE
           /\ \A j \in Jobs : lag'[p][j] = 0
           /\ \A q \in Procs \ {p} : mem'[q] = mem[q] /\ dirty'[q] = dirty[q] /\ lag'[q] = lag[q]
           /\ disk' \in [Jobs -> JobSet'] /\ mem' \in [Procs -> [Jobs -> JobSet']]
           /\ dirty' \in [Procs -> BOOLEAN] /\ lag' \in [Procs -> [Jobs -> Nat]]
<1>1. JobSet' = JobSet
  BY Zenon DEF JobSet, Job, ScheduleSet, Schedules
<1> QED
  BY <1>1, Zenon DEF TypeOK, Save, NoLag

LEMMA SameFacts ==
    ASSUME TypeOK, setup' = setup, UNCHANGED <<disk, mem, dirty, lag>>
    PROVE  /\ disk' \in [Jobs -> JobSet'] /\ mem' \in [Procs -> [Jobs -> JobSet']]
           /\ dirty' \in [Procs -> BOOLEAN] /\ lag' \in [Procs -> [Jobs -> Nat]]
<1>1. JobSet' = JobSet
  BY Zenon DEF JobSet, Job, ScheduleSet, Schedules
<1> QED
  BY <1>1, Zenon DEF TypeOK

(* After a flush the file of the process is what it has in memory.          *)
LEMMA FlushFacts ==
    ASSUME IInv, NEW p \in Procs, Flush(p), setup' = setup
    PROVE  /\ mem' = mem /\ dirty'[p] = FALSE
           /\ disk' = mem[p] \/ (disk' = disk /\ ~dirty[p])
           /\ \A j \in Jobs : lag'[p][j] = 0
           /\ \A q \in Procs \ {p} : dirty'[q] = dirty[q] /\ lag'[q] = lag[q]
           /\ disk' \in [Jobs -> JobSet'] /\ mem' \in [Procs -> [Jobs -> JobSet']]
           /\ dirty' \in [Procs -> BOOLEAN] /\ lag' \in [Procs -> [Jobs -> Nat]]
<1>1. TypeOK /\ Kept(p)
  BY Zenon DEF IInv, Good
<1>2. CASE dirty[p]
  <2>1. Save(p, mem[p]) /\ mem[p] \in [Jobs -> JobSet]
    BY <1>1, <1>2, Zenon DEF Flush, TypeOK
  <2>2. mem' = mem
    BY <1>1, <2>1, Zenon DEF Save, TypeOK
  <2> QED
    BY <1>1, <2>1, <2>2, SaveFacts, Zenon
<1>3. CASE ~dirty[p]
  <2>1. UNCHANGED <<disk, mem, dirty, lag>>
    BY <1>3, Zenon DEF Flush
  <2>2. dirty[p] = FALSE
    BY <1>1, <1>3, Zenon DEF TypeOK
  <2>3. \A j \in Jobs : lag[p][j] = 0
    BY <1>1, <1>3, Zenon DEF Kept
  <2> QED
    BY <1>1, <1>3, <2>1, <2>2, <2>3, SameFacts, Zenon
<1> QED
  BY <1>2, <1>3, Zenon

(* The jobs of the file are as good as those of the memory it is saved from. *)
LEMMA FlushStored ==
    ASSUME IInv, NEW p \in Procs, disk' = mem[p] \/ disk' = disk, now' = now
    PROVE  Stored'
  BY Zenon DEF IInv, Good, Kept, Stored, Ordered

-----------------------------------------------------------------------------
(* The life of a process.                                                   *)

(* What is known of a process before it steps.                              *)
LEMMA Before ==
    ASSUME IInv, NEW p \in Procs
    PROVE  TypeOK /\ Stored /\ Placed(p) /\ Kept(p) /\ Owns(p) /\ Awake(p) /\ Capped(p)
  BY Zenon DEF IInv, Good

(* What depends on the configuration alone.                                 *)
LEMMA SameSetup ==
    ASSUME setup' = setup
    PROVE  /\ JobSet' = JobSet /\ Job' = Job /\ Horizon' = Horizon /\ Chats' = Chats
           /\ MaxConcurrent' = MaxConcurrent /\ Policy' = Policy /\ Grace' = Grace
  BY Zenon DEF JobSet, Job, ScheduleSet, Schedules, Horizon, Chats, MaxConcurrent, Policy, Grace

(* At most as many elements as the two sets together.                       *)
LEMMA UnionBound ==
    ASSUME NEW A \in SUBSET Jobs, NEW B \in SUBSET Jobs, NEW S, S \subseteq A \cup B
    PROVE  Cardinality(S) <= Cardinality(A) + Cardinality(B)
<1>1. IsFiniteSet(A) /\ IsFiniteSet(B) /\ IsFiniteSet(A \cup B) /\ IsFiniteSet(A \cap B)
  <2>1. A \cup B \in SUBSET Jobs /\ A \cap B \in SUBSET Jobs
    BY Zenon
  <2> QED
    BY <2>1, JobSets, Zenon
<1>2. Cardinality(A \cup B) = Cardinality(A) + Cardinality(B) - Cardinality(A \cap B)
  BY <1>1, FS_Union, Zenon
<1>3. Cardinality(S) <= Cardinality(A \cup B) /\ Cardinality(S) \in Nat
  BY <1>1, FS_Subset, FS_CardinalityType, Zenon
<1>4. Cardinality(A) \in Nat /\ Cardinality(B) \in Nat /\ Cardinality(A \cap B) \in Nat
  BY <1>1, FS_CardinalityType, Zenon
<1> QED
  BY <1>2, <1>3, <1>4

(* A step that launches nothing keeps within the cap.                       *)
LEMMA FewerRun ==
    ASSUME TypeOK, NEW p \in Procs, Capped(p), setup' = setup,
           \A j \in Jobs : active'[p][j] # 0 => active[p][j] # 0
    PROVE  Capped(p)'
<1>1. Running(p)' \subseteq Running(p) \cup {} /\ Running(p) \in SUBSET Jobs /\ {} \in SUBSET Jobs
  BY Zenon DEF Running
<1>2. Cardinality(Running(p)') <= Cardinality(Running(p)) + Cardinality({})
  BY <1>1, UnionBound, Zenon
<1>3. /\ Cardinality({}) = 0 /\ Cardinality(Running(p)) \in Nat /\ Cardinality(Running(p)') \in Nat
      /\ MaxConcurrent \in Nat /\ MaxConcurrent' = MaxConcurrent
  BY <1>1, JobSets, SetupFacts, SameSetup, FS_EmptySet, Zenon
<1>4. Cardinality(Running(p)) <= MaxConcurrent
  BY Zenon DEF Capped
<1>5. Cardinality(Running(p)') <= MaxConcurrent'
  BY <1>2, <1>3, <1>4
<1> QED
  BY <1>5, Zenon DEF Capped

(* What is to be shown of the jobs after a step within a phase.             *)
LEMMA KeptNext ==
    ASSUME NEW p, setup' = setup, now' = now, phase' = phase, boot' = boot, NEW jobs, mem'[p] = jobs,
           \A j \in Jobs :
              /\ active'[p][j] # 0 => active'[p][j] <= now /\ jobs[j] \in Job /\ lag'[p][j] = 0
              /\ lag'[p][j] <= 1 /\ (lag'[p][j] # 0 => dirty'[p])
              /\ jobs[j] # None => Ordered(jobs[j], now) /\ (Serving(p) => Allowed(j, jobs[j], boot[p]))
    PROVE  Kept(p)'
<1>1. Serving(p)' = Serving(p) /\ Job' = Job
  BY SameSetup, Zenon DEF Serving
<1>2. ASSUME NEW j \in Jobs, Allowed(j, jobs[j], boot[p])
      PROVE  Allowed(j, mem[p][j], boot[p])'
  BY <1>2, SameSetup, Zenon DEF Allowed
<1>3. ASSUME NEW j \in Jobs, Ordered(jobs[j], now)
      PROVE  Ordered(mem[p][j], now)'
  BY <1>3, Zenon DEF Ordered
<1> QED
  BY <1>1, <1>2, <1>3, Zenon DEF Kept

(* A step that changes nothing but the count of the faults or crashes.      *)
LEMMA UnchangedKeeps ==
    ASSUME IInv, setup' = setup, now' = now, disk' = disk, holder' = holder, phase' = phase,
           configured' = configured, boot' = boot, mem' = mem, dirty' = dirty, active' = active,
           closed' = closed, stopped' = stopped, loop' = loop, wake' = wake, lag' = lag, fired' = fired
    PROVE  IInv'
<1>1. TypeOK' /\ Stored'
  BY SameSetup, Zenon DEF IInv, TypeOK, Stored, Ordered
<1>2. ASSUME NEW p \in Procs
      PROVE  Good(p)'
  <2>1. Placed(p) /\ Kept(p) /\ Owns(p) /\ Awake(p) /\ Capped(p)
    BY Before, Zenon
  <2>2. Placed(p)'
    BY <2>1, SameSetup, Zenon DEF Placed, Serving, Reached
  <2>3. Kept(p)'
    BY <2>1, SameSetup, Zenon DEF Kept, Ordered, Allowed, Serving
  <2>4. Owns(p)' /\ Awake(p)' /\ Capped(p)'
    BY <2>1, SameSetup, Zenon DEF Owns, Awake, Waiting, Capped, Running
  <2> QED
    BY <2>2, <2>3, <2>4, Zenon DEF Good
<1> QED
  BY <1>1, <1>2, Zenon DEF IInv

LEMMA LoadKeeps ==
    ASSUME IInv, NEW p \in Procs, Load(p)
    PROVE  IInv'
<1>1. TypeOK /\ Stored /\ Placed(p) /\ Kept(p) /\ Capped(p)
  BY Before, Zenon
<1>2. /\ p \in setup.procs /\ phase[p] = "down"
      /\ phase' = [phase EXCEPT ![p] = "loaded"] /\ mem' = [mem EXCEPT ![p] = disk]
      /\ setup' = setup /\ now' = now /\ holder' = holder /\ configured' = configured
      /\ boot' = boot /\ closed' = closed /\ stopped' = stopped /\ disk' = disk /\ dirty' = dirty
      /\ active' = active /\ loop' = loop /\ wake' = wake /\ lag' = lag /\ fired' = fired
  BY Zenon DEF Load, world
<1>3. phase'[p] = "loaded" /\ mem'[p] = disk
  BY <1>1, <1>2, Zenon DEF TypeOK
<1>4. holder # p /\ loop[p].at = "off" /\ \A j \in Jobs : active[p][j] = 0
  BY <1>1, <1>2, Zenon DEF Placed, Serving, Reached
<1>5. Only(p)
  BY <1>1, <1>2, Zenon DEF Only, TypeOK
<1>6. TypeOK'
  BY <1>1, <1>2, SameSetup, Zenon DEF TypeOK
<1>7. Stored'
  BY <1>1, <1>2, Zenon DEF Stored, Ordered
<1>8. Placed(p)'
  BY <1>1, <1>2, <1>3, <1>4, SameSetup, Zenon DEF Placed, Serving, Reached
<1>9. Kept(p)'
  BY <1>1, <1>2, <1>3, <1>4, Zenon DEF Kept, Stored, Serving, Ordered
<1>10. Owns(p)' /\ Awake(p)'
  BY <1>2, <1>4, Zenon DEF Owns, Awake
<1>11. Capped(p)'
  BY <1>1, <1>2, SameSetup, Zenon DEF Capped, Running
<1> QED
  BY <1>2, <1>5, <1>6, <1>7, <1>8, <1>9, <1>10, <1>11, StepKeeps, Zenon DEF Good

(* A process that has ended left nothing in memory and gave the lease back. *)
LEMMA FallenKeeps ==
    ASSUME IInv, NEW p \in Procs, p \in setup.procs, Fallen(p)
    PROVE  IInv'
<1>1. TypeOK /\ Stored
  BY Before, Zenon
<1>2. /\ phase' = [phase EXCEPT ![p] = "down"] /\ holder' = IF holder = p THEN None ELSE holder
      /\ active' = [active EXCEPT ![p] = NoLag] /\ loop' = [loop EXCEPT ![p] = [at |-> "off", t |-> 0]]
      /\ dirty' = [dirty EXCEPT ![p] = FALSE] /\ lag' = [lag EXCEPT ![p] = NoLag]
      /\ wake' = [wake EXCEPT ![p] = FALSE] /\ mem' = [mem EXCEPT ![p] = [j \in Jobs |-> None]]
      /\ configured' = [configured EXCEPT ![p] = {}] /\ boot' = [boot EXCEPT ![p] = 0]
      /\ closed' = [closed EXCEPT ![p] = FALSE] /\ stopped' = [stopped EXCEPT ![p] = FALSE]
      /\ setup' = setup /\ now' = now /\ disk' = disk /\ fired' = fired
  BY Zenon DEF Fallen
<1>3. /\ phase'[p] = "down" /\ holder' # p /\ loop'[p].at = "off" /\ boot'[p] = 0
      /\ \A j \in Jobs : active'[p][j] = 0 /\ lag'[p][j] = 0 /\ mem'[p][j] = None
  BY <1>1, <1>2, CronAssumption DEF TypeOK, NoLag
<1>4. Only(p)
  BY <1>1, <1>2, CronAssumption DEF Only, TypeOK
<1>5. TypeOK'
  <2>1. NoLag \in [Jobs -> Nat] /\ [j \in Jobs |-> None] \in [Jobs -> JobSet]
    BY Zenon DEF NoLag, JobSet
  <2> QED
    BY <1>1, <1>2, <2>1, SameSetup, Zenon DEF TypeOK
<1>6. Stored'
  BY <1>1, <1>2, Zenon DEF Stored, Ordered
<1>7. Placed(p)'
  BY <1>1, <1>2, <1>3, SetupFacts DEF Placed, Serving, Reached
<1>8. Kept(p)'
  BY <1>3 DEF Kept
<1>9. Owns(p)' /\ Awake(p)'
  BY <1>3, Zenon DEF Owns, Awake
<1>10. Capped(p)'
  <2>1. Running(p)' = {}
    BY <1>3, Zenon DEF Running
  <2>2. MaxConcurrent' \in Nat
    BY <1>1, <1>2, SameSetup, SetupFacts, Zenon
  <2> QED
    BY <2>1, <2>2, FS_EmptySet DEF Capped
<1> QED
  BY <1>4, <1>5, <1>6, <1>7, <1>8, <1>9, <1>10, StepKeeps, Zenon DEF Good

(* The start takes the lease, and keeps a missed run only where the policy  *)
(* allows it.                                                               *)
LEMMA StartKeeps ==
    ASSUME IInv, NEW p \in Procs, Start(p)
    PROVE  IInv'
<1>1. TypeOK /\ Placed(p) /\ Kept(p) /\ Capped(p)
  BY Before, Zenon
<1> DEFINE jobs == [j \in Jobs |-> IF mem[p][j] = None THEN None ELSE PrepareJobOnStart(j, mem[p][j], now)]
<1>2. /\ CanStart(p) /\ holder = None /\ holder' = p /\ Save(p, jobs)
      /\ phase' = [phase EXCEPT ![p] = "running"] /\ boot' = [boot EXCEPT ![p] = now]
      /\ closed' = [closed EXCEPT ![p] = FALSE] /\ loop' = [loop EXCEPT ![p] = [at |-> "poll", t |-> 0]]
      /\ wake' = [wake EXCEPT ![p] = TRUE]
      /\ setup' = setup /\ now' = now /\ configured' = configured /\ stopped' = stopped
      /\ active' = active /\ fired' = fired
  BY Zenon DEF Start, Signal
<1>3. p \in setup.procs /\ p \notin Chats /\ phase[p] \in {"loaded", "closed"}
  BY <1>1, <1>2, Zenon DEF CanStart, Placed
<1>4. \A j \in Jobs : active[p][j] = 0
  BY <1>1, <1>3, Zenon DEF Placed, Serving, Reached
<1>5. now \in Nat
  BY <1>1, SetupFacts, Zenon
<1>6. ASSUME NEW j \in Jobs
      PROVE  /\ jobs[j] \in JobSet
             /\ jobs[j] # None => Ordered(jobs[j], now) /\ Allowed(j, jobs[j], now)
  <2>1. CASE mem[p][j] = None
    BY <2>1, Zenon DEF JobSet
  <2>2. CASE mem[p][j] # None
    <3>1. mem[p][j] \in Job /\ Ordered(mem[p][j], now)
      BY <1>1, <2>2 DEF TypeOK, JobSet, Kept
    <3>2. jobs[j] = PrepareJobOnStart(j, mem[p][j], now)
      BY <2>2, Zenon
    <3> HIDE DEF jobs
    <3> QED
      BY <1>1, <1>5, <3>1, <3>2, PreparedFacts, Zenon DEF JobSet
  <2> QED
    BY <2>1, <2>2, Zenon
<1>7. jobs \in [Jobs -> JobSet]
  BY <1>6, Zenon
<1> HIDE DEF jobs
<1>8. /\ disk' = jobs /\ mem'[p] = jobs /\ dirty'[p] = FALSE
      /\ \A j \in Jobs : lag'[p][j] = 0
      /\ \A q \in Procs \ {p} : mem'[q] = mem[q] /\ dirty'[q] = dirty[q] /\ lag'[q] = lag[q]
      /\ disk' \in [Jobs -> JobSet'] /\ mem' \in [Procs -> [Jobs -> JobSet']]
      /\ dirty' \in [Procs -> BOOLEAN] /\ lag' \in [Procs -> [Jobs -> Nat]]
  BY <1>1, <1>2, <1>7, SaveFacts, Zenon
<1>9. phase'[p] = "running" /\ boot'[p] = now /\ loop'[p].at = "poll"
  BY <1>1, <1>2, Zenon DEF TypeOK
<1>10. Only(p)
  BY <1>1, <1>2, <1>8, CronAssumption DEF Only, TypeOK
<1>11. TypeOK'
  BY <1>1, <1>2, <1>5, <1>8, SameSetup, Zenon DEF TypeOK
<1>12. Stored'
  BY <1>2, <1>6, <1>8, Zenon DEF Stored, Ordered
<1>13. Placed(p)'
  BY <1>2, <1>3, <1>4, <1>5, <1>9, SameSetup DEF Placed, Serving, Reached
<1>14. Kept(p)'
  BY <1>2, <1>4, <1>6, <1>8, <1>9, SameSetup DEF Kept, Ordered, Allowed
<1>15. Owns(p)' /\ Awake(p)'
  BY <1>8, <1>9, Zenon DEF Owns, Awake
<1>16. Capped(p)'
  BY <1>1, <1>2, SameSetup, Zenon DEF Capped, Running
<1> QED
  BY <1>3, <1>10, <1>11, <1>12, <1>13, <1>14, <1>15, <1>16, StepKeeps, Zenon DEF Good

(* A step that touches neither the jobs nor the runs.                       *)
LEMMA IdleKeeps ==
    ASSUME IInv, NEW p \in Procs, p \in setup.procs, Only(p),
           boot' = boot, configured' = configured, disk' = disk, mem' = mem, dirty' = dirty,
           lag' = lag, active' = active, fired' = fired,
           holder' \in Procs \cup {None},
           phase' \in [Procs -> {"down", "loaded", "running", "closing", "closed"}],
           closed' \in [Procs -> BOOLEAN], stopped' \in [Procs -> BOOLEAN],
           loop' \in [Procs -> [at : {"off", "poll", "sleep", "due"}, t : Nat]],
           wake' \in [Procs -> BOOLEAN],
           Placed(p)', Awake(p)', Serving(p)' => Serving(p)
    PROVE  IInv'
<1>1. TypeOK /\ Stored /\ Placed(p) /\ Kept(p) /\ Owns(p) /\ Capped(p)
  BY Before, Zenon
<1>2. setup' = setup /\ now' = now
  BY Zenon DEF Only
<1>3. TypeOK'
  BY <1>1, <1>2, SameSetup, Zenon DEF TypeOK
<1>4. Stored'
  BY <1>1, <1>2, Zenon DEF Stored, Ordered
<1>5. Kept(p)'
  BY <1>1, <1>2, SameSetup, Zenon DEF Kept, Ordered, Allowed
<1>6. Owns(p)'
  BY <1>1, <1>2, Zenon DEF Owns, Placed
<1>7. Capped(p)'
  BY <1>1, <1>2, SameSetup, Zenon DEF Capped, Running
<1> QED
  BY <1>3, <1>4, <1>5, <1>6, <1>7, StepKeeps, Zenon DEF Good

LEMMA CloseKeeps ==
    ASSUME IInv, NEW p \in Procs, Close(p)
    PROVE  IInv'
<1>1. TypeOK /\ Placed(p)
  BY Before, Zenon
<1>2. /\ phase[p] = "running" /\ phase' = [phase EXCEPT ![p] = "closing"]
      /\ closed' = [closed EXCEPT ![p] = TRUE] /\ stopped' = [stopped EXCEPT ![p] = TRUE]
      /\ wake' = [wake EXCEPT ![p] = TRUE]
      /\ setup' = setup /\ now' = now /\ holder' = holder /\ configured' = configured /\ boot' = boot
      /\ disk' = disk /\ mem' = mem /\ dirty' = dirty /\ active' = active /\ loop' = loop
      /\ lag' = lag /\ fired' = fired
  BY Zenon DEF Close, Signal, world
<1>3. phase'[p] = "closing" /\ closed'[p] = TRUE /\ wake'[p] = TRUE
  BY <1>1, <1>2, Zenon DEF TypeOK
<1>4. p \in setup.procs /\ p \notin Chats /\ holder = p
  BY <1>1, <1>2, Zenon DEF Placed, Serving
<1>5. Only(p)
  BY <1>1, <1>2, Zenon DEF Only, TypeOK
<1>6. /\ holder' \in Procs \cup {None}
      /\ phase' \in [Procs -> {"down", "loaded", "running", "closing", "closed"}]
      /\ closed' \in [Procs -> BOOLEAN] /\ stopped' \in [Procs -> BOOLEAN]
      /\ loop' \in [Procs -> [at : {"off", "poll", "sleep", "due"}, t : Nat]]
      /\ wake' \in [Procs -> BOOLEAN]
  BY <1>1, <1>2, Zenon DEF TypeOK
<1>7. Placed(p)'
  BY <1>1, <1>2, <1>3, <1>4, SameSetup, Zenon DEF Placed, Serving, Reached
<1>8. Awake(p)' /\ Serving(p)
  BY <1>2, <1>3, Zenon DEF Awake, Serving
<1> QED
  BY <1>2, <1>4, <1>5, <1>6, <1>7, <1>8, IdleKeeps, Zenon

(* Close returns when the loop and the runs are over.                       *)
LEMMA CloseReturnsKeeps ==
    ASSUME IInv, NEW p \in Procs, CloseReturns(p)
    PROVE  IInv'
<1>1. TypeOK /\ Placed(p)
  BY Before, Zenon
<1>2. /\ phase[p] = "closing" /\ phase' = [phase EXCEPT ![p] = "closed"]
      /\ loop[p].at = "off" /\ Running(p) = {} /\ holder' = None
      /\ setup' = setup /\ now' = now /\ configured' = configured /\ boot' = boot
      /\ closed' = closed /\ stopped' = stopped
      /\ disk' = disk /\ mem' = mem /\ dirty' = dirty /\ active' = active /\ loop' = loop
      /\ wake' = wake /\ lag' = lag /\ fired' = fired
  BY Zenon DEF CloseReturns
<1>3. phase'[p] = "closed"
  BY <1>1, <1>2, Zenon DEF TypeOK
<1>4. p \in setup.procs /\ p \notin Chats /\ holder = p /\ closed[p]
  BY <1>1, <1>2, Zenon DEF Placed, Serving
<1>5. Only(p)
  BY <1>1, <1>2, <1>4, CronAssumption DEF Only, TypeOK
<1>6. /\ holder' \in Procs \cup {None}
      /\ phase' \in [Procs -> {"down", "loaded", "running", "closing", "closed"}]
      /\ closed' \in [Procs -> BOOLEAN] /\ stopped' \in [Procs -> BOOLEAN]
      /\ loop' \in [Procs -> [at : {"off", "poll", "sleep", "due"}, t : Nat]]
      /\ wake' \in [Procs -> BOOLEAN]
  BY <1>1, <1>2, Zenon DEF TypeOK
<1>7. \A j \in Jobs : active[p][j] = 0
  BY <1>2, Zenon DEF Running
<1>8. Placed(p)'
  BY <1>1, <1>2, <1>3, <1>4, <1>7, SameSetup, CronAssumption, Zenon DEF Placed, Serving, Reached
<1>9. Awake(p)' /\ Serving(p)
  BY <1>2, Zenon DEF Awake, Serving
<1> QED
  BY <1>2, <1>4, <1>5, <1>6, <1>8, <1>9, IdleKeeps, Zenon

-----------------------------------------------------------------------------
(* The loop.                                                                *)

(* A step of the loop that launches nothing.                                *)
LEMMA LoopOnlyKeeps ==
    ASSUME IInv, NEW p \in Procs, loop[p].at # "off",
           NEW x \in [at : {"off", "poll", "sleep", "due"}, t : Nat],
           loop' = [loop EXCEPT ![p] = x], x.at = "due" => x.t <= now,
           wake' \in [Procs -> BOOLEAN], \A q \in Procs \ {p} : wake'[q] = wake[q],
           Awake(p)', UNCHANGED <<setup, world, life, disk, mem, dirty, active, lag, fired>>
    PROVE  IInv'
<1>1. TypeOK /\ Placed(p)
  BY Before, Zenon
<1>2. /\ setup' = setup /\ now' = now /\ holder' = holder /\ phase' = phase
      /\ configured' = configured /\ boot' = boot /\ closed' = closed /\ stopped' = stopped
      /\ disk' = disk /\ mem' = mem /\ dirty' = dirty /\ active' = active
      /\ lag' = lag /\ fired' = fired
  BY Zenon DEF world, life
<1>3. loop'[p] = x
  BY <1>1, Zenon DEF TypeOK
<1>4. p \in setup.procs /\ Serving(p)
  BY <1>1, Zenon DEF Placed, Serving
<1>5. Only(p)
  BY <1>1, <1>2, Zenon DEF Only, TypeOK
<1>6. /\ holder' \in Procs \cup {None}
      /\ phase' \in [Procs -> {"down", "loaded", "running", "closing", "closed"}]
      /\ closed' \in [Procs -> BOOLEAN] /\ stopped' \in [Procs -> BOOLEAN]
      /\ loop' \in [Procs -> [at : {"off", "poll", "sleep", "due"}, t : Nat]]
  BY <1>1, <1>2, Zenon DEF TypeOK
<1>7. Placed(p)'
  BY <1>1, <1>2, <1>3, <1>4, SameSetup, Zenon DEF Placed, Serving, Reached
<1> QED
  BY <1>2, <1>4, <1>5, <1>6, <1>7, IdleKeeps, Zenon

(* The instant nextDelay sleeps to.                                         *)
LEMMA NextWakeFacts ==
    ASSUME TypeOK, NEW p \in Procs
    PROVE  /\ NextWake(p) \in Nat
           /\ NextWake(p) <= now + 1 \/ \A j \in Waiting(p) : NextWake(p) <= mem[p][j].next
<1> DEFINE S == {now + MaxSleep} \cup {mem[p][j].next : j \in Waiting(p)}
<1>1. now \in Nat /\ MaxSleep \in Nat
  BY SetupFacts, Zenon
<1>2. \A j \in Waiting(p) : mem[p][j].next \in Nat
  BY DEF Waiting, TypeOK, JobSet, Job
<1>3. S \in SUBSET Nat /\ S # {}
  BY <1>1, <1>2
<1>4. Min(S) \in Nat /\ \A j \in Waiting(p) : Min(S) <= mem[p][j].next
  <2>1. Min(S) \in S /\ \A y \in S : Min(S) <= y
    BY <1>3, MinFacts, Zenon
  <2> QED
    BY <1>3, <2>1, Zenon
<1>5. NextWake(p) = now + 1 \/ NextWake(p) = Min(S)
  BY Zenon DEF NextWake
<1> HIDE DEF S
<1> QED
  BY <1>1, <1>4, <1>5

LEMMA LoopWaits ==
    ASSUME IInv, NEW p \in Procs, NextDelay(p) \/ LoopStops(p) \/ LoopWoken(p) \/ TimerFires(p)
    PROVE  IInv'
<1>1. TypeOK /\ now \in Nat
  BY Before, SetupFacts, Zenon
<1>2. loop \in [Procs -> [at : {"off", "poll", "sleep", "due"}, t : Nat]] /\ wake \in [Procs -> BOOLEAN]
  BY <1>1, Zenon DEF TypeOK
<1>3. CASE NextDelay(p)
  <2> DEFINE x == [at |-> "sleep", t |-> NextWake(p)]
  <2>1. /\ loop[p].at = "poll" /\ loop' = [loop EXCEPT ![p] = x] /\ wake' = wake
        /\ UNCHANGED <<setup, world, life, disk, mem, dirty, active, lag, fired>>
    BY <1>3, Zenon DEF NextDelay
  <2>2. /\ NextWake(p) \in Nat
        /\ NextWake(p) <= now + 1 \/ \A j \in Waiting(p) : NextWake(p) <= mem[p][j].next
    BY <1>1, NextWakeFacts, Zenon
  <2>3. x \in [at : {"off", "poll", "sleep", "due"}, t : Nat] /\ x.at # "due"
    BY <2>2, Zenon
  <2>4. Awake(p)'
    <3>1. loop'[p].t = NextWake(p) /\ now' = now /\ mem' = mem /\ active' = active
      BY <1>2, <2>1, Zenon DEF world
    <3>2. Waiting(p)' = Waiting(p)
      BY <3>1, Zenon DEF Waiting
    <3> QED
      BY <2>2, <3>1, <3>2, Zenon DEF Awake
  <2> HIDE DEF x
  <2>5. loop[p].at # "off"
    BY <2>1, Zenon
  <2> QED
    BY <1>2, <2>1, <2>3, <2>4, <2>5, LoopOnlyKeeps, Zenon
<1>4. CASE LoopStops(p)
  <2> DEFINE x == [at |-> "off", t |-> 0]
  <2>1. /\ loop[p].at = "sleep" /\ loop' = [loop EXCEPT ![p] = x] /\ wake' = wake
        /\ UNCHANGED <<setup, world, life, disk, mem, dirty, active, lag, fired>>
    BY <1>4, Zenon DEF LoopStops
  <2>2. x \in [at : {"off", "poll", "sleep", "due"}, t : Nat] /\ x.at # "due" /\ loop[p].at # "off"
    BY <2>1, Zenon
  <2>3. Awake(p)'
    BY <1>2, <2>1, Zenon DEF Awake
  <2> HIDE DEF x
  <2> QED
    BY <1>2, <2>1, <2>2, <2>3, LoopOnlyKeeps, Zenon
<1>5. CASE LoopWoken(p)
  <2> DEFINE x == [at |-> "poll", t |-> 0]
  <2>1. /\ loop[p].at = "sleep" /\ loop' = [loop EXCEPT ![p] = x] /\ wake' = [wake EXCEPT ![p] = FALSE]
        /\ UNCHANGED <<setup, world, life, disk, mem, dirty, active, lag, fired>>
    BY <1>5, Zenon DEF LoopWoken
  <2>2. x \in [at : {"off", "poll", "sleep", "due"}, t : Nat] /\ x.at # "due" /\ loop[p].at # "off"
    BY <2>1, Zenon
  <2>3. Awake(p)'
    BY <1>2, <2>1, Zenon DEF Awake
  <2>4. wake' \in [Procs -> BOOLEAN] /\ \A q \in Procs \ {p} : wake'[q] = wake[q]
    BY <1>2, <2>1, Zenon
  <2> HIDE DEF x
  <2> QED
    BY <2>1, <2>2, <2>3, <2>4, LoopOnlyKeeps, Zenon
<1>6. CASE TimerFires(p)
  <2> DEFINE x == [at |-> "due", t |-> now]
  <2>1. /\ loop[p].at = "sleep" /\ loop' = [loop EXCEPT ![p] = x] /\ wake' = wake
        /\ UNCHANGED <<setup, world, life, disk, mem, dirty, active, lag, fired>>
    BY <1>6, Zenon DEF TimerFires
  <2>2. x \in [at : {"off", "poll", "sleep", "due"}, t : Nat] /\ x.t <= now /\ loop[p].at # "off"
    BY <1>1, <2>1
  <2>3. Awake(p)'
    BY <1>2, <2>1, Zenon DEF Awake
  <2> HIDE DEF x
  <2> QED
    BY <1>2, <2>1, <2>2, <2>3, LoopOnlyKeeps, Zenon
<1> QED
  BY <1>3, <1>4, <1>5, <1>6, Zenon

(* Launching: what was unsaved is saved first, and there is room.           *)
LEMMA LaunchKeeps ==
    ASSUME IInv, NEW p \in Procs, Reached(p), setup' = setup, Flush(p),
           NEW some \in SUBSET Jobs, Cardinality(Running(p)) + Cardinality(some) <= MaxConcurrent,
           active' \in [Procs -> [Jobs -> Nat]], \A q \in Procs \ {p} : active'[q] = active[q],
           \A j \in Jobs : \/ active'[p][j] = active[p][j]
                           \/ j \in some /\ active'[p][j] # 0 /\ active'[p][j] <= now /\ mem[p][j] # None,
           loop' \in [Procs -> [at : {"off", "poll", "sleep", "due"}, t : Nat]],
           \A q \in Procs \ {p} : loop'[q] = loop[q],
           loop'[p] = loop[p] \/ (loop'[p].at = "poll" /\ Serving(p)),
           fired' \in [Jobs -> SUBSET Nat], UNCHANGED <<world, life, wake>>
    PROVE  IInv'
<1>1. TypeOK /\ Placed(p) /\ Kept(p) /\ Owns(p) /\ Awake(p) /\ Capped(p)
  BY Before, Zenon
<1>2. /\ now' = now /\ holder' = holder /\ phase' = phase /\ configured' = configured
      /\ boot' = boot /\ closed' = closed /\ stopped' = stopped /\ wake' = wake
  BY Zenon DEF world, life
<1>3. /\ mem' = mem /\ dirty'[p] = FALSE
      /\ disk' = mem[p] \/ (disk' = disk /\ ~dirty[p])
      /\ \A j \in Jobs : lag'[p][j] = 0
      /\ \A q \in Procs \ {p} : dirty'[q] = dirty[q] /\ lag'[q] = lag[q]
      /\ disk' \in [Jobs -> JobSet'] /\ mem' \in [Procs -> [Jobs -> JobSet']]
      /\ dirty' \in [Procs -> BOOLEAN] /\ lag' \in [Procs -> [Jobs -> Nat]]
  BY FlushFacts, Zenon
<1>4. p \in setup.procs
  BY <1>1, SetupFacts, Zenon DEF Placed, Reached, Serving
<1>5. Only(p)
  BY <1>2, <1>3, Zenon DEF Only
<1>6. TypeOK'
  BY <1>1, <1>2, <1>3, SameSetup, Zenon DEF TypeOK
<1>7. Stored'
  BY <1>2, <1>3, FlushStored, Zenon
<1>8. Placed(p)'
  <2>1. Reached(p)' /\ Serving(p)' = Serving(p)
    BY <1>2, SameSetup, Zenon DEF Reached, Serving
  <2>2. loop'[p].at # "off" => Serving(p)
    BY <1>1, Zenon DEF Placed
  <2>3. loop'[p].at = "due" => loop'[p].t <= now
    BY <1>1, Zenon DEF Placed
  <2> QED
    BY <1>1, <1>2, <2>1, <2>2, <2>3, SameSetup, Zenon DEF Placed
<1>9. Kept(p)'
  <2> SUFFICES ASSUME NEW j \in Jobs
               PROVE  /\ active'[p][j] # 0 => active'[p][j] <= now /\ mem[p][j] \in Job /\ lag'[p][j] = 0
                      /\ lag'[p][j] <= 1 /\ (lag'[p][j] # 0 => dirty'[p])
                      /\ mem[p][j] # None =>
                            Ordered(mem[p][j], now) /\ (Serving(p) => Allowed(j, mem[p][j], boot[p]))
    BY <1>2, <1>3, KeptNext, Zenon
  <2>1. mem[p][j] \in JobSet
    BY <1>1, Cells, Zenon
  <2>2. lag'[p][j] = 0
    BY <1>3, Zenon
  <2>3. active'[p][j] # 0 => active'[p][j] <= now /\ mem[p][j] \in Job
    BY <1>1, <2>1, Zenon DEF Kept, JobSet
  <2> QED
    BY <1>1, <2>2, <2>3 DEF Kept
<1>10. Owns(p)'
  BY <1>1, <1>2, <1>3, Zenon DEF Owns
<1>11. Awake(p)'
  <2> SUFFICES ASSUME loop'[p].at = "sleep", ~wake[p], NEW j \in Waiting(p)'
               PROVE  loop'[p].t <= mem[p][j].next \/ loop'[p].t <= now + 1
    BY <1>2, <1>3, Zenon DEF Awake
  <2>1. j \in Waiting(p)
    BY <1>3, Zenon DEF Waiting
  <2>2. loop'[p] = loop[p]
    BY Zenon
  <2> QED
    BY <1>1, <2>1, <2>2, Zenon DEF Awake
<1>12. Capped(p)'
  <2>1. Running(p)' \subseteq Running(p) \cup some /\ Running(p) \in SUBSET Jobs
    BY Zenon DEF Running
  <2>2. Cardinality(Running(p)') <= Cardinality(Running(p)) + Cardinality(some)
    BY <2>1, UnionBound, Zenon
  <2>3. /\ Cardinality(Running(p)) \in Nat /\ Cardinality(some) \in Nat /\ Cardinality(Running(p)') \in Nat
        /\ MaxConcurrent \in Nat /\ MaxConcurrent' = MaxConcurrent
    BY <1>1, <2>1, JobSets, SetupFacts, SameSetup, Zenon
  <2> QED
    BY <2>2, <2>3 DEF Capped
<1> QED
  BY <1>4, <1>5, <1>6, <1>7, <1>8, <1>9, <1>10, <1>11, <1>12, StepKeeps, Zenon DEF Good

(* The jobs the loop picks are due and leave room for none too many.        *)
LEMMA PickedFacts ==
    ASSUME TypeOK, NEW p \in Procs, Capped(p), NEW t \in Nat, NEW some \in Picked(p, Due(p, t))
    PROVE  /\ some \in SUBSET Jobs
           /\ \A j \in some : /\ mem[p][j] # None /\ mem[p][j] \in Job /\ mem[p][j].on
                              /\ mem[p][j].next # 0 /\ mem[p][j].next <= t /\ active[p][j] = 0
           /\ Cardinality(Running(p)) + Cardinality(some) <= MaxConcurrent
<1>1. some \in SUBSET Due(p, t)
  BY Zenon DEF Picked
<1>2. \A j \in some : j \in Jobs /\ mem[p][j] # None /\ mem[p][j].on /\ mem[p][j].next # 0
                      /\ mem[p][j].next <= t /\ active[p][j] = 0
  BY <1>1, Zenon DEF Due, Waiting
<1>3. \A j \in some : mem[p][j] \in Job
  BY <1>2, Cells, Zenon
<1>4. /\ Cardinality(Running(p)) \in Nat /\ Cardinality(some) \in Nat /\ Cardinality(Due(p, t)) \in Nat
      /\ MaxConcurrent \in Nat
  <2>1. Running(p) \in SUBSET Jobs /\ some \in SUBSET Jobs /\ Due(p, t) \in SUBSET Jobs
    BY <1>2, Zenon DEF Running, Due, Waiting
  <2> QED
    BY <2>1, JobSets, SetupFacts, Zenon
<1> DEFINE room == IF Cardinality(Running(p)) < MaxConcurrent THEN MaxConcurrent - Cardinality(Running(p)) ELSE 0
<1>5. Cardinality(some) = IF Cardinality(Due(p, t)) <= room THEN Cardinality(Due(p, t)) ELSE room
  BY Zenon DEF Picked
<1>6. Cardinality(Running(p)) <= MaxConcurrent
  BY Zenon DEF Capped
<1>7. Cardinality(Running(p)) + Cardinality(some) <= MaxConcurrent
  BY <1>4, <1>5, <1>6
<1> QED
  BY <1>2, <1>3, <1>7, Zenon

(* Launching some jobs for their next runs.                                 *)
LEMMA LaunchDue ==
    ASSUME TypeOK, NEW p \in Procs, NEW some \in SUBSET Jobs, \A j \in some : mem[p][j].next \in Nat,
           Launch(p, [j \in some |-> mem[p][j].next])
    PROVE  /\ active' \in [Procs -> [Jobs -> Nat]] /\ \A q \in Procs \ {p} : active'[q] = active[q]
           /\ \A j \in Jobs : active'[p][j] = IF j \in some THEN mem[p][j].next ELSE active[p][j]
<1>1. active \in [Procs -> [Jobs -> Nat]]
  BY Zenon DEF TypeOK
<1> QED
  BY <1>1 DEF Launch

(* What the loop launches, for the invariant and for LaunchesRight.         *)
LEMMA DispatchKeeps ==
    ASSUME IInv, NEW p \in Procs, DispatchDue(p)
    PROVE  IInv'
<1>1. TypeOK /\ Placed(p) /\ Capped(p)
  BY Before, Zenon
<1> DEFINE x == [at |-> "poll", t |-> 0]
<1>2. loop[p].at = "due" /\ loop' = [loop EXCEPT ![p] = x]
      /\ setup' = setup /\ UNCHANGED <<world, life, wake>>
  BY Zenon DEF DispatchDue
<1>3. /\ Serving(p) /\ loop[p].t <= now /\ loop[p].t \in Nat /\ now \in Nat
      /\ loop \in [Procs -> [at : {"off", "poll", "sleep", "due"}, t : Nat]]
  BY <1>1, <1>2, SetupFacts, Zenon DEF Placed, TypeOK
<1>4. x \in [at : {"off", "poll", "sleep", "due"}, t : Nat] /\ x.at = "poll"
  BY Zenon
<1> HIDE DEF x
<1>5. loop' \in [Procs -> [at : {"off", "poll", "sleep", "due"}, t : Nat]] /\ loop'[p] = x
      /\ \A q \in Procs \ {p} : loop'[q] = loop[q]
  BY <1>2, <1>3, <1>4, Zenon
<1>6. CASE Flush(p) /\ \E some \in Picked(p, Due(p, loop[p].t)) :
                /\ Launch(p, [j \in some |-> mem[p][j].next])
                /\ fired' = [j \in Jobs |-> IF j \in some THEN fired[j] \cup {mem[p][j].next} ELSE fired[j]]
  <2>1. PICK some \in Picked(p, Due(p, loop[p].t)) :
                /\ Launch(p, [j \in some |-> mem[p][j].next])
                /\ fired' = [j \in Jobs |-> IF j \in some THEN fired[j] \cup {mem[p][j].next} ELSE fired[j]]
    BY <1>6, Zenon
  <2>2. /\ some \in SUBSET Jobs
        /\ \A j \in some : /\ mem[p][j] # None /\ mem[p][j] \in Job /\ mem[p][j].on
                           /\ mem[p][j].next # 0 /\ mem[p][j].next <= loop[p].t /\ active[p][j] = 0
        /\ Cardinality(Running(p)) + Cardinality(some) <= MaxConcurrent
    BY <1>1, <1>3, PickedFacts, ZenonT(30)
  <2>3. \A j \in some : mem[p][j].next \in Nat
    BY <2>2, Zenon DEF Job
  <2>4. Launch(p, [j \in some |-> mem[p][j].next])
    BY <2>1, Zenon
  <2>5. /\ active' \in [Procs -> [Jobs -> Nat]] /\ \A q \in Procs \ {p} : active'[q] = active[q]
        /\ \A j \in Jobs : active'[p][j] = IF j \in some THEN mem[p][j].next ELSE active[p][j]
    BY <1>1, <2>2, <2>3, <2>4, LaunchDue, Zenon
  <2>6. fired' \in [Jobs -> SUBSET Nat]
    <3>1. fired \in [Jobs -> SUBSET Nat]
      BY <1>1, Zenon DEF TypeOK
    <3> QED
      BY <2>1, <2>3, <3>1
  <2>7. \A j \in Jobs : \/ active'[p][j] = active[p][j]
                        \/ j \in some /\ active'[p][j] # 0 /\ active'[p][j] <= now /\ mem[p][j] # None
    BY <1>3, <2>2, <2>3, <2>5
  <2>8. Reached(p)
    BY <1>3, Zenon DEF Reached
  <2> QED
    BY <1>2, <1>3, <1>4, <1>5, <1>6, <2>2, <2>5, <2>6, <2>7, <2>8, LaunchKeeps, ZenonT(30)
<1>7. CASE UNCHANGED <<disk, mem, dirty, active, lag, fired>>
  <2>1. Awake(p)'
    BY <1>4, <1>5, Zenon DEF Awake
  <2>2. /\ loop[p].at # "off" /\ wake' \in [Procs -> BOOLEAN] /\ \A q \in Procs \ {p} : wake'[q] = wake[q]
        /\ x.at # "due"
    BY <1>1, <1>2, <1>4, Zenon DEF TypeOK
  <2> QED
    BY <1>2, <1>4, <1>7, <2>1, <2>2, LoopOnlyKeeps, Zenon
<1> QED
  BY <1>6, <1>7, Zenon DEF DispatchDue, FlushFails

-----------------------------------------------------------------------------
(* The ends of runs, and the operations.                                    *)

(* A save of jobs that are all in order.                                    *)
LEMMA SavedKeeps ==
    ASSUME IInv, NEW p \in Procs, p \in setup.procs,
           NEW jobs \in [Jobs -> JobSet], Save(p, jobs),
           \A j \in Jobs : jobs[j] # None =>
                Ordered(jobs[j], now) /\ (Serving(p) => Allowed(j, jobs[j], boot[p])),
           active' \in [Procs -> [Jobs -> Nat]], \A q \in Procs \ {p} : active'[q] = active[q],
           \A j \in Jobs : active'[p][j] # 0 => active'[p][j] = active[p][j] /\ jobs[j] \in Job,
           wake' = [wake EXCEPT ![p] = TRUE], configured' \in [Procs -> SUBSET Jobs],
           setup' = setup, now' = now, holder' = holder, phase' = phase, boot' = boot, closed' = closed,
           stopped' = stopped, loop' = loop, fired' = fired
    PROVE  IInv'
<1>1. TypeOK /\ Placed(p) /\ Kept(p) /\ Capped(p)
  BY Before, Zenon
<1>2. /\ disk' = jobs /\ mem'[p] = jobs /\ dirty'[p] = FALSE
      /\ \A j \in Jobs : lag'[p][j] = 0
      /\ \A q \in Procs \ {p} : mem'[q] = mem[q] /\ dirty'[q] = dirty[q] /\ lag'[q] = lag[q]
      /\ disk' \in [Jobs -> JobSet'] /\ mem' \in [Procs -> [Jobs -> JobSet']]
      /\ dirty' \in [Procs -> BOOLEAN] /\ lag' \in [Procs -> [Jobs -> Nat]]
  BY <1>1, SaveFacts, Zenon
<1>3. wake'[p] = TRUE /\ wake' \in [Procs -> BOOLEAN] /\ \A q \in Procs \ {p} : wake'[q] = wake[q]
  BY <1>1, Zenon DEF TypeOK
<1>4. Only(p)
  BY <1>2, <1>3, Zenon DEF Only
<1>5. TypeOK'
  BY <1>1, <1>2, <1>3, SameSetup, Zenon DEF TypeOK
<1>6. Stored'
  BY <1>2, Zenon DEF Stored, Ordered
<1>7. Placed(p)'
  <2>1. Reached(p)' = Reached(p) /\ Serving(p)' = Serving(p)
    BY SameSetup, Zenon DEF Reached, Serving
  <2>2. ~Reached(p) => \A j \in Jobs : active'[p][j] = 0
    BY <1>1, Zenon DEF Placed
  <2> QED
    BY <1>1, <2>1, <2>2, SameSetup, Zenon DEF Placed
<1>8. Kept(p)'
  <2> SUFFICES ASSUME NEW j \in Jobs
               PROVE  /\ active'[p][j] # 0 => active'[p][j] <= now /\ jobs[j] \in Job /\ lag'[p][j] = 0
                      /\ lag'[p][j] <= 1 /\ (lag'[p][j] # 0 => dirty'[p])
                      /\ jobs[j] # None =>
                            Ordered(jobs[j], now) /\ (Serving(p) => Allowed(j, jobs[j], boot[p]))
    BY <1>2, KeptNext, Zenon
  <2>1. lag'[p][j] = 0
    BY <1>2, Zenon
  <2>2. active'[p][j] # 0 => active'[p][j] <= now /\ jobs[j] \in Job
    BY <1>1, Zenon DEF Kept
  <2> QED
    BY <2>1, <2>2
<1>9. Owns(p)' /\ Awake(p)'
  BY <1>2, <1>3, Zenon DEF Owns, Awake
<1>10. Capped(p)'
  BY <1>1, FewerRun, Zenon
<1> QED
  BY <1>4, <1>5, <1>6, <1>7, <1>8, <1>9, <1>10, StepKeeps, Zenon DEF Good

(* The jobs of a process with one of them replaced.                         *)
LEMMA ReplacedFacts ==
    ASSUME IInv, NEW p \in Procs, NEW j \in Jobs, NEW x \in JobSet,
           x # None => x \in Job /\ Current(x, now),
           NEW jobs, jobs = [mem[p] EXCEPT ![j] = x]
    PROVE  /\ jobs \in [Jobs -> JobSet] /\ jobs[j] = x
           /\ \A k \in Jobs \ {j} : jobs[k] = mem[p][k]
           /\ \A k \in Jobs : jobs[k] # None =>
                Ordered(jobs[k], now) /\ (Serving(p) => Allowed(k, jobs[k], boot[p]))
<1>1. TypeOK /\ Placed(p) /\ Kept(p)
  BY Before, Zenon
<1>2. jobs \in [Jobs -> JobSet] /\ jobs[j] = x /\ \A k \in Jobs \ {j} : jobs[k] = mem[p][k]
  BY <1>1, Zenon DEF TypeOK
<1>3. boot[p] \in Nat /\ boot[p] <= now /\ now \in Nat
  BY <1>1, SetupFacts, Zenon DEF TypeOK, Placed
<1>4. x # None => Ordered(x, now) /\ Allowed(j, x, boot[p])
  BY <1>3, CurrentFacts, Zenon
<1>5. \A k \in Jobs \ {j} : jobs[k] # None =>
            Ordered(jobs[k], now) /\ (Serving(p) => Allowed(k, jobs[k], boot[p]))
  BY <1>1, <1>2, Zenon DEF Kept
<1> QED
  BY <1>2, <1>4, <1>5, Zenon

(* An operation that leaves every running job in the store.                 *)
LEMMA MutateKeeps ==
    ASSUME IInv, NEW p \in Procs, Reached(p), NEW j \in Jobs, NEW x \in JobSet,
           x # None => x \in Job /\ Current(x, now), x \in Job \/ active[p][j] = 0,
           Mutate(p, [mem[p] EXCEPT ![j] = x])
    PROVE  IInv'
<1> DEFINE jobs == [mem[p] EXCEPT ![j] = x]
<1>1. TypeOK /\ Placed(p) /\ Kept(p) /\ Awake(p)
  BY Before, Zenon
<1>2. /\ setup' = setup /\ now' = now /\ holder' = holder /\ phase' = phase /\ configured' = configured
      /\ boot' = boot /\ closed' = closed /\ stopped' = stopped /\ active' = active /\ loop' = loop
      /\ fired' = fired
  BY Zenon DEF Mutate, world, life
<1>3. p \in setup.procs
  BY <1>1, SetupFacts, Zenon DEF Placed, Reached, Serving
<1>4. /\ jobs \in [Jobs -> JobSet] /\ jobs[j] = x
      /\ \A k \in Jobs \ {j} : jobs[k] = mem[p][k]
      /\ \A k \in Jobs : jobs[k] # None =>
            Ordered(jobs[k], now) /\ (Serving(p) => Allowed(k, jobs[k], boot[p]))
  BY ReplacedFacts, Zenon
<1>5. Mutate(p, jobs)
  BY Zenon
<1> HIDE DEF jobs
<1>7. CASE Save(p, jobs) /\ Signal(p)
  <2>1. active' \in [Procs -> [Jobs -> Nat]] /\ configured' \in [Procs -> SUBSET Jobs]
    BY <1>1, <1>2, Zenon DEF TypeOK
  <2>2. \A k \in Jobs : active'[p][k] # 0 => active'[p][k] = active[p][k] /\ jobs[k] \in Job
    BY <1>1, <1>2, <1>4, Zenon DEF Kept
  <2>3. Save(p, jobs) /\ wake' = [wake EXCEPT ![p] = TRUE]
    BY <1>7, Zenon DEF Signal
  <2> QED
    BY <1>2, <1>3, <1>4, <2>1, <2>2, <2>3, SavedKeeps, Zenon
<1>8. CASE RollBack(p) /\ UNCHANGED wake
  BY <1>2, <1>3, <1>8, UnchangedKeeps, Zenon DEF RollBack
<1> QED
  BY <1>5, <1>7, <1>8, Zenon DEF Mutate

LEMMA AddKeeps ==
    ASSUME IInv, NEW p \in Procs, NEW j \in Jobs, NEW s \in Schedules, AddJob(p, j, s)
    PROVE  IInv'
<1>1. TypeOK /\ now \in Nat /\ s \in ScheduleSet
  BY Before, SetupFacts, Zenon DEF ScheduleSet
<1>2. Reached(p) /\ Mutate(p, [mem[p] EXCEPT ![j] = NewJob(s, now)])
  BY Zenon DEF AddJob, Reached
<1>3. NewJob(s, now) \in Job /\ NewJob(s, now) \in JobSet /\ Current(NewJob(s, now), now)
  BY <1>1, NewJobCurrent, Zenon DEF JobSet
<1> QED
  BY <1>2, <1>3, MutateKeeps, Zenon

(* A job with its state, schedule and next run changed.                     *)
LEMMA ChangedFacts ==
    ASSUME IInv, NEW p \in Procs, NEW j \in Jobs, mem[p][j] # None,
           NEW on \in BOOLEAN, NEW s \in ScheduleSet, NEW next \in Nat, next = 0 \/ next > now,
           NEW x, x = [on |-> on, sched |-> s, next |-> next, last |-> mem[p][j].last]
    PROVE  x \in Job /\ x \in JobSet /\ Current(x, now)
<1>1. mem[p][j] \in Job /\ Ordered(mem[p][j], now)
  BY Before DEF TypeOK, JobSet, Kept
<1> QED
  BY <1>1, Zenon DEF Job, JobSet, Current, Ordered

LEMMA SetEnabledKeeps ==
    ASSUME IInv, NEW p \in Procs, NEW j \in Jobs, NEW on \in BOOLEAN, SetEnabled(p, j, on)
    PROVE  IInv'
<1>1. TypeOK /\ now \in Nat
  BY Before, SetupFacts, Zenon
<1> DEFINE next == IF on THEN NextRun(mem[p][j].sched, now) ELSE 0
           x == [on |-> on, sched |-> mem[p][j].sched, next |-> next, last |-> mem[p][j].last]
           jobs == [mem[p] EXCEPT ![j].on = on, ![j].next = next]
<1>2. Reached(p) /\ mem[p][j] # None /\ Mutate(p, jobs)
  BY Zenon DEF SetEnabled, Editable
<1>3. mem[p] \in [Jobs -> JobSet] /\ mem[p][j] \in Job
  BY <1>1, <1>2 DEF TypeOK, JobSet
<1>4. mem[p][j].sched \in ScheduleSet
  BY <1>3, Zenon DEF Job
<1>5. next \in Nat /\ (next = 0 \/ next > now)
  BY <1>1, <1>4, NextRunLater, Zenon
<1> HIDE DEF next
<1>6. jobs = [mem[p] EXCEPT ![j] = x]
  BY <1>3 DEF Job
<1> HIDE DEF x, jobs
<1>7. x \in Job /\ x \in JobSet /\ Current(x, now)
  BY <1>2, <1>4, <1>5, ChangedFacts, Zenon DEF x
<1> QED
  BY <1>2, <1>6, <1>7, MutateKeeps, Zenon

LEMMA RescheduleKeeps ==
    ASSUME IInv, NEW p \in Procs, NEW j \in Jobs, NEW s \in Schedules, Reschedule(p, j, s)
    PROVE  IInv'
<1>1. TypeOK /\ now \in Nat /\ s \in ScheduleSet
  BY Before, SetupFacts, Zenon DEF ScheduleSet
<1> DEFINE next == IF mem[p][j].on THEN NextRun(s, now) ELSE 0
           x == [on |-> mem[p][j].on, sched |-> s, next |-> next, last |-> mem[p][j].last]
           jobs == [mem[p] EXCEPT ![j].sched = s, ![j].next = next]
<1>2. Reached(p) /\ mem[p][j] # None /\ Mutate(p, jobs)
  BY Zenon DEF Reschedule, Editable, Reached
<1>3. mem[p] \in [Jobs -> JobSet] /\ mem[p][j] \in Job
  BY <1>1, <1>2 DEF TypeOK, JobSet
<1>4. mem[p][j].on \in BOOLEAN
  BY <1>3, Zenon DEF Job
<1>5. next \in Nat /\ (next = 0 \/ next > now)
  BY <1>1, NextRunLater, Zenon
<1> HIDE DEF next
<1>6. jobs = [mem[p] EXCEPT ![j] = x]
  BY <1>3 DEF Job
<1> HIDE DEF x, jobs
<1>7. x \in Job /\ x \in JobSet /\ Current(x, now)
  BY <1>1, <1>2, <1>4, <1>5, ChangedFacts, Zenon DEF x
<1> QED
  BY <1>2, <1>6, <1>7, MutateKeeps, Zenon

LEMMA RemoveKeeps ==
    ASSUME IInv, NEW p \in Procs, NEW j \in Jobs, RemoveJob(p, j)
    PROVE  IInv'
<1>1. Reached(p) /\ active[p][j] = 0 /\ Mutate(p, [mem[p] EXCEPT ![j] = None])
  BY Zenon DEF RemoveJob, Reached
<1>2. None \in JobSet
  BY Zenon DEF JobSet
<1> QED
  BY <1>1, <1>2, MutateKeeps, Zenon

(* A system job is given its schedule afresh before the scheduler starts.   *)
LEMMA UpsertKeeps ==
    ASSUME IInv, NEW p \in Procs, NEW j \in Jobs, UpsertSystemJob(p, j)
    PROVE  IInv'
<1>1. TypeOK /\ Placed(p) /\ Kept(p) /\ now \in Nat /\ SystemSchedule \in ScheduleSet
  BY Before, SetupFacts, Zenon DEF ScheduleSet
<1> DEFINE last == IF mem[p][j] = None THEN 0 ELSE mem[p][j].last
           x == [NewJob(SystemSchedule, now) EXCEPT !.last = last]
           jobs == [mem[p] EXCEPT ![j] = x]
<1>2. /\ phase[p] = "loaded" /\ p \notin Chats /\ Save(p, jobs)
      /\ wake' = [wake EXCEPT ![p] = TRUE] /\ configured' = [configured EXCEPT ![p] = @ \cup {j}]
      /\ setup' = setup /\ now' = now /\ holder' = holder /\ phase' = phase /\ boot' = boot
      /\ closed' = closed /\ stopped' = stopped /\ active' = active /\ loop' = loop /\ fired' = fired
  BY Zenon DEF UpsertSystemJob, Signal, world
<1>3. p \in setup.procs /\ ~Serving(p) /\ \A k \in Jobs : active[p][k] = 0
  BY <1>1, <1>2, Zenon DEF Placed, Serving, Reached
<1>4. last \in Nat /\ last <= now
  <2>1. CASE mem[p][j] = None
    BY <1>1, <2>1
  <2>2. CASE mem[p][j] # None
    BY <1>1, <2>2 DEF TypeOK, JobSet, Job, Kept, Ordered
  <2> QED
    BY <2>1, <2>2, Zenon
<1> HIDE DEF last
<1>5. x \in Job /\ x \in JobSet /\ Current(x, now)
  <2>1. NewJob(SystemSchedule, now) \in Job /\ Current(NewJob(SystemSchedule, now), now)
    BY <1>1, NewJobCurrent, Zenon
  <2> QED
    BY <1>4, <2>1, Zenon DEF Job, JobSet, Current
<1> HIDE DEF x
<1>6. /\ jobs \in [Jobs -> JobSet] /\ jobs[j] = x
      /\ \A k \in Jobs \ {j} : jobs[k] = mem[p][k]
      /\ \A k \in Jobs : jobs[k] # None =>
            Ordered(jobs[k], now) /\ (Serving(p) => Allowed(k, jobs[k], boot[p]))
  BY <1>5, ReplacedFacts, Zenon
<1> HIDE DEF jobs
<1>7. /\ active' \in [Procs -> [Jobs -> Nat]] /\ configured' \in [Procs -> SUBSET Jobs]
      /\ \A k \in Jobs : active'[p][k] = 0
  BY <1>1, <1>2, <1>3, Zenon DEF TypeOK
<1> QED
  BY <1>2, <1>3, <1>6, <1>7, SavedKeeps, Zenon

(* A run that ends moves its job on, whether the save succeeds or not: the  *)
(* one that is not saved is the only one of its job.                        *)
LEMMA RunEndsKeeps ==
    ASSUME IInv, NEW p \in Procs, NEW j \in Jobs, RunEnds(p, j)
    PROVE  IInv'
<1>1. TypeOK /\ Stored /\ Placed(p) /\ Kept(p) /\ Capped(p) /\ now \in Nat
  BY Before, SetupFacts, Zenon
<1> DEFINE x == AfterRun(j, mem[p][j], now, active[p][j])
           jobs == [mem[p] EXCEPT ![j] = x]
<1>2. /\ active[p][j] # 0 /\ Launch(p, [k \in {j} |-> 0])
      /\ wake' = [wake EXCEPT ![p] = TRUE]
      /\ setup' = setup /\ now' = now /\ holder' = holder /\ phase' = phase /\ configured' = configured
      /\ boot' = boot /\ closed' = closed /\ stopped' = stopped /\ loop' = loop /\ fired' = fired
  BY Zenon DEF RunEnds, Signal, world, life
<1>3. \/ Save(p, jobs)
      \/ /\ mem' = [mem EXCEPT ![p] = jobs] /\ dirty' = [dirty EXCEPT ![p] = TRUE]
         /\ lag' = [lag EXCEPT ![p][j] = @ + 1] /\ disk' = disk
  BY <1>1, Zenon DEF RunEnds, TypeOK
<1>4. /\ active' \in [Procs -> [Jobs -> Nat]] /\ \A q \in Procs \ {p} : active'[q] = active[q]
      /\ \A k \in Jobs : active'[p][k] = IF k = j THEN 0 ELSE active[p][k]
  <2>1. active \in [Procs -> [Jobs -> Nat]] /\ Launch(p, [k \in {j} |-> 0])
    BY <1>1, <1>2, Zenon DEF TypeOK
  <2> QED
    BY <2>1 DEF Launch
<1>5. mem[p][j] \in Job /\ active[p][j] <= now /\ active[p][j] \in Nat /\ lag[p][j] = 0
  BY <1>1, <1>2, Cells, Zenon DEF Kept
<1>6. x \in JobSet /\ (x # None => x \in Job /\ Current(x, now))
  BY <1>1, <1>5, AfterRunFacts, Zenon
<1> HIDE DEF x
<1>7. /\ jobs \in [Jobs -> JobSet] /\ jobs[j] = x
      /\ \A k \in Jobs \ {j} : jobs[k] = mem[p][k]
      /\ \A k \in Jobs : jobs[k] # None =>
            Ordered(jobs[k], now) /\ (Serving(p) => Allowed(k, jobs[k], boot[p]))
  BY <1>6, ReplacedFacts, Zenon
<1> HIDE DEF jobs
<1>8. p \in setup.procs
  BY <1>1, <1>2, SetupFacts, Zenon DEF Placed, Reached, Serving
<1>9. /\ configured' \in [Procs -> SUBSET Jobs]
      /\ \A k \in Jobs : active'[p][k] # 0 => active'[p][k] = active[p][k] /\ jobs[k] \in Job
  BY <1>1, <1>2, <1>4, <1>7, Zenon DEF Kept, TypeOK
<1>10. CASE Save(p, jobs)
  BY <1>2, <1>4, <1>7, <1>8, <1>9, <1>10, SavedKeeps, Zenon
<1>11. CASE /\ mem' = [mem EXCEPT ![p] = jobs] /\ dirty' = [dirty EXCEPT ![p] = TRUE]
            /\ lag' = [lag EXCEPT ![p][j] = @ + 1] /\ disk' = disk
  <2>1. mem'[p] = jobs /\ dirty'[p] = TRUE /\ wake'[p] = TRUE
    BY <1>1, <1>2, <1>11, Zenon DEF TypeOK
  <2>2. lag' \in [Procs -> [Jobs -> Nat]] /\ lag'[p][j] = 1 /\ \A k \in Jobs \ {j} : lag'[p][k] = lag[p][k]
    BY <1>1, <1>5, <1>11 DEF TypeOK
  <2>3. /\ mem' \in [Procs -> [Jobs -> JobSet]] /\ dirty' \in [Procs -> BOOLEAN] /\ wake' \in [Procs -> BOOLEAN]
    BY <1>1, <1>2, <1>7, <1>11, Zenon DEF TypeOK
  <2>4. Only(p)
    BY <1>1, <1>2, <1>4, <1>11, Zenon DEF Only, TypeOK
  <2>5. TypeOK'
    BY <1>1, <1>2, <1>4, <1>11, <2>2, <2>3, SameSetup, Zenon DEF TypeOK
  <2>6. Stored'
    BY <1>1, <1>2, <1>11, Zenon DEF Stored, Ordered
  <2>7. Placed(p)'
    <3>1. Reached(p)' = Reached(p) /\ Serving(p)' = Serving(p)
      BY <1>2, SameSetup, Zenon DEF Reached, Serving
    <3>2. Reached(p)
      BY <1>1, <1>2, Zenon DEF Placed
    <3> QED
      BY <1>1, <1>2, <3>1, <3>2, SameSetup, Zenon DEF Placed
  <2>8. Kept(p)'
    <3> SUFFICES ASSUME NEW k \in Jobs
                 PROVE  /\ active'[p][k] # 0 => active'[p][k] <= now /\ jobs[k] \in Job /\ lag'[p][k] = 0
                        /\ lag'[p][k] <= 1 /\ (lag'[p][k] # 0 => dirty'[p])
                        /\ jobs[k] # None =>
                              Ordered(jobs[k], now) /\ (Serving(p) => Allowed(k, jobs[k], boot[p]))
      BY <1>2, <2>1, KeptNext, Zenon
    <3>1. CASE k = j
      BY <1>4, <1>7, <2>1, <2>2, <3>1
    <3>2. CASE k # j
      BY <1>1, <1>4, <1>7, <1>9, <2>1, <2>2, <3>2, Zenon DEF Kept
    <3> QED
      BY <3>1, <3>2, Zenon
  <2>9. Owns(p)' /\ Awake(p)'
    BY <2>1, Zenon DEF Owns, Awake
  <2>10. Capped(p)'
    BY <1>1, <1>2, <1>9, FewerRun, Zenon
  <2> QED
    BY <1>8, <2>4, <2>5, <2>6, <2>7, <2>8, <2>9, <2>10, StepKeeps, Zenon DEF Good
<1> QED
  BY <1>3, <1>10, <1>11, Zenon

(* RunNow launches where there is room, and saves what was unsaved before   *)
(* it refuses.                                                              *)
LEMMA RunNowKeeps ==
    ASSUME IInv, NEW p \in Procs, NEW j \in Jobs, RunNow(p, j)
    PROVE  IInv'
<1>1. TypeOK /\ Placed(p) /\ Capped(p) /\ now \in Nat \ {0}
  BY Before, SetupFacts, Zenon
<1>2. /\ Reached(p) \/ phase[p] = "closed"
      /\ ~closed[p]
      /\ setup' = setup /\ loop' = loop /\ fired' = fired /\ UNCHANGED <<world, life, wake>>
  BY Zenon DEF RunNow
<1>3. Reached(p)
  BY <1>1, <1>2, Zenon DEF Placed
<1>4. /\ loop' \in [Procs -> [at : {"off", "poll", "sleep", "due"}, t : Nat]]
      /\ fired' \in [Jobs -> SUBSET Nat]
  BY <1>1, <1>2, Zenon DEF TypeOK
<1>5. Running(p) \in SUBSET Jobs /\ Cardinality(Running(p)) \in Nat /\ MaxConcurrent \in Nat
  <2>1. Running(p) \in SUBSET Jobs
    BY Zenon DEF Running
  <2> QED
    BY <1>1, <2>1, JobSets, SetupFacts, Zenon
<1>6. CASE Flush(p) /\ mem[p][j] # None /\ Cardinality(Running(p)) < MaxConcurrent
           /\ Launch(p, [k \in {j} |-> now])
  <2>1. /\ {j} \in SUBSET Jobs /\ now \in Nat /\ active \in [Procs -> [Jobs -> Nat]]
        /\ Launch(p, [k \in {j} |-> now])
    <3>1. now \in Nat /\ active \in [Procs -> [Jobs -> Nat]]
      BY <1>1, Zenon DEF TypeOK
    <3> QED
      BY <1>6, <3>1, Zenon
  <2>2. /\ active' \in [Procs -> [Jobs -> Nat]] /\ \A q \in Procs \ {p} : active'[q] = active[q]
        /\ \A k \in Jobs : active'[p][k] = IF k = j THEN now ELSE active[p][k]
    BY <2>1 DEF Launch
  <2>3. \A k \in Jobs : \/ active'[p][k] = active[p][k]
                        \/ k \in {j} /\ active'[p][k] # 0 /\ active'[p][k] <= now /\ mem[p][k] # None
    BY <1>1, <1>6, <2>2
  <2>4. Cardinality(Running(p)) + Cardinality({j}) <= MaxConcurrent
    <3>1. Cardinality({j}) = 1
      BY FS_Singleton, Zenon
    <3> QED
      BY <1>5, <1>6, <3>1
  <2> QED
    BY <1>2, <1>3, <1>4, <1>6, <2>1, <2>2, <2>3, <2>4, LaunchKeeps, Zenon
<1>7. CASE Flush(p) /\ active' = active
  <2>1. {} \in SUBSET Jobs /\ active' \in [Procs -> [Jobs -> Nat]]
    BY <1>1, <1>7, Zenon DEF TypeOK
  <2>2. Cardinality(Running(p)) + Cardinality({}) <= MaxConcurrent
    <3>1. Cardinality({}) = 0 /\ Cardinality(Running(p)) <= MaxConcurrent
      BY <1>1, FS_EmptySet, Zenon DEF Capped
    <3> QED
      BY <1>5, <3>1
  <2> QED
    BY <1>2, <1>3, <1>4, <1>7, <2>1, <2>2, LaunchKeeps, Zenon
<1>8. CASE FlushFails(p) /\ active' = active
  BY <1>2, <1>8, UnchangedKeeps, Zenon DEF FlushFails, world, life
<1> QED
  BY <1>6, <1>7, <1>8, Zenon DEF RunNow

(* The clock changes nothing but what is due.                               *)
LEMMA TickKeeps ==
    ASSUME IInv, Tick
    PROVE  IInv'
<1>1. TypeOK /\ Stored /\ now \in Nat
  BY SetupFacts, Zenon DEF IInv
<1>2. /\ now < Horizon /\ now' = now + 1
      /\ setup' = setup /\ disk' = disk /\ holder' = holder /\ phase' = phase
      /\ configured' = configured /\ boot' = boot /\ mem' = mem /\ dirty' = dirty /\ active' = active
      /\ closed' = closed /\ stopped' = stopped /\ loop' = loop /\ wake' = wake /\ lag' = lag /\ fired' = fired
  BY Zenon DEF Tick, life
<1>3. TypeOK'
  <2>1. now \in Nat /\ Horizon \in Nat /\ now < Horizon /\ now' = now + 1 /\ Horizon' = Horizon
    BY <1>1, <1>2, SameSetup, SetupFacts, Zenon
  <2>2. now' \in 1 .. Horizon'
    BY <2>1
  <2> QED
    BY <1>1, <1>2, <2>2, SameSetup, Zenon DEF TypeOK
<1>4. ASSUME NEW job \in Job, Ordered(job, now)
      PROVE  Ordered(job, now')
  BY <1>1, <1>2, <1>4 DEF Ordered, Job
<1>5. Stored'
  BY <1>1, <1>2, <1>4, Zenon DEF Stored, TypeOK, JobSet
<1>6. ASSUME NEW p \in Procs
      PROVE  Good(p)'
  <2>1. Placed(p) /\ Kept(p) /\ Owns(p) /\ Awake(p) /\ Capped(p)
    BY Before, Zenon
  <2>2. Placed(p)'
    <3>1. boot[p] <= now' /\ (loop[p].at = "due" => loop[p].t <= now')
      <4>1. boot[p] <= now /\ (loop[p].at = "due" => loop[p].t <= now)
        BY <2>1, Zenon DEF Placed
      <4>2. boot[p] \in Nat /\ loop[p].t \in Nat /\ now \in Nat /\ now' = now + 1
        BY <1>1, <1>2, Cells, Zenon
      <4> QED
        BY <4>1, <4>2
    <3> QED
      BY <1>2, <2>1, <3>1, SameSetup, Zenon DEF Placed, Serving, Reached
  <2>3. Kept(p)'
    <3> SUFFICES ASSUME NEW j \in Jobs
                 PROVE  /\ active[p][j] # 0 => active[p][j] <= now'
                        /\ mem[p][j] # None => Ordered(mem[p][j], now')
      <4>1. ASSUME NEW j \in Jobs, Allowed(j, mem[p][j], boot[p])
            PROVE  Allowed(j, mem[p][j], boot[p])'
        BY <1>2, <4>1, SameSetup, Zenon DEF Allowed
      <4>2. Serving(p)' => Serving(p)
        BY <1>2, Zenon DEF Serving
      <4>3. ASSUME NEW j \in Jobs
            PROVE  /\ (active[p][j] # 0 => active[p][j] <= now /\ mem[p][j] \in Job /\ lag[p][j] = 0)
                   /\ lag[p][j] <= 1 /\ (lag[p][j] # 0 => dirty[p])
                   /\ mem[p][j] # None /\ Serving(p)' => Allowed(j, mem[p][j], boot[p])'
        BY <2>1, <4>1, <4>2, Zenon DEF Kept
      <4> QED
        BY <1>2, <4>3, SameSetup, Zenon DEF Kept, Ordered
    <3>1. active[p][j] \in Nat /\ mem[p][j] \in JobSet
      BY <1>1, Cells, Zenon
    <3>2. active[p][j] # 0 => active[p][j] <= now'
      <4>1. now \in Nat /\ now' = now + 1 /\ (active[p][j] # 0 => active[p][j] <= now)
        BY <1>1, <1>2, <2>1, Zenon DEF Kept
      <4> QED
        BY <3>1, <4>1
    <3>3. mem[p][j] # None => Ordered(mem[p][j], now')
      BY <1>4, <2>1, <3>1, Zenon DEF Kept, JobSet
    <3> QED
      BY <3>2, <3>3, Zenon
  <2>4. Owns(p)' /\ Capped(p)'
    BY <1>2, <2>1, SameSetup, Zenon DEF Owns, Capped, Running
  <2>5. Awake(p)'
    <3> SUFFICES ASSUME loop[p].at = "sleep", ~wake[p], NEW j \in Waiting(p)
                 PROVE  loop[p].t <= mem[p][j].next \/ loop[p].t <= now' + 1
      BY <1>2, Zenon DEF Awake, Waiting
    <3>1. loop[p].t <= mem[p][j].next \/ loop[p].t <= now + 1
      BY <2>1, Zenon DEF Awake
    <3>2. /\ loop[p].t \in Nat /\ now \in Nat /\ now' = now + 1
      BY <1>1, <1>2, Cells, Zenon
    <3> QED
      BY <3>1, <3>2
  <2> QED
    BY <2>2, <2>3, <2>4, <2>5, Zenon DEF Good
<1> QED
  BY <1>3, <1>5, <1>6, Zenon DEF IInv

-----------------------------------------------------------------------------
(* The invariant.                                                           *)

LEMMA InitIInv ==
    ASSUME Init
    PROVE  IInv
<1>1. setup \in Setups /\ now = 1 /\ Horizon \in Nat \ {0} /\ MaxConcurrent \in Nat
  BY CronAssumption, Zenon DEF Init, Horizon, MaxConcurrent
<1>2. NoLag \in [Jobs -> Nat] /\ \A j \in Jobs : NoLag[j] = 0
  BY Zenon DEF NoLag
<1>3. TypeOK
  BY <1>1, <1>2 DEF Init, TypeOK, JobSet
<1>4. Stored
  BY Zenon DEF Init, Stored
<1>5. ASSUME NEW p \in Procs
      PROVE  Good(p)
  <2>1. /\ phase[p] = "down" /\ holder # p /\ loop[p].at = "off" /\ boot[p] = 0 /\ dirty[p] = FALSE
        /\ \A j \in Jobs : active[p][j] = 0 /\ lag[p][j] = 0 /\ mem[p][j] = None
    BY <1>2, CronAssumption, Zenon DEF Init
  <2>2. Placed(p)
    BY <1>1, <2>1 DEF Placed, Serving, Reached
  <2>3. Kept(p)
    BY <2>1 DEF Kept
  <2>4. Owns(p) /\ Awake(p)
    BY <2>1, Zenon DEF Owns, Awake
  <2>5. Running(p) = {}
    BY <2>1, Zenon DEF Running
  <2>6. Capped(p)
    BY <1>1, <2>5, FS_EmptySet DEF Capped
  <2> QED
    BY <2>2, <2>3, <2>4, <2>6, Zenon DEF Good
<1> QED
  BY <1>3, <1>4, <1>5, Zenon DEF IInv

(* Every step keeps it.                                                     *)
LEMMA NextIInv ==
    ASSUME IInv, [Next]_vars
    PROVE  IInv'
<1>1. ASSUME NEW p \in Procs, StartRefused(p) \/ Exit(p) \/ Crash(p)
      PROVE  IInv'
  <2>1. phase[p] # "down" /\ Fallen(p)
    BY <1>1, Zenon DEF StartRefused, Exit, Crash, CanStart
  <2>2. p \in setup.procs
    BY <2>1, Before, Zenon DEF Placed
  <2> QED
    BY <2>1, <2>2, FallenKeeps, Zenon
<1>2. ASSUME NEW p \in Procs, Load(p) \/ Start(p) \/ Close(p) \/ CloseReturns(p)
      PROVE  IInv'
  BY <1>2, LoadKeeps, StartKeeps, CloseKeeps, CloseReturnsKeeps, Zenon
<1>3. ASSUME NEW p \in Procs, LoopStep(p)
      PROVE  IInv'
  BY <1>3, LoopWaits, DispatchKeeps, Zenon DEF LoopStep
<1>4. ASSUME NEW p \in Procs, NEW j \in Jobs, UpsertSystemJob(p, j) \/ RunEnds(p, j)
      PROVE  IInv'
  BY <1>4, UpsertKeeps, RunEndsKeeps, Zenon
<1>5. ASSUME NEW p \in Procs, NEW j \in Jobs, Operation(p, j)
      PROVE  IInv'
  BY <1>5, AddKeeps, RescheduleKeeps, SetEnabledKeeps, RemoveKeeps, RunNowKeeps, Zenon DEF Operation
<1>6. CASE UNCHANGED vars
  BY <1>6, UnchangedKeeps, Zenon DEF vars
<1> QED
  BY <1>1, <1>2, <1>3, <1>4, <1>5, <1>6, TickKeeps, Zenon DEF Next

(* What the invariant says of the scheduler.                                *)
LEMMA IInvGives ==
    ASSUME IInv
    PROVE  SchedulerInv
<1>1. TypeOK /\ \A p \in Procs : Placed(p) /\ Kept(p) /\ Owns(p) /\ Awake(p) /\ Capped(p)
  BY Before, Zenon DEF IInv
<1>2. CapKept
  BY <1>1, Zenon DEF CapKept, Capped
<1>3. LagAtMostOne
  BY <1>1, Zenon DEF LagAtMostOne, Kept
<1>4. HolderOwnsStore
  BY <1>1, Zenon DEF HolderOwnsStore, Owns
<1>5. QuietWhenClosed
  <2> SUFFICES ASSUME NEW p \in Procs, phase[p] = "closed"
               PROVE  loop[p].at = "off" /\ Running(p) = {} /\ holder # p
    BY Zenon DEF QuietWhenClosed
  <2>1. Placed(p) /\ ~Serving(p) /\ ~Reached(p)
    BY <1>1, Zenon DEF Reached, Serving
  <2> QED
    BY <2>1, Zenon DEF Placed, Running
<1>6. OneScheduler
  <2>1. ASSUME NEW p \in Procs \ Chats, loop[p].at # "off" \/ Running(p) # {}
        PROVE  holder = p
    <3>1. Placed(p)
      BY <1>1, Zenon
    <3>2. Reached(p) => Serving(p)
      BY Zenon DEF Reached
    <3> QED
      BY <2>1, <3>1, <3>2, Zenon DEF Placed, Running
  <2> QED
    BY <2>1, Zenon DEF OneScheduler
<1>7. NoOversleep
  BY <1>1, Zenon DEF NoOversleep, Awake
<1> QED
  BY <1>1, <1>2, <1>3, <1>4, <1>5, <1>6, <1>7, Zenon DEF SchedulerInv

(* A launch of the loop is a step of dispatchDue, after the flush, of a job *)
(* of the memory for its next run.                                          *)
LEMMA LaunchIsDispatch ==
    ASSUME IInv, [Next]_vars, NEW p \in Procs, NEW j \in Jobs, LoopLaunches(p, j)
    PROVE  /\ setup' = setup /\ Serving(p) /\ Flush(p)
           /\ mem[p][j] # None /\ mem[p][j] \in Job /\ mem[p][j].on /\ mem[p][j].next # 0
           /\ active'[p][j] = mem[p][j].next
<1>1. TypeOK /\ Placed(p) /\ Capped(p)
  BY Before, Zenon
<1>2. /\ loop[p].at = "due" /\ loop'[p].at = "poll" /\ active[p][j] = 0 /\ active'[p][j] # 0
      /\ loop'[p] # loop[p]
  BY DEF LoopLaunches
<1>3. DispatchDue(p)
  <2>1. ASSUME NEW q \in Procs, Load(q) \/ Close(q) \/ CloseReturns(q)
        PROVE  FALSE
    BY <1>2, <2>1, Zenon DEF Load, Close, CloseReturns
  <2>2. ASSUME NEW q \in Procs, StartRefused(q) \/ Exit(q) \/ Crash(q)
        PROVE  FALSE
    <3>1. loop' = [loop EXCEPT ![q] = [at |-> "off", t |-> 0]]
      BY <2>2, Zenon DEF StartRefused, Exit, Crash, Fallen
    <3> QED
      BY <1>1, <1>2, <3>1, Zenon DEF TypeOK
  <2>3. ASSUME NEW q \in Procs, Start(q)
        PROVE  FALSE
    <3>1. phase[q] \in {"loaded", "closed"} /\ loop' = [loop EXCEPT ![q] = [at |-> "poll", t |-> 0]]
      BY <2>3, Zenon DEF Start, CanStart
    <3>2. q = p
      BY <1>1, <1>2, <3>1, Zenon DEF TypeOK
    <3> QED
      BY <1>1, <1>2, <3>1, <3>2, Zenon DEF Placed, Serving
  <2>4. ASSUME NEW q \in Procs, LoopStep(q)
        PROVE  DispatchDue(p)
    <3>1. CASE NextDelay(q) \/ LoopStops(q) \/ LoopWoken(q) \/ TimerFires(q)
      <4>1. active' = active
        BY <3>1, Zenon DEF NextDelay, LoopStops, LoopWoken, TimerFires
      <4> QED
        BY <1>2, <4>1, Zenon
    <3>2. CASE DispatchDue(q)
      <4>1. loop' = [loop EXCEPT ![q] = [at |-> "poll", t |-> 0]]
        BY <3>2, Zenon DEF DispatchDue
      <4>2. q = p
        BY <1>1, <1>2, <4>1, Zenon DEF TypeOK
      <4> QED
        BY <3>2, <4>2, Zenon
    <3> QED
      BY <2>4, <3>1, <3>2, Zenon DEF LoopStep
  <2>5. ASSUME NEW q \in Procs, NEW k \in Jobs, UpsertSystemJob(q, k) \/ RunEnds(q, k)
        PROVE  FALSE
    BY <1>2, <2>5, Zenon DEF UpsertSystemJob, RunEnds
  <2>6. ASSUME NEW q \in Procs, NEW k \in Jobs, Operation(q, k)
        PROVE  FALSE
    BY <1>2, <2>6, Zenon DEF Operation, AddJob, Reschedule, SetEnabled, RemoveJob, Mutate, RunNow
  <2>7. Tick => FALSE
    BY <1>2, Zenon DEF Tick
  <2>8. UNCHANGED vars => FALSE
    BY <1>2, Zenon DEF vars
  <2> QED
    BY <2>1, <2>2, <2>3, <2>4, <2>5, <2>6, <2>7, <2>8, Zenon DEF Next
<1>4. PICK some \in Picked(p, Due(p, loop[p].t)) :
          Flush(p) /\ Launch(p, [k \in some |-> mem[p][k].next])
  BY <1>2, <1>3, Zenon DEF DispatchDue
<1>5. Serving(p) /\ setup' = setup /\ loop[p].t \in Nat
  BY <1>1, <1>2, <1>3, Zenon DEF Placed, DispatchDue, TypeOK
<1>6. /\ some \in SUBSET Jobs
      /\ \A k \in some : /\ mem[p][k] # None /\ mem[p][k] \in Job /\ mem[p][k].on
                         /\ mem[p][k].next # 0 /\ mem[p][k].next <= loop[p].t /\ active[p][k] = 0
  BY <1>1, <1>5, PickedFacts, ZenonT(30)
<1>7. \A k \in some : mem[p][k].next \in Nat
  BY <1>6, Zenon DEF Job
<1>8. active'[p][j] = IF j \in some THEN mem[p][j].next ELSE active[p][j]
  <2>1. TypeOK /\ some \in SUBSET Jobs /\ Launch(p, [k \in some |-> mem[p][k].next])
    BY <1>1, <1>4, <1>6, Zenon
  <2> QED
    BY <1>7, <2>1, LaunchDue
<1> QED
  BY <1>2, <1>4, <1>5, <1>6, <1>8, Zenon

(* So its instant is not recorded yet, and a missed one is allowed.         *)
LEMMA StepLaunchesRight ==
    ASSUME IInv, [Next]_vars, NEW p \in Procs, NEW j \in Jobs, LoopLaunches(p, j)
    PROVE  /\ Cardinality(setup.procs) = 1 => active'[p][j] > disk'[j].last
           /\ active'[p][j] <= boot[p] =>
                Policy[j] = "fire_once" /\ (Grace[j] = 0 \/ boot[p] - active'[p][j] <= Grace[j])
<1>1. TypeOK /\ Placed(p) /\ Kept(p) /\ Owns(p)
  BY Before, Zenon
<1>2. /\ setup' = setup /\ Serving(p) /\ Flush(p)
      /\ mem[p][j] # None /\ mem[p][j] \in Job /\ mem[p][j].on /\ mem[p][j].next # 0
      /\ active'[p][j] = mem[p][j].next
  BY LaunchIsDispatch, Zenon
<1>3. Ordered(mem[p][j], now) /\ Allowed(j, mem[p][j], boot[p])
  BY <1>1, <1>2, Zenon DEF Kept
<1>4. ASSUME Cardinality(setup.procs) = 1
      PROVE  active'[p][j] > disk'[j].last
  <2>1. disk' = mem[p] \/ (disk' = disk /\ ~dirty[p])
    BY <1>2, FlushFacts, Zenon
  <2>2. disk' = mem[p]
    BY <1>1, <1>2, <1>4, <2>1, Zenon DEF Placed, Owns
  <2>3. mem[p][j].next > mem[p][j].last
    BY <1>2, <1>3, Zenon DEF Ordered
  <2> QED
    BY <1>2, <2>2, <2>3, Zenon
<1>5. ASSUME active'[p][j] <= boot[p]
      PROVE  Policy[j] = "fire_once" /\ (Grace[j] = 0 \/ boot[p] - active'[p][j] <= Grace[j])
  BY <1>2, <1>3, <1>5, Zenon DEF Allowed
<1> QED
  BY <1>4, <1>5, Zenon

(* The scheduler never runs more jobs than maxConcurrent, keeps its file at *)
(* most one run behind and knows it, is quiet once Close has returned, is   *)
(* alone while it holds the lease and never sleeps past a waiting job       *)
(* (service.go), whatever the clock, the faults and the crashes.            *)
THEOREM SchedulerCorrect == Spec => []SchedulerInv
<1>1. Init => IInv
  BY InitIInv, Zenon
<1>2. IInv /\ [Next]_vars => IInv'
  BY NextIInv, Zenon
<1>3. IInv => SchedulerInv
  BY IInvGives, Zenon
<1> QED
  BY <1>1, <1>2, <1>3, PTL DEF Spec

(* The loop launches no instant that the store file has recorded, where one *)
(* process opens it, and a missed instant only as the misfire policy and    *)
(* the grace of the job allow (dispatchDue, prepareJobOnStart).             *)
THEOREM LaunchesCorrect == Spec => LaunchesRight
<1>1. Init => IInv
  BY InitIInv, Zenon
<1>2. IInv /\ [Next]_vars => IInv'
  BY NextIInv, Zenon
<1>3. IInv /\ [Next]_vars =>
        (Cardinality(setup.procs) = 1 => \A p \in Procs, j \in Jobs :
            LoopLaunches(p, j) => active'[p][j] > disk'[j].last)
  BY StepLaunchesRight, Zenon
<1>4. IInv /\ [Next]_vars =>
        \A p \in Procs, j \in Jobs :
            LoopLaunches(p, j) /\ active'[p][j] <= boot[p] =>
                Policy[j] = "fire_once" /\ (Grace[j] = 0 \/ boot[p] - active'[p][j] <= Grace[j])
  BY StepLaunchesRight, Zenon
<1>5. Spec => InstantOnce
  BY <1>1, <1>2, <1>3, PTL DEF Spec, InstantOnce
<1>6. Spec => MissedByPolicy
  BY <1>1, <1>2, <1>4, PTL DEF Spec, MissedByPolicy
<1> QED
  BY <1>5, <1>6, Zenon DEF LaunchesRight
=============================================================================
