------------------------------- MODULE MCCron -------------------------------
(* Instances of Cron for TLC.                                              *)
EXTENDS Cron

CONSTANTS g1, g2

At(t)    == [kind |-> "at", at |-> t]
Every(n) == [kind |-> "every", every |-> n]
Expr(m, z) == [kind |-> "cron", minutes |-> m, tz |-> z]

EveryTwo == Every(2)

(* Two jobs, one slot, a failed save.                                      *)
Wakeups ==
    [procs |-> {g1}, chats |-> {}, jobs |-> {1, 2}, systemJobs |-> {}, schedules |-> {Every(2)},
     policy |-> [j \in Jobs |-> "fire_once"], grace |-> [j \in Jobs |-> 0], oneShot |-> {},
     maxConcurrent |-> 1, horizon |-> 3, wall |-> [t \in 1..9 |-> t],
     ops |-> {"add", "remove", "run"}, maxFaults |-> 1, maxCrashes |-> 0]

(* A one-shot and a recurring schedule, paused, resumed, exchanged and run  *)
(* by hand, and a failed save.                                             *)
Edited ==
    [Wakeups EXCEPT !.jobs = {1}, !.schedules = {At(3), Every(2)}, !.oneShot = {1}, !.horizon = 4,
                    !.ops = {"add", "pause", "reschedule", "run"}]

(* A job paused and resumed, two failed saves and a crash.                 *)
Unsaved ==
    [Wakeups EXCEPT !.jobs = {1}, !.ops = {"add", "pause", "run"}, !.maxFaults = 2, !.maxCrashes = 1]

(* Two jobs that only run, and a crash.                                    *)
Missed == [Wakeups EXCEPT !.ops = {"add"}, !.maxFaults = 0, !.maxCrashes = 1, !.horizon = 5]

(* A job that skips what it missed beside one with a grace.                *)
Graced ==
    [Missed EXCEPT !.policy = [j \in Jobs |-> IF j = 1 THEN "skip" ELSE "fire_once"],
                   !.grace = [j \in Jobs |-> 1], !.horizon = 6, !.maxConcurrent = 2]

(* A daily minute, with a time zone and without one, and a clock set back   *)
(* by two minutes after the third.                                         *)
SetBack ==
    [Missed EXCEPT !.jobs = {1}, !.schedules = {Expr({2}, z) : z \in BOOLEAN}, !.wall = <<1, 2, 3, 2, 3, 4, 5, 6>>,
                   !.horizon = 7, !.maxFaults = 1]

(* Two gateways with a system job, closed and started again.               *)
Gateways ==
    [Wakeups EXCEPT !.procs = {g1, g2}, !.jobs = {}, !.systemJobs = {3}, !.ops = {"restart"},
                    !.maxFaults = 0, !.maxCrashes = 1]

All == {Wakeups, Edited, Unsaved, Missed, Graced, SetBack, Gateways}

(* One gateway with a system job, and a crash.                             *)
System == {[Missed EXCEPT !.jobs = {}, !.systemJobs = {3}]}
=============================================================================
