-------------------------------- MODULE MCBus --------------------------------
(***************************************************************************)
(* Where an accepted message waits and where it is kept: the message bus,  *)
(* queues in memory shared by blocked consumers, and its local events; the *)
(* local triggers, a queue of files that outlives the process; and the     *)
(* files of a session.                                                     *)
(* They share no state; a behaviour is about one of them.                  *)
(***************************************************************************)
EXTENDS Bus

CONSTANTS
    None, MaxDelivery, MaxAttempts,                             \* the triggers
    p1, p2, m1, m2, m3, Procs, Msgs, MaxMarkers, Marker, Torn   \* the session files

VARIABLES setup, inbox, processing, failed, trigger, phase, stopped, wake, loop, cur, tries, result, sent, ok, bad,
          ticked, faults, crashes, closes

triggers == <<setup, inbox, processing, failed, trigger, phase, stopped, wake, loop, cur, tries, result, sent, ok, bad,
              ticked, faults, crashes, closes>>
VARIABLES sessSetup, base, journal, mem, jsize, open, cached, given, kept, sessFaults
session == <<sessSetup, base, journal, mem, jsize, open, cached, given, kept, sessFaults>>
VARIABLE which      \* what this behaviour is about
mcVars == <<which, vars, eventVars, triggers, session>>

-----------------------------------------------------------------------------

(* A file operation may fail; or none does, one file is not JSON and there *)
(* is one delivery more.                                                   *)
Broken  == [last |-> 2, malformed |-> {}, ops |-> {"error", "update"}, maxFaults |-> 1, maxCrashes |-> 1, maxCloses |-> 1]
Working == [Broken EXCEPT !.last = 3, !.malformed = {2}, !.maxFaults = 0]
Setups  == {Broken, Working}

Single == {<<m1>>, <<m2>>, <<m3>>}
UserAndTurn == {<<m1>>, <<m2, m3>>}
Batches == Single \cup UserAndTurn

(* One process, every operation, crashes between operations.                *)
OneProcess ==
    [procs |-> {p1}, batches |-> UserAndTurn, ops |-> {"summary", "set", "clear"}, overlapping |-> TRUE,
     tornWrites |-> FALSE, cutSaves |-> FALSE, maxFaults |-> 2]
(* Saves that stop between the two files.                                   *)
CutSave == [OneProcess EXCEPT !.batches = Single, !.ops = {}, !.cutSaves = TRUE]
(* Two processes, one turn after the other.                                 *)
TwoProcesses ==
    [OneProcess EXCEPT !.procs = {p1, p2}, !.ops = {"clear", "delete"}, !.overlapping = FALSE, !.maxFaults = 1]
(* Torn writes, cut saves and /new together.                                *)
Faulty == [CutSave EXCEPT !.ops = {"clear"}, !.tornWrites = TRUE]
SessSetups == {OneProcess, CutSave, TwoProcesses, Faulty}

Tr == INSTANCE Triggers
S == INSTANCE SessionStore WITH Setups <- SessSetups, setup <- sessSetup, faults <- sessFaults

-----------------------------------------------------------------------------
MCInit ==
    /\ which \in {"bus", "events", "triggers", "session"}
    /\ Init /\ EventsInit
    /\ Tr!Init /\ (which = "triggers" \/ setup = Working)
    /\ S!Init /\ (which = "session" \/ sessSetup = Faulty)

BusStep      == which = "bus" /\ Next /\ UNCHANGED <<which, eventVars, triggers, session>>
EventsStep   == which = "events" /\ EventsNext /\ UNCHANGED <<which, vars, triggers, session>>
TriggersStep == which = "triggers" /\ Tr!Next /\ UNCHANGED <<which, vars, eventVars, session>>
SessionStep  == which = "session" /\ S!Next /\ UNCHANGED <<which, vars, eventVars, triggers>>

MCNext == BusStep \/ EventsStep \/ TriggersStep \/ SessionStep

(* The fairness of each module, asked where the behaviour is its own.      *)
MCSpec ==
    /\ MCInit /\ [][MCNext]_mcVars
    /\ \A c \in Consumers : WF_vars(which = "bus" /\ ConsumerStep(c))
    /\ WF_triggers(which = "triggers" /\ (Tr!Boot \/ Tr!Start \/ Tr!Exit))
    /\ WF_triggers(which = "triggers" /\ Tr!LoopStep)
    /\ WF_triggers(which = "triggers" /\ Tr!Ticks)
    /\ SF_triggers(which = "triggers" /\ Tr!LoopStops)

-----------------------------------------------------------------------------
(* Local events: each reaches the handlers subscribed throughout, once, in *)
(* the order of their registration (bus.Publish).                          *)
(* Local triggers: at every moment an accepted delivery that has not been  *)
(* executed successfully is in one of the directories, whichever file      *)
(* operation fails and wherever the process dies (triggers.NeverLost); it  *)
(* is given up only after MaxAttempts failures of its own, and is executed *)
(* or tried no more often than the faults explain.                         *)
(* Session files: what is read from memory misses nothing the files hold,  *)
(* and the files miss at most one acknowledged message for each fault      *)
(* (loadLocked, cachedSession).                                            *)
KeptInv ==
    /\ which = "events" => EventsInv
    /\ which = "triggers" => Tr!NeverLost /\ Tr!AttemptsInv
    /\ which = "session" => S!SessionInv

(* The session files, as a reader would load them, implement the           *)
(* transcript the session promises its callers.                            *)
ImplementsTranscript == S!ImplementsTranscript

(* Both queues are served: Close brings every consumer back and no message *)
(* waits behind one that sleeps; and where the file system works every     *)
(* delivery is executed or given up, with nothing left in the inbox or in  *)
(* the directory of interrupted work.                                      *)
Served == ConsumersServed /\ (<>[](which = "triggers" => Tr!AllSettled))
=============================================================================
