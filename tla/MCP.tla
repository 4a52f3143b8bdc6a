-------------------------------- MODULE MCP --------------------------------
(***************************************************************************)
(* The client of one stdio MCP server, internal/mcp/stdio.go: callers that *)
(* list tools or call one, over a process that may die, be restarted by    *)
(* any of them, answer late or not at all, and be closed at shutdown.      *)
(*                                                                         *)
(* A process is known by the generation start gave it.  The mutex c.mu     *)
(* makes each of its critical sections one action; writes to the pipe and  *)
(* waits are separate actions.  Arguments and results are left out: a      *)
(* request and its reply are known by the goroutine, its attempt and the   *)
(* method, which stand for the number c.next gave the request.             *)
(***************************************************************************)
EXTENDS Integers, FiniteSets, FiniteSetsExt

CONSTANTS
    Listers, Callers,     \* goroutines in ListTools (retried once) and in Call (never retried)
    MaxFaults,            \* how often a process dies or fails to start, its output ends, or the context of a lister ends
    None

VARIABLES
    generation, initializedGen, current, clientClosed,     \* Client: current is the generation of cmd, or None
    pendingCalls,         \* Client.pending: the requests with a waiter
    alive,                \* processes running
    deaf,                 \* processes whose stdin is being closed, or which are being killed
    greeted,              \* processes that received initialize
    inbox,                \* requests written, with the generation they were written to
    caller,               \* per goroutine: pc, the request in hand, the attempt, its context
    faults,
    executed,             \* tools/call requests the server ran: the goroutine and its generation
    closeReset,           \* Close has called reset
    mismarked,            \* generations marked initialized by a reply of another process
    forgotten             \* processes that lived on when their read loop ended
mcpVars == <<generation, initializedGen, current, clientClosed, pendingCalls, alive, deaf, greeted, inbox, caller,
             faults, executed, mismarked, closeReset, forgotten>>
clientVars == <<generation, initializedGen, current, clientClosed>>
serverSide == <<alive, deaf, greeted, inbox, faults, executed, forgotten>>

Goroutines == Listers \cup Callers
Idle == [pc |-> "check", attempt |-> 1, gen |-> None, seen |-> None, expired |-> FALSE, outcome |-> None]

McpInit ==
    /\ generation = 0 /\ initializedGen = 0 /\ current = None /\ clientClosed = FALSE
    /\ pendingCalls = {} /\ alive = {} /\ deaf = {} /\ greeted = {} /\ inbox = {}
    /\ caller = [g \in Goroutines |-> Idle] /\ faults = 0 /\ executed = {} /\ mismarked = {} /\ closeReset = FALSE
    /\ forgotten = {}

At(g, pc) == caller[g].pc = pc
Step(g, pc) == caller' = [caller EXCEPT ![g].pc = pc]
Attempts(g) == IF g \in Listers THEN 2 ELSE 1
End(g, outcome) == caller' = [caller EXCEPT ![g] = [Idle EXCEPT !.pc = "done", !.outcome = outcome]]

(* withReconnect: a transport failure is retried while attempts remain, any other error returned. *)
Fails(g, transport) ==
    IF transport /\ caller[g].attempt < Attempts(g) THEN Step(g, "reset") ELSE End(g, "error")

-----------------------------------------------------------------------------
(* initialize *)

(* A first attempt begins at once, the second after the pause. *)
Entering(g) == At(g, "check") \/ At(g, "pause")

InitializeKnownEver(g) ==
    /\ Entering(g) /\ initializedGen # 0 /\ current # None
    /\ caller' = [caller EXCEPT ![g].pc = "call", ![g].seen = generation]
    /\ UNCHANGED <<clientVars, pendingCalls, serverSide, mismarked, closeReset>>
InitializeKnown(g) ==
    /\ Entering(g) /\ initializedGen = generation /\ current # None
    /\ caller' = [caller EXCEPT ![g].pc = "call", ![g].seen = generation]
    /\ UNCHANGED <<clientVars, pendingCalls, serverSide, mismarked, closeReset>>

InitializeNeeded(g) ==
    /\ Entering(g) /\ ~(initializedGen = generation /\ current # None)
    /\ Step(g, "hello") /\ UNCHANGED <<clientVars, pendingCalls, serverSide, mismarked, closeReset>>

(* After the reply: the mark goes to the process of now, which need not be the one that replied,  *)
(* and so does the notification.  A failure to write it is no transport failure.                  *)
InitializeMarks(g) ==
    /\ At(g, "marks") /\ current # None
    /\ initializedGen' = generation
    /\ mismarked' = IF caller[g].gen = generation THEN mismarked ELSE mismarked \cup {generation}
    /\ caller' = [caller EXCEPT ![g].pc = "notify", ![g].gen = generation, ![g].seen = generation]
    /\ UNCHANGED <<generation, current, clientClosed, pendingCalls, serverSide, closeReset>>

NotifyDone(g) ==
    /\ At(g, "notify") /\ caller[g].gen \in alive
    /\ caller' = [caller EXCEPT ![g].pc = "call", ![g].gen = None]
    /\ UNCHANGED <<clientVars, pendingCalls, serverSide, mismarked, closeReset>>

NotifyFails(g) ==
    /\ At(g, "notify") /\ caller[g].gen \notin alive \ deaf /\ Fails(g, FALSE)
    /\ UNCHANGED <<clientVars, pendingCalls, serverSide, mismarked, closeReset>>

NotifyExpires(g) ==
    /\ At(g, "notify") /\ caller[g].expired /\ Fails(g, FALSE)
    /\ deaf' = deaf \cup (alive \cap {caller[g].gen})
    /\ UNCHANGED <<clientVars, pendingCalls, alive, greeted, inbox, faults, executed, forgotten, mismarked, closeReset>>

InitializeLost(g) ==
    /\ At(g, "marks") /\ current = None /\ Fails(g, TRUE)
    /\ UNCHANGED <<clientVars, pendingCalls, serverSide, mismarked, closeReset>>

-----------------------------------------------------------------------------
(* rpc: start, register the waiter, write, wait.  "hello" sends initialize, "call" the request. *)

Asking(g) == At(g, "hello") \/ At(g, "call")
Method(g) == CASE caller[g].pc \in {"hello", "helloStarted", "helloWrite", "helloWait"} -> "initialize"
               [] OTHER -> IF g \in Listers THEN "tools/list" ELSE "tools/call"
Phase(g, suffix) ==
    IF Method(g) = "initialize"
    THEN CASE suffix = "Started" -> "helloStarted" [] suffix = "Write" -> "helloWrite" [] suffix = "Wait" -> "helloWait"
    ELSE CASE suffix = "Started" -> "callStarted" [] suffix = "Write" -> "callWrite" [] suffix = "Wait" -> "callWait"
Id(g) == <<g, caller[g].attempt, Method(g)>>
In(g, suffix) == caller[g].pc = Phase(g, suffix)

StartProcess(g) ==
    /\ Asking(g) /\ ~clientClosed /\ current = None
    /\ generation' = generation + 1 /\ current' = generation + 1 /\ alive' = alive \cup {generation + 1}
    /\ Step(g, Phase(g, "Started"))
    /\ UNCHANGED <<initializedGen, clientClosed, pendingCalls, deaf, greeted, inbox, faults, executed, forgotten, mismarked, closeReset>>

(* The pipes or the process cannot be made: no transport failure either. *)
StartFails(g) ==
    /\ Asking(g) /\ ~clientClosed /\ current = None /\ faults < MaxFaults
    /\ faults' = faults + 1 /\ Fails(g, FALSE)
    /\ UNCHANGED <<clientVars, pendingCalls, alive, deaf, greeted, inbox, executed, forgotten, mismarked, closeReset>>

StartFound(g) ==
    /\ Asking(g) /\ ~clientClosed /\ current # None
    /\ Step(g, Phase(g, "Started")) /\ UNCHANGED <<clientVars, pendingCalls, serverSide, mismarked, closeReset>>

StartRefused(g) ==
    /\ Asking(g) /\ clientClosed /\ Fails(g, FALSE)
    /\ UNCHANGED <<clientVars, pendingCalls, serverSide, mismarked, closeReset>>

Register(g) ==
    /\ In(g, "Started") /\ current # None
    /\ pendingCalls' = pendingCalls \cup {Id(g)}
    /\ caller' = [caller EXCEPT ![g].pc = Phase(g, "Write"), ![g].gen = current]
    /\ UNCHANGED <<clientVars, serverSide, mismarked, closeReset>>

RegisterGone(g) ==
    /\ In(g, "Started") /\ current = None /\ Fails(g, TRUE)
    /\ UNCHANGED <<clientVars, pendingCalls, serverSide, mismarked, closeReset>>

Written(g) == [id |-> Id(g), gen |-> caller[g].gen, method |-> Method(g), from |-> g]
WriteDone(g) ==
    /\ In(g, "Write") /\ caller[g].gen \in alive
    /\ inbox' = inbox \cup {Written(g)}
    /\ Step(g, Phase(g, "Wait"))
    /\ UNCHANGED <<clientVars, pendingCalls, alive, deaf, greeted, faults, executed, forgotten, mismarked, closeReset>>

WriteFails(g) ==
    /\ In(g, "Write") /\ caller[g].gen \notin alive \ deaf
    /\ pendingCalls' = pendingCalls \ {Id(g)} /\ Fails(g, TRUE)
    /\ UNCHANGED <<clientVars, serverSide, mismarked, closeReset>>

(* A write that outlives its context closes the pipe; the bytes may or may not have gone out. *)
WriteExpires(g) ==
    /\ In(g, "Write") /\ caller[g].expired
    /\ pendingCalls' = pendingCalls \ {Id(g)} /\ deaf' = deaf \cup (alive \cap {caller[g].gen})
    /\ inbox' = inbox \/ (caller[g].gen \in alive /\ inbox' = inbox \cup {Written(g)})
    /\ Fails(g, FALSE)
    /\ UNCHANGED <<clientVars, alive, greeted, faults, executed, forgotten, mismarked, closeReset>>

(* The server takes a request, and replies with a result or an error: the read loop hands the   *)
(* reply to its waiter.                                                                         *)
Serve(r) ==
    /\ r \in inbox /\ r.gen \in alive /\ inbox' = inbox \ {r}
    /\ greeted' = IF r.method = "initialize" THEN greeted \cup {r.gen} ELSE greeted
    /\ executed' = IF r.method = "tools/call" THEN executed \cup {<<r.from, r.id, r.gen>>} ELSE executed
    /\ pendingCalls' = pendingCalls \ {r.id}
    /\ IF r.id \notin pendingCalls THEN UNCHANGED caller
       ELSE \E outcome \in {"reply", "refused"} : caller' = [caller EXCEPT ![r.from].outcome = outcome]
    /\ UNCHANGED <<clientVars, alive, deaf, faults, forgotten, mismarked, closeReset>>

(* A call that runs, and whose reply is never read. *)
Ignore(r) ==
    /\ r \in inbox /\ r.gen \in alive /\ r.method = "tools/call" /\ inbox' = inbox \ {r}
    /\ executed' = executed \cup {<<r.from, r.id, r.gen>>}
    /\ UNCHANGED <<clientVars, pendingCalls, alive, deaf, greeted, caller, faults, forgotten, mismarked, closeReset>>

WaitReply(g) ==
    /\ In(g, "Wait") /\ caller[g].outcome = "reply"
    /\ IF Method(g) = "initialize"
       THEN caller' = [caller EXCEPT ![g].outcome = None, ![g].pc = "marks"]
       ELSE End(g, "ok")
    /\ UNCHANGED <<clientVars, pendingCalls, serverSide, mismarked, closeReset>>

WaitRefused(g) ==
    /\ In(g, "Wait") /\ caller[g].outcome = "refused" /\ Fails(g, FALSE)
    /\ UNCHANGED <<clientVars, pendingCalls, serverSide, mismarked, closeReset>>

(* The channel was closed by failGeneration or reset. *)
WaitClosed(g) ==
    /\ In(g, "Wait") /\ caller[g].outcome = None /\ Id(g) \notin pendingCalls /\ Fails(g, TRUE)
    /\ UNCHANGED <<clientVars, pendingCalls, serverSide, mismarked, closeReset>>

WaitExpires(g) ==
    /\ In(g, "Wait") /\ caller[g].expired /\ End(g, "error")
    /\ pendingCalls' = pendingCalls \ {Id(g)}
    /\ UNCHANGED <<clientVars, serverSide, mismarked, closeReset>>

(* The context ends; nobody looks at it but the writes, the wait and the pause. *)
ContextExpires(g) ==
    /\ At(g, "notify") \/ In(g, "Write") \/ In(g, "Wait") \/ At(g, "pause")
    /\ ~caller[g].expired
    /\ g \in Listers => faults < MaxFaults
    /\ faults' = IF g \in Listers THEN faults + 1 ELSE faults
    /\ caller' = [caller EXCEPT ![g].expired = TRUE]
    /\ UNCHANGED <<clientVars, pendingCalls, alive, deaf, greeted, inbox, executed, forgotten, mismarked, closeReset>>

-----------------------------------------------------------------------------
(* The process, reset and Close *)

ProcessDies ==
    /\ \E p \in alive : /\ p \in deaf \/ faults < MaxFaults
                        /\ alive' = alive \ {p} /\ faults' = IF p \in deaf THEN faults ELSE faults + 1
                        /\ deaf' = deaf \ {p} /\ greeted' = greeted \ {p} /\ inbox' = {r \in inbox : r.gen # p}
    /\ UNCHANGED <<clientVars, pendingCalls, caller, executed, forgotten, mismarked, closeReset>>

(* failGeneration fails the generation of now only, and leaves the process to itself. *)
Forget ==
    /\ current # None /\ current = generation /\ current' = None /\ pendingCalls' = {}
    /\ UNCHANGED <<generation, initializedGen, clientClosed, caller, mismarked, closeReset>>

(* readLoop or waitLoop of a process that is gone. *)
FailGeneration == current \notin alive /\ Forget /\ UNCHANGED serverSide

(* The readLoop of a process that closed its output, or wrote too long a line, and lives on. *)
ReadLoopEnds ==
    /\ current \in alive /\ faults < MaxFaults /\ Forget
    /\ faults' = faults + 1 /\ forgotten' = forgotten \cup {current}
    /\ UNCHANGED <<alive, deaf, greeted, inbox, executed>>

ResetClient ==
    /\ generation' = generation + 1 /\ current' = None /\ pendingCalls' = {}
    /\ deaf' = deaf \cup (alive \cap {current})
    /\ UNCHANGED <<initializedGen, alive, greeted, inbox, faults, executed, forgotten, mismarked>>
Reset(g) ==
    /\ At(g, "reset") /\ ResetClient /\ UNCHANGED <<clientClosed, closeReset>>
    /\ caller' = [caller EXCEPT ![g] = [Idle EXCEPT !.pc = "pause", !.attempt = caller[g].attempt + 1,
                                                   !.expired = caller[g].expired]]
PauseExpires(g) ==
    /\ At(g, "pause") /\ caller[g].expired /\ End(g, "error")
    /\ UNCHANGED <<clientVars, pendingCalls, serverSide, mismarked, closeReset>>

CloseClient ==
    /\ ~clientClosed /\ clientClosed' = TRUE
    /\ UNCHANGED <<generation, initializedGen, current, pendingCalls, serverSide, caller, mismarked, closeReset>>
CloseResets == clientClosed /\ ~closeReset /\ closeReset' = TRUE /\ ResetClient /\ UNCHANGED <<clientClosed, caller>>

GoroutineStep(g) ==
    \/ InitializeKnown(g) \/ InitializeNeeded(g) \/ InitializeMarks(g) \/ InitializeLost(g)
    \/ NotifyDone(g) \/ NotifyFails(g) \/ NotifyExpires(g)
    \/ StartProcess(g) \/ StartFails(g) \/ StartFound(g) \/ StartRefused(g) \/ Register(g) \/ RegisterGone(g)
    \/ WriteDone(g) \/ WriteFails(g) \/ WriteExpires(g)
    \/ WaitReply(g) \/ WaitRefused(g) \/ WaitClosed(g) \/ WaitExpires(g) \/ Reset(g) \/ PauseExpires(g)
McpNext ==
    \/ \E g \in Goroutines : GoroutineStep(g) \/ ContextExpires(g)
    \/ \E r \in inbox : Serve(r) \/ Ignore(r)
    \/ ProcessDies \/ FailGeneration \/ ReadLoopEnds \/ CloseClient \/ CloseResets

(* Goroutines run, a context with a deadline expires, and the loops of a dead process notice. *)
McpFairness ==
    /\ \A g \in Goroutines : WF_mcpVars(GoroutineStep(g))
    /\ \A g \in Callers : WF_mcpVars(ContextExpires(g))
    /\ WF_mcpVars(FailGeneration)

-----------------------------------------------------------------------------
McpTypeOK ==
    /\ current \in {None} \cup 1 .. generation /\ initializedGen \in 0 .. generation
    /\ alive \subseteq 1 .. generation /\ \A id \in pendingCalls : id[1] \in Goroutines
    /\ \A g \in Goroutines : caller[g].attempt \in 1 .. Attempts(g)

(* A tool runs at most once for one Call, however its process dies, is restarted by others   *)
(* or answers late: a call is never sent again.                                              *)
CallOnce == \A g \in Callers : Cardinality({e \in executed : e[1] = g}) <= 1

(* At most the process of now runs beside ones that are about to end, and none runs once the *)
(* client is closed, whoever was restarting it.  A process whose output ended while it lived *)
(* is not stopped by anyone.                                                                 *)
NoLeakedProcess ==
    /\ closeReset => alive \subseteq deaf \cup forgotten
    /\ \A p \in alive : p = current \/ p \in deaf \cup forgotten

(* A request goes to a process that was greeted, when the caller found it marked and it has  *)
(* not been replaced since; the mark itself is wrong after a restart during initialize.      *)
GreetedFirst ==
    \A r \in inbox : r.method # "initialize" /\ caller[r.from].seen = r.gen /\ r.gen \notin mismarked => r.gen \in greeted

(* A waiter is never forgotten: a goroutine waits on a process that still runs or whose end  *)
(* has still to be noticed.                                                                  *)
WaitersNoticed ==
    \A g \in Goroutines : In(g, "Wait") /\ Id(g) \in pendingCalls => caller[g].gen = current

McpInv == McpTypeOK /\ CallOnce /\ NoLeakedProcess /\ GreetedFirst /\ WaitersNoticed

(* Every Call returns, however often its process is replaced: its context has a deadline.    *)
CallsReturn == \A g \in Callers : <>At(g, "done")
=============================================================================
