---------------------------- MODULE GatewayRuntime ----------------------------
(***************************************************************************)
(* A process from start to exit: buildRuntime, the commands run, chat and  *)
(* gateway, and Close, of cmd/haosbot/runtime.go and of the smaller        *)
(* cmd/nanobot/runtime.go; the workers of cmd/haosbot/multiagent.go and    *)
(* the loading of MCP servers.                                             *)
(*                                                                         *)
(* A resource is open from the step that made it until its Close.  Work    *)
(* (a turn, an automation, a request, a projection, a delegated task) runs *)
(* beside the main goroutine and uses resources; Close waits for some of   *)
(* it without limit, for some of it until a deadline, for the rest not.    *)
(***************************************************************************)
EXTENDS Integers, Sequences, FiniteSets, SequencesExt

CONSTANT
    GwSetups        \* [product, cmd, lines, faults, work, multi]: the program,
                    \* its command, the lines typed at a chat, how many steps may
                    \* fail, how much work may begin, whether agents are enabled

VARIABLES
    gwSetup,        \* the process of this behaviour
    gwMain,         \* build, serve, select, prompt, turn, closing, ended
    gwStep,         \* the step of buildRuntime or cmdGateway main is at
    held,           \* the resources that are open
    toClose,        \* what is still to be closed, in order
    running,        \* the work in progress
    server,         \* none, starting, listening, down: apiServer
    loopRuns,       \* loop.Run has not returned
    errCh,          \* results sent to errCh and not received
    gwSignal,       \* SIGINT or SIGTERM arrived
    typed,          \* lines read at the prompt
    begun,          \* how much work began
    gwFaults,       \* how many steps may still fail
    gaveUp,         \* history: the deadlines that expired during shutdown
    cutOff          \* history: <<work, resource>> closed under it

gwVars == <<gwSetup, gwMain, gwStep, held, toClose, running, server, loopRuns, errCh,
            gwSignal, typed, begun, gwFaults, gaveUp, cutOff>>

(***************************************************************************)
(* The steps.  undo is what the error return of a step closes itself;      *)
(* the MCP managers are closed by a deferred function besides.             *)
(***************************************************************************)
Step(opens, fails, undo) == [opens |-> opens, fails |-> fails, undo |-> undo]

StoresUndo == <<"fabric", "pool", "bus">>
LoopUndo == <<"scheduler", "projections", "memoryMD", "pool", "fabric", "bus">>

\* The bus left open when the fabric cannot be opened.
haosbotStepsLeaky == <<
    Step({}, TRUE, <<>>), Step({}, TRUE, <<>>), Step({}, TRUE, <<>>),
    Step({"mcp", "stdio"}, FALSE, <<>>), Step({}, TRUE, <<>>), Step({"bus"}, FALSE, <<>>),
    Step({}, TRUE, <<"bus">>), Step({"pool"}, FALSE, <<>>), Step({"fabric"}, TRUE, <<"pool">>),
    Step({}, TRUE, StoresUndo), Step({}, TRUE, StoresUndo), Step({}, TRUE, StoresUndo),
    Step({"projections"}, TRUE, StoresUndo), Step({"memoryMD"}, FALSE, <<>>),
    Step({}, TRUE, LoopUndo), Step({}, TRUE, LoopUndo), Step({}, TRUE, LoopUndo) >>
haosbotSteps == <<
    Step({}, TRUE, <<>>),                       \* workspace and templates
    Step({}, TRUE, <<>>),                       \* sessions outside the workspace
    Step({}, TRUE, <<>>),                       \* resolveProvider
    Step({"mcp", "stdio"}, FALSE, <<>>),        \* tools and MCP servers
    Step({}, TRUE, <<>>),                       \* scheduler.Load
    Step({"bus"}, FALSE, <<>>),
    Step({}, TRUE, <<"bus">>),                  \* resolveGraphEmbedder
    Step({"pool"}, FALSE, <<>>),
    Step({"fabric"}, TRUE, <<"pool", "bus">>),
    Step({}, TRUE, StoresUndo),                 \* migrateLegacyGraphOutbox
    Step({}, TRUE, StoresUndo),                 \* ensureScopedGraphProjection
    Step({}, TRUE, StoresUndo),                 \* ensureSafeLegacyScopeMigration
    Step({"projections"}, TRUE, StoresUndo),
    Step({"memoryMD"}, FALSE, <<>>),
    Step({}, TRUE, LoopUndo),                   \* NewLoop
    Step({}, TRUE, LoopUndo),                   \* RecoverPendingGraphMemory
    Step({}, TRUE, LoopUndo) >>                 \* buildMultiAgentManager

nanobotSteps == <<
    Step({}, TRUE, <<>>), Step({}, TRUE, <<>>), Step({}, TRUE, <<>>),
    Step({"bus"}, FALSE, <<>>), Step({}, TRUE, <<"bus">>) >>

BuildSteps == IF gwSetup.product = "haosbot" THEN haosbotSteps ELSE nanobotSteps

\* closeF.
closeFPoolFirst == <<"triggers", "scheduler", "mcp", "stdio", "pool", "projections", "memoryMD",
                     "fabric", "bus">>
closeF == <<"triggers", "scheduler", "mcp", "stdio", "projections", "memoryMD", "pool",
            "fabric", "bus">>

CloseAll == IF gwSetup.product = "haosbot" THEN closeF ELSE <<"bus">>

\* What is deferred once the channels are there: StopAll before Close.
Deferred == IF gwSetup.product = "haosbot" THEN <<"channels">> \o CloseAll ELSE CloseAll

\* cmdGateway before the servers: automations, scheduler, triggers, channels, and
\* resolveProvider a second time.
ServeSteps ==
    (IF gwSetup.product = "nanobot" THEN <<>>
     ELSE << Step({}, TRUE, CloseAll), Step({"scheduler"}, TRUE, CloseAll),
             Step({"triggers"}, TRUE, CloseAll), Step({"channels"}, FALSE, <<>>) >>)
    \o << Step({}, TRUE, Deferred) >>

(***************************************************************************)
(* The work, and what it uses.                                             *)
(***************************************************************************)
TurnUses == {"bus", "pool", "fabric", "mcp", "stdio"}

Uses(w) == CASE w = "projection" -> {"pool", "fabric"}
             [] w = "sync"       -> {"pool"}
             [] OTHER            -> TurnUses

\* What holds the work back from beginning, or lets it.
MayBegin(w) ==
    CASE w = "projection" -> "projections" \in held
      [] w = "sync"       -> "memoryMD" \in held
      [] w = "cron"       -> "scheduler" \in held
      [] w = "trigger"    -> "triggers" \in held
      [] w = "request"    -> server = "listening"
      [] w = "turn"       -> loopRuns /\ ~gwSignal
      [] w = "task"       -> /\ gwSetup.multi
                             /\ \/ gwMain = "turn"
                                \/ running \cap {"turn", "cron", "trigger", "request"} # {}

Works == {"projection", "sync", "cron", "trigger", "request", "turn", "task"}

\* Whose end a Close waits for.
AwaitedBy(r) == CASE r = "projections" -> "projection" [] r = "memoryMD" -> "sync"
                  [] r = "scheduler" -> "cron" [] r = "triggers" -> "trigger"
                  [] r = "api" -> "request" [] OTHER -> ""

\* The deadline a wait is under: one for closeF, one for Shutdown, or none.
Limit(r) == CASE r \in {"scheduler", "triggers"} -> "close" [] r = "api" -> "shutdown"
              [] OTHER -> ""

GwInit ==
    /\ gwSetup \in GwSetups
    /\ gwMain = "build" /\ gwStep = 1 /\ held = {} /\ toClose = <<>> /\ running = {}
    /\ server = "none" /\ loopRuns = FALSE /\ errCh = 0 /\ gwSignal = FALSE /\ typed = 0
    /\ begun = 0 /\ gwFaults = gwSetup.faults /\ gaveUp = {} /\ cutOff = {}

BackgroundKept == UNCHANGED <<running, server, loopRuns, errCh, gwSignal, typed, begun, gaveUp, cutOff>>

\* One step of buildRuntime; the command goes on after the last.
BuildStep ==
    /\ gwMain = "build"
    /\ held' = held \cup BuildSteps[gwStep].opens
    /\ IF gwStep < Len(BuildSteps) THEN gwStep' = gwStep + 1 /\ UNCHANGED gwMain
       ELSE /\ gwStep' = 1
            /\ gwMain' = CASE gwSetup.cmd = "run"  -> "turn"
                           [] gwSetup.cmd = "chat" -> "prompt"
                           [] OTHER                -> "serve"
    /\ UNCHANGED <<gwSetup, toClose, gwFaults>> /\ BackgroundKept

\* The error returns of buildRuntime, with the deferred close of the managers.
BuildFails ==
    /\ gwMain = "build" /\ BuildSteps[gwStep].fails
    /\ gwFaults > 0 /\ gwFaults' = gwFaults - 1
    /\ gwMain' = "closing"
    /\ toClose' = BuildSteps[gwStep].undo \o (IF "mcp" \in held THEN <<"mcp", "stdio">> ELSE <<>>)
    /\ UNCHANGED <<gwSetup, gwStep, held>> /\ BackgroundKept

\* cmdGateway up to the goroutines it starts.
ServeStep ==
    /\ gwMain = "serve" /\ gwStep <= Len(ServeSteps)
    /\ held' = held \cup ServeSteps[gwStep].opens
    /\ gwStep' = gwStep + 1
    /\ UNCHANGED <<gwSetup, gwMain, toClose, gwFaults>> /\ BackgroundKept

ServeFails ==
    /\ gwMain = "serve" /\ gwStep <= Len(ServeSteps) /\ ServeSteps[gwStep].fails
    /\ gwFaults > 0 /\ gwFaults' = gwFaults - 1
    /\ gwMain' = "closing" /\ toClose' = ServeSteps[gwStep].undo
    /\ UNCHANGED <<gwSetup, gwStep, held>> /\ BackgroundKept

Spawn ==
    /\ gwMain = "serve" /\ gwStep > Len(ServeSteps)
    /\ gwMain' = "select" /\ server' = "starting" /\ loopRuns' = TRUE
    /\ UNCHANGED <<gwSetup, gwStep, held, toClose, running, errCh, gwSignal, typed, begun,
                   gwFaults, gaveUp, cutOff>>

(***************************************************************************)
(* The goroutines of the gateway.                                          *)
(***************************************************************************)
ApiListens ==
    /\ server = "starting" /\ gwMain # "ended"
    /\ server' = "listening" /\ held' = held \cup {"api"}
    /\ UNCHANGED <<gwSetup, gwMain, gwStep, toClose, running, loopRuns, errCh, gwSignal, typed,
                   begun, gwFaults, gaveUp, cutOff>>

ApiFails ==
    /\ server = "starting" /\ gwMain # "ended" /\ gwFaults > 0 /\ gwFaults' = gwFaults - 1
    /\ server' = "down" /\ errCh' = errCh + 1
    /\ UNCHANGED <<gwSetup, gwMain, gwStep, held, toClose, running, loopRuns, gwSignal, typed,
                   begun, gaveUp, cutOff>>

\* loop.Run returns, between turns, when its context is done or the bus closed.
LoopReturns ==
    /\ loopRuns /\ "turn" \notin running /\ (gwSignal \/ "bus" \notin held) /\ gwMain # "ended"
    /\ loopRuns' = FALSE /\ errCh' = errCh + 1
    /\ UNCHANGED <<gwSetup, gwMain, gwStep, held, toClose, running, server, gwSignal, typed,
                   begun, gwFaults, gaveUp, cutOff>>

WorkBegins(w) ==
    /\ gwMain # "ended" /\ w \notin running /\ MayBegin(w) /\ begun < gwSetup.work
    /\ ~(toClose # <<>> /\ w = AwaitedBy(Head(toClose)))
    /\ running' = running \cup {w} /\ begun' = begun + 1
    /\ UNCHANGED <<gwSetup, gwMain, gwStep, held, toClose, server, loopRuns, errCh, gwSignal,
                   typed, gwFaults, gaveUp, cutOff>>

WorkEnds(w) ==
    /\ w \in running /\ gwMain # "ended"
    /\ running' = running \ {w}
    /\ UNCHANGED <<gwSetup, gwMain, gwStep, held, toClose, server, loopRuns, errCh, gwSignal,
                   typed, begun, gwFaults, gaveUp, cutOff>>

SignalArrives ==
    /\ ~gwSignal /\ gwMain \in {"select", "prompt", "turn"} /\ gwSignal' = TRUE
    /\ UNCHANGED <<gwSetup, gwMain, gwStep, held, toClose, running, server, loopRuns, errCh,
                   typed, begun, gwFaults, gaveUp, cutOff>>

\* The select of cmdGateway: Shutdown only when the signal is what woke it.
SelectSignal ==
    /\ gwMain = "select" /\ gwSignal
    /\ gwMain' = "closing" /\ toClose' = <<"api">> \o Deferred
    /\ UNCHANGED <<gwSetup, gwStep, held, gwFaults>> /\ BackgroundKept

SelectError ==
    /\ gwMain = "select" /\ errCh > 0
    /\ gwMain' = "closing" /\ toClose' = Deferred /\ errCh' = errCh - 1
    /\ UNCHANGED <<gwSetup, gwStep, held, running, server, loopRuns, gwSignal, typed, begun,
                   gwFaults, gaveUp, cutOff>>

(***************************************************************************)
(* run and chat: main takes the turn itself.                               *)
(***************************************************************************)
MainTurnEnds ==
    /\ gwMain = "turn"
    /\ \/ gwMain' = "closing" /\ toClose' = CloseAll /\ (gwSetup.cmd = "run" \/ gwSignal)
       \/ gwMain' = "prompt" /\ gwSetup.cmd = "chat" /\ UNCHANGED toClose
    /\ UNCHANGED <<gwSetup, gwStep, held, gwFaults>> /\ BackgroundKept

\* A line at the prompt: a message, a blank, or the end (/exit, end of file).
ChatLine(kind) ==
    /\ gwMain = "prompt"
    /\ IF typed < gwSetup.lines THEN typed' = typed + 1 ELSE kind = "end" /\ UNCHANGED typed
    /\ CASE kind = "message" -> gwMain' = "turn" /\ UNCHANGED toClose
         [] kind = "blank"   -> UNCHANGED <<gwMain, toClose>>
         [] kind = "end"     -> gwMain' = "closing" /\ toClose' = CloseAll
    /\ UNCHANGED <<gwSetup, gwStep, held, running, server, loopRuns, errCh, gwSignal, begun,
                   gwFaults, gaveUp, cutOff>>

(***************************************************************************)
(* Closing.                                                                *)
(***************************************************************************)
\* Shutdown before Start assigned the server does nothing.
Closes(r) ==
    /\ held' = held \ {r}
    /\ server' = IF r = "api" /\ server = "listening" THEN "down" ELSE server
    /\ cutOff' = cutOff \cup {<<w, r>> : w \in {v \in running : r \in held /\ r \in Uses(v)}}

CloseHead ==
    /\ gwMain = "closing" /\ toClose # <<>>
    /\ LET r == Head(toClose)
       IN  /\ AwaitedBy(r) \notin running \/ Limit(r) \in gaveUp
           /\ Closes(r)
    /\ toClose' = Tail(toClose)
    /\ UNCHANGED <<gwSetup, gwMain, gwStep, running, loopRuns, errCh, gwSignal, typed, begun,
                   gwFaults, gaveUp>>

\* The deadline of a shutdown passes while it waits.
DeadlinePasses ==
    /\ gwMain = "closing" /\ toClose # <<>>
    /\ LET r == Head(toClose)
       IN  AwaitedBy(r) \in running /\ Limit(r) \notin gaveUp \cup {""}
           /\ gaveUp' = gaveUp \cup {Limit(r)}
    /\ UNCHANGED <<gwSetup, gwMain, gwStep, held, toClose, running, server, loopRuns, errCh,
                   gwSignal, typed, begun, gwFaults, cutOff>>

\* The process exits, whatever still runs.
Exits ==
    /\ gwMain = "closing" /\ toClose = <<>> /\ gwMain' = "ended"
    /\ UNCHANGED <<gwSetup, gwStep, held, toClose, gwFaults>> /\ BackgroundKept

GwNext ==
    \/ BuildStep \/ BuildFails \/ ServeStep \/ ServeFails \/ Spawn
    \/ ApiListens \/ ApiFails \/ LoopReturns \/ SignalArrives \/ SelectSignal \/ SelectError
    \/ MainTurnEnds \/ \E kind \in {"message", "blank", "end"} : ChatLine(kind)
    \/ \E w \in Works : WorkBegins(w) \/ WorkEnds(w)
    \/ CloseHead \/ DeadlinePasses \/ Exits

\* Main never rests of itself; projections and syncs end, their calls having
\* deadlines of their own; nothing is owed by turns, requests and tasks.
GwProgress ==
    \/ BuildStep \/ ServeStep \/ Spawn \/ SelectSignal \/ SelectError \/ CloseHead
    \/ DeadlinePasses \/ Exits \/ WorkEnds("projection") \/ WorkEnds("sync")

GwAtRest ==
    \/ gwMain \in {"ended", "prompt", "turn"}
    \/ gwMain = "select" /\ ~gwSignal /\ errCh = 0

(***************************************************************************)
(* Provider routing.  A model name is the sequence of its parts between    *)
(* slashes; "" and "auto" name no provider.                                *)
(***************************************************************************)
Supported == {"openai", "openrouter"}       \* the cases of providerConfigFor

Unpinned == {"", "auto"}

resolveProvider(provider, model) ==
    LET prefix == IF Len(model) > 1 THEN Head(model) ELSE ""
        name   == IF provider \notin Unpinned THEN provider
                  ELSE IF prefix # "" THEN prefix ELSE "openai"
    IN  IF name \notin Supported THEN [ok |-> FALSE, name |-> name, model |-> <<>>]
        ELSE [ok |-> TRUE, name |-> name,
              model |-> IF prefix = name THEN Tail(model) ELSE model]

\* getLocalLoop: a worker inherits the gateway's routing unless its profile says
\* otherwise; a model of its own chooses its provider unless one is pinned.
WorkerRoutingPinned(gateway, profile) ==
    LET model    == IF profile.model # <<>> THEN profile.model ELSE gateway.model
        provider == IF profile.provider # "" THEN profile.provider ELSE gateway.provider
    IN  resolveProvider(provider, model)
WorkerRouting(gateway, profile) ==
    LET model    == IF profile.model # <<>> THEN profile.model ELSE gateway.model
        provider == IF profile.provider # "" THEN profile.provider
                    ELSE IF profile.model # <<>> THEN "auto" ELSE gateway.provider
    IN  resolveProvider(provider, model)

\* The tools of a worker: names of the list are trimmed, "*" or no name is all.
profileAllowsTool(allow, name) == allow = <<>> \/ {"*", name} \cap Range(allow) # {}

subsetToolRegistry(base, allow) ==
    IF allow = <<>> \/ "*" \in Range(allow) THEN base
    ELSE base \cap {a \in Range(allow) : a # ""}

\* remoteTaskWithScopedRecall: the prompt sent, and the failure that drops the recall.
RemotePrompt(prompt, allow, recall) ==
    IF ~profileAllowsTool(allow, "memory_search") \/ recall \in {"", "failed"} THEN <<prompt>>
    ELSE <<prompt, recall>>

\* The executor: what a worker's run gives, and what its memory is handed.
Executor(run) ==
    LET result == IF run.remote /\ run.blocked THEN "failed" ELSE run.result
    IN  IF result = "failed" THEN [result |-> "failed", kept |-> <<>>]
        ELSE IF result = "" THEN [result |-> "", kept |-> <<>>]
        ELSE IF ~run.namespace THEN [result |-> "failed", kept |-> <<>>]
        ELSE [result |-> result, kept |-> IF run.queue THEN <<run.prompt, result>> ELSE <<>>]

\* isWithin by filepath.Rel, for two clean absolute paths.
Rel(parent, child) ==
    LET shared == CHOOSE n \in 0 .. Len(parent) :
                     /\ n <= Len(child) /\ SubSeq(parent, 1, n) = SubSeq(child, 1, n)
                     /\ \A m \in n + 1 .. Len(parent) :
                           m > Len(child) \/ SubSeq(parent, 1, m) # SubSeq(child, 1, m)
    IN  [i \in 1 .. Len(parent) - shared |-> ".."] \o SubSeq(child, shared + 1, Len(child))

isWithin(child, parent) == Rel(parent, child) = <<>> \/ Head(Rel(parent, child)) # ".."

(***************************************************************************)
(* Properties.                                                             *)
(***************************************************************************)
TypeOK ==
    /\ gwSetup \in GwSetups /\ running \subseteq Works
    /\ gwMain \in {"build", "serve", "select", "prompt", "turn", "closing", "ended"}
    /\ held \subseteq Range(closeF) \cup {"channels", "api"}
    /\ errCh \in 0 .. 2 /\ server \in {"none", "starting", "listening", "down"}

\* However a process ends (a failed build, a failed start of the scheduler, an
\* error of a server, a signal) everything that was opened has been closed; only
\* the listener of the API may be left to the exit, when an error or the end of the
\* loop woke cmdGateway before the signal did or Shutdown came before Start.
NothingLeftOpen == gwMain = "ended" => held \subseteq {"api"}

\* A store, the bus or a tool server is closed under running work only if Close
\* does not wait for that work (a turn of the gateway's loop, a delegated task,
\* a request not drained) or the shared deadline passed while it waited for it: a
\* projection or a sync of MEMORY.md never sees the stores go.
ClosedUnderNobody ==
    \A pair \in cutOff :
       CASE pair[1] \in {"projection", "sync"} -> FALSE
         [] pair[1] \in {"cron", "trigger"}    -> "close" \in gaveUp
         [] OTHER                              -> TRUE

\* The process is built and torn down in order, NothingLeftOpen and ClosedUnderNobody.
RuntimeInv == TypeOK /\ NothingLeftOpen /\ ClosedUnderNobody

\* A worker whose profile names a model and no provider is routed as a gateway with
\* only that model would be, whatever the gateway pins; a pinned provider wins; and
\* the model sent does not repeat the provider's own prefix.
RoutingSound(gateway, profile) ==
    LET r == WorkerRouting(gateway, profile)
    IN  /\ profile.model # <<>> /\ profile.provider = "" =>
              r = resolveProvider("auto", profile.model)
        /\ r.ok /\ profile.provider \notin Unpinned => r.name = profile.provider
        /\ r.ok /\ gateway.provider = "auto" /\ profile.model = <<>> /\ profile.provider = "" =>
              Len(r.model) < Len(gateway.model) \/ Len(gateway.model) = 1

\* The two readings of a profile's list of tools agree for every tool, and a worker
\* never gets a tool the gateway lacks.
AllowanceAgrees(base, allow) ==
    subsetToolRegistry(base, allow) = {t \in base : profileAllowsTool(allow, t)}

\* What a worker's memory keeps is the delegated prompt and the result the parent got.
MemoryMatchesResult(run) ==
    LET e == Executor(run) IN e.kept # <<>> => e.kept = <<run.prompt, e.result>> /\ e.result # "failed"

\* The sessions' root is refused exactly when it lies below the workspace.
WithinIsPrefix(child, parent) == isWithin(child, parent) <=> IsPrefix(parent, child)
===============================================================================
