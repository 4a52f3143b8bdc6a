# TLA+ verification of haosbot

haosbot is a personal assistant gateway written in Go. Chat channels put messages
on a bus, an agent loop answers them with the help of a language model and of
tools, and around it there are a durable session store, a memory with derived
indexes, delegated sub-agents, a scheduler, local triggers, an HTTP API and an
A2A server. This directory holds a TLA+ model of these parts: goroutines,
crashes, failed writes, timeouts, redelivered messages and several processes, and
the pure functions between them.

Paths below are relative to the repository, `internal/` left out. `PROJECT.json`
maps every definition that models code to its lines, lists the components with
what is left out of each, and the main hazards line by line; a hazard without a
property is one the code does not master, and its note says how far it goes.

Contents: [parts](#the-parts-and-how-they-interact),
[modules](#modules-and-how-they-correspond-to-the-code), [runs](#runs),
[bounds](#bounds), [fairness](#fairness), [proofs](#proofs),
[divergences](#known-divergences), [limits](#what-is-only-model-checked-and-what-is-not-modelled).

## The parts and how they interact

Channels publish inbound messages on the bus and the agent loop consumes them,
one exclusive turn of a session at a time. A turn repairs and trims the
transcript, asks a provider over a stream, runs tools, and appends question and
answer to the session store. It hands the finished turn to the memory fabric and
publishes the answer on the bus, where the outbound dispatcher takes it and the
channel sends it. Projection workers take jobs from the fabric and write to graph
stores they acquire from a pool. The dream automation consumes a memory journal. What
fills it, the compaction of idle sessions, and the commits of the git store that
keeps the memory files are in the repository and are modelled, though no program
calls them yet. Tools
edit files, run commands, call other agents, delegate to the multi-agent manager
and edit cron jobs. The scheduler and the triggers run turns through a callback
into the loop. The HTTP API, the A2A server and the runtime of the two programs
hold references to all of them; shutdown is by contexts and an ordered close.

| Group | Correct when |
|---|---|
| bus, triggers, session files | nothing accepted is lost, doubled or reordered; files read as the transcript the callers were promised |
| stores: fabric, pool, namespaces, git | counters and pins are exact, what succeeded is applied, workspaces do not share sessions, commits stay reachable |
| loop and turn: gate, runner, provider stream, MCP | answers follow their own question, requests are acceptable to a provider, calls run once |
| memory: journal, dream, compaction | no entry leaves unseen, no message is forgotten or summarised twice |
| delegation, A2A | bounds kept, final states final, no circular wait, every task and stream ends |
| channels | events handled in order and once, answers go back where they came from, Start and Stop in any order |
| scheduler | due jobs run, recorded instants never again, one scheduler |
| services: tools, API, skills, programs | all or nothing, one answer for a request, nothing closed under work that uses it |

## Modules and how they correspond to the code

A critical section of a mutex, a SQLite transaction, or an operation under a file
lock is one action. An operation is split where the code drops the lock, where
another goroutine can act in between, and where a crash or a failed write can
cut it. Payloads are model values. Definitions whose comment begins with
"Mutant" or "A change" are plausible faults of the definition after them; no
specification uses them.

| Module | Models | Actions or functions |
|---|---|---|
| `Bus` | `bus/bus.go` | queues: `Publish`, `EnterConsume`, `ConsumeTakes/Sleeps/Wakes/ReportsClosed/Cancelled`, `TryConsumeOutbound`, `Close`; events: `Subscribe`, `Unsubscribe`, `PublishEvent`, `Visit`, `CallHandler`, `CloseHandlers` |
| `Triggers` | `triggers/service.go` | `Boot`, `Start`, `Enqueue`, `Update`, `LoopStep`, `Ticks`, `Drop`, `Close`, `Exit`, `Crash` |
| `Transcript` | what the comments of `session/session.go` promise | append, revise, reset |
| `SessionStore` | `session/session.go`, `store.go` | `Open`, `Evict`, `AppendMessagesDurable`, `AppendTorn`, `SetMessage`, `CommitSummaryCheckpoint`, `Save`, `SaveCut`, `Clear`, `CompactJournal`, `Delete`, `Crash` |
| `SessionRecords` | `session/history.go`, records and sidecar of `session.go`, `keys.go`, `isoformat.go`, `transient.go` | replay, load and save, listing, names, time stamps as functions; temporary sessions: `TrOpen`, `TrAdd`, `TrRelease`, `TrDelete` |
| `Namespaces` | `NewStore` of `session/store.go`, `lock.go` | `NewStore`, `Resolving`, `Claiming`, `SaveSession`, `Close`, `NsCrash`, what users do to directories |
| `GraphPool` | `cmd/haosbot/graph_pool.go` | `AcquireHit/Miss`, `Release`, `Evict`, `EvictDone`, `CloseDetached`, `ResetAll`, `ResetCloseFails`, `ResetRemovesDir`, `Close`, `Returned` |
| `MemoryFabric` | `memoryfabric/store.go`, projection manager, administration | `AppendTurn`, worker steps, `LeaseExpires`, `RetryDue`, `RetryDead`, `Rebuild`, `RequeueProjection`, `Prune*`, `Restart` |
| `GitStore` | `gitstore` | `InitRepository`, `AutoCommit`, `Committing` (index, commit object, HEAD read, compared and written), `Revert`, `EditFile`, `GitCrash` |
| `GitAlgorithms` | `gitstore/pydifflib.go`, `worktree.go`, `pack.go`, `gitignore.go`, `filediff` | matching blocks, opcodes, tree changes, deltas, ignore rules |
| `MemoryHistory` | `memory/store.go`, `dream.go`; `consolidator.go`, `archiver.go` | journal: appends, opening with migration, dream, compaction, `Crash`; idle sessions: `Compacting`, `TurnAppends`, `ConsCrash` |
| `AgentLoop` | `agent/loop.go` | `Register`, `Turn`, `Stop`, `SummaryJob`, `HandOver`, `Crash`, `RecoverOne`, `RecoverSave` |
| `Runner` | `agent/runner.go`, `governance.go`, role alternation of `openai/request.go` | repairs and fit of a transcript as functions; `RunStep` (request, retry, branch on the response, tool batches, finalise), `Cancel` |
| `ProviderStream` | `openai/stream.go`, `consumeStream` of `runner.go` | server, reader with idle timer, consumer |
| `MessageWire` | `telegram/split.go`, `channel.go`, `client.go`; `openai/response.go`, `request.go`; `agent/toolresult.go` | splitting, responses, calls in a text as functions; `SendStarts`, `SdRequest`, `Goes`, `SdCancelled`; `TpStep`, `TimePasses` |
| `MCP` | `mcp/stdio.go` | goroutine steps, `Serve`, `Ignore`, `ProcessDies`, `ReadLoopEnds`, `Forget`, `FailGeneration`, `CloseClient`, `CloseResets` |
| `MultiAgent` | `multiagent/manager.go`, `tool.go` | `Delegate*`, `RunStep`, `Return`, `Yield`, `WaitFor`, `CallStep`, `Cancel`, `Deadline`, `List`, `Restart` |
| `A2ATasks` | `a2a/handler.go`, `stream.go` | the steps of send, stream, subscribe, get, list and cancel requests, `ClientLeaves` |
| `Outbound` | `channels/manager_outbound.go`, stops of `manager.go` | `Dispatch` (take, gate, coalesce, suppress, admit, register), `Work` (wait, send, fail, retry, finish), `StopAll`, `StopDispatcher`, `StopChannel` |
| `ChannelManager` | `channels/manager.go`, gateway part of `cmd/haosbot/runtime.go`; `pairing/store.go`, `reply.go`, `HandleMessage` of `channels/base.go` | lifecycle: `StartAllStep`, `StopStep`, `ChannelStep`, `StartFails`, `RemoveChannel`, `GatewaySignal`, `StopContextExpires`; pairing: load and save of each operation, messages, commands, `FileCorrupted`, `ProcessDies`, `Tick` |
| `Telegram` | inbound half of `channels/telegram` | lifecycle, polling, webhook, buffers and workers, Stop, `Crash` |
| `AdapterLoops` | sockets: discord, slack, mattermost, napcat, signal, dingtalk, wecom; polls and webhooks: matrix, email, weixin, mochat, whatsapp, linear, feishu, msteams | `ReaderStep`, `heartbeat`, `StrayReturns`, `StopStep`, what the platform does; `PlatformPosts`, `JobStep`, `DelStop`, `DeliveryDies` |
| `Adapters` | the filters and Send of all of these | one function for each adapter |
| `WebSocketServer` | `channels/websocket` | `Connects`, `HandlerStep`, `ReadsClient`, `enqueue`, `writeLoop`, `ServerStep`, `ServeFails`, both Stops |
| `Cron` | `cron/service.go`, parts of `schedule.go`, `tool.go` | `Load`, `UpsertSystemJob`, `Start`, `Close`, `LoopStep`, `RunEnds`, the operations, `Exit`, `Crash`, `Tick` |
| `BuiltinTools` | `tools/builtin`: apply_patch, edit_file, write_file, read_file, list_dir, paths; exec, python_exec, a2a_call; `tools/tool.go` | files: `PlanEdit`, `EditPlan`, `WritePlan`, `Snapshot`, `WriteOpen`, `WriteFill`, paging, listing, path policy; the life of a command and its group; a call to a peer; the registry |
| `GatewayRuntime` | `cmd/haosbot/runtime.go`, `multiagent.go`, `cmd/nanobot/runtime.go` | building, serving, signals, the select, work beside it, closing |
| `HttpApi` | `api/openai_compat.go`, `config_api.go`, `ready.go`, part of `webui_data.go`, `config/loader.go` | `ChatStep`, `PostConfig`, `Restart`, `PrefStep` |
| `Skills` | `skills/loader.go`, `plugin.go`, `marketplace` | listing, activation; install, uninstall and edit of a skill |

Compositions. `SessionStore` is shown to implement `Transcript`: the log is what a
reader would load from the two files. `Runner` sends what its repairs prepare;
`ProviderStream` joins the reader of the client with the consumer in the runner;
`AdapterLoops` extends `Adapters` and passes its events through the filters there;
`ChannelManager` contains the gateway that starts and stops the manager; `GatewayRuntime` contains the closes of all the stores. The `MC*`
modules hold the instances for TLC: the small ones extend one module, `MCBus`,
`MCStores`, `MCMemory`, `MCChannels` and `MCServices` hold several components that
share no state, and a variable `which` says which of them a behaviour is about.

Most modules take a set of setups and choose one member in `Init`: a setup is a
configuration (limits, policies) together with an environment (which operations
are used, what may fail and how often). One run then covers several
configurations, each small, instead of their product. Properties that hold in
some environments only say so in an antecedent on the setup or on a history
variable; what lies outside it is in [known divergences](#known-divergences).

## Runs

| Run | Shows |
|---|---|
| `bus` | `BusInv`: capacities, an exact consumer count, and one delivery for every publish reported as queued, even if the producer retries every error. `NoMissedWakeup`, `FifoNoLoss`. `KeptInv`: an event reaches whoever stays subscribed, once and in order; a trigger delivery is always in one of its directories, no attempt is burned by a shutdown, executions are bounded by what failed; a cached session misses nothing and at most one message is lost for each fault. `ImplementsTranscript`. `Served`: Close brings every consumer back, no message waits behind a sleeper, every delivery is executed or given up. |
| `stores` | `PoolInv`: exact pins, an excess within the operations in flight, an exact over-limit flag. `HeldStoreStaysOpen`, `OverLimitOnlyWhenPinned`. `StoresInv`: counters of the outbox equal to a recount, one worker for a job while leases outlast projections, what succeeded is in the index; workspaces share no namespace and find their sessions; a returned commit stays in the log. `StoreSteps`: admission within the budgets, finished jobs reopened by the administration only, prune spares unfinished records, a detached store given up only by a reset whose close failed, HEAD holds what a call staged. `StoresSettle`. |
| `multiagent` | `BoundsKept`: semaphores, a slot for every executor that works, tasks and children in memory, and a nesting of single blocking calls for one's own children never blocks itself. `DoneIsFinal`, `EveryTaskEnds`. |
| `multiagent_parallel_calls` | violation of `NoCircularWait`: two blocking calls of one executor share one slot. |
| `loop` | `TranscriptInv`: answers follow their own questions, only a turn that was cut short leaves a question open, a summary covers what it hides and nothing that was cleared; until a goroutine writes what it read before it was overtaken. `TurnsRemembered`, `GateReleased`. |
| `outbound` | `DispatchInv`: one send for a chat until the sweep of a shutdown, exact slots, quiet after StopAll. `DeliveryInv`: order of a chat until the sweep, merging, dropping and suppressing. `DispatcherProgress`. |
| `cron` | `SchedulerInv`: limit, a file at most one run behind and known to the holder of the lease, one scheduler, quiet after Close, no sleep past a job. `LaunchesRight`: launches only as the misfire policy allows, and never twice. `OccurrencesKept`: a due job is launched (`DueIsRun`), a missed instant that the policy keeps leaves the file only once it is (`MissedIsFired`), a repeated minute runs once (`WallClockOnce`). |
| `cron_system_misfire` | violation of `MissedIsFired`: system jobs are upserted with a new instant before missed ones are looked for. |
| `a2a` | `A2AInv`: slots accounted for, no terminal event missed, a running turn cancellable, pages complete unless a task left the listing. `FinalUnlessOvertaken`: a final state gives way only to a request that tested the task before it was final. `StreamsEnd`. |
| `memory` | `MemoryInv`: cursors increase, entries leave the journal only after Dream saw them, compaction forgets no message and summarises none twice. `TurnInv`: requests acceptable to a provider, answers whole, tools exclusive; an accepted answer is complete and is what was shown; an MCP call runs once, on a process that was greeted; a damaged transcript is repaired. `TurnEnds`. |
| `channels` | `IntakeInv`: Telegram updates in order, once, lost only by Stop; no socket outlives its channel and what is acknowledged was handled; nothing the platform believes delivered is missing. `ServingInv`: approvals as decided; a status that tells the truth; WebSocket places, order, a complete stop. `FiltersSound`: an answer goes back where the question came from and the bot never hears itself. `ChannelsSettle`. |
| `services` | `ToolsInv`: patches all or nothing, commands refused are not run and their group dies at a deadline, parts of a message shown in order and once, references to tool results. `OpenDiscardsOldest`. `HostInv`: nothing left open or closed under work that uses it, one answer for a request, no secret or preference lost, a plugin enabled only by its user and in the version they enabled, no skill half installed. `TextsSound` and `RecordsSound`: the pure functions against reference definitions. `ServicesSettle`. |

Deadlock is checked in `loop`, `outbound`, `cron` and `cron_system_misfire`. In the
others the messages, tasks or faults of an instance are used up and the component
is then at rest for good.

## Bounds

| Module | Bounds | Why they are enough for the cases of interest |
|---|---|---|
| `Bus` | 2 consumers, 3 messages, capacity 1 in, unbounded out; 3 handlers, 1 dispatch | two sleepers on different queues and a publish for one of them; a full queue and a retry; a handler removed before, at and after its turn |
| `Triggers` | 2 deliveries, or 3 with one malformed, 2 attempts, 1 fault, 1 crash, 1 shutdown | a retry, a retry used up, and an interruption of each |
| `SessionStore` | 3 messages in batches of 1 or 2, 1 summary, 2 processes, 2 faults | overlaps of journal and file of every length up to 2; a fault after a fault |
| `GraphPool` | 3 goroutines, 3 namespaces opened once each, a limit of 2 | an excess, an eviction, and a reset that has two stores to close and fails at the first; reopening is covered by the proofs |
| `MemoryFabric` | 2 records, 2 workers of one projection, 1 request at a time; budgets of 1 job or 2 bytes, 1 or 2 attempts, 1 or 2 faults | the budget is reached by the second record; a lease passes from one worker to the other |
| `Namespaces` | 2 processes, 3 paths, 3 identities, 2 changes by users, crashes | a copy, a move and a lost identity against a process that is resolving |
| `GitStore` | 2 clients, 2 files, 3 commits, 1 edit, 1 crash | two commits that overlap, a torn index, a revert |
| `MemoryHistory` | 4 entries, an appender beside Dream, 1 crash; 4 messages, 2 compactors, 4 compactions, 2 losses | an append between the read and the rewrite; a turn during a compaction |
| `AgentLoop` | 2 or 3 requests, 1 crash, 1 failure; goroutines overtaken between a test and the step it guards, or not | a turn, a background task of it, and a request that meets it; a stale commit or write and what follows it |
| `Runner` | 2 to 5 iterations, 3 attempts, batches of 4 calls | every branch, every retry limit, a batch cut by an exclusive call |
| `ProviderStream` | 4 scripts of up to 9 lines | reasoning, two interleaved calls, an error, a stream without an end |
| `MCP` | a lister and a caller, 1 fault, Close | a restart during the greeting of another goroutine |
| `MultiAgent` | 2 or 3 tasks, 2 profiles, 1 slot, 1 or 2 parallel calls, 1 restart | one slot makes every wait visible; three tasks allow a nesting beside a third |
| `A2ATasks` | 3 requests, lists with and without a filter on the state, 1 or 2 tasks, retention of 1 to 3, buffers of 1 or 2 | a cancel, a completion and a subscription of one task; a full store and a full buffer |
| `Outbound` | 4 messages, 2 chats, 2 streams, 2 slots; 3 messages with 1 failed send, or of one chat under a shutdown | a stream interrupted by another stream and by another chat; a full dispatcher; a sweep that ends three queued tasks in any order |
| channels | 2 or 3 events, 1 or 2 faults, 2 workers, 2 clients, 2 senders; every adapter in its own setup | a redelivery that overlaps the first attempt, Stop at every step |
| `Cron` | 2 jobs, a clock of 3 to 7 ticks, 1 or 2 slots, 2 failed saves, 1 crash, 2 processes | two periods of a job, a crash between run and save, a clock set back by two ticks |
| services | 2 or 3 callers, listers or actors, 1 to 3 faults | a call between the plan and the write of another; a crash at every step of an installation |
| functions | sequences of up to 3 to 5 elements over 2 to 7 letters | every shape the branches of the code tell apart |

Every bound is a constant or a field of a setup, described where it is declared.
Symmetry is not used, for the runs check liveness.

## Fairness

* A goroutine that can run does, and Go's mutexes do not starve: weak fairness of
  the steps of a goroutine inside an operation.
* Time passes: timers, leases, deadlines and the clock, weak fairness.
* `select` draws among what is ready: where the end of a context is one of the
  cases, strong fairness of that case (`LoopStops` of `Triggers`). An executor
  whose context is done returns although it may start calls meanwhile, for the
  loop tests its context before every turn (strong fairness in `MultiAgent`).
* Dream is retried at each of its hours, so it completes unless it fails for ever
  (strong fairness of `DreamCompleted`); that it does is an assumption.
* A run of a job and of a trigger ends, for the code gives each a timeout; a send
  ends, or hangs until it is cancelled (`hangs` in `Outbound`). A platform
  repeats a webhook that was not answered with success (`PlatformPosts`).
* Nothing is assumed of producers, users, the administration, operators who
  cancel, model servers, or of whether anybody releases a store or calls Close.

## Proofs

All of these hold for every value of the constants that satisfies the named
assumption of the module; the provers check them to the last leaf. Each rests on
an inductive invariant, kept by one lemma or step for every action; the counting
is done by lemmas on finite sets that the steps cite.

| Module | Theorems | States |
|---|---|---|
| `BusProofs` | `BusCorrect`, `WakeupCorrect`, `FifoCorrect`; parts: `TypeCorrect`, `CapacityCorrect`, `CountCorrect` | the three invariants of the queues that `bus` checks |
| `GraphPoolProofs` | `PoolCorrect`, `HeldStoreSafe`, `OverLimitCorrect`, `DetachCorrect`; parts: `PinsCorrect`, `EpisodeFlagCorrect` | the pool's part of `stores`: `PoolInv`, `HeldStoreStaysOpen`, `OverLimitOnlyWhenPinned`, and the action property `AbandonedByResetOnly` |
| `OutboundSteps`, `OutboundProofs` | `DispatchCorrect` | `DispatchInv` of `outbound` |
| `MultiAgentSteps`, `MultiAgentProofs` | `BoundsCorrect`, `DoneFinalCorrect` | `BoundsKept` and the action property `DoneIsFinal` of `multiagent` |
| `CronProofs` | `SchedulerCorrect`, `LaunchesCorrect` | `SchedulerInv` and the action property `LaunchesRight` of `cron` |

**Bus**, from `BusAssumption` (finitely many consumers, natural capacities). The
invariant is the conjunction of the properties. None is inductive alone: that the
counter is a natural number needs that it is exact, the counter being exact needs
the types, and the FIFO equation needs that the queues are sequences.
`ConcatAppend` and `ConcatMoveHead` carry the sequence reasoning, `Enters` and
`Leaves` the cardinality of the consumers in flight, `OccurrencesAppend` and
`PublishCounts` that a producer that retries delivers once.

**Graph pool**, from `GraphPoolAssumption` (finite users and namespaces, a positive
limit). The invariant adds `Control` (who has the mutex and what a goroutine holds
follow from where it is) and `Lifecycle` (entries of the pool are open, detached
handles are not in the pool). They are needed because an eviction closes a store
several steps after it selected it: that the store is not held by then follows from
exact pins at the selection, and from `Lifecycle` afterwards. `PeakRecorded` (the
recorded peak covers the excess a pass left behind, and operations in flight covered
it when it was recorded) gives the bound on the excess, and
`NothingLeft` (a goroutine between operations has no handle to close) that a
detached store is given up by nobody but a reset whose close failed.

**Outbound**, from `OutboundAssumption` (finitely many chats, positive limits). One
send for a chat is a matter of how tasks wait for one another, so the invariant
describes the queue: `Numbered` (numbers grow from the tasks over the message in hand
and the one in the buffer to the bus, so a new task is newer than all others),
`Chained` (only the first task of a chat has left the wait, each other one waits for
the task before it, the tail is the last) and `SweepComplete` (the sweep cancels
every task and nothing is registered after it). `Chained` holds only until the
sweep: a cancelled task leaves the queue from the middle.

**Multi-agent runtime**, from `MultiAgentAssumption` (finite tasks, agents and calls,
positive limits). The invariant says what the place of a goroutine implies for its
status and what it may hold (`Staged`), that a parent may delegate to its children
(`Delegated`), what calls are about (`Calling`), who has a slot (`Leased`), and that
every snapshot on disk or about to be written is within the bounds (`Saved`): that a
restart stays within `MaxTasks` and `MaxChildren` is a statement about a snapshot
taken earlier. `NoBlock` argues that in a set of tasks that wait only for one another
nobody waits for a slot, for the holders would be executors inside their one call,
which have given theirs back; so every member waits in a call or for a profile held
by a member that does; then every member's profile delegates, and the child one of
them waits for is of a profile that does not. That they wait for children of their own
is an antecedent: see the wait operation in [known divergences](#known-divergences). `Final` (every snapshot read since recovers a
task that has finished with the status it has) gives `DoneIsFinal`.

**Scheduler**, from `CronAssumption` (finitely many processes and jobs, a positive
sleep limit, schedules that `ValidateSchedule` accepts, which is what the store and
the operations let in). `SchedulerInv` speaks of places far apart in time: a loop
computes its delay, and jobs are edited, run and saved before the timer fires. The
invariant says, for every process, what its place implies for the lease, the loop and
the runs (`Placed`); that what runs is a known job whose instant is due and whose
last run is saved, and that a next run is later than the run recorded last (`Kept`);
that without unsaved changes the only process of a store has the file (`Owns`); and
that a sleeping loop wakes before every waiting job or has been signalled (`Awake`).
`Ordered` is also required of the file, for a restart reads it (`Stored`). That no
recorded instant is launched again is `Ordered` at a launch; that a missed one is
launched only as the policy allows is `Allowed`, which `prepareJobOnStartLocked`
establishes and every later edit keeps. `NextIInv` puts the lemmas of the actions
together.

## Known divergences

Places where the code does not do what a comment, a document or a test says, or
where a property holds only under the antecedent that its definition states. The
first two are runs of their own. For the next group the property is in the module,
and the table says what to change in an instance to see it fail.

| Where | What | Property, and the instance |
|---|---|---|
| `multiagent/manager.go:135` | parallel blocking calls share a slot | run `multiagent_parallel_calls` |
| `cron/service.go:618` | missed instant of a system job dropped | run `cron_system_misfire` |
| `memoryfabric/store.go:525` | Ack by job id after a rebuild requeued the job; two workers may then hold it | `RebuiltIsComplete`, `OneWorkerPerJob`: two projections and a rebuild |
| `bus/bus.go:304` | `TryConsumeOutbound` takes from a closed bus; line 298 says it does not | `TryConsumeFailsWhenClosed`, as it is |
| `cmd/haosbot/graph_pool.go:276` | the directory is removed under a store opened meanwhile; `memory_admin.go:69` | `ResetSparesSearches`, as it is |
| `cmd/haosbot/graph_pool.go:272` | a failed close makes ResetAll forget the remaining stores, which stay open | allowed for in `AbandonedByResetOnly`; the run reaches such states |
| `memoryfabric/store.go:803` | prune deletes records requeued after its selection; `docs/MULTI_AGENT.md:87` | `PrunePreservesUnfinished`, `Administered` with two `Admins` |
| `memoryfabric/store.go:283` | bytes are recounted as characters; `README.md:95` | `PendingBytesBounded`, `Unattended` with two bytes a character, a budget of 3 bytes and room for 4 jobs |
| `multiagent/manager.go:143` | a timed wait returns without the slot; `docs/MULTI_AGENT.md:62` | `RunningHoldsSlot` without its antecedent, `Batched` |
| `multiagent/manager.go:440` | profiles that delegate to one another block; `docs/MULTI_AGENT.md:64` | `NoCircularWait`, `Nested` with four tasks, `MaxDepth` 3, two slots and a cyclic `delegateTo` |
| `multiagent/tool.go:96` | the wait operation takes the id of a stranger's task, of an ancestor or of the task itself; only a deadline ends such a wait | `NoCircularWait` without `WaitsForChildren`, `Nested` |
| `multiagent/manager.go:500` | terminal status visible before the snapshot; lines 510-512 | `TerminalIsFinal`, `Restarted` |
| `multiagent/manager.go:393` | Cancel before the cancel function is registered | `CancelReachesTask`, `Cancelled` |
| `session/session.go:157` | the append after a torn one is lost; `store.go:479` | `NothingLost`, `Faulty` |
| `session/store.go:489` | a cut save with a summary replays the journal | `NothingTwice`, `CutSave` with summaries |
| `session/session.go:530` | a cut /new loads the cleared journal | `ClearedNotLoaded`, `Faulty` without torn writes |
| `session/session.go:396` | compaction from a stale object | `NothingLost`, two overlapping processes |
| `session/session.go:179` | the cache entry covers another process's record | `CacheCurrent`, two overlapping processes |
| `agent/loop.go:669`, `:734` | an error of the tool selection, or of the append of the answer, leaves the question open; lines 507-508 | `NoDanglingQuestion` without `cut`, failures `tools` and `append` |
| `agent/loop.go:717` | a runner that returns no message beyond the request (`runner.go:270`, `:432`) leaves the question open | the same, failure `blank` |
| `agent/loop.go:1094` | summary committed after a turn or a reset began | `SummaryCoversArchived`, `ResetForgets` without `stale`, preempt `commit` |
| `agent/loop.go:1025` | messages beyond the size of one summary's source are archived and in no summary | `SummaryCoversArchived` without `elided`, `elides` |
| `agent/loop.go:818` | a stale index overwrites another message | `AnswersInOrder` without `stale`, preempt `ack` with `new` |
| `session/session.go:530` | /new whose save failed comes undone by a crash | `ResetForgets` without its second antecedent, failure `save` and a crash |
| `agent/loop.go:620` | one turn id for two turns | `TurnsRemembered` without its antecedent, `repeats` |
| `agent/loop.go:628` | a retried request adds a second question | `RetryNotDoubled`, `Memory` with `repeats` |
| `channels/manager_outbound.go:978` | a repeat is suppressed although the first failed; line 943 | `SuppressedWasSent` without its antecedent, `Replies` with one error |
| `cron/service.go:515` | two minutes in a repeated hour both run twice; `docs/CHAOS-HARNESS.md:11` | `WallClockOnce`, `SetBack` with two minutes |
| `cron/service.go:524` | the wall-clock minute of a job without a time zone is taken in UTC, its schedule (`schedule.go:97`) in local time, so a repeated minute runs twice; `docs/CHAOS-HARNESS.md:11` | `WallClockOnce` without `NamesZone`, `SetBack` |
| `cron/service.go:624` | a second gateway saves before it is refused; `docs/CHAOS-HARNESS.md:9` | `HolderOwnsStore` without its antecedent, `Gateways` |
| `cron/tool.go:96` | pause from a process without a scheduler | `HolderOwnsStore` without its antecedent, a chat process |
| `cron/service.go:169` | Start after Close has no loop; `service_lifecycle_test.go:60` | `RunningHasLoop`, `Gateways` |
| `a2a/handler.go:1118` | page tokens are offsets into a filtered list: a task that leaves it between two pages hides the next one | `PagesMissNothing` without `shrunk`, `Listed` |
| `mcp/stdio.go:95-109` | a process whose output ended while it lives (a line over the limit, a closed stdout) is forgotten and never killed, not by Close either | `NoLeakedProcess` without `forgotten` |
| `tools/builtin/paths.go:146` | a link that leads nowhere, named by itself, is not resolved: the path counts as inside and a write creates its target (`write_file.go:85`) | `GrantIsInside` without `Dangles`, as it is |
| `api/config_api.go:114` | any patch drops the proxy and the extra body of OAuth providers from the file, which Save keeps (`config/loader.go:284`) | `ViewRoundTrips` without its exception, as it is |
| `triggers/service.go:98` | a failed delivery is retried at once; lines 21-23 | `RetryPaced`, as it is |

Met while modelling, and excluded by an antecedent or a history variable of the
property (the comment of the definition says which), or part of the model as it is:

* **Turns.** A stream may be cancelled while the answer is handed over, which
  `consumeStream` decides by a draw (`agent/runner.go:757`). A completed run may
  carry an empty answer, against `runner.go:75`. Batches run partly in parallel,
  against `runner.go:854`. The estimate `RequestPressure` uses `<` where
  `EnsureRequestFits` uses `<=`. Calls extracted from a text keep repeated ids, and
  an unclosed `<tool_call>` swallows the next block. A reused call id keeps the old
  result file (`agent/toolresult.go:184`), and the sweep of another session removes
  a bucket that is still referred to.
* **MCP.** The generation is read after the greeting (`mcp/stdio.go:168`), so a
  restarted process counts as greeted. A notification that cannot be written is not
  taken for a failure of the transport and not retried. `ListTools` does not follow `NextCursor`.
* **Memory.** An append during `CompactHistory` is lost (`memory/store.go:603`). A
  crash during the migration repeats or drops it (`:1072`). A line beyond the
  scanner's limit ends the reading (`:442`). A checkpoint may cover messages that
  were not summarised (`memory/consolidator.go:289`).
* **Git store.** Overlapping commits lose one (`gitstore/repo.go:247`). A torn index
  blocks later commits, and a crash during Init leaves a repository that counts as
  initialised. Revert keeps files its parent lacks (`gitstore.go:668`). Trees are
  compared by plain names though git orders directories with a slash. A global
  ignore rule wins over `.gitignore`.
* **Sessions.** A temporary session evicted under a turn loses its messages, and
  opening an existing one at the limit still evicts another
  (`session/transient.go:42`). Offsets of a time zone drop their seconds. A process
  that stops between marker and claim leaves an identity without a namespace
  (`session/store.go:711`, `:775`).
* **A2A.** A cancellation between the test of a turn and its publish is overwritten,
  and the reverse, against the comment at `a2a/handler.go:951` (`FinalUnlessOvertaken`
  allows for `stale` requests). A publish that loaded a task deleted before its store
  inserts an entry that is not counted, against `:98` (`resurrected`). A stream of a
  task whose hub was deleted, or that joined a hub its task had overtaken, is not told
  of the end, against `a2a/stream.go:45` (`orphans`, `misled`).
  A publication and the slot it gives back are one step of the model; two requests
  that insert one task at once need a fourth request and are not reached.
* **Channels.** Telegram confirms updates before they are processed
  (`telegram/channel.go:264`), and an update queued after Stop stays in its buffer
  (`:441`). A failing part repeats the parts shown before it. Back-off is never
  reset, except in WeCom. Of the socket adapters only Discord and WeCom notice a silent peer.
  Slack acknowledges first; DingTalk after handling, so Stop in between makes the
  platform repeat the event. A cancelled heartbeat of WeCom outlives its connection
  until its next tick (`wecom/channel.go:263`). After a failure of Serve the connections
  of the WebSocket server stay until the manager's Stop (`websocket/channel.go:80`). WeChat moves its cursor before handling. A repeated
  webhook is answered with success while the first attempt may still fail. Adapters
  that test `IsAllowed` first never send the pairing code. Stop of the WebSocket
  server before Start assigned its server leaves it running
  (`websocket/channel.go:66`).
* **Manager and pairing.** In the sweep of a shutdown a cancelled task that gave up
  its wait lets its successor pass a send that has not returned
  (`channels/manager_outbound.go:266`), against "FIFO is per (channel, chat_id)" of
  line 214; `OneSendPerChat` and `ChatInOrder` hold until then. StopAll before StartAll registered the dispatcher leaves
  it running; StopAll gives up when a Stop outlives its context; RemoveChannel of a
  running channel loses its handle. Two runtimes overwrite each other's pairing
  file, and a corrupt file counts as empty.
* **Lengths.** The HTML length of a Telegram part is checked for text without markup;
  what the conversion of markup adds is not modelled.
* **Tools.** read_file cannot page past a line longer than its limit. python_exec
  kills the leader only, and its output has no limit while it runs. A descendant of a leader that ended by itself survives
  exec. Files are truncated, then filled: another call may read between, and a crash
  leaves an empty file. A failed rollback hides the first error. edit_file counts
  matches without overlap, apply_patch with it.
* **Programs and API.** After a signal the return of the loop may win the select of
  `cmdGateway` and requests are not drained (`cmd/haosbot/runtime.go:693`). Delegated
  tasks outlive Close. A patch of the configuration is merged into the one read at
  start, so a second patch before a restart discards the first
  (`api/config_api.go:110`); secrets inside lists are blanked by a post-back. An
  unreadable preferences file counts as empty and is overwritten
  (`api/webui_data.go:413`). A streamed answer of a provider that cannot stream
  drops tool calls (`openai_compat.go:168`).
* **Skills.** A listing that races with the user may rewrite a legacy marker or
  remove a new one (`skills/plugin.go:189`). A legacy marker is truncated before it is
  rewritten, and a listing that reads it in between removes it as foreign (`:217`,
  `:225`). Staging directories are listed as
  skills, also after a crash. The "atomic replace" of a skill is a removal and a
  rename (`marketplace/skillhub.go:274`).

## What is only model-checked, and what is not modelled

Checked on the instances above only:

* liveness (`Served`, `StoresSettle`, `EveryTaskEnds`, `GateReleased`,
  `DispatcherProgress`, `OccurrencesKept`, `StreamsEnd`, `TurnEnds`, `ChannelsSettle`,
  `ServicesSettle`), which is out of the prover's reach;
* the pure functions (`TextsSound`, `RecordsSound`, `FiltersSound`) and what is said
  of the contents of transcripts and journals (`TranscriptInv`, `MemoryInv`,
  `ImplementsTranscript`, `DeliveryInv`): they are recursive definitions or speak of
  sequences of any length, and induction over data is out of its reach too;
* the safety part of `OccurrencesKept`: `MissedIsFired` is not true of system jobs (run
  `cron_system_misfire`), nor `WallClockOnce` of an expression with two minutes in the
  repeated hour, so there is no theorem for every value of the constants;
* the invariants and action properties of the modules without a proof module.

Not modelled, with reasons, in the components of `PROJECT.json`: conversions of
text and encodings (markdown, prompts, JSON, YAML, signatures, tokenizer tables),
configuration read once, catalogue queries, schema and directory migrations run
once, the handlers of the API that translate a request into one call, and the
browser code. They hold no state that outlives a call, or state that no second
actor touches.
