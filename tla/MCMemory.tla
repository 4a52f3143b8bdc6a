------------------------------ MODULE MCMemory ------------------------------
(***************************************************************************)
(* One turn of the agent and what it leaves behind, one component at a     *)
(* time: the run with its repair of a damaged transcript, the streamed     *)
(* model call and the MCP server it uses; the memory journal and the       *)
(* compaction of idle sessions.                                            *)
(***************************************************************************)
EXTENDS Integers, Sequences, FiniteSets

CONSTANTS
    Appenders, MaxEntries, MaxCrashes, NoCursor,
    Compactors, MaxTalk, MaxCompactions, MaxLosses, Checkpoint, Nobody,
    MaxEmptyRetries, MaxLengthRecoveries, MaxDraft,
    NoFinish, NoPayload,
    Listers, Callers, MaxFaults, None

VARIABLES
    histSetup, history, ragged, counter, dreamCursor, legacy, migration, appendLock, appendPc, writing,
    dreamPc, dreamBatch, compacted, issued, histCrashes, acked, dreamed, spoiled, raced
journal == <<histSetup, history, ragged, counter, dreamCursor, legacy, migration, appendLock, appendPc, writing,
             dreamPc, dreamBatch, compacted, issued, histCrashes, acked, dreamed, spoiled, raced>>
VARIABLES
    talk, archived, summary, stored, rawEntries, sessionLock, compaction, said, begun, losses, late, summarised
consolidation == <<talk, archived, summary, stored, rawEntries, sessionLock, compaction, said, begun, losses, late, summarised>>
VARIABLES
    runSetup, turnMessages, iteration, emptyRetries, lengthParts, attempt, runPc, response, toolState, result, canceled
agentRun == <<runSetup, turnMessages, iteration, emptyRetries, lengthParts, attempt, runPc, response, toolState,
              result, canceled>>
VARIABLES
    script, format, sent, link, taken, pendingLine, aggregate, outbox, verdict, stalled, readerPc, ctxDone,
    shown, finalEvent, reasoningOpen, reasoningEnds, consumerPc, accepted
modelCall == <<script, format, sent, link, taken, pendingLine, aggregate, outbox, verdict, stalled, readerPc, ctxDone,
               shown, finalEvent, reasoningOpen, reasoningEnds, consumerPc, accepted>>
VARIABLES
    generation, initializedGen, current, clientClosed, pendingCalls, alive, deaf, greeted, inbox, caller,
    faults, executed, mismarked, closeReset, forgotten
mcpClient == <<generation, initializedGen, current, clientClosed, pendingCalls, alive, deaf, greeted, inbox, caller,
               faults, executed, mismarked, closeReset, forgotten>>
VARIABLES
    which,      \* the component this behaviour is about
    draft       \* the transcript to repair
mind == <<journal, consolidation>>
turn == <<draft, agentRun, modelCall, mcpClient>>
vars == <<which, mind, turn>>

-----------------------------------------------------------------------------

Base == [legacy |-> 0, long |-> FALSE, full |-> FALSE, batch |-> 2, retention |-> 1]
HistSetups ==
    {Base, [Base EXCEPT !.full = TRUE, !.batch = 1], [Base EXCEPT !.legacy = 2],
     [Base EXCEPT !.long = TRUE, !.retention = 2]}


(* What a model may answer, what a session may hold, what a server may stream *)

Msg(role, text, calls, id, size) == [role |-> role, text |-> text, calls |-> calls, id |-> id, size |-> size]
Resp(finish, says, calls) == [finish |-> finish, says |-> says, calls |-> calls, retry |-> FALSE]
Safe == [named |-> TRUE, safe |-> TRUE]
Alone == [named |-> TRUE, safe |-> FALSE]
Nameless == [named |-> FALSE, safe |-> FALSE]
Call(id) == [id |-> id, named |-> TRUE]

System == Msg("system", "rules", <<>>, 0, 1)
Question == Msg("user", "question", <<>>, 0, 1)
Fresh == <<System, Question>>
CutOff == <<System, Question, Msg("assistant", "", <<Call(101)>>, 0, 1), Question>>

Answering ==
    [responses |-> {Resp("stop", TRUE, <<>>), Resp("stop", FALSE, <<>>), Resp("length", TRUE, <<>>),
                    Resp("length", FALSE, <<Safe>>), Resp("refusal", FALSE, <<Safe>>), Resp("tool_calls", TRUE, <<Safe>>)},
     iterations |-> 5, delays |-> 0, parallel |-> 0, concurrent |-> FALSE, registry |-> TRUE, hookFails |-> FALSE,
     finalize |-> TRUE, window |-> 0, history |-> Fresh]
Tooling ==
    [Answering EXCEPT
        !.responses = {Resp("stop", TRUE, <<>>), Resp("length", TRUE, <<>>), Resp("error", TRUE, <<>>),
                       [Resp("error", FALSE, <<>>) EXCEPT !.retry = TRUE],
                       Resp("tool_calls", FALSE, <<Safe, Safe, Alone, Safe>>),
                       Resp("stop", TRUE, <<Nameless, Safe, Safe, Safe>>), Resp("tool_calls", FALSE, <<Nameless>>)},
        !.iterations = 2, !.delays = 2, !.parallel = 2, !.concurrent = TRUE, !.hookFails = TRUE, !.history = CutOff]
RunSetups ==
    {Answering, Tooling,
     [Tooling EXCEPT !.window = 6, !.concurrent = FALSE, !.finalize = FALSE],
     [Tooling EXCEPT !.registry = FALSE, !.parallel = 0],
     [Tooling EXCEPT !.parallel = 0, !.hookFails = FALSE]}

Pieces ==
    {System, Question, Msg("user", "long question", <<>>, 0, 2), Msg("user", "", <<>>, 0, 1),
     Msg("assistant", "answer", <<>>, 0, 1), Msg("assistant", "omitted", <<>>, 0, 1),
     Msg("assistant", "", <<Call(1)>>, 0, 1), Msg("assistant", "text", <<Call(1), Call(2)>>, 0, 1),
     Msg("assistant", "", <<[id |-> 1, named |-> FALSE], Call(2)>>, 0, 1),
     Msg("assistant", "", <<[id |-> 1, named |-> FALSE]>>, 0, 1),
     Msg("tool", "one", <<>>, 1, 1), Msg("tool", "two", <<>>, 2, 2)}

T(n) == [kind |-> "text", piece |-> n]
R(n) == [kind |-> "reasoning", piece |-> n]
F(index, n) == [kind |-> "call", index |-> index, piece |-> n]
Chunk(events, finish) == [kind |-> "data", payload |-> [kind |-> "chunk", events |-> events, finish |-> finish]]
Data(kind) == [kind |-> "data", payload |-> [kind |-> kind]]
Blank == [kind |-> "blank"]
Comment == [kind |-> "comment"]
TextCalls == {<<2, 3>>}
Tagged == <<Chunk(<<T(1), T(2)>>, NoFinish), Chunk(<<T(3), T(4)>>, "stop"), Data("done"), Blank>>
Scripts ==
    {<<Chunk(<<R(1)>>, NoFinish), Blank, Comment, Chunk(<<T(2)>>, NoFinish), Blank, Chunk(<<R(3), T(4)>>, "stop"), Blank,
       Data("done"), Blank>>,
     <<Chunk(<<T(1), F(0, 2)>>, NoFinish), Chunk(<<F(1, 3), F(0, 4)>>, NoFinish), Chunk(<<F(1, 5)>>, "tool_calls"),
       Data("done"), Blank>>,
     Tagged,
     <<Chunk(<<R(1), T(2)>>, NoFinish), Blank, Data("error"), Blank, Data("done"), Blank>>,
     <<Chunk(<<T(1)>>, "length"), Data("garbage"), Chunk(<<T(2)>>, NoFinish), Blank>>}

-----------------------------------------------------------------------------
H == INSTANCE MemoryHistory
Run == INSTANCE Runner
Stream == INSTANCE ProviderStream
Mcp == INSTANCE MCP

Init ==
    /\ which \in {"journal", "compaction", "run", "repair", "stream", "mcp"}
    /\ H!HistInit /\ (which = "journal" \/ histSetup = Base)
    /\ H!ConsInit
    /\ draft = <<>>
    /\ Run!RunInit /\ (which = "run" \/ runSetup = Answering)
    /\ Stream!StreamInit /\ (which = "stream" \/ script = CHOOSE s \in Scripts : TRUE)
    /\ format = "native" => script = Tagged /\ which = "stream"
    /\ Mcp!McpInit

Journal    == which = "journal" /\ H!HistNext /\ UNCHANGED <<which, consolidation, turn>>
Compaction == which = "compaction" /\ H!ConsNext /\ UNCHANGED <<which, journal, turn>>
TurnStep   == which = "run" /\ Run!RunNext /\ UNCHANGED <<which, draft, modelCall, mcpClient, mind>>
Damage     ==
    /\ which = "repair" /\ Len(draft) < MaxDraft /\ \E m \in Pieces : draft' = Append(draft, m)
    /\ UNCHANGED <<which, agentRun, modelCall, mcpClient, mind>>
StreamStep == which = "stream" /\ Stream!StreamNext /\ UNCHANGED <<which, draft, agentRun, mcpClient, mind>>
McpStep    == which = "mcp" /\ Mcp!McpNext /\ UNCHANGED <<which, draft, agentRun, modelCall, mind>>

Next == Journal \/ Compaction \/ TurnStep \/ Damage \/ StreamStep \/ McpStep

(* The fairness of each module, asked where the behaviour is its own.      *)
Fairness ==
    /\ WF_journal(which = "journal" /\ H!Opening)
    /\ \A a \in Appenders : WF_journal(which = "journal" /\ (H!AppendCounted(a) \/ H!AppendUncounted(a)))
    /\ WF_journal(which = "journal" /\ H!DreamBegin)
    /\ SF_journal(which = "journal" /\ H!DreamCompleted)
    /\ WF_journal(which = "journal" /\ (H!SetLastDreamCursor \/ H!CompactRead \/ H!CompactRewrite))
    /\ WF_agentRun(which = "run" /\ Run!RunStep)
    /\ WF_modelCall(which = "stream" /\ Stream!ReaderStep)
    /\ WF_modelCall(which = "stream" /\ Stream!ConsumerStep)
    /\ WF_modelCall(which = "stream" /\ Stream!IdleTimerFires)
    /\ \A g \in Callers : WF_mcpClient(which = "mcp" /\ Mcp!GoroutineStep(g))
    /\ \A g \in Callers : WF_mcpClient(which = "mcp" /\ Mcp!ContextExpires(g))
    /\ WF_mcpClient(which = "mcp" /\ Mcp!FailGeneration)

Spec == Init /\ [][Next]_vars /\ Fairness

-----------------------------------------------------------------------------
(* What the turns leave behind.  Cursors increase, new entries are ahead   *)
(* of Dream and leave the journal only after Dream saw them                *)
(* (AppendHistory, CompactHistory); the compaction of a session forgets no *)
(* message and summarises none twice (CompactIdleSession).                 *)
MemoryInv ==
    /\ which = "journal" => H!HistTypeOK /\ H!JournalInv
    /\ which = "compaction" => H!ConsInv

(* A turn.  Requests are acceptable, answers whole, tools exclusive (Run,  *)
(* executeTools); an accepted answer is complete and is what was shown     *)
(* (consumeStreamWithFormat, consumeStream); a call runs once, on a        *)
(* process that was greeted, and no process is leaked (stdio.go).  What is *)
(* sent of a damaged transcript is acceptable to a provider and fits its   *)
(* window (PrepareForModel, FitToBudget, sanitizeMessages).                *)
TurnInv ==
    /\ which = "run" => Run!RunInv
    /\ which = "stream" => Stream!StreamInv
    /\ which = "mcp" => Mcp!McpInv
    /\ which = "repair" =>
        Run!RepairedIsAccepted(draft) /\ \A window \in {0, 3, 4, 5} : Run!FittedIsAccepted(draft, window, 1)

(* The run, the streamed call and its reader, and every tool call.         *)
TurnEnded ==
    /\ which = "run" => runPc = "done"
    /\ which = "stream" => readerPc = "closed" /\ consumerPc # "select"
    /\ which = "mcp" => \A g \in Callers : caller[g].pc = "done"

(* Every acknowledged journal entry is shown to Dream in the end, and      *)
(* every run, streamed call, reader and tool call comes to an end.         *)
TurnEnds == <>[](TurnEnded /\ (which = "journal" => H!AllDreamed))
=============================================================================
