------------------------------- MODULE Runner -------------------------------
(***************************************************************************)
(* One agent run, internal/agent/runner.go: model requests with retries,   *)
(* the branches on a response (failed, tools, empty, cut off, answered),   *)
(* tool calls in batches under a semaphore, and the finalisation when the  *)
(* iteration budget is spent.  The caller may cancel at any step.          *)
(*                                                                         *)
(* First the copy of a transcript that is sent to a model: the repairs and *)
(* the fit to the context window of internal/agent/governance.go, and the  *)
(* role alternation of internal/provider/openai/request.go.                *)
(*                                                                         *)
(* A message has a role, a text (NoText, Placeholder or anything else),    *)
(* its size in tokens, the tool calls it declares (an id, and whether the  *)
(* name is usable) and, for a tool result, the id it answers.  The size of *)
(* a request is the sum over its messages; tool schemas, reasoning and     *)
(* the estimate of the tokenizer are left out.                             *)
(*                                                                         *)
(* A response is one of runSetup.responses, with its finish reason, if it  *)
(* says something, and its calls (each safe to run beside others or not,   *)
(* with a usable name or not); call ids are fresh in every response.  What *)
(* the response of iteration n says is the fragment Said(n).  Hooks other  *)
(* than BeforeIteration, usage counts, reasoning and wording are left out. *)
(***************************************************************************)
EXTENDS Integers, Sequences, FiniteSets, FiniteSetsExt, SequencesExt

NoId == 0
NoText == ""
Placeholder == "omitted"
Filler == "unavailable"

Mapped(s, F(_)) == [i \in DOMAIN s |-> F(s[i])]
Declared(m) == {m.calls[k].id : k \in DOMAIN m.calls} \ {NoId}
IsTool(m) == m.role = "tool"

-----------------------------------------------------------------------------
(* PrepareForModel *)

StripPlaceholderAssistantMessages(ms) ==
    SelectSeq(ms, LAMBDA m : ~(m.role = "assistant" /\ m.text = Placeholder /\ m.calls = <<>>))

StripMalformedToolCalls(ms) ==
    LET named(m) == SelectSeq(m.calls, LAMBDA c : c.named)
        emptied(m) == m.calls # <<>> /\ named(m) = <<>> /\ m.text = NoText
    IN  Mapped(SelectSeq(ms, LAMBDA m : ~emptied(m)), LAMBDA m : [m EXCEPT !.calls = named(m)])

(* A tool result is kept when its id was declared before it and no earlier kept result has that id. *)
DropOrphanToolResultsAnyOrder(ms) ==
    SelectSeq(ms, LAMBDA m : IsTool(m) => \E i \in DOMAIN ms : m.id \in Declared(ms[i]))
DropOrphanToolResults(ms) ==
    LET step(acc, m) ==
            CASE m.role = "assistant" -> [acc EXCEPT !.declared = @ \cup Declared(m), !.out = Append(@, m)]
              [] IsTool(m) /\ m.id \notin acc.declared -> acc
              [] IsTool(m) -> [acc EXCEPT !.declared = @ \ {m.id}, !.fulfilled = @ \cup {m.id}, !.out = Append(@, m)]
              [] OTHER -> [acc EXCEPT !.out = Append(@, m)]
        once(acc, m) == LET next == step(acc, m) IN [next EXCEPT !.declared = @ \ next.fulfilled]
    IN  FoldLeft(once, [declared |-> {}, fulfilled |-> {}, out |-> <<>>], ms).out

(* For each unanswered call, in order, a filler after the results that follow its message. *)
BackfillMissingToolResults(ms) ==
    LET answered == {ms[i].id : i \in {j \in DOMAIN ms : IsTool(ms[j])}}
        calls(i) == SelectSeq(Mapped(ms[i].calls, LAMBDA c : [at |-> i, id |-> c.id]),
                              LAMBDA d : d.id \notin answered \cup {NoId})
        missing == FlattenSeq([i \in DOMAIN ms |-> calls(i)])
        place(out, from) == Min({k \in from .. Len(out) + 1 : k = Len(out) + 1 \/ ~IsTool(out[k])})
        filler(id) == [role |-> "tool", text |-> Filler, size |-> 1, calls |-> <<>>, id |-> id]
        insert(acc, d) ==
            [out |-> InsertAt(acc.out, place(acc.out, d.at + 1 + acc.offset), filler(d.id)), offset |-> acc.offset + 1]
    IN  FoldLeft(insert, [out |-> ms, offset |-> 0], missing).out

PrepareForModel(ms) ==
    BackfillMissingToolResults(DropOrphanToolResults(
        StripMalformedToolCalls(StripPlaceholderAssistantMessages(ms))))

-----------------------------------------------------------------------------
(* FitToBudget *)

Tokens(ms) == FoldLeft(LAMBDA n, m : n + m.size, 0, ms)
(* InputBudget: what the window leaves after the output and a safety buffer, or 0. *)
InputBudget(window, reserve) == Max({0, window - reserve})
RequestPressure(ms, budget) == ~(budget > 0 /\ Tokens(ms) < budget)
EnsureRequestFits(ms, budget) == budget > 0 /\ Tokens(ms) <= budget

FindLegalMessageStart(ms) ==
    LET step(acc, i) ==
            IF IsTool(ms[i]) /\ ms[i].id \notin acc.declared \cup {NoId}
            THEN [declared |-> {}, start |-> i + 1]
            ELSE [acc EXCEPT !.declared = @ \cup Declared(ms[i])]
    IN  FoldLeft(step, [declared |-> {}, start |-> 1], [i \in DOMAIN ms |-> i]).start

UserTail(ms, last) ==
    LET users == {i \in DOMAIN ms : ms[i].role = "user"}
    IN  IF users = {} THEN <<>> ELSE SubSeq(ms, IF last THEN Max(users) ELSE Min(users), Len(ms))

FromLegalStart(tail) == SubSeq(tail, FindLegalMessageStart(tail), Len(tail))
LegalHistoryTail(kept, all) ==
    FromLegalStart(CASE UserTail(kept, FALSE) # <<>> -> UserTail(kept, FALSE)
                     [] UserTail(all, TRUE) # <<>> -> UserTail(all, TRUE)
                     [] OTHER -> kept)

(* The newest messages that fit beside the system messages, at least one, back to a legal start. *)
SnipHistory(ms, budget) ==
    LET system == SelectSeq(ms, LAMBDA m : m.role = "system")
        rest == SelectSeq(ms, LAMBDA m : m.role # "system")
        room == Max({0, budget - Tokens(system)})
        suffix(k) == SubSeq(rest, k, Len(rest))
        from == Min({k \in DOMAIN rest : k = Len(rest) \/ Tokens(suffix(k)) <= room})
    IN  IF budget = 0 \/ rest = <<>> THEN ms ELSE system \o LegalHistoryTail(suffix(from), rest)

FitToBudget(ms, budget) == BackfillMissingToolResults(DropOrphanToolResults(SnipHistory(ms, budget)))

(* requestModelOnce: what is sent, or the error of EnsureRequestFits. *)
Checked(fitted, budget) == [ok |-> EnsureRequestFits(fitted, budget), sent |-> fitted]
RequestOf(prepared, window, budget) ==
    IF window = 0 \/ ~RequestPressure(prepared, budget) THEN [ok |-> TRUE, sent |-> prepared]
    ELSE Checked(FitToBudget(prepared, budget), budget)
Request(ms, window, reserve) == RequestOf(PrepareForModel(ms), window, InputBudget(window, reserve))

-----------------------------------------------------------------------------
(* sanitizeMessages: normalizeContent and enforceRoleAlternation *)

EmptyText == "(empty)"
NormalizeContent(m) ==
    IF m.text = NoText /\ ~(m.role = "assistant" /\ m.calls # <<>>) THEN [m EXCEPT !.text = EmptyText] ELSE m

Calls(m) == m.calls # <<>>
MergeRoles(ms) ==
    LET joined(p, m) == [p EXCEPT !.text = IF p.text = NoText THEN m.text ELSE p.text, !.size = @ + m.size]
        onto(out, m) ==
            LET p == Last(out)
                top(x) == Append(Front(out), x)
            IN  CASE m.role = "assistant" /\ Calls(m) -> top(m)
                  [] m.role = "assistant" /\ Calls(p) -> out
                  [] OTHER -> top(joined(p, m))
        step(out, m) ==
            IF out # <<>> /\ m.role \in {"user", "assistant"} /\ Last(out).role = m.role
            THEN onto(out, m) ELSE Append(out, m)
    IN  FoldLeft(step, <<>>, ms)

(* The answers at the end are dropped; the first of them comes back as a question when       *)
(* nothing else is left to answer.                                                           *)
KeptLength(merged) == Max({0} \cup {i \in DOMAIN merged : merged[i].role # "assistant"})
Recovered(merged, n) ==
    LET speaks == \E i \in 1 .. n : merged[i].role \in {"user", "tool"}
        kept == SubSeq(merged, 1, n)
    IN  IF n > 0 /\ n < Len(merged) /\ ~speaks THEN Append(kept, [merged[n + 1] EXCEPT !.role = "user"]) ELSE kept
(* A bare answer does not come first: a question is put before it. *)
Opened(ms) ==
    LET first == {i \in DOMAIN ms : \A j \in 1 .. i : ms[j].role = "system" <=> j < i}
        synthetic == [role |-> "user", text |-> "(conversation continued)", size |-> 1, calls |-> <<>>, id |-> NoId]
    IN  IF \E i \in first : ms[i].role = "assistant" /\ ~Calls(ms[i]) THEN InsertAt(ms, Max(first), synthetic) ELSE ms
WithoutLastAnswers(merged) == Recovered(merged, KeptLength(merged))
EnforceRoleAlternation(ms) == Opened(WithoutLastAnswers(MergeRoles(ms)))

SanitizeMessages(ms) == EnforceRoleAlternation(Mapped(ms, NormalizeContent))

-----------------------------------------------------------------------------
(* Properties of one transcript *)

(* Ids are declared once: the transcripts the loop writes when every response brings fresh ids. *)
FreshIds(ms) ==
    \A i, j \in DOMAIN ms : \A k \in DOMAIN ms[i].calls, l \in DOMAIN ms[j].calls :
        ms[i].calls[k].id = ms[j].calls[l].id => i = j /\ k = l

(* Results directly follow the message that declares them: an order every cut of a transcript keeps. *)
InPlace(ms) ==
    \A i, j \in DOMAIN ms : i < j /\ IsTool(ms[j]) /\ ms[j].id \in Declared(ms[i]) =>
        \A k \in i + 1 .. j : IsTool(ms[k])

(* A request the providers accept: a run of tool results answers exactly the calls of the    *)
(* message before it.                                                                        *)
Accepted(ms) ==
    \A i \in DOMAIN ms :
        LET run == {j \in i + 1 .. Len(ms) : \A k \in i + 1 .. j : IsTool(ms[k])}
        IN  /\ ~IsTool(ms[i]) => {ms[j].id : j \in run} = Declared(ms[i]) /\ Cardinality(run) = Len(ms[i].calls)
            /\ i = 1 => ~IsTool(ms[i])

(* Whatever a crash, an archive boundary or a lost result left of a transcript, the repaired *)
(* copy is one a provider accepts, and repairing it again changes nothing; alternation keeps *)
(* it acceptable, with no two turns of one side in a row, no answer at the end and no        *)
(* message without content.                                                                  *)
RepairedIsAccepted(ms) ==
    FreshIds(ms) /\ InPlace(ms) =>
        \A prepared \in {PrepareForModel(ms)} : \A wire \in {SanitizeMessages(prepared)} :
            /\ Accepted(prepared)
            /\ PrepareForModel(prepared) = prepared
            /\ Accepted(wire)
            /\ \A i \in 1 .. Len(wire) - 1 : wire[i].role = wire[i + 1].role => wire[i].role \in {"system", "tool"}
            /\ wire # <<>> => Last(wire).role # "assistant"
            /\ \A i \in DOMAIN wire : wire[i].text = NoText => Calls(wire[i])

(* A request that is sent fits the window, is acceptable, keeps every system message and,    *)
(* when it was cut, still holds the last question of the user.                               *)
FittedIsAccepted(ms, window, reserve) ==
    LET count(s, role) == Cardinality({i \in DOMAIN s : s[i].role = role})
    IN  \A r \in {Request(ms, window, reserve)} : (FreshIds(ms) /\ InPlace(ms) /\ r.ok) =>
        /\ window > 0 => Tokens(r.sent) <= InputBudget(window, reserve)
        /\ Accepted(r.sent)
        /\ count(r.sent, "system") = count(ms, "system")
        /\ count(ms, "user") > 0 => count(r.sent, "user") > 0

-----------------------------------------------------------------------------
(* The run.                                                                 *)

CONSTANTS
    RunSetups,            \* responses, iterations, delays, parallel, concurrent, registry, hookFails,
                          \* finalize, window, history
    MaxEmptyRetries, MaxLengthRecoveries

VARIABLES
    runSetup,
    turnMessages, iteration, emptyRetries, lengthParts,     \* locals of Run
    attempt,              \* attempt of requestModel
    runPc,                \* "top", "request", "sleep", "respond", "tools", "finalize", "done"
    response,             \* the response in hand
    toolState,            \* per call in hand: "wait", "running" or "done"
    result,               \* RunResult: the stop reason and the fragments of FinalContent
    canceled              \* ctx is done
runnerVars == <<runSetup, turnMessages, iteration, emptyRetries, lengthParts, attempt, runPc, response, toolState,
                result, canceled>>
loopVars == <<emptyRetries, lengthParts>>
callVars == <<attempt, response, toolState>>

Said(n) == <<"f1", "f2", "f3", "f4", "f5", "f6", "f7", "f8", "f9">>[n + 1]
NoResponse == [finish |-> "none", says |-> FALSE, calls |-> <<>>, retry |-> FALSE]
Message(role, text) == [role |-> role, text |-> text, size |-> 1, calls |-> <<>>, id |-> NoId]
EmptyFinal == "empty final response"
Exhausted == "iterations exhausted"
Reserve == 1

RunInit ==
    /\ runSetup \in RunSetups
    /\ turnMessages = runSetup.history /\ iteration = 0 /\ emptyRetries = 0 /\ lengthParts = <<>>
    /\ attempt = 0 /\ runPc = "top" /\ response = NoResponse /\ toolState = <<>>
    /\ result = [stop |-> "completed", final |-> <<>>] /\ canceled = FALSE

Return(stop, final, ms) ==
    runPc' = "done" /\ result' = [stop |-> stop, final |-> final] /\ turnMessages' = ms
Continue(ms) ==
    runPc' = "top" /\ iteration' = iteration + 1 /\ turnMessages' = ms /\ UNCHANGED <<result, callVars, runSetup, canceled>>

Cancel ==
    /\ runPc # "done" /\ ~canceled /\ canceled' = TRUE
    /\ UNCHANGED <<runSetup, turnMessages, iteration, loopVars, callVars, runPc, result>>

-----------------------------------------------------------------------------
(* Run: the head of the loop *)

IterationCanceled ==
    /\ runPc = "top" /\ iteration < runSetup.iterations /\ canceled
    /\ Return("cancelled", <<>>, turnMessages)
    /\ UNCHANGED <<runSetup, iteration, loopVars, callVars, canceled>>

HookFails ==
    /\ runPc = "top" /\ iteration < runSetup.iterations /\ ~canceled /\ runSetup.hookFails
    /\ Return("error", <<>>, turnMessages)
    /\ UNCHANGED <<runSetup, iteration, loopVars, callVars, canceled>>

BeginIteration ==
    /\ runPc = "top" /\ iteration < runSetup.iterations /\ ~canceled
    /\ runPc' = "request" /\ attempt' = 1
    /\ UNCHANGED <<runSetup, turnMessages, iteration, loopVars, response, toolState, result, canceled>>

BudgetSpent ==
    /\ runPc = "top" /\ iteration = runSetup.iterations
    /\ runPc' = "done"
    /\ UNCHANGED <<runSetup, turnMessages, iteration, loopVars, callVars, result, canceled>>

-----------------------------------------------------------------------------
(* requestModel and requestModelOnce *)

Fits == Request(turnMessages, runSetup.window, Reserve).ok

(* A failure of the request itself, the window's included: errorResponseFromException, not retried. *)
RequestErrs ==
    /\ runPc = "request" /\ ~canceled
    /\ runPc' = "respond" /\ response' = [NoResponse EXCEPT !.finish = "error"]
    /\ UNCHANGED <<runSetup, turnMessages, iteration, loopVars, attempt, toolState, result, canceled>>

RequestCanceled ==
    /\ runPc = "request" /\ canceled
    /\ Return("cancelled", <<>>, turnMessages)
    /\ UNCHANGED <<runSetup, iteration, loopVars, callVars, canceled>>

FreshCalls(r) ==
    [r EXCEPT !.calls = [k \in DOMAIN @ |-> [id |-> 10 * iteration + k, named |-> @[k].named, safe |-> @[k].safe]]]
WillRetry(r) == r.finish = "error" /\ r.retry /\ attempt <= runSetup.delays
RequestReturns ==
    /\ runPc = "request" /\ Fits
    /\ \E r \in runSetup.responses :
        /\ response' = FreshCalls(r)
        /\ runPc' = IF WillRetry(r) THEN "sleep" ELSE "respond"
    /\ UNCHANGED <<runSetup, turnMessages, iteration, loopVars, attempt, toolState, result, canceled>>

RetryAfterDelayUncounted ==
    /\ runPc = "sleep" /\ runPc' = "request"
    /\ UNCHANGED <<runSetup, turnMessages, iteration, loopVars, callVars, result, canceled>>
RetryAfterDelay ==
    /\ runPc = "sleep" /\ runPc' = "request" /\ attempt' = attempt + 1
    /\ UNCHANGED <<runSetup, turnMessages, iteration, loopVars, response, toolState, result, canceled>>

SleepCanceled ==
    /\ runPc = "sleep" /\ canceled /\ runPc' = "respond"
    /\ UNCHANGED <<runSetup, turnMessages, iteration, loopVars, callVars, result, canceled>>

-----------------------------------------------------------------------------
(* Run: the branches on the response *)

BareAnswer(ms) == ms # <<>> /\ Last(ms).role = "assistant" /\ Last(ms).calls = <<>>
AppendFinalMessage(ms, text) ==
    (IF BareAnswer(ms) THEN Front(ms) ELSE ms) \o <<Message("assistant", text)>>
AppendModelErrorPlaceholder(ms) ==
    IF BareAnswer(ms) THEN ms ELSE Append(ms, Message("assistant", Placeholder))

Clean == IF response.says THEN Said(iteration) ELSE NoText
ValidCalls == SelectSeq(response.calls, LAMBDA c : c.named)
ToolBranch == response.finish \in {"stop", "tool_calls"} /\ ValidCalls # <<>>
EmptyRetryEligible == response.finish \in {"stop", "tool_calls"} /\ ~response.says
Assistant(calls) == [Message("assistant", Clean) EXCEPT !.calls = calls]
WillRetryEmpty == ~ToolBranch /\ EmptyRetryEligible /\ emptyRetries < MaxEmptyRetries
CountEmpty == emptyRetries' = IF ~ToolBranch /\ EmptyRetryEligible THEN emptyRetries ELSE 0

RespondError ==
    /\ runPc = "respond" /\ response.finish = "error"
    /\ Return("error", <<"error">>, AppendModelErrorPlaceholder(turnMessages))
    /\ UNCHANGED <<runSetup, iteration, loopVars, callVars, canceled>>

RespondEmptyRetry ==
    /\ runPc = "respond" /\ WillRetryEmpty
    /\ emptyRetries' = emptyRetries + 1
    /\ Continue(turnMessages) /\ UNCHANGED lengthParts

RespondLength ==
    /\ runPc = "respond" /\ response.finish = "length" /\ Len(lengthParts) < MaxLengthRecoveries
    /\ lengthParts' = Append(lengthParts, Clean) /\ CountEmpty
    /\ Continue(turnMessages \o <<Assistant(<<>>), Message("user", "continue")>>)

Answers == response.finish # "error" /\ ~ToolBranch /\ ~WillRetryEmpty
    /\ ~(response.finish = "length" /\ Len(lengthParts) < MaxLengthRecoveries)
RespondBlank ==
    /\ runPc = "respond" /\ Answers /\ ~response.says
    /\ Return("empty_final_response", <<EmptyFinal>>, AppendFinalMessage(turnMessages, EmptyFinal))
    /\ CountEmpty /\ UNCHANGED <<runSetup, iteration, lengthParts, callVars, canceled>>

RespondAnswer ==
    /\ runPc = "respond" /\ Answers /\ response.says
    /\ Return("completed", Append(lengthParts, Clean), Append(turnMessages, Assistant(<<>>)))
    /\ CountEmpty /\ UNCHANGED <<runSetup, iteration, lengthParts, callVars, canceled>>

RespondToolsKeepsParts ==
    /\ runPc = "respond" /\ ToolBranch
    /\ turnMessages' = Append(turnMessages, Assistant(ValidCalls))
    /\ toolState' = [k \in DOMAIN ValidCalls |-> "wait"] /\ runPc' = "tools"
    /\ CountEmpty /\ UNCHANGED <<runSetup, iteration, lengthParts, attempt, response, result, canceled>>
RespondTools ==
    /\ runPc = "respond" /\ ToolBranch
    /\ turnMessages' = Append(turnMessages, Assistant(ValidCalls))
    /\ toolState' = [k \in DOMAIN ValidCalls |-> "wait"] /\ runPc' = "tools"
    /\ lengthParts' = <<>> /\ CountEmpty
    /\ UNCHANGED <<runSetup, iteration, attempt, response, result, canceled>>

-----------------------------------------------------------------------------
(* executeTools *)

SameBatch(i, j) == \A k \in Min({i, j}) .. Max({i, j}) : ValidCalls[k].safe
Batch(i) == {j \in DOMAIN toolState : j = i \/ SameBatch(i, j)}
Parallel(i) == runSetup.concurrent /\ Cardinality(Batch(i)) > 1
Running == {j \in DOMAIN toolState : toolState[j] = "running"}
Turn(i) == \A j \in 1 .. i - 1 : toolState[j] = "done" \/ (Parallel(i) /\ j \in Batch(i))
SetTool(i, s) ==
    /\ toolState' = [toolState EXCEPT ![i] = s]
    /\ UNCHANGED <<runSetup, turnMessages, iteration, loopVars, attempt, runPc, response, result, canceled>>

ToolStart(i) ==
    /\ runPc = "tools" /\ runSetup.registry /\ toolState[i] = "wait" /\ Turn(i)
    /\ Parallel(i) /\ runSetup.parallel > 0 => Cardinality(Running) < runSetup.parallel
    /\ SetTool(i, "running")

ToolEnd(i) == runPc = "tools" /\ toolState[i] = "running" /\ SetTool(i, "done")

(* The wait for the semaphore, or the missing registry, ends a call without running it. *)
ToolRefused(i) ==
    /\ runPc = "tools" /\ toolState[i] = "wait"
    /\ \/ ~runSetup.registry
       \/ Turn(i) /\ Parallel(i) /\ runSetup.parallel > 0 /\ canceled
    /\ SetTool(i, "done")

ToolMessages == [k \in DOMAIN ValidCalls |-> [Message("tool", "result") EXCEPT !.id = ValidCalls[k].id]]
ToolsReturn ==
    /\ runPc = "tools" /\ \A i \in DOMAIN toolState : toolState[i] = "done"
    /\ turnMessages' = turnMessages \o ToolMessages
    /\ IF iteration = runSetup.iterations - 1
       THEN runPc' = "finalize" /\ UNCHANGED iteration
       ELSE runPc' = "top" /\ iteration' = iteration + 1
    /\ UNCHANGED <<runSetup, loopVars, callVars, result, canceled>>

-----------------------------------------------------------------------------
(* finalizeAfterMaxIterations, and the end of Run after it *)

FinalizeEnds(text) ==
    /\ runPc = "finalize"
    /\ Return("max_iterations", <<text>>, AppendFinalMessage(turnMessages, text))
    /\ iteration' = iteration + 1
    /\ UNCHANGED <<runSetup, loopVars, callVars, canceled>>
FinalizeFails == FinalizeEnds(Exhausted)
FinalizeAnswers == runSetup.finalize /\ FinalizeEnds(Said(iteration + 1))

RunStep ==
    \/ IterationCanceled \/ HookFails \/ BeginIteration \/ BudgetSpent
    \/ RequestErrs \/ RequestCanceled \/ RequestReturns \/ RetryAfterDelay \/ SleepCanceled
    \/ RespondError \/ RespondEmptyRetry \/ RespondLength \/ RespondBlank \/ RespondAnswer \/ RespondTools
    \/ \E i \in DOMAIN toolState : ToolStart(i) \/ ToolEnd(i) \/ ToolRefused(i)
    \/ ToolsReturn \/ FinalizeFails \/ FinalizeAnswers
RunNext == RunStep \/ Cancel

(* The goroutine of the turn keeps running, and model calls and tools return: both have timeouts. *)
RunFairness == WF_runnerVars(RunStep)

-----------------------------------------------------------------------------
RunTypeOK ==
    /\ runPc \in {"top", "request", "sleep", "respond", "tools", "finalize", "done"}
    /\ iteration \in 0 .. runSetup.iterations
    /\ attempt \in 0 .. runSetup.delays + 1
    /\ emptyRetries \in 0 .. MaxEmptyRetries /\ Len(lengthParts) <= MaxLengthRecoveries
    /\ \A i \in DOMAIN toolState : toolState[i] \in {"wait", "running", "done"}
    /\ result.stop \in {"completed", "max_iterations", "error", "cancelled", "empty_final_response"}

Own == SubSeq(turnMessages, Len(runSetup.history) + 1, Len(turnMessages))

(* Whenever the model is asked, and when the run ends, every call the run recorded has       *)
(* exactly its results behind it, whatever was retried, refused, cancelled or cut off, and   *)
(* what goes on the wire is acceptable and asks something: it does not end on an answer.     *)
RequestsAccepted ==
    /\ runPc # "tools" => Accepted(Own)
    /\ runPc = "request" /\ Fits =>
        \A wire \in {SanitizeMessages(Request(turnMessages, runSetup.window, Reserve).sent)} :
            Accepted(wire) /\ wire # <<>> /\ Last(wire).role # "assistant"

(* A run that was not cancelled, and whose hook did not fail, ends its transcript with an    *)
(* answer, so that the next turn does not follow a question or a tool result; the exception  *)
(* is a run whose last iteration was spent on a retry or a continuation.                     *)
SpentOnRetries == iteration = runSetup.iterations /\ (emptyRetries > 0 \/ lengthParts # <<>>)
EndsAnswered ==
    runPc = "done" /\ result.stop # "cancelled" /\ ~(result.stop = "error" /\ result.final = <<>>) =>
        BareAnswer(turnMessages) \/ (SpentOnRetries /\ result.stop = "completed" /\ result.final = <<>>)

(* A completed run returns everything said since the last tool results, in order and once,   *)
(* however often the answer was cut off and continued.                                       *)
WholeAnswer ==
    runPc = "done" /\ result.stop = "completed" /\ result.final # <<>> =>
        LET tools == {i \in DOMAIN Own : IsTool(Own[i])}
            since == SubSeq(Own, IF tools = {} THEN 1 ELSE Max(tools) + 1, Len(Own))
            spoken(m) == m.role = "assistant" /\ m.text # NoText
        IN  SelectSeq(result.final, LAMBDA t : t # NoText) = Mapped(SelectSeq(since, spoken), LAMBDA m : m.text)

(* A call that is not safe beside others runs alone, whatever the order of a response's calls *)
(* and however its batches are scheduled; the semaphore bounds the others.                   *)
RunsAlone ==
    \A i \in Running :
        /\ ~ValidCalls[i].safe => Running = {i}
        /\ Cardinality(Running) > 1 => runSetup.concurrent
        /\ runSetup.parallel > 0 => Cardinality(Running) <= runSetup.parallel
        /\ \A j \in DOMAIN toolState : j < i /\ ~ValidCalls[j].safe => toolState[j] = "done"

RunInv == RunTypeOK /\ RequestsAccepted /\ EndsAnswered /\ WholeAnswer /\ RunsAlone

(* Every run ends, however the model answers.                                                *)
RunEnds == <>(runPc = "done")
=============================================================================
