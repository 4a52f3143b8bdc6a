--------------------------- MODULE ProviderStream ---------------------------
(***************************************************************************)
(* One streamed model call: the server, the reader goroutine with its idle *)
(* timer (internal/provider/openai/stream.go) and the runner that consumes *)
(* the events (consumeStream of internal/agent/runner.go), joined by an    *)
(* unbuffered channel.                                                     *)
(*                                                                         *)
(* A line of the server is a data line with a payload, the blank line that *)
(* ends an event, or a comment; some servers leave the blank lines out.  A *)
(* payload is Done, an error, garbage, or a chunk: pieces of text,         *)
(* reasoning and tool calls, and a finish reason or NoFinish.  Pieces are  *)
(* numbered by the server, so that a lost, repeated or reordered one       *)
(* shows.  Usage events and payloads split over lines are left out.        *)
(***************************************************************************)
EXTENDS Integers, Sequences, FiniteSets, SequencesExt

CONSTANTS
    Scripts,              \* sequences of lines a server may send, in full or cut short
    TextCalls,            \* the pieces of text that make up a <tool_call> block, in order
    NoFinish, NoPayload

VARIABLES
    script,               \* the lines the server sends in this call
    format,               \* ToolCallFormat: "native" never looks for calls in the text
    sent,                 \* how many it has sent
    link,                 \* "open", "eof" or "broken" behind the lines sent
    taken,                \* lines the reader has read
    pendingLine,          \* sseReader: the payload waiting for the end of its event
    aggregate,            \* streamAggregator: text, reasoning, calls by index, finish
    outbox,               \* events sendEvent has still to hand over
    verdict,              \* why the read loop ended: "none", "done", "failure", "eof", "broken"
    stalled,              \* the idle timer fired
    readerPc,             \* "read", "conclude", "closing", "closed"
    ctxDone,              \* the caller cancelled
    shown,                \* events given to the hooks
    finalEvent,           \* final of consumeStream
    reasoningOpen, reasoningEnds,
    consumerPc,           \* "select", "returned" or "canceled"
    accepted              \* the response consumeStream returned
streamVars == <<script, format, sent, link, taken, pendingLine, aggregate, outbox, verdict, stalled, readerPc, ctxDone,
                shown, finalEvent, reasoningOpen, reasoningEnds, consumerPc, accepted>>
serverVars == <<script, format, sent, link>>
readerVars == <<taken, pendingLine, aggregate, outbox, verdict, readerPc>>
consumerVars == <<shown, finalEvent, reasoningOpen, reasoningEnds, consumerPc, accepted>>

NoResponse == [finish |-> "none", text |-> <<>>, reasoning |-> <<>>, calls |-> <<>>]
Text(n) == [kind |-> "text", piece |-> n]
Reasoning(n) == [kind |-> "reasoning", piece |-> n]
Fragment(index, n) == [kind |-> "call", index |-> index, piece |-> n]

StreamInit ==
    /\ script \in Scripts /\ format \in {"auto", "native"} /\ sent = 0 /\ link = "open"
    /\ taken = 0 /\ pendingLine = NoPayload
    /\ aggregate = [text |-> <<>>, reasoning |-> <<>>, calls |-> <<>>, finish |-> NoFinish]
    /\ outbox = <<>> /\ verdict = "none" /\ stalled = FALSE /\ readerPc = "read" /\ ctxDone = FALSE
    /\ shown = <<>> /\ finalEvent = NoResponse /\ reasoningOpen = FALSE /\ reasoningEnds = 0
    /\ consumerPc = "select" /\ accepted = NoResponse

-----------------------------------------------------------------------------
(* The server, the caller and the timer *)

ServerSends ==
    /\ link = "open" /\ sent < Len(script) /\ sent' = sent + 1
    /\ UNCHANGED <<script, format, link, readerVars, stalled, ctxDone, consumerVars>>

ServerEnds ==
    /\ link = "open" /\ link' \in {"eof", "broken"}
    /\ UNCHANGED <<script, format, sent, readerVars, stalled, ctxDone, consumerVars>>

CallerCancels ==
    /\ ~ctxDone /\ consumerPc = "select" /\ ctxDone' = TRUE
    /\ UNCHANGED <<serverVars, readerVars, stalled, consumerVars>>

(* The idle timer is reset by lines only: waiting for the consumer counts as idle too. *)
IdleTimerFires ==
    /\ ~stalled /\ readerPc = "read" /\ (sent = taken \/ outbox # <<>>) /\ stalled' = TRUE
    /\ UNCHANGED <<serverVars, readerVars, ctxDone, consumerVars>>

-----------------------------------------------------------------------------
(* The reader goroutine *)

Accumulate(calls, f) ==
    IF \E k \in DOMAIN calls : calls[k].index = f.index
    THEN [k \in DOMAIN calls |->
            IF calls[k].index = f.index THEN [calls[k] EXCEPT !.pieces = Append(@, f.piece)] ELSE calls[k]]
    ELSE Append(calls, [index |-> f.index, pieces |-> <<f.piece>>])

Pieces(events, kind) ==
    LET of == SelectSeq(events, LAMBDA e : e.kind = kind) IN [k \in DOMAIN of |-> of[k].piece]
CallsOf(events) == FoldLeft(Accumulate, <<>>, SelectSeq(events, LAMBDA e : e.kind = "call"))

Add(a, chunk) ==
    [text |-> a.text \o Pieces(chunk.events, "text"),
     reasoning |-> a.reasoning \o Pieces(chunk.events, "reasoning"),
     calls |-> FoldLeft(Accumulate, a.calls, SelectSeq(chunk.events, LAMBDA e : e.kind = "call")),
     finish |-> IF chunk.finish # NoFinish THEN chunk.finish ELSE a.finish]

DispatchChunk(p) ==
    CASE p = NoPayload -> UNCHANGED <<aggregate, outbox, verdict>>
      [] p # NoPayload /\ p.kind = "done" -> verdict' = "done" /\ UNCHANGED <<aggregate, outbox>>
      [] p # NoPayload /\ p.kind \in {"error", "garbage"} -> verdict' = "failure" /\ UNCHANGED <<aggregate, outbox>>
      [] p # NoPayload /\ p.kind = "chunk" ->
            aggregate' = Add(aggregate, p) /\ outbox' = p.events /\ UNCHANGED verdict

(* A blank line ends the event; a data line also ends one whose payload is already complete JSON. *)
CompleteJSON(p) == p # NoPayload /\ p.kind \in {"chunk", "error"}
ReadLine ==
    /\ readerPc = "read" /\ verdict = "none" /\ outbox = <<>> /\ taken < sent
    /\ taken' = taken + 1
    /\ LET line == script[taken + 1]
       IN  CASE line.kind = "comment" -> pendingLine' = pendingLine /\ DispatchChunk(NoPayload)
             [] line.kind = "blank" -> pendingLine' = NoPayload /\ DispatchChunk(pendingLine)
             [] line.kind = "data" /\ (pendingLine = NoPayload \/ CompleteJSON(pendingLine)) ->
                    pendingLine' = line.payload /\ DispatchChunk(pendingLine)
             [] OTHER -> pendingLine' = [kind |-> "garbage"] /\ DispatchChunk(NoPayload)
    /\ UNCHANGED <<serverVars, readerPc, stalled, ctxDone, consumerVars>>

(* The read fails or ends; a payload still pending is dispatched. *)
ReadEnds(why) ==
    /\ readerPc = "read" /\ verdict = "none" /\ outbox = <<>>
    /\ LET flushed == IF pendingLine = NoPayload THEN NoPayload ELSE pendingLine
       IN  /\ IF flushed # NoPayload /\ flushed.kind = "chunk"
              THEN aggregate' = Add(aggregate, flushed) /\ outbox' = flushed.events /\ verdict' = why
              ELSE /\ verdict' = IF flushed # NoPayload /\ flushed.kind # "done" THEN "failure" ELSE why
                   /\ UNCHANGED <<aggregate, outbox>>
    /\ pendingLine' = NoPayload
    /\ UNCHANGED <<serverVars, taken, readerPc, stalled, ctxDone, consumerVars>>
ReadEOF == taken = sent /\ link = "eof" /\ ReadEnds("eof")
ReadBroken == ((taken = sent /\ link = "broken") \/ stalled \/ ctxDone) /\ ReadEnds("broken")

(* sendEvent gives up when the caller has cancelled. *)
SendDropped ==
    /\ outbox # <<>> /\ ctxDone /\ outbox' = Tail(outbox)
    /\ UNCHANGED <<serverVars, taken, pendingLine, aggregate, verdict, readerPc, stalled, ctxDone, consumerVars>>

(* extractTextToolCalls: the complete blocks of an answer without calls become its calls. *)
Blocks(text) ==
    LET At(b) == CHOOSE i \in DOMAIN text : text[i] = b[1]
    IN  SetToSortSeq(TextCalls \cap SubSeqs(text), LAMBDA b, c : At(b) < At(c))
InText == -1
TextCall(block) == [index |-> InText, pieces |-> block]

(* A change: the blocks stay in the text. *)
ExtractKeepsText(a) ==
    LET blocks == IF a.calls = <<>> /\ format # "native" THEN Blocks(a.text) ELSE <<>>
    IN  [text |-> a.text, calls |-> a.calls \o [k \in DOMAIN blocks |-> TextCall(blocks[k])]]
Extract(a) ==
    LET blocks == IF a.calls = <<>> /\ format # "native" THEN Blocks(a.text) ELSE <<>>
    IN  [text |-> SelectSeq(a.text, LAMBDA p : \A k \in DOMAIN blocks : p \notin ToSet(blocks[k])),
         calls |-> a.calls \o [k \in DOMAIN blocks |-> TextCall(blocks[k])]]
Response ==
    [finish |-> aggregate.finish, text |-> Extract(aggregate).text, reasoning |-> aggregate.reasoning,
     calls |-> Extract(aggregate).calls]
Failure == [NoResponse EXCEPT !.finish = "error"]
DoneEvent(r) == [kind |-> "done", response |-> r]
ConclusionTrustsEnd ==
    CASE stalled -> <<DoneEvent(Failure)>>
      [] ~stalled /\ verdict = "failure" -> <<DoneEvent(Failure)>>
      [] ~stalled /\ verdict # "failure" /\ ctxDone -> <<>>
      [] ~stalled /\ verdict = "broken" /\ ~ctxDone -> <<DoneEvent(Failure)>>
      [] OTHER -> <<DoneEvent(Response)>>
Conclusion ==
    CASE stalled -> <<DoneEvent(Failure)>>
      [] ~stalled /\ verdict = "failure" -> <<DoneEvent(Failure)>>
      [] ~stalled /\ verdict # "failure" /\ ctxDone -> <<>>
      [] ~stalled /\ verdict = "broken" /\ ~ctxDone -> <<DoneEvent(Failure)>>
      [] ~stalled /\ verdict \in {"done", "eof"} /\ ~ctxDone ->
            IF aggregate.finish = NoFinish THEN <<DoneEvent(Failure)>> ELSE <<DoneEvent(Response)>>
Conclude ==
    /\ readerPc = "read" /\ verdict # "none" /\ outbox = <<>>
    /\ readerPc' = "closing" /\ outbox' = Conclusion
    /\ UNCHANGED <<serverVars, taken, pendingLine, aggregate, verdict, stalled, ctxDone, consumerVars>>

Close ==
    /\ readerPc = "closing" /\ outbox = <<>> /\ readerPc' = "closed"
    /\ UNCHANGED <<serverVars, taken, pendingLine, aggregate, outbox, verdict, stalled, ctxDone, consumerVars>>

-----------------------------------------------------------------------------
(* consumeStream *)

CloseNativeReasoning ==
    reasoningOpen' = FALSE /\ reasoningEnds' = reasoningEnds + (IF reasoningOpen THEN 1 ELSE 0)

ConsumeText ==
    /\ consumerPc = "select" /\ outbox # <<>> /\ Head(outbox).kind = "text"
    /\ outbox' = Tail(outbox) /\ shown' = Append(shown, Head(outbox)) /\ CloseNativeReasoning
    /\ UNCHANGED <<serverVars, taken, pendingLine, aggregate, verdict, readerPc, stalled, ctxDone, finalEvent, consumerPc, accepted>>

ConsumeReasoning ==
    /\ consumerPc = "select" /\ outbox # <<>> /\ Head(outbox).kind = "reasoning"
    /\ outbox' = Tail(outbox) /\ shown' = Append(shown, Head(outbox)) /\ reasoningOpen' = TRUE
    /\ UNCHANGED <<serverVars, taken, pendingLine, aggregate, verdict, readerPc, stalled, ctxDone, finalEvent, reasoningEnds, consumerPc, accepted>>

ConsumeCall ==
    /\ consumerPc = "select" /\ outbox # <<>> /\ Head(outbox).kind = "call"
    /\ outbox' = Tail(outbox) /\ shown' = Append(shown, Head(outbox))
    /\ UNCHANGED <<serverVars, taken, pendingLine, aggregate, verdict, readerPc, stalled, ctxDone, finalEvent, reasoningOpen, reasoningEnds, consumerPc, accepted>>

ConsumeDone ==
    /\ consumerPc = "select" /\ outbox # <<>> /\ Head(outbox).kind = "done"
    /\ outbox' = Tail(outbox) /\ finalEvent' = Head(outbox).response
    /\ UNCHANGED <<serverVars, taken, pendingLine, aggregate, verdict, readerPc, stalled, ctxDone, shown, reasoningOpen, reasoningEnds, consumerPc, accepted>>

ConsumeCanceled ==
    /\ consumerPc = "select" /\ ctxDone /\ consumerPc' = "canceled" /\ CloseNativeReasoning
    /\ UNCHANGED <<serverVars, readerVars, stalled, ctxDone, shown, finalEvent, accepted>>

(* finishStream: the provider's own response, or one put together from what was shown. *)
FinishStream ==
    IF finalEvent # NoResponse THEN finalEvent
    ELSE [finish |-> IF CallsOf(shown) # <<>> THEN "tool_calls" ELSE "stop",
          text |-> Pieces(shown, "text"), reasoning |-> Pieces(shown, "reasoning"), calls |-> CallsOf(shown)]
ConsumeClosed ==
    /\ consumerPc = "select" /\ readerPc = "closed"
    /\ consumerPc' = "returned" /\ accepted' = FinishStream /\ CloseNativeReasoning
    /\ UNCHANGED <<serverVars, readerVars, stalled, ctxDone, shown, finalEvent>>

ReaderStep == ReadLine \/ ReadEOF \/ ReadBroken \/ SendDropped \/ Conclude \/ Close
ConsumerStep == ConsumeText \/ ConsumeReasoning \/ ConsumeCall \/ ConsumeDone \/ ConsumeCanceled \/ ConsumeClosed
StreamNext == ServerSends \/ ServerEnds \/ CallerCancels \/ IdleTimerFires \/ ReaderStep \/ ConsumerStep

(* Both goroutines run on, and the timer fires when nothing else happens; the server owes nothing. *)
StreamFairness == WF_streamVars(ReaderStep) /\ WF_streamVars(ConsumerStep) /\ WF_streamVars(IdleTimerFires)

-----------------------------------------------------------------------------
StreamTypeOK ==
    /\ sent \in 0 .. Len(script) /\ taken \in 0 .. sent
    /\ verdict \in {"none", "done", "failure", "eof", "broken"}
    /\ readerPc \in {"read", "closing", "closed"} /\ consumerPc \in {"select", "returned", "canceled"}

(* What a call is accepted to have answered is what the user was shown, piece by piece: the  *)
(* reasoning and the calls of the events, no fragment of one call in another, and the text.  *)
(* A piece of text is either in the answer's text or in a call read from the text, never in  *)
(* both or lost, and always in its order; and only an answer without calls of its own gets   *)
(* calls from its text.                                                                      *)
AnswerIsShown ==
    LET Read(read) == SelectSeq(accepted.calls, LAMBDA c : (c.index = InText) = read)
        inCalls    == FlattenSeq([k \in DOMAIN Read(TRUE) |-> Read(TRUE)[k].pieces])
        text       == Pieces(shown, "text")
    IN  consumerPc = "returned" /\ accepted.finish # "error" =>
            /\ accepted.reasoning = Pieces(shown, "reasoning") /\ Read(FALSE) = CallsOf(shown)
            /\ accepted.text = SelectSeq(text, LAMBDA p : p \notin ToSet(inCalls))
            /\ inCalls = SelectSeq(text, LAMBDA p : p \in ToSet(inCalls))
            /\ Read(TRUE) # <<>> => Read(FALSE) = <<>>

(* An answer is accepted only when the server finished it: a stream cut short by its end, a  *)
(* broken connection, the timer or a bad payload is a failure.  A cancelled call is exempt:  *)
(* the channel closes without a response, and the select may see that first.                 *)
Payloads == LET data == SelectSeq(SubSeq(script, 1, taken), LAMBDA l : l.kind = "data")
            IN  [k \in DOMAIN data |-> data[k].payload]
AcceptedIsComplete ==
    consumerPc = "returned" /\ accepted.finish # "error" /\ ~ctxDone =>
        /\ \E k \in DOMAIN Payloads : Payloads[k].kind = "chunk" /\ Payloads[k].finish = accepted.finish
        /\ \A k \in DOMAIN Payloads : Payloads[k].kind \notin {"error", "garbage"}
        /\ shown = FlattenSeq([k \in DOMAIN Payloads |-> IF Payloads[k].kind = "chunk" THEN Payloads[k].events ELSE <<>>])
        /\ ~stalled

(* The reasoning shown is closed once for every time it was opened, however the call ends.   *)
ReasoningClosed ==
    /\ consumerPc # "select" => ~reasoningOpen
    /\ reasoningEnds + (IF reasoningOpen THEN 1 ELSE 0) =
         Cardinality({k \in DOMAIN shown : shown[k].kind = "reasoning" /\
             ~\E j \in 1 .. k - 1 : shown[j].kind = "reasoning" /\ \A i \in j .. k : shown[i].kind # "text"})

StreamInv == StreamTypeOK /\ AnswerIsShown /\ AcceptedIsComplete /\ ReasoningClosed

(* However the server behaves, the consumer returns and the reader goroutine ends.           *)
StreamEnds == <>[](readerPc = "closed" /\ consumerPc # "select")
=============================================================================
