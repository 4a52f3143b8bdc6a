---------------------------- MODULE MessageWire ----------------------------
(***************************************************************************)
(* What crosses the wire at both ends of a turn: how a reply is cut into   *)
(* Telegram messages and sent with retries (telegram/split.go, channel.go, *)
(* client.go), how a model's answer becomes a response and its calls are   *)
(* replayed (provider/openai/response.go, request.go), and how an          *)
(* oversized tool result is kept on disk (agent/toolresult.go).            *)
(*                                                                         *)
(* A text is a sequence of characters, each a string that names it: "tick" *)
(* is a backtick, "nl" a newline, "sp" a space, anything else an ordinary  *)
(* character.  Positions are the code's: the characters before them.       *)
(***************************************************************************)
EXTENDS Integers, Sequences, FiniteSets, SequencesExt, FiniteSetsExt

----------------------------------------------------------------------------
(* Splitting (split.go). *)

White == {"sp", "nl"}
Take(t, pos) == SubSeq(t, 1, pos)
Drop(t, pos) == SubSeq(t, pos + 1, Len(t))
NonWhite(t) == SelectSeq(t, LAMBDA c : c \notin White)

LStrip(t) ==
    LET ink == {i \in DOMAIN t : t[i] \notin White}
    IN  IF ink = {} THEN <<>> ELSE Drop(t, Min(ink) - 1)

FenceMark == <<"tick", "tick", "tick">>
Closing == <<"nl">> \o FenceMark
FenceAt(t, pos) == pos + 3 <= Len(t) /\ SubSeq(t, pos + 1, pos + 3) = FenceMark

RECURSIVE FencesFrom(_, _)
FencesFrom(t, pos) ==
    IF pos + 3 > Len(t) THEN 0
    ELSE IF FenceAt(t, pos) THEN 1 + FencesFrom(t, pos + 3) ELSE FencesFrom(t, pos + 1)
countFence(t) == FencesFrom(t, 0)

lastFenceIndex(t) == Max({-1} \cup {pos \in 0 .. Len(t) : FenceAt(t, pos)})
lastIndexRuneFrom(t, c, from) == Max({-1} \cup {i - 1 : i \in {j \in DOMAIN t : t[j] = c /\ j - 1 >= from}})
lastIndexRune(t, c) == lastIndexRuneFrom(t, c, 0)
fenceLine(t) ==
    LET ends == {i \in DOMAIN t : t[i] = "nl"}
    IN  IF ends = {} THEN t ELSE Take(t, Min(ends) - 1)

recutPos(t, budget, minCodePos) ==
    LET recut == Take(t, Max({0, Min({budget, Len(t)})}))
        line == lastIndexRuneFrom(recut, "nl", minCodePos)
        adjusted == IF line < minCodePos THEN lastIndexRuneFrom(recut, "sp", minCodePos) ELSE line
    IN  IF adjusted > minCodePos THEN adjusted ELSE Len(recut)

\* Where a chunk that starts with an open code block is cut, leaving room for
\* the closing fence; -1 when the block's header leaves no room for any code.
CodeCutKeepsPos(t, pos, minCodePos, maxLen) == IF pos <= minCodePos THEN -1 ELSE pos
CodeCut(t, pos, minCodePos, maxLen) ==
    LET budget == maxLen - Len(Closing)
        at == IF pos >= minCodePos /\ pos <= budget THEN pos
              ELSE IF budget <= minCodePos THEN -1
              ELSE recutPos(t, budget, minCodePos)
    IN  IF at <= minCodePos THEN -1 ELSE at

RECURSIVE SplitFrom(_, _)
SplitFrom(t, maxLen) ==
    IF t = <<>> THEN <<>>
    ELSE IF Len(t) <= maxLen THEN <<t>>
    ELSE LET line == lastIndexRune(Take(t, maxLen), "nl")
             word == lastIndexRune(Take(t, maxLen), "sp")
             pos == IF line > 0 THEN line ELSE IF word > 0 THEN word ELSE maxLen
             insideCode == countFence(Take(t, pos)) % 2 = 1
             opening == lastFenceIndex(Take(t, pos))
             fence == fenceLine(t)
             minCodePos == Len(fence) + (IF IsPrefix(fence \o <<"nl">>, t) THEN 1 ELSE 0)
             code == CodeCut(t, pos, minCodePos, maxLen)
             rest == Drop(t, code)
             CutAt(p) == <<Take(t, p)>> \o SplitFrom(LStrip(Drop(t, p)), maxLen)
         IN  CASE ~insideCode -> CutAt(pos)
               [] insideCode /\ opening > 0 -> CutAt(opening)
               [] insideCode /\ opening <= 0 /\ code < 0 -> CutAt(maxLen)
               [] OTHER -> <<Take(t, code) \o Closing>>
                           \o SplitFrom(fence \o <<"nl">> \o (IF rest[1] = "nl" THEN Tail(rest) ELSE rest), maxLen)

SplitMarkdown(t, maxLen) ==
    LET content == LStrip(t)
    IN  IF content = <<>> THEN <<>>
        ELSE IF maxLen < 1 THEN <<content>>
        ELSE SplitFrom(content, maxLen)

\* The length of MarkdownToHTML for a text without markup, of which EscapeHTML
\* alone changes the length; "&" is the character of the model it makes longer.
HtmlLen(t) == Len(t) + 4 * Len(SelectSeq(t, LAMBDA c : c = "&"))

\* The chunks whose HTML fits, or "error" (the code's margin of 8 is a parameter).
RECURSIVE HtmlChunks(_, _, _)
HtmlChunks(pending, maxHTMLLen, margin) ==
    IF pending = <<>> THEN <<>>
    ELSE LET chunk == Head(pending)
             limit == Min({Len(chunk) - 1,
                           Max({1, ((Len(chunk) * maxHTMLLen) \div HtmlLen(chunk)) - margin})})
             parts == SplitMarkdown(chunk, limit)
         IN  IF HtmlLen(chunk) <= maxHTMLLen
             THEN LET others == HtmlChunks(Tail(pending), maxHTMLLen, margin)
                  IN  IF others = <<<<"error">>>> THEN others ELSE <<chunk>> \o others
             ELSE IF limit <= 0 \/ parts = <<chunk>> THEN <<<<"error">>>>
             ELSE HtmlChunks(parts \o Tail(pending), maxHTMLLen, margin)
SplitMarkdownHTMLChunks(t, maxLen, maxHTMLLen, margin) == HtmlChunks(SplitMarkdown(t, maxLen), maxHTMLLen, margin)

\* One reading of the chunks: where reopened[i] holds, chunk i was cut inside a
\* code block, so the fence closing chunk i and the header opening chunk i + 1
\* are the splitter's own.
Unsplit(chunks, reopened) ==
    LET Body(i) ==
          LET c == chunks[i]
              whole == IF i \in reopened THEN Take(c, Len(c) - Len(Closing)) ELSE c
          IN  IF i - 1 \in reopened THEN Drop(whole, Len(fenceLine(whole))) ELSE whole
    IN  NonWhite(FlattenSeq([i \in DOMAIN chunks |-> Body(i)]))
Reopenable(chunks) ==
    {i \in 1 .. Len(chunks) - 1 : IsSuffix(Closing, chunks[i]) /\ FenceAt(chunks[i + 1], 0)}

\* However a text with code blocks is cut, no message is longer than the
\* platform's limit or blank, and what is read back - without the fences the
\* splitter added where it cut inside a block - is the text, in order.
SplitKeepsText(t, maxLen) ==
    LET chunks == SplitMarkdown(t, maxLen)
    IN  /\ \A i \in DOMAIN chunks : Len(chunks[i]) <= maxLen /\ NonWhite(chunks[i]) # <<>>
        /\ \E reopened \in SUBSET Reopenable(chunks) : Unsplit(chunks, reopened) = NonWhite(t)

\* Splitting a text without markup by the length of its rendering ends, within
\* the limit or with an error, and an error means one character alone renders
\* longer than the limit.
HtmlFits(t, maxLen, maxHTMLLen, margin) ==
    LET chunks == SplitMarkdownHTMLChunks(t, maxLen, maxHTMLLen, margin)
    IN  \/ chunks = <<<<"error">>>> /\ \E i \in DOMAIN t : HtmlLen(<<t[i]>>) > maxHTMLLen
        \/ \A i \in DOMAIN chunks : HtmlLen(chunks[i]) <= maxHTMLLen

----------------------------------------------------------------------------
(* Sending (channel.go's Send, sendCompactionNotice and sendWithRetry, under *)
(* the manager's own retries of a whole Send).  The chat is what the user    *)
(* sees; a message id is a position in it.                                   *)

CONSTANTS SdSetups,      \* [queue, faults, room, rounds]
          SendMaxRetries \* attempts of one request (constants.go: 3)

VARIABLES sdSetup, sdAt, sdPc, sdPart, sdTry, sdRound, notices, chat, sdFaults, sdDone, sdLost, evicted
sdVars == <<sdSetup, sdAt, sdPc, sdPart, sdTry, sdRound, notices, chat, sdFaults, sdDone, sdLost, evicted>>

Message == sdSetup.queue[sdAt]

\* The request a Send begins with.  Looking a notice up also deletes it.
FirstRequest(m, known) ==
    CASE m.kind = "text" -> "html"
      [] m.kind = "started" -> "notice"
      [] m.kind = "finished" /\ (m.id \notin known \/ m.empty) -> "fresh"
      [] OTHER -> "edit"

SdInit ==
    /\ sdSetup \in SdSetups
    /\ sdAt = 1 /\ sdPc = "idle" /\ sdPart = 1 /\ sdTry = 1 /\ sdRound = 1
    /\ notices = {} /\ chat = <<>> /\ sdFaults = sdSetup.faults
    /\ sdDone = <<>> /\ sdLost = 0 /\ evicted = {}

\* A notice the map holds: [id, at], at the position of its message in the chat.
Held(id) == {n \in notices : n.id = id}

SendStarts ==
    /\ sdPc = "idle" /\ sdAt <= Len(sdSetup.queue)
    /\ sdPc' = FirstRequest(Message, {n.id : n \in notices})
    /\ sdPart' = IF sdPc' = "edit" THEN (CHOOSE n \in Held(Message.id) : TRUE).at ELSE 1
    /\ sdTry' = 1
    /\ notices' = IF Message.kind = "finished" THEN notices \ Held(Message.id) ELSE notices
    /\ UNCHANGED <<sdSetup, sdAt, sdRound, chat, sdFaults, sdDone, sdLost, evicted>>

\* What the platform refuses with a 400: HTML it cannot parse, an empty text,
\* an edit that changes nothing.
Refusable ==
    \/ sdPc = "html" /\ sdPart \in Message.bad
    \/ sdPc = "fresh" /\ Message.empty
    \/ sdPc = "edit" /\ chat[sdPart].text = "final"

Shown ==
    IF sdPc = "edit" THEN [chat EXCEPT ![sdPart].text = "final"]
    ELSE Append(chat, [msg |-> sdAt,
                       part |-> IF Message.kind = "text" THEN sdPart ELSE 1,
                       text |-> IF sdPc = "notice" THEN "started" ELSE "final"])

\* The Send is over: the manager goes on to its next message or calls it again.
SendReturns(outcome) ==
    /\ sdPc' = "idle" /\ sdPart' = 1
    /\ IF outcome = "failed" /\ sdRound < sdSetup.rounds
       THEN sdRound' = sdRound + 1 /\ UNCHANGED <<sdAt, sdDone>>
       ELSE /\ sdRound' = 1 /\ sdAt' = sdAt + 1
            /\ sdDone' = Append(sdDone, [outcome |-> outcome, rounds |-> sdRound])

\* A request that succeeded: the next chunk, or the end of the Send.
Accepted ==
    /\ ~Refusable
    /\ sdPc # "idle"
    /\ chat' = Shown /\ sdTry' = 1
    /\ \/ /\ sdPc \in {"html", "plain"} /\ sdPart < Message.parts
          /\ sdPc' = "html" /\ sdPart' = sdPart + 1
          /\ UNCHANGED <<sdAt, sdRound, sdDone, notices, evicted>>
       \/ /\ sdPc = "notice"
          /\ \E out \in IF Cardinality(notices) >= sdSetup.room THEN {{n} : n \in notices} ELSE {{}} :
               /\ notices' = ((notices \ out) \ Held(Message.id)) \cup {[id |-> Message.id, at |-> Len(chat')]}
               /\ evicted' = evicted \cup {n.id : n \in out}
          /\ SendReturns("ok")
       \/ /\ sdPc \in {"html", "plain"} => sdPart = Message.parts
          /\ sdPc # "notice"
          /\ SendReturns("ok") /\ UNCHANGED <<notices, evicted>>
    /\ UNCHANGED <<sdSetup, sdFaults, sdLost>>

\* A request that failed for good: HTML falls back to plain text after a 400,
\* an edit to a new message (unless it only changed nothing), the rest fail.
RequestFailsQuietly(refused) == sdTry' = 1 /\ SendReturns("ok")
RequestFails(refused) ==
    /\ sdTry' = 1
    /\ CASE sdPc = "html" /\ refused -> sdPc' = "plain" /\ UNCHANGED <<sdAt, sdPart, sdRound, sdDone>>
         [] sdPc = "edit" /\ refused -> SendReturns("ok")
         [] sdPc = "edit" /\ ~refused -> sdPc' = "resend" /\ sdPart' = 1 /\ UNCHANGED <<sdAt, sdRound, sdDone>>
         [] OTHER -> SendReturns("failed")

Refused ==
    /\ sdPc # "idle" /\ Refusable
    /\ RequestFails(TRUE)
    /\ UNCHANGED <<sdSetup, notices, chat, sdFaults, sdLost, evicted>>

\* An answer that is no success: "forbidden" is an API error that is not
\* transient; "busy" (429 or 5xx) and a failed transport are tried again, up to
\* SendMaxRetries; a transport that fails after the platform acted leaves the
\* message in the chat.
Goes(fault) ==
    /\ sdPc # "idle" /\ sdFaults > 0 /\ sdFaults' = sdFaults - 1
    /\ fault = "lost answer" => ~Refusable
    /\ chat' = IF fault = "lost answer" THEN Shown ELSE chat
    /\ sdLost' = IF fault = "lost answer" THEN sdLost + 1 ELSE sdLost
    /\ IF fault = "forbidden" \/ sdTry = SendMaxRetries
       THEN RequestFails(FALSE)
       ELSE sdTry' = sdTry + 1 /\ UNCHANGED <<sdAt, sdPc, sdPart, sdRound, sdDone>>
    /\ UNCHANGED <<sdSetup, notices, evicted>>

\* The context ends: no further request of this Send, and the manager does not
\* call it again.
SdCancelled ==
    /\ sdPc # "idle" /\ sdFaults > 0
    /\ sdFaults' = sdFaults - 1
    /\ sdPc' = "idle" /\ sdPart' = 1 /\ sdTry' = 1 /\ sdRound' = 1 /\ sdAt' = Len(sdSetup.queue) + 1
    /\ sdDone' = Append(sdDone, [outcome |-> "cancelled", rounds |-> sdRound])
    /\ UNCHANGED <<sdSetup, notices, chat, sdLost, evicted>>

SdRequest == Accepted \/ Refused
SdNext ==
    \/ SendStarts
    \/ SdRequest
    \/ \E fault \in {"forbidden", "busy", "lost request", "lost answer"} : Goes(fault)
    \/ SdCancelled

Idle == sdPc = "idle" /\ sdAt > Len(sdSetup.queue)

Places(m, part) == {i \in DOMAIN chat : chat[i].msg = m /\ chat[i].part = part}
Delivered == {m \in DOMAIN sdDone : sdDone[m].outcome = "ok"}

\* A Send that reports success has shown every chunk of the message, the last
\* copies in order.
ShownInOrder ==
    \A m \in Delivered :
        sdSetup.queue[m].kind = "text" =>
            \A part \in 1 .. sdSetup.queue[m].parts :
                /\ Places(m, part) # {}
                /\ part > 1 => Max(Places(m, part - 1)) < Max(Places(m, part))

\* A chunk appears again only when the answer for a copy was lost or when the
\* manager repeated a Send that failed further on: never more copies than that.
CopiesExplained ==
    \A m \in DOMAIN sdDone : \A i \in DOMAIN chat :
        chat[i].msg = m => Cardinality(Places(m, chat[i].part)) <= sdLost + sdDone[m].rounds

\* The notice of a compaction that finished shows the final text, in place when
\* nothing went wrong; and the table of open notices stays within its room.
NoticesSettled ==
    /\ Cardinality(notices) <= sdSetup.room
    /\ \A s, f \in DOMAIN sdDone :
        LET q == sdSetup.queue
        IN  (/\ q[s].kind = "started" /\ q[f].kind = "finished" /\ s < f /\ q[s].id = q[f].id
             /\ f \in Delivered)
            => /\ \E i \in DOMAIN chat : chat[i].msg \in {s, f} /\ chat[i].text = "final"
               /\ (sdFaults = sdSetup.faults /\ q[s].id \notin evicted) => Places(f, 1) = {}

SdTypeOK ==
    /\ sdAt \in 1 .. Len(sdSetup.queue) + 1 /\ sdTry \in 1 .. SendMaxRetries /\ sdRound \in 1 .. sdSetup.rounds
    /\ sdPc \in {"idle", "html", "plain", "notice", "fresh", "edit", "resend"}
    /\ sdFaults \in 0 .. sdSetup.faults

SendInv == SdTypeOK /\ ShownInOrder /\ CopiesExplained /\ NoticesSettled

----------------------------------------------------------------------------
(* A model's answer (response.go).  A content is a sequence of tokens of a   *)
(* kind: "open" and "close" are the <tool_call> tags, "json" and "xml" the   *)
(* payloads, "sp" white space and "text" anything else.                      *)

Payload(x) == x.kind \in {"json", "xml"}
OfKind(c, i, kind) == i \in DOMAIN c /\ c[i].kind = kind
\* The first token from i on that is not white space.
Skip(c, i) == Min({Len(c) + 1} \cup {j \in i .. Len(c) : c[j].kind # "sp"})
IsClose(c, i) == OfKind(c, i, "close")

\* textToolCallRe: from an opening tag to the next closing one, whatever is
\* between them; the payload counts when it is one JSON object with a name.
RECURSIVE JsonMatches(_, _)
JsonMatches(c, from) ==
    LET opens == {i \in from .. Len(c) : c[i].kind = "open"}
        start == Min(opens)
        closes == {i \in start + 1 .. Len(c) : c[i].kind = "close"}
        end == Min(closes)
        body == Skip(c, start + 1)
    IN  IF opens = {} THEN {}
        ELSE IF closes = {} THEN {}
        ELSE (IF OfKind(c, body, "json") /\ Skip(c, body + 1) = end /\ c[body].name # ""
              THEN {[start |-> start, end |-> end, call |-> c[body]]} ELSE {})
             \cup JsonMatches(c, end + 1)

\* textToolCallXMLRe: an opening tag straight before a function, up to the first
\* function's end that a closing tag follows; parseXMLTextToolCall refuses a
\* body with anything but parameters in it, or with one of them twice.
RECURSIVE XmlMatches(_, _)
XmlMatches(c, from) ==
    LET starts == {i \in from .. Len(c) : c[i].kind = "open" /\ OfKind(c, Skip(c, i + 1), "xml")}
        start == Min(starts)
        body == Skip(c, start + 1)
        ends == {i \in body .. Len(c) : OfKind(c, i, "xml") /\ IsClose(c, Skip(c, i + 1))}
        last == Min(ends)
        end == Skip(c, last + 1)
    IN  IF starts = {} THEN {}
        ELSE IF ends = {} THEN XmlMatches(c, start + 1)
        ELSE (IF last = body /\ c[body].clean
              THEN {[start |-> start, end |-> end, call |-> c[body]]} ELSE {})
             \cup XmlMatches(c, end + 1)

Trimmed(c) ==
    LET ink == {i \in DOMAIN c : c[i].kind # "sp"}
    IN  IF ink = {} THEN <<>> ELSE SubSeq(c, Min(ink), Max(ink))

\* The matches taken: in order of their start, skipping one that begins inside
\* the span of the one taken before it.
RECURSIVE Taken(_, _)
Taken(matches, last) ==
    LET free == {m \in matches : m.start > last}
        first == CHOOSE m \in free : \A n \in free : m.start <= n.start
    IN  IF free = {} THEN <<>> ELSE <<first>> \o Taken(free \ {first}, first.end)

extractTextToolCalls(c, format) ==
    LET matches == (IF format \in {"auto", "json"} THEN JsonMatches(c, 1) ELSE {})
                   \cup (IF format \in {"auto", "xml"} THEN XmlMatches(c, 1) ELSE {})
        taken == Taken(matches, 0)
        Between(i) == SubSeq(c, IF i = 1 THEN 1 ELSE taken[i - 1].end + 1,
                                IF i > Len(taken) THEN Len(c) ELSE taken[i].start - 1)
    IN  IF matches = {} THEN [content |-> c, calls |-> <<>>]
        ELSE [content |-> Trimmed(FlattenSeq([i \in 1 .. Len(taken) + 1 |-> Between(i)])),
              calls |-> [i \in DOMAIN taken |-> taken[i].call]]

\* A call's id: the model's, or a new one (shortToolID) when it gave none or
\* gave the id of an earlier call.  New ids are taken to be fresh.
KeepIds(ids, i, seen) == IF ids[i] = "" THEN <<"new", i>> ELSE <<"given", ids[i]>>
CallId(ids, i, seen) == IF ids[i] = "" \/ ids[i] \in seen THEN <<"new", i>> ELSE <<"given", ids[i]>>
CallIds(ids) == [i \in DOMAIN ids |-> CallId(ids, i, {ids[j] : j \in 1 .. i - 1})]

\* choices: [content, finish, ids], a finish of "" being absent; bare is the
\* content of an answer without choices.
parseResponse(choices, bare, format) ==
    LET ids == FlattenSeq([i \in DOMAIN choices |-> choices[i].ids])
        calling == {i \in DOMAIN choices : choices[i].ids # <<>> /\ choices[i].finish \in {"tool_calls", "stop"}}
        spoken == {i \in DOMAIN choices : choices[i].content # <<>>}
        content == IF choices = <<>> THEN bare ELSE IF spoken = {} THEN <<>> ELSE choices[Min(spoken)].content
        found == extractTextToolCalls(content, format)
        silent == found.content = <<>> /\ found.calls = <<>>
    IN  IF choices = <<>> /\ silent THEN [content |-> <<[kind |-> "text"]>>, ids |-> <<>>, calls |-> <<>>, finish |-> "error"]
        ELSE [content |-> IF ids = <<>> THEN found.content ELSE content,
              ids |-> CallIds(ids),
              calls |-> IF ids = <<>> THEN found.calls ELSE <<>>,
              finish |-> IF calling # {} THEN choices[Max(calling)].finish
                         ELSE IF choices = <<>> THEN "stop"
                         ELSE IF choices[1].finish = "" THEN "stop" ELSE choices[1].finish]

Balanced(c) ==
    LET tags == SelectSeq(c, LAMBDA x : x.kind \in {"open", "close"})
    IN  \A i \in DOMAIN tags : tags[i].kind = IF i % 2 = 1 THEN "open" ELSE "close"

\* From a text in which every tag is closed before the next opens, each
\* well-formed block becomes one call, in order, and the rest of the text stays
\* as it was; from any text, a call comes from a payload of it, none twice.
CallsExtracted(c, format) ==
    LET got == extractTextToolCalls(c, format)
        kinds == IF format = "auto" THEN {"json", "xml"} ELSE {format}
        Good(x) == Payload(x) /\ x.kind \in kinds /\ (IF x.kind = "json" THEN x.name # "" ELSE x.clean)
        good == {i \in DOMAIN c : c[i].kind = "open" /\ LET b == Skip(c, i + 1)
                                                  IN  /\ b <= Len(c) /\ Good(c[b])
                                                      /\ IsClose(c, Skip(c, b + 1))}
        Payloads(s) == SelectSeq(s, LAMBDA x : Payload(x))
    IN  /\ Len(got.calls) + Len(Payloads(got.content)) = Len(Payloads(c))
        /\ SelectSeq(got.content, LAMBDA x : x.kind = "text") = SelectSeq(c, LAMBDA x : x.kind = "text")
        /\ Balanced(c) => Len(got.calls) = Cardinality(good)

\* Whatever ids a model repeats over its choices, the calls of one response have
\* distinct ids, an id the model gave is kept by the first call that carries it,
\* and text is searched for calls only when the answer holds none.
ResponseSound(choices, bare, format) ==
    LET r == parseResponse(choices, bare, format)
        ids == FlattenSeq([i \in DOMAIN choices |-> choices[i].ids])
    IN  /\ IsInjective(r.ids) /\ Len(r.ids) = Len(ids)
        /\ \A i \in DOMAIN ids : ids[i] # "" => \E j \in 1 .. i : r.ids[j] = <<"given", ids[i]>>
        /\ r.ids # <<>> => r.calls = <<>>

\* A JSON value as arguments can be: absent, "null", an object (v tells objects
\* apart, 0 being {}), a string by what its text holds, or another value.
EmptyObject == [t |-> "object", v |-> 0]
parseToolArguments(raw) ==
    CASE raw.t \in {"absent", "null"} -> EmptyObject
      [] raw.t = "string" /\ raw.text = "blank" -> EmptyObject
      [] raw.t = "string" /\ raw.text = "object" -> [t |-> "object", v |-> raw.v]
      [] raw.t = "string" /\ raw.text = "value" -> [t |-> "value"]
      [] OTHER -> raw

\* The object whose text a replayed call carries.
toolArgumentsJSONForReplay(args) ==
    IF args.t = "object" \/ (args.t = "string" /\ args.text = "object") THEN args.v ELSE 0

\* A model name is a sequence of words; the slug is what follows the last "/".
modelSlug(name) ==
    Drop(name, Max({0} \cup {i \in DOMAIN name : name[i] = "/"}))
Names(name, word) == word \in Range(name)
supportsTemperature(name, effort) ==
    /\ modelSlug(name) # <<"kimi-k3">>
    /\ effort \in {"", "none"}
    /\ \A word \in {"gpt-5", "o1", "o3", "o4"} : ~Names(name, word)
requiresMaxCompletionTokens(name) ==
    LET slug == modelSlug(name)
    IN  \/ slug = <<"kimi-k3">> \/ Names(slug, "gpt-5")
        \/ /\ slug # <<>> /\ slug[1] \in {"o1", "o3", "o4"}
           /\ Len(slug) = 1 \/ slug[2] \in {"-", "."}
wireReasoningEffort(name, effort) ==
    LET semantic == IF effort = "minimum" THEN "minimal" ELSE effort
    IN  CASE effort = "" \/ semantic = "none" -> ""
          [] modelSlug(name) = <<"kimi-k3">> /\ semantic = "minimal" -> ""
          [] modelSlug(name) = <<"kimi-k3">> /\ semantic \notin {"", "none", "minimal"} -> "max"
          [] OTHER -> effort

\* A schema node: the types it allows (a list, or one type) and its children.
RECURSIVE sanitizeSchema(_)
sanitizeSchema(node) ==
    LET real == SelectSeq(node.types, LAMBDA ty : ty # "null")
    IN  [types |-> IF real # <<>> THEN <<real[1]>>
                   ELSE IF node.types # <<>> THEN <<node.types[1]>> ELSE <<>>,
         kids |-> {sanitizeSchema(kid) : kid \in node.kids}]

\* req: [model, effort, maxTokens, tools]; an absent field of the body is "none".
buildBody(req) ==
    LET limit == Max({1, IF req.maxTokens = 0 THEN 4096 ELSE req.maxTokens})
        completion == requiresMaxCompletionTokens(req.model)
    IN  [temperature |-> supportsTemperature(req.model, req.effort),
         maxTokens |-> IF completion THEN 0 ELSE limit,
         maxCompletionTokens |-> IF completion THEN limit ELSE 0,
         effort |-> wireReasoningEffort(req.model, req.effort),
         tools |-> [i \in DOMAIN req.tools |-> sanitizeSchema(req.tools[i])],
         choice |-> req.tools # <<>>]

RECURSIVE Nodes(_)
Nodes(node) == {node} \cup UNION {Nodes(kid) : kid \in node.kids}

\* A request never carries both limits, or a limit below one, or a temperature
\* for a model that only takes the newer limit; every schema in it allows one
\* type per node, a type the tool declared.
BodySound(req) ==
    LET body == buildBody(req)
    IN  /\ (body.maxTokens = 0) # (body.maxCompletionTokens = 0)
        /\ body.maxCompletionTokens > 0 => ~body.temperature
        /\ body.effort \notin {"none"}
        /\ \A i \in DOMAIN req.tools :
              /\ \A node \in Nodes(body.tools[i]) : Len(node.types) <= 1
              /\ UNION {Range(node.types) : node \in Nodes(body.tools[i])}
                 \subseteq UNION {Range(node.types) : node \in Nodes(req.tools[i])}

\* A count on the wire: a number, a text that reads as one or not, a Boolean or
\* nothing.
nestedInt(x) == IF x.t = "number" \/ (x.t = "text" /\ x.reads) THEN <<x.n>> ELSE <<>>
intOrZero(x) == IF x.t = "bool" \/ nestedInt(x) # <<>> THEN x.n ELSE 0
extractUsage(u) ==
    LET visible == intOrZero(u.prompt) + intOrZero(u.completion)
        total == nestedInt(u.total)
        cached == SelectSeq(<<nestedInt(u.details), nestedInt(u.cached), nestedInt(u.hit)>>, LAMBDA x : x # <<>>)
    IN  [prompt |-> intOrZero(u.prompt), completion |-> intOrZero(u.completion),
         total |-> IF total # <<>> /\ total[1] > visible THEN total[1] ELSE visible,
         cached |-> IF cached = <<>> THEN <<>> ELSE cached[1]]

\* What a model called a tool with comes back to it: an object, however it was
\* encoded, replays as that object; anything else replays as an empty one.
ReplayKept(raw) ==
    toolArgumentsJSONForReplay(parseToolArguments(raw))
        = IF raw.t = "object" \/ (raw.t = "string" /\ raw.text = "object") THEN raw.v ELSE 0

\* The total of a usage report is never less than its parts, and reading it
\* again changes nothing.
UsageSound(u) ==
    LET got == extractUsage(u)
        Number(n) == [t |-> "number", n |-> n]
    IN  /\ got.total >= got.prompt + got.completion
        /\ extractUsage([u EXCEPT !.prompt = Number(got.prompt), !.completion = Number(got.completion),
                                  !.total = Number(got.total)]) = got

----------------------------------------------------------------------------
(* Oversized tool results (agent/toolresult.go).  Each session persists its  *)
(* own results, one after the other, in a bucket of its own; sessions run at *)
(* the same time and each sweeps the buckets of the others.                  *)

CONSTANTS TpSetups,           \* [calls : session -> sequence of [id, content, size], old : bucket -> mtime, now, until]
          MaxChars,           \* the size up to which a result is kept inline
          MaxBuckets,         \* toolResultMaxBuckets (32)
          Retention           \* toolResultRetentionSecs, in clock steps

VARIABLES tpSetup, buckets, tpPc, tpCall, victims, references, swept, tpClock
tpVars == <<tpSetup, buckets, tpPc, tpCall, victims, references, swept, tpClock>>

Sessions == DOMAIN tpSetup.calls
Result(s) == tpSetup.calls[s][tpCall[s]]
Without1(f, drop) == [x \in DOMAIN f \ drop |-> f[x]]

TpInit ==
    /\ tpSetup \in TpSetups
    /\ buckets = [b \in DOMAIN tpSetup.old |-> [mtime |-> tpSetup.old[b], files |-> <<>>]]
    /\ tpPc = [s \in Sessions |-> "start"] /\ tpCall = [s \in Sessions |-> 1]
    /\ victims = [s \in Sessions |-> {}] /\ references = {} /\ swept = {} /\ tpClock = tpSetup.now

\* The result goes to the model: whole, truncated, or as a reference to a file.
Return(s, refs) ==
    /\ references' = references \cup refs
    /\ tpCall' = [tpCall EXCEPT ![s] = @ + 1] /\ tpPc' = [tpPc EXCEPT ![s] = "start"]

KeptInline(s) ==
    /\ tpPc[s] = "start" /\ tpCall[s] <= Len(tpSetup.calls[s])
    /\ Result(s).size <= MaxChars
    /\ Return(s, {}) /\ UNCHANGED <<tpSetup, buckets, victims, swept, tpClock>>

\* MkdirAll: an existing bucket keeps its time.
MakeBucket(s) ==
    /\ tpPc[s] = "start" /\ tpCall[s] <= Len(tpSetup.calls[s])
    /\ Result(s).size > MaxChars
    /\ buckets' = IF s \in DOMAIN buckets THEN buckets
                  ELSE [b \in DOMAIN buckets \cup {s} |->
                          IF b = s THEN [mtime |-> tpClock, files |-> <<>>] ELSE buckets[b]]
    /\ tpPc' = [tpPc EXCEPT ![s] = "sweep"]
    /\ UNCHANGED <<tpSetup, tpCall, victims, references, swept, tpClock>>

\* Which of the others go: the expired ones, then the oldest beyond the limit.
DoomedKeepingOneMore(s, dirs) ==
    LET siblings == DOMAIN dirs \ {s}
        expired == {b \in siblings : dirs[b].mtime < tpClock - Retention}
    IN  {expired \cup out : out \in
           {o \in SUBSET (siblings \ expired) :
              /\ Cardinality(o) = Max({0, Cardinality(siblings \ expired) - MaxBuckets})
              /\ \A x \in o, y \in (siblings \ expired) \ o : dirs[x].mtime <= dirs[y].mtime}}
Doomed(s, dirs) ==
    LET siblings == DOMAIN dirs \ {s}
        expired == {b \in siblings : dirs[b].mtime < tpClock - Retention}
    IN  {expired \cup out : out \in
           {o \in SUBSET (siblings \ expired) :
              /\ Cardinality(o) = Max({0, Cardinality(siblings \ expired) - (MaxBuckets - 1)})
              /\ \A x \in o, y \in (siblings \ expired) \ o : dirs[x].mtime <= dirs[y].mtime}}

ListBuckets(s) ==
    /\ tpPc[s] = "sweep"
    /\ \E out \in Doomed(s, buckets) : victims' = [victims EXCEPT ![s] = out]
    /\ tpPc' = [tpPc EXCEPT ![s] = "remove"]
    /\ UNCHANGED <<tpSetup, buckets, tpCall, references, swept, tpClock>>

RemoveBuckets(s) ==
    /\ tpPc[s] = "remove"
    /\ swept' = swept \cup {[bucket |-> b, call |-> tpCall[b]] : b \in victims[s] \cap DOMAIN buckets \cap Sessions}
    /\ buckets' = Without1(buckets, victims[s]) /\ victims' = [victims EXCEPT ![s] = {}]
    /\ tpPc' = [tpPc EXCEPT ![s] = "write"]
    /\ UNCHANGED <<tpSetup, tpCall, references, tpClock>>

\* Stat and, when there is no such file, the atomic write; a bucket another
\* session removed makes the write fail and the result is truncated instead.
Reference(s) == {[bucket |-> s, id |-> Result(s).id, content |-> Result(s).content, call |-> tpCall[s]]}
WriteResultAnyway(s) ==
    /\ tpPc[s] = "write"
    /\ UNCHANGED buckets
    /\ Return(s, Reference(s)) /\ UNCHANGED <<tpSetup, victims, swept, tpClock>>
WriteResult(s) ==
    /\ tpPc[s] = "write"
    /\ IF s \notin DOMAIN buckets THEN UNCHANGED buckets /\ Return(s, {})
       ELSE IF Result(s).id \in DOMAIN buckets[s].files THEN UNCHANGED buckets /\ Return(s, Reference(s))
       ELSE /\ buckets' = [buckets EXCEPT ![s] =
                 [mtime |-> tpClock,
                  files |-> [i \in DOMAIN @.files \cup {Result(s).id} |->
                               IF i = Result(s).id THEN Result(s).content ELSE @.files[i]]]]
            /\ Return(s, Reference(s))
    /\ UNCHANGED <<tpSetup, victims, swept, tpClock>>

TimePasses == tpClock < tpSetup.until /\ tpClock' = tpClock + 1
              /\ UNCHANGED <<tpSetup, buckets, tpPc, tpCall, victims, references, swept>>

TpStep == \E s \in Sessions : KeptInline(s) \/ MakeBucket(s) \/ ListBuckets(s) \/ RemoveBuckets(s) \/ WriteResult(s)
TpNext == TpStep \/ TimePasses
Persisted == \A s \in Sessions : tpPc[s] = "start" /\ tpCall[s] > Len(tpSetup.calls[s])

\* What a reference in the conversation leads to: the output it stands for,
\* unless the same call id was used before in the session or another session
\* swept the bucket since.
ReferencesLead ==
    \A r \in references :
        \/ \E sweep \in swept : sweep.bucket = r.bucket /\ sweep.call > r.call
        \/ \E earlier \in 1 .. r.call - 1 : tpSetup.calls[r.bucket][earlier].id = r.id
        \/ r.bucket \in DOMAIN buckets /\ r.id \in DOMAIN buckets[r.bucket].files
           /\ buckets[r.bucket].files[r.id] = r.content

\* Sweeps running at the same time keep the buckets within the limit, but for
\* those whose sessions have not swept yet.
BucketsBounded ==
    Cardinality(DOMAIN buckets)
        <= MaxBuckets + Cardinality({s \in Sessions : tpPc[s] \in {"sweep", "remove"}})

ResultsInv == ReferencesLead /\ BucketsBounded
============================================================================
