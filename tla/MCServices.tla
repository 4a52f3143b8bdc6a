------------------------------ MODULE MCServices ------------------------------
(* The services around the agent, one at a time: the file and command tools,  *)
(* the temporary sessions, the messages and tool results on the wire, the     *)
(* processes of the two programs, the HTTP API, the skills; and the functions *)
(* of these modules over small inputs.                                        *)
EXTENDS Integers, Sequences, FiniteSets, TLC

CONSTANTS MaxClock, MaxWrites, WordBits, SendMaxRetries, MaxChars, MaxBuckets, Retention

VARIABLES ftSetup, disk, ftPc, at, writes, undoing, backups, outcome, ftFaults, seen, foreign, undoFailed
files == <<ftSetup, disk, ftPc, at, writes, undoing, backups, outcome, ftFaults, seen, foreign, undoFailed>>
VARIABLES
    ctSetup, ctPc, leader, reaped, child, ctClock, cancelled, signalled, waited, produced, captured, dropped, verdict, inTime
commands == <<ctSetup, ctPc, leader, reaped, child, ctClock, cancelled, signalled, waited, produced, captured, dropped,
              verdict, inTime>>
VARIABLES trSetup, trLive, trHeld, trNow, trIds
transient == <<trSetup, trLive, trHeld, trNow, trIds>>
VARIABLES sdSetup, sdAt, sdPc, sdPart, sdTry, sdRound, notices, chat, sdFaults, sdDone, sdLost, evicted
sending == <<sdSetup, sdAt, sdPc, sdPart, sdTry, sdRound, notices, chat, sdFaults, sdDone, sdLost, evicted>>
VARIABLES tpSetup, buckets, tpPc, tpCall, victims, references, swept, tpClock
results == <<tpSetup, buckets, tpPc, tpCall, victims, references, swept, tpClock>>
VARIABLES
    gwSetup, gwMain, gwStep, held, toClose, running, server, loopRuns, errCh, gwSignal, typed, begun, gwFaults, gaveUp, cutOff
gateway == <<gwSetup, gwMain, gwStep, held, toClose, running, server, loopRuns, errCh, gwSignal, typed, begun, gwFaults,
             gaveUp, cutOff>>
VARIABLES haSetup, haPc, sent, answered, live, file, posted, reqPc, sessions, prefs, promised, haFaults
http == <<haSetup, haPc, sent, answered, live, file, posted, reqPc, sessions, prefs, promised, haFaults>>
VARIABLES skSetup, package, marker, skPc, current, fingerprint, shown, changes, approved, spoilt, moved, raced, wrong
skills == <<skSetup, package, marker, skPc, current, fingerprint, shown, changes, approved, spoilt, moved, raced, wrong>>
VARIABLES mkSetup, mkPc, stage, dest, told, stale, torn, lost, mkFaults
market == <<mkSetup, mkPc, stage, dest, told, stale, torn, lost, mkFaults>>
VARIABLES
    which,      \* the service this behaviour is about
    probe       \* the function, and the part of its inputs, that is examined
vars == <<which, probe, files, commands, transient, sending, results, gateway, http, skills, market>>

-----------------------------------------------------------------------------
(* Instances of the state machines. *)

SeqsOf(S, n) == UNION {[1 .. k -> S] : k \in 0 .. n}

(* Two patches of the same files, one of them over a write; an edit; a dry run. *)
Add(p, t) == [path |-> p, action |-> "add", old |-> <<>>, new |-> t]
Replace(p, o, n) == [path |-> p, action |-> "replace", old |-> o, new |-> n]
Patch(edits) == [tool |-> "apply_patch", edits |-> edits, dry |-> FALSE]
Patch1 == Patch(<<Replace("f", <<"a">>, <<"b", "b">>), Add("g", <<"c">>), Add("f", <<"d">>)>>)
Patch2 == Patch(<<Replace("f", <<"b">>, <<"c">>), Replace("g", <<"b">>, <<"z">>)>>)
EditF == [tool |-> "edit_file", dry |-> FALSE, edits |->
            <<[path |-> "f", old |-> <<"a">>, new |-> <<"k">>, all |-> FALSE, occurrence |-> 0, hint |-> 0, expected |-> 0, markdown |-> FALSE]>>]
WriteG == [tool |-> "write_file", dry |-> FALSE, edits |-> <<[path |-> "g", new |-> <<"b">>]>>]
FtDisk == [p \in {"f", "g", "h"} |-> CASE p = "f" -> <<"a", "crlf">> [] p = "g" -> <<"absent">> [] OTHER -> <<"h">>]
FtSetups ==
    {[disk |-> FtDisk, calls |-> <<Patch1, Patch2>>, faults |-> 2],
     [disk |-> FtDisk, calls |-> <<Patch1, WriteG>>, faults |-> 2],
     [disk |-> FtDisk, calls |-> <<Patch1, EditF, [Patch1 EXCEPT !.dry = TRUE]>>, faults |-> 1]}

CtSetups ==
    {c \in [tool : {"exec", "python_exec"}, seconds : {0, 2, 3}, restricted : BOOLEAN, line : {"plain", "denied", "dotdot"},
            cwd : {"inside", "outside"}, shell : {"", "missing"}, code : {0, 1}, leaves : BOOLEAN] :
        (c.line # "plain" \/ c.cwd # "inside" \/ c.shell # "") => (c.code = 0 /\ c.seconds = 0 /\ ~c.leaves)}

TrKeys == {"k1", "k2", "k3"}
TrSetups == {[room |-> 2, ttl |-> 3, steps |-> 7], [room |-> 1, ttl |-> 5, steps |-> 5]}

Text(n, bad) == [kind |-> "text", parts |-> n, bad |-> bad]
Started(i) == [kind |-> "started", id |-> i]
Finished(i, empty) == [kind |-> "finished", id |-> i, empty |-> empty]
SdSetups ==
    [queue : {<<Text(3, {2}), Text(1, {})>>, <<Started(1), Finished(1, FALSE), Finished(2, FALSE)>>,
              <<Started(1), Started(2), Started(3), Finished(1, FALSE), Finished(2, TRUE), Finished(3, FALSE)>>,
              <<Started(1), Text(1, {1}), Finished(1, FALSE)>>},
     faults : {0, 3}, room : {2}, rounds : {2}]

Output(i, c, n) == [id |-> i, content |-> c, size |-> n]
TpSetups ==
    [calls : {[s \in {"a", "b"} |-> IF s = "a" THEN <<Output(1, 1, 9), Output(2, 2, 1), Output(1, 3, 9)>>
                                    ELSE <<Output(1, 1, 9), Output(2, 2, 9)>>]},
     old : {("u" :> 1) @@ ("v" :> 3), ("u" :> 3) @@ ("a" :> 2), <<>>}, now : {4}, until : {6}]

Process(product, cmd, lines, work, multi) ==
    [product |-> product, cmd |-> cmd, lines |-> lines, faults |-> 1, work |-> work, multi |-> multi]
GwSetups ==
    {Process("haosbot", "run", 0, 2, TRUE), Process("haosbot", "chat", 2, 2, TRUE), Process("haosbot", "gateway", 0, 2, TRUE),
     Process("nanobot", "gateway", 0, 2, FALSE), Process("nanobot", "chat", 1, 0, FALSE)}

Post == [auth |-> TRUE, method |-> "POST", json |-> TRUE, slash |-> FALSE, provider |-> "streaming", messages |-> "ok",
         tools |-> "ok", stream |-> TRUE]
HaBase == [part |-> "chat", request |-> Post, boot |-> <<>>, patches |-> {}, requests |-> <<>>, faults |-> 0, events |-> 0]
Chats ==
    {[HaBase EXCEPT !.request = q, !.events = 2] : q \in
        {Post, [Post EXCEPT !.provider = "plain"], [Post EXCEPT !.provider = "plain", !.stream = FALSE],
         [Post EXCEPT !.auth = FALSE], [Post EXCEPT !.messages = "none"], [Post EXCEPT !.slash = TRUE]}}
Listed == (<<"ch", "accounts", "[0]", "token">> :> "s") @@ (<<"model">> :> "m")
Doc == (<<"ch", "token">> :> "s") @@ (<<"ch", "name">> :> "n") @@ (<<"model">> :> "m") @@ (<<"oauth", "proxy">> :> "p") @@ (<<"oauth", "extraBody">> :> "e")
       @@ (<<"oauth", "token">> :> "o") @@ (<<"tools", "mySet">> :> "y")
(* What the WebUI may post; the first is the redacted view of Doc, unchanged. *)
Posts ==
    {(<<"ch", "token">> :> "") @@ (<<"ch", "tokenConfigured">> :> "true") @@ (<<"ch", "name">> :> "n") @@ (<<"model">> :> "m")
     @@ (<<"tools", "my", "allowSet">> :> "y"),
     <<"ch", "token">> :> "s2", <<"model">> :> "bad", <<"model">> :> "m2", <<"ch">> :> "null",
     (<<"ch", "token">> :> "null") @@ (<<"ch", "name">> :> "null"), <<"ch", "token">> :> "", <<"ch">> :> "x",
     <<"new", "token">> :> "t"}
Configs == {[HaBase EXCEPT !.part = "config", !.boot = b, !.patches = Posts, !.faults = 1] : b \in {Doc, Listed, Doc @@ Listed}}
Act(action, key, value) == [action |-> action, key |-> key, value |-> value]
Prefs ==
    {[HaBase EXCEPT !.part = "prefs", !.requests = r, !.faults = 1] : r \in
        {<<Act("rename", "k1", "a"), Act("pin", "k1", ""), Act("rename", "k2", "b"), Act("delete", "k1", "")>>,
         <<Act("rename", "k1", "a"), Act("rename", "k1", "b"), Act("pin", "k2", "")>>}}
HaSetups == Chats \cup Configs \cup Prefs

SkSetups == {[listers |-> {"l1", "l2"}, changes |-> 4], [listers |-> {"l1", "l2", "l3"}, changes |-> 2]}
MkSetups ==
    [actors : {<<"hub", "hub">>, <<"hub", "github", "put">>, <<"github", "github", "delete">>, <<"hub", "delete", "put">>},
     there : BOOLEAN, faults : {1}]

Bt == INSTANCE BuiltinTools
Sr == INSTANCE SessionRecords
Ga == INSTANCE GitAlgorithms
Mw == INSTANCE MessageWire
Gw == INSTANCE GatewayRuntime
Ha == INSTANCE HttpApi
Sk == INSTANCE Skills

-----------------------------------------------------------------------------
(* The functions: what a probe examines, over inputs small enough to enumerate. *)

Probes ==
    {<<f>> : f \in {"page", "list", "path", "html", "calls", "response", "body", "usage", "replay", "peer", "reply", "names",
                    "toolcalls", "records", "sidecar", "sessions", "keys", "times", "weeks", "diff", "counts", "trees", "delta",
                    "ignore", "routing", "allowance", "executor", "within", "migration", "ready", "listing", "references",
                    "requirements", "root"}}
    \cup {<<"edit", t>> : t \in SeqsOf({"a", "sp", "nl", "crlf"}, 3)}
    \cup {<<"split", m>> : m \in {1, 4, 9, 10}}
    \cup {<<"history", archived, limit>> : archived \in {-1, 0, 1}, limit \in {0, 2}}

(* Files and paths. *)
Words(n) == SeqsOf({"a", "sp", "nl"}, n)
Edits == [old : Words(2) \ {<<>>}, new : Words(1), all : BOOLEAN, occurrence : 0 .. 2, hint : 0 .. 1, expected : {0, 1}, markdown : BOOLEAN]
Entries == {<<1>>, <<2>>, <<0>>, <<1, 1>>, <<1, 2>>, <<1, 0>>, <<2, 1>>, <<0, 1>>}
Trees ==
    [nodes : {{<<"w">>, <<"w", "f">>, <<"w", "d">>, <<"o">>, <<"o", "f">>}},
     links : {<<>>, <<"w", "l">> :> <<"o">>, <<"w", "l">> :> <<"w", "d">>, <<"w", "l">> :> <<"o", "n">>, (<<"l">> :> <<"w">>) @@ (<<"w", "f">> :> <<"o", "f">>)}]
Paths == {<<"w">>, <<"w", "f">>, <<"w", "l", "f">>, <<"l", "f">>, <<"l", "d", "n">>, <<"o", "f">>, <<"w", "l">>, <<"o", "n">>}
Policies == [restricted : BOOLEAN, allowed : {<<"w">>, <<"l">>}, dirs : {{}, {<<"w", "l">>}}, files : {{}, {<<"o", "f">>}}]

(* Texts and answers of a model. *)
Fence == <<"tick", "tick", "tick">>
Markdown ==
    {first \o p[1] \o p[2] \o p[3] \o p[4] : first \in {<<>>, Fence, Fence \o <<"p">>},
        p \in [1 .. 4 -> {<<>>, Fence, <<"nl">>, <<"sp">>, <<"x", "y", "z">>, <<"tick">>}]}
Tok(k) == [kind |-> k]
Json == [kind |-> "json", name |-> "a"]
NoName == [kind |-> "json", name |-> ""]
Xml(clean) == [kind |-> "xml", clean |-> clean]
Toks == {Tok("open"), Tok("close"), Tok("sp"), Tok("text"), Json, Xml(TRUE), Xml(FALSE)}
Block(x) == <<Tok("open"), x, Tok("close")>>
Contents ==
    SeqsOf(Toks, 4) \cup {Block(x) \o t \o Block(y) : x \in {Json, NoName, Xml(TRUE), Xml(FALSE)}, t \in SeqsOf(Toks, 1), y \in {Json, Xml(TRUE)}}
ModelChoices ==
    [content : {<<>>, <<Tok("text")>>, Block(Json)}, finish : {"", "stop", "tool_calls", "length"}, ids : SeqsOf({"", "i", "k"}, 2)]
RawArguments ==
    {[t |-> "absent"], [t |-> "null"], [t |-> "value"]} \cup [t : {"object"}, v : 0 .. 1]
    \cup [t : {"string"}, text : {"blank", "null", "invalid", "object", "value"}, v : 0 .. 1]
Models == {<<>>, <<"v", "/", "o1", "-", "mini">>, <<"o1", "/", "x">>, <<"v", "/", "kimi-k3">>, <<"gpt-5">>, <<"x", "-", "gpt-5">>, <<"o3">>, <<"o3", "x">>}
Leaf == [types : {<<>>, <<"null">>, <<"a">>, <<"null", "a">>, <<"a", "b">>}, kids : {{}}]
Schemas == Leaf \cup [types : {<<"null">>, <<"null", "a">>}, kids : {{x, y} : x, y \in Leaf}]
Requests == [model : Models, effort : {"", "none", "minimum", "minimal", "high"}, maxTokens : {-1, 0, 1}, tools : {<<t>> : t \in Schemas}]
Counts == {[t |-> "none"], [t |-> "bool", n |-> 1]} \cup [t : {"number"}, n : {0, 2}] \cup [t : {"text"}, reads : BOOLEAN, n : {3}]
Reports == [prompt : Counts, completion : Counts, total : Counts, details : {[t |-> "none"], [t |-> "number", n |-> 1]}, cached : Counts, hit : {[t |-> "none"]}]

(* Peers of a2a_call. *)
Url(h, rpc) == [host |-> h, rpc |-> rpc]
Cards == {<<>>} \cup {<<c>> : c \in [ifaces : SeqsOf([binding : {"JSONRPC", "GRPC"}, url : {Bt!NoURL, Url("p", TRUE), Url("q", FALSE)}], 2), url : {Bt!NoURL, Url("p", TRUE)}]}
Peers == [card : Cards, first : {"reply", "empty", "lost", "garbled", "notfound", "refused"}, second : {"reply", "lost", "notfound", "refused"}]
Calls == [url : {Bt!NoURL, Url("p", FALSE)}, action : {"send", "discover", "other"}, text : {"", "t"}]
Tasks == [artifacts : SeqsOf({<<>>, <<"">>, <<"t">>}, 2), status : {<<>>, <<"">>, <<"t">>}, history : {<<>>, <<<<"t">>>>}]
Registrations == SeqsOf([name : 1 .. 4, tool : {"old", "failing"}], 3)

(* Sessions. *)
Entry(role, calls, answers, cmd, delivery, blank, cost) ==
    [role |-> role, calls |-> calls, answers |-> answers, cmd |-> cmd, delivery |-> delivery, blank |-> blank, cost |-> cost]
Messages ==
    {Entry("user", {}, "", FALSE, FALSE, FALSE, 1), Entry("user", {}, "", TRUE, FALSE, FALSE, 1),
     Entry("assistant", {"a"}, "", FALSE, FALSE, TRUE, 2), Entry("assistant", {}, "", FALSE, TRUE, FALSE, 1),
     Entry("assistant", {}, "", FALSE, FALSE, TRUE, 0), Entry("tool", {}, "a", FALSE, FALSE, FALSE, 2)}
ToolCalls == [id : {"a", "b"}, name : {"x"}, args : {[kind |-> "none", body |-> ""], [kind |-> "text", body |-> "t"], [kind |-> "object", body |-> "o"],
    [kind |-> "quoted", body |-> "o"]}]
Meta(meta, archived, consolidated, extra, updated) ==
    [type |-> "metadata", meta |-> meta, lastArchived |-> archived, lastConsolidated |-> consolidated, extra |-> extra, updated |-> updated]
Records ==
    {[type |-> "garbage"], Meta("m1", 1, -1, "", 1), Meta("m2", -1, 2, "x", 0), [type |-> "provider_state", state |-> "p"],
     [type |-> "provider_state", state |-> "bad"], [type |-> "msg", n |-> 1]}
Sidecars == [newer : BOOLEAN, version : {1, 2}, mine : BOOLEAN, updated : {0, 1}, count : {0, 1}, body : {"", "b"}, provider : {"", "q", "bad"}]
SessionFiles == [key : {1, 2}, kind : {"journal", "session"}, firstIsMeta : BOOLEAN, updated : {1, 2}]
Bytes == SeqsOf({0, 63, 169, 195, 226, 255}, 3) \cup {<<240, 159, 146, 169>>}
Stems == SeqsOf({0, 16, 63, Sr!PadChar, Sr!StandardPlus, Sr!OtherAscii}, 4) \cup {<<16, Sr!NonAscii>>}

(* Repositories.  The longer lists keep an equal run between two changes. *)
Lists == SeqsOf({1, 2}, 3) \cup {x \o <<3, 4, 5>> \o y : x, y \in {<<>>, <<1>>}}
Blob(n, b) == [name |-> n, kind |-> "file", body |-> b]
Subtrees == SUBSET {Blob(<<3>>, "b1"), Blob(<<4>>, "b2")} \ {{}}
TreeEntries(n) == [name : {n}, kind : {"file", "link"}, body : {"b1", "b2"}] \cup [name : {n}, kind : {"tree"}, body : Subtrees]
MaybeEntry(n) == {{}} \cup {{e} : e \in TreeEntries(n)}
GitTrees == {x \cup y : x \in MaybeEntry(<<3>>), y \in MaybeEntry(<<3, 1>>)}
Copies == SeqsOf([insert : {<<>>, <<7>>, <<7, 8>>}, off : 0 .. 1, size : 1 .. 2], 2)
Tracked == {<<<<"f">>>>, <<<<"f">>, <<"m", "f">>>>, <<<<"m", "f">>, <<"m", "n", "f">>>>}
Patterns ==
    [neg : BOOLEAN, lead : BOOLEAN, dir : BOOLEAN, segs : {<<"*">>, <<"m">>, <<"f">>, <<"m", "f">>}]
    \cup [neg : BOOLEAN, lead : BOOLEAN, dir : {FALSE}, segs : {<<"**">>, <<"m", "**">>, <<"**", "f">>, <<"**", "m", "**">>}]

(* Programs, configuration and skills. *)
Names == {<<"a">>, <<"openai", "a">>, <<"openrouter", "openai", "a">>, <<"x", "a">>}
Pins == {"", "auto", "openai", "openrouter", "x"}
Runs == [remote : BOOLEAN, blocked : BOOLEAN, result : {"", "failed", "r"}, namespace : BOOLEAN, queue : BOOLEAN, prompt : {"p"}]
Settings == UNION {{m[1], m[2]} : m \in Ha!Moves} \cup {Ha!My}
Gateways ==
    [config : BOOLEAN, provider : BOOLEAN, loop : BOOLEAN, notReady : BOOLEAN, bus : BOOLEAN, busStuck : BOOLEAN, busClosed : BOOLEAN,
     consumer : BOOLEAN, dir : BOOLEAN, disk : {"stuck", "refuses", "accepts"}]
Plugin(n, s) == [name |-> n, skills |-> s, enabled |-> TRUE]
Loaders ==
    [workspace : {<<>>, <<"a">>, <<"b", "a">>},
     plugins : {<<>>, <<Plugin("p", <<"a", "c">>)>>, <<Plugin("p", <<"a">>), Plugin("p", <<"b">>), Plugin("q", <<"c">>)>>, <<Plugin("p", <<"a">>), Plugin("q", <<"a", "b">>)>>},
     builtin : {<<"a", "c">>, <<"b">>}, disabled : {{}, {"a"}, {"c"}}, available : {{"a", "b", "c"}, {"b", "c"}}, always : {{}, {"b"}},
     blank : {{}, {"c"}}, aliases : {<<>>, [n \in {"a"} |-> "c"]}]
Requirements == [dict : BOOLEAN, bins : {<<>>, <<"x", "">>, <<"x", "y">>}, env : {<<>>, <<"E">>}]
Blobs == {<<"SKILL.md">>, <<"s", "SKILL.md">>, <<"s", "tool">>, <<"d", "s", "SKILL.md">>, <<"s", "s", "SKILL.md">>, <<"d", "SKILL.md">>}

-----------------------------------------------------------------------------
Parts == {"files", "commands", "transient", "sending", "results", "gateway", "http", "skills", "market", "function"}
Init ==
    /\ which \in Parts
    /\ probe = <<"none">>
    /\ Bt!FtInit /\ (which = "files" \/ ftSetup = CHOOSE s \in FtSetups : TRUE)
    /\ Bt!CtInit /\ (which = "commands" \/ ctSetup = CHOOSE s \in CtSetups : TRUE)
    /\ Sr!TrInit /\ (which = "transient" \/ trSetup = CHOOSE s \in TrSetups : TRUE)
    /\ Mw!SdInit /\ (which = "sending" \/ sdSetup = CHOOSE s \in SdSetups : TRUE)
    /\ Mw!TpInit /\ (which = "results" \/ tpSetup = CHOOSE s \in TpSetups : TRUE)
    /\ Gw!GwInit /\ (which = "gateway" \/ gwSetup = CHOOSE s \in GwSetups : TRUE)
    /\ Ha!HaInit /\ (which = "http" \/ haSetup = CHOOSE s \in HaSetups : TRUE)
    /\ Sk!SkInit /\ (which = "skills" \/ skSetup = CHOOSE s \in SkSetups : TRUE)
    /\ Sk!MkInit /\ (which = "market" \/ mkSetup = CHOOSE s \in MkSetups : TRUE)

FilesStep == which = "files" /\ Bt!FtNext /\ UNCHANGED <<which, probe, commands, transient, sending, results, gateway, http, skills, market>>
CommandsStep == which = "commands" /\ Bt!CtNext /\ UNCHANGED <<which, probe, files, transient, sending, results, gateway, http, skills, market>>
TransientStep == which = "transient" /\ Sr!TrNext /\ UNCHANGED <<which, probe, files, commands, sending, results, gateway, http, skills, market>>
SendingStep == which = "sending" /\ Mw!SdNext /\ UNCHANGED <<which, probe, files, commands, transient, results, gateway, http, skills, market>>
ResultsStep == which = "results" /\ Mw!TpNext /\ UNCHANGED <<which, probe, files, commands, transient, sending, gateway, http, skills, market>>
GatewayStep == which = "gateway" /\ Gw!GwNext /\ UNCHANGED <<which, probe, files, commands, transient, sending, results, http, skills, market>>
HttpStep == which = "http" /\ Ha!HaNext /\ UNCHANGED <<which, probe, files, commands, transient, sending, results, gateway, skills, market>>
SkillsStep == which = "skills" /\ Sk!SkNext /\ UNCHANGED <<which, probe, files, commands, transient, sending, results, gateway, http, market>>
MarketStep == which = "market" /\ Sk!MkNext /\ UNCHANGED <<which, probe, files, commands, transient, sending, results, gateway, http, skills>>
Examine ==
    /\ which = "function" /\ probe = <<"none">> /\ probe' \in Probes
    /\ UNCHANGED <<which, files, commands, transient, sending, results, gateway, http, skills, market>>
Next ==
    \/ FilesStep \/ CommandsStep \/ TransientStep \/ SendingStep \/ ResultsStep
    \/ GatewayStep \/ HttpStep \/ SkillsStep \/ MarketStep \/ Examine

(* The fairness of the modules, each for the behaviours that are about it. *)
Fairness ==
    /\ WF_commands(which = "commands" /\ Bt!CtProgress)
    /\ WF_commands(which = "commands" /\ Bt!Tick)
    /\ WF_sending(which = "sending" /\ (Mw!SendStarts \/ Mw!SdRequest))
    /\ WF_results(which = "results" /\ Mw!TpStep)
    /\ WF_gateway(which = "gateway" /\ Gw!GwProgress)
    /\ WF_http(which = "http" /\ Ha!ChatStep)
Spec == Init /\ [][Next]_vars /\ Fairness

-----------------------------------------------------------------------------
(* The tools and what they leave behind: a patch is applied in order, all or nothing, and   *)
(* touches no other file; a command is never run when refused, its group dies at a deadline *)
(* and its verdict is what happened; a chat is shown every part in order, once, unless an    *)
(* answer was lost; a persisted result is the one referred to; the temporary sessions stay   *)
(* within their limit.                                                                       *)
ToolsInv ==
    /\ which = "files" => Bt!PatchInv
    /\ which = "commands" => Bt!ExecInv
    /\ which = "sending" => Mw!SendInv
    /\ which = "results" => Mw!ResultsInv
    /\ which = "transient" => Sr!TransientBounded
(* The programs around the agent: nothing stays open, or is closed under work that uses it;  *)
(* one answer per request, no secret lost by a patch, no preference by another tab; no skill *)
(* the user did not approve, and no half-installed one.                                      *)
HostInv ==
    /\ which = "gateway" => Gw!RuntimeInv
    /\ which = "http" => Ha!HttpInv
    /\ which = "skills" => Sk!SkillsInv
    /\ which = "market" => Sk!InstallInv
(* A temporary session is discarded only when idle, or as the oldest one when room is needed. *)
OpenDiscardsOldest == Sr!OpenDiscardsOldest
(* The functions on files, texts and messages: an edit is local, paging shows every line     *)
(* once, a granted path is inside, splitting keeps the text, the calls of a response are     *)
(* those in it, a message is taken in once, every tool is advertised once.                   *)
TextsSound ==
    which = "function" =>
        CASE probe[1] = "edit" -> \A r \in Edits : Bt!EditIsLocal(probe[2], r)
          [] probe[1] = "page" -> \A l \in SeqsOf(1 .. 5, 4), n \in 0 .. 3 : Bt!PagingCovers(l, n)
          [] probe[1] = "list" -> \A es \in SUBSET Entries, n \in 1 .. 3, d \in {<<1>>, <<0, 1>>} : Bt!ListingOrdered(d, es, n)
          [] probe[1] = "path" -> \A p \in Policies, t \in Trees, q \in Paths, root \in BOOLEAN : Bt!GrantIsInside(p, t, q, root)
          [] probe[1] = "split" -> \A t \in Markdown : Mw!SplitKeepsText(t, probe[2])
          [] probe[1] = "html" -> \A t \in SeqsOf({"&", "x", "sp"}, 5), m \in {3, 6}, h \in {4, 7, 11}, g \in {0, 1} : Mw!HtmlFits(t, m, h, g)
          [] probe[1] = "calls" -> \A c \in Contents, f \in {"auto", "json", "xml"} : Mw!CallsExtracted(c, f)
          [] probe[1] = "response" -> \A x, y \in ModelChoices, bare \in {<<>>, Block(Json)} : Mw!ResponseSound(<<x, y>>, bare, "auto")
          [] probe[1] = "body" -> \A r \in Requests : Mw!BodySound(r)
          [] probe[1] = "usage" -> \A r \in Reports : Mw!UsageSound(r)
          [] probe[1] = "replay" -> \A r \in RawArguments : Mw!ReplayKept(r)
          [] probe[1] = "peer" -> \A c \in Calls, p \in Peers : Bt!TakenInOnce(c, p)
          [] probe[1] = "reply" -> \A t \in Tasks : Bt!ReplyKept(t)
          [] probe[1] = "names" -> \A r \in Registrations : Bt!AdvertisedOnce(r)
          [] OTHER -> TRUE
(* The functions on records: a replay answers only calls it shows, what is saved is what is  *)
(* loaded, a diff applies, a tree's changes are complete, tracked files are staged, a        *)
(* worker's routing and tools are those of its profile, a migration is stable, a skill is    *)
(* listed once, from the source that comes first.                                            *)
RecordsSound ==
    which = "function" =>
        CASE probe[1] = "history" ->
                \A ms \in SeqsOf(Messages, 3), n \in {0, 2}, e \in BOOLEAN : Sr!ReplayLegal(ms, probe[2], probe[3], n, e)
          [] probe[1] = "toolcalls" -> \A c \in SeqsOf(ToolCalls, 2) : Sr!CallsRoundTrip(c)
          [] probe[1] = "records" -> \A r \in SeqsOf(Records, 3) : Sr!LoadStable(r)
          [] probe[1] = "sidecar" -> \A r \in SeqsOf(Records, 2), c \in Sidecars : Sr!SidecarSound(r, c)
          [] probe[1] = "sessions" -> \A f, g \in SessionFiles : Sr!ListedOnce({f, g})
          [] probe[1] = "keys" -> (\A b \in Bytes : Sr!KeysRoundTrip(b, <<>>)) /\ \A t \in Stems : Sr!KeysRoundTrip(<<>>, t)
          [] probe[1] = "times" ->
                \A y \in {1900, 1999, 2000, 2004}, d \in {<<1, 1>>, <<2, 28>>, <<12, 31>>}, t \in {<<0, 0, 0>>, <<23, 59, 59>>},
                   us \in {0, 5, 999999}, z \in {0, 3600, -10800, 19800} : Sr!TimesAccepted(<<y, d[1], d[2]>>, t, us, z)
          [] probe[1] = "weeks" -> \A y \in 1990 .. 2030 : Sr!WeeksTile(y)
          [] probe[1] = "diff" -> \A a, b \in Lists, n \in 0 .. 1 : Ga!DiffApplies(a, b, n)
          [] probe[1] = "counts" -> \A a, b \in SeqsOf({1, 2, 3}, 3) : Ga!CountsMinimal(a, b)
          [] probe[1] = "trees" -> \A t, u \in GitTrees : Ga!ChangesComplete(t, u)
          [] probe[1] = "delta" -> \A c \in Copies, o \in {<<>>, <<1, 2>>} : Ga!DeltaRebuilds(<<5, 6, 5>>, o, c)
          [] probe[1] = "ignore" -> \A t \in Tracked, p \in Patterns : Ga!TrackedStaged(t, <<p>>)
          [] probe[1] = "routing" -> \A g \in [model : Names, provider : Pins], p \in [model : Names \cup {<<>>}, provider : Pins] : Gw!RoutingSound(g, p)
          [] probe[1] = "allowance" -> \A b \in SUBSET {"memory_search", "exec"}, a \in SeqsOf({"", "*", "memory_search", "exec"}, 2) : Gw!AllowanceAgrees(b, a)
          [] probe[1] = "executor" -> \A r \in Runs : Gw!MemoryMatchesResult(r)
          [] probe[1] = "within" -> \A p, q \in SeqsOf({"a", "b"}, 3) : Gw!WithinIsPrefix(p, q)
          [] probe[1] = "migration" -> \A D \in SUBSET Settings : \A d \in [D -> {"x", "y"}] : Ha!MigrationStable(d)
          [] probe[1] = "ready" -> \A g \in Gateways : Ha!ReadyMeansServing(g)
          [] probe[1] = "listing" -> \A l \in Loaders : /\ Sk!ListedByPrecedence(l) /\ Sk!SummaryComplete(l, {"b"})
                                                        /\ \A r \in {<<"a", "b">>, <<"c", "a">>, <<"b", "b">>} : Sk!InvokedSound(l, r)
          [] probe[1] = "references" -> \A t \in SeqsOf({"$", "a", "e", " "}, 5) : Sk!ReferencesExact(t)
          [] probe[1] = "requirements" -> \A r \in Requirements, here \in SUBSET {"x", "y", "E"} : Sk!MissingExplains(r, here)
          [] probe[1] = "root" -> \A t \in SUBSET Blobs : Sk!RootHoldsSkill(t, "s")
          [] OTHER -> TRUE
(* Every service comes to rest again and again: a command returns, a message is sent or given *)
(* up, a result is persisted, a program that is told to end ends, a response is completed.    *)
ServicesSettle ==
    []<>(\/ which = "commands" /\ Bt!CtAtRest
         \/ which = "sending" /\ Mw!Idle
         \/ which = "results" /\ Mw!Persisted
         \/ which = "gateway" /\ Gw!GwAtRest
         \/ which = "http" /\ Ha!HaAtRest
         \/ which \in {"files", "transient", "skills", "market", "function"})
===============================================================================
