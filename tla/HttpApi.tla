------------------------------- MODULE HttpApi -------------------------------
(***************************************************************************)
(* The HTTP gateway of internal/api: a chat completion, streamed or not,   *)
(* over a provider that may fail, stall or break off; the configuration a  *)
(* WebUI reads redacted and patches, with the loader and the atomic save   *)
(* of internal/config; the preferences of the sessions; readiness.         *)
(*                                                                         *)
(* A configuration is a function from paths (sequences of keys) to         *)
(* values; the items of a list are keys of ListItems.  One behaviour is    *)
(* about one of the three parts.                                           *)
(***************************************************************************)
EXTENDS Integers, Sequences, FiniteSets, SequencesExt

CONSTANT
    HaSetups        \* [part, request, boot, patches, requests, faults, events]:
                    \* the part; the chat request; the configuration booted with
                    \* and the patches posted; the session actions in flight;
                    \* how many reads or writes may fail; the events of a stream

VARIABLES
    haSetup,        \* the setup of this behaviour
    haPc,           \* chat: check, ask, stream, ended
    sent,           \* what was written to the response
    answered,       \* history: how the provider's answer ended
    live,           \* s.cfg: the configuration booted with, never updated
    file,           \* the configuration file
    posted,         \* how many patches were posted
    reqPc,          \* per session action: start, prefs (of a delete), ended
    sessions,       \* the sessions of the store
    prefs,          \* webui-state.json
    promised,       \* history: the preferences acknowledged to the user
    haFaults        \* how many reads or writes may still fail

chatVars == <<haPc, sent, answered>>
configVars == <<live, file, posted>>
prefVars == <<reqPc, sessions, prefs, promised>>
haVars == <<haSetup, chatVars, configVars, prefVars, haFaults>>

(***************************************************************************)
(* /v1/chat/completions.                                                   *)
(***************************************************************************)
\* The early returns of handleChatCompletions, in order.
Refusal(q) ==
    CASE ~q.auth                    -> "401"
      [] q.method # "POST"          -> "405"
      [] ~q.json                    -> "400"
      [] q.slash                    -> "200"
      [] q.provider = "none"        -> "503"
      [] q.messages \in {"bad", "none"} -> "400"
      [] q.tools = "bad"            -> "400"
      [] OTHER                      -> ""

ChatCheck ==
    /\ haPc = "check"
    /\ LET r == Refusal(haSetup.request)
       IN  IF r = "" THEN haPc' = "ask" /\ UNCHANGED sent
           ELSE haPc' = "ended" /\ sent' = <<r>>
    /\ UNCHANGED <<haSetup, answered, configVars, prefVars, haFaults>>

\* What Chat may give: an error, a timeout, nothing, a response that reports an
\* error, a text, or tool calls.
Outcomes == {"error", "timeout", "nil", "failed", "text", "calls"}

\* writeProviderAPIError, writeResponseAPIError, and the success: an error that
\* carries the provider's own status passes it on, as "upstream".
Statuses(o) == CASE o = "timeout" -> {"504"} [] o = "nil" -> {"502"}
                 [] o \in {"error", "failed"} -> {"502", "upstream"}
                 [] OTHER -> {"200"}

\* The fallback of a streamed request whose provider cannot stream: the whole
\* answer as one delta, without its tool calls, and its finish reason.
Replayed(o) ==
    <<"200", "role">> \o (IF o = "calls" THEN <<>> ELSE <<"text">>) \o <<"finish", "done">>

ChatWhole(o) ==
    /\ haPc = "ask" /\ ~(haSetup.request.stream /\ haSetup.request.provider = "streaming")
    /\ IF haSetup.request.stream /\ o \in {"failed", "text", "calls"} THEN sent' = Replayed(o)
       ELSE \E status \in Statuses(o) : sent' = <<status>>
    /\ answered' = o /\ haPc' = "ended"
    /\ UNCHANGED <<haSetup, configVars, prefVars, haFaults>>

StreamOpens ==
    /\ haPc = "ask" /\ haSetup.request.stream /\ haSetup.request.provider = "streaming"
    /\ \/ \E o \in {"error", "timeout"} : \E status \in Statuses(o) :
             haPc' = "ended" /\ sent' = <<status>> /\ answered' = o
       \/ haPc' = "stream" /\ sent' = <<"200", "role">> /\ UNCHANGED answered
    /\ UNCHANGED <<haSetup, configVars, prefVars, haFaults>>

StreamDelta(kind) ==
    /\ haPc = "stream" /\ Len(sent) < 2 + haSetup.events
    /\ sent' = Append(sent, kind)
    /\ UNCHANGED <<haSetup, haPc, answered, configVars, prefVars, haFaults>>

\* A closed channel taken for the end of the answer.
EndingTrusting(how) == IF how \in {"complete", "closed"} THEN <<"finish", "done">> ELSE <<"error", "done">>
\* The end of a stream: StreamDone, StreamDone with an error, the channel closed
\* without one, or the deadline of the request.
Ending(how) == IF how = "complete" THEN <<"finish", "done">> ELSE <<"error", "done">>

StreamEnds(how) ==
    /\ haPc = "stream" /\ haPc' = "ended"
    /\ sent' = sent \o Ending(how) /\ answered' = how
    /\ UNCHANGED <<haSetup, configVars, prefVars, haFaults>>

ChatStep ==
    \/ ChatCheck \/ StreamOpens
    \/ \E o \in Outcomes : ChatWhole(o)
    \/ \E kind \in {"text", "reasoning", "tool"} : StreamDelta(kind)
    \/ \E how \in {"complete", "failed", "closed", "deadline"} : StreamEnds(how)

(***************************************************************************)
(* /api/config.                                                            *)
(***************************************************************************)
ListItems == {"[0]"}
isSecretKey(key) == key \in {"token"}
Marker == "tokenConfigured"

\* redactMap, redactSlice: a secret becomes blank, with a marker beside it.
FirstSecret(p) == CHOOSE i \in 1 .. Len(p) :
                     isSecretKey(p[i]) /\ \A j \in 1 .. i - 1 : ~isSecretKey(p[j])
IsSecret(p) == \E i \in 1 .. Len(p) : isSecretKey(p[i])

redacted(doc) ==
    LET blanks  == {SubSeq(p, 1, FirstSecret(p)) : p \in {q \in DOMAIN doc : IsSecret(q)}}
        markers == {Append(Front(b), Marker) : b \in blanks}
        plain   == {p \in DOMAIN doc : ~IsSecret(p)}
    IN  [p \in blanks \cup markers \cup plain |->
            IF p \in plain THEN doc[p] ELSE IF p \in blanks THEN "" ELSE "true"]

\* mergeConfigMap.  q is walked into while both sides are objects there.
isMap(doc, q) == \E p \in DOMAIN doc : /\ Len(p) > Len(q) /\ IsPrefix(q, p)
                                       /\ p[Len(q) + 1] \notin ListItems

Assigned(dst, patch, p) ==
    LET stops(n) == n = Len(p) \/ ~isMap(dst, SubSeq(p, 1, n)) \/ ~isMap(patch, SubSeq(p, 1, n))
    IN  SubSeq(p, 1, CHOOSE n \in 1 .. Len(p) : stops(n) /\ \A m \in 1 .. n - 1 : ~stops(m))

blankSecret(value) == value \in {"", "null"}

\* A blank secret assigned like any other value.
SkippedNoBlanks(patch, q) == Marker \in Range(q)
Skipped(patch, q) ==
    \/ Marker \in Range(q)
    \/ isSecretKey(Last(q)) /\ q \in DOMAIN patch /\ blankSecret(patch[q])

mergeConfigMap(dst, patch) ==
    LET at    == {q \in {Assigned(dst, patch, p) : p \in DOMAIN patch} : ~Skipped(patch, q)}
        under(p) == \E q \in at : IsPrefix(q, p)
        kept  == {p \in DOMAIN dst : ~under(p)}
        taken == {p \in DOMAIN patch : under(p) /\ patch[p] # "null"}
    IN  [p \in kept \cup taken |-> IF p \in taken THEN patch[p] ELSE dst[p]]

\* migrateConfig: the old places of three settings; two of them moved into an
\* object, unless something else is in its place.
Moves == { <<<<"tools", "exec", "restrict">>, <<"tools", "restrict">>>>,
           <<<<"tools", "myEnabled">>, <<"tools", "my", "enable">>>>,
           <<<<"tools", "mySet">>, <<"tools", "my", "allowSet">>>> }
My == <<"tools", "my">>
MyOld == {<<"tools", "myEnabled">>, <<"tools", "mySet">>}

\* The old setting wins over the new one.
migrateConfigForced(doc) ==
    LET moved    == {m \in Moves : m[1] \in DOMAIN doc}
        given(p) == CHOOSE m \in moved : m[2] = p
    IN  [p \in (DOMAIN doc \ {m[1] : m \in moved}) \cup {m[2] : m \in moved} |->
            IF \E m \in moved : m[2] = p THEN doc[given(p)[1]] ELSE doc[p]]
migrateConfig(doc) ==
    LET mine     == My \notin DOMAIN doc \/ doc[My] = "null"
        moved    == {m \in Moves : /\ m[1] \in DOMAIN doc /\ m[2] \notin DOMAIN doc
                                   /\ m[1] \in MyOld => mine}
        olds     == IF mine THEN MyOld \cap DOMAIN doc ELSE {}
        dropped  == {m[1] : m \in moved} \cup olds \cup (IF olds # {} THEN {My} ELSE {})
        given(p) == CHOOSE m \in moved : m[2] = p
    IN  [p \in (DOMAIN doc \ dropped) \cup {m[2] : m \in moved} |->
            IF \E m \in moved : m[2] = p THEN doc[given(p)[1]] ELSE doc[p]]

\* Load: a setting the schema refuses fails the load; a missing one has its default.
Loads(doc) == \A p \in DOMAIN doc : doc[p] # "bad"
Load(doc) ==
    LET m == migrateConfig(doc)
    IN  [p \in DOMAIN m \cup {<<"model">>} |-> IF p \in DOMAIN m THEN m[p] ELSE "default"]

\* The providers of an OAuth login are not marshalled; Save puts back their
\* request settings, and none of their credentials.
Marshalled(cfg) == [p \in {q \in DOMAIN cfg : q[1] # "oauth"} |-> cfg[p]]
Save(cfg) == [p \in {q \in DOMAIN cfg : q[1] # "oauth" \/ Last(q) \in {"proxy", "extraBody"}} |-> cfg[p]]

redactedConfig(cfg) == redacted(Marshalled(cfg))

saveConfigPatch(cfg, before, patch) ==
    LET merged == mergeConfigMap(Marshalled(cfg), patch)
    IN  IF Loads(merged) THEN Save(Load(merged)) ELSE before

\* POST /api/config; a failing write leaves the file as it was.
PostConfig(patch) ==
    /\ haSetup.part = "config" /\ posted < 3 /\ posted' = posted + 1
    /\ \/ file' = saveConfigPatch(live, file, patch) /\ UNCHANGED haFaults
       \/ haFaults > 0 /\ haFaults' = haFaults - 1 /\ UNCHANGED file
    /\ UNCHANGED <<haSetup, chatVars, live, prefVars>>

\* /api/restart, or any other end of the process: the next one loads the file.
Restart ==
    /\ haSetup.part = "config" /\ posted < 3 /\ live' = Load(file) /\ live' # live
    /\ UNCHANGED <<haSetup, chatVars, file, posted, prefVars, haFaults>>

(***************************************************************************)
(* The actions on a session, from any number of browser tabs.              *)
(***************************************************************************)
NoPref == [title |-> "", pinned |-> FALSE]

PrefOf(from, k) == IF k \in DOMAIN from THEN from[k] ELSE NoPref

\* loadWebUIPrefsUnlocked: a failing read is taken for an empty document.
ReadPrefs(failed) == IF failed THEN <<>> ELSE prefs

SetPref(from, k, p) == [j \in DOMAIN from \cup {k} |-> IF j = k THEN p ELSE from[j]]
DropPref(from, k) == [j \in DOMAIN from \ {k} |-> from[j]]

\* The whole entry replaced by the field of the request.
UpdatedAlone(p, r) == IF r.action = "rename" THEN [NoPref EXCEPT !.title = r.value]
                      ELSE [NoPref EXCEPT !.pinned = TRUE]
Updated(p, r) == IF r.action = "rename" THEN [p EXCEPT !.title = r.value]
                 ELSE [p EXCEPT !.pinned = TRUE]

\* The fields of an acknowledgement.
Field(r) == IF r.action = "rename" THEN "title" ELSE "pinned"
Forgotten(k, f) == {a \in promised : a.key = k /\ f \in {a.field, "all"}}

ReadMayFail == {FALSE} \cup (IF haFaults > 0 THEN {TRUE} ELSE {})

\* rename, pin: under webuiMu, read, change, write.
SessionAction(i) ==
    LET r == haSetup.requests[i]
    IN  /\ haSetup.part = "prefs" /\ reqPc[i] = "start" /\ r.action # "delete"
        /\ \E failed \in ReadMayFail :
              LET from == ReadPrefs(failed)
                  ack  == [key |-> r.key, field |-> Field(r), value |-> r.value]
              IN  /\ prefs' = SetPref(from, r.key, Updated(PrefOf(from, r.key), r))
                  /\ promised' = (IF failed THEN {} ELSE promised \ Forgotten(r.key, Field(r)))
                                 \cup {ack}
                  /\ haFaults' = IF failed THEN haFaults - 1 ELSE haFaults
        /\ reqPc' = [reqPc EXCEPT ![i] = "ended"]
        /\ UNCHANGED <<haSetup, chatVars, configVars, sessions>>

\* The write fails: an error, and nothing changed.
SessionActionFails(i) ==
    /\ haSetup.part = "prefs" /\ reqPc[i] # "ended" /\ haFaults > 0
    /\ haFaults' = haFaults - 1 /\ reqPc' = [reqPc EXCEPT ![i] = "ended"]
    /\ UNCHANGED <<haSetup, chatVars, configVars, sessions, prefs, promised>>

\* delete: the session first, its preferences in a second step.
DeleteSession(i) ==
    LET r == haSetup.requests[i]
    IN  /\ haSetup.part = "prefs" /\ r.action = "delete" /\ reqPc[i] = "start"
        /\ sessions' = sessions \ {r.key} /\ reqPc' = [reqPc EXCEPT ![i] = "prefs"]
        /\ UNCHANGED <<haSetup, chatVars, configVars, prefs, promised, haFaults>>

DeletePrefs(i) ==
    LET r == haSetup.requests[i]
    IN  /\ haSetup.part = "prefs" /\ reqPc[i] = "prefs"
        /\ \E failed \in ReadMayFail :
              /\ prefs' = DropPref(ReadPrefs(failed), r.key)
              /\ promised' = IF failed THEN {} ELSE promised \ Forgotten(r.key, "all")
              /\ haFaults' = IF failed THEN haFaults - 1 ELSE haFaults
        /\ reqPc' = [reqPc EXCEPT ![i] = "ended"]
        /\ UNCHANGED <<haSetup, chatVars, configVars, sessions>>

PrefStep ==
    \E i \in DOMAIN reqPc :
       SessionAction(i) \/ SessionActionFails(i) \/ DeleteSession(i) \/ DeletePrefs(i)

HaInit ==
    /\ haSetup \in HaSetups
    /\ haPc = (IF haSetup.part = "chat" THEN "check" ELSE "ended")
    /\ sent = <<>> /\ answered = "" /\ posted = 0
    /\ live = Load(haSetup.boot) /\ file = haSetup.boot
    /\ reqPc = [i \in DOMAIN haSetup.requests |-> "start"]
    /\ sessions = {haSetup.requests[i].key : i \in DOMAIN haSetup.requests}
    /\ prefs = <<>> /\ promised = {} /\ haFaults = haSetup.faults

HaNext ==
    \/ ChatStep
    \/ \E patch \in haSetup.patches : PostConfig(patch)
    \/ Restart \/ PrefStep

HaAtRest == haPc = "ended"

(***************************************************************************)
(* Readiness.  g says what is attached and how it answers.                 *)
(***************************************************************************)
\* busState and dataDirState, each under its own deadline.
busState(g) == CASE ~g.bus -> "missing" [] g.busStuck -> "timeout" [] g.busClosed -> "closed"
                 [] ~g.consumer -> "no_consumer" [] OTHER -> "ok"
dataDirState(g) == CASE ~g.dir -> "missing" [] g.disk = "stuck" -> "timeout"
                     [] g.disk = "refuses" -> "unwritable" [] OTHER -> "ok"

readiness(g) ==
    LET attached(b) == IF b THEN "ok" ELSE "missing"
    IN  [config |-> attached(g.config), provider |-> attached(g.provider),
         agentLoop |-> attached(g.loop), process |-> IF g.notReady THEN "not_ready" ELSE "ok",
         bus |-> busState(g), dataDir |-> dataDirState(g)]

handleReadyz(g) == IF \A c \in DOMAIN readiness(g) : readiness(g)[c] = "ok" THEN 200 ELSE 503

(***************************************************************************)
(* Properties.                                                             *)
(***************************************************************************)
TypeOK ==
    /\ haSetup \in HaSetups /\ haPc \in {"check", "ask", "stream", "ended"}
    /\ reqPc \in [DOMAIN haSetup.requests -> {"start", "prefs", "ended"}]
    /\ DOMAIN prefs \subseteq {haSetup.requests[i].key : i \in DOMAIN haSetup.requests}

\* A chat completion gets exactly one answer.  A streamed one has one status, one
\* closing frame and [DONE] last, with nothing after it; and it is never closed as
\* finished when the provider failed, broke off, or ran into the deadline.
OneAnswer ==
    haSetup.part = "chat" /\ haPc = "ended" =>
       /\ Len(sent) >= 1
       /\ \A i \in 2 .. Len(sent) : sent[i] \notin {"200", "400", "401", "405", "502", "503", "504", "upstream"}
       /\ Len(sent) > 1 =>
             /\ Last(sent) = "done" /\ sent[Len(sent) - 1] \in {"finish", "error"}
             /\ \A i \in 1 .. Len(sent) - 2 : sent[i] \notin {"finish", "error", "done"}
             /\ haSetup.request.provider = "streaming" =>
                   (sent[Len(sent) - 1] = "finish" <=> answered = "complete")

\* An explicit answer of the user for a secret, or for something above it.
Addressed(patch, p) ==
    \E q \in DOMAIN patch : /\ IsPrefix(q, p) \/ (IsPrefix(p, q) /\ p # q)
                            /\ ~(q = p /\ blankSecret(patch[q]))
BelowList(p) == \E i \in 1 .. Len(p) : p[i] \in ListItems

\* A patch never erases a credential it does not speak of: every secret of the
\* running configuration is in the saved file with its value, unless the patch
\* gives it a new one, removes or replaces what holds it, or it sits inside a list
\* (lists are replaced whole); and the file can be loaded by the next process.
SecretsKept ==
    haSetup.part = "config" =>
       /\ Loads(file)
       /\ \A patch \in haSetup.patches :
             LET after == saveConfigPatch(live, file, patch)
             IN  after # file =>
                   \A p \in {q \in DOMAIN Marshalled(live) : IsSecret(q) /\ ~BelowList(q)} :
                      Addressed(patch, p) \/ (p \in DOMAIN after /\ after[p] = live[p])

\* The redacted view posted back, as a form that changed nothing does, leaves in
\* the file what Config.Save writes of the running configuration, credentials
\* included, when no credential sits inside a list.  The request settings of the
\* OAuth providers are not part of it: saveConfigPatch starts from json.Marshal,
\* which leaves them out (schema.go:383), so any patch drops from the file what
\* Save (loader.go:284) is there to keep.
ViewRoundTrips ==
    LET saved   == saveConfigPatch(live, file, redactedConfig(live))
        running == Save(live)
        typed(cfg) == {p \in DOMAIN cfg : p[1] # "oauth"}
    IN  haSetup.part = "config" /\ (\A p \in DOMAIN live : IsSecret(p) => ~BelowList(p)) =>
            /\ typed(saved) = typed(running)
            /\ \A p \in typed(running) : saved[p] = running[p]

\* A preference acknowledged to one tab is not undone by the request of another
\* tab for another field or another session; only a failed read forgets it.
PrefsKept ==
    \A a \in promised : IF a.field = "title" THEN PrefOf(prefs, a.key).title = a.value
                        ELSE PrefOf(prefs, a.key).pinned

HttpInv == TypeOK /\ OneAnswer /\ SecretsKept /\ ViewRoundTrips /\ PrefsKept

\* Migrating twice is migrating once, and a setting in its new place is never
\* overridden by one in an old place.
MigrationStable(doc) ==
    /\ migrateConfig(migrateConfig(doc)) = migrateConfig(doc)
    /\ \A m \in Moves : m[2] \in DOMAIN doc => migrateConfig(doc)[m[2]] = doc[m[2]]

\* The gateway is in rotation only if a message could be taken in and saved now:
\* the bus open and consumed, the directory writable, both within the deadline.
ReadyMeansServing(g) ==
    handleReadyz(g) = 200 =>
       /\ g.config /\ g.provider /\ g.loop /\ ~g.notReady
       /\ g.bus /\ ~g.busClosed /\ g.consumer /\ g.dir /\ g.disk = "accepts"
===============================================================================
