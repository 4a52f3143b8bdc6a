------------------------------ MODULE Telegram ------------------------------
(***************************************************************************)
(* The inbound half of the Telegram channel: Start's lifecycle, the poll   *)
(* loop or the webhook server that takes updates from Telegram, the        *)
(* per-conversation buffers and the goroutines that drain them, and Stop.  *)
(* Telegram itself is external: it keeps every update until an offset (or  *)
(* a 200 answer) confirms it.                                              *)
(***************************************************************************)
EXTENDS Integers, Sequences, FiniteSets, SequencesExt, FiniteSetsExt

CONSTANTS
    Conversations,  \* queue keys: a chat, or one topic of a chat
    Workers,        \* names of drain goroutines (bounds how many live at once)
    TgSetups        \* records [mode, updates, faults]: updates[i] = [key, kind]; faults bounds the failed
                    \* calls to Telegram and the crashes, together

VARIABLES
    tgSetup,
    cloud,      \* Telegram: [made, confirmed, hooked, unanswered]
    life,       \* where Start is
    offset,     \* pollLoop's offset
    polled,     \* updates of the current getUpdates result not yet dispatched
    running,    \* Base.running
    ended,      \* the context Start runs under is done
    server,     \* the webhook http.Server: "none", "open", "shut" or "failed"
    buffer,     \* inboundBuffers
    owner,      \* inboundWorkers
    worker,     \* the drain goroutines
    stopPc,     \* where Stop is
    published,  \* per conversation, the updates given to HandleMessage
    settled,    \* updates dropped on purpose, or handled without a queue
    lost,       \* updates a stop or a crash discarded
    strays,     \* an update was queued after Stop had emptied the buffers
    tgFaults,   \* faults so far
    crashed     \* one of them was a crash

cloudVars == <<cloud>>
lifeVars == <<life, offset, polled, running, ended, server>>
queueVars == <<buffer, owner, worker>>
historyVars == <<published, settled, lost, strays>>
budgetVars == <<tgFaults, crashed>>
tgVars == <<tgSetup, cloudVars, lifeVars, queueVars, stopPc, historyVars, budgetVars>>

NoWorker == "none"
Idle == [pc |-> "none", key |-> "none", batch |-> <<>>, canceled |-> FALSE]
Updates == tgSetup.updates
Upto(n) == [i \in 1 .. n |-> i]
Webhook == tgSetup.mode = "webhook"
Queued(k) == ToSet(buffer[k]) \cup UNION {ToSet(worker[w].batch) : w \in {v \in Workers : worker[v].key = k}}
AllQueued == UNION {Queued(k) : k \in Conversations}
AllPublished == UNION {ToSet(published[k]) : k \in Conversations}

Fault == tgFaults < tgSetup.faults /\ tgFaults' = tgFaults + 1 /\ UNCHANGED crashed

TgInit ==
    /\ tgSetup \in TgSetups
    /\ cloud = [made |-> 0, confirmed |-> 0, hooked |-> FALSE, unanswered |-> {}]
    /\ life = "new" /\ offset = 0 /\ polled = <<>> /\ running = FALSE /\ ended = FALSE /\ server = "none"
    /\ buffer = [k \in Conversations |-> <<>>]
    /\ owner = [k \in Conversations |-> NoWorker]
    /\ worker = [w \in Workers |-> Idle]
    /\ stopPc = "idle"
    /\ published = [k \in Conversations |-> <<>>]
    /\ settled = {} /\ lost = {} /\ strays = FALSE
    /\ tgFaults = 0 /\ crashed = FALSE

-----------------------------------------------------------------------------
(* Telegram *)

SomebodyWrites ==
    /\ cloud.made < Len(Updates)
    /\ cloud' = [cloud EXCEPT !.made = @ + 1, !.unanswered = @ \cup {cloud.made + 1}]
    /\ UNCHANGED <<tgSetup, lifeVars, queueVars, stopPc, historyVars, budgetVars>>

-----------------------------------------------------------------------------
(* Start and runLifecycle *)

LifeStays == UNCHANGED <<offset, polled, running, ended, server>>
Elsewhere == UNCHANGED <<tgSetup, queueVars, stopPc, historyVars>>

(* Start returns: its deferred calls cancel its context and clear running. *)
StartReturns == life' = "ended" /\ running' = FALSE /\ ended' = TRUE /\ UNCHANGED <<offset, polled, server>>

Start ==
    /\ life = "new" /\ life' = "loop" /\ running' = TRUE
    /\ UNCHANGED <<cloud, offset, polled, ended, server, budgetVars>> /\ Elsewhere

(* The head of Start's loop; GetMe is the first thing runLifecycle does. *)
LifecycleBegins ==
    /\ life = "loop" /\ running /\ ~ended
    /\ life' = IF Webhook THEN "listen" ELSE "poll"
    /\ offset' = 0 /\ UNCHANGED <<cloud, polled, running, ended, server, budgetVars>> /\ Elsewhere
LifecycleFails ==
    /\ life = "loop" /\ running /\ ~ended /\ Fault
    /\ life' = "backoff" /\ LifeStays /\ UNCHANGED cloud /\ Elsewhere
TokenRejected ==
    /\ life = "loop" /\ running /\ ~ended /\ Fault
    /\ StartReturns /\ UNCHANGED cloud /\ Elsewhere
BackoffOver ==
    /\ life = "backoff" /\ life' = "loop" /\ LifeStays /\ UNCHANGED <<cloud, budgetVars>> /\ Elsewhere
StartEnds ==
    /\ \/ life = "loop" /\ (~running \/ ended)
       \/ life = "backoff" /\ ended
    /\ StartReturns /\ UNCHANGED <<cloud, budgetVars>> /\ Elsewhere

-----------------------------------------------------------------------------
(* enqueueOrderedUpdate and dispatchUpdate *)

(* The goroutine started for a conversation without one. *)
Spawn(k, w) ==
    /\ owner' = [owner EXCEPT ![k] = w]
    /\ worker' = [worker EXCEPT ![w] = [pc |-> "top", key |-> k, batch |-> <<>>, canceled |-> FALSE]]

FreeWorkers == {w \in Workers : worker[w].pc = "none"}
enqueueOrderedUpdate(i) ==
    LET k == Updates[i].key IN
    /\ buffer' = [buffer EXCEPT ![k] = Append(@, i)]
    /\ strays' = (strays \/ stopPc \in {"cleared", "stopped"})
    /\ \/ owner[k] # NoWorker /\ UNCHANGED <<owner, worker>>
       \/ owner[k] = NoWorker /\ FreeWorkers # {} /\ Spawn(k, CHOOSE w \in FreeWorkers : TRUE)

(* A command for another bot is ignored; a callback query is published at once, past the queue. *)
dispatchUpdate(i) ==
    \/ /\ Updates[i].kind \in {"message", "command", "unaddressed"}
       /\ enqueueOrderedUpdate(i) /\ UNCHANGED <<published, settled, lost>>
    \/ /\ Updates[i].kind \in {"foreign", "callback"}
       /\ settled' = settled \cup {i} /\ UNCHANGED <<buffer, owner, worker, published, lost, strays>>

-----------------------------------------------------------------------------
(* pollLoop *)

(* A getUpdates call confirms everything below its offset and returns the rest. *)
GetUpdates ==
    /\ life = "poll" /\ running /\ ~ended
    /\ LET confirmed == Max({cloud.confirmed, offset - 1})
       IN /\ cloud' = [cloud EXCEPT !.confirmed = confirmed]
          /\ polled' = SubSeq(Upto(cloud.made), confirmed + 1, cloud.made)
    /\ life' = IF polled' = <<>> THEN "poll" ELSE "dispatch"
    /\ UNCHANGED <<offset, running, ended, server, budgetVars>> /\ Elsewhere
GetUpdatesFails ==
    /\ life = "poll" /\ running /\ ~ended /\ Fault
    /\ cloud' \in {cloud, [cloud EXCEPT !.confirmed = Max({@, offset - 1})]}
    /\ life' = "sleep" /\ LifeStays /\ Elsewhere
SleepOver ==
    /\ life = "sleep" /\ life' = "poll" /\ LifeStays /\ UNCHANGED <<cloud, budgetVars>> /\ Elsewhere
PollEnds ==
    /\ \/ life = "poll" /\ (~running \/ ended)
       \/ life = "sleep" /\ ended
    /\ StartReturns /\ UNCHANGED <<cloud, budgetVars>> /\ Elsewhere

(* One turn of the loop over the result: the offset moves first, and nothing looks at running or ended. *)
Dispatch ==
    /\ life = "dispatch"
    /\ offset' = IF Head(polled) >= offset THEN Head(polled) + 1 ELSE offset
    /\ polled' = Tail(polled)
    /\ life' = IF polled' = <<>> THEN "poll" ELSE "dispatch"
    /\ dispatchUpdate(Head(polled))
    /\ UNCHANGED <<tgSetup, cloud, running, ended, server, stopPc, budgetVars>>

-----------------------------------------------------------------------------
(* startWebhook *)

Listen ==
    /\ life = "listen" /\ server' = "open" /\ life' = "register"
    /\ UNCHANGED <<cloud, offset, polled, running, ended, budgetVars>> /\ Elsewhere
ListenFails ==
    /\ life = "listen" /\ Fault /\ StartReturns /\ UNCHANGED cloud /\ Elsewhere
SetWebhook ==
    /\ life = "register" /\ ~ended /\ cloud' = [cloud EXCEPT !.hooked = TRUE] /\ life' = "serve"
    /\ LifeStays /\ UNCHANGED budgetVars /\ Elsewhere
SetWebhookFails ==
    /\ life = "register" /\ (Fault \/ (ended /\ UNCHANGED budgetVars))
    /\ life' = "ended" /\ running' = FALSE /\ ended' = TRUE /\ server' = "none"
    /\ UNCHANGED <<cloud, offset, polled>> /\ Elsewhere

(* Telegram posts updates while the webhook is registered, in any order, and again until it gets a 200. *)
ServeHTTP(i) ==
    /\ cloud.hooked /\ server = "open" /\ life = "serve" /\ i \in cloud.unanswered
    /\ \/ cloud' = [cloud EXCEPT !.unanswered = @ \ {i}] /\ UNCHANGED budgetVars
       \/ Fault /\ UNCHANGED cloud
    /\ dispatchUpdate(i)
    /\ UNCHANGED <<tgSetup, lifeVars, stopPc>>

(* The goroutine of startWebhook that shuts the server when the context ends. *)
ContextShutsServer ==
    /\ life \in {"register", "serve"} /\ ended /\ server = "open" /\ server' = "shut"
    /\ UNCHANGED <<cloud, life, offset, polled, running, ended, budgetVars>> /\ Elsewhere
ServeReturns ==
    /\ life = "serve" /\ server = "shut" /\ life' = "deregister"
    /\ LifeStays /\ UNCHANGED <<cloud, budgetVars>> /\ Elsewhere
ServeFails ==
    /\ life = "serve" /\ server = "open" /\ Fault /\ server' = "failed" /\ life' = "deregister"
    /\ UNCHANGED <<cloud, offset, polled, running, ended>> /\ Elsewhere
(* The webhook is deleted either way; after an error of Serve, Start tries again. *)
Deregister ==
    /\ life = "deregister"
    /\ \/ cloud' = [cloud EXCEPT !.hooked = FALSE] /\ UNCHANGED budgetVars
       \/ Fault /\ UNCHANGED cloud
    /\ IF server = "failed" THEN life' = "backoff" /\ LifeStays ELSE StartReturns
    /\ Elsewhere

-----------------------------------------------------------------------------
(* drainOrderedUpdates *)

WorkerStays == UNCHANGED <<tgSetup, cloud, lifeVars, stopPc, strays, budgetVars>>
To(w, pc) == worker' = [worker EXCEPT ![w].pc = pc]

WorkerLoops(w) ==
    /\ worker[w].pc = "top"
    /\ To(w, IF running /\ ~worker[w].canceled THEN "nap" ELSE "exit")
    /\ UNCHANGED <<buffer, owner, published, settled, lost>> /\ WorkerStays
WorkerInterrupted(w) ==
    /\ worker[w].pc = "nap" /\ worker[w].canceled /\ To(w, "exit")
    /\ UNCHANGED <<buffer, owner, published, settled, lost>> /\ WorkerStays

(* sortQueuedUpdates: by message id; here a later update has the larger one. *)
sortQueuedUpdates(batch) == SortSeq(batch, LAMBDA a, b : a < b)
WorkerTakes(w) ==
    LET k == worker[w].key IN
    /\ worker[w].pc = "nap"
    /\ worker' = [worker EXCEPT ![w].batch = sortQueuedUpdates(buffer[k]),
                                ![w].pc = IF buffer[k] = <<>> THEN "exit" ELSE "batch"]
    /\ buffer' = [buffer EXCEPT ![k] = <<>>]
    /\ UNCHANGED <<owner, published, settled, lost>> /\ WorkerStays

(* processForwardCommand and processMessageUpdate; a group message that does not address the bot is dropped. *)
WorkerProcesses(w) ==
    LET i == Head(worker[w].batch) k == worker[w].key rest == Tail(worker[w].batch) IN
    /\ worker[w].pc = "batch" /\ ~worker[w].canceled
    /\ worker' = [worker EXCEPT ![w].batch = rest, ![w].pc = IF rest = <<>> THEN "top" ELSE "batch"]
    /\ IF Updates[i].kind = "unaddressed"
       THEN settled' = settled \cup {i} /\ UNCHANGED published
       ELSE published' = [published EXCEPT ![k] = Append(@, i)] /\ UNCHANGED settled
    /\ UNCHANGED <<buffer, owner, lost>> /\ WorkerStays
WorkerAbandons(w) ==
    /\ worker[w].pc = "batch" /\ worker[w].canceled
    /\ lost' = lost \cup ToSet(worker[w].batch)
    /\ worker' = [worker EXCEPT ![w].batch = <<>>, ![w].pc = "exit"]
    /\ UNCHANGED <<buffer, owner, published, settled>> /\ WorkerStays

WorkerExitsForgetful(w) ==
    LET k == worker[w].key IN
    /\ worker[w].pc = "exit"
    /\ owner' = [owner EXCEPT ![k] = NoWorker] /\ worker' = [worker EXCEPT ![w] = Idle]
    /\ UNCHANGED <<buffer, published, settled, lost>> /\ WorkerStays
(* The deferred function: leave the map, or hand a buffer filled meanwhile to a fresh goroutine. *)
WorkerExits(w) ==
    LET k == worker[w].key IN
    /\ worker[w].pc = "exit"
    /\ \/ buffer[k] = <<>> /\ owner' = [owner EXCEPT ![k] = NoWorker] /\ worker' = [worker EXCEPT ![w] = Idle]
       \/ buffer[k] # <<>> /\ Spawn(k, w)
    /\ UNCHANGED <<buffer, published, settled, lost>> /\ WorkerStays

-----------------------------------------------------------------------------
(* Stop, and what the manager and the operating system do *)

StopFlags ==
    /\ stopPc = "idle" /\ stopPc' = "flagged" /\ running' = FALSE
    /\ ended' = (ended \/ life # "new")
    /\ UNCHANGED <<tgSetup, cloud, life, offset, polled, server, queueVars, historyVars, budgetVars>>
StopClears ==
    /\ stopPc = "flagged" /\ stopPc' = "cleared"
    /\ worker' = [w \in Workers |->
                    [worker[w] EXCEPT !.canceled = @ \/ \E k \in Conversations : owner[k] = w]]
    /\ owner' = [k \in Conversations |-> NoWorker]
    /\ lost' = lost \cup UNION {ToSet(buffer[k]) : k \in Conversations}
    /\ buffer' = [k \in Conversations |-> <<>>]
    /\ UNCHANGED <<tgSetup, cloud, lifeVars, published, settled, strays, budgetVars>>
StopWebhook ==
    /\ stopPc = "cleared" /\ stopPc' = "stopped"
    /\ server' = IF server = "open" THEN "shut" ELSE server
    /\ UNCHANGED <<tgSetup, cloud, life, offset, polled, running, ended, queueVars, historyVars, budgetVars>>

(* The manager cancels the task's context: at shutdown, or once Stop has returned. *)
ManagerCancels ==
    /\ ~ended /\ ended' = TRUE
    /\ UNCHANGED <<tgSetup, cloud, life, offset, polled, running, server, queueVars, stopPc, historyVars, budgetVars>>

(* Only Telegram survives a crash; what it had confirmed is not sent again. *)
Crash ==
    /\ tgFaults < tgSetup.faults /\ stopPc = "idle" /\ tgFaults' = tgFaults + 1 /\ crashed' = TRUE
    /\ lost' = lost \cup {i \in 1 .. cloud.made :
                            /\ i \notin AllPublished \cup settled
                            /\ IF Webhook THEN i \notin cloud.unanswered ELSE i <= cloud.confirmed}
    /\ life' = "new" /\ offset' = 0 /\ polled' = <<>> /\ running' = FALSE /\ ended' = FALSE /\ server' = "none"
    /\ buffer' = [k \in Conversations |-> <<>>]
    /\ owner' = [k \in Conversations |-> NoWorker]
    /\ worker' = [w \in Workers |-> Idle]
    /\ UNCHANGED <<tgSetup, cloud, stopPc, published, settled, strays>>

-----------------------------------------------------------------------------
LifeStep ==
    \/ Start \/ LifecycleBegins \/ BackoffOver \/ StartEnds
    \/ GetUpdates \/ SleepOver \/ PollEnds \/ Dispatch
    \/ Listen \/ SetWebhook \/ (ended /\ SetWebhookFails) \/ ContextShutsServer \/ ServeReturns \/ Deregister
WorkerStep(w) ==
    WorkerLoops(w) \/ WorkerInterrupted(w) \/ WorkerTakes(w) \/ WorkerProcesses(w) \/ WorkerAbandons(w) \/ WorkerExits(w)
TgNext ==
    \/ SomebodyWrites \/ LifeStep
    \/ LifecycleFails \/ TokenRejected \/ GetUpdatesFails \/ ListenFails \/ SetWebhookFails \/ ServeFails
    \/ \E i \in 1 .. Len(Updates) : ServeHTTP(i)
    \/ \E w \in Workers : WorkerStep(w)
    \/ StopFlags \/ StopClears \/ StopWebhook \/ ManagerCancels \/ Crash

TgSpec ==
    /\ TgInit /\ [][TgNext]_tgVars
    /\ WF_tgVars(LifeStep) /\ \A w \in Workers : WF_tgVars(WorkerStep(w))
    /\ WF_tgVars(\E i \in 1 .. Len(Updates) : ServeHTTP(i))

-----------------------------------------------------------------------------
(* Every update the channel took from Telegram for good is published, dropped on purpose, still queued, or
   was discarded by a stop or a crash: the hand-over between pollLoop, the buffers and the drain goroutines
   strands nothing. *)
NothingStranded ==
    \A i \in 1 .. cloud.made :
        (IF Webhook THEN i \notin cloud.unanswered ELSE i <= cloud.confirmed)
            => i \in AllPublished \cup settled \cup lost \cup AllQueued
(* Nothing is discarded while the channel runs, even when goroutines give up and hand over. *)
LostOnlyByStop == lost # {} => stopPc # "idle" \/ crashed
(* Polling, a conversation's updates are published once each and in the order they were written, unless the
   process crashed before their offset was confirmed, or updates were still queued after a Stop (two goroutines
   may then drain one conversation). *)
InOrderOnce ==
    ~Webhook /\ ~crashed /\ ~strays =>
        \A k \in Conversations : \A a, b \in DOMAIN published[k] : a < b => published[k][a] < published[k][b]
(* Until it is stopped, a conversation is drained by one goroutine, the registered one, and a filled buffer
   has one. *)
OneDrain ==
    stopPc \in {"idle", "flagged"} =>
        \A k \in Conversations :
            /\ {w \in Workers : worker[w].key = k} = {owner[k]} \ {NoWorker}
            /\ buffer[k] # <<>> => owner[k] # NoWorker
TgTypeOK ==
    /\ cloud.confirmed <= cloud.made /\ cloud.unanswered \subseteq 1 .. cloud.made
    /\ life \in {"new", "loop", "backoff", "poll", "sleep", "dispatch", "listen", "register", "serve",
                 "deregister", "ended"}
    /\ \A k \in Conversations : owner[k] \in Workers \cup {NoWorker}
    /\ \A w \in Workers : worker[w].pc \in {"none", "top", "nap", "batch", "exit"}
TgInv == TgTypeOK /\ NothingStranded /\ LostOnlyByStop /\ InOrderOnce /\ OneDrain

(* Start returns after Stop and the manager's cancellation, and the drain goroutines go away with it, unless
   an update was queued after Stop had emptied the buffers: then the exiting goroutine and its successor hand
   the buffer to each other for as long as the process lives. *)
Quiet == life \in {"new", "ended"} /\ (\A w \in Workers : worker[w].pc = "none")
StoppedIsQuiet == stopPc = "stopped" /\ ended => Quiet \/ strays
(* While the channel runs, every update somebody wrote is published or dropped on purpose. *)
WrittenIsAnswered ==
    1 .. cloud.made \subseteq AllPublished \cup settled \cup lost \/ ended \/ stopPc # "idle"
(* Both hold again and again, hence for good once nobody writes any more. *)
TgAtRest == StoppedIsQuiet /\ WrittenIsAnswered
TgSettles == []<>TgAtRest
=============================================================================
