------------------------------ MODULE A2ATasks ------------------------------
(***************************************************************************)
(* The A2A server (internal/a2a/handler.go and stream.go): the bounded     *)
(* store of task snapshots, turns that publish WORKING and a terminal      *)
(* state, CancelTask, and the hubs that fan snapshots out to streams.      *)
(*                                                                         *)
(* Each operation on a sync.Map or an atomic is a step of its own, and so  *)
(* is each critical section of a hub.  A request with its goroutines is a  *)
(* member of Calls; the agent loop is free to succeed or to fail.          *)
(***************************************************************************)
EXTENDS Integers, Sequences, FiniteSets, FiniteSetsExt, SequencesExt

CONSTANTS
    Calls,          \* JSON-RPC requests
    Tasks,          \* task ids, issued in increasing order (newID)
    Setups,         \* the limits and the requests considered
    None

ASSUME A2AAssumption ==
    /\ IsFiniteSet(Calls) /\ IsFiniteSet(Tasks) /\ Tasks \subseteq Nat
    /\ None \notin Calls \cup Tasks
    /\ \A s \in Setups :
        /\ s.ops \in [Calls -> SUBSET {"send", "stream", "subscribe", "cancel", "get", "list"}]
        /\ s.faults \subseteq {"parse", "request", "version", "method", "params", "content"}
        /\ {s.continues, s.expires, s.leaves, s.flushes} \subseteq BOOLEAN
        /\ s.filters \subseteq {"working", "completed", "failed", "canceled", None}
        /\ s.tasks \in Tasks    \* how many tasks are started
        /\ s.maxRetained \in Nat \ {0} /\ s.trimTarget \in 0 .. s.maxRetained
        /\ s.buffer \in Nat \ {0}

VARIABLES
    setup,
    tasks,          \* Handler.tasks: the published snapshot of each task
    retained,       \* Handler.retained
    ids,            \* how many task ids newID has issued
    cancels,        \* Handler.cancels: the turn each task's function cancels
    hubs,           \* Handler.hubs
    trimmer,        \* holder of trimMu
    pc, op, task,   \* where each request is, its method and the task it is about
    snap,           \* the snapshot it is publishing or answering with
    victims,        \* the rest of its walk in trim or in the TTL pass
    answer,         \* what it answered
    gone,           \* streams whose client left
    relay, chan, closed, lastSeq, written,  \* its stream: state, channel, relayTask's lastSeq, events
    listing,        \* a client that pages through ListTasks: what it started from, what it has seen
    clock, resurrected,     \* history: publications, inserts that took no slot
    stale,                  \* requests whose check a terminal state has overtaken
    orphans, misled         \* streams whose hub was deleted, or that joined from an overtaken hub

storeVars == <<tasks, retained>>
callVars == <<pc, op, task, snap, victims, answer, listing>>
streamVars == <<relay, chan, closed, lastSeq, written, misled>>
vars == <<setup, storeVars, ids, cancels, hubs, trimmer, callVars, gone, streamVars,
          clock, resurrected, stale, orphans>>

MaxRetained == setup.maxRetained    \* maxRetainedTasks
TrimTarget  == setup.trimTarget     \* taskTrimTarget
Buffer      == setup.buffer         \* streamSubscriberBuffer

States == {"working", "completed", "failed", "canceled"}
Terminal(s) == s.state \in {"completed", "failed", "canceled"}
Snapshots == [turn : Calls, state : States, updated : Nat]
NoHub == [subs |-> {}, last |-> None, seq |-> -1]
NoListing == [from |-> [t \in Tasks |-> None], state |-> None, seen |-> <<>>, shrunk |-> FALSE]
Errors == {"parse", "request", "version", "method", "params", "content",
           "unsupported", "notFound", "notCancelable", "http"}

TypeOK ==
    /\ setup \in Setups
    /\ tasks \in [Tasks -> Snapshots \cup {None}]
    /\ retained \in Int
    /\ cancels \in [Tasks -> Calls \cup {None}]
    /\ \A t \in Tasks : hubs[t].subs \subseteq Calls /\ hubs[t].last \in Snapshots \cup {None} /\ hubs[t].seq >= -1
    /\ trimmer \in Calls \cup {None}
    /\ task \in [Calls -> Tasks \cup {None}]
    /\ snap \in [Calls -> Snapshots \cup {None}]
    /\ answer \in [Calls -> States \cup Errors \cup {None}]
    /\ relay \in [Calls -> {"none", "open", "ended", "closed"}]
    /\ \A c \in Calls : Len(chan[c]) <= Buffer

Init ==
    /\ setup \in Setups
    /\ tasks = [t \in Tasks |-> None]
    /\ retained = 0
    /\ ids = 0
    /\ cancels = [t \in Tasks |-> None]
    /\ hubs = [t \in Tasks |-> NoHub]
    /\ trimmer = None
    /\ pc = [c \in Calls |-> "idle"]
    /\ op = [c \in Calls |-> None]
    /\ task = [c \in Calls |-> None]
    /\ snap = [c \in Calls |-> None]
    /\ victims = [c \in Calls |-> <<>>]
    /\ answer = [c \in Calls |-> None]
    /\ listing = [c \in Calls |-> NoListing]
    /\ gone = {}
    /\ relay = [c \in Calls |-> "none"]
    /\ chan = [c \in Calls |-> <<>>]
    /\ closed = {}
    /\ lastSeq = [c \in Calls |-> 0]
    /\ written = [c \in Calls |-> <<>>]
    /\ clock = 0 /\ resurrected = 0
    /\ stale = {} /\ orphans = {} /\ misled = {}

Goto(c, there) == pc' = [pc EXCEPT ![c] = there]
Answer(c, what) == answer' = [answer EXCEPT ![c] = what]
(* The turn's own snapshot of its task, about to be published. *)
Prepared(c, state) == [turn |-> c, state |-> state, updated |-> 0]
Publish(c, s) == snap' = [snap EXCEPT ![c] = s] /\ Goto(c, "publish")
(* loadTask followed by terminal(): the snapshot a turn must not overwrite. *)
Settled(t) == tasks[t] # None /\ Terminal(tasks[t])

-----------------------------------------------------------------------------
(* Requests *)

(***************************************************************************)
(* handleJSONRPC, parseSendParams and the handlers refuse a request before *)
(* they touch the store: an unreadable body, a wrong envelope, an          *)
(* unsupported version or method, missing parameters, content other than   *)
(* text.  Each check is made only when the earlier ones passed, so the     *)
(* first fault of the request is the one it is answered with.              *)
(***************************************************************************)
Checks == <<"parse", "request", "version", "method", "params", "content">>
FirstFault(faults) == SelectInSeq(Checks, LAMBDA f : f \in faults)
Refuse(c) ==
    /\ pc[c] = "idle"
    /\ \E faults \in SUBSET setup.faults \ {{}} : Answer(c, Checks[FirstFault(faults)])
    /\ Goto(c, "done")
    /\ UNCHANGED <<setup, storeVars, ids, cancels, hubs, trimmer, op, task, snap, victims, listing, gone,
                    streamVars, clock, resurrected, stale, orphans>>

(* prepareSend: what a message that names task t is refused with. *)
SendRefusal(t, mismatch) ==
    IF tasks[t] = None THEN {"notFound"}
    ELSE IF Terminal(tasks[t]) THEN {"unsupported"}
    ELSE IF mismatch THEN {"params"} ELSE {}

(***************************************************************************)
(* A message for a new task gets the next id; one that names a task        *)
(* continues it or is refused.  SendMessage goes on to the turn,           *)
(* SendStreamingMessage subscribes first.                                  *)
(***************************************************************************)
PrepareSend(c) ==
    /\ pc[c] = "idle"
    /\ \E o \in setup.ops[c] \cap {"send", "stream"}, t \in Tasks, mismatch \in BOOLEAN :
        LET fresh == t = ids + 1
            refusal == IF fresh THEN {} ELSE SendRefusal(t, mismatch)
        IN
        /\ (fresh /\ t <= setup.tasks) \/ (setup.continues /\ t <= ids)
        /\ ids' = IF fresh THEN ids + 1 ELSE ids
        /\ op' = [op EXCEPT ![c] = o]
        /\ task' = [task EXCEPT ![c] = t]
        /\ \/ refusal = {} /\ o = "send" /\ Publish(c, Prepared(c, "working")) /\ UNCHANGED answer
           \/ refusal = {} /\ o = "stream" /\ Goto(c, "subscribe") /\ UNCHANGED <<snap, answer>>
           \/ \E e \in refusal : Answer(c, e) /\ Goto(c, "done") /\ UNCHANGED snap
    /\ UNCHANGED <<setup, storeVars, cancels, hubs, trimmer, victims, listing, gone, streamVars,
                    clock, resurrected, stale, orphans>>

-----------------------------------------------------------------------------
(* publish *)

(* The snapshot is stamped, and Load decides between the two ways to insert it. *)
PublishLoad(c) ==
    /\ pc[c] = "publish"
    /\ clock' = clock + 1
    /\ snap' = [snap EXCEPT ![c].updated = clock + 1]
    /\ Goto(c, IF tasks[task[c]] # None THEN "store" ELSE "admit")
    /\ UNCHANGED <<setup, storeVars, ids, cancels, hubs, trimmer, op, task, victims, listing, answer, gone,
                    streamVars, resurrected, stale, orphans>>

Publishing(c) == pc[c] \in {"publish", "store", "admit", "trim", "trimming", "swap"} \/ trimmer = c
(* Every other request about to publish for this task checked its state before snap[c]. *)
Overtake(c) == stale' = stale \cup {d \in Calls \ {c} : Terminal(snap[c]) /\ task[d] = task[c]
                                                     /\ (Publishing(d) \/ pc[d] = "subscribe")}

(***************************************************************************)
(* A write to the store.  Task t leaves the listing of a state when it is  *)
(* deleted or gets another state, and falls back in it when its new        *)
(* snapshot was stamped before the old one: what follows it then moves to  *)
(* an earlier page.                                                        *)
(***************************************************************************)
Leaves(t, s, state) ==
    /\ tasks[t] # None /\ state \in {None, tasks[t].state}
    /\ s = None \/ (state # None /\ s.state # state) \/ s.updated < tasks[t].updated
Put(t, s) ==
    /\ tasks' = [tasks EXCEPT ![t] = s]
    /\ listing' = [c \in Calls |->
                      IF pc[c] = "listing" /\ Leaves(t, s, listing[c].state)
                      THEN [listing[c] EXCEPT !.shrunk = TRUE] ELSE listing[c]]

(* The task was there: Store charges no slot, whether or not it still is. *)
PublishStore(c) ==
    /\ pc[c] = "store"
    /\ Put(task[c], snap[c])
    /\ resurrected' = IF tasks[task[c]] = None THEN resurrected + 1 ELSE resurrected
    /\ Overtake(c)
    /\ Goto(c, "broadcast")
    /\ UNCHANGED <<setup, retained, ids, cancels, hubs, trimmer, op, task, snap, victims, answer, gone,
                    streamVars, clock, orphans>>

(* A new task takes a slot before it is inserted, and trims while there is none. *)
Admit(c) ==
    /\ pc[c] = "admit"
    /\ IF retained < MaxRetained THEN retained' = retained + 1 /\ Goto(c, "swap")
                                 ELSE Goto(c, "trim") /\ UNCHANGED retained
    /\ UNCHANGED <<setup, tasks, ids, cancels, hubs, trimmer, op, task, snap, victims, listing, answer, gone,
                    streamVars, clock, resurrected, stale, orphans>>

(***************************************************************************)
(* Swap; a publisher that replaced another's insert gives its slot back.   *)
(* The two operations are one step: in between retained only counts a slot *)
(* too many, as it does while the publisher is on its way to Swap.         *)
(***************************************************************************)
PublishSwap(c) ==
    /\ pc[c] = "swap"
    /\ Put(task[c], snap[c])
    /\ retained' = IF tasks[task[c]] # None THEN retained - 1 ELSE retained
    /\ Overtake(c)
    /\ Goto(c, "broadcast")
    /\ UNCHANGED <<setup, ids, cancels, hubs, trimmer, op, task, snap, victims, answer, gone,
                    streamVars, clock, resurrected, orphans>>

(***************************************************************************)
(* deleteTask, for the next task of a walk: LoadAndDelete of the entry,    *)
(* the slot of an entry that was there, and the hub.                       *)
(***************************************************************************)
Victim(c) == Head(victims[c])

(* A change: the slot of a deleted entry is kept. *)
DeleteEntryKeepsSlot(c) ==
    /\ pc[c] = "delete"
    /\ Put(Victim(c), None)
    /\ Goto(c, "unhub")
    /\ UNCHANGED <<setup, retained, ids, cancels, hubs, trimmer, op, task, snap, victims, answer, gone,
                    streamVars, clock, resurrected, stale, orphans>>

DeleteEntry(c) ==
    /\ pc[c] = "delete"
    /\ Put(Victim(c), None)
    /\ Goto(c, IF tasks[Victim(c)] # None THEN "uncount" ELSE "unhub")
    /\ UNCHANGED <<setup, retained, ids, cancels, hubs, trimmer, op, task, snap, victims, answer, gone,
                    streamVars, clock, resurrected, stale, orphans>>
DeleteSlot(c) ==
    /\ pc[c] = "uncount"
    /\ retained' = retained - 1
    /\ Goto(c, "unhub")
    /\ UNCHANGED <<setup, tasks, ids, cancels, hubs, trimmer, op, task, snap, victims, listing, answer, gone,
                    streamVars, clock, resurrected, stale, orphans>>

(* What a turn goes on with after it published. *)
AfterPublish(c) == IF snap[c].state = "working" THEN "register" ELSE "reply"
DeleteHub(c) ==
    /\ pc[c] = "unhub"
    /\ hubs' = [hubs EXCEPT ![Victim(c)] = NoHub]
    /\ orphans' = orphans \cup hubs[Victim(c)].subs
    /\ victims' = [victims EXCEPT ![c] = Tail(@)]
    /\ Goto(c, IF trimmer = c THEN "trimming" ELSE IF Len(victims[c]) > 1 THEN "delete" ELSE AfterPublish(c))
    /\ UNCHANGED <<setup, storeVars, ids, cancels, trimmer, op, task, snap, listing, answer, gone,
                    streamVars, clock, resurrected, stale>>

(* The order of the walk in trim: terminal tasks first, then the oldest. *)
Before(t, u) ==
    LET a == tasks[t]
        b == tasks[u]
    IN  IF Terminal(a) # Terminal(b) THEN Terminal(a) ELSE a.updated < b.updated
Candidates == SetToSortSeq({t \in Tasks : tasks[t] # None}, Before)

(* trim takes trimMu and looks again: another publisher may have made room. *)
TrimBegin(c) ==
    /\ pc[c] = "trim" /\ trimmer = None
    /\ IF retained < MaxRetained THEN Goto(c, "admit") /\ UNCHANGED <<trimmer, victims>>
       ELSE /\ trimmer' = c
            /\ victims' = [victims EXCEPT ![c] = Candidates]
            /\ Goto(c, "trimming")
    /\ UNCHANGED <<setup, storeVars, ids, cancels, hubs, op, task, snap, listing, answer, gone, streamVars,
                    clock, resurrected, stale, orphans>>

(* One victim of the walk, taken from the list made at its start. *)
TrimStep(c) ==
    /\ pc[c] = "trimming"
    /\ IF victims[c] = <<>> \/ retained <= TrimTarget
       THEN /\ trimmer' = None
            /\ victims' = [victims EXCEPT ![c] = <<>>]
            /\ Goto(c, "admit")
       ELSE Goto(c, "delete") /\ UNCHANGED <<trimmer, victims>>
    /\ UNCHANGED <<setup, storeVars, ids, cancels, hubs, op, task, snap, listing, answer, gone, streamVars,
                    clock, resurrected, stale, orphans>>

(* Mutant: a subscriber that fell behind is dropped but its channel stays open. *)
BroadcastForgets(c) ==
    /\ pc[c] = "broadcast"
    /\ LET t == task[c]
           h == hubs[t]
           full == {s \in h.subs : Len(chan[s]) = Buffer}
           event == [seq |-> h.seq + 1, snapshot |-> snap[c]]
       IN  IF h = NoHub THEN UNCHANGED <<hubs, chan, closed>>
           ELSE /\ hubs' = [hubs EXCEPT ![t] = [subs |-> h.subs \ full, last |-> snap[c], seq |-> h.seq + 1]]
                /\ chan' = [s \in Calls |-> IF s \in h.subs \ full THEN Append(chan[s], event) ELSE chan[s]]
                /\ UNCHANGED closed
    /\ Goto(c, "sweep")
    /\ UNCHANGED <<setup, storeVars, ids, cancels, trimmer, op, task, snap, victims, listing, answer, gone,
                    relay, lastSeq, written, misled, clock, resurrected, stale, orphans>>

(***************************************************************************)
(* broadcast: under the hub's mutex every subscriber is sent the snapshot; *)
(* one whose buffer is full is closed and dropped.                         *)
(***************************************************************************)
Broadcast(c) ==
    /\ pc[c] = "broadcast"
    /\ LET t == task[c]
           h == hubs[t]
           full == {s \in h.subs : Len(chan[s]) = Buffer}
           event == [seq |-> h.seq + 1, snapshot |-> snap[c]]
       IN  IF h = NoHub THEN UNCHANGED <<hubs, chan, closed>>
           ELSE /\ hubs' = [hubs EXCEPT ![t] = [subs |-> h.subs \ full, last |-> snap[c], seq |-> h.seq + 1]]
                /\ chan' = [s \in Calls |-> IF s \in h.subs \ full THEN Append(chan[s], event) ELSE chan[s]]
                /\ closed' = closed \cup full
    /\ Goto(c, "sweep")
    /\ UNCHANGED <<setup, storeVars, ids, cancels, trimmer, op, task, snap, victims, listing, answer, gone,
                    relay, lastSeq, written, misled, clock, resurrected, stale, orphans>>

(***************************************************************************)
(* sweepTasks: the TTL pass, when one is due, finds the terminal tasks     *)
(* older than the retention and deletes them one by one.  enforceTaskCap   *)
(* never finds more than the cap (SlotsAccounted below), so it does        *)
(* nothing.                                                                *)
(***************************************************************************)
Expired(before) == {t \in Tasks : Settled(t) /\ tasks[t].updated < before}
SweepTasks(c) ==
    /\ pc[c] = "sweep"
    /\ \E before \in {0} \cup (IF setup.expires THEN 1 .. clock ELSE {}) :
        /\ victims' = [victims EXCEPT ![c] = SetToSeq(Expired(before))]
        /\ Goto(c, IF Expired(before) = {} THEN AfterPublish(c) ELSE "delete")
    /\ UNCHANGED <<setup, storeVars, ids, cancels, hubs, trimmer, op, task, snap, listing, answer, gone, streamVars,
                    clock, resurrected, stale, orphans>>

-----------------------------------------------------------------------------
(* runTurn *)

Register(c) ==
    /\ pc[c] = "register"
    /\ cancels' = [cancels EXCEPT ![task[c]] = c]
    /\ Goto(c, "running")
    /\ UNCHANGED <<setup, storeVars, ids, hubs, trimmer, op, task, snap, victims, listing, answer, gone, streamVars,
                    clock, resurrected, stale, orphans>>

(* ProcessMessage returns: with a reply, or with an error (its own, a cancellation, the timeout). *)
TurnReturns(c) ==
    /\ pc[c] = "running"
    /\ \E state \in {"completed", "failed"} : snap' = [snap EXCEPT ![c] = Prepared(c, state)]
    /\ Goto(c, "check")
    /\ UNCHANGED <<setup, storeVars, ids, cancels, hubs, trimmer, op, task, victims, listing, answer, gone, streamVars,
                    clock, resurrected, stale, orphans>>

(* The deferred cancels.Delete of a turn goes by the task's id, whoever registered last. *)
Unregister(c) == cancels' = [cancels EXCEPT ![task[c]] = None]

(* Mutant: the outcome is published without looking. *)
CheckNothing(c) ==
    /\ pc[c] = "check"
    /\ stale' = stale \ {c}
    /\ Goto(c, "publish") /\ UNCHANGED answer
    /\ UNCHANGED <<setup, storeVars, ids, cancels, hubs, trimmer, op, task, snap, victims, listing, gone, streamVars,
                    clock, resurrected, orphans>>

(* A task that already carries a final state keeps it, otherwise the turn's outcome is published. *)
CheckTerminal(c) ==
    /\ pc[c] = "check"
    /\ stale' = stale \ {c}
    /\ IF Settled(task[c]) THEN Answer(c, tasks[task[c]].state) /\ Unregister(c) /\ Goto(c, "done")
                           ELSE Goto(c, "publish") /\ UNCHANGED <<answer, cancels>>
    /\ UNCHANGED <<setup, storeVars, ids, hubs, trimmer, op, task, snap, victims, listing, gone, streamVars,
                    clock, resurrected, orphans>>

(* snapshotOr, then the deferred cancels.Delete: the task as it is stored now, or the one just published when it is gone. *)
Reply(c) ==
    /\ pc[c] = "reply"
    /\ Answer(c, IF tasks[task[c]] # None THEN tasks[task[c]].state ELSE snap[c].state)
    /\ IF op[c] = "cancel" THEN UNCHANGED cancels ELSE Unregister(c)
    /\ Goto(c, "done")
    /\ UNCHANGED <<setup, storeVars, ids, hubs, trimmer, op, task, snap, victims, listing, gone, streamVars,
                    clock, resurrected, stale, orphans>>

(***************************************************************************)
(* handleCancelTask loads the task, calls the registered function (the     *)
(* turn may return at any moment anyway) and publishes a canceled copy of  *)
(* what it loaded.                                                         *)
(***************************************************************************)
CancelTask(c) ==
    /\ pc[c] = "idle" /\ "cancel" \in setup.ops[c]
    /\ \E t \in Tasks :
        /\ op' = [op EXCEPT ![c] = "cancel"]
        /\ task' = [task EXCEPT ![c] = t]
        /\ IF tasks[t] = None THEN Answer(c, "notFound") /\ Goto(c, "done") /\ UNCHANGED snap
           ELSE IF Terminal(tasks[t])
           THEN /\ Answer(c, IF tasks[t].state = "canceled" THEN "canceled" ELSE "notCancelable")
                /\ Goto(c, "done") /\ UNCHANGED snap
           ELSE Publish(c, [tasks[t] EXCEPT !.state = "canceled"]) /\ UNCHANGED answer
    /\ UNCHANGED <<setup, storeVars, ids, cancels, hubs, trimmer, victims, listing, gone, streamVars,
                    clock, resurrected, stale, orphans>>

(* handleGetTask answers with the stored snapshot. *)
GetTask(c) ==
    /\ pc[c] = "idle" /\ "get" \in setup.ops[c]
    /\ op' = [op EXCEPT ![c] = "get"]
    /\ \E t \in Tasks : Answer(c, IF tasks[t] = None THEN "notFound" ELSE tasks[t].state)
    /\ Goto(c, "done")
    /\ UNCHANGED <<setup, storeVars, ids, cancels, hubs, trimmer, task, snap, victims, listing, gone, streamVars,
                    clock, resurrected, stale, orphans>>

(***************************************************************************)
(* handleListTasks: the tasks in the wanted state (or all), the most       *)
(* recently updated first; a page of one task, and a token that is the     *)
(* offset of the next.  The client asks until there is no next token.      *)
(***************************************************************************)
PageSize == 1
Matching(state) ==
    SetToSortSeq({t \in Tasks : tasks[t] # None /\ (state # None => tasks[t].state = state)},
                 LAMBDA t, u : IF tasks[t].updated = tasks[u].updated THEN t < u
                               ELSE tasks[t].updated > tasks[u].updated)
Page(all, offset) == SubSeq(all, offset + 1, Min({offset + PageSize, Len(all)}))
ListBegin(c) ==
    /\ pc[c] = "idle" /\ "list" \in setup.ops[c]
    /\ op' = [op EXCEPT ![c] = "list"]
    /\ \E state \in setup.filters :
        listing' = [listing EXCEPT ![c] = [NoListing EXCEPT !.from = tasks, !.state = state]]
    /\ Goto(c, "listing")
    /\ UNCHANGED <<setup, storeVars, ids, cancels, hubs, trimmer, task, snap, victims, answer, gone, streamVars,
                    clock, resurrected, stale, orphans>>
ListTasks(c) ==
    /\ pc[c] = "listing"
    /\ LET all == Matching(listing[c].state)
           offset == Min({Len(listing[c].seen), Len(all)})
       IN  /\ listing' = [listing EXCEPT ![c].seen = @ \o Page(all, offset)]
           /\ Goto(c, IF offset + PageSize < Len(all) THEN "listing" ELSE "done")
    /\ UNCHANGED <<setup, storeVars, ids, cancels, hubs, trimmer, op, task, snap, victims, answer, gone, streamVars,
                    clock, resurrected, stale, orphans>>

-----------------------------------------------------------------------------
(* Streams *)

(* subscribe, under the mutex of the task's hub (hubFor makes one): the hub afterwards. *)
Joined(t, c) ==
    LET h == IF hubs[t] = NoHub THEN [NoHub EXCEPT !.seq = 0] ELSE hubs[t]
    IN  IF h.last = None /\ tasks[t] # None
        THEN [subs |-> h.subs \cup {c}, last |-> tasks[t], seq |-> h.seq + 1]
        ELSE [h EXCEPT !.subs = @ \cup {c}]

(* The hub of t when the stream of c left it again at once. *)
Left(t, c) == [Joined(t, c) EXCEPT !.subs = @ \ {c}]

(***************************************************************************)
(* handleSendStreamingMessage subscribes, then starts the turn and relays  *)
(* from the beginning; without a connection that can be flushed            *)
(* (newSSEWriter) it unsubscribes and no turn is started.                  *)
(***************************************************************************)
SubscribeOwn(c) ==
    /\ pc[c] = "subscribe"
    /\ IF setup.flushes
       THEN /\ hubs' = [hubs EXCEPT ![task[c]] = Joined(task[c], c)]
            /\ relay' = [relay EXCEPT ![c] = "open"]
            /\ Publish(c, Prepared(c, "working"))
            /\ UNCHANGED answer
       ELSE /\ hubs' = [hubs EXCEPT ![task[c]] = Left(task[c], c)]
            /\ Answer(c, "http") /\ Goto(c, "done")
            /\ UNCHANGED <<relay, snap>>
    /\ UNCHANGED <<setup, storeVars, ids, cancels, trimmer, op, task, victims, listing, gone, chan, closed, lastSeq,
                   written, misled, clock, resurrected, stale, orphans>>

(* The state of task t is on its way to its hub. *)
InFlight(t) == \E d \in Calls : task[d] = t /\ (Publishing(d) \/ pc[d] = "broadcast")

(* handleSubscribeToTask: not found, already terminal, no stream possible, or a stream from *)
(* the hub's snapshot on.                                                                   *)
SubscribeToTask(c) ==
    /\ pc[c] = "idle" /\ "subscribe" \in setup.ops[c]
    /\ \E t \in Tasks :
        LET h == Joined(t, c)
            refusal == IF h.last = None THEN {"notFound"}
                       ELSE IF Terminal(h.last) THEN {"unsupported"}
                       ELSE IF setup.flushes THEN {} ELSE {"http"}
        IN
        /\ op' = [op EXCEPT ![c] = "subscribe"]
        /\ task' = [task EXCEPT ![c] = t]
        /\ IF refusal # {}
           THEN /\ hubs' = [hubs EXCEPT ![t] = Left(t, c)]
                /\ \E e \in refusal : Answer(c, e)
                /\ UNCHANGED <<relay, lastSeq, written, misled>>
           ELSE /\ hubs' = [hubs EXCEPT ![t] = h]
                /\ relay' = [relay EXCEPT ![c] = "open"]
                /\ lastSeq' = [lastSeq EXCEPT ![c] = h.seq]
                /\ written' = [written EXCEPT ![c] = <<h.last>>]
                /\ misled' = IF Settled(t) /\ ~InFlight(t) THEN misled \cup {c} ELSE misled
                /\ UNCHANGED answer
    /\ Goto(c, "done")
    /\ UNCHANGED <<setup, storeVars, ids, cancels, trimmer, snap, victims, listing, gone, chan, closed,
                   clock, resurrected, stale, orphans>>

(* relayTask forwards what it has not forwarded yet and returns after a terminal state. *)
RelayTask(c) ==
    /\ relay[c] = "open" /\ chan[c] # <<>>
    /\ LET event == Head(chan[c])
           fresh == event.seq > lastSeq[c]
       IN  /\ lastSeq' = IF fresh THEN [lastSeq EXCEPT ![c] = event.seq] ELSE lastSeq
           /\ written' = IF fresh THEN [written EXCEPT ![c] = Append(@, event.snapshot)] ELSE written
           /\ relay' = IF fresh /\ Terminal(event.snapshot) THEN [relay EXCEPT ![c] = "ended"] ELSE relay
    /\ chan' = [chan EXCEPT ![c] = Tail(@)]
    /\ UNCHANGED <<setup, storeVars, ids, cancels, hubs, trimmer, callVars, gone, closed, misled,
                   clock, resurrected, stale, orphans>>

(* It also returns when the channel was closed or the request is over. *)
RelayEnds(c) ==
    /\ relay[c] = "open"
    /\ c \in gone \/ (c \in closed /\ chan[c] = <<>>)
    /\ relay' = [relay EXCEPT ![c] = "ended"]
    /\ UNCHANGED <<setup, storeVars, ids, cancels, hubs, trimmer, callVars, gone, chan, closed, lastSeq, written,
                   misled, clock, resurrected, stale, orphans>>

(* The deferred unsubscribe, once the turn of this request (if any) is done. *)
Unsubscribe(c) ==
    /\ relay[c] = "ended" /\ pc[c] = "done"
    /\ relay' = [relay EXCEPT ![c] = "closed"]
    /\ hubs' = [hubs EXCEPT ![task[c]].subs = @ \ {c}]
    /\ closed' = IF c \in hubs[task[c]].subs THEN closed \cup {c} ELSE closed
    /\ UNCHANGED <<setup, storeVars, ids, cancels, trimmer, callVars, gone, chan, lastSeq, written,
                   misled, clock, resurrected, stale, orphans>>

ClientLeaves(c) ==
    /\ setup.leaves /\ relay[c] = "open" /\ c \notin gone
    /\ gone' = gone \cup {c}
    /\ UNCHANGED <<setup, storeVars, ids, cancels, hubs, trimmer, callVars, streamVars,
                   clock, resurrected, stale, orphans>>

-----------------------------------------------------------------------------
Turn(c) ==
    \/ PublishLoad(c) \/ PublishStore(c) \/ Admit(c) \/ PublishSwap(c) \/ TrimBegin(c) \/ TrimStep(c)
    \/ DeleteEntry(c) \/ DeleteSlot(c) \/ DeleteHub(c) \/ Broadcast(c) \/ SweepTasks(c)
    \/ Register(c) \/ TurnReturns(c) \/ CheckTerminal(c) \/ Reply(c) \/ SubscribeOwn(c)
    \/ ListTasks(c)
Stream(c) == RelayTask(c) \/ RelayEnds(c) \/ Unsubscribe(c)
Arrive(c) == Refuse(c) \/ PrepareSend(c) \/ CancelTask(c) \/ SubscribeToTask(c) \/ GetTask(c) \/ ListBegin(c)
Step(c) == Turn(c) \/ Stream(c)
Next == \E c \in Calls : Step(c) \/ Arrive(c) \/ ClientLeaves(c)

(* Goroutines that can run do; requests arrive and clients leave as they please. *)
Fairness == \A c \in Calls : WF_vars(Turn(c)) /\ WF_vars(Stream(c))
Spec == Init /\ [][Next]_vars /\ Fairness

-----------------------------------------------------------------------------
(* Properties *)

Entries == {t \in Tasks : tasks[t] # None}
Reserved == {c \in Calls : pc[c] \in {"swap", "uncount"}}
Turns(t) == {c \in Calls : task[c] = t /\ op[c] \in {"send", "stream"} /\ answer[c] \notin Errors}

(* retained is exactly the entries plus the slots taken ahead of their insert or not given   *)
(* back yet, less the inserts publish made for a task that was deleted between its Load and  *)
(* its Store; and it never passes the cap.                                                   *)
SlotsAccounted ==
    /\ retained + resurrected = Cardinality(Entries) + Cardinality(Reserved)
    /\ retained <= MaxRetained

(* A stream that is still open, has forwarded all it was sent and still hears from its hub   *)
(* has missed nothing: its task is not in a final state that has been broadcast.             *)
NoMissedTerminal ==
    \A c \in Calls :
        (relay[c] = "open" /\ chan[c] = <<>> /\ c \notin closed \cup orphans \cup misled /\ ~InFlight(task[c]))
            => ~Settled(task[c])

(* A running turn can be cancelled by its task's id, as long as it is the task's only turn.  *)
TurnCancellable ==
    \A c \in Calls : (pc[c] = "running" /\ Turns(task[c]) = {c}) => cancels[task[c]] = c

(* SendMessage answers with a final state, unless another message continued the task.        *)
AnsweredFinal ==
    \A c \in Calls : (pc[c] = "done" /\ op[c] = "send" /\ answer[c] = "working") => Turns(task[c]) # {c}

(* A client that followed the page tokens to the end has seen every task that matched from   *)
(* the first page to the last without a change, whatever was published meanwhile, unless a   *)
(* task left the listing or fell back in it: all other publications only push the others to  *)
(* later pages.                                                                              *)
PagesMissNothing ==
    \A c \in Calls : (op[c] = "list" /\ pc[c] = "done" /\ ~listing[c].shrunk) =>
        \A t \in Tasks : (tasks[t] # None /\ tasks[t] = listing[c].from[t]
                           /\ listing[c].state \in {None, tasks[t].state}) => t \in ToSet(listing[c].seen)

A2AInv == TypeOK /\ SlotsAccounted /\ NoMissedTerminal /\ TurnCancellable /\ AnsweredFinal /\ PagesMissNothing

(* A final state gives way to another one only through a request that had checked the task   *)
(* before that state was stored: runTurn, prepareSend and CancelTask all refuse to overwrite *)
(* a final state they can see.                                                               *)
FinalUnlessOvertaken ==
    [][\A t \in Tasks : (Settled(t) /\ tasks'[t] \notin {None, tasks[t]}) =>
            \E c \in stale : task[c] = t /\ pc[c] \in {"store", "swap"}]_vars

(* Every turn ends, trimMu is never held for good, and every stream ends by itself unless    *)
(* trim or the TTL pass deleted its hub or it joined from a hub overtaken by its task.       *)
StreamsEnd ==
    <>[](\A c \in Calls : pc[c] \in {"idle", "done"} /\ (relay[c] = "open" => c \in orphans \cup misled))

=============================================================================
