----------------------------- MODULE AgentLoop ------------------------------
(***************************************************************************)
(* The turns of one session in the agent loop (internal/agent/loop.go):    *)
(* the gate that admits one exclusive request at a time, what a turn       *)
(* writes to the transcript, the summary that runs in the background when  *)
(* a turn is over, the goroutine that hands the turn to the memory fabric, *)
(* and the recovery of turns it did not hand over before a crash.          *)
(*                                                                         *)
(* A request is a user message, /new, /compact or /stop; /status, /help    *)
(* and unknown commands change nothing.  The answer of the runner and the  *)
(* tool messages before it are one entry.  The session object of this      *)
(* process (mem) and what its files hold (disk) are kept apart: an append  *)
(* writes both, a change in place waits for the next save.  SessionStore   *)
(* models the files themselves.                                            *)
(***************************************************************************)
EXTENDS Integers, Sequences, FiniteSets, FiniteSetsExt

CONSTANTS
    Requests,       \* calls of processMessage, numbered as they arrive
    Contents,       \* texts of user messages, numbered as they are first sent
    Setups,         \* the configurations and environments considered
    None

ASSUME LoopAssumption ==
    /\ IsFiniteSet(Requests) /\ Requests \subseteq Nat /\ None \notin Requests
    /\ IsFiniteSet(Contents) /\ Contents \subseteq Nat /\ None \notin Contents
    /\ \A s \in Setups :
        /\ s.requests \subseteq Requests
        /\ s.ops \subseteq {"user", "new", "compact", "stop"}
        /\ {s.repeats, s.summaries, s.elides} \subseteq BOOLEAN
        /\ s.preempt \subseteq {"commit", "ack"}
        /\ s.failures \subseteq {"open", "tools", "run", "blank", "append", "save", "summary", "enqueue"}
        /\ {s.maxFaults, s.maxCrashes} \subseteq Nat

TurnId == [at : Nat, text : Contents]
Entry == [kind : {"user", "answer", "unanswered", "summary"},
          turn : Requests \cup {None}, id : TurnId \cup {None}, pending : BOOLEAN]
Keys == SUBSET (Requests \X STRING)
Session == [msgs : Seq(Entry), archived : Nat, summary : Keys]

VARIABLES
    setup,      \* the configuration and environment of this behaviour
    mem,        \* the session object
    disk,       \* what the session's files hold
    req,        \* [op, text] of a request, None before it arrives
    pc,         \* where its handler is
    turnId,     \* the turn id of a user request
    active,     \* Loop.active: the request that holds the session
    cancelled,  \* requests whose run context is cancelled
    background, \* Loop.backgroundSummaries: the turn whose task is registered
    halted,     \* the turns whose background task is cancelled
    job,        \* where the summary of a turn or of a /compact is
    source,     \* what that summary summarises, and what it leaves out for size
    ack,        \* where the goroutine that hands the turn over is
    held,       \* the index and message it is about to write
    fabric,     \* <<turn id, turn>> of the records of the memory fabric
    answered,   \* the turns whose answer is durable
    forgotten,  \* the turns cleared by /new
    elided,     \* what a committed summary left out for size
    cut,        \* the turns that ended with neither an answer nor a marker
    stale,      \* "commit": a summary was committed after its task was cancelled;
                \* "ack": a message was written back over another one
    up, crashes, faults

transcript == <<mem, disk>>
gate == <<active, cancelled>>
tasks == <<background, halted, job, source>>
memory == <<ack, held, fabric>>
ghost == <<answered, forgotten, elided, cut, stale>>
run == <<up, crashes>>
vars == <<setup, transcript, req, pc, turnId, gate, tasks, memory, ghost, run, faults>>

Ops        == setup.ops         \* the requests used: user, new, compact, stop
Repeats    == setup.repeats     \* whether a user sends a text again
Summaries  == setup.summaries   \* whether autoSummarizeThreshold is positive
Elides     == setup.elides      \* whether a history may exceed summarizeSourceBudget
Preempt    == setup.preempt     \* where a goroutine may be overtaken: commit, ack
Failures   == setup.failures    \* what may fail
MaxFaults  == setup.maxFaults   \* bound: failures
MaxCrashes == setup.maxCrashes  \* bound: crashes

TypeOK ==
    /\ setup \in Setups
    /\ mem \in Session /\ disk \in Session
    /\ req \in [Requests -> [op : Ops, text : Contents \cup {None}] \cup {None}]
    /\ pc \in [Requests -> {"idle", "open", "asked", "answered", "compacting", "leaving", "done"}]
    /\ turnId \in [Requests -> TurnId \cup {None}]
    /\ active \in Requests \cup {None} /\ cancelled \subseteq Requests
    /\ background \in Requests \cup {None} /\ halted \subseteq Requests
    /\ job \in [Requests -> {"none", "waiting", "idle", "asking", "checked"}]
    /\ source \in [Requests -> [kept : Keys, dropped : Keys]]
    /\ ack \in [Requests -> {"none", "bare", "enqueue", "locate", "set"}]
    /\ held \in [Requests -> {<<>>} \cup (Nat \X Entry)]
    /\ fabric \subseteq TurnId \X Requests
    /\ answered \subseteq Requests /\ forgotten \subseteq Requests
    /\ elided \in Keys /\ cut \subseteq Requests /\ stale \subseteq {"commit", "ack"}
    /\ up \in BOOLEAN /\ crashes \in 0 .. MaxCrashes /\ faults \in 0 .. MaxFaults

NewSession == [msgs |-> <<>>, archived |-> 0, summary |-> {}]
NoSource == [kept |-> {}, dropped |-> {}]

Init ==
    /\ setup \in Setups
    /\ mem = NewSession /\ disk = NewSession
    /\ req = [r \in Requests |-> None]
    /\ pc = [r \in Requests |-> "idle"]
    /\ turnId = [r \in Requests |-> None]
    /\ active = None /\ cancelled = {}
    /\ background = None /\ halted = {}
    /\ job = [r \in Requests |-> "none"]
    /\ source = [r \in Requests |-> NoSource]
    /\ ack = [r \in Requests |-> "none"]
    /\ held = [r \in Requests |-> <<>>]
    /\ fabric = {} /\ answered = {} /\ forgotten = {}
    /\ elided = {} /\ cut = {} /\ stale = {}
    /\ up = TRUE /\ crashes = 0 /\ faults = 0

-----------------------------------------------------------------------------
Fault(what) ==
    /\ what \in Failures
    /\ faults < MaxFaults
    /\ faults' = faults + 1

NoFault == UNCHANGED faults

Go(r, where) == pc' = [pc EXCEPT ![r] = where]

(* Save rewrites the files from the session object, or fails and leaves     *)
(* them as they were.                                                       *)
Save(session) ==
    \/ disk' = session /\ NoFault
    \/ Fault("save") /\ UNCHANGED disk

(* persistTranscriptMessages: the journal first, the object once it is      *)
(* written; a failed append changes neither.                                *)
Persist(e) ==
    /\ mem' = [mem EXCEPT !.msgs = Append(@, e)]
    /\ disk' = [disk EXCEPT !.msgs = Append(@, e)]

Message(kind, r, id, pending) ==
    [kind |-> kind, turn |-> r, id |-> id, pending |-> pending]

Key(e) == <<e.turn, e.kind>>

TurnsOf(session) == {session.msgs[i].turn : i \in DOMAIN session.msgs} \ {None}

(* GetHistory: the messages after the archived ones, rebuilt from the keys  *)
(* it replays; turn_id is not one of them.                                  *)
GetHistory(session) ==
    [i \in 1 .. Len(session.msgs) - session.archived |->
        [kind |-> session.msgs[session.archived + i].kind,
         text |-> IF session.msgs[session.archived + i].kind = "user"
                  THEN session.msgs[session.archived + i].id.text ELSE None,
         id |-> None]]

(* The last message of the history, when it is the same text with an id.    *)
ReusedUser(history, text) ==
    /\ history # <<>>
    /\ LET last == history[Len(history)]
       IN  last.kind = "user" /\ last.text = text /\ last.id # None

-----------------------------------------------------------------------------
(* The gate.                                                                *)

Exclusive == {"user", "new", "compact"}

CancelBackground ==
    /\ halted' = halted \cup ({background} \ {None})
    /\ background' = None

Sent == {req[r].text : r \in {q \in Requests : req[q] # None}} \ {None}

Arrives(r, op, text) ==
    /\ up /\ r \in setup.requests /\ req[r] = None /\ op \in Ops
    /\ text # None <=> op = "user"
    /\ \A q \in Requests : q < r => req[q] # None
    /\ text \in Sent => Repeats
    /\ text \in Contents \ Sent => \A c \in Contents : c < text => c \in Sent
    /\ req' = [req EXCEPT ![r] = [op |-> op, text |-> text]]

(* Mutant of Register: the background task is left running.                 *)
RegisterBesideTask(r, op, text) ==
    /\ op \in Exclusive /\ Arrives(r, op, text)
    /\ IF active = None THEN active' = r /\ Go(r, "open")
                        ELSE UNCHANGED active /\ Go(r, "done")
    /\ UNCHANGED <<setup, transcript, turnId, cancelled, tasks, memory, ghost, run, faults>>

(* tryRegisterActive: the background task is cancelled first, also when the *)
(* request is then rejected with ErrTurnActive.                             *)
Register(r, op, text) ==
    /\ op \in Exclusive /\ Arrives(r, op, text)
    /\ CancelBackground
    /\ \/ active = None /\ active' = r /\ Go(r, "open")
       \/ active # None /\ UNCHANGED active /\ Go(r, "done")
    /\ UNCHANGED <<setup, transcript, turnId, cancelled, job, source, memory, ghost, run, faults>>

(* Mutant of Stop: the gate is opened with the cancellation.                *)
StopReleases(r) ==
    /\ Arrives(r, "stop", None)
    /\ cancelled' = cancelled \cup ({active} \ {None})
    /\ active' = None
    /\ Go(r, "done")
    /\ UNCHANGED <<setup, transcript, turnId, tasks, memory, ghost, run, faults>>

(* Mutant of Stop: cancels without looking whether a turn is registered.    *)
StopUnchecked(r) ==
    /\ Arrives(r, "stop", None)
    /\ cancelled' = cancelled \cup {active}
    /\ Go(r, "done")
    /\ UNCHANGED <<setup, transcript, turnId, active, tasks, memory, ghost, run, faults>>

(* /stop: cancelActive cancels the turn and leaves it registered.           *)
Stop(r) ==
    /\ Arrives(r, "stop", None)
    /\ cancelled' = cancelled \cup ({active} \ {None})
    /\ Go(r, "done")
    /\ UNCHANGED <<setup, transcript, turnId, active, tasks, memory, ghost, run, faults>>

(* The deferred unregisterActive.                                           *)
Unregister(r) ==
    /\ pc[r] = "leaving"
    /\ active' = IF active = r THEN None ELSE active
    /\ cancelled' = cancelled \ {r}
    /\ Go(r, "done")
    /\ UNCHANGED <<setup, transcript, req, turnId, tasks, memory, ghost, run, faults>>

-----------------------------------------------------------------------------
(* A user turn.                                                             *)

(* The turn id, then the user message, durable before the runner starts.    *)
Ask(r) ==
    /\ pc[r] = "open" /\ req[r].op = "user"
    /\ LET history == GetHistory(mem)
           text == req[r].text
           reused == ReusedUser(history, text)
           id == IF reused THEN history[Len(history)].id
                           ELSE [at |-> Len(history), text |-> text]
       IN  /\ turnId' = [turnId EXCEPT ![r] = id]
           /\ IF reused THEN UNCHANGED transcript
                        ELSE Persist(Message("user", r, id, FALSE))
    /\ Go(r, "asked")
    /\ UNCHANGED <<setup, req, gate, tasks, memory, ghost, run, faults>>

(* Mutant of TurnFails: the early return skips the deferred unregister.     *)
TurnFailsHoldingGate(r) ==
    /\ \/ pc[r] = "open" /\ Fault("open")
       \/ pc[r] = "asked" /\ Fault("tools")
       \/ pc[r] = "asked" /\ Fault("append")
    /\ Go(r, "done")
    /\ UNCHANGED <<setup, transcript, req, turnId, gate, tasks, memory, ghost, run>>

(* The returns that write nothing: the session does not open, or the user   *)
(* message is not persisted; the tools of the turn cannot be selected; the  *)
(* answer is not persisted.                                                 *)
TurnFails(r) ==
    /\ \/ pc[r] = "open" /\ Fault("open") /\ UNCHANGED cut
       \/ pc[r] = "asked" /\ Fault("tools") /\ cut' = cut \cup {r}
       \/ pc[r] = "asked" /\ Fault("append") /\ cut' = cut \cup {r}
    /\ Go(r, "leaving")
    /\ UNCHANGED <<setup, transcript, req, turnId, gate, tasks, memory, answered, forgotten, elided, stale, run>>

(* Mutant of RunFails: a cancelled turn returns its error and no more.      *)
RunFailsUnclosed(r) ==
    /\ pc[r] = "asked"
    /\ r \in cancelled /\ NoFault
    /\ Go(r, "leaving")
    /\ UNCHANGED <<setup, transcript, req, turnId, gate, tasks, memory, ghost, run>>

(* Runner.Run returns an error, or the cancellation of its context:         *)
(* closeUnansweredTurn appends the terminal marker.                         *)
RunFails(r) ==
    /\ pc[r] = "asked"
    /\ \/ r \in cancelled /\ NoFault
       \/ Fault("run")
    /\ Persist(Message("unanswered", r, turnId[r], FALSE))
    /\ Go(r, "leaving")
    /\ UNCHANGED <<setup, req, turnId, gate, tasks, memory, ghost, run>>

(* The marker itself may not be persisted; that is only logged.             *)
RunFailsUnrecorded(r) ==
    /\ pc[r] = "asked"
    /\ r \in cancelled \/ "run" \in Failures
    /\ Fault("append")
    /\ cut' = cut \cup {r}
    /\ Go(r, "leaving")
    /\ UNCHANGED <<setup, transcript, req, turnId, gate, tasks, memory, answered, forgotten, elided, stale, run>>

(* Runner.Run returns an answer.  Its messages are one batch, the last with *)
(* the pending marker; then the goroutine of the memory fabric starts.      *)
Answer(r) ==
    /\ pc[r] = "asked"
    /\ Persist(Message("answer", r, turnId[r], TRUE))
    /\ answered' = answered \cup {r}
    /\ ack' = [ack EXCEPT ![r] = "enqueue"]
    /\ Go(r, "answered")
    /\ UNCHANGED <<setup, req, turnId, gate, tasks, held, fabric, forgotten, elided, cut, stale, run, faults>>

(* Runner.Run returns no new message: a hook refused the first request, or  *)
(* every one of the few iterations got a blank response.  Nothing is        *)
(* persisted, and the turn is handed over without a marker.                 *)
AnswerNothing(r) ==
    /\ pc[r] = "asked"
    /\ Fault("blank")
    /\ cut' = cut \cup {r}
    /\ ack' = [ack EXCEPT ![r] = "bare"]
    /\ Go(r, "answered")
    /\ UNCHANGED <<setup, transcript, req, turnId, gate, tasks, held, fabric, answered, forgotten, elided, stale, run>>

(* scheduleBackgroundSummary, before its goroutine.                         *)
Schedule(r) ==
    /\ pc[r] = "answered"
    /\ IF Summaries
       THEN /\ halted' = halted \cup ({background} \ {None})
            /\ background' = r
            /\ job' = [job EXCEPT ![r] = "waiting"]
       ELSE UNCHANGED <<setup, halted, background, job>>
    /\ Go(r, "leaving")
    /\ UNCHANGED <<setup, transcript, req, turnId, gate, source, memory, ghost, run, faults>>

(* Mutant of New: the messages go, the summary stays in the metadata.       *)
NewKeepsSummary(r) ==
    /\ pc[r] = "open" /\ req[r].op = "new"
    /\ mem' = [NewSession EXCEPT !.summary = mem.summary]
    /\ disk' = mem' /\ NoFault
    /\ forgotten' = forgotten \cup TurnsOf(mem)
    /\ Go(r, "leaving")
    /\ UNCHANGED <<setup, req, turnId, gate, tasks, memory, answered, elided, cut, stale, run>>

(* /new: Clear, then Save.                                                  *)
New(r) ==
    /\ pc[r] = "open" /\ req[r].op = "new"
    /\ mem' = NewSession
    /\ Save(NewSession)
    /\ forgotten' = forgotten \cup TurnsOf(mem)
    /\ Go(r, "leaving")
    /\ UNCHANGED <<setup, req, turnId, gate, tasks, memory, answered, elided, cut, stale, run>>

-----------------------------------------------------------------------------
(* Summaries, of the background task of a turn or of /compact.              *)

(* The places of the messages to summarise: after the archived ones, no     *)
(* checkpoints.                                                             *)
Unarchived(session) ==
    {i \in session.archived + 1 .. Len(session.msgs) : session.msgs[i].kind # "summary"}

KeysAt(session, places) == {Key(session.msgs[i]) : i \in places}

(* The job is over: the deferred deletion of the task, or the reply of      *)
(* /compact.                                                                *)
JobOver(r) ==
    /\ job' = [job EXCEPT ![r] = "none"]
    /\ source' = [source EXCEPT ![r] = NoSource]
    /\ background' = IF background = r THEN None ELSE background
    /\ halted' = halted \ {r}
    /\ pc' = IF pc[r] = "compacting" THEN [pc EXCEPT ![r] = "leaving"] ELSE pc

(* autoSummarize up to the provider call: the previous summary and of the   *)
(* messages after it the newest that fit the budget, the last one always;   *)
(* with no such message it returns at once.                                 *)
Summarize(r) ==
    LET new == Unarchived(mem)
    IN  IF new = {}
        THEN IF pc[r] = "open"
             THEN Go(r, "leaving") /\ UNCHANGED tasks
             ELSE JobOver(r)
        ELSE /\ \E first \in IF Elides THEN new ELSE {Min(new)} :
                    source' = [source EXCEPT ![r] =
                        [kept |-> mem.summary \cup KeysAt(mem, {i \in new : i >= first}),
                         dropped |-> KeysAt(mem, {i \in new : i < first})]]
             /\ job' = [job EXCEPT ![r] = "asking"]
             /\ pc' = IF pc[r] = "open" THEN [pc EXCEPT ![r] = "compacting"] ELSE pc
             /\ UNCHANGED <<setup, background, halted>>

Compact(r) ==
    /\ pc[r] = "open" /\ req[r].op = "compact"
    /\ Summarize(r)
    /\ UNCHANGED <<setup, transcript, req, turnId, gate, memory, ghost, run, faults>>

(* The task waits until no turn is active, then for the idle delay.         *)
TurnReleased(r) ==
    /\ job[r] = "waiting" /\ r \notin halted
    /\ active = None
    /\ job' = [job EXCEPT ![r] = "idle"]
    /\ UNCHANGED <<setup, transcript, req, pc, turnId, gate, background, halted, source, memory, ghost, run, faults>>

(* CompactJournal saves the session when the journal is long enough.        *)
CompactJournal == disk' \in {disk, mem}

(* The idle delay ends: a long history is summarised, a short one only has  *)
(* its journal compacted.                                                   *)
Maintain(r) ==
    /\ job[r] = "idle" /\ r \notin halted
    /\ \/ Summarize(r) /\ UNCHANGED disk
       \/ CompactJournal /\ JobOver(r)
    /\ UNCHANGED <<setup, mem, req, turnId, gate, memory, ghost, run, faults>>

(* The task sees its cancellation, at a wait or as the error of the call.   *)
Halt(r) ==
    /\ job[r] \in {"waiting", "idle", "asking"} /\ r \in halted
    /\ JobOver(r)
    /\ UNCHANGED <<setup, transcript, req, turnId, gate, memory, ghost, run, faults>>

SummaryFails(r) ==
    /\ job[r] = "asking" /\ r \notin halted
    /\ Fault("summary")
    /\ IF pc[r] = "compacting" THEN UNCHANGED disk ELSE CompactJournal
    /\ JobOver(r)
    /\ UNCHANGED <<setup, mem, req, turnId, gate, memory, ghost, run>>

(* CommitSummaryCheckpoint with no insertion point: the boundary is the end *)
(* of the transcript as it is now.  Then Save.                              *)
Commit(r) ==
    /\ mem' = [msgs |-> Append(mem.msgs, Message("summary", None, None, FALSE)),
               archived |-> Len(mem.msgs),
               summary |-> source[r].kept]
    /\ Save(mem')
    /\ JobOver(r)
    /\ elided' = elided \cup source[r].dropped
    /\ stale' = IF r \in halted THEN stale \cup {"commit"} ELSE stale
    /\ UNCHANGED <<setup, req, turnId, gate, memory, answered, forgotten, cut, run>>

(* The summary arrives and the context is not cancelled.                    *)
SummaryArrives(r) ==
    /\ job[r] = "asking" /\ r \notin halted
    /\ IF "commit" \in Preempt
       THEN /\ job' = [job EXCEPT ![r] = "checked"]
            /\ UNCHANGED <<setup, transcript, req, pc, turnId, gate, background, halted, source, memory, ghost, run, faults>>
       ELSE Commit(r)

CommitChecked(r) ==
    /\ job[r] = "checked"
    /\ Commit(r)

-----------------------------------------------------------------------------
(* The memory fabric.                                                       *)

(* A record with this id that is not this turn's: the contents differ.      *)
Conflict(id, r) == \E p \in fabric : p[1] = id /\ p[2] # r

(* Mutant of Enqueue: the marker is cleared whatever the callback returned. *)
EnqueueAcksAnyway(r) ==
    /\ ack[r] = "enqueue"
    /\ \/ fabric' = fabric \cup {<<turnId[r], r>>} /\ NoFault
       \/ Fault("enqueue") /\ UNCHANGED fabric
    /\ ack' = [ack EXCEPT ![r] = "locate"]
    /\ UNCHANGED <<setup, transcript, req, pc, turnId, gate, tasks, held, ghost, run>>

(* GraphMemoryEnqueueWithIDError: on an error the marker is retained.       *)
Enqueue(r) ==
    /\ ack[r] = "enqueue"
    /\ \/ /\ ~Conflict(turnId[r], r)
          /\ fabric' = fabric \cup {<<turnId[r], r>>}
          /\ ack' = [ack EXCEPT ![r] = "locate"]
          /\ NoFault
       \/ /\ \/ Conflict(turnId[r], r) /\ NoFault
             \/ Fault("enqueue")
          /\ ack' = [ack EXCEPT ![r] = "none"]
          /\ UNCHANGED fabric
    /\ UNCHANGED <<setup, transcript, req, pc, turnId, gate, tasks, held, ghost, run>>

(* Handed over without a marker: an error is only logged.                   *)
EnqueueBare(r) ==
    /\ ack[r] = "bare"
    /\ ack' = [ack EXCEPT ![r] = "none"]
    /\ \/ ~Conflict(turnId[r], r) /\ fabric' = fabric \cup {<<turnId[r], r>>} /\ NoFault
       \/ Conflict(turnId[r], r) /\ NoFault /\ UNCHANGED fabric
       \/ Fault("enqueue") /\ UNCHANGED fabric
    /\ UNCHANGED <<setup, transcript, req, pc, turnId, gate, tasks, held, ghost, run>>

Marked(session, id) ==
    {i \in DOMAIN session.msgs : session.msgs[i].pending /\ session.msgs[i].id = id}

Unmarked(e) == [e EXCEPT !.pending = FALSE]

(* SetMessage checks the index against the transcript of this moment.       *)
SetMessage(session, i, e) ==
    IF i \in DOMAIN session.msgs THEN [session EXCEPT !.msgs[i] = e] ELSE session

(* The copy of the transcript is searched for the marker of this turn id;   *)
(* the message found is written back at its index.                          *)
Locate(r) ==
    /\ ack[r] = "locate"
    /\ LET marked == Marked(mem, turnId[r])
           i == Min(marked)
       IN  IF marked = {}
           THEN ack' = [ack EXCEPT ![r] = "none"] /\ UNCHANGED <<setup, mem, held>>
           ELSE IF "ack" \in Preempt
           THEN /\ ack' = [ack EXCEPT ![r] = "set"]
                /\ held' = [held EXCEPT ![r] = <<i, Unmarked(mem.msgs[i])>>]
                /\ UNCHANGED mem
           ELSE /\ ack' = [ack EXCEPT ![r] = "none"]
                /\ mem' = SetMessage(mem, i, Unmarked(mem.msgs[i]))
                /\ UNCHANGED held
    /\ UNCHANGED <<setup, disk, req, pc, turnId, gate, tasks, fabric, ghost, run, faults>>

WriteBack(r) ==
    /\ ack[r] = "set"
    /\ mem' = SetMessage(mem, held[r][1], held[r][2])
    /\ ack' = [ack EXCEPT ![r] = "none"]
    /\ held' = [held EXCEPT ![r] = <<>>]
    /\ stale' = LET i == held[r][1]
                IN  IF i \in DOMAIN mem.msgs /\ Key(mem.msgs[i]) # Key(held[r][2])
                    THEN stale \cup {"ack"} ELSE stale
    /\ UNCHANGED <<setup, disk, req, pc, turnId, gate, tasks, fabric, answered, forgotten, elided, cut, run, faults>>

-----------------------------------------------------------------------------
(* Crash and recovery.                                                      *)

(* The process stops: what its memory held is gone.                         *)
Crash ==
    /\ crashes < MaxCrashes
    /\ crashes' = crashes + 1 /\ up' = FALSE
    /\ mem' = disk
    /\ pc' = [r \in Requests |-> IF pc[r] = "idle" THEN "idle" ELSE "done"]
    /\ active' = None /\ cancelled' = {}
    /\ background' = None /\ halted' = {}
    /\ job' = [r \in Requests |-> "none"]
    /\ source' = [r \in Requests |-> NoSource]
    /\ cut' = cut \cup {r \in Requests : pc[r] = "asked"}
    /\ ack' = [r \in Requests |-> "none"]
    /\ held' = [r \in Requests |-> <<>>]
    /\ UNCHANGED <<setup, disk, req, turnId, fabric, answered, forgotten, elided, stale, faults>>

PendingIn(session) == {i \in DOMAIN session.msgs : session.msgs[i].pending}

(* reconcilePendingGraphMemory, one marker: handed over, or dropped when    *)
(* the fabric has another record with its id.  Any other error ends the     *)
(* start, and the next one reads the files again.                           *)
RecoverOne ==
    /\ ~up /\ PendingIn(mem) # {}
    /\ LET i == Min(PendingIn(mem))
           e == mem.msgs[i]
       IN  \/ /\ fabric' = IF Conflict(e.id, e.turn) THEN fabric ELSE fabric \cup {<<e.id, e.turn>>}
              /\ mem' = SetMessage(mem, i, Unmarked(e))
              /\ NoFault
           \/ /\ Fault("enqueue")
              /\ mem' = disk /\ UNCHANGED fabric
    /\ UNCHANGED <<setup, disk, req, pc, turnId, gate, tasks, ack, held, ghost, run>>

(* The session is saved when a marker was cleared, and the loop starts.     *)
RecoverSave ==
    /\ ~up /\ PendingIn(mem) = {}
    /\ \/ disk' = mem /\ up' = TRUE /\ NoFault /\ UNCHANGED mem
       \/ mem # disk /\ Fault("save") /\ mem' = disk /\ UNCHANGED <<setup, disk, up>>
    /\ UNCHANGED <<setup, req, pc, turnId, gate, tasks, memory, ghost, crashes>>

-----------------------------------------------------------------------------
Turn(r) ==
    \/ Ask(r) \/ TurnFails(r) \/ RunFails(r) \/ RunFailsUnrecorded(r)
    \/ Answer(r) \/ AnswerNothing(r) \/ Schedule(r) \/ New(r) \/ Compact(r) \/ Unregister(r)

SummaryJob(r) ==
    \/ TurnReleased(r) \/ Maintain(r) \/ Halt(r)
    \/ SummaryFails(r) \/ SummaryArrives(r) \/ CommitChecked(r)

HandOver(r) == Enqueue(r) \/ EnqueueBare(r) \/ Locate(r) \/ WriteBack(r)

Finished ==
    /\ up /\ \A r \in setup.requests : pc[r] = "done" /\ job[r] = "none" /\ ack[r] = "none"
    /\ UNCHANGED vars

Next ==
    \/ \E r \in Requests, op \in Ops, text \in Contents \cup {None} : Register(r, op, text)
    \/ \E r \in Requests : Stop(r) \/ Turn(r) \/ SummaryJob(r) \/ HandOver(r)
    \/ Crash \/ RecoverOne \/ RecoverSave
    \/ Finished

Spec == Init /\ [][Next]_vars

(* Every goroutine is scheduled; a provider call ends by itself or with its *)
(* deadline.                                                                *)
Fairness ==
    /\ \A r \in Requests : WF_vars(Turn(r)) /\ WF_vars(SummaryJob(r)) /\ WF_vars(HandOver(r))
    /\ WF_vars(RecoverOne \/ RecoverSave)

FairSpec == Spec /\ Fairness

-----------------------------------------------------------------------------
(* Properties.                                                              *)

(* Every answer, and every marker of a turn without one, stands after the   *)
(* user message of its own turn, with at most summaries between them: the   *)
(* gate keeps the turns of a session apart, also when /stop cancels one     *)
(* that has not returned yet; until a goroutine that clears a marker writes *)
(* its copy over another message.                                           *)
AnswersInOrder == "ack" \notin stale =>
    \A i \in DOMAIN mem.msgs : mem.msgs[i].kind \in {"answer", "unanswered"} =>
        \E j \in 1 .. i - 1 :
            /\ mem.msgs[j].kind = "user" /\ mem.msgs[j].turn = mem.msgs[i].turn
            /\ \A k \in j + 1 .. i - 1 : mem.msgs[k].kind = "summary"

(* The transcript never ends on an unanswered user message: when no turn    *)
(* holds the session, its last message is not a user's                      *)
(* (closeUnansweredTurn), unless that turn was cut short: by a crash, by an *)
(* error of the selection of the tools or of the append itself, or by a     *)
(* runner that returned no message.  A turn that fails or is cancelled is   *)
(* closed, whatever fails beside it.                                        *)
NoDanglingQuestion == "ack" \notin stale =>
    LET last == mem.msgs[Len(mem.msgs)]
    IN  up /\ active = None /\ mem.msgs # <<>> /\ last.kind = "user" => last.turn \in cut

(* A message hidden from the model behind the archive boundary is in the    *)
(* summary that stands for it, or was left out of its source for size: the  *)
(* commit archives everything before the end of the transcript, so no       *)
(* message may arrive while it is written.  Until the commit of a task that *)
(* was cancelled after its last check.                                      *)
SummaryCoversArchived == stale = {} =>
    \A i \in 1 .. mem.archived :
        mem.msgs[i].kind # "summary" => Key(mem.msgs[i]) \in mem.summary \cup elided

(* After /new nothing of the conversation it cleared is in the session,     *)
(* neither as a message nor in the summary given to the model; until a      *)
(* stale commit or write, as above, and unless the save of the reset failed *)
(* and a crash brought the files back.                                      *)
ResetForgets == stale = {} /\ ~("save" \in Failures /\ crashes > 0) =>
    /\ \A i \in DOMAIN mem.msgs : mem.msgs[i].turn \notin forgotten
    /\ \A k \in mem.summary : k[1] \notin forgotten

(* A turn whose answer is durable reaches the memory fabric, or still has   *)
(* its recovery marker in the session's files, unless /new cleared it:      *)
(* through failed calls, summaries, saves and crashes, as long as no text   *)
(* is sent twice and no marker is overwritten.                              *)
TurnsRemembered == ~Repeats /\ "ack" \notin stale =>
    \A r \in answered \ forgotten :
        \/ \E p \in fabric : p[2] = r
        \/ \E i \in DOMAIN disk.msgs : disk.msgs[i].turn = r /\ disk.msgs[i].pending

(* A request retried after its user message was saved does not append a     *)
(* second logical user turn.                                                *)
RetryNotDoubled ==
    \A i \in 1 .. Len(mem.msgs) - 1 :
        ~ /\ mem.msgs[i].kind = "user" /\ mem.msgs[i + 1].kind = "user"
          /\ mem.msgs[i].id.text = mem.msgs[i + 1].id.text

(* The session is given back on every path out of processMessage.  A        *)
(* request holds it once at most, so in the end it is free.                 *)
GateReleased == <>[](active = None)

(* The transcript: types, no answer away from its own question, and no      *)
(* question without an answer or a marker once the turn is over; and its    *)
(* summary: all of what it hides from the model, and nothing of what /new   *)
(* has cleared.                                                             *)
TranscriptInv == TypeOK /\ AnswersInOrder /\ NoDanglingQuestion /\ SummaryCoversArchived /\ ResetForgets
=============================================================================
