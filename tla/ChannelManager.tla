--------------------------- MODULE ChannelManager ---------------------------
(***************************************************************************)
(* The channel manager's lifecycle: registration, StartAll with a task per *)
(* channel and the dispatcher goroutine, StopAll and StopChannel, and the  *)
(* gateway that runs StartAll in the background and StopAll, with a three  *)
(* second context, when it returns.  A channel is external: its Start      *)
(* blocks until it is stopped, its context ends or it fails.               *)
(***************************************************************************)
EXTENDS Integers, Sequences, FiniteSets, SequencesExt, FiniteSetsExt, Functions

CONSTANTS
    ChannelNames,
    LifeSetups      \* records [order, removable, deaf]: deaf channels return from Start only when their context ends

VARIABLES
    lifeSetup,
    registered,     \* m.order: registered names, in order
    errs,           \* names with a recorded start error
    tasks,          \* m.tasks: names with a handle
    chan,           \* [ChannelNames -> the task goroutine and its channel]
    started,        \* m.started
    dispatcher,     \* "none", "up", "canceled" or "down"
    dispatchHandle, \* m.dispatchCancel is set
    startPc, startQueue,
    stopAllPc, stopQueue,
    stopping,       \* m.stopping
    gatewayCtx,     \* the signal context is done
    stopExpired,    \* the three seconds are over
    late            \* StartAll went on after StopAll had looked

cVars == <<lifeSetup, registered, errs, tasks, chan, started, dispatcher, dispatchHandle, startPc, startQueue,
           stopAllPc, stopQueue, stopping, gatewayCtx, stopExpired, late>>

Off == [pc |-> "off", running |-> FALSE, canceled |-> FALSE, stopped |-> FALSE]
Active(n) == chan[n].pc \in {"begin", "start", "up"}

LifeInit ==
    /\ lifeSetup \in LifeSetups
    /\ registered = lifeSetup.order
    /\ errs = {} /\ tasks = {} /\ stopping = {}
    /\ chan = [n \in ChannelNames |-> Off]
    /\ started = FALSE /\ dispatcher = "none" /\ dispatchHandle = FALSE
    /\ startPc = "begin" /\ startQueue = <<>> /\ stopAllPc = "idle" /\ stopQueue = <<>>
    /\ gatewayCtx = FALSE /\ stopExpired = FALSE /\ late = FALSE

ManagerVars == <<registered, errs, tasks, started, dispatcher, dispatchHandle>>

-----------------------------------------------------------------------------
(* StartAll *)

StartAllBegins ==
    /\ startPc = "begin" /\ startQueue' = registered
    /\ startPc' = IF registered = <<>> THEN "returned" ELSE "dispatch"
    /\ UNCHANGED <<lifeSetup, ManagerVars, chan, stopAllPc, stopQueue, stopping, gatewayCtx, stopExpired, late>>
StartDispatcher ==
    /\ startPc = "dispatch" /\ startPc' = "tasks"
    /\ started' = TRUE /\ dispatcher' = "up" /\ dispatchHandle' = TRUE
    /\ late' = (stopAllPc # "idle")
    /\ UNCHANGED <<lifeSetup, registered, errs, tasks, chan, startQueue, stopAllPc, stopQueue, stopping,
                   gatewayCtx, stopExpired>>
(* One turn of the loop: a task for a channel that is still registered. *)
StartTask ==
    LET n == Head(startQueue) IN
    /\ startPc = "tasks" /\ startQueue # <<>> /\ startQueue' = Tail(startQueue)
    /\ IF Contains(registered, n)
       THEN /\ tasks' = tasks \cup {n}
            /\ chan' = [chan EXCEPT ![n].pc = "begin"]
       ELSE UNCHANGED <<tasks, chan>>
    /\ UNCHANGED <<lifeSetup, registered, errs, started, dispatcher, dispatchHandle, startPc, stopAllPc,
                   stopQueue, stopping, gatewayCtx, stopExpired, late>>
StartAllWaits ==
    /\ startPc = "tasks" /\ startQueue = <<>> /\ startPc' = "wait"
    /\ UNCHANGED <<lifeSetup, ManagerVars, chan, startQueue, stopAllPc, stopQueue, stopping, gatewayCtx,
                   stopExpired, late>>
StartAllCancels ==
    /\ startPc = "wait" /\ gatewayCtx /\ startPc' = "drain"
    /\ chan' = [n \in ChannelNames |-> IF chan[n].pc = "off" THEN chan[n] ELSE [chan[n] EXCEPT !.canceled = TRUE]]
    /\ UNCHANGED <<lifeSetup, ManagerVars, startQueue, stopAllPc, stopQueue, stopping, gatewayCtx, stopExpired, late>>
StartAllReturns ==
    /\ startPc \in {"wait", "drain"} /\ \A n \in ChannelNames : ~Active(n)
    /\ startPc' = "returned"
    /\ UNCHANGED <<lifeSetup, ManagerVars, chan, startQueue, stopAllPc, stopQueue, stopping, gatewayCtx,
                   stopExpired, late>>

-----------------------------------------------------------------------------
(* startChannel, in the task's goroutine *)

ChannelStays == UNCHANGED <<lifeSetup, registered, tasks, started, dispatcher, dispatchHandle, startPc, startQueue,
                            stopAllPc, stopQueue, stopping, gatewayCtx, stopExpired, late>>
StartChannelClears(n) ==
    /\ chan[n].pc = "begin" /\ errs' = errs \ {n} /\ chan' = [chan EXCEPT ![n].pc = "start"] /\ ChannelStays
ChannelRuns(n) ==
    /\ chan[n].pc = "start" /\ chan' = [chan EXCEPT ![n].pc = "up", ![n].running = TRUE]
    /\ UNCHANGED errs /\ ChannelStays
(* Start fails; the error is the context's when that has ended, and is then not recorded. *)
StartFails(n) ==
    /\ chan[n].pc \in {"start", "up"}
    /\ chan' = [chan EXCEPT ![n].pc = "done", ![n].running = FALSE]
    /\ errs' = IF chan[n].canceled THEN errs ELSE errs \cup {n}
    /\ ChannelStays
(* Start returns nil because the channel was stopped or its context ended. *)
StartEndsQuietly(n) ==
    /\ chan[n].pc = "up"
    /\ chan[n].canceled \/ (chan[n].stopped /\ n \notin lifeSetup.deaf)
    /\ chan' = [chan EXCEPT ![n].pc = "done", ![n].running = FALSE]
    /\ UNCHANGED errs /\ ChannelStays

-----------------------------------------------------------------------------
(* StopAll, StopChannel and stopChannelRuntime *)

StopStays == UNCHANGED <<lifeSetup, registered, errs, startPc, startQueue, gatewayCtx, stopExpired, late>>

StopAllBegins ==
    /\ gatewayCtx /\ stopAllPc = "idle" /\ started' = FALSE
    /\ dispatchHandle' = FALSE
    /\ dispatcher' = IF dispatchHandle THEN "canceled" ELSE dispatcher
    /\ stopAllPc' = IF dispatchHandle THEN "await" ELSE "list"
    /\ UNCHANGED <<tasks, chan, stopQueue, stopping>> /\ StopStays
DispatcherEnds ==
    /\ dispatcher = "canceled" /\ dispatcher' = "down"
    /\ UNCHANGED <<tasks, chan, started, dispatchHandle, stopAllPc, stopQueue, stopping>> /\ StopStays
StopAllAwaited ==
    /\ stopAllPc = "await" /\ dispatcher = "down" /\ stopAllPc' = "list"
    /\ UNCHANGED <<tasks, chan, started, dispatcher, dispatchHandle, stopQueue, stopping>> /\ StopStays
StopAllLists ==
    /\ stopAllPc = "list" /\ stopAllPc' = "next" /\ stopQueue' = registered
    /\ UNCHANGED <<tasks, chan, started, dispatcher, dispatchHandle, stopping>> /\ StopStays

(* StopChannel up to the call of the channel's Stop; an unregistered channel only loses its handle. *)
StopChannel ==
    LET n == Head(stopQueue) IN
    /\ stopAllPc = "next" /\ stopQueue # <<>>
    /\ tasks' = tasks \ {n}
    /\ IF Contains(registered, n)
       THEN /\ stopping' = stopping \cup {n} /\ UNCHANGED stopQueue
            /\ chan' = [chan EXCEPT ![n].stopped = TRUE]
            /\ stopAllPc' = IF n \in tasks THEN "stopping" ELSE "stoppingBare"
       ELSE stopQueue' = Tail(stopQueue) /\ UNCHANGED <<chan, stopping, stopAllPc>>
    /\ UNCHANGED <<started, dispatcher, dispatchHandle>> /\ StopStays
StopReturnsAtOnce ==
    LET n == Head(stopQueue) IN
    /\ stopAllPc \in {"stopping", "stoppingBare"} /\ ~stopExpired
    /\ chan' = [chan EXCEPT ![n].canceled = TRUE]
    /\ stopAllPc' = "next" /\ stopQueue' = Tail(stopQueue) /\ stopping' = stopping \ {n}
    /\ UNCHANGED <<tasks, started, dispatcher, dispatchHandle>> /\ StopStays
(* The channel's Stop came back in time: cancel the task and wait for it. *)
StopReturns ==
    LET n == Head(stopQueue) IN
    /\ stopAllPc \in {"stopping", "stoppingBare"} /\ ~stopExpired
    /\ IF stopAllPc = "stopping" /\ Active(n)
       THEN /\ chan' = [chan EXCEPT ![n].canceled = TRUE] /\ stopAllPc' = "join" /\ UNCHANGED <<stopQueue, stopping>>
       ELSE stopAllPc' = "next" /\ stopQueue' = Tail(stopQueue) /\ stopping' = stopping \ {n} /\ UNCHANGED chan
    /\ UNCHANGED <<tasks, started, dispatcher, dispatchHandle>> /\ StopStays
StopJoins ==
    LET n == Head(stopQueue) IN
    /\ stopAllPc = "join" /\ ~Active(n)
    /\ stopAllPc' = "next" /\ stopQueue' = Tail(stopQueue) /\ stopping' = stopping \ {n}
    /\ UNCHANGED <<tasks, chan, started, dispatcher, dispatchHandle>> /\ StopStays
(* The context ended during the channel's Stop: StopAll gives up on this channel and on the rest. *)
StopGivesUp ==
    LET n == Head(stopQueue) IN
    /\ stopAllPc \in {"stopping", "stoppingBare"} /\ stopExpired
    /\ stopAllPc' = "failed" /\ stopping' = stopping \ {n} /\ UNCHANGED stopQueue
    /\ UNCHANGED <<tasks, chan, started, dispatcher, dispatchHandle>> /\ StopStays
StopAllReturns ==
    /\ stopAllPc = "next" /\ stopQueue = <<>> /\ stopAllPc' = "stopped"
    /\ UNCHANGED <<tasks, chan, started, dispatcher, dispatchHandle, stopQueue, stopping>> /\ StopStays

-----------------------------------------------------------------------------
(* RemoveChannel and the gateway *)

RemoveChannel(n) ==
    /\ n \in lifeSetup.removable /\ Contains(registered, n)
    /\ registered' = SelectSeq(registered, LAMBDA m : m # n) /\ errs' = errs \ {n}
    /\ UNCHANGED <<lifeSetup, tasks, chan, started, dispatcher, dispatchHandle, startPc, startQueue, stopAllPc,
                   stopQueue, stopping, gatewayCtx, stopExpired, late>>
GatewaySignal ==
    /\ ~gatewayCtx /\ gatewayCtx' = TRUE
    /\ UNCHANGED <<lifeSetup, ManagerVars, chan, startPc, startQueue, stopAllPc, stopQueue, stopping, stopExpired, late>>
StopContextExpires ==
    /\ stopAllPc \in {"await", "list", "next", "stopping", "stoppingBare", "join"} /\ ~stopExpired /\ stopExpired' = TRUE
    /\ UNCHANGED <<lifeSetup, ManagerVars, chan, startPc, startQueue, stopAllPc, stopQueue, stopping, gatewayCtx, late>>

StartAllStep == StartAllBegins \/ StartDispatcher \/ StartTask \/ StartAllWaits \/ StartAllCancels \/ StartAllReturns
ChannelStep(n) == StartChannelClears(n) \/ ChannelRuns(n) \/ StartEndsQuietly(n)
StopStep ==
    \/ StopAllBegins \/ StopAllAwaited \/ StopAllLists \/ StopChannel \/ StopReturns \/ StopJoins \/ StopGivesUp
    \/ StopAllReturns
LifeNext ==
    \/ StartAllStep \/ StopStep \/ DispatcherEnds \/ GatewaySignal \/ StopContextExpires
    \/ \E n \in ChannelNames : ChannelStep(n) \/ StartFails(n) \/ RemoveChannel(n)

-----------------------------------------------------------------------------
(* GetStatus's state of a channel. *)
StatusOf(n) ==
    CASE n \in errs -> "failed"
      [] n \notin errs /\ chan[n].running -> "running"
      [] n \notin errs /\ ~chan[n].running /\ n \in tasks /\ Active(n) -> "starting"
      [] OTHER -> "stopped"

(* A channel whose goroutine is alive shows as starting or running until somebody asks it to stop, so that an
   operator never reads "stopped" or "failed" of a channel that works. *)
StatusTellsTheTruth ==
    \A n \in ToSet(registered) :
        /\ chan[n].pc \in {"start", "up"} /\ ~chan[n].stopped => StatusOf(n) \in {"starting", "running"}
        /\ StatusOf(n) = "failed" => ~Active(n) \/ chan[n].pc = "begin"
(* When StopAll has returned without error no registered channel is still running, except one whose task
   StartAll created behind its back. *)
StoppedIsStopped ==
    stopAllPc = "stopped" /\ ~late /\ lifeSetup.removable = {} =>
        \A n \in ChannelNames : Active(n) => n \in tasks
LifeTypeOK ==
    /\ tasks \subseteq ChannelNames /\ stopping \subseteq ChannelNames
    /\ \A n \in stopping : stopAllPc \in {"stopping", "stoppingBare", "join"} /\ n = Head(stopQueue)
    /\ stopAllPc \in {"idle", "await", "list", "next", "stopping", "stoppingBare", "join", "failed", "stopped"}
LifeInv == LifeTypeOK /\ StatusTellsTheTruth /\ StoppedIsStopped

(* Once the gateway is told to stop, StartAll and StopAll return and no channel goroutine is left: the task
   StartAll creates late is cancelled by StartAll itself.  The dispatcher goes away as well, unless StartAll
   created it after StopAll had looked for its handle. *)
LifeAtRest ==
    gatewayCtx =>
        /\ startPc = "returned" /\ stopAllPc \in {"stopped", "failed"}
        /\ \A n \in ChannelNames : ~Active(n)
        /\ dispatcher # "up" \/ late

-----------------------------------------------------------------------------
(***************************************************************************)
(* The pairing store (one JSON file, read and rewritten whole by every     *)
(* operation under the Store's mutex) and the admission of messages by     *)
(* Base.HandleMessage.  The file is shared with another runtime, whose     *)
(* operations take another lock; it may be unreadable for a while, be      *)
(* corrupted from outside, and a write may fail or the process may die     *)
(* before the rename.                                                      *)
(***************************************************************************)

CONSTANTS
    PairChannels, PairSenders,
    PairCodes,      \* the codes randomCode may draw
    AllowListed,    \* senders of the channels' allow_from
    Tasks,          \* who calls the store
    LockOf,         \* [Tasks -> locks]: one mutex per process
    PairTTL, MaxPairClock,
    MaxPairOps,     \* operations begun by all tasks
    MaxPairFaults   \* failed reads and writes, crashes and corruptions, together

VARIABLES
    pairFile,       \* pairing.json, or Corrupt
    task,           \* [Tasks -> the operation in progress]
    pairClock, pairOps, pairFaults,
    decided,        \* accounts approved by the operations that succeeded, in their order
    shown,          \* code -> the account it was sent to
    admittedBy,     \* accounts with a message published, and on what ground
    overlapped,     \* an operation saved over a file that had changed since it was loaded
    wiped           \* the file was corrupted from outside

pairVars == <<pairFile, task, pairClock, pairOps, pairFaults, decided, shown, admittedBy, overlapped, wiped>>

Accounts == PairChannels \X PairSenders
Empty == [decodes |-> TRUE, approved |-> {}, pending |-> <<>>]
Corrupt == [Empty EXCEPT !.decodes = FALSE]
Resting == [op |-> "none", arg |-> "none", pc |-> "none", view |-> Empty, read |-> Empty, dm |-> FALSE]
Codes(data) == DOMAIN data.pending

-----------------------------------------------------------------------------
(* The file *)

(* A missing or undecodable file is an empty store. *)
load == IF pairFile.decodes THEN pairFile ELSE Empty

Live(data) == {c \in Codes(data) : data.pending[c].expires >= pairClock}
gcPending(data) == [data EXCEPT !.pending = Restrict(@, Live(data))]
delPending(data, codes) == [data EXCEPT !.pending = Restrict(@, DOMAIN @ \ codes)]
setPending(data, code, who) ==
    [data EXCEPT !.pending =
        [c \in DOMAIN @ \cup {code} |-> IF c = code THEN [who |-> who, expires |-> pairClock + PairTTL] ELSE @[c]]]
Of(data, channel) == {a \in data.approved : a[1] = channel}

-----------------------------------------------------------------------------
(* What an operation makes of the loaded data; NoSave (no data decodes to it) when it returns
   without writing. *)

NoSave == Corrupt
GenerateCode(data, who, code) ==
    LET d == gcPending(data)
    IN IF \E c \in Codes(d) : d.pending[c].who = who THEN NoSave ELSE setPending(d, code, who)
ApproveCode(data, code) ==
    LET d == gcPending(data)
    IN IF code \notin Codes(d) THEN NoSave
       ELSE [delPending(d, {code}) EXCEPT !.approved = @ \cup {d.pending[code].who}]
DenyCode(data, code) ==
    LET d == gcPending(data) IN IF code \notin Codes(d) THEN NoSave ELSE delPending(d, {code})
Revoke(data, who) == IF who \notin data.approved THEN NoSave ELSE [data EXCEPT !.approved = @ \ {who}]
RevokeChannel(data, channel) ==
    IF Of(data, channel) = {} THEN NoSave ELSE [data EXCEPT !.approved = @ \ Of(data, channel)]
ClearChannel(data, channel) ==
    LET d == gcPending(data)
        codes == {c \in Codes(d) : d.pending[c].who[1] = channel}
    IN IF Of(d, channel) = {} /\ codes = {} THEN NoSave
       ELSE [delPending(d, codes) EXCEPT !.approved = @ \ Of(d, channel)]

-----------------------------------------------------------------------------
PairInit ==
    /\ pairFile = Empty /\ task = [t \in Tasks |-> Resting]
    /\ pairClock = 0 /\ pairOps = 0 /\ pairFaults = 0
    /\ decided = {} /\ shown = <<>> /\ admittedBy = {} /\ overlapped = FALSE /\ wiped = FALSE

Locked(lock) == \E t \in Tasks : LockOf[t] = lock /\ task[t].pc = "save"
PairFault == pairFaults < MaxPairFaults /\ pairFaults' = pairFaults + 1
NoPairFault == UNCHANGED pairFaults
HistoryStays == UNCHANGED <<decided, shown, admittedBy, overlapped, wiped>>

Tick ==
    /\ pairClock < MaxPairClock /\ pairClock' = pairClock + 1
    /\ UNCHANGED <<pairFile, task, pairOps, pairFaults, decided, shown, admittedBy, overlapped, wiped>>

(* A message arrives, or an operator types a pairing command. *)
Begin(t, op, arg, dm) ==
    /\ task[t].pc = "none" /\ pairOps < MaxPairOps /\ pairOps' = pairOps + 1
    /\ task' = [task EXCEPT ![t] = [Resting EXCEPT !.op = op, !.arg = arg, !.dm = dm,
                                                   !.pc = IF op = "message" THEN "check" ELSE "load"]]
    /\ UNCHANGED <<pairFile, pairClock, pairFaults>> /\ HistoryStays

Ends(t) == task' = [task EXCEPT ![t] = Resting]

Listed(who) == who[2] \in AllowListed
(* What Base.HandleMessage does with the answer of IsAllowed: publish, send a code to a direct message, or drop. *)
Decide(t, allowed) ==
    \/ /\ allowed /\ Ends(t)
       /\ admittedBy' = admittedBy \cup
            {<<task[t].arg, IF Listed(task[t].arg) THEN "listed" ELSE "approved">>}
    \/ /\ ~allowed /\ UNCHANGED admittedBy
       /\ IF task[t].dm THEN task' = [task EXCEPT ![t].op = "generate", ![t].pc = "load"] ELSE Ends(t)
(* Base.IsAllowed: the allow list, then the store, which refuses when the file cannot be read. *)
HandleMessage(t) ==
    /\ task[t].pc = "check" /\ ~Locked(LockOf[t])
    /\ \/ NoPairFault /\ Decide(t, Listed(task[t].arg) \/ task[t].arg \in load.approved)
       \/ PairFault /\ Decide(t, Listed(task[t].arg))
    /\ UNCHANGED <<pairFile, pairClock, pairOps, decided, shown, overlapped, wiped>>

(* The loaded data after the operation; a fresh code is one nobody was ever sent. *)
Outcomes(t) ==
    LET op == task[t].op arg == task[t].arg IN
    CASE op = "generate" -> {GenerateCode(load, arg, c) : c \in PairCodes \ (DOMAIN shown \cup Codes(load))}
      [] op = "approve" -> {ApproveCode(load, arg)}
      [] op = "deny" -> {DenyCode(load, arg)}
      [] op = "revoke" -> {Revoke(load, arg)}
      [] op = "revokeChannel" -> {RevokeChannel(load, arg)}
      [] op = "clear" -> {ClearChannel(load, arg)}

Load(t) ==
    /\ task[t].pc = "load" /\ ~Locked(LockOf[t])
    /\ \E view \in Outcomes(t) :
        IF view = NoSave THEN Ends(t)
        ELSE task' = [task EXCEPT ![t].pc = "save", ![t].view = view, ![t].read = load]
    /\ UNCHANGED <<pairFile, pairClock, pairOps, pairFaults>> /\ HistoryStays

LoadTakesNothing(t) ==
    /\ task[t].pc = "load" /\ ~Locked(LockOf[t]) /\ PairFault
    /\ task' = [task EXCEPT ![t].pc = "save", ![t].view = Empty, ![t].read = load]
    /\ UNCHANGED <<pairFile, pairClock, pairOps>> /\ HistoryStays
(* An unreadable file is an error to every operation that would write. *)
LoadRefused(t) ==
    /\ task[t].pc = "load" /\ ~Locked(LockOf[t]) /\ PairFault
    /\ Ends(t) /\ UNCHANGED <<pairFile, pairClock, pairOps>> /\ HistoryStays

(* What an operation that saved has decided about the approvals. *)
Decision(op, arg) ==
    CASE op = "approve" -> decided \cup {shown[arg]}
      [] op = "revoke" -> decided \ {arg}
      [] op \in {"revokeChannel", "clear"} -> {who \in decided : who[1] # arg}
      [] OTHER -> decided
(* save through writeFileAtomic: the rename is the step at which the file changes. *)
Save(t) ==
    LET op == task[t].op arg == task[t].arg view == task[t].view old == task[t].read IN
    /\ task[t].pc = "save" /\ pairFile' = view /\ Ends(t)
    /\ decided' = Decision(op, arg)
    /\ shown' = IF op # "generate" THEN shown
                ELSE [c \in DOMAIN shown \cup (Codes(view) \ Codes(old)) |->
                        IF c \in DOMAIN shown THEN shown[c] ELSE arg]
    /\ overlapped' = (overlapped \/ load # old)
    /\ UNCHANGED <<pairClock, pairOps, pairFaults, admittedBy, wiped>>

(* The write fails, or the process dies before the rename: the file keeps what it had. *)
SaveFails(t) ==
    /\ task[t].pc = "save" /\ PairFault /\ Ends(t)
    /\ UNCHANGED <<pairFile, pairClock, pairOps>> /\ HistoryStays
ProcessDies(lock) ==
    /\ PairFault
    /\ task' = [t \in Tasks |-> IF LockOf[t] = lock THEN Resting ELSE task[t]]
    /\ UNCHANGED <<pairFile, pairClock, pairOps>> /\ HistoryStays
FileCorrupted ==
    /\ pairFile.decodes /\ PairFault /\ pairFile' = Corrupt /\ wiped' = TRUE
    /\ UNCHANGED <<task, pairClock, pairOps, decided, shown, admittedBy, overlapped>>

(* HandlePairingCommand: the sub-commands an operator has, and ClearChannel of the store's API. *)
HandlePairingCommand(t) ==
    \/ \E c \in DOMAIN shown : Begin(t, "approve", c, FALSE) \/ Begin(t, "deny", c, FALSE)
    \/ \E who \in Accounts : Begin(t, "revoke", who, FALSE)
    \/ \E ch \in PairChannels : Begin(t, "revokeChannel", ch, FALSE) \/ Begin(t, "clear", ch, FALSE)
MessageArrives(t) == \E who \in Accounts, dm \in BOOLEAN : Begin(t, "message", who, dm)

TaskStep(t) == HandleMessage(t) \/ Load(t) \/ LoadRefused(t) \/ Save(t) \/ SaveFails(t)
PairNext ==
    \/ Tick \/ FileCorrupted
    \/ \E t \in Tasks :
        \/ TaskStep(t)
        \/ t = "inbound" /\ MessageArrives(t)
        \/ t # "inbound" /\ HandlePairingCommand(t)
    \/ \E lock \in Range(LockOf) : ProcessDies(lock)

-----------------------------------------------------------------------------
(* The approvals in the file are those the successful operations decided, in the order they were saved: a
   read error, a failed write or a crash never erases or brings back an approval.  A corrupted file loses them
   all, and two runtimes whose operations overlap may undo one another's. *)
ApprovalsAsDecided == ~wiped /\ ~overlapped => pairFile.approved = decided
(* A code approves the account it was sent to, whatever was requested, denied or expired meanwhile. *)
CodeNamesItsHolder ==
    \A c \in Codes(pairFile) : c \in DOMAIN shown /\ pairFile.pending[c].who = shown[c]
(* An account has at most one code waiting, even when two runtimes write the file. *)
OneCodeEach ==
    \A c, d \in Codes(pairFile) : pairFile.pending[c].who = pairFile.pending[d].who => c = d
(* A message of an account outside the allow list was only published after an operator approved a code of
   that account. *)
AdmittedWasShownACode ==
    \A p \in admittedBy : p[2] = "approved" => \E c \in DOMAIN shown : shown[c] = p[1]
PairTypeOK ==
    /\ pairFile.approved \subseteq Accounts /\ Codes(pairFile) \subseteq PairCodes
    /\ \A t \in Tasks : task[t].pc \in {"none", "check", "load", "save"}
    /\ \A lock \in Range(LockOf) : Cardinality({t \in Tasks : LockOf[t] = lock /\ task[t].pc = "save"}) <= 1
PairInv == PairTypeOK /\ ApprovalsAsDecided /\ CodeNamesItsHolder /\ OneCodeEach /\ AdmittedWasShownACode

=============================================================================
