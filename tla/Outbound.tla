------------------------------ MODULE Outbound ------------------------------
(***************************************************************************)
(* The outbound side of the channel manager                                *)
(* (internal/channels/manager_outbound.go, and StartAll and StopAll of     *)
(* manager.go): the dispatcher that takes messages from the bus, merges    *)
(* the deltas of a stream, suppresses repeated replies and registers one   *)
(* task per message; the tasks, which send in the order of their chat and  *)
(* retry; and the shutdown that sweeps them.                               *)
(*                                                                         *)
(* One channel with several chats.  A message is a shape (its chat, kind,  *)
(* stream, text and the ids its metadata carries) and a number, its place  *)
(* on the bus; a merged message carries the numbers of its parts.  Delays  *)
(* are steps that take their time.                                         *)
(***************************************************************************)
EXTENDS Integers, Sequences, FiniteSets, Functions

CONSTANTS
    Chats,
    Shapes,             \* the messages the agent may publish
    Setups,             \* the configurations and environments considered
    MaxMessages,        \* bound: messages published
    None

ASSUME OutboundAssumption ==
    /\ IsFiniteSet(Chats)
    /\ \A s \in Shapes : s.chat \in Chats /\ s.kind \in {"plain", "delta", "end", "mark", "progress"}
    /\ \A s \in Setups :
        /\ s.shapes \subseteq Shapes
        /\ {s.showProgress, s.stops, s.hangs} \subseteq BOOLEAN
        /\ {s.pendingLimit, s.concurrency, s.fingerprintMax} \subseteq Nat \ {0}
        /\ {s.sendMaxRetries, s.maxErrors} \subseteq Nat
        /\ s.messages \in 0 .. MaxMessages
    /\ MaxMessages \in Nat
    /\ None \notin 1 .. MaxMessages

Ids == 1 .. MaxMessages
Message == [shape : Shapes, parts : Seq(Ids), kind : {"plain", "delta", "end", "mark", "progress"}]
Task == [msg : Message, prev : Ids \cup {None}, at : {"waiting", "ready", "sending", "delay"}, attempt : Nat]

VARIABLES
    setup,          \* the configuration and environment of this behaviour
    bus,            \* the outbound queue of the message bus
    published,      \* the shapes published so far
    pending,        \* the dispatcher's buffer
    cur,            \* the message it works on
    disp,           \* where the dispatcher is
    fingerprints,   \* <<key, text>> remembered, oldest first
    suppressed,     \* the messages suppressed
    tasks,          \* registered tasks, by the number of their first part
    done,           \* tasks that are over
    cancelled,      \* tasks whose context is cancelled
    tails,          \* the last task of each chat
    slots, sends,   \* admission slots and send slots in use
    sent,           \* the parts each chat has received
    stop,           \* where StopAll is
    errors

dispatcher == <<pending, cur, disp, fingerprints, suppressed>>
outbound == <<tasks, done, tails, slots, sends>>
vars == <<setup, bus, published, dispatcher, outbound, cancelled, sent, stop, errors>>

ShowProgress   == setup.showProgress    \* the channel's progress policy
PendingLimit   == setup.pendingLimit    \* OutboundPendingLimit: admission slots
Concurrency    == setup.concurrency     \* OutboundConcurrency: sends at once
SendMaxRetries == setup.sendMaxRetries  \* attempts per message
FingerprintMax == setup.fingerprintMax  \* replies remembered
MaxErrors      == setup.maxErrors       \* bound: failed sends
Stops          == setup.stops           \* whether StopAll is called

TypeOK ==
    /\ setup \in Setups
    /\ bus \in Seq(Message) /\ published \in Seq(Shapes)
    /\ pending \in Seq(Message) /\ cur \in Message \cup {None}
    /\ disp \in {"poll", "gates", "coalesce", "suppress", "slot", "check", "sweep", "gone"}
    /\ suppressed \subseteq Ids
    /\ DOMAIN tasks \subseteq Ids /\ \A t \in DOMAIN tasks : tasks[t] \in Task
    /\ done \subseteq Ids /\ cancelled \subseteq Ids
    /\ tails \in [Chats -> Ids \cup {None}]
    /\ slots \in 0 .. PendingLimit /\ sends \in 0 .. Concurrency
    /\ sent \in [Chats -> Seq(Ids)]
    /\ stop \in {"no", "dispatcher", "channel", "stopped"}
    /\ errors \in 0 .. MaxErrors

Init ==
    /\ setup \in Setups
    /\ bus = <<>> /\ published = <<>>
    /\ pending = <<>> /\ cur = None /\ disp = "poll"
    /\ fingerprints = <<>> /\ suppressed = {}
    /\ tasks = [t \in {} |-> None] /\ done = {} /\ cancelled = {}
    /\ tails = [c \in Chats |-> None]
    /\ slots = 0 /\ sends = 0
    /\ sent = [c \in Chats |-> <<>>]
    /\ stop = "no" /\ errors = 0

-----------------------------------------------------------------------------
(* The agent publishes a message.                                           *)
Publish(s) ==
    /\ s \in setup.shapes /\ Len(published) < setup.messages
    /\ published' = Append(published, s)
    /\ bus' = Append(bus, [shape |-> s, parts |-> <<Len(published) + 1>>, kind |-> s.kind])
    /\ UNCHANGED <<setup, dispatcher, outbound, cancelled, sent, stop, errors>>

-----------------------------------------------------------------------------
(* The dispatcher.                                                          *)

Stopping == stop # "no"

(* Mutant of Take: the bus comes before the buffer.                         *)
TakeBusFirst ==
    /\ disp = "poll" /\ ~Stopping
    /\ \/ /\ bus # <<>>
          /\ cur' = Head(bus) /\ bus' = Tail(bus) /\ UNCHANGED pending
       \/ /\ bus = <<>> /\ pending # <<>>
          /\ cur' = Head(pending) /\ pending' = Tail(pending) /\ UNCHANGED bus
    /\ disp' = "gates"
    /\ UNCHANGED <<setup, published, fingerprints, suppressed, outbound, cancelled, sent, stop, errors>>

(* dispatchOutboundLoop: the buffer first, then the bus.                    *)
Take ==
    /\ disp = "poll" /\ ~Stopping
    /\ \/ /\ pending # <<>>
          /\ cur' = Head(pending) /\ pending' = Tail(pending) /\ UNCHANGED bus
       \/ /\ pending = <<>> /\ bus # <<>>
          /\ cur' = Head(bus) /\ bus' = Tail(bus) /\ UNCHANGED pending
    /\ disp' = "gates"
    /\ UNCHANGED <<setup, published, fingerprints, suppressed, outbound, cancelled, sent, stop, errors>>

(* dispatchOne up to the merge: progress the channel does not show is       *)
(* dropped.                                                                 *)
Gates ==
    /\ disp = "gates"
    /\ IF cur.kind = "progress" /\ ~ShowProgress
       THEN disp' = "poll" /\ cur' = None
       ELSE /\ disp' = IF cur.kind = "delta" THEN "coalesce" ELSE "suppress"
            /\ UNCHANGED cur
    /\ UNCHANGED <<setup, bus, published, pending, fingerprints, suppressed, outbound, cancelled, sent, stop, errors>>

SameTarget(m, n) == m.shape.chat = n.shape.chat /\ m.shape.stream = n.shape.stream

(* Mutant of Merges: any delta of the chat, whatever its stream.            *)
MergesAny(m, n) == m.shape.chat = n.shape.chat /\ n.kind \in {"delta", "end", "plain"}

(* The next message continues the stream; an end without text does not.     *)
Merges(m, n) == SameTarget(m, n) /\ n.kind \in {"delta", "end"}

(* Mutant of Coalesce: the message that ends the merge is not kept.         *)
CoalesceDropsBoundary ==
    /\ disp = "coalesce"
    /\ IF bus # <<>> /\ Merges(cur, Head(bus))
       THEN /\ cur' = [cur EXCEPT !.parts = @ \o Head(bus).parts, !.kind = Head(bus).kind]
            /\ bus' = Tail(bus)
            /\ disp' = IF Head(bus).kind = "end" THEN "slot" ELSE "coalesce"
       ELSE /\ bus' = IF bus = <<>> THEN bus ELSE Tail(bus)
            /\ disp' = "slot" /\ UNCHANGED cur
    /\ UNCHANGED <<setup, published, pending, fingerprints, suppressed, outbound, cancelled, sent, stop, errors>>

(* CoalesceStreamDeltas, one message of the bus: merged, or kept as the     *)
(* boundary.  Streamed text is not tested for repetition.                   *)
Coalesce ==
    /\ disp = "coalesce"
    /\ \/ /\ bus = <<>>
          /\ disp' = "slot" /\ UNCHANGED <<setup, bus, cur, pending>>
       \/ /\ bus # <<>> /\ Merges(cur, Head(bus))
          /\ cur' = [cur EXCEPT !.parts = @ \o Head(bus).parts, !.kind = Head(bus).kind]
          /\ disp' = IF Head(bus).kind = "end" THEN "slot" ELSE "coalesce"
          /\ bus' = Tail(bus) /\ UNCHANGED pending
       \/ /\ bus # <<>> /\ ~Merges(cur, Head(bus))
          /\ pending' = Append(pending, Head(bus))
          /\ bus' = Tail(bus)
          /\ disp' = "slot" /\ UNCHANGED cur
    /\ UNCHANGED <<setup, published, fingerprints, suppressed, outbound, cancelled, sent, stop, errors>>

(* Mutant of Remember: nothing leaves.                                      *)
RememberAll(store, key, text) ==
    Append(SelectSeq(store, LAMBDA e : e[1] # key), <<key, text>>)

(* fingerprintStore.remember: the key moves to the newest end, the oldest   *)
(* leave when there are too many.                                           *)
Remember(store, key, text) ==
    LET rest == SelectSeq(store, LAMBDA e : e[1] # key)
        all == Append(rest, <<key, text>>)
    IN  SubSeq(all, 1 + (IF Len(all) > FingerprintMax THEN Len(all) - FingerprintMax ELSE 0), Len(all))

(* Mutant of Repeated: the source message alone decides.                    *)
RepeatedSource(s) == s.origin # None /\ \E e \in Range(fingerprints) : e[1] = <<s.chat, s.origin>>

Repeated(s) == s.origin # None /\ <<<<s.chat, s.origin>>, s.text>> \in Range(fingerprints)

RememberIds(s) ==
    LET byOrigin == IF s.origin = None THEN fingerprints
                    ELSE Remember(fingerprints, <<s.chat, s.origin>>, s.text)
    IN  IF s.mid = None THEN byOrigin ELSE Remember(byOrigin, <<s.chat, s.mid>>, s.text)

(* ShouldSuppressOutbound: for a plain message with text; a message that is *)
(* not suppressed is remembered now, before it is sent.                     *)
Suppress ==
    /\ disp = "suppress"
    /\ LET s == cur.shape
       IN  \/ /\ cur.kind # "plain" \/ s.text = None
              /\ disp' = "slot" /\ UNCHANGED <<setup, cur, fingerprints, suppressed>>
           \/ /\ cur.kind = "plain" /\ s.text # None /\ ~Repeated(s)
              /\ fingerprints' = RememberIds(s)
              /\ disp' = "slot" /\ UNCHANGED <<setup, cur, suppressed>>
           \/ /\ cur.kind = "plain" /\ s.text # None /\ Repeated(s)
              /\ fingerprints' = Remember(fingerprints, <<s.chat, s.origin>>, s.text)
              /\ suppressed' = suppressed \cup Range(cur.parts)
              /\ disp' = "poll" /\ cur' = None
    /\ UNCHANGED <<setup, bus, published, pending, outbound, cancelled, sent, stop, errors>>

(* QueueOutbound takes an admission slot, or leaves when the dispatcher is  *)
(* cancelled first.                                                         *)
Admit ==
    /\ disp = "slot" /\ slots < PendingLimit
    /\ slots' = slots + 1
    /\ disp' = "check"
    /\ UNCHANGED <<setup, bus, published, pending, cur, fingerprints, suppressed, tasks, done, tails, sends, cancelled, sent, stop, errors>>

(* Mutant of Register: the task does not wait for the chat's last one.      *)
RegisterUnchained ==
    /\ disp = "check"
    /\ LET t == Head(cur.parts)
           chat == cur.shape.chat
       IN  /\ tasks' = [x \in DOMAIN tasks \cup {t} |-> IF x = t
                         THEN [msg |-> cur, prev |-> None, at |-> "ready", attempt |-> 0] ELSE tasks[x]]
           /\ tails' = [tails EXCEPT ![chat] = t]
    /\ disp' = "poll" /\ cur' = None
    /\ UNCHANGED <<setup, bus, published, pending, fingerprints, suppressed, done, slots, sends, cancelled, sent, stop, errors>>

(* The task is registered behind the last one of its chat.  The channel is  *)
(* dropped from the manager only by StopAll, after the dispatcher.          *)
Register ==
    /\ disp = "check"
    /\ LET t == Head(cur.parts)
           chat == cur.shape.chat
           prev == tails[chat]
       IN  /\ tasks' = [x \in DOMAIN tasks \cup {t} |-> IF x = t
                         THEN [msg |-> cur, prev |-> prev, attempt |-> 0,
                               at |-> IF prev = None THEN "ready" ELSE "waiting"]
                         ELSE tasks[x]]
           /\ tails' = [tails EXCEPT ![chat] = t]
    /\ disp' = "poll" /\ cur' = None
    /\ UNCHANGED <<setup, bus, published, pending, fingerprints, suppressed, done, slots, sends, cancelled, sent, stop, errors>>

(* Mutant of Leave: the wait for a slot ignores the cancellation.           *)
LeaveFromPoll ==
    /\ Stopping /\ disp = "poll"
    /\ disp' = "sweep"
    /\ cur' = None /\ pending' = <<>>
    /\ cancelled' = cancelled \cup DOMAIN tasks
    /\ UNCHANGED <<setup, bus, published, fingerprints, suppressed, outbound, sent, stop, errors>>

(* The loop sees its cancellation, between messages or waiting for a slot;  *)
(* what it holds is lost.  Then cancelOutbound cancels every task.  The     *)
(* exit on a closed bus is this one: the gateway closes the bus after       *)
(* StopAll, whose cancellation comes first.                                 *)
Leave ==
    /\ Stopping /\ disp \in {"poll", "slot"}
    /\ disp' = "sweep"
    /\ cur' = None /\ pending' = <<>>
    /\ cancelled' = cancelled \cup DOMAIN tasks
    /\ UNCHANGED <<setup, bus, published, fingerprints, suppressed, outbound, sent, stop, errors>>

Swept ==
    /\ disp = "sweep" /\ tasks = <<>>
    /\ disp' = "gone"
    /\ UNCHANGED <<setup, bus, published, pending, cur, fingerprints, suppressed, outbound, cancelled, sent, stop, errors>>

-----------------------------------------------------------------------------
(* A task.                                                                  *)

At(t, where) == t \in DOMAIN tasks /\ tasks[t].at = where

Move(t, where) == tasks' = [tasks EXCEPT ![t].at = where]

(* Mutant of Finish: the successor of a progress message is not told.       *)
FinishUntold(t) ==
    LET chat == tasks[t].msg.shape.chat
    IN  /\ tasks' = [x \in DOMAIN tasks \ {t} |-> tasks[x]]
        /\ tails' = [tails EXCEPT ![chat] = IF @ = t THEN None ELSE @]
        /\ slots' = slots - 1
        /\ sends' = IF tasks[t].at \in {"sending", "delay"} THEN sends - 1 ELSE sends
        /\ done' = IF tasks[t].msg.kind = "progress" THEN done ELSE done \cup {t}

(* Mutant of Finish: a task cancelled before it sends keeps its slot.       *)
FinishKeepsSlot(t) ==
    LET chat == tasks[t].msg.shape.chat
    IN  /\ tasks' = [x \in DOMAIN tasks \ {t} |-> tasks[x]]
        /\ tails' = [tails EXCEPT ![chat] = IF @ = t THEN None ELSE @]
        /\ slots' = IF t \in cancelled THEN slots ELSE slots - 1
        /\ sends' = IF tasks[t].at \in {"sending", "delay"} THEN sends - 1 ELSE sends
        /\ done' = done \cup {t}

(* The deferred functions: the send slot, the task, its tail, the admission *)
(* slot, and last the channel its successor waits for.                      *)
Finish(t) ==
    LET chat == tasks[t].msg.shape.chat
    IN  /\ tasks' = [x \in DOMAIN tasks \ {t} |-> tasks[x]]
        /\ tails' = [tails EXCEPT ![chat] = IF @ = t THEN None ELSE @]
        /\ slots' = slots - 1
        /\ sends' = IF tasks[t].at \in {"sending", "delay"} THEN sends - 1 ELSE sends
        /\ done' = done \cup {t}

Predecessor(t) ==
    /\ At(t, "waiting") /\ tasks[t].prev \in done
    /\ Move(t, "ready")
    /\ UNCHANGED <<setup, bus, published, dispatcher, done, tails, slots, sends, cancelled, sent, stop, errors>>

StartSend(t) ==
    /\ At(t, "ready") /\ sends < Concurrency
    /\ sends' = sends + 1
    /\ tasks' = [tasks EXCEPT ![t].at = "sending", ![t].attempt = 1]
    /\ UNCHANGED <<setup, bus, published, dispatcher, done, tails, slots, cancelled, sent, stop, errors>>

(* A task that waits, for its turn or between attempts, sees that it is     *)
(* cancelled.                                                               *)
GiveUp(t) ==
    /\ t \in cancelled /\ (At(t, "waiting") \/ At(t, "ready") \/ At(t, "delay"))
    /\ Finish(t)
    /\ UNCHANGED <<setup, bus, published, dispatcher, cancelled, sent, stop, errors>>

Receive(t) ==
    LET chat == tasks[t].msg.shape.chat
    IN  sent' = [sent EXCEPT ![chat] = @ \o tasks[t].msg.parts]

SendOnce(t) ==
    /\ At(t, "sending")
    /\ Receive(t)
    /\ Finish(t)
    /\ UNCHANGED <<setup, bus, published, dispatcher, cancelled, stop, errors>>

MaxAttempts == IF SendMaxRetries < 1 THEN 1 ELSE SendMaxRetries

(* The send returns an error, perhaps after the message went out.  A task   *)
(* that is cancelled, an error that is not worth a retry and the last       *)
(* attempt end it; else it waits and tries again.                           *)
SendFails(t) ==
    /\ At(t, "sending") /\ errors < MaxErrors
    /\ errors' = errors + 1
    /\ Receive(t) \/ UNCHANGED sent
    /\ \/ Finish(t)
       \/ /\ t \notin cancelled /\ tasks[t].attempt < MaxAttempts
          /\ Move(t, "delay")
          /\ UNCHANGED <<done, tails, slots, sends>>
    /\ UNCHANGED <<setup, bus, published, dispatcher, cancelled, stop>>

(* A send returns because its context is cancelled.                         *)
SendCancelled(t) ==
    /\ At(t, "sending") /\ t \in cancelled
    /\ Finish(t)
    /\ UNCHANGED <<setup, bus, published, dispatcher, cancelled, sent, stop, errors>>

Retry(t) ==
    /\ At(t, "delay")
    /\ tasks' = [tasks EXCEPT ![t].at = "sending", ![t].attempt = @ + 1]
    /\ UNCHANGED <<setup, bus, published, dispatcher, done, tails, slots, sends, cancelled, sent, stop, errors>>

-----------------------------------------------------------------------------
(* StopAll: the dispatcher is cancelled and waited for, then the channel is *)
(* stopped.                                                                 *)
StopAll ==
    /\ Stops /\ stop = "no"
    /\ stop' = "dispatcher"
    /\ UNCHANGED <<setup, bus, published, dispatcher, outbound, cancelled, sent, errors>>

(* Mutant of StopDispatcher: the channel is stopped beside the dispatcher.  *)
StopBeside ==
    /\ stop = "dispatcher"
    /\ stop' = "channel"
    /\ cancelled' = cancelled \cup DOMAIN tasks
    /\ UNCHANGED <<setup, bus, published, dispatcher, outbound, sent, errors>>

(* StopChannel begins: the tasks of the channel are cancelled.              *)
StopDispatcher ==
    /\ stop = "dispatcher" /\ disp = "gone"
    /\ stop' = "channel"
    /\ cancelled' = cancelled \cup DOMAIN tasks
    /\ UNCHANGED <<setup, bus, published, dispatcher, outbound, sent, errors>>

(* ... and when they are over the runtime stops.                            *)
StopChannel ==
    /\ stop = "channel" /\ DOMAIN tasks \cap cancelled = {}
    /\ stop' = "stopped"
    /\ UNCHANGED <<setup, bus, published, dispatcher, outbound, cancelled, sent, errors>>

-----------------------------------------------------------------------------
Dispatch == Take \/ Gates \/ Coalesce \/ Suppress \/ Admit \/ Register \/ Leave \/ Swept

Work(t) ==
    \/ Predecessor(t) \/ StartSend(t) \/ GiveUp(t)
    \/ SendOnce(t) \/ SendFails(t) \/ SendCancelled(t) \/ Retry(t)

(* The poll of the bus times out, or all is over.                           *)
Idle ==
    /\ \/ disp = "poll" /\ bus = <<>> /\ pending = <<>> /\ ~Stopping
       \/ stop = "stopped"
    /\ UNCHANGED vars

Next ==
    \/ \E s \in Shapes : Publish(s)
    \/ Dispatch
    \/ \E t \in Ids : Work(t)
    \/ StopAll \/ StopDispatcher \/ StopChannel
    \/ Idle

Spec == Init /\ [][Next]_vars

(* The goroutines are scheduled; a send returns, or hangs until it is       *)
(* cancelled.                                                               *)
Fairness ==
    /\ WF_vars(Dispatch)
    /\ \A t \in Ids :
          /\ WF_vars(Predecessor(t) \/ StartSend(t) \/ GiveUp(t) \/ SendCancelled(t) \/ Retry(t))
          /\ WF_vars(~setup.hangs /\ Work(t))
    /\ WF_vars(StopDispatcher \/ StopChannel)

FairSpec == Spec /\ Fairness

-----------------------------------------------------------------------------
(* Properties.                                                              *)

(* Until tasks are cancelled, the text a chat receives is in the order of   *)
(* the bus: through merged deltas, the dispatcher's buffer, tasks that run  *)
(* side by side, and retries, which may only repeat the message they retry. *)
ChatInOrder ==
    cancelled = {} => \A c \in Chats : \A i, j \in DOMAIN sent[c] :
        i < j /\ sent[c][i] > sent[c][j] =>
            \E k \in j .. Len(sent[c]) : k > i /\ sent[c][k] = sent[c][i]

(* A merged message holds text of one chat and one stream only, in order.   *)
MergeKeepsStream ==
    \A t \in DOMAIN tasks :
        LET m == tasks[t].msg
        IN  \A i \in DOMAIN m.parts :
                /\ published[m.parts[i]].chat = m.shape.chat
                /\ Len(m.parts) > 1 => published[m.parts[i]].stream = m.shape.stream
                /\ i > 1 => m.parts[i - 1] < m.parts[i]

(* A destination has one send at a time, retries included, so that a slow   *)
(* message is never overtaken by its successor; except between tasks that   *)
(* are both cancelled, where one that gave up waiting lets its successor    *)
(* pass a send that has not returned.                                       *)
OneSendPerChat ==
    \A t, u \in DOMAIN tasks :
        /\ ~({t, u} \subseteq cancelled)
        /\ tasks[t].at \in {"sending", "delay"} /\ tasks[u].at \in {"sending", "delay"}
        /\ tasks[t].msg.shape.chat = tasks[u].msg.shape.chat
        => t = u

(* Every admission slot in use is a registered task's, or the one the       *)
(* dispatcher has just taken; every send slot is a sending task's: no path  *)
(* out of a task leaks one or gives one back twice.                         *)
SlotsExact ==
    /\ slots = Cardinality(DOMAIN tasks) + (IF disp = "check" THEN 1 ELSE 0)
    /\ sends = Cardinality({t \in DOMAIN tasks : tasks[t].at \in {"sending", "delay"}})

(* When StopAll has stopped the channel, no task is left that could still   *)
(* send on it, and none comes.                                              *)
QuietAfterStop ==
    stop = "stopped" => tasks = <<>> /\ disp = "gone"

(* A message taken from the bus and not refused by a gate is delivered, or  *)
(* waits, or failed; the dispatcher loses none while it runs.               *)
NothingDropped ==
    stop = "no" => \A i \in 1 .. Len(published) :
        \/ published[i].kind = "progress" /\ ~ShowProgress
        \/ i \in suppressed
        \/ \E m \in Range(bus) \cup Range(pending) \cup ({cur} \ {None}) : i \in Range(m.parts)
        \/ \E t \in DOMAIN tasks : i \in Range(tasks[t].msg.parts)
        \/ i \in Range(sent[published[i].chat])
        \/ errors > 0

(* A suppressed message repeats one that was already sent for the same      *)
(* source message, as long as no send failed.                               *)
SuppressedWasSent == errors = 0 =>
    \A i \in suppressed : \E j \in 1 .. i - 1 :
        /\ published[j].chat = published[i].chat /\ published[j].text = published[i].text
        /\ j \in Range(sent[published[j].chat])
             \/ \E t \in DOMAIN tasks : j \in Range(tasks[t].msg.parts)

(* The replies remembered for suppression are bounded.                      *)
FingerprintsBounded == Len(fingerprints) <= FingerprintMax

(* StopAll returns: the dispatcher leaves from wherever it waits, and every *)
(* task sees its cancellation, a send that hangs among them.                *)
StopReturns == stop = "dispatcher" ~> stop = "stopped"

(* Where sends return: whatever is published is taken off the bus and       *)
(* worked off, however its sends fail.                                      *)
BusDrains == <>[](setup.hangs \/ Stops \/ (bus = <<>> /\ pending = <<>> /\ tasks = <<>>))

(* The bookkeeping of the dispatcher: types, one send at a time for a chat, *)
(* slots that are neither leaked nor given back twice, and nothing left     *)
(* that could send once StopAll has returned.                               *)
DispatchInv == TypeOK /\ OneSendPerChat /\ SlotsExact /\ QuietAfterStop

(* What happens to a message: it is merged with its own stream only, is     *)
(* dropped by none but a gate, suppressed only when it was sent before and  *)
(* is remembered, and shown in the order of the bus.                        *)
DeliveryInv ==
    ChatInOrder /\ MergeKeepsStream /\ NothingDropped /\ SuppressedWasSent /\ FingerprintsBounded

(* StopAll returns, and where nobody stops it the dispatcher works off what *)
(* is published.                                                            *)
DispatcherProgress == StopReturns /\ BusDrains
=============================================================================
