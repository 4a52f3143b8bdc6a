-------------------------------- MODULE Bus --------------------------------
(***************************************************************************)
(* The message bus between the channels and the agent core                 *)
(* (internal/bus/bus.go): two FIFO queues under one mutex, an optional     *)
(* capacity for each, and blocking consumers that sleep on a broadcast     *)
(* channel which every publish, and Close, closes and replaces.            *)
(*                                                                         *)
(* A critical section of b.mu is one action.  Between two critical         *)
(* sections a blocking consumer holds the wait channel it captured; all    *)
(* the code can tell about that channel is whether it has been closed,     *)
(* which woken records.                                                    *)
(***************************************************************************)
EXTENDS Integers, Sequences, FiniteSets

CONSTANTS
    Consumers,      \* goroutines that call ConsumeInbound or ConsumeOutbound
    Messages,       \* the messages producers publish, and retry when refused
    MaxInbound,     \* Options.MaxInbound, 0 for unbounded
    MaxOutbound,    \* Options.MaxOutbound, 0 for unbounded
    Subscribers,    \* the handlers of local events
    Publishers      \* goroutines that dispatch one local event each

ASSUME BusAssumption ==
    /\ IsFiniteSet(Consumers)
    /\ MaxInbound \in Nat
    /\ MaxOutbound \in Nat

Queues == {"inbound", "outbound"}

max == [q \in Queues |-> IF q = "inbound" THEN MaxInbound ELSE MaxOutbound]

VARIABLES
    queue,      \* b.inbound and b.outbound
    closed,     \* b.closed
    pc,         \* where each consumer is: outside, before the lock, asleep
    on,         \* the queue a consumer is consuming from
    woken,      \* the wait channel the consumer captured has been closed
    consumers,  \* b.consumers, the ConsumeInbound calls in flight
    outcome,    \* what its producer was last told about each message
    accepted,   \* history: the messages each queue accepted, in order
    consumed    \* history: the messages each queue handed out, in order

vars == <<queue, closed, pc, on, woken, consumers, outcome, accepted, consumed>>

TypeOK ==
    /\ queue \in [Queues -> Seq(Messages)]
    /\ closed \in BOOLEAN
    /\ pc \in [Consumers -> {"outside", "locking", "asleep"}]
    /\ on \in [Consumers -> Queues]
    /\ woken \in [Consumers -> BOOLEAN]
    /\ consumers \in Nat
    /\ outcome \in [Messages -> {"unsent", "refused", "queued"}]
    /\ accepted \in [Queues -> Seq(Messages)]
    /\ consumed \in [Queues -> Seq(Messages)]

Init ==
    /\ queue = [q \in Queues |-> <<>>]
    /\ closed = FALSE
    /\ pc = [c \in Consumers |-> "outside"]
    /\ on = [c \in Consumers |-> "inbound"]
    /\ woken = [c \in Consumers |-> FALSE]
    /\ consumers = 0
    /\ outcome = [m \in Messages |-> "unsent"]
    /\ accepted = [q \in Queues |-> <<>>]
    /\ consumed = [q \in Queues |-> <<>>]

-----------------------------------------------------------------------------
(* Mutant of broadcastLocked: a buffered signal shared by all the waiters,  *)
(* which wakes one of them whatever it is waiting for.                      *)
SignalOne ==
    LET sleepers == {c \in Consumers : pc[c] = "asleep" /\ ~woken[c]}
    IN  IF sleepers = {} THEN woken' = woken
                         ELSE \E c \in sleepers : woken' = [woken EXCEPT ![c] = TRUE]

(* broadcastLocked closes the current wait channel, which every consumer    *)
(* asleep at this point has captured, and installs a fresh one.             *)
broadcastLocked == woken' = [c \in Consumers |-> woken[c] \/ pc[c] = "asleep"]

(* Mutant of Full: off by one.                                              *)
FullOffByOne(q) == max[q] > 0 /\ Len(queue[q]) > max[q]

Full(q) == max[q] > 0 /\ Len(queue[q]) >= max[q]

(* Mutant of Publish: append and wake first, report the context afterwards. *)
PublishThenReport(q, m, ctxDone) ==
    /\ outcome[m] # "queued"
    /\ IF closed \/ Full(q)
         THEN /\ outcome' = [outcome EXCEPT ![m] = "refused"]
              /\ UNCHANGED <<queue, woken, accepted>>
         ELSE /\ outcome' = [outcome EXCEPT ![m] = IF ctxDone THEN "refused" ELSE "queued"]
              /\ queue' = [queue EXCEPT ![q] = Append(@, m)]
              /\ accepted' = [accepted EXCEPT ![q] = Append(@, m)]
              /\ broadcastLocked
    /\ UNCHANGED <<closed, pc, on, consumers, consumed>>

(* PublishInbound and PublishOutbound: closed, then the context, then the   *)
(* capacity, and only then the append.  A producer may retry a message it   *)
(* was told had been refused.                                               *)
Publish(q, m, ctxDone) ==
    /\ outcome[m] # "queued"
    /\ IF closed \/ ctxDone \/ Full(q)
         THEN /\ outcome' = [outcome EXCEPT ![m] = "refused"]
              /\ UNCHANGED <<queue, woken, accepted>>
         ELSE /\ outcome' = [outcome EXCEPT ![m] = "queued"]
              /\ queue' = [queue EXCEPT ![q] = Append(@, m)]
              /\ accepted' = [accepted EXCEPT ![q] = Append(@, m)]
              /\ broadcastLocked
    /\ UNCHANGED <<closed, pc, on, consumers, consumed>>

(* A goroutine enters ConsumeInbound or ConsumeOutbound; only the inbound   *)
(* path counts itself in consumers.                                         *)
EnterConsume(c, q) ==
    /\ pc[c] = "outside"
    /\ pc' = [pc EXCEPT ![c] = "locking"]
    /\ on' = [on EXCEPT ![c] = q]
    /\ consumers' = IF q = "inbound" THEN consumers + 1 ELSE consumers
    /\ UNCHANGED <<queue, closed, woken, outcome, accepted, consumed>>

Pop(q) ==
    /\ queue[q] # <<>>
    /\ queue' = [queue EXCEPT ![q] = Tail(@)]
    /\ consumed' = [consumed EXCEPT ![q] = Append(@, Head(queue[q]))]

(* Mutant of Return: the deferred decrement on the outbound path as well.   *)
ReturnAlwaysDecrements(c) ==
    /\ pc' = [pc EXCEPT ![c] = "outside"]
    /\ consumers' = consumers - 1

(* Every return from a consume runs the deferred consumers.Add(-1).         *)
Return(c) ==
    /\ pc' = [pc EXCEPT ![c] = "outside"]
    /\ consumers' = IF on[c] = "inbound" THEN consumers - 1 ELSE consumers

(* The critical section of a consume: take the head, else report a closed   *)
(* bus, else capture the current wait channel and go to sleep.  A closed    *)
(* bus is still drained: the queue is tested before closed.                 *)
ConsumeTakes(c) ==
    /\ pc[c] = "locking"
    /\ Pop(on[c])
    /\ Return(c)
    /\ UNCHANGED <<closed, on, woken, outcome, accepted>>

ConsumeReportsClosed(c) ==
    /\ pc[c] = "locking"
    /\ queue[on[c]] = <<>>
    /\ closed
    /\ Return(c)
    /\ UNCHANGED <<queue, closed, on, woken, outcome, accepted, consumed>>

ConsumeSleeps(c) ==
    /\ pc[c] = "locking"
    /\ queue[on[c]] = <<>>
    /\ ~closed
    /\ pc' = [pc EXCEPT ![c] = "asleep"]
    /\ woken' = [woken EXCEPT ![c] = FALSE]
    /\ UNCHANGED <<queue, closed, on, consumers, outcome, accepted, consumed>>

(* Mutant of ConsumeCancelled: the early return skips the decrement.        *)
ConsumeCancelledLeaks(c) ==
    /\ pc[c] = "asleep"
    /\ pc' = [pc EXCEPT ![c] = "outside"]
    /\ UNCHANGED <<queue, closed, on, woken, consumers, outcome, accepted, consumed>>

(* The two arms of the select: the captured channel is closed, or the       *)
(* consumer's context is done.  When both are ready Go picks either.        *)
ConsumeWakes(c) ==
    /\ pc[c] = "asleep"
    /\ woken[c]
    /\ pc' = [pc EXCEPT ![c] = "locking"]
    /\ UNCHANGED <<queue, closed, on, woken, consumers, outcome, accepted, consumed>>

ConsumeCancelled(c) ==
    /\ pc[c] = "asleep"
    /\ Return(c)
    /\ UNCHANGED <<queue, closed, on, woken, outcome, accepted, consumed>>

(* Mutant of TryConsumeOutbound: returns the head and leaves it queued.     *)
TryConsumePeeks ==
    /\ queue["outbound"] # <<>>
    /\ consumed' = [consumed EXCEPT !["outbound"] = Append(@, Head(queue["outbound"]))]
    /\ UNCHANGED <<queue, closed, pc, on, woken, consumers, outcome, accepted>>

(* TryConsumeOutbound, from any goroutine, looks at the queue alone.        *)
TryConsumeOutbound ==
    /\ Pop("outbound")
    /\ UNCHANGED <<closed, pc, on, woken, consumers, outcome, accepted>>

Close ==
    /\ ~closed
    /\ closed' = TRUE
    /\ broadcastLocked
    /\ UNCHANGED <<queue, pc, on, consumers, outcome, accepted, consumed>>

-----------------------------------------------------------------------------
Next ==
    \/ \E q \in Queues, m \in Messages, ctxDone \in BOOLEAN : Publish(q, m, ctxDone)
    \/ \E c \in Consumers, q \in Queues : EnterConsume(c, q)
    \/ \E c \in Consumers :
          \/ ConsumeTakes(c)
          \/ ConsumeReportsClosed(c)
          \/ ConsumeSleeps(c)
          \/ ConsumeWakes(c)
          \/ ConsumeCancelled(c)
    \/ TryConsumeOutbound
    \/ Close

Spec == Init /\ [][Next]_vars

ConsumerStep(c) == ConsumeTakes(c) \/ ConsumeReportsClosed(c) \/ ConsumeSleeps(c) \/ ConsumeWakes(c)

(* A runnable goroutine is eventually scheduled and mutexes are starvation  *)
(* free, so a consumer that can leave the lock or the select does.  Nothing *)
(* is assumed of producers, of contexts or of Close.                        *)
Fairness ==
    \A c \in Consumers : WF_vars(ConsumerStep(c))

FairSpec == Spec /\ Fairness

-----------------------------------------------------------------------------
(* No missed wakeup (bus.go:61-63): a consumer sleeping on a wait channel   *)
(* that is still open has nothing to take and the bus is not closed, so no  *)
(* publish or Close can have slipped in between its check and its sleep.    *)
NoMissedWakeup ==
    \A c \in Consumers :
        pc[c] = "asleep" /\ ~woken[c] => queue[on[c]] = <<>> /\ ~closed

(* Nothing is lost, duplicated or reordered inside a queue: what was        *)
(* accepted is what was handed out followed by what is pending, through     *)
(* blocking and non-blocking consumers and across Close.                    *)
FifoNoLoss == \A q \in Queues : accepted[q] = consumed[q] \o queue[q]

Occurrences(s, m) == Cardinality({i \in DOMAIN s : s[i] = m})

(* bus.go:126-137: a publish reported as failed was not queued, so that a   *)
(* producer which retries every failure still delivers a message at most    *)
(* once over both queues, and one told "queued" delivers it exactly once.   *)
RetryDeliversOnce ==
    \A m \in Messages :
        Occurrences(accepted["inbound"], m) + Occurrences(accepted["outbound"], m)
            = IF outcome[m] = "queued" THEN 1 ELSE 0

(* A bounded queue never holds more than its capacity.                      *)
CapacityRespected == \A q \in Queues : max[q] > 0 => Len(queue[q]) <= max[q]

(* The goroutines inside ConsumeInbound.                                    *)
InFlight == {c \in Consumers : pc[c] # "outside" /\ on[c] = "inbound"}

(* bus.go:161-166 and ConsumerCount: the counter is the number of inbound   *)
(* consumes in flight whichever way each of them returns.                   *)
ConsumerCountExact == consumers = Cardinality(InFlight)

(* bus.go:298-300 says of TryConsumeOutbound that "ok is false when the     *)
(* queue is empty OR the bus is closed": no message is taken from a closed  *)
(* bus by it.  The code tests the queue only.                               *)
TryConsumeFailsWhenClosed == [][~(closed /\ TryConsumeOutbound)]_vars

(* What the queues and the counter keep at every moment: their types and    *)
(* capacities, the count of consumers in flight, and one delivery for each  *)
(* publish that was reported as queued.                                     *)
BusInv == TypeOK /\ CapacityRespected /\ ConsumerCountExact /\ RetryDeliversOnce

(* Close unblocks all waiters (bus.go:389) and no message waits behind a    *)
(* consumer that sleeps: a consumer inside a consume comes back, or waits   *)
(* on an open queue that the others have emptied.                           *)
ConsumersServed ==
    \A c \in Consumers : []<>(pc[c] = "outside" \/ (queue[on[c]] = <<>> /\ ~closed))

-----------------------------------------------------------------------------
(***************************************************************************)
(* The local events of the same bus: handlers in the order of their        *)
(* registration, called by the publishing goroutine.  Publish copies the   *)
(* list under the lock and tests each handler's flag as its turn comes,    *)
(* while others subscribe, unsubscribe and close.  These steps share       *)
(* nothing with the queues but the lock.                                   *)
(***************************************************************************)
VARIABLES
    handlers,       \* b.handlers
    subscription,   \* new, active (its flag is set) or ended
    dispatch,       \* per publisher: where it is and what of its copy it has still to visit
    registered,     \* history: the list when the publisher took its copy
    calls,          \* history: the handlers each publisher called, in order
    endedFirst      \* history: handlers that ended before the publisher read their flag

eventVars == <<handlers, subscription, dispatch, registered, calls, endedFirst>>

EventsInit ==
    /\ handlers = <<>>
    /\ subscription = [s \in Subscribers |-> "new"]
    /\ dispatch = [p \in Publishers |-> [at |-> "idle", copy |-> <<>>]]
    /\ registered = [p \in Publishers |-> <<>>]
    /\ calls = [p \in Publishers |-> <<>>]
    /\ endedFirst = [p \in Publishers |-> {}]

In(s, seq) == \E i \in DOMAIN seq : seq[i] = s
Without(seq, s) == SelectSeq(seq, LAMBDA h : h # s)

(* Every registration is a subscription of its own.  A closed bus still     *)
(* takes one.                                                               *)
Subscribe(s) ==
    /\ subscription[s] = "new"
    /\ handlers' = Append(handlers, s)
    /\ subscription' = [subscription EXCEPT ![s] = "active"]
    /\ UNCHANGED <<dispatch, registered, calls, endedFirst>>

BeingCalled(p, s) == dispatch[p].at = "calling" /\ Head(dispatch[p].copy) = s

EndOf(s) ==
    /\ subscription[s] = "active"
    /\ subscription' = [subscription EXCEPT ![s] = "ended"]
    /\ handlers' = Without(handlers, s)
    /\ endedFirst' = [p \in Publishers |->
         IF BeingCalled(p, s) \/ In(s, calls[p]) THEN endedFirst[p] ELSE endedFirst[p] \cup {s}]
    /\ UNCHANGED <<registered, calls>>

(* Mutant of Unsubscribe: Publish keeps b.handlers itself instead of a      *)
(* copy, so removing an element in place shifts what is still to visit and  *)
(* leaves the last element there twice.                                     *)
UnsubscribeShifts(s) ==
    /\ EndOf(s)
    /\ dispatch' = [p \in Publishers |->
         LET c == dispatch[p].copy
         IN  IF In(s, c) THEN [dispatch[p] EXCEPT !.copy = Append(Without(c, s), c[Len(c)])] ELSE dispatch[p]]

(* The function Subscribe returned, which acts once: the flag is cleared    *)
(* and the handler leaves the list under the lock.                          *)
Unsubscribe(s) == EndOf(s) /\ UNCHANGED dispatch

PublishEvent(p) ==
    /\ dispatch[p].at = "idle"
    /\ dispatch' = [dispatch EXCEPT ![p] = [at |-> "visiting", copy |-> handlers]]
    /\ registered' = [registered EXCEPT ![p] = handlers]
    /\ UNCHANGED <<handlers, subscription, calls, endedFirst>>

(* Mutant of Visit: the flag is not looked at.                              *)
VisitAll(p) ==
    LET c == dispatch[p].copy
    IN  /\ dispatch[p].at = "visiting" /\ c # <<>>
        /\ dispatch' = [dispatch EXCEPT ![p] = [at |-> "calling", copy |-> c]]
        /\ UNCHANGED <<handlers, subscription, registered, calls, endedFirst>>

(* The flag of the next handler, read when its turn comes and without the   *)
(* lock; the call follows as a step of its own.                             *)
Visit(p) ==
    LET c == dispatch[p].copy
    IN  /\ dispatch[p].at = "visiting" /\ c # <<>>
        /\ dispatch' = [dispatch EXCEPT ![p] =
             IF subscription[Head(c)] = "active" THEN [at |-> "calling", copy |-> c] ELSE [at |-> "visiting", copy |-> Tail(c)]]
        /\ UNCHANGED <<handlers, subscription, registered, calls, endedFirst>>

(* The handler runs; one that panics is recovered and the loop goes on.     *)
CallHandler(p) ==
    /\ dispatch[p].at = "calling"
    /\ calls' = [calls EXCEPT ![p] = Append(@, Head(dispatch[p].copy))]
    /\ dispatch' = [dispatch EXCEPT ![p] = [at |-> "visiting", copy |-> Tail(@.copy)]]
    /\ UNCHANGED <<handlers, subscription, registered, endedFirst>>

Dispatched(p) ==
    /\ dispatch[p].at = "visiting" /\ dispatch[p].copy = <<>>
    /\ dispatch' = [dispatch EXCEPT ![p].at = "done"]
    /\ UNCHANGED <<handlers, subscription, registered, calls, endedFirst>>

(* What Close does to the subscribers: the list is dropped, their flags are *)
(* left set.                                                                *)
CloseHandlers ==
    /\ handlers # <<>>
    /\ handlers' = <<>>
    /\ UNCHANGED <<subscription, dispatch, registered, calls, endedFirst>>

EventsNext ==
    \/ \E s \in Subscribers : Subscribe(s) \/ Unsubscribe(s)
    \/ \E p \in Publishers : PublishEvent(p) \/ Visit(p) \/ CallHandler(p) \/ Dispatched(p)
    \/ CloseHandlers

(* bus.go:348-362: an event reaches the handlers registered when it was     *)
(* published, in that order and each at most once, whoever unsubscribes or  *)
(* closes meanwhile; none whose subscription ended before its turn is       *)
(* called, and none that is still subscribed is passed over.                *)
EventsInv ==
    \A p \in Publishers :
        /\ calls[p] = SelectSeq(registered[p], LAMBDA h : In(h, calls[p]))
        /\ \A s \in endedFirst[p] : ~In(s, calls[p])
        /\ dispatch[p].at = "done" =>
             \A s \in Subscribers : In(s, registered[p]) /\ subscription[s] = "active" => In(s, calls[p])
=============================================================================
