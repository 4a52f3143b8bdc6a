----------------------------- MODULE BusProofs -----------------------------
(***************************************************************************)
(* Proofs about the message bus, for any set of messages, any finite set   *)
(* of consumers and any capacities.                                        *)
(***************************************************************************)
EXTENDS Bus, FiniteSetTheorems, SequenceTheorems, TLAPS

(* What one step has to preserve: the counter is a natural number because   *)
(* it is exact, and the queue bound needs the types of the queues.          *)
Inv ==
    /\ TypeOK
    /\ NoMissedWakeup
    /\ FifoNoLoss
    /\ CapacityRespected
    /\ ConsumerCountExact

-----------------------------------------------------------------------------
(* Appending to the pending part of a queue appends to the whole of it.     *)
LEMMA ConcatAppend ==
    ASSUME NEW s \in Seq(Messages), NEW t \in Seq(Messages), NEW e \in Messages
    PROVE  Append(s \o t, e) = s \o Append(t, e)
  OBVIOUS

(* Moving the head of the pending part to the consumed part changes nothing *)
(* in the whole.                                                            *)
LEMMA ConcatMoveHead ==
    ASSUME NEW S, NEW s \in Seq(S), NEW t \in Seq(S), t # <<>>
    PROVE  s \o t = Append(s, Head(t)) \o Tail(t)
<1>1. /\ Head(t) \in S
      /\ Tail(t) \in Seq(S)
      /\ Len(Tail(t)) = Len(t) - 1
      /\ \A i \in 1 .. Len(Tail(t)) : Tail(t)[i] = t[i + 1]
      /\ Len(t) \in Nat \ {0}
      /\ Len(s) \in Nat
      /\ Head(t) = t[1]
  BY HeadTailProperties, EmptySeq, LenProperties
<1> DEFINE a == Append(s, Head(t))
<1>2. /\ a \in Seq(S)
      /\ Len(a) = Len(s) + 1
      /\ \A i \in 1 .. Len(s) : a[i] = s[i]
      /\ a[Len(s) + 1] = Head(t)
  BY <1>1, AppendProperties
<1>3. /\ s \o t \in Seq(S)
      /\ Len(s \o t) = Len(s) + Len(t)
      /\ \A i \in 1 .. Len(s) + Len(t) :
            (s \o t)[i] = IF i <= Len(s) THEN s[i] ELSE t[i - Len(s)]
  BY ConcatProperties, Zenon
<1> HIDE DEF a
<1>4. /\ a \o Tail(t) \in Seq(S)
      /\ Len(a \o Tail(t)) = Len(a) + Len(Tail(t))
      /\ \A i \in 1 .. Len(a) + Len(Tail(t)) :
            (a \o Tail(t))[i] = IF i <= Len(a) THEN a[i] ELSE Tail(t)[i - Len(a)]
  BY <1>1, <1>2, ConcatProperties, Zenon
<1>5. Len(s \o t) = Len(a \o Tail(t))
  BY <1>1, <1>2, <1>3, <1>4
<1>6. ASSUME NEW i \in 1 .. Len(s \o t)
      PROVE  (s \o t)[i] = (a \o Tail(t))[i]
  <2>1. CASE i <= Len(s)
    BY <2>1, <1>1, <1>2, <1>3, <1>4
  <2>2. CASE i = Len(s) + 1
    BY <2>2, <1>1, <1>2, <1>3, <1>4
  <2>3. CASE i > Len(s) + 1
    BY <2>3, <1>1, <1>2, <1>3, <1>4
  <2>4. i \in Int /\ Len(s) \in Int
    BY <1>1
  <2>5. i <= Len(s) \/ i = Len(s) + 1 \/ i > Len(s) + 1
    BY <2>4
  <2> QED
    BY <2>1, <2>2, <2>3, <2>5, Zenon
<1> QED
  BY <1>3, <1>4, <1>5, <1>6, SeqEqual, Zenon DEF a

(* An accepted message occurs once more in the history of its queue, and    *)
(* every other message as often as before.                                  *)
LEMMA OccurrencesAppend ==
    ASSUME NEW s \in Seq(Messages), NEW e \in Messages, NEW m \in Messages
    PROVE  /\ Occurrences(s, m) \in Nat
           /\ Occurrences(Append(s, e), m) = Occurrences(s, m) + (IF e = m THEN 1 ELSE 0)
<1> DEFINE At == {i \in DOMAIN s : s[i] = m}
           a == Append(s, e)
           AtAfter == {i \in DOMAIN a : a[i] = m}
<1>1. /\ Len(s) \in Nat
      /\ DOMAIN s = 1 .. Len(s)
  BY LenProperties, Zenon
<1>2. /\ DOMAIN a = 1 .. Len(s) + 1
      /\ \A i \in 1 .. Len(s) : a[i] = s[i]
      /\ a[Len(s) + 1] = e
  <2>1. a \in Seq(Messages) /\ Len(a) = Len(s) + 1
    BY AppendProperties, Zenon
  <2>2. DOMAIN a = 1 .. Len(a)
    BY <2>1, LenProperties, Zenon
  <2> QED
    BY <2>1, <2>2, AppendProperties
<1>3. IsFiniteSet(At)
  <2>1. IsFiniteSet(1 .. Len(s))
    BY <1>1, FS_Interval
  <2>2. At \subseteq 1 .. Len(s)
    BY <1>1, Zenon
  <2> QED
    BY <2>1, <2>2, FS_Subset, Zenon
<1>4. Cardinality(At) \in Nat
  BY <1>3, FS_CardinalityType, Zenon
<1>5. /\ Occurrences(s, m) = Cardinality(At)
      /\ Occurrences(Append(s, e), m) = Cardinality(AtAfter)
  BY Zenon DEF Occurrences
<1> HIDE DEF a
<1>6. CASE e = m
  <2>1. AtAfter = At \cup {Len(s) + 1}
    BY <1>1, <1>2, <1>6
  <2>2. Len(s) + 1 \notin At
    BY <1>1
  <2>3. Cardinality(At \cup {Len(s) + 1}) = Cardinality(At) + 1
    BY <1>3, <2>2, FS_AddElement, Zenon
  <2> QED
    BY <1>5, <1>4, <1>6, <2>1, <2>3, Zenon
<1>7. CASE e # m
  <2>1. AtAfter = At
    BY <1>1, <1>2, <1>7
  <2> QED
    <3> HIDE DEF At, AtAfter
    <3> QED
      BY <1>5, <1>4, <1>7, <2>1
<1> QED
  BY <1>6, <1>7, Zenon

-----------------------------------------------------------------------------
(* A new bus (New) satisfies the invariant.                                 *)
LEMMA InitInv == Init => Inv
<1> SUFFICES ASSUME Init PROVE Inv
  BY Zenon
<1> USE DEF Init
<1>1. TypeOK
  BY EmptySeq, Zenon DEF TypeOK, Queues
<1>2. NoMissedWakeup
  BY Zenon DEF NoMissedWakeup
<1>3. FifoNoLoss
  BY ConcatEmptySeq, EmptySeq, Zenon DEF FifoNoLoss
<1>4. CapacityRespected
  BY BusAssumption DEF CapacityRespected, max
<1>5. ConsumerCountExact
  <2>1. InFlight = {}
    BY Zenon DEF InFlight
  <2> QED
    BY <2>1, FS_EmptySet, Zenon DEF ConsumerCountExact
<1> QED
  BY <1>1, <1>2, <1>3, <1>4, <1>5, Zenon DEF Inv

(* A consumer that enters or leaves moves the counter and the set together. *)
LEMMA Enters ==
    ASSUME Inv, NEW c \in Consumers, NEW q \in Queues, EnterConsume(c, q)
    PROVE  ConsumerCountExact'
<1> USE DEF Inv, TypeOK
<1>1. IsFiniteSet(InFlight)
  BY BusAssumption, FS_Subset, Zenon DEF InFlight
<1>2. c \notin InFlight
  BY Zenon DEF EnterConsume, InFlight
<1>3. CASE q = "inbound"
  <2>1. InFlight' = InFlight \cup {c}
    BY <1>3, Zenon DEF EnterConsume, InFlight
  <2> QED
    BY <1>1, <1>2, <1>3, <2>1, FS_AddElement, Zenon DEF EnterConsume, ConsumerCountExact
<1>4. CASE q # "inbound"
  <2>1. InFlight' = InFlight
    BY <1>4, <1>2, Zenon DEF EnterConsume, InFlight
  <2> QED
    BY <1>4, <2>1, Zenon DEF EnterConsume, ConsumerCountExact
<1> QED
  BY <1>3, <1>4, Zenon

(* The same on every return path, where the decrement is deferred.          *)
LEMMA Leaves ==
    ASSUME Inv, NEW c \in Consumers, pc[c] # "outside", Return(c), UNCHANGED on
    PROVE  ConsumerCountExact' /\ consumers' \in Nat
<1> USE DEF Inv, TypeOK
<1>1. IsFiniteSet(InFlight)
  BY BusAssumption, FS_Subset, Zenon DEF InFlight
<1>2. CASE on[c] = "inbound"
  <2>1. c \in InFlight /\ InFlight' = InFlight \ {c}
    BY <1>2, Zenon DEF Return, InFlight
  <2>2. Cardinality(InFlight \ {c}) = Cardinality(InFlight) - 1
    BY <1>1, <2>1, FS_RemoveElement, Zenon
  <2>3. Cardinality(InFlight \ {c}) \in Nat
    BY <1>1, FS_RemoveElement, FS_CardinalityType, Zenon
  <2> QED
    BY <1>2, <2>1, <2>2, <2>3, Zenon DEF Return, ConsumerCountExact
<1>3. CASE on[c] # "inbound"
  <2>1. InFlight' = InFlight
    BY <1>3, Zenon DEF Return, InFlight
  <2> QED
    BY <1>3, <2>1, Zenon DEF Return, ConsumerCountExact
<1> QED
  BY <1>2, <1>3, Zenon

(* Every other step leaves the counter and the set alone.                   *)
LEMMA NeitherEntersNorLeaves ==
    ASSUME ConsumerCountExact, consumers' = consumers, InFlight' = InFlight
    PROVE  ConsumerCountExact'
  BY Zenon DEF ConsumerCountExact

(* Pop keeps the history, the bound and the types.                          *)
LEMMA PopKeeps ==
    ASSUME Inv, NEW q \in Queues, Pop(q), UNCHANGED accepted
    PROVE  /\ queue' \in [Queues -> Seq(Messages)]
           /\ consumed' \in [Queues -> Seq(Messages)]
           /\ FifoNoLoss'
           /\ CapacityRespected'
           /\ \A r \in Queues : queue[r] = <<>> => queue'[r] = <<>>
<1> USE DEF Inv, TypeOK, Pop
<1>1. /\ queue[q] \in Seq(Messages) /\ queue[q] # <<>>
      /\ consumed[q] \in Seq(Messages)
  BY Zenon
<1>2. /\ Head(queue[q]) \in Messages
      /\ Tail(queue[q]) \in Seq(Messages)
      /\ Len(Tail(queue[q])) = Len(queue[q]) - 1
      /\ Len(queue[q]) \in Nat
  BY <1>1, HeadTailProperties, LenProperties, Zenon
<1>3. Append(consumed[q], Head(queue[q])) \in Seq(Messages)
  BY <1>1, <1>2, AppendProperties, Zenon
<1>4. /\ queue' \in [Queues -> Seq(Messages)]
      /\ consumed' \in [Queues -> Seq(Messages)]
  BY <1>2, <1>3, Zenon
<1>5. FifoNoLoss'
  <2> SUFFICES ASSUME NEW r \in Queues
               PROVE  accepted'[r] = consumed'[r] \o queue'[r]
    BY Zenon DEF FifoNoLoss
  <2>1. CASE r = q
    <3>1. consumed[q] \o queue[q] = Append(consumed[q], Head(queue[q])) \o Tail(queue[q])
      BY <1>1, ConcatMoveHead, Zenon
    <3>2. consumed'[q] = Append(consumed[q], Head(queue[q])) /\ queue'[q] = Tail(queue[q])
      BY Zenon
    <3>3. accepted'[q] = consumed[q] \o queue[q]
      BY Zenon DEF FifoNoLoss
    <3> QED
      BY <2>1, <3>1, <3>2, <3>3, Zenon
  <2>2. CASE r # q
    BY <2>2, Zenon DEF FifoNoLoss
  <2> QED
    BY <2>1, <2>2, Zenon
<1>6. CapacityRespected'
  <2> SUFFICES ASSUME NEW r \in Queues, max[r] > 0
               PROVE  Len(queue'[r]) <= max[r]
    BY Zenon DEF CapacityRespected, max
  <2>1. max[r] \in Nat
    BY BusAssumption, Zenon DEF max
  <2>2. CASE r = q
    BY <2>1, <2>2, <1>2 DEF CapacityRespected
  <2>3. CASE r # q
    BY <2>3, Zenon DEF CapacityRespected
  <2> QED
    BY <2>2, <2>3, Zenon
<1>7. \A r \in Queues : queue[r] = <<>> => queue'[r] = <<>>
  BY Zenon
<1> QED
  BY <1>4, <1>5, <1>6, <1>7, Zenon

-----------------------------------------------------------------------------
(* Every critical section of the bus preserves the invariant.               *)
LEMMA NextInv == Inv /\ [Next]_vars => Inv'
<1> SUFFICES ASSUME Inv, [Next]_vars PROVE Inv'
  BY Zenon
<1> USE DEF Inv
<1>1. ASSUME NEW q \in Queues, NEW m \in Messages, NEW ctxDone \in BOOLEAN,
             Publish(q, m, ctxDone)
      PROVE  Inv'
  <2> USE DEF TypeOK
  <2>1. InFlight' = InFlight
    BY <1>1, Zenon DEF Publish, InFlight
  <2>2. ConsumerCountExact'
    BY <1>1, <2>1, NeitherEntersNorLeaves, Zenon DEF Publish
  <2>3. CASE closed \/ ctxDone \/ Full(q)
    <3>1. TypeOK'
      BY <1>1, <2>3, Zenon DEF Publish
    <3>2. NoMissedWakeup' /\ FifoNoLoss' /\ CapacityRespected'
      BY <1>1, <2>3, Zenon DEF Publish, NoMissedWakeup, FifoNoLoss, CapacityRespected
    <3> QED
      BY <2>2, <3>1, <3>2, Zenon
  <2>4. CASE ~(closed \/ ctxDone \/ Full(q))
    <3>1. /\ queue' = [queue EXCEPT ![q] = Append(@, m)]
          /\ accepted' = [accepted EXCEPT ![q] = Append(@, m)]
          /\ outcome' = [outcome EXCEPT ![m] = "queued"]
          /\ woken' = [c \in Consumers |-> woken[c] \/ pc[c] = "asleep"]
          /\ UNCHANGED <<closed, pc, on, consumers, consumed>>
      BY <1>1, <2>4, Zenon DEF Publish, broadcastLocked
    <3>2. /\ Append(queue[q], m) \in Seq(Messages)
          /\ Len(Append(queue[q], m)) = Len(queue[q]) + 1
          /\ Append(accepted[q], m) \in Seq(Messages)
          /\ Len(queue[q]) \in Nat
      BY AppendProperties, LenProperties
    <3>3. TypeOK'
      BY <3>1, <3>2, Zenon
    <3>4. NoMissedWakeup'
      BY <3>1, Zenon DEF NoMissedWakeup
    <3>5. FifoNoLoss'
      <4> SUFFICES ASSUME NEW r \in Queues
                   PROVE  accepted'[r] = consumed'[r] \o queue'[r]
        BY Zenon DEF FifoNoLoss
      <4>1. CASE r = q
        <5>0. consumed[q] \in Seq(Messages) /\ queue[q] \in Seq(Messages)
          BY Zenon
        <5>1. Append(consumed[q] \o queue[q], m) = consumed[q] \o Append(queue[q], m)
          BY <5>0, ConcatAppend, Zenon
        <5> QED
          BY <4>1, <5>0, <5>1, <3>1, Zenon DEF FifoNoLoss
      <4>2. CASE r # q
        BY <4>2, <3>1, Zenon DEF FifoNoLoss
      <4> QED
        BY <4>1, <4>2, Zenon
    <3>6. CapacityRespected'
      <4> SUFFICES ASSUME NEW r \in Queues, max[r] > 0
                   PROVE  Len(queue'[r]) <= max[r]
        BY Zenon DEF CapacityRespected, max
      <4>1. max[r] \in Nat
        BY BusAssumption, Zenon DEF max
      <4>2. CASE r = q
        BY <4>1, <4>2, <2>4, <3>1, <3>2 DEF Full
      <4>3. CASE r # q
        BY <4>3, <3>1, Zenon DEF CapacityRespected
      <4> QED
        BY <4>2, <4>3, Zenon
    <3> QED
      BY <2>2, <3>3, <3>4, <3>5, <3>6, Zenon
  <2> QED
    BY <2>3, <2>4, Zenon
<1>2. ASSUME NEW c \in Consumers, NEW q \in Queues, EnterConsume(c, q)
      PROVE  Inv'
  <2>1. ConsumerCountExact'
    BY <1>2, Enters, Zenon
  <2>2. TypeOK'
    BY <1>2 DEF EnterConsume, TypeOK
  <2>3. NoMissedWakeup'
    BY <1>2, Zenon DEF EnterConsume, TypeOK, NoMissedWakeup
  <2>4. FifoNoLoss' /\ CapacityRespected'
    BY <1>2, Zenon DEF EnterConsume, FifoNoLoss, CapacityRespected
  <2> QED
    BY <2>1, <2>2, <2>3, <2>4, Zenon
<1>3. ASSUME NEW c \in Consumers, ConsumeTakes(c)
      PROVE  Inv'
  <2>1. on[c] \in Queues /\ Pop(on[c]) /\ UNCHANGED accepted
    BY <1>3, Zenon DEF ConsumeTakes, TypeOK
  <2>2. /\ queue' \in [Queues -> Seq(Messages)]
        /\ consumed' \in [Queues -> Seq(Messages)]
        /\ FifoNoLoss'
        /\ CapacityRespected'
        /\ \A r \in Queues : queue[r] = <<>> => queue'[r] = <<>>
    BY <2>1, PopKeeps, Zenon
  <2>3. ConsumerCountExact' /\ consumers' \in Nat
    BY <1>3, Leaves, Zenon DEF ConsumeTakes
  <2>4. TypeOK'
    BY <1>3, <2>2, <2>3, Zenon DEF ConsumeTakes, Return, TypeOK
  <2>5. NoMissedWakeup'
    BY <1>3, <2>2, Zenon DEF ConsumeTakes, Return, TypeOK, NoMissedWakeup
  <2> QED
    BY <2>2, <2>3, <2>4, <2>5, Zenon
<1>4. ASSUME NEW c \in Consumers, ConsumeReportsClosed(c) \/ ConsumeCancelled(c)
      PROVE  Inv'
  <2>1. /\ Return(c) /\ pc[c] # "outside"
        /\ UNCHANGED <<queue, closed, on, woken, outcome, accepted, consumed>>
    BY <1>4, Zenon DEF ConsumeReportsClosed, ConsumeCancelled
  <2>2. ConsumerCountExact' /\ consumers' \in Nat
    BY <2>1, Leaves, Zenon
  <2>3. TypeOK' /\ NoMissedWakeup'
    BY <2>1, <2>2, Zenon DEF Return, TypeOK, NoMissedWakeup
  <2>4. FifoNoLoss' /\ CapacityRespected'
    BY <2>1, Zenon DEF FifoNoLoss, CapacityRespected
  <2> QED
    BY <2>2, <2>3, <2>4, Zenon
<1>5. ASSUME NEW c \in Consumers, ConsumeSleeps(c) \/ ConsumeWakes(c)
      PROVE  Inv'
  <2>1. InFlight' = InFlight
    BY <1>5, Zenon DEF ConsumeSleeps, ConsumeWakes, InFlight, TypeOK
  <2>2. ConsumerCountExact'
    BY <1>5, <2>1, NeitherEntersNorLeaves, Zenon DEF ConsumeSleeps, ConsumeWakes
  <2>3. TypeOK'
    BY <1>5, Zenon DEF ConsumeSleeps, ConsumeWakes, TypeOK
  <2>4. NoMissedWakeup'
    BY <1>5, Zenon DEF ConsumeSleeps, ConsumeWakes, TypeOK, NoMissedWakeup
  <2>5. FifoNoLoss' /\ CapacityRespected'
    BY <1>5, Zenon DEF ConsumeSleeps, ConsumeWakes, FifoNoLoss, CapacityRespected
  <2> QED
    BY <2>2, <2>3, <2>4, <2>5, Zenon
<1>6. ASSUME TryConsumeOutbound
      PROVE  Inv'
  <2>1. /\ queue' \in [Queues -> Seq(Messages)]
        /\ consumed' \in [Queues -> Seq(Messages)]
        /\ FifoNoLoss'
        /\ CapacityRespected'
        /\ \A r \in Queues : queue[r] = <<>> => queue'[r] = <<>>
    BY <1>6, PopKeeps, Zenon DEF TryConsumeOutbound, Queues
  <2>2. TypeOK'
    BY <1>6, <2>1, Zenon DEF TryConsumeOutbound, TypeOK
  <2>3. NoMissedWakeup'
    BY <1>6, <2>1, Zenon DEF TryConsumeOutbound, TypeOK, NoMissedWakeup
  <2>4. InFlight' = InFlight
    BY <1>6, Zenon DEF TryConsumeOutbound, InFlight
  <2>5. ConsumerCountExact'
    BY <1>6, <2>4, NeitherEntersNorLeaves, Zenon DEF TryConsumeOutbound
  <2> QED
    BY <2>1, <2>2, <2>3, <2>5, Zenon
<1>7. ASSUME Close
      PROVE  Inv'
  <2>1. InFlight' = InFlight
    BY <1>7, Zenon DEF Close, InFlight
  <2>2. ConsumerCountExact'
    BY <1>7, <2>1, NeitherEntersNorLeaves, Zenon DEF Close
  <2>3. TypeOK' /\ NoMissedWakeup'
    BY <1>7, Zenon DEF Close, broadcastLocked, TypeOK, NoMissedWakeup
  <2>4. FifoNoLoss' /\ CapacityRespected'
    BY <1>7, Zenon DEF Close, FifoNoLoss, CapacityRespected
  <2> QED
    BY <2>2, <2>3, <2>4, Zenon
<1>8. ASSUME UNCHANGED vars
      PROVE  Inv'
  <2>1. InFlight' = InFlight
    BY <1>8, Zenon DEF vars, InFlight
  <2>2. ConsumerCountExact'
    BY <1>8, <2>1, NeitherEntersNorLeaves, Zenon DEF vars
  <2>3. TypeOK' /\ NoMissedWakeup' /\ FifoNoLoss' /\ CapacityRespected'
    BY <1>8, Zenon DEF vars, TypeOK, NoMissedWakeup, FifoNoLoss, CapacityRespected
  <2> QED
    BY <2>2, <2>3, Zenon
<1> QED
  BY <1>1, <1>2, <1>3, <1>4, <1>5, <1>6, <1>7, <1>8, Zenon DEF Next

(* Hence it holds in every state of the bus.                                *)
LEMMA SpecInv == Spec => []Inv
  BY InitInv, NextInv, PTL DEF Spec

(* The state of the bus keeps its types; the consumer counter in particular *)
(* never goes negative, whatever the order of the deferred decrements.      *)
THEOREM TypeCorrect == Spec => []TypeOK
  BY SpecInv, PTL DEF Inv

(* No publish and no Close is missed by a consumer between its look at the  *)
(* queue and its sleep (bus.go, broadcastLocked).                           *)
THEOREM WakeupCorrect == Spec => []NoMissedWakeup
  BY SpecInv, PTL DEF Inv

(* Each queue hands out exactly what it accepted, in order.                 *)
THEOREM FifoCorrect == Spec => []FifoNoLoss
  BY SpecInv, PTL DEF Inv

(* Options.MaxInbound and Options.MaxOutbound bound their queues.           *)
THEOREM CapacityCorrect == Spec => []CapacityRespected
  BY SpecInv, PTL DEF Inv

(* ConsumerCount is the number of ConsumeInbound calls in flight.           *)
THEOREM CountCorrect == Spec => []ConsumerCountExact
  BY SpecInv, PTL DEF Inv

(* A publish changes what its producer was told and the history together.   *)
LEMMA PublishCounts ==
    ASSUME TypeOK, RetryDeliversOnce,
           NEW q \in Queues, NEW m \in Messages, NEW ctxDone \in BOOLEAN,
           Publish(q, m, ctxDone)
    PROVE  RetryDeliversOnce'
<1> USE DEF TypeOK
<1> SUFFICES ASSUME NEW n \in Messages
             PROVE  Occurrences(accepted'["inbound"], n) + Occurrences(accepted'["outbound"], n)
                        = IF outcome'[n] = "queued" THEN 1 ELSE 0
  BY Zenon DEF RetryDeliversOnce
<1>1. /\ accepted["inbound"] \in Seq(Messages)
      /\ accepted["outbound"] \in Seq(Messages)
  BY Zenon DEF Queues
<1>2. Occurrences(accepted["inbound"], n) + Occurrences(accepted["outbound"], n)
         = IF outcome[n] = "queued" THEN 1 ELSE 0
  BY Zenon DEF RetryDeliversOnce
<1>3. outcome[m] # "queued"
  BY Zenon DEF Publish
<1>4. CASE closed \/ ctxDone \/ Full(q)
  BY <1>2, <1>3, <1>4, Zenon DEF Publish
<1>5. CASE ~(closed \/ ctxDone \/ Full(q))
  <2>1. /\ accepted' = [accepted EXCEPT ![q] = Append(@, m)]
        /\ outcome' = [outcome EXCEPT ![m] = "queued"]
    BY <1>5, Zenon DEF Publish
  <2>2. /\ Occurrences(accepted["inbound"], n) \in Nat
        /\ Occurrences(accepted["outbound"], n) \in Nat
        /\ Occurrences(Append(accepted["inbound"], m), n)
             = Occurrences(accepted["inbound"], n) + (IF m = n THEN 1 ELSE 0)
        /\ Occurrences(Append(accepted["outbound"], m), n)
             = Occurrences(accepted["outbound"], n) + (IF m = n THEN 1 ELSE 0)
    BY <1>1, OccurrencesAppend, Zenon
  <2>3. /\ outcome'[n] = IF m = n THEN "queued" ELSE outcome[n]
    BY <2>1, Zenon
  <2>4. CASE q = "inbound"
    <3>1. /\ accepted'["inbound"] = Append(accepted["inbound"], m)
          /\ accepted'["outbound"] = accepted["outbound"]
      BY <2>1, <2>4, Zenon DEF Queues
    <3> QED
      BY <1>2, <1>3, <2>2, <2>3, <3>1
  <2>5. CASE q = "outbound"
    <3>1. /\ accepted'["outbound"] = Append(accepted["outbound"], m)
          /\ accepted'["inbound"] = accepted["inbound"]
      BY <2>1, <2>5, Zenon DEF Queues
    <3> QED
      BY <1>2, <1>3, <2>2, <2>3, <3>1
  <2> QED
    BY <2>4, <2>5, Zenon DEF Queues
<1> QED
  BY <1>4, <1>5, Zenon

(* No other step accepts a message or reports on one.                       *)
LEMMA NextRetry == Inv /\ RetryDeliversOnce /\ [Next]_vars => RetryDeliversOnce'
<1> SUFFICES ASSUME Inv, RetryDeliversOnce, [Next]_vars PROVE RetryDeliversOnce'
  BY Zenon
<1>1. ASSUME NEW q \in Queues, NEW m \in Messages, NEW ctxDone \in BOOLEAN,
             Publish(q, m, ctxDone)
      PROVE  RetryDeliversOnce'
  BY <1>1, PublishCounts, Zenon DEF Inv
<1>2. ASSUME UNCHANGED <<accepted, outcome>>
      PROVE  RetryDeliversOnce'
  BY <1>2, Zenon DEF RetryDeliversOnce
<1>3. \/ \E q \in Queues, m \in Messages, ctxDone \in BOOLEAN : Publish(q, m, ctxDone)
      \/ UNCHANGED <<accepted, outcome>>
  BY Zenon DEF Next, vars, EnterConsume, ConsumeTakes, ConsumeReportsClosed, ConsumeSleeps,
         ConsumeWakes, ConsumeCancelled, TryConsumeOutbound, Close
<1> QED
  BY <1>1, <1>2, <1>3, Zenon

(* Before the first publish no message is reported and none is accepted.    *)
LEMMA InitRetry == Init => RetryDeliversOnce
<1> SUFFICES ASSUME Init, NEW m \in Messages
             PROVE  Occurrences(accepted["inbound"], m) + Occurrences(accepted["outbound"], m) = 0
  BY Zenon DEF Init, RetryDeliversOnce
<1>1. accepted["inbound"] = <<>> /\ accepted["outbound"] = <<>>
  BY Zenon DEF Init, Queues
<1>2. {i \in DOMAIN <<>> : <<>>[i] = m} = {}
  BY EmptySeq
<1> QED
  BY <1>1, <1>2, FS_EmptySet DEF Occurrences

(* The whole of what the bus keeps: types, capacities, the count of the     *)
(* consumers in flight, and, for producers which retry every failed         *)
(* publish, exactly one delivery of each message reported as queued, over   *)
(* both queues and across Close.                                            *)
THEOREM BusCorrect == Spec => []BusInv
<1>1. Inv /\ RetryDeliversOnce => BusInv
  BY Zenon DEF Inv, BusInv
<1> QED
  BY <1>1, SpecInv, InitRetry, NextRetry, PTL DEF Spec
=============================================================================
