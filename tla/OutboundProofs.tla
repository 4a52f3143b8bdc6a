--------------------------- MODULE OutboundProofs ---------------------------
(***************************************************************************)
(* Proofs about the outbound dispatcher, for any chats, any messages, any  *)
(* limits and any moment of StopAll.                                       *)
(***************************************************************************)
EXTENDS OutboundSteps, FiniteSetTheorems

(* The registered tasks and the sending ones are finite sets.               *)
LEMMA TasksFinite ==
    ASSUME TypeOK
    PROVE  /\ IsFiniteSet(DOMAIN tasks) /\ Cardinality(DOMAIN tasks) \in Nat
           /\ IsFiniteSet(Sending) /\ Cardinality(Sending) \in Nat
<1>1. IsFiniteSet(Ids)
  BY OutboundAssumption, FS_Interval DEF Ids
<1>2. DOMAIN tasks \subseteq Ids /\ Sending \subseteq Ids
  BY Zenon DEF TypeOK, Sending
<1> QED
  BY <1>1, <1>2, FS_Subset, FS_CardinalityType, Zenon

(* A new manager satisfies the invariant.                                   *)
LEMMA InitInv == Init => Inv
<1> SUFFICES ASSUME Init PROVE Inv
  BY Zenon
<1> USE DEF Init
<1>1. DOMAIN tasks = {}
  BY Zenon
<1>2. TypeOK
  BY <1>1, OutboundAssumption
     DEF TypeOK, PendingLimit, Concurrency, MaxErrors
<1>3. Numbered
  BY <1>1, OutboundAssumption DEF Numbered, Working, Upcoming
<1>4. SweepComplete /\ DOMAIN tasks \cap done = {}
  BY <1>1, Zenon DEF SweepComplete
<1>5. SlotsExact
  <2>1. {t \in DOMAIN tasks : tasks[t].at \in {"sending", "delay"}} = {}
    BY <1>1, Zenon
  <2> QED
    BY <1>1, <2>1, FS_EmptySet DEF SlotsExact
<1>6. Chained
  BY <1>1, Zenon DEF Chained
<1> QED
  BY <1>2, <1>3, <1>4, <1>5, <1>6, Zenon DEF Inv

-----------------------------------------------------------------------------
(* The steps that count slots and sends.                                    *)

LEMMA AdmitKeeps ==
    ASSUME Inv, Admit
    PROVE  Inv'
<1> USE DEF Inv, Admit
<1>0. PendingLimit \in Nat /\ PendingLimit' = PendingLimit /\ slots \in Nat
  BY SetupFacts DEF TypeOK, PendingLimit
<1>1. TypeOK'
  BY <1>0 DEF TypeOK, Concurrency, MaxErrors
<1>2. Numbered'
  BY Zenon DEF Numbered, Working, Upcoming
<1>3. SweepComplete'
  BY Zenon DEF SweepComplete
<1>4. SlotsExact'
  BY TasksFinite DEF SlotsExact
<1>5. (DOMAIN tasks \cap done = {})' /\ (cancelled = {} => Chained)'
  BY Zenon DEF Chained, ChatOf
<1> QED
  BY <1>1, <1>2, <1>3, <1>4, <1>5, Zenon

(* A task is registered with a number no task has had, behind the last task *)
(* of its chat.                                                             *)
LEMMA RegisterKeeps ==
    ASSUME Inv, Register
    PROVE  Inv'
<1> DEFINE t == Head(cur.parts)
           c == cur.shape.chat
           task == [msg |-> cur, prev |-> tails[c], attempt |-> 0,
                    at |-> IF tails[c] = None THEN "ready" ELSE "waiting"]
<1>1. /\ disp = "check" /\ disp' = "poll" /\ cur' = None
      /\ tasks' = [x \in DOMAIN tasks \cup {t} |-> IF x = t THEN task ELSE tasks[x]]
      /\ tails' = [tails EXCEPT ![c] = t]
      /\ UNCHANGED <<setup, bus, published, pending, suppressed, done, slots, sends, cancelled, sent, stop, errors>>
  BY Zenon DEF Register
<1>2. /\ cur \in Message /\ cur.parts # <<>> /\ t = cur.parts[1]
      /\ t \in Ids /\ c \in Chats /\ cur.parts \in Seq(Ids)
  <2>1. cur \in Message /\ cur.parts # <<>>
    BY <1>1, Zenon DEF Inv, Numbered, Working
  <2>2. cur.parts \in Seq(Ids) /\ c \in Chats
    BY <2>1, SetupFacts, Zenon DEF Inv, Message
  <2> QED
    BY <2>1, <2>2
<1>3. /\ \A x \in DOMAIN tasks \cup done : x < t /\ x \in Int
      /\ t < Upcoming
      /\ pending # <<>> => t < pending[1].parts[1]
  <2>1. \A x \in DOMAIN tasks \cup done : x \in Ids
    BY Zenon DEF Inv, TypeOK
  <2> QED
    BY <1>1, <1>2, <2>1, IdsAreIntegers, Zenon DEF Inv, Numbered, Working
<1>4. t \in Int /\ t \notin DOMAIN tasks /\ t \notin done /\ t # None
  BY <1>2, <1>3, IdsAreIntegers, OutboundAssumption DEF Ids
<1>5. task \in Task /\ tails[c] \in Ids \cup {None}
  BY <1>2, Zenon DEF Inv, TypeOK, Task
<1>6. /\ DOMAIN tasks' = DOMAIN tasks \cup {t}
      /\ tasks'[t] = task
      /\ \A x \in DOMAIN tasks : tasks'[x] = tasks[x]
  BY <1>1, <1>4, Zenon
<1> HIDE DEF t
<1>7. TypeOK'
  <2>1. DOMAIN tasks' \subseteq Ids /\ \A x \in DOMAIN tasks' : tasks'[x] \in Task
    BY <1>2, <1>5, <1>6, Zenon DEF Inv, TypeOK
  <2>2. tails' \in [Chats -> Ids \cup {None}]
    BY <1>1, <1>2, Zenon DEF Inv, TypeOK
  <2> HIDE DEF task
  <2> QED
    BY <1>1, <2>1, <2>2, Zenon DEF Inv, TypeOK, PendingLimit, Concurrency, MaxErrors
<1>8. Numbered'
  BY <1>1, <1>3, <1>6, Zenon DEF Inv, Numbered, Working, Upcoming
<1>9. SweepComplete'
  BY <1>1, Zenon DEF Inv, SweepComplete
<1>10. SlotsExact'
  <2>1. Cardinality(DOMAIN tasks') = Cardinality(DOMAIN tasks) + 1
    BY <1>4, <1>6, TasksFinite, FS_AddElement, Zenon DEF Inv
  <2>2. {x \in DOMAIN tasks' : tasks'[x].at \in {"sending", "delay"}} = Sending
    BY <1>4, <1>6 DEF Sending
  <2>3. slots' = slots /\ slots = Cardinality(DOMAIN tasks) + 1 /\ disp' # "check"
    BY <1>1, Zenon DEF Inv, SlotsExact
  <2>4. slots' = Cardinality(DOMAIN tasks') + (IF disp' = "check" THEN 1 ELSE 0)
    <3> HIDE DEF task
    <3> QED
      BY <2>1, <2>3, TasksFinite DEF Inv
  <2>5. sends' = Cardinality({x \in DOMAIN tasks' : tasks'[x].at \in {"sending", "delay"}})
    BY <1>1, <2>2, Zenon DEF Inv, SlotsExact, Sending
  <2> QED
    BY <2>4, <2>5, Zenon DEF SlotsExact
<1>11. (DOMAIN tasks \cap done = {})'
  BY <1>1, <1>4, <1>6, Zenon DEF Inv
<1>12. (cancelled = {} => Chained)'
  <2>1. /\ tasks'[t].msg.shape.chat = c /\ tasks'[t].prev = tails[c]
        /\ tasks'[t].at = (IF tails[c] = None THEN "ready" ELSE "waiting")
    BY <1>6
  <2>2. \A x \in DOMAIN tasks : x < t /\ x \in Int
    BY <1>3, Zenon
  <2> HIDE DEF c, task
  <2> QED
    BY <1>1, <1>2, <1>4, <1>6, <2>1, <2>2, RegisterChained, Zenon DEF Inv
<1> QED
  BY <1>7, <1>8, <1>9, <1>10, <1>11, <1>12, Zenon DEF Inv

(* The deferred functions of a task give back exactly what it holds, and    *)
(* let only its successor pass.                                             *)
LEMMA FinishKeeps ==
    ASSUME Inv, NEW t \in DOMAIN tasks, Finish(t),
           tasks[t].at = "waiting" => cancelled # {},
           UNCHANGED <<setup, bus, published, dispatcher, cancelled, stop>>
    PROVE  /\ DOMAIN tasks' = DOMAIN tasks \ {t}
           /\ \A x \in DOMAIN tasks' : tasks'[x] = tasks[x]
           /\ tails' \in [Chats -> Ids \cup {None}]
           /\ slots' \in 0 .. PendingLimit /\ sends' \in 0 .. Concurrency
           /\ done' \subseteq Ids
           /\ Numbered' /\ SweepComplete' /\ SlotsExact'
           /\ (DOMAIN tasks \cap done = {})' /\ (cancelled = {} => Chained)'
<1> USE DEF Inv
<1>1. /\ DOMAIN tasks' = DOMAIN tasks \ {t}
      /\ \A x \in DOMAIN tasks' : tasks'[x] = tasks[x]
      /\ done' = done \cup {t}
      /\ tails' = [tails EXCEPT ![ChatOf(t)] = IF @ = t THEN None ELSE @]
      /\ slots' = slots - 1
      /\ sends' = IF t \in Sending THEN sends - 1 ELSE sends
  BY Zenon DEF Finish, ChatOf, Sending
<1>2. /\ tails' \in [Chats -> Ids \cup {None}]
      /\ done' \subseteq Ids
      /\ t \in Ids
  BY <1>1, Zenon DEF TypeOK
<1>3. Numbered'
  BY <1>1, Zenon DEF Numbered, Working, Upcoming, dispatcher
<1>4. SweepComplete'
  BY <1>1 DEF SweepComplete, dispatcher
<1>5. SlotsExact' /\ slots' \in 0 .. PendingLimit /\ sends' \in 0 .. Concurrency
  <2>1. /\ slots = Cardinality(DOMAIN tasks) + (IF disp = "check" THEN 1 ELSE 0)
        /\ sends = Cardinality(Sending)
        /\ slots \in 0 .. PendingLimit /\ sends \in 0 .. Concurrency
        /\ PendingLimit \in Nat /\ Concurrency \in Nat
        /\ disp' = disp
    BY SetupFacts, Zenon DEF SlotsExact, Sending, TypeOK, dispatcher
  <2>2. /\ slots' = Cardinality(DOMAIN tasks') + (IF disp' = "check" THEN 1 ELSE 0)
        /\ slots' \in 0 .. PendingLimit
    <3>1. Cardinality(DOMAIN tasks') = Cardinality(DOMAIN tasks) - 1
      BY <1>1, TasksFinite, FS_RemoveElement, Zenon
    <3>2. Cardinality(DOMAIN tasks) # 0
      BY TasksFinite, FS_EmptySet, Zenon
    <3> QED
      BY <1>1, <2>1, <3>1, <3>2, TasksFinite
  <2>3. {x \in DOMAIN tasks' : tasks'[x].at \in {"sending", "delay"}} = Sending \ {t}
    BY <1>1, Zenon DEF Sending
  <2>4. sends' = Cardinality(Sending \ {t}) /\ sends' \in 0 .. Concurrency
    <3>1. CASE t \in Sending
      <4>1. Cardinality(Sending \ {t}) = Cardinality(Sending) - 1
        BY <3>1, TasksFinite, FS_RemoveElement, Zenon
      <4>2. Cardinality(Sending) # 0
        BY <3>1, TasksFinite, FS_EmptySet, Zenon
      <4> QED
        BY <1>1, <2>1, <3>1, <4>1, <4>2, TasksFinite
    <3>2. CASE t \notin Sending
      <4>1. Sending \ {t} = Sending
        BY <3>2, Zenon
      <4> QED
        BY <1>1, <2>1, <3>2, <4>1, Zenon
    <3> QED
      BY <3>1, <3>2, Zenon
  <2> QED
    BY <2>2, <2>3, <2>4, Zenon DEF SlotsExact
<1>6. (cancelled = {} => Chained)'
  BY <1>1, FinishChained, Zenon DEF TypeOK, dispatcher
<1>7. (DOMAIN tasks \cap done = {})'
  BY <1>1, Zenon
<1> QED
  BY <1>1, <1>2, <1>3, <1>4, <1>5, <1>6, <1>7, Zenon

(* A task ends: it gives up, or its last send returns.                      *)
LEMMA EndKeeps ==
    ASSUME Inv, NEW t \in DOMAIN tasks, Finish(t),
           tasks[t].at = "waiting" => cancelled # {},
           Receive(t) \/ UNCHANGED sent, errors' \in 0 .. MaxErrors,
           UNCHANGED <<setup, bus, published, dispatcher, cancelled, stop>>
    PROVE  Inv'
<1>1. sent' \in [Chats -> Seq(Ids)]
  <2>1. tasks[t].msg.shape.chat \in Chats /\ tasks[t].msg.parts \in Seq(Ids)
    BY SetupFacts, Zenon DEF Inv, TypeOK, Task, Message
  <2>2. sent \in [Chats -> Seq(Ids)]
    BY Zenon DEF Inv, TypeOK
  <2>3. sent[tasks[t].msg.shape.chat] \o tasks[t].msg.parts \in Seq(Ids)
    BY <2>1, <2>2
  <2> QED
    BY <2>1, <2>2, <2>3, Zenon DEF Receive
<1>2. /\ DOMAIN tasks' = DOMAIN tasks \ {t}
      /\ \A x \in DOMAIN tasks' : tasks'[x] = tasks[x]
      /\ tails' \in [Chats -> Ids \cup {None}]
      /\ slots' \in 0 .. PendingLimit /\ sends' \in 0 .. Concurrency
      /\ done' \subseteq Ids
      /\ Numbered' /\ SweepComplete' /\ SlotsExact'
      /\ (DOMAIN tasks \cap done = {})' /\ (cancelled = {} => Chained)'
  BY FinishKeeps, Zenon
<1>3. DOMAIN tasks' \subseteq Ids /\ \A x \in DOMAIN tasks' : tasks'[x] \in Task
  BY <1>2, Zenon DEF Inv, TypeOK
<1>4. TypeOK'
  BY <1>1, <1>2, <1>3, Zenon DEF Inv, TypeOK, dispatcher, PendingLimit, Concurrency, MaxErrors
<1> QED
  BY <1>2, <1>4, Zenon DEF Inv

(* A task goes on: its turn comes, it begins a send, it waits or tries      *)
(* again.                                                                   *)
LEMMA GoOnKeeps ==
    ASSUME Inv, NEW t \in DOMAIN tasks, NEW where, NEW attempt \in Nat,
           where \in {"ready", "sending", "delay"},
           tasks' = [tasks EXCEPT ![t].at = where, ![t].attempt = attempt],
           tasks[t].at = "waiting" => tasks[t].prev \in done,
           sends' = IF tasks[t].at \notin {"sending", "delay"} /\ where \in {"sending", "delay"}
                    THEN sends + 1 ELSE sends,
           where = "ready" => tasks[t].at \notin {"sending", "delay"},
           sends' <= Concurrency,
           sent' \in [Chats -> Seq(Ids)], errors' \in 0 .. MaxErrors,
           UNCHANGED <<setup, bus, published, dispatcher, done, tails, slots, cancelled, stop>>
    PROVE  Inv'
<1>1. tasks[t] \in Task
  BY Zenon DEF Inv, TypeOK
<1>2. tasks'[t] = [tasks[t] EXCEPT !.at = where, !.attempt = attempt]
  BY Zenon
<1>3. /\ tasks'[t].at = where /\ tasks'[t].msg = tasks[t].msg /\ tasks'[t].prev = tasks[t].prev
      /\ tasks'[t] \in Task
  BY <1>1, <1>2, Zenon DEF Task
<1>4. /\ DOMAIN tasks' = DOMAIN tasks
      /\ \A x \in DOMAIN tasks \ {t} : tasks'[x] = tasks[x]
  BY Zenon
<1>5. Numbered' /\ SweepComplete' /\ (DOMAIN tasks \cap done = {})' /\ (cancelled = {} => Chained)'
  <2>1. \A x \in DOMAIN tasks : tasks'[x].msg = tasks[x].msg /\ tasks'[x].prev = tasks[x].prev
    BY <1>3, <1>4, Zenon
  <2>2. \A x \in DOMAIN tasks \ {t} : tasks'[x].at = tasks[x].at
    BY <1>4, Zenon
  <2>3. tasks'[t].at # "waiting"
    BY <1>3, Zenon
  <2> QED
    BY <1>4, <2>1, <2>2, <2>3, MoveKeeps, Zenon
<1>6. SlotsExact'
  <2>1. slots' = Cardinality(DOMAIN tasks') + (IF disp' = "check" THEN 1 ELSE 0)
    BY <1>4, Zenon DEF Inv, SlotsExact, dispatcher
  <2> DEFINE S == {x \in DOMAIN tasks' : tasks'[x].at \in {"sending", "delay"}}
  <2>2. sends = Cardinality(Sending)
    BY Zenon DEF Inv, SlotsExact, Sending
  <2>3. CASE tasks[t].at \notin {"sending", "delay"} /\ where \in {"sending", "delay"}
    <3>1. S = Sending \cup {t} /\ t \notin Sending
      BY <1>3, <1>4, <2>3 DEF Sending
    <3>2. Cardinality(S) = Cardinality(Sending) + 1
      BY <3>1, TasksFinite, FS_AddElement, Zenon DEF Inv
    <3> HIDE DEF S
    <3>3. sends' = Cardinality(S)
      BY <2>2, <2>3, <3>2, Zenon
    <3> QED
      BY <2>1, <3>3, Zenon DEF SlotsExact, S
  <2>4. CASE ~(tasks[t].at \notin {"sending", "delay"} /\ where \in {"sending", "delay"})
    <3>1. tasks[t].at \in {"sending", "delay"} <=> where \in {"sending", "delay"}
      BY <2>4, Zenon
    <3>2. S = Sending
      BY <1>3, <1>4, <3>1, Zenon DEF Sending
    <3> QED
      BY <2>1, <2>2, <2>4, <3>2, Zenon DEF SlotsExact
  <2> QED
    BY <2>3, <2>4, Zenon
<1>7. TypeOK'
  <2>1. DOMAIN tasks' \subseteq Ids /\ \A x \in DOMAIN tasks' : tasks'[x] \in Task
    BY <1>3, <1>4, Zenon DEF Inv, TypeOK
  <2>2. sends' \in 0 .. Concurrency
    BY SetupFacts DEF Inv, TypeOK
  <2> QED
    BY <2>1, <2>2, Zenon DEF Inv, TypeOK, dispatcher, PendingLimit, Concurrency, MaxErrors
<1> QED
  BY <1>5, <1>6, <1>7, Zenon DEF Inv

LEMMA WorkKeeps ==
    ASSUME Inv, NEW t \in Ids, Work(t)
    PROVE  Inv'
<1>1. /\ TypeOK /\ sent \in [Chats -> Seq(Ids)] /\ errors \in 0 .. MaxErrors
      /\ MaxErrors \in Nat /\ sends \in 0 .. Concurrency /\ Concurrency \in Nat
  BY SetupFacts, Zenon DEF Inv, TypeOK
<1>2. ASSUME t \in DOMAIN tasks
      PROVE  /\ tasks[t].attempt \in Nat
             /\ DOMAIN tasks[t] = {"msg", "prev", "at", "attempt"}
             /\ tasks[t] \in Task
  BY <1>1, <1>2, Zenon DEF TypeOK, Task
<1>3. ASSUME NEW where, Move(t, where), t \in DOMAIN tasks
      PROVE  tasks' = [tasks EXCEPT ![t].at = where, ![t].attempt = tasks[t].attempt]
  <2>1. [tasks[t] EXCEPT !.at = where] = [tasks[t] EXCEPT !.at = where, !.attempt = tasks[t].attempt]
    BY <1>2, <1>3, Zenon DEF Task
  <2> QED
    BY <1>3, <2>1, Zenon DEF Move
<1>4. CASE Predecessor(t)
  <2>1. /\ t \in DOMAIN tasks /\ tasks[t].at = "waiting" /\ tasks[t].prev \in done
        /\ Move(t, "ready")
        /\ UNCHANGED <<setup, bus, published, dispatcher, done, tails, slots, sends, cancelled, sent, stop, errors>>
    BY <1>4, Zenon DEF Predecessor, At
  <2>2. tasks' = [tasks EXCEPT ![t].at = "ready", ![t].attempt = tasks[t].attempt]
    BY <1>3, <2>1, Zenon
  <2>3. sends' = sends /\ sends' <= Concurrency /\ errors' \in 0 .. MaxErrors /\ sent' \in [Chats -> Seq(Ids)]
    BY <1>1, <2>1
  <2> HIDE DEF Inv, Move
  <2> QED
    BY <1>2, <2>1, <2>2, <2>3, GoOnKeeps, Zenon
<1>5. CASE StartSend(t)
  <2>1. /\ t \in DOMAIN tasks /\ tasks[t].at = "ready" /\ sends < Concurrency /\ sends' = sends + 1
        /\ tasks' = [tasks EXCEPT ![t].at = "sending", ![t].attempt = 1]
        /\ UNCHANGED <<setup, bus, published, dispatcher, done, tails, slots, cancelled, sent, stop, errors>>
    BY <1>5, Zenon DEF StartSend, At
  <2>2. sends' <= Concurrency /\ errors' \in 0 .. MaxErrors /\ sent' \in [Chats -> Seq(Ids)]
    BY <1>1, <2>1
  <2> HIDE DEF Inv
  <2> QED
    BY <2>1, <2>2, GoOnKeeps, Zenon
<1>6. CASE Retry(t)
  <2>1. /\ t \in DOMAIN tasks /\ tasks[t].at = "delay"
        /\ tasks' = [tasks EXCEPT ![t].at = "sending", ![t].attempt = tasks[t].attempt + 1]
        /\ UNCHANGED <<setup, bus, published, dispatcher, done, tails, slots, sends, cancelled, sent, stop, errors>>
    BY <1>6, Zenon DEF Retry, At
  <2>2. tasks[t].attempt + 1 \in Nat
    BY <1>2, <2>1
  <2>3. sends' = sends /\ sends' <= Concurrency /\ errors' \in 0 .. MaxErrors /\ sent' \in [Chats -> Seq(Ids)]
    BY <1>1, <2>1
  <2> HIDE DEF Inv
  <2> QED
    BY <2>1, <2>2, <2>3, GoOnKeeps, Zenon
<1>7. CASE GiveUp(t)
  <2>1. /\ t \in DOMAIN tasks /\ cancelled # {} /\ Finish(t)
        /\ UNCHANGED <<setup, bus, published, dispatcher, cancelled, sent, stop, errors>>
    BY <1>7, Zenon DEF GiveUp, At
  <2> HIDE DEF Inv, Finish
  <2> QED
    BY <1>1, <2>1, EndKeeps, Zenon
<1>8. CASE SendOnce(t)
  <2>1. /\ t \in DOMAIN tasks /\ tasks[t].at = "sending" /\ Finish(t) /\ Receive(t)
        /\ UNCHANGED <<setup, bus, published, dispatcher, cancelled, stop, errors>>
    BY <1>8, Zenon DEF SendOnce, At
  <2> HIDE DEF Inv, Finish, Receive
  <2> QED
    BY <1>1, <2>1, EndKeeps, Zenon
<1>9. CASE SendCancelled(t)
  <2>1. /\ t \in DOMAIN tasks /\ tasks[t].at = "sending" /\ Finish(t)
        /\ UNCHANGED <<setup, bus, published, dispatcher, cancelled, sent, stop, errors>>
    BY <1>9, Zenon DEF SendCancelled, At
  <2> HIDE DEF Inv, Finish
  <2> QED
    BY <1>1, <2>1, EndKeeps, Zenon
<1>10. CASE SendFails(t)
  <2>1. /\ t \in DOMAIN tasks /\ tasks[t].at = "sending" /\ errors < MaxErrors /\ errors' = errors + 1
        /\ Receive(t) \/ UNCHANGED sent
        /\ UNCHANGED <<setup, bus, published, dispatcher, cancelled, stop>>
    BY <1>10, Zenon DEF SendFails, At
  <2>2. errors' \in 0 .. MaxErrors
    BY <1>1, <2>1
  <2>3. CASE Finish(t)
    <3> HIDE DEF Inv, Finish, Receive
    <3> QED
      BY <2>1, <2>2, <2>3, EndKeeps, Zenon
  <2>4. CASE Move(t, "delay") /\ UNCHANGED <<done, tails, slots, sends>>
    <3>1. tasks' = [tasks EXCEPT ![t].at = "delay", ![t].attempt = tasks[t].attempt]
      BY <1>3, <2>1, <2>4, Zenon
    <3>2. sent' \in [Chats -> Seq(Ids)]
      <4>1. tasks[t].msg.shape.chat \in Chats /\ tasks[t].msg.parts \in Seq(Ids)
        BY <1>1, <2>1, SetupFacts, Zenon DEF TypeOK, Task, Message
      <4>2. sent[tasks[t].msg.shape.chat] \o tasks[t].msg.parts \in Seq(Ids)
        BY <1>1, <4>1
      <4> QED
        BY <1>1, <2>1, <4>1, <4>2, Zenon DEF Receive
    <3>3. sends' = sends /\ sends' <= Concurrency
      BY <1>1, <2>4
    <3> HIDE DEF Inv, Move, Receive
    <3> QED
      BY <1>2, <2>1, <2>2, <2>4, <3>1, <3>2, <3>3, GoOnKeeps, Zenon
  <2> QED
    BY <1>10, <2>3, <2>4, Zenon DEF SendFails
<1> QED
  BY <1>4, <1>5, <1>6, <1>7, <1>8, <1>9, <1>10, Zenon DEF Work

-----------------------------------------------------------------------------
LEMMA NextInv ==
    ASSUME Inv, [Next]_vars
    PROVE  Inv'
<1>1. CASE UNCHANGED vars
  <2>1. TypeOK'
    BY <1>1, Zenon DEF Inv, TypeOK, vars, dispatcher, outbound, PendingLimit, Concurrency, MaxErrors
  <2>2. Numbered' /\ SweepComplete' /\ SlotsExact'
    BY <1>1, Zenon DEF Inv, Numbered, SweepComplete, SlotsExact, Working, Upcoming, vars, dispatcher, outbound
  <2>3. (DOMAIN tasks \cap done = {})' /\ (cancelled = {} => Chained)'
    BY <1>1 DEF Inv, Chained, ChatOf, vars, outbound
  <2> QED
    BY <2>1, <2>2, <2>3, Zenon DEF Inv
<1>2. ASSUME NEW s \in Shapes, Publish(s)
      PROVE  Inv'
  BY <1>2, PublishKeeps, Zenon
<1>3. CASE Dispatch
  BY <1>3, TakeKeeps, DispatcherMoves, CoalesceKeeps, AdmitKeeps, RegisterKeeps, LeaveKeeps, SweptKeeps, Zenon DEF Dispatch
<1>4. ASSUME NEW t \in Ids, Work(t)
      PROVE  Inv'
  BY <1>4, WorkKeeps, Zenon
<1>5. CASE StopAll \/ StopDispatcher \/ StopChannel
  BY <1>5, StopKeeps, Zenon
<1>6. CASE Idle
  BY <1>1, <1>6, Zenon DEF Idle
<1> QED
  BY <1>1, <1>2, <1>3, <1>4, <1>5, <1>6, Zenon DEF Next

LEMMA SpecInv == Spec => []Inv
<1>1. Init => Inv
  BY InitInv, Zenon
<1>2. Inv /\ [Next]_vars => Inv'
  BY NextInv, Zenon
<1> QED
  BY <1>1, <1>2, PTL DEF Spec

(* What the dispatcher promises follows: while no task is cancelled, the    *)
(* queue of a chat lets only its first task send; after the sweep every     *)
(* task is cancelled.                                                       *)
LEMMA InvImpliesDispatch ==
    ASSUME Inv
    PROVE  DispatchInv
<1>1. OneSendPerChat
  <2> SUFFICES ASSUME NEW t \in DOMAIN tasks, NEW u \in DOMAIN tasks, t # u,
                      tasks[t].msg.shape.chat = tasks[u].msg.shape.chat, ~({t, u} \subseteq cancelled),
                      tasks[t].at \in {"sending", "delay"}, tasks[u].at \in {"sending", "delay"}
               PROVE  FALSE
    BY Zenon DEF OneSendPerChat
  <2>1. cancelled = {}
    BY Zenon DEF Inv, SweepComplete
  <2>2. Chained
    BY <2>1, Zenon DEF Inv
  <2>3. tasks[t].at # "waiting" /\ tasks[u].at # "waiting" /\ ChatOf(t) = ChatOf(u)
    BY Zenon DEF ChatOf
  <2>4. t <= u /\ u <= t
    BY <2>2, <2>3, Zenon DEF Chained
  <2>5. t \in Int /\ u \in Int
    BY IdsAreIntegers, Zenon DEF Inv, TypeOK
  <2> QED
    BY <2>4, <2>5
<1>2. QuietAfterStop
  BY Zenon DEF Inv, SweepComplete, QuietAfterStop
<1> QED
  BY <1>1, <1>2, Zenon DEF Inv, DispatchInv

(* Every number of messages, chats, slots and errors: the dispatcher keeps  *)
(* its types, sends at most one message of a chat at a time until the       *)
(* sweep, accounts for every admission slot and send slot, and leaves no    *)
(* task behind when StopAll has stopped the channel.                        *)
THEOREM DispatchCorrect == Spec => []DispatchInv
  BY SpecInv, InvImpliesDispatch, PTL

=============================================================================
