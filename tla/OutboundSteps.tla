---------------------------- MODULE OutboundSteps ----------------------------
(***************************************************************************)
(* The inductive invariant of the outbound dispatcher and the steps that   *)
(* count nothing: the bus, the loop, the queues of the chats and StopAll.  *)
(***************************************************************************)
EXTENDS Outbound, TLAPS

ChatOf(t) == tasks[t].msg.shape.chat
Sending == {t \in DOMAIN tasks : tasks[t].at \in {"sending", "delay"}}
Working == disp \in {"gates", "coalesce", "suppress", "slot", "check"}
Upcoming == Len(published) - Len(bus) + 1

(* Numbers grow on the way from a task back to the bus: the message the     *)
(* dispatcher works on is newer than every task that ever was, its buffer   *)
(* holds at most one message, which is newer, and the bus holds the rest.   *)
Numbered ==
    /\ Len(bus) <= Len(published) /\ Len(published) <= MaxMessages
    /\ \A i \in 1 .. Len(bus) : bus[i].parts = <<Len(published) - Len(bus) + i>>
    /\ Len(pending) <= 1
    /\ disp \in {"gates", "coalesce"} => pending = <<>>
    /\ pending # <<>> => pending[1].parts # <<>> /\ pending[1].parts[1] < Upcoming
    /\ Working =>
          /\ cur \in Message /\ cur.parts # <<>> /\ cur.parts[1] < Upcoming
          /\ pending # <<>> => cur.parts[1] < pending[1].parts[1]
    /\ \A t \in DOMAIN tasks \cup done :
          /\ t < Upcoming
          /\ Working => t < cur.parts[1]
          /\ pending # <<>> => t < pending[1].parts[1]

(* The sweep cancels every task, and nothing is registered after it.        *)
SweepComplete ==
    /\ disp \in {"sweep", "gone"} => DOMAIN tasks \subseteq cancelled
    /\ disp \notin {"sweep", "gone"} => cancelled = {}
    /\ disp = "gone" => tasks = <<>>
    /\ stop \in {"channel", "stopped"} => disp = "gone"

(* Until the sweep, the tasks of a chat form a queue: only its first may    *)
(* leave the wait, each of the others waits for the one before it, and the  *)
(* tail of the chat is its last.                                            *)
Chained ==
    /\ \A u \in DOMAIN tasks : tasks[u].at # "waiting" =>
          \A t \in DOMAIN tasks : ChatOf(t) = ChatOf(u) => u <= t
    /\ \A u \in DOMAIN tasks : tasks[u].at = "waiting" =>
          /\ tasks[u].prev \in done =>
                \A t \in DOMAIN tasks : ChatOf(t) = ChatOf(u) => u <= t
          /\ tasks[u].prev \notin done =>
                /\ tasks[u].prev \in DOMAIN tasks
                /\ ChatOf(tasks[u].prev) = ChatOf(u)
                /\ \A t \in DOMAIN tasks :
                      ChatOf(t) = ChatOf(u) /\ t < u => t <= tasks[u].prev
    /\ \A t \in DOMAIN tasks :
          /\ tails[ChatOf(t)] \in DOMAIN tasks
          /\ t <= tails[ChatOf(t)]
    /\ \A c \in Chats : tails[c] # None => tails[c] \in DOMAIN tasks /\ ChatOf(tails[c]) = c

Inv ==
    /\ TypeOK
    /\ Numbered
    /\ SweepComplete
    /\ SlotsExact
    /\ DOMAIN tasks \cap done = {}
    /\ cancelled = {} => Chained

-----------------------------------------------------------------------------
(* What the assumption says of a configuration and of a message.            *)
LEMMA SetupFacts ==
    ASSUME TypeOK
    PROVE  /\ MaxMessages \in Nat
           /\ setup.messages \in 0 .. MaxMessages
           /\ PendingLimit \in Nat \ {0} /\ Concurrency \in Nat \ {0}
           /\ MaxErrors \in Nat
           /\ \A m \in Message : m.shape.chat \in Chats
           /\ \A s \in Shapes : s.kind \in {"plain", "delta", "end", "mark", "progress"}
  BY OutboundAssumption, Zenon DEF TypeOK, Message, PendingLimit, Concurrency, MaxErrors

(* Numbers are integers.                                                    *)
LEMMA IdsAreIntegers == \A t \in Ids : t \in Int
  BY OutboundAssumption DEF Ids

(* A new message has one part; all but the last of a queue were there.      *)
LEMMA OnePart == \A x : <<x>> # <<>> /\ <<x>>[1] = x
  OBVIOUS

LEMMA Earlier ==
    ASSUME NEW n \in Nat, NEW i \in 1 .. n + 1, i # n + 1
    PROVE  i \in 1 .. n
  OBVIOUS

(* A merged message begins where its first part does.                       *)
LEMMA ConcatHead ==
    ASSUME NEW S, NEW s \in Seq(S), NEW t \in Seq(S), s # <<>>
    PROVE  s \o t \in Seq(S) /\ s \o t # <<>> /\ (s \o t)[1] = s[1]
<1>1. Len(s) \in Nat /\ Len(t) \in Nat /\ Len(s) # 0
  OBVIOUS
<1>2. /\ s \o t \in Seq(S)
      /\ Len(s \o t) = Len(s) + Len(t)
      /\ \A i \in 1 .. Len(s) + Len(t) :
            (s \o t)[i] = IF i <= Len(s) THEN s[i] ELSE t[i - Len(s)]
  OBVIOUS
<1>3. 1 \in 1 .. Len(s) + Len(t) /\ 1 <= Len(s) /\ Len(s) + Len(t) # 0
  BY <1>1
<1> QED
  BY <1>2, <1>3, Zenon

-----------------------------------------------------------------------------
(* The queues of the chats.                                                 *)

(* A task that moves on, and did not wait for a task that still runs, keeps *)
(* the numbers, the sweep and the chain.                                    *)
LEMMA MoveKeeps ==
    ASSUME Inv, NEW t \in DOMAIN tasks,
           DOMAIN tasks' = DOMAIN tasks,
           \A x \in DOMAIN tasks : tasks'[x].msg = tasks[x].msg /\ tasks'[x].prev = tasks[x].prev,
           \A x \in DOMAIN tasks \ {t} : tasks'[x].at = tasks[x].at,
           tasks'[t].at # "waiting",
           tasks[t].at = "waiting" => tasks[t].prev \in done,
           UNCHANGED <<bus, published, dispatcher, done, tails, cancelled, stop>>
    PROVE  Numbered' /\ SweepComplete' /\ (DOMAIN tasks \cap done = {})' /\ (cancelled = {} => Chained)'
<1> USE DEF Inv
<1>1. Numbered'
  BY Zenon DEF Numbered, Working, Upcoming, dispatcher
<1>2. SweepComplete'
  BY DEF SweepComplete, dispatcher
<1>3. (cancelled = {} => Chained)'
  <2> SUFFICES ASSUME cancelled = {}
               PROVE  Chained'
    BY Zenon
  <2>1. \A x \in DOMAIN tasks : ChatOf(x)' = ChatOf(x)
    BY Zenon DEF ChatOf
  <2>2. \A x \in DOMAIN tasks : ChatOf(x) = ChatOf(t) => t <= x
    BY Zenon DEF Chained
  <2>3. ASSUME NEW u \in DOMAIN tasks', tasks'[u].at # "waiting",
               NEW x \in DOMAIN tasks', ChatOf(x)' = ChatOf(u)'
        PROVE  u <= x
    <3>1. ChatOf(x) = ChatOf(u)
      BY <2>1, <2>3, Zenon
    <3>2. CASE u = t
      BY <2>2, <3>1, <3>2, Zenon
    <3>3. CASE u # t
      BY <2>3, <3>1, <3>3, Zenon DEF Chained
    <3> QED
      BY <3>2, <3>3, Zenon
  <2>4. \A u \in DOMAIN tasks' : tasks'[u].at = "waiting" => tasks[u].at = "waiting" /\ u # t
    BY Zenon
  <2>5. ASSUME NEW u \in DOMAIN tasks', tasks'[u].at = "waiting"
        PROVE  /\ tasks'[u].prev \in done' =>
                     \A x \in DOMAIN tasks' : ChatOf(x)' = ChatOf(u)' => u <= x
               /\ tasks'[u].prev \notin done' =>
                     /\ tasks'[u].prev \in DOMAIN tasks'
                     /\ tasks'[tasks'[u].prev].msg.shape.chat = ChatOf(u)'
                     /\ \A x \in DOMAIN tasks' :
                           ChatOf(x)' = ChatOf(u)' /\ x < u => x <= tasks'[u].prev
    <3>1. u \in DOMAIN tasks /\ tasks[u].at = "waiting" /\ tasks'[u].prev = tasks[u].prev
      BY <2>4, <2>5, Zenon
    <3>2. CASE tasks[u].prev \in done
      BY <2>1, <3>1, <3>2 DEF Chained
    <3>3. CASE tasks[u].prev \notin done
      <4>1. /\ tasks[u].prev \in DOMAIN tasks
            /\ ChatOf(tasks[u].prev) = ChatOf(u)
            /\ \A x \in DOMAIN tasks : ChatOf(x) = ChatOf(u) /\ x < u => x <= tasks[u].prev
        BY <3>1, <3>3, Zenon DEF Chained
      <4>2. tasks'[tasks[u].prev].msg.shape.chat = ChatOf(u)
        BY <4>1, Zenon DEF ChatOf
      <4> QED
        BY <2>1, <3>1, <3>3, <4>1, <4>2, Zenon
    <3> QED
      BY <3>2, <3>3, Zenon
  <2>6. \A x \in DOMAIN tasks' : tails'[ChatOf(x)'] \in DOMAIN tasks' /\ x <= tails'[ChatOf(x)']
    BY <2>1, Zenon DEF Chained
  <2>7. \A c \in Chats : tails'[c] # None =>
           tails'[c] \in DOMAIN tasks' /\ tasks'[tails'[c]].msg.shape.chat = c
    BY Zenon DEF Chained, ChatOf
  <2> QED
    BY <2>3, <2>5, <2>6, <2>7, Zenon DEF Chained, ChatOf
<1> QED
  BY <1>1, <1>2, <1>3, Zenon

(* When the first task of a chat leaves, the chat is still a queue.         *)
LEMMA FinishChained ==
    ASSUME TypeOK, Chained, NEW t \in DOMAIN tasks, tasks[t].at # "waiting",
           DOMAIN tasks' = DOMAIN tasks \ {t},
           \A x \in DOMAIN tasks' : tasks'[x] = tasks[x],
           done' = done \cup {t},
           tails' = [tails EXCEPT ![ChatOf(t)] = IF @ = t THEN None ELSE @]
    PROVE  Chained'
<1>1. \A x \in DOMAIN tasks' : ChatOf(x)' = ChatOf(x)
  BY Zenon DEF ChatOf
<1>2. \A x \in DOMAIN tasks : ChatOf(x) = ChatOf(t) => t <= x
  BY Zenon DEF Chained
<1>3. \A x \in DOMAIN tasks : ChatOf(x) \in Chats /\ x \in Int
  <2> SUFFICES ASSUME NEW x \in DOMAIN tasks
               PROVE  ChatOf(x) \in Chats /\ x \in Int
    BY Zenon
  <2>1. x \in Ids /\ tasks[x] \in Task
    BY Zenon DEF TypeOK
  <2>2. tasks[x].msg \in Message
    BY <2>1, Zenon DEF Task
  <2> QED
    BY <2>1, <2>2, SetupFacts, IdsAreIntegers, Zenon DEF ChatOf
<1>4. \A u \in DOMAIN tasks' : tasks'[u].at # "waiting" =>
         \A x \in DOMAIN tasks' : ChatOf(x)' = ChatOf(u)' => u <= x
  BY <1>1, Zenon DEF Chained
<1>5. ASSUME NEW u \in DOMAIN tasks', tasks'[u].at = "waiting"
      PROVE  /\ tasks'[u].prev \in done' =>
                   \A x \in DOMAIN tasks' : ChatOf(x)' = ChatOf(u)' => u <= x
             /\ tasks'[u].prev \notin done' =>
                   /\ tasks'[u].prev \in DOMAIN tasks'
                   /\ tasks'[tasks'[u].prev].msg.shape.chat = ChatOf(u)'
                   /\ \A x \in DOMAIN tasks' :
                         ChatOf(x)' = ChatOf(u)' /\ x < u => x <= tasks'[u].prev
  <2>1. u \in DOMAIN tasks /\ tasks[u] = tasks'[u] /\ u # t
    BY Zenon
  <2>2. CASE tasks[u].prev \in done
    BY <1>1, <1>5, <2>1, <2>2, Zenon DEF Chained
  <2>3. CASE tasks[u].prev \notin done /\ tasks[u].prev = t
    <3>1. ASSUME NEW x \in DOMAIN tasks', ChatOf(x)' = ChatOf(u)', x < u
          PROVE  FALSE
      <4>1. x \in DOMAIN tasks /\ x # t /\ ChatOf(x) = ChatOf(u) /\ x <= t
        BY <1>1, <1>5, <2>1, <2>3, <3>1 DEF Chained
      <4>2. ChatOf(t) = ChatOf(u)
        BY <1>5, <2>1, <2>3, Zenon DEF Chained
      <4>3. t <= x
        BY <1>2, <4>1, <4>2, Zenon
      <4> QED
        BY <1>3, <4>1, <4>3
    <3> QED
      BY <1>3, <2>1, <2>3, <3>1
  <2>4. CASE tasks[u].prev \notin done /\ tasks[u].prev # t
    <3>1. /\ tasks[u].prev \in DOMAIN tasks
          /\ ChatOf(tasks[u].prev) = ChatOf(u)
          /\ \A x \in DOMAIN tasks : ChatOf(x) = ChatOf(u) /\ x < u => x <= tasks[u].prev
      BY <1>5, <2>1, <2>4, Zenon DEF Chained
    <3>2. tasks'[tasks[u].prev].msg.shape.chat = ChatOf(u)
      BY <2>4, <3>1, Zenon DEF ChatOf
    <3> QED
      BY <1>1, <2>1, <2>4, <3>1, <3>2, Zenon
  <2> QED
    BY <2>2, <2>3, <2>4, Zenon
<1>6. ASSUME NEW x \in DOMAIN tasks'
      PROVE  tails'[ChatOf(x)'] \in DOMAIN tasks' /\ x <= tails'[ChatOf(x)']
  <2>1. x \in DOMAIN tasks /\ x # t /\ ChatOf(x)' = ChatOf(x)
    BY <1>1, Zenon
  <2>2. tails[ChatOf(x)] \in DOMAIN tasks /\ x <= tails[ChatOf(x)]
    BY <2>1, Zenon DEF Chained
  <2>3. tails[ChatOf(x)] # t
    <3>1. CASE ChatOf(x) = ChatOf(t)
      BY <1>2, <1>3, <2>1, <2>2, <3>1
    <3>2. CASE ChatOf(x) # ChatOf(t)
      <4>1. ChatOf(x) \in Chats /\ tails[ChatOf(x)] # None
        BY <1>3, <2>1, <2>2, OutboundAssumption, Zenon DEF TypeOK, Ids
      <4>2. ChatOf(tails[ChatOf(x)]) = ChatOf(x)
        BY <4>1, Zenon DEF Chained
      <4> QED
        BY <3>2, <4>2, Zenon
    <3> QED
      BY <3>1, <3>2, Zenon
  <2>4. tails'[ChatOf(x)] = tails[ChatOf(x)]
    BY <1>3, <2>1, <2>3, Zenon DEF TypeOK
  <2> QED
    BY <2>1, <2>2, <2>3, <2>4, Zenon
<1>7. ASSUME NEW c \in Chats, tails'[c] # None
      PROVE  tails'[c] \in DOMAIN tasks' /\ tasks'[tails'[c]].msg.shape.chat = c
  <2>1. tails'[c] = tails[c] /\ (c = ChatOf(t) => tails[c] # t)
    BY <1>3, <1>7, Zenon DEF TypeOK
  <2>2. tails[c] \in DOMAIN tasks /\ ChatOf(tails[c]) = c
    BY <1>7, <2>1, Zenon DEF Chained
  <2>3. tails[c] # t
    BY <2>1, <2>2, Zenon
  <2> QED
    BY <2>1, <2>2, <2>3, Zenon DEF ChatOf
<1> QED
  BY <1>4, <1>5, <1>6, <1>7, Zenon DEF Chained, ChatOf

(* A new task, with the highest number of all, is the end of the queue of   *)
(* its chat.                                                               *)
LEMMA RegisterChained ==
    ASSUME TypeOK, Chained, DOMAIN tasks \cap done = {}, done' = done,
           NEW t \in Int, NEW c \in Chats, t # None,
           \A x \in DOMAIN tasks : x < t /\ x \in Int,
           DOMAIN tasks' = DOMAIN tasks \cup {t},
           \A x \in DOMAIN tasks : tasks'[x] = tasks[x],
           tasks'[t].msg.shape.chat = c, tasks'[t].prev = tails[c],
           tasks'[t].at = (IF tails[c] = None THEN "ready" ELSE "waiting"),
           tails' = [tails EXCEPT ![c] = t]
    PROVE  Chained'
<1>1. /\ \A x \in DOMAIN tasks : tasks'[x].msg.shape.chat = ChatOf(x)
      /\ tasks'[t].msg.shape.chat = c
  BY Zenon DEF ChatOf
<1>2. tails'[c] = t /\ \A d \in Chats \ {c} : tails'[d] = tails[d]
  BY Zenon DEF TypeOK
<1>3. tails[c] = None => \A x \in DOMAIN tasks : ChatOf(x) # c
  <2> SUFFICES ASSUME NEW x \in DOMAIN tasks, ChatOf(x) = c
               PROVE  tails[c] # None
    BY Zenon
  <2>1. tails[c] \in DOMAIN tasks
    BY Zenon DEF Chained
  <2> QED
    BY <2>1, OutboundAssumption, Zenon DEF TypeOK, Ids
<1>4. tails[c] # None =>
        /\ tails[c] \in DOMAIN tasks /\ ChatOf(tails[c]) = c
        /\ \A x \in DOMAIN tasks : ChatOf(x) = c => x <= tails[c]
  BY Zenon DEF Chained
<1>5. ASSUME NEW u \in DOMAIN tasks', tasks'[u].at # "waiting",
             NEW x \in DOMAIN tasks', tasks'[x].msg.shape.chat = tasks'[u].msg.shape.chat
      PROVE  u <= x
  <2>1. CASE u = t
    <3>1. tails[c] = None
      BY <1>5, <2>1, Zenon
    <3>2. x = t
      BY <1>1, <1>3, <1>5, <2>1, <3>1
    <3> QED
      BY <2>1, <3>2
  <2>2. CASE u # t /\ x = t
    BY <2>2
  <2>3. CASE u # t /\ x # t
    BY <1>1, <1>5, <2>3 DEF Chained
  <2> QED
    BY <2>1, <2>2, <2>3, Zenon
<1>6. ASSUME NEW u \in DOMAIN tasks', tasks'[u].at = "waiting"
      PROVE  /\ tasks'[u].prev \in done' =>
                   \A x \in DOMAIN tasks' :
                      tasks'[x].msg.shape.chat = tasks'[u].msg.shape.chat => u <= x
             /\ tasks'[u].prev \notin done' =>
                   /\ tasks'[u].prev \in DOMAIN tasks'
                   /\ tasks'[tasks'[u].prev].msg.shape.chat = tasks'[u].msg.shape.chat
                   /\ \A x \in DOMAIN tasks' :
                         tasks'[x].msg.shape.chat = tasks'[u].msg.shape.chat /\ x < u
                            => x <= tasks'[u].prev
  <2>1. CASE u = t
    <3>1. tasks'[u].prev = tails[c] /\ tails[c] # None
      BY <1>6, <2>1, Zenon
    <3>2. tails[c] \notin done /\ done' = done
      BY <1>4, <3>1, Zenon
    <3>3. tails[c] \in DOMAIN tasks' /\ tasks'[tails[c]].msg.shape.chat = c /\ tasks'[u].msg.shape.chat = c
      BY <1>1, <1>4, <2>1, <3>1, Zenon
    <3>4. ASSUME NEW x \in DOMAIN tasks', tasks'[x].msg.shape.chat = c, x < u
          PROVE  x <= tails[c]
      <4>1. x \in DOMAIN tasks
        BY <2>1, <3>4
      <4>2. ChatOf(x) = c
        BY <1>1, <3>4, <4>1, Zenon
      <4> QED
        BY <1>4, <3>1, <4>1, <4>2, Zenon
    <3> QED
      BY <3>1, <3>2, <3>3, <3>4, Zenon
  <2>2. CASE u # t
    <3>1. u \in DOMAIN tasks /\ tasks'[u] = tasks[u] /\ u < t /\ u \in Int
      BY <2>2, Zenon
    <3>0. tasks[u].at = "waiting"
      BY <1>6, <3>1, Zenon
    <3>2. CASE tasks[u].prev \in done
      <4>1. \A x \in DOMAIN tasks : ChatOf(x) = ChatOf(u) => u <= x
        BY <3>0, <3>1, <3>2, Zenon DEF Chained
      <4>2. tasks'[u].prev \in done' /\ tasks'[u].msg.shape.chat = ChatOf(u)
        BY <1>1, <3>1, <3>2, Zenon
      <4>3. ASSUME NEW x \in DOMAIN tasks', tasks'[x].msg.shape.chat = ChatOf(u)
            PROVE  u <= x
        <5>1. CASE x = t
          BY <3>1, <5>1
        <5>2. CASE x # t
          BY <1>1, <4>1, <4>3, <5>2, Zenon
        <5> QED
          BY <5>1, <5>2, Zenon
      <4> QED
        BY <4>2, <4>3, Zenon
    <3>3. CASE tasks[u].prev \notin done
      <4>1. /\ tasks[u].prev \in DOMAIN tasks
            /\ ChatOf(tasks[u].prev) = ChatOf(u)
            /\ \A x \in DOMAIN tasks : ChatOf(x) = ChatOf(u) /\ x < u => x <= tasks[u].prev
        BY <3>0, <3>1, <3>3, Zenon DEF Chained
      <4>2. /\ tasks'[u].prev = tasks[u].prev /\ tasks[u].prev \notin done'
            /\ tasks'[u].msg.shape.chat = ChatOf(u)
        BY <1>1, <3>1, <3>3, Zenon
      <4>3. /\ tasks[u].prev \in DOMAIN tasks'
            /\ tasks'[tasks[u].prev].msg.shape.chat = ChatOf(u)
        BY <1>1, <4>1, Zenon
      <4>4. ASSUME NEW x \in DOMAIN tasks', tasks'[x].msg.shape.chat = ChatOf(u), x < u
            PROVE  x <= tasks[u].prev
        <5>1. x # t
          BY <3>1, <4>4
        <5> QED
          BY <1>1, <4>1, <4>4, <5>1, Zenon
      <4> QED
        BY <4>2, <4>3, <4>4, Zenon
    <3> QED
      BY <3>2, <3>3, Zenon
  <2> QED
    BY <2>1, <2>2, Zenon
<1>7. ASSUME NEW x \in DOMAIN tasks'
      PROVE  /\ tails'[tasks'[x].msg.shape.chat] \in DOMAIN tasks'
             /\ x <= tails'[tasks'[x].msg.shape.chat]
  <2>1. CASE x = t
    BY <1>1, <1>2, <2>1
  <2>2. CASE x # t
    <3>1. x \in DOMAIN tasks /\ x < t /\ ChatOf(x) \in Chats
      BY <2>2, SetupFacts, Zenon DEF TypeOK, Task, ChatOf
    <3>2. tails[ChatOf(x)] \in DOMAIN tasks /\ x <= tails[ChatOf(x)]
      BY <3>1, Zenon DEF Chained
    <3> QED
      BY <1>1, <1>2, <3>1, <3>2
  <2> QED
    BY <2>1, <2>2, Zenon
<1>8. ASSUME NEW d \in Chats, tails'[d] # None
      PROVE  tails'[d] \in DOMAIN tasks' /\ tasks'[tails'[d]].msg.shape.chat = d
  <2>1. CASE d = c
    BY <1>1, <1>2, <2>1, Zenon
  <2>2. CASE d # c
    <3>1. tails'[d] = tails[d]
      BY <1>2, <2>2, Zenon
    <3>2. tails[d] \in DOMAIN tasks /\ ChatOf(tails[d]) = d
      BY <1>8, <3>1, Zenon DEF Chained
    <3> QED
      BY <1>1, <3>1, <3>2, Zenon
  <2> QED
    BY <2>1, <2>2, Zenon
<1> QED
  BY <1>5, <1>6, <1>7, <1>8, Zenon DEF Chained, ChatOf

-----------------------------------------------------------------------------
(* The dispatcher.  Steps that leave the tasks alone keep what is said of   *)
(* them.                                                                    *)
LEMMA TasksAlone ==
    ASSUME Inv, UNCHANGED <<outbound, cancelled>>, disp' = "check" <=> disp = "check"
    PROVE  SlotsExact' /\ (DOMAIN tasks \cap done = {})' /\ (cancelled = {} => Chained)'
  BY Zenon DEF Inv, outbound, SlotsExact, Chained, ChatOf

(* The head of the bus carries the next number, and what is left of the bus *)
(* follows it.                                                              *)
LEMMA BusHead ==
    ASSUME TypeOK, Numbered, bus # <<>>, bus' = Tail(bus), UNCHANGED published
    PROVE  /\ Head(bus) \in Message
           /\ Head(bus).parts = <<Upcoming>>
           /\ Head(bus).parts # <<>> /\ Head(bus).parts[1] = Upcoming
           /\ Upcoming \in Ids
           /\ bus' \in Seq(Message)
           /\ Upcoming' = Upcoming + 1
           /\ Len(bus') <= Len(published')
           /\ \A i \in 1 .. Len(bus') : bus'[i].parts = <<Len(published') - Len(bus') + i>>
<1>1. /\ bus \in Seq(Message) /\ published \in Seq(Shapes)
      /\ Len(bus) \in Nat /\ Len(published) \in Nat /\ Len(bus) # 0
      /\ MaxMessages \in Nat
  BY SetupFacts DEF TypeOK
<1>2. /\ Head(bus) \in Message /\ Head(bus) = bus[1]
      /\ Tail(bus) \in Seq(Message)
      /\ Len(Tail(bus)) = Len(bus) - 1
      /\ \A i \in 1 .. Len(Tail(bus)) : Tail(bus)[i] = bus[i + 1]
  BY <1>1
<1>3. Head(bus).parts = <<Upcoming>>
  BY <1>1, <1>2 DEF Numbered, Upcoming
<1>4. Upcoming \in Ids /\ Upcoming' = Upcoming + 1 /\ Len(bus') <= Len(published')
  BY <1>1, <1>2 DEF Numbered, Upcoming, Ids
<1>5. ASSUME NEW i \in 1 .. Len(bus')
      PROVE  bus'[i].parts = <<Len(published') - Len(bus') + i>>
  <2>1. i + 1 \in 1 .. Len(bus) /\ bus'[i] = bus[i + 1]
    BY <1>1, <1>2
  <2>2. bus[i + 1].parts = <<Len(published) - Len(bus) + (i + 1)>>
    BY <2>1, Zenon DEF Numbered
  <2>3. Len(published) - Len(bus) + (i + 1) = Len(published') - Len(bus') + i
    BY <1>1, <1>2
  <2> QED
    BY <2>1, <2>2, <2>3, Zenon
<1>6. Head(bus).parts # <<>> /\ Head(bus).parts[1] = Upcoming
  BY <1>3, OnePart, Zenon
<1> QED
  BY <1>2, <1>3, <1>4, <1>5, <1>6, Zenon

(* A message is published with the number that follows the last.            *)
LEMMA PublishKeeps ==
    ASSUME Inv, NEW s \in Shapes, Publish(s)
    PROVE  Inv'
<1> USE DEF Inv, Publish, dispatcher, outbound
<1> DEFINE m == [shape |-> s, parts |-> <<Len(published) + 1>>, kind |-> s.kind]
<1>1. /\ bus \in Seq(Message) /\ published \in Seq(Shapes)
      /\ Len(bus) \in Nat /\ Len(published) \in Nat
      /\ Len(published) + 1 <= MaxMessages /\ MaxMessages \in Nat
  <2>1. bus \in Seq(Message) /\ published \in Seq(Shapes) /\ Len(published) < setup.messages
    BY Zenon DEF TypeOK
  <2>2. MaxMessages \in Nat /\ setup.messages \in 0 .. MaxMessages
    BY SetupFacts, Zenon
  <2> HIDE DEF Inv, Publish, dispatcher, outbound
  <2>3. Len(bus) \in Nat /\ Len(published) \in Nat
    BY <2>1
  <2>4. Len(published) + 1 <= MaxMessages
    BY <2>1, <2>2, <2>3
  <2> QED
    BY <2>1, <2>2, <2>3, <2>4, Zenon
<1>2. m \in Message
  <2>1. Len(published) + 1 \in Ids
    BY <1>1 DEF Ids
  <2>2. <<Len(published) + 1>> \in Seq(Ids)
    BY <2>1
  <2> QED
    BY <2>2, SetupFacts, Zenon DEF Message
<1>3. bus' = Append(bus, m) /\ published' = Append(published, s)
  BY Zenon
<1> HIDE DEF m
<1>4. /\ bus' \in Seq(Message) /\ published' \in Seq(Shapes)
      /\ Len(bus') = Len(bus) + 1 /\ Len(published') = Len(published) + 1
      /\ \A i \in 1 .. Len(bus) : bus'[i] = bus[i]
      /\ bus'[Len(bus) + 1] = m
  BY <1>1, <1>2, <1>3
<1>5. TypeOK'
  BY <1>4, Zenon DEF TypeOK, PendingLimit, Concurrency, MaxErrors
<1>6. Numbered'
  <2>1. Upcoming' = Upcoming
    BY <1>1, <1>4 DEF Upcoming
  <2>2. \A i \in 1 .. Len(bus') : bus'[i].parts = <<Len(published') - Len(bus') + i>>
    <3> SUFFICES ASSUME NEW i \in 1 .. Len(bus')
                 PROVE  bus'[i].parts = <<Len(published') - Len(bus') + i>>
      BY Zenon
    <3>1. CASE i = Len(bus) + 1
      <4>1. bus'[i].parts = <<Len(published) + 1>>
        BY <1>4, <3>1 DEF m
      <4>2. Len(published) + 1 = Len(published') - Len(bus') + i
        BY <1>1, <1>4, <3>1
      <4> QED
        BY <4>1, <4>2, Zenon
    <3>2. CASE i # Len(bus) + 1
      <4>1. i \in 1 .. Len(bus)
        BY <1>1, <1>4, <3>2, Earlier, Zenon
      <4>2. bus'[i].parts = <<Len(published) - Len(bus) + i>>
        BY <1>4, <4>1, Zenon DEF Numbered
      <4>3. Len(published) - Len(bus) + i = Len(published') - Len(bus') + i
        BY <1>1, <1>4
      <4> QED
        BY <4>2, <4>3, Zenon
    <3> QED
      BY <3>1, <3>2, Zenon
  <2>3. Len(bus') <= Len(published') /\ Len(published') <= MaxMessages
    BY <1>1, <1>4 DEF Numbered
  <2> QED
    BY <2>1, <2>2, <2>3, Zenon DEF Numbered, Working
<1>7. SweepComplete'
  BY Zenon DEF SweepComplete
<1> QED
  BY <1>5, <1>6, <1>7, TasksAlone, Zenon

(* The buffer, where it holds a message, is empty after it is taken.        *)
LEMMA BufferHead ==
    ASSUME TypeOK, Numbered, pending # <<>>
    PROVE  /\ Head(pending) \in Message /\ Head(pending) = pending[1]
           /\ Tail(pending) = <<>>
<1>1. pending \in Seq(Message) /\ Len(pending) \in Nat /\ Len(pending) # 0 /\ Len(pending) <= 1
  BY DEF TypeOK, Numbered
<1>2. /\ Head(pending) \in Message /\ Head(pending) = pending[1]
      /\ Tail(pending) \in Seq(Message) /\ Len(Tail(pending)) = Len(pending) - 1
  BY <1>1
<1> QED
  BY <1>1, <1>2

LEMMA TakeKeeps ==
    ASSUME Inv, Take
    PROVE  Inv'
<1> USE DEF Inv, Take, outbound
<1>1. CASE pending # <<>>
  <2>1. /\ cur' = pending[1] /\ cur' \in Message /\ pending' = <<>> /\ disp' = "gates"
        /\ UNCHANGED <<bus, published>>
    BY <1>1, BufferHead, Zenon
  <2>2. TypeOK'
    BY <2>1 DEF TypeOK, PendingLimit, Concurrency, MaxErrors
  <2>3. Numbered'
    BY <1>1, <2>1 DEF Numbered, Working, Upcoming
  <2>4. SweepComplete'
    BY <2>1, Zenon DEF SweepComplete
  <2> QED
    BY <2>1, <2>2, <2>3, <2>4, TasksAlone, Zenon
<1>2. CASE pending = <<>>
  <2>1. /\ bus # <<>> /\ cur' = Head(bus) /\ bus' = Tail(bus) /\ disp' = "gates"
        /\ UNCHANGED <<pending, published>>
    BY <1>2, Zenon
  <2>2. /\ cur' \in Message /\ cur'.parts # <<>> /\ cur'.parts[1] = Upcoming
        /\ Upcoming \in Ids
        /\ bus' \in Seq(Message)
        /\ Upcoming' = Upcoming + 1
        /\ Len(bus') <= Len(published')
        /\ \A i \in 1 .. Len(bus') : bus'[i].parts = <<Len(published') - Len(bus') + i>>
    BY <2>1, BusHead, Zenon
  <2>3. TypeOK'
    BY <2>1, <2>2, Zenon DEF TypeOK, PendingLimit, Concurrency, MaxErrors
  <2>4. \A t \in DOMAIN tasks \cup done : t < Upcoming /\ t \in Int
    <3>1. \A t \in DOMAIN tasks \cup done : t \in Ids
      BY Zenon DEF TypeOK
    <3>2. \A t \in DOMAIN tasks \cup done : t < Upcoming
      BY Zenon DEF Numbered
    <3> QED
      BY <3>1, <3>2, IdsAreIntegers, Zenon
  <2>5. Numbered'
    BY <1>2, <2>1, <2>2, <2>4 DEF Numbered, Working, Ids
  <2>6. SweepComplete'
    BY <2>1, Zenon DEF SweepComplete
  <2> QED
    BY <2>1, <2>3, <2>5, <2>6, TasksAlone, Zenon
<1> QED
  BY <1>1, <1>2, Zenon

LEMMA CoalesceKeeps ==
    ASSUME Inv, Coalesce
    PROVE  Inv'
<1> USE DEF Inv, Coalesce, outbound
<1>0. /\ disp = "coalesce" /\ disp' \in {"slot", "coalesce"} /\ pending = <<>>
      /\ cur \in Message /\ cur.parts # <<>> /\ cur.parts[1] < Upcoming
      /\ UNCHANGED <<published, suppressed>>
  BY Zenon DEF Numbered, Working
<1>1. CASE bus = <<>>
  <2>1. disp' = "slot" /\ UNCHANGED <<bus, cur, pending>>
    BY <1>1, Zenon
  <2>2. TypeOK'
    BY <2>1, Zenon DEF TypeOK, PendingLimit, Concurrency, MaxErrors
  <2>3. Numbered' /\ SweepComplete'
    BY <1>0, <2>1, Zenon DEF Numbered, Working, Upcoming, SweepComplete
  <2> QED
    BY <1>0, <2>2, <2>3, TasksAlone, Zenon
<1>2. CASE bus # <<>>
  <2>1. bus' = Tail(bus)
    BY <1>2, Zenon
  <2>2. /\ Head(bus) \in Message
        /\ Head(bus).parts = <<Upcoming>>
        /\ Head(bus).parts # <<>> /\ Head(bus).parts[1] = Upcoming
        /\ Upcoming \in Ids
        /\ bus' \in Seq(Message)
        /\ Upcoming' = Upcoming + 1
        /\ Len(bus') <= Len(published')
        /\ \A i \in 1 .. Len(bus') : bus'[i].parts = <<Len(published') - Len(bus') + i>>
    BY <1>0, <1>2, <2>1, BusHead, Zenon
  <2>3. \A t \in DOMAIN tasks \cup done : t < Upcoming /\ t < cur.parts[1] /\ t \in Int
    BY <1>0 DEF Numbered, Working, TypeOK, Ids
  <2>4. cur.parts \in Seq(Ids) /\ cur.parts[1] \in Int
    <3>1. cur.parts \in Seq(Ids)
      BY <1>0, Zenon DEF Message
    <3>2. Head(cur.parts) \in Ids
      BY <1>0, <3>1
    <3> QED
      BY <3>1, <3>2 DEF Ids
  <2>5. CASE Merges(cur, Head(bus))
    <3>1. /\ cur' = [cur EXCEPT !.parts = @ \o Head(bus).parts, !.kind = Head(bus).kind]
          /\ pending' = <<>>
      BY <1>0, <1>2, <2>5, Zenon
    <3>2. /\ cur.parts \o Head(bus).parts \in Seq(Ids)
          /\ cur.parts \o Head(bus).parts # <<>>
          /\ (cur.parts \o Head(bus).parts)[1] = cur.parts[1]
      <4>1. Head(bus).parts \in Seq(Ids)
        BY <2>2, Zenon DEF Message
      <4>2. cur.parts # <<>> /\ cur.parts \in Seq(Ids)
        BY <1>0, <2>4, Zenon
      <4> HIDE DEF Inv, Coalesce
      <4> QED
        BY <4>1, <4>2, ConcatHead, Zenon
    <3>3. cur' \in Message /\ cur'.parts # <<>> /\ cur'.parts[1] = cur.parts[1]
      BY <1>0, <2>2, <3>1, <3>2, Zenon DEF Message
    <3>4. TypeOK'
      BY <1>0, <2>2, <3>1, <3>3, Zenon DEF TypeOK, PendingLimit, Concurrency, MaxErrors
    <3>5. Numbered'
      <4>1. UNCHANGED <<tasks, done>> /\ pending' = <<>> /\ Len(pending') <= 1 /\ Upcoming \in Int
        BY <2>2, <3>1, IdsAreIntegers
      <4>2. Len(published') <= MaxMessages
        BY <1>0, Zenon DEF Numbered
      <4> HIDE DEF Inv, Coalesce
      <4>3. cur'.parts[1] < Upcoming'
        BY <1>0, <2>2, <2>4, <3>3, <4>1
      <4>4. \A t \in DOMAIN tasks' \cup done' : t < Upcoming' /\ t < cur'.parts[1]
        BY <2>2, <2>3, <3>3, <4>1
      <4> QED
        BY <2>2, <3>3, <4>1, <4>2, <4>3, <4>4, Zenon DEF Numbered
    <3>6. SweepComplete'
      BY <1>0, Zenon DEF SweepComplete
    <3> QED
      BY <1>0, <3>4, <3>5, <3>6, TasksAlone, Zenon
  <2>6. CASE ~Merges(cur, Head(bus))
    <3>1. /\ pending' = Append(pending, Head(bus)) /\ disp' = "slot"
          /\ UNCHANGED cur
      BY <1>2, <2>6, Zenon
    <3>2. pending' = <<Head(bus)>>
      BY <1>0, <3>1
    <3>3. pending' \in Seq(Message) /\ Len(pending') = 1 /\ pending'[1] = Head(bus)
      BY <2>2, <3>2
    <3>4. TypeOK'
      BY <1>0, <2>2, <3>1, <3>3, Zenon DEF TypeOK, PendingLimit, Concurrency, MaxErrors
    <3>5. Numbered'
      <4>1. /\ UNCHANGED <<tasks, done>> /\ pending' # <<>> /\ pending'[1].parts # <<>>
            /\ pending'[1].parts[1] = Upcoming /\ Upcoming \in Int
        BY <2>2, <3>1, <3>3, IdsAreIntegers
      <4>2. Len(published') <= MaxMessages /\ cur'.parts[1] = cur.parts[1] /\ Len(pending') <= 1
        BY <1>0, <3>1, <3>3 DEF Numbered
      <4>3. cur' \in Message /\ cur'.parts # <<>>
        BY <1>0, <3>1, Zenon
      <4> HIDE DEF Inv, Coalesce
      <4>4. cur'.parts[1] < Upcoming' /\ Upcoming < Upcoming' /\ cur'.parts[1] < Upcoming
        BY <1>0, <2>2, <2>4, <4>1, <4>2
      <4>5. \A t \in DOMAIN tasks' \cup done' : t < Upcoming' /\ t < cur'.parts[1] /\ t < Upcoming
        BY <2>2, <2>3, <4>1, <4>2
      <4> QED
        BY <2>2, <3>1, <4>1, <4>2, <4>3, <4>4, <4>5, Zenon DEF Numbered, Working
    <3>6. SweepComplete'
      BY <1>0, <3>1, Zenon DEF SweepComplete
    <3> QED
      BY <1>0, <3>1, <3>4, <3>5, <3>6, TasksAlone, Zenon
  <2> QED
    BY <2>5, <2>6, Zenon
<1> QED
  BY <1>1, <1>2, Zenon

(* The gates, the test for repetition and the admission move the dispatcher *)
(* on with the same message, or back to the poll without it.                *)
LEMMA DispatcherMoves ==
    ASSUME Inv, Gates \/ Suppress
    PROVE  Inv'
<1> USE DEF Inv, Gates, Suppress, outbound
<1>0. /\ Working /\ cur \in Message /\ disp # "check"
      /\ disp' \in {"poll", "coalesce", "suppress", "slot"}
      /\ disp' = "poll" \/ cur' = cur
      /\ disp' = "coalesce" => disp = "gates"
      /\ cur' \in {cur, None}
      /\ UNCHANGED <<setup, bus, published, pending>>
  BY Zenon DEF Numbered, Working
<1>1. suppressed' \subseteq Ids
  <2>1. cur.parts \in Seq(Ids)
    BY <1>0, Zenon DEF Message
  <2>2. Range(cur.parts) \subseteq Ids
    BY <2>1 DEF Range
  <2> QED
    BY <2>2, Zenon DEF TypeOK
<1>2. TypeOK'
  BY <1>0, <1>1, Zenon DEF TypeOK, PendingLimit, Concurrency, MaxErrors
<1>3. Numbered'
  BY <1>0, Zenon DEF Numbered, Working, Upcoming
<1>4. SweepComplete'
  BY <1>0, Zenon DEF SweepComplete, Working
<1> QED
  BY <1>0, <1>2, <1>3, <1>4, TasksAlone, Zenon

(* The loop leaves: what it held is lost, and every task is cancelled.      *)
LEMMA LeaveKeeps ==
    ASSUME Inv, Leave
    PROVE  Inv'
<1>0. /\ disp' = "sweep" /\ cur' = None /\ pending' = <<>>
      /\ cancelled' = cancelled \cup DOMAIN tasks
      /\ stop \in {"dispatcher", "channel", "stopped"} /\ disp \in {"poll", "slot"}
      /\ UNCHANGED <<setup, bus, published, fingerprints, suppressed, tasks, done, tails, slots, sends, sent, stop, errors>>
  BY Zenon DEF Leave, Stopping, Inv, TypeOK, outbound
<1>1. TypeOK'
  <2>1. cancelled' \subseteq Ids /\ pending' \in Seq(Message)
    BY <1>0 DEF Inv, TypeOK
  <2> QED
    BY <1>0, <2>1, Zenon DEF Inv, TypeOK, PendingLimit, Concurrency, MaxErrors
<1>2. Numbered'
  BY <1>0 DEF Inv, Numbered, Working, Upcoming
<1>3. SweepComplete'
  BY <1>0, Zenon DEF Inv, SweepComplete
<1>4. SlotsExact'
  BY <1>0, Zenon DEF Inv, SlotsExact
<1>5. (DOMAIN tasks \cap done = {})'
  BY <1>0, Zenon DEF Inv
<1>6. (cancelled = {} => Chained)'
  <2>1. cancelled' = {} => cancelled = {}
    BY <1>0, Zenon
  <2> QED
    BY <1>0, <2>1, Zenon DEF Inv, Chained, ChatOf
<1> QED
  BY <1>1, <1>2, <1>3, <1>4, <1>5, <1>6, Zenon DEF Inv

(* The last task is over.                                                   *)
LEMMA SweptKeeps ==
    ASSUME Inv, Swept
    PROVE  Inv'
<1>0. /\ disp = "sweep" /\ disp' = "gone" /\ tasks = <<>>
      /\ UNCHANGED <<setup, bus, published, pending, cur, fingerprints, suppressed, tasks, done, tails, slots, sends, cancelled, sent, stop, errors>>
  BY Zenon DEF Swept, outbound
<1>1. TypeOK'
  BY <1>0, Zenon DEF Inv, TypeOK, PendingLimit, Concurrency, MaxErrors
<1>2. Numbered'
  BY <1>0, Zenon DEF Inv, Numbered, Working, Upcoming
<1>3. SweepComplete'
  BY <1>0, Zenon DEF Inv, SweepComplete
<1>4. SlotsExact' /\ (DOMAIN tasks \cap done = {})' /\ (cancelled = {} => Chained)'
  BY <1>0 DEF Inv, SlotsExact, Chained, ChatOf
<1> QED
  BY <1>1, <1>2, <1>3, <1>4, Zenon DEF Inv

LEMMA StopKeeps ==
    ASSUME Inv, StopAll \/ StopDispatcher \/ StopChannel
    PROVE  Inv'
<1> USE DEF Inv
<1>1. TypeOK'
  BY Zenon DEF StopAll, StopDispatcher, StopChannel, TypeOK, dispatcher, outbound, PendingLimit, Concurrency, MaxErrors
<1>2. Numbered'
  BY Zenon DEF StopAll, StopDispatcher, StopChannel, Numbered, Working, Upcoming, dispatcher, outbound
<1>3. SweepComplete'
  BY Zenon DEF StopAll, StopDispatcher, StopChannel, SweepComplete, dispatcher, outbound
<1>4. SlotsExact'
  BY Zenon DEF StopAll, StopDispatcher, StopChannel, SlotsExact, dispatcher, outbound
<1>5. (DOMAIN tasks \cap done = {})'
  BY Zenon DEF StopAll, StopDispatcher, StopChannel, outbound
<1>6. (cancelled = {} => Chained)'
  <2>1. cancelled' = {} => cancelled = {}
    BY Zenon DEF StopAll, StopDispatcher, StopChannel
  <2>2. UNCHANGED <<tasks, done, tails>>
    BY Zenon DEF StopAll, StopDispatcher, StopChannel, outbound
  <2> QED
    BY <2>1, <2>2, Zenon DEF Chained, ChatOf
<1> QED
  BY <1>1, <1>2, <1>3, <1>4, <1>5, <1>6, Zenon

=============================================================================
