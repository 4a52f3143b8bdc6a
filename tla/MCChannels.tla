------------------------------ MODULE MCChannels ------------------------------
(* The channels, one component at a time: Telegram, the pairing store, the    *)
(* manager's lifecycle, the adapters with a socket, those that poll or are    *)
(* called, the WebSocket server, and the filters of all adapters as such.     *)
EXTENDS Integers, Sequences

CONSTANTS MaxPairOps, MaxPairClock, MaxPairFaults, PairTTL, MaxConnections, OutboundQueueSize, MaxSends, MaxWsFaults

VARIABLES
    tgSetup, cloud, life, offset, polled, running, ended, server, buffer, owner, worker, stopPc, published, settled,
    lost, strays, tgFaults, crashed
tg == <<tgSetup, cloud, life, offset, polled, running, ended, server, buffer, owner, worker, stopPc, published, settled,
        lost, strays, tgFaults, crashed>>
VARIABLES pairFile, task, pairClock, pairOps, pairFaults, decided, shown, admittedBy, overlapped, wiped
pairing == <<pairFile, task, pairClock, pairOps, pairFaults, decided, shown, admittedBy, overlapped, wiped>>
VARIABLES
    lifeSetup, registered, errs, tasks, chan, started, dispatcher, dispatchHandle, startPc, startQueue, stopAllPc,
    stopQueue, stopping, gatewayCtx, stopExpired, late
manager == <<lifeSetup, registered, errs, tasks, chan, started, dispatcher, dispatchHandle, startPc, startQueue, stopAllPc,
             stopQueue, stopping, gatewayCtx, stopExpired, late>>
VARIABLES
    sockSetup, sPc, sConn, held, sRunning, sCtx, sStop, sBackoff, ending, inHand, beat, beatAcked, stray, made, line, unacked,
    mute, sPublished, refused, failed, acked, missed, sLost, sFaults
socket == <<sockSetup, sPc, sConn, held, sRunning, sCtx, sStop, sBackoff, ending, inHand, beat, beatAcked, stray, made, line, unacked,
            mute, sPublished, refused, failed, acked, missed, sLost, sFaults>>
VARIABLES
    delSetup, dLife, job, cursor, flagged, seenFIFO, cold, written, told, inFlight, delivered, turnedAway, skipped, given,
    evicted, overtaken, dCrashed, dFaults
delivery == <<delSetup, dLife, job, cursor, flagged, seenFIFO, cold, written, told, inFlight, delivered, turnedAway, skipped, given,
              evicted, overtaken, dCrashed, dFaults>>
VARIABLES
    wsLife, listening, wsStopping, wsCancelled, reservations, conns, client, wsStop, early, queued, arrived, heard, wsFaults
websocket == <<wsLife, listening, wsStopping, wsCancelled, reservations, conns, client, wsStop, early, queued, arrived, heard,
               wsFaults>>
VARIABLES
    which,      \* the component this behaviour is about
    probe       \* the adapter and configuration whose filter is examined
vars == <<which, probe, tg, pairing, manager, socket, delivery, websocket>>

-----------------------------------------------------------------------------
(* Instances *)

Conversations == {"c1", "c2"}
Workers == {"w1", "w2"}
Update(key, kind) == [key |-> key, kind |-> kind]
TgSetups ==
    {[mode |-> "polling", updates |-> <<Update("c1", "message"), Update("c2", "command")>>, faults |-> 1],
     [mode |-> "polling", updates |-> <<Update("c1", "message"), Update("c1", "command"), Update("c1", "message")>>, faults |-> 0],
     [mode |-> "polling", updates |-> <<Update("c1", "callback"), Update("c1", "unaddressed"), Update("c1", "foreign")>>, faults |-> 0],
     [mode |-> "webhook", updates |-> <<Update("c1", "message"), Update("c1", "callback")>>, faults |-> 1]}

PairChannels == {"telegram"}
PairSenders == {"alice", "bob"}
PairCodes == {"k1", "k2"}
AllowListed == {}
Tasks == {"inbound", "operator", "runtime2"}
LockOf == [t \in Tasks |-> IF t = "runtime2" THEN "second" ELSE "gateway"]

ChannelNames == {"a", "b"}
LifeSetups == [order : {<<"a", "b">>, <<>>}, removable : {{}, {"a"}}, deaf : {{}, {"b"}}]

Event(sender, text) ==
    [kind |-> "message", subtype |-> "", bot |-> FALSE, sender |-> sender, account |-> "", room |-> "n",
     root |-> "", id |-> "m1", text |-> text, group |-> "", ref |-> "trusted"]
Cfg == [rooms |-> {}, senders |-> {}, allowed |-> {"ana"}, noPrivate |-> FALSE, number |-> "n", mentionText |-> "", autoReply |-> TRUE]

Frame(sender, text) == [kind |-> "event", event |-> Event(sender, text)]
Garbage == [kind |-> "garbage"]
Reconnect == [kind |-> "reconnect"]
SockSetup(adapters, frames, faults) == [adapter : adapters, cfg : {Cfg}, frames : {frames}, faults : {faults}]
SockSetups ==
    SockSetup({"discord", "slack", "mattermost", "napcat", "signal", "dingtalk", "wecom"},
              <<Frame("ana", "hi"), Frame("ana", "yo")>>, 1)
    \cup SockSetup({"discord", "dingtalk", "signal", "wecom"}, <<Garbage, Frame("self", "hi"), Reconnect>>, 0)
    \cup SockSetup({"slack", "dingtalk"}, <<Frame("ana", "hi")>>, 2)
    \cup SockSetup({"napcat"}, <<>>, 5)

Jobs == {"j1", "j2"}
DelSetup(adapters, events, window, limit) ==
    [adapter : adapters, cfg : {Cfg}, events : {events}, window : {window}, limit : {limit}, faults : {2}]
DelSetups ==
    DelSetup({"matrix", "weixin", "email", "mochat", "panel"}, <<Event("ana", "a"), Event("", "b"), Event("ana", "c")>>, 2, 2)
    \cup DelSetup({"whatsapp", "linear", "feishu", "msteams"}, <<Event("ana", "a"), Event("ana", "c")>>, 1, 2)
    \cup DelSetup({"whatsapp"}, <<Event("ana", "a"), Event("ana", "c")>>, 1, 1)

Clients == {"k1", "k2"}
Talkers == {"k1"}

(* The filters: every adapter under an open and a restrictive configuration, and what a platform may send. *)
AdapterNames ==
    {"discord", "slack", "mattermost", "napcat", "signal", "dingtalk", "wecom", "matrix", "email", "weixin", "mochat",
     "whatsapp", "linear", "msteams", "feishu"}
ProbeCfgs ==
    {[rooms |-> {}, senders |-> {}, allowed |-> {"ana", "staff", "self"}, noPrivate |-> FALSE, number |-> "r", mentionText |-> "hello",
      autoReply |-> TRUE],
     [rooms |-> {"r"}, senders |-> {"ana"}, allowed |-> {"ana"}, noPrivate |-> TRUE, number |-> "r", mentionText |-> "", autoReply |-> FALSE]}
Probes == [adapter : AdapterNames, cfg : ProbeCfgs]
ProbeEvents ==
    [kind : {"message", "media"}, subtype : {"", "sync"}, bot : BOOLEAN, sender : {"", "ana", "self"}, account : {"", "staff", "self"},
     room : {"", "r"}, root : {"", "t"}, id : {"m"}, text : {"hi", " "}, group : {"", "g"}, ref : {"", "trusted", "other"}]
(* Matrix files events under the room they belong to, MoChat asks for one session or panel at a time. *)
Arrives(adapter, e) == adapter \in {"matrix", "mochat"} => e.room # ""
ProbeReplies ==
    [sent : BOOLEAN, read : BOOLEAN, oversize : BOOLEAN, status : {200, 204, 299, 300, 500}, body : {"empty", "json", "garbage"}, ok : BOOLEAN]

-----------------------------------------------------------------------------
A == INSTANCE Adapters
Tg == INSTANCE Telegram
Mgr == INSTANCE ChannelManager
Loops == INSTANCE AdapterLoops
Ws == INSTANCE WebSocketServer

Parts == {"telegram", "pairing", "manager", "socket", "delivery", "websocket", "filters"}
AnyProbe == CHOOSE p \in Probes : TRUE
AnyTg == CHOOSE s \in TgSetups : TRUE
AnyLife == CHOOSE s \in LifeSetups : TRUE
AnySock == CHOOSE s \in SockSetups : TRUE
AnyDel == CHOOSE s \in DelSetups : TRUE
Init ==
    /\ which \in Parts
    /\ probe \in (IF which = "filters" THEN Probes ELSE {AnyProbe})
    /\ Tg!TgInit /\ (which = "telegram" \/ tgSetup = AnyTg)
    /\ Mgr!PairInit
    /\ Mgr!LifeInit /\ (which = "manager" \/ lifeSetup = AnyLife)
    /\ Loops!SockInit /\ (which = "socket" \/ sockSetup = AnySock)
    /\ Loops!DelInit /\ (which = "delivery" \/ delSetup = AnyDel)
    /\ Ws!WsInit

TelegramStep == which = "telegram" /\ Tg!TgNext /\ UNCHANGED <<which, probe, pairing, manager, socket, delivery, websocket>>
PairingStep == which = "pairing" /\ Mgr!PairNext /\ UNCHANGED <<which, probe, tg, manager, socket, delivery, websocket>>
ManagerStep == which = "manager" /\ Mgr!LifeNext /\ UNCHANGED <<which, probe, tg, pairing, socket, delivery, websocket>>
SocketStep == which = "socket" /\ Loops!SockNext /\ UNCHANGED <<which, probe, tg, pairing, manager, delivery, websocket>>
DeliveryStep == which = "delivery" /\ Loops!DelNext /\ UNCHANGED <<which, probe, tg, pairing, manager, socket, websocket>>
WebSocketStep == which = "websocket" /\ Ws!WsNext /\ UNCHANGED <<which, probe, tg, pairing, manager, socket, delivery>>
Next == TelegramStep \/ PairingStep \/ ManagerStep \/ SocketStep \/ DeliveryStep \/ WebSocketStep

(* The fairness of the modules, each for the behaviours that are about it. *)
Fairness ==
    /\ WF_tg(which = "telegram" /\ Tg!LifeStep)
    /\ \A w \in Workers : WF_tg(which = "telegram" /\ Tg!WorkerStep(w))
    /\ WF_tg(which = "telegram" /\ \E i \in 1 .. Len(tgSetup.updates) : Tg!ServeHTTP(i))
    /\ WF_manager(which = "manager" /\ Mgr!StartAllStep)
    /\ WF_manager(which = "manager" /\ Mgr!StopStep)
    /\ WF_manager(which = "manager" /\ Mgr!DispatcherEnds)
    /\ \A n \in ChannelNames : WF_manager(which = "manager" /\ Mgr!ChannelStep(n))
    /\ WF_socket(which = "socket" /\ Loops!ReaderStep)
    /\ WF_socket(which = "socket" /\ Loops!heartbeat)
    /\ WF_socket(which = "socket" /\ Loops!BeatAnswered)
    /\ WF_socket(which = "socket" /\ Loops!StrayReturns)
    /\ WF_socket(which = "socket" /\ Loops!StopStep)
    /\ WF_delivery(which = "delivery" /\ Loops!DelStart)
    /\ WF_delivery(which = "delivery" /\ Loops!DelEnds)
    /\ WF_delivery(which = "delivery" /\ \E j \in Jobs : Loops!PlatformPosts(j))
    /\ \A j \in Jobs : WF_delivery(which = "delivery" /\ Loops!JobStep(j))
    /\ WF_websocket(which = "websocket" /\ Ws!ServerStep)
    /\ \A c \in Clients : WF_websocket(which = "websocket" /\ Ws!HandlerStep(c))
    /\ \A c \in Clients : WF_websocket(which = "websocket" /\ Ws!writeLoop(c))
Spec == Init /\ [][Next]_vars /\ Fairness

-----------------------------------------------------------------------------
(* What comes in.  Telegram's updates: queued ones are never stranded, lost only by Stop, in    *)
(* order, one drain (channel.go).  No socket outlives its channel, acknowledged events were    *)
(* handled, in order (the adapters' read loops).  Nothing the platform believes delivered is   *)
(* missing and nothing is answered twice (the adapters' webhooks and cursors).                 *)
IntakeInv ==
    /\ which = "telegram" => Tg!TgInv
    /\ which = "socket" => Loops!SocketInv
    /\ which = "delivery" => Loops!DeliveryKept
(* What is served.  The pairing file holds what was decided, and who is admitted was shown a   *)
(* code (pairing/store.go); the manager's status tells the truth and what it stopped is        *)
(* stopped (channels/manager.go); the WebSocket server keeps its places, stops completely and  *)
(* keeps the order (websocket).                                                                *)
ServingInv ==
    /\ which = "pairing" => Mgr!PairInv
    /\ which = "manager" => Mgr!LifeInv
    /\ which = "websocket" => Ws!WsInv
(* For every adapter's filter and Send (handleMessage, handleEvent, apiCall): an answer goes   *)
(* back where the question came from, the bot never hears itself, and nil means taken.         *)
FiltersSound ==
    which = "filters" =>
        /\ \A e \in {x \in ProbeEvents : Arrives(probe.adapter, x)} :
            A!ReplyGoesHome(probe.adapter, e, probe.cfg) /\ A!NeverItself(probe.adapter, e, probe.cfg)
        /\ \A reply \in ProbeReplies, output \in BOOLEAN : A!NilMeansTaken(reply, output)
(* Every channel comes to rest again and again: what was written is answered, and after a Stop *)
(* or a cancelled context its goroutines are gone.                                             *)
ChannelsSettle ==
    []<>(\/ which = "telegram" /\ Tg!TgAtRest
         \/ which = "manager" /\ Mgr!LifeAtRest
         \/ which = "socket" /\ Loops!SockAtRest
         \/ which = "delivery" /\ Loops!DelAtRest
         \/ which = "websocket" /\ Ws!WsAtRest
         \/ which \in {"pairing", "filters"})
=============================================================================
