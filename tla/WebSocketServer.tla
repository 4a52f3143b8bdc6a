-------------------------- MODULE WebSocketServer ---------------------------
(***************************************************************************)
(* The WebSocket channel: a server whose clients are chats.  A request     *)
(* handler reserves a place under the mutex, upgrades the connection       *)
(* without it, and registers the client under it again; a writer goroutine *)
(* per client drains a bounded queue.  Stop may be running twice, for the  *)
(* channel manager and for Start's cancelled context, at any point of all  *)
(* that.  An upgraded connection is no longer the HTTP server's:           *)
(* Shutdown neither closes nor waits for it.                               *)
(***************************************************************************)
EXTENDS Integers, Sequences, SequencesExt, FiniteSets

CONSTANTS
    Clients, MaxConnections, OutboundQueueSize,
    Talkers,       \* the clients that exchange messages with the bot; the others only come and go
    MaxSends,      \* messages the bot sends to one client
    MaxWsFaults

StopTasks == {"manager", "context"}

VARIABLES
    wsLife, listening, wsStopping, wsCancelled, reservations, conns,
    client,        \* per client: the handler's position, the socket, done, queue, writer
    wsStop,        \* per call of Stop: its position and the connections it still has to close
    early,         \* calls of Stop that set stopping before Start cleared it
    queued, arrived, heard, wsFaults

wsServer == <<wsLife, listening, wsStopping, wsCancelled, reservations, conns>>
wsHistory == <<queued, arrived, heard>>
wsVars == <<wsServer, client, wsStop, early, wsHistory, wsFaults>>

NoClient == [pc |-> "away", open |-> FALSE, done |-> FALSE, queue |-> <<>>, writer |-> "none"]
WsFault == wsFaults < MaxWsFaults /\ wsFaults' = wsFaults + 1
NoWsFault == UNCHANGED wsFaults

WsInit ==
    /\ wsLife = "new" /\ listening = FALSE /\ wsStopping = FALSE /\ wsCancelled = FALSE /\ reservations = 0 /\ conns = {}
    /\ client = [c \in Clients |-> NoClient]
    /\ wsStop = [s \in StopTasks |-> [pc |-> "idle", left |-> {}]] /\ early = {}
    /\ queued = [c \in Clients |-> <<>>] /\ arrived = [c \in Clients |-> <<>>] /\ heard = {} /\ wsFaults = 0

-----------------------------------------------------------------------------
(* Start *)

WsStart ==
    /\ wsLife = "new"
    /\ \/ wsLife' = "up" /\ listening' = TRUE /\ wsStopping' = FALSE /\ NoWsFault
       \/ wsLife' = "ended" /\ UNCHANGED <<listening, wsStopping>> /\ WsFault
    /\ UNCHANGED <<wsCancelled, reservations, conns, client, wsStop, early, wsHistory>>
(* The manager cancels the context after its Stop returned, or on its own. *)
WsCancel ==
    /\ ~wsCancelled /\ wsCancelled' = TRUE
    /\ UNCHANGED <<wsLife, listening, wsStopping, reservations, conns, client, wsStop, early, wsHistory, wsFaults>>
(* Accept fails for good: Serve closes the listener and returns an error. *)
ServeFails ==
    /\ wsLife = "up" /\ listening /\ WsFault /\ listening' = FALSE
    /\ UNCHANGED <<wsLife, wsStopping, wsCancelled, reservations, conns, client, wsStop, early, wsHistory>>
(* select: Serve returned, closed by Shutdown or failed, or Stop under the context has run. *)
StartReturns ==
    /\ wsLife = "up"
    /\ \/ ~listening /\ wsStop["context"].pc = "idle"
       \/ wsStop["context"].pc \in {"returned", "expired"}
    /\ wsLife' = "ended"
    /\ UNCHANGED <<listening, wsStopping, wsCancelled, reservations, conns, client, wsStop, early, wsHistory, wsFaults>>

-----------------------------------------------------------------------------
(* Stop *)

StopSets(s) ==
    /\ wsStop[s].pc = "idle"
    /\ s = "context" => wsLife = "up" /\ wsCancelled
    /\ wsStopping' = TRUE
    /\ early' = IF wsLife = "new" THEN early \cup {s} ELSE early
    /\ wsStop' = [wsStop EXCEPT ![s].pc = "waiting"]
    /\ UNCHANGED <<wsLife, listening, wsCancelled, reservations, conns, client, wsHistory, wsFaults>>
(* The mutant: Stop takes its snapshot without waiting for the reserved places. *)
StopSnapshotsAtOnce(s) ==
    /\ wsStop[s].pc = "waiting"
    /\ wsStop' = [wsStop EXCEPT ![s] = [pc |-> IF wsLife = "new" THEN "returned" ELSE "closing", left |-> conns]]
    /\ UNCHANGED <<wsServer, client, early, wsHistory, wsFaults>>
StopSnapshots(s) ==
    /\ wsStop[s].pc = "waiting" /\ reservations = 0
    /\ wsStop' = [wsStop EXCEPT ![s] = [pc |-> IF wsLife = "new" THEN "returned" ELSE "closing", left |-> conns]]
    /\ UNCHANGED <<wsServer, client, early, wsHistory, wsFaults>>
StopExpires(s) ==
    /\ \/ wsStop[s].pc = "waiting" /\ reservations > 0
       \/ wsStop[s].pc = "shutdown" /\ \E c \in Clients : client[c].pc = "arriving"
    /\ WsFault /\ wsStop' = [wsStop EXCEPT ![s].pc = "expired"]
    /\ UNCHANGED <<wsServer, client, early, wsHistory>>
(* The mutant: Stop leaves the upgraded connections to Shutdown. *)
StopClosesNobody(s) ==
    /\ wsStop[s].pc = "closing" /\ listening' = FALSE
    /\ wsStop' = [wsStop EXCEPT ![s] = [pc |-> "shutdown", left |-> {}]]
    /\ UNCHANGED <<wsLife, wsStopping, wsCancelled, reservations, conns, client, early, wsHistory, wsFaults>>
StopCloses(s) ==
    /\ wsStop[s].pc = "closing"
    /\ \/ \E c \in wsStop[s].left :
            /\ client' = [client EXCEPT ![c].open = FALSE, ![c].done = TRUE]
            /\ wsStop' = [wsStop EXCEPT ![s].left = @ \ {c}]
            /\ UNCHANGED listening
       \/ /\ wsStop[s].left = {} /\ listening' = FALSE
          /\ wsStop' = [wsStop EXCEPT ![s].pc = "shutdown"] /\ UNCHANGED client
    /\ UNCHANGED <<wsLife, wsStopping, wsCancelled, reservations, conns, early, wsHistory, wsFaults>>
(* server.Shutdown waits for requests that are not upgraded yet. *)
ShutdownReturns(s) ==
    /\ wsStop[s].pc = "shutdown" /\ \A c \in Clients : client[c].pc # "arriving"
    /\ wsStop' = [wsStop EXCEPT ![s].pc = "returned"]
    /\ UNCHANGED <<wsServer, client, early, wsHistory, wsFaults>>

-----------------------------------------------------------------------------
(* serveHTTP *)

Connects(c) ==
    /\ listening /\ client[c].pc = "away" /\ client' = [client EXCEPT ![c].pc = "arriving"]
    /\ UNCHANGED <<wsServer, wsStop, early, wsHistory, wsFaults>>
Reserves(c) ==
    /\ client[c].pc = "arriving"
    /\ LET refuse == wsStopping \/ Cardinality(conns) + reservations >= MaxConnections IN
       /\ client' = [client EXCEPT ![c].pc = IF refuse THEN "gone" ELSE "reserved"]
       /\ reservations' = IF refuse THEN reservations ELSE reservations + 1
    /\ UNCHANGED <<wsLife, listening, wsStopping, wsCancelled, conns, wsStop, early, wsHistory, wsFaults>>
(* websocket.Accept and the ready frame; the deferred function gives the place back. *)
Accepts(c) ==
    /\ client[c].pc = "reserved" /\ client' = [client EXCEPT ![c].pc = "accepted", ![c].open = TRUE]
    /\ UNCHANGED <<wsServer, wsStop, early, wsHistory, wsFaults>>
AcceptFails(c) ==
    /\ client[c].pc \in {"reserved", "accepted"} /\ WsFault
    /\ client' = [client EXCEPT ![c] = [NoClient EXCEPT !.pc = "gone"]] /\ reservations' = reservations - 1
    /\ UNCHANGED <<wsLife, listening, wsStopping, wsCancelled, conns, wsStop, early, wsHistory>>
Registers(c) ==
    /\ client[c].pc = "accepted"
    /\ conns' = conns \cup {c} /\ reservations' = reservations - 1
    /\ client' = [client EXCEPT ![c].pc = "reading", ![c].writer = "running"]
    /\ UNCHANGED <<wsLife, listening, wsStopping, wsCancelled, wsStop, early, wsHistory, wsFaults>>
(* A frame: text is handed on, a blank one passed over, one that cannot be decoded ends the client. *)
ReadsClient(c) ==
    /\ client[c].pc = "reading"
    /\ \/ client[c].open /\ c \in Talkers \ heard /\ heard' = heard \cup {c} /\ UNCHANGED client
       \/ /\ client' = [client EXCEPT ![c].pc = "leaving", ![c].open = FALSE] /\ UNCHANGED heard
    /\ UNCHANGED <<wsServer, wsStop, early, queued, arrived, wsFaults>>
ReadEnds(c) ==
    /\ client[c].pc = "reading" /\ ~client[c].open /\ client' = [client EXCEPT ![c].pc = "leaving"]
    /\ UNCHANGED <<wsServer, wsStop, early, wsHistory, wsFaults>>
Leaves(c) ==
    /\ client[c].pc = "leaving"
    /\ client' = [client EXCEPT ![c].pc = "gone", ![c].done = TRUE, ![c].open = FALSE] /\ conns' = conns \ {c}
    /\ UNCHANGED <<wsLife, listening, wsStopping, wsCancelled, reservations, wsStop, early, wsHistory, wsFaults>>

-----------------------------------------------------------------------------
(* Send, SendDelta: enqueue; writeLoop *)

(* Both cases of the select are ready when the client is done and its queue has room. *)
enqueue(c) ==
    /\ c \in conns \cap Talkers /\ Len(queued[c]) < MaxSends /\ Len(client[c].queue) < OutboundQueueSize
    /\ LET n == Len(queued[c]) + 1 IN
       /\ queued' = [queued EXCEPT ![c] = Append(@, n)]
       /\ client' = [client EXCEPT ![c].queue = Append(@, n)]
    /\ UNCHANGED <<wsServer, wsStop, early, arrived, heard, wsFaults>>
writeLoop(c) ==
    /\ client[c].writer = "running"
    /\ \/ client[c].done /\ client' = [client EXCEPT ![c].writer = "ended"] /\ UNCHANGED arrived
       \/ /\ client[c].queue # <<>> /\ client[c].open
          /\ arrived' = [arrived EXCEPT ![c] = Append(@, Head(client[c].queue))]
          /\ client' = [client EXCEPT ![c].queue = Tail(@)]
       \/ /\ client[c].queue # <<>> /\ ~client[c].open /\ UNCHANGED arrived
          /\ client' = [client EXCEPT ![c].queue = Tail(@), ![c].done = TRUE, ![c].writer = "ended"]
    /\ UNCHANGED <<wsServer, wsStop, early, queued, heard, wsFaults>>

-----------------------------------------------------------------------------
StopTaskStep(s) == StopSnapshots(s) \/ StopExpires(s) \/ StopCloses(s) \/ ShutdownReturns(s)
HandlerStep(c) == Reserves(c) \/ Accepts(c) \/ AcceptFails(c) \/ Registers(c) \/ ReadEnds(c) \/ Leaves(c)
ServerStep == WsStart \/ StartReturns \/ StopSets("context") \/ \E s \in StopTasks : StopTaskStep(s)
WsNext ==
    \/ WsCancel \/ ServeFails \/ StopSets("manager") \/ ServerStep
    \/ \E c \in Clients : Connects(c) \/ HandlerStep(c) \/ ReadsClient(c) \/ enqueue(c) \/ writeLoop(c)
WsFairness ==
    /\ WF_wsVars(ServerStep)
    /\ \A c \in Clients : WF_wsVars(HandlerStep(c)) /\ WF_wsVars(writeLoop(c))
WsSpec == WsInit /\ [][WsNext]_wsVars /\ WsFairness

-----------------------------------------------------------------------------
(* Properties *)

WsTypeOK == wsLife \in {"new", "up", "ended"} /\ conns \subseteq Clients /\ reservations \in 0 .. Cardinality(Clients)

(* The places given out, registered or reserved, never exceed MaxConnections, and a place is   *)
(* given back by every way a handler can end.                                                  *)
PlacesKept ==
    /\ Cardinality(conns) + reservations <= MaxConnections
    /\ reservations = Cardinality({c \in Clients : client[c].pc \in {"reserved", "accepted"}})
    /\ conns = {c \in Clients : client[c].pc \in {"reading", "leaving"}}

(* A Stop that returned nil leaves no connection open and none on its way, although Shutdown   *)
(* does not see upgraded ones - unless it had set stopping before Start cleared it.            *)
StoppedIsClosed ==
    \A s \in StopTasks \ early : wsStop[s].pc = "returned" =>
        \A c \in Clients : ~client[c].open /\ client[c].pc \notin {"reserved", "accepted"}

(* What a client receives is what was accepted for it, in that order and without a gap. *)
FramesInOrder == \A c \in Clients : IsPrefix(arrived[c], queued[c]) /\ Len(client[c].queue) <= OutboundQueueSize

(* The WebSocket server keeps to its number of places, stops completely and keeps the order of *)
(* what it sends.                                                                              *)
WsInv == WsTypeOK /\ PlacesKept /\ StoppedIsClosed /\ FramesInOrder

(* Once the context is cancelled the channel comes to an end: Start returns, every handler and *)
(* every writer goroutine with it - unless Stop ran out of time, or overlapped with Start, or   *)
(* Serve failed, after which only the manager's Stop closes what is connected.                  *)
WsAtRest ==
    \/ ~wsCancelled \/ early # {}
    \/ \E s \in StopTasks : wsStop[s].pc = "expired"
    \/ wsLife = "ended" /\ \A s \in StopTasks : wsStop[s].pc = "idle"
    \/ wsLife = "ended" /\ \A c \in Clients : client[c].pc \in {"away", "gone"} /\ client[c].writer # "running"
WsSettles == []<>WsAtRest
=============================================================================
