---------------------------- MODULE AdapterLoops ----------------------------
(***************************************************************************)
(* The channel adapters that hold a socket to their platform: Discord,     *)
(* Slack, Mattermost, Napcat/QQ, Signal, DingTalk and WeCom.  They share   *)
(* one machine: Start verifies the account, then connects, reads events    *)
(* until the socket fails, waits and connects again, until it is stopped.  *)
(* What differs is recorded per adapter, in one record for its Start and   *)
(* one for its connection: whether the account is verified first, whether  *)
(* the address has to be asked for, the handshake, when an event is        *)
(* acknowledged, what a frame that does not decode does, the heartbeat.    *)
(*                                                                         *)
(* The platform is external: it pushes the events written while a          *)
(* connection is up, sends an unacknowledged event again on the next       *)
(* connection where events are acknowledged at all, and may fall silent.   *)
(***************************************************************************)
EXTENDS Adapters, FiniteSets, FiniteSetsExt

CONSTANTS
    SockSetups     \* [adapter, frames, faults]: the adapter, what its platform will push, how many faults

VARIABLES
    sockSetup, sPc, sConn, held, sRunning, sCtx, sStop, sBackoff, ending,
    inHand,                                  \* the frame the reader works on, 0 for none
    beat, beatAcked,                         \* the heartbeat goroutine
    stray,                                   \* one that was cancelled and has not returned yet
    made, line, unacked, mute,               \* the platform
    sPublished, refused, failed, acked, missed, sLost, sFaults

readerVars == <<sPc, sConn, held, sRunning, sBackoff, ending, inHand>>
beatVars == <<beat, beatAcked, stray>>
platformVars == <<made, line, unacked, mute>>
outcomeVars == <<sPublished, refused, failed, acked, missed, sLost>>
sockVars == <<sockSetup, readerVars, sCtx, sStop, beatVars, platformVars, outcomeVars, sFaults>>

-----------------------------------------------------------------------------
(* The adapters *)

discordStart == [verifies |-> TRUE, leavesAtOnce |-> FALSE, calms |-> FALSE]
discordRunGateway ==
    [asks |-> TRUE, shakes |-> TRUE, storesLate |-> FALSE, acks |-> "never", garbage |-> "ends", beats |-> "answered"]
slackStart == [verifies |-> TRUE, leavesAtOnce |-> FALSE, calms |-> FALSE]
slackRunSocket ==
    [asks |-> TRUE, shakes |-> FALSE, storesLate |-> FALSE, acks |-> "first", garbage |-> "ends", beats |-> "never"]
mattermostStart == [verifies |-> TRUE, leavesAtOnce |-> FALSE, calms |-> FALSE]
mattermostRunSocket ==
    [asks |-> FALSE, shakes |-> TRUE, storesLate |-> FALSE, acks |-> "never", garbage |-> "ends", beats |-> "never"]
napcatStart == [verifies |-> FALSE, leavesAtOnce |-> FALSE, calms |-> FALSE]
napcatRunSocket ==
    [asks |-> FALSE, shakes |-> FALSE, storesLate |-> FALSE, acks |-> "never", garbage |-> "ends", beats |-> "never"]
signalStart == [verifies |-> FALSE, leavesAtOnce |-> FALSE, calms |-> FALSE]
signalReceive ==
    [asks |-> FALSE, shakes |-> FALSE, storesLate |-> FALSE, acks |-> "never", garbage |-> "skips", beats |-> "never"]
dingtalkStart == [verifies |-> FALSE, leavesAtOnce |-> TRUE, calms |-> FALSE]
(* The mutant: the callback is acknowledged before it is handed on. *)
dingtalkAcksFirst ==
    [asks |-> TRUE, shakes |-> FALSE, storesLate |-> FALSE, acks |-> "first", garbage |-> "skips", beats |-> "never"]
dingtalkConnectAndRun ==
    [asks |-> TRUE, shakes |-> FALSE, storesLate |-> FALSE, acks |-> "after", garbage |-> "skips", beats |-> "never"]
wecomStart == [verifies |-> FALSE, leavesAtOnce |-> TRUE, calms |-> TRUE]
wecomConnectAndRun ==
    [asks |-> FALSE, shakes |-> TRUE, storesLate |-> TRUE, acks |-> "never", garbage |-> "skips", beats |-> "silence"]

StartOf ==
    [discord |-> discordStart, slack |-> slackStart, mattermost |-> mattermostStart, napcat |-> napcatStart,
     signal |-> signalStart, dingtalk |-> dingtalkStart, wecom |-> wecomStart]
RunOf ==
    [discord |-> discordRunGateway, slack |-> slackRunSocket, mattermost |-> mattermostRunSocket,
     napcat |-> napcatRunSocket, signal |-> signalReceive, dingtalk |-> dingtalkConnectAndRun, wecom |-> wecomConnectAndRun]

S == StartOf[sockSetup.adapter]
R == RunOf[sockSetup.adapter]
Frames == sockSetup.frames
Acks == R.acks # "never"
MaxBackoff == 30

SockFault == sFaults < sockSetup.faults /\ sFaults' = sFaults + 1
NoFault == UNCHANGED sFaults

SockInit ==
    /\ sockSetup \in SockSetups
    /\ sPc = "new" /\ sConn = "none" /\ held = FALSE /\ sRunning = FALSE /\ sBackoff = 1 /\ ending = "failed" /\ inHand = 0
    /\ sCtx = FALSE /\ sStop = "idle" /\ beat = FALSE /\ beatAcked = TRUE /\ stray = FALSE
    /\ made = 0 /\ line = <<>> /\ unacked = {} /\ mute = FALSE
    /\ sPublished = <<>> /\ refused = {} /\ failed = {} /\ acked = {} /\ missed = {} /\ sLost = {} /\ sFaults = 0

-----------------------------------------------------------------------------
(* The platform *)

(* What is sent again until it is acknowledged: the frames that decode, where there are acknowledgements. *)
Resent(i) == Acks /\ Frames[i].kind # "garbage"
(* The frames on a connection that ends: sent again, or gone. *)
LineDies ==
    /\ line' = <<>>
    /\ missed' = missed \cup {i \in ToSet(line) : ~Resent(i)}

Listening == sConn = "up" /\ sPc \in {"read", "ack", "dispatch"} /\ ~mute
PlatformPushes ==
    /\ made < Len(Frames) /\ made' = made + 1
    /\ line' = IF Listening THEN Append(line, made + 1) ELSE line
    /\ unacked' = IF Resent(made + 1) THEN unacked \cup {made + 1} ELSE unacked
    /\ missed' = IF Listening \/ Resent(made + 1) THEN missed ELSE missed \cup {made + 1}
    /\ UNCHANGED <<sockSetup, readerVars, sCtx, sStop, beatVars, mute, sPublished, refused, failed, acked, sLost, sFaults>>
ConnectionDrops ==
    /\ sConn = "up" /\ SockFault /\ sConn' = "cut" /\ LineDies
    /\ UNCHANGED <<sockSetup, sPc, held, sRunning, sBackoff, ending, inHand, sCtx, sStop, beatVars, made, unacked, mute,
                   sPublished, refused, failed, acked, sLost>>
PeerFallsSilent ==
    /\ sConn = "up" /\ sPc = "read" /\ ~mute /\ SockFault /\ mute' = TRUE /\ LineDies
    /\ UNCHANGED <<sockSetup, readerVars, sCtx, sStop, beatVars, made, unacked, sPublished, refused, failed, acked, sLost>>

-----------------------------------------------------------------------------
(* Start *)

OutOfReader == UNCHANGED <<sockSetup, sCtx, sStop, made, unacked, sPublished, refused, failed, acked, sLost>>
Quiet == OutOfReader /\ UNCHANGED <<beatVars, line, mute, missed>>
Goto(pc) == sPc' = pc /\ UNCHANGED <<sConn, held, sRunning, sBackoff, ending, inHand>>
Returns == sPc' = "ended" /\ sRunning' = FALSE /\ UNCHANGED <<sConn, held, sBackoff, ending, inHand>>

Start ==
    /\ sPc = "new" /\ Quiet /\ NoFault
    /\ \/ S.verifies /\ Goto("verify")
       \/ ~S.verifies /\ sPc' = "loop" /\ sRunning' = TRUE /\ UNCHANGED <<sConn, held, sBackoff, ending, inHand>>
verifyBot ==
    /\ sPc = "verify" /\ ~sCtx /\ Quiet /\ NoFault
    /\ sPc' = "loop" /\ sRunning' = TRUE /\ UNCHANGED <<sConn, held, sBackoff, ending, inHand>>
VerifyFails ==
    /\ sPc = "verify" /\ Quiet /\ (SockFault \/ (sCtx /\ NoFault)) /\ Returns
LoopHead ==
    /\ sPc = "loop" /\ Quiet /\ NoFault
    /\ \/ sRunning /\ ~sCtx /\ Goto(IF R.asks THEN "ask" ELSE "dial")
       \/ (~sRunning \/ sCtx) /\ Returns

(* The address of the socket (gateway/bot, apps.connections.open, the stream endpoint), then the dial. *)
Asks ==
    /\ sPc = "ask" /\ Quiet
    /\ \/ ~sCtx /\ Goto("dial") /\ NoFault
       \/ (SockFault \/ (sCtx /\ NoFault)) /\ Goto("after")
Dials ==
    /\ sPc = "dial" /\ OutOfReader /\ UNCHANGED <<beatVars, line, missed>>
    /\ \/ ~sCtx /\ sPc' = "dialed" /\ sConn' = "up" /\ mute' = FALSE /\ NoFault /\ UNCHANGED <<held, sRunning, sBackoff, ending, inHand>>
       \/ (SockFault \/ (sCtx /\ NoFault)) /\ Goto("after") /\ UNCHANGED mute

(* What follows c.conn = conn, and what follows the handshake: the read loop, with its heartbeat. *)
BeginsReading ==
    /\ sPc' = "read"
    /\ line' = SetToSortSeq(unacked, <)
    /\ beat' = (R.beats # "never") /\ beatAcked' = TRUE /\ UNCHANGED stray
Stores ==
    /\ \/ sPc = "dialed" /\ ~R.storesLate
       \/ sPc = "shaken" /\ R.storesLate
    /\ held' = TRUE /\ OutOfReader /\ NoFault
    /\ IF sPc = "dialed" /\ R.shakes
       THEN sPc' = "shake" /\ UNCHANGED <<line, beatVars>>
       ELSE BeginsReading
    /\ UNCHANGED <<sConn, sRunning, sBackoff, ending, inHand, mute, missed>>
Shakes ==
    /\ sPc = "shake" \/ (sPc = "dialed" /\ R.storesLate)
    /\ OutOfReader /\ UNCHANGED <<mute, missed>>
    /\ \/ /\ sConn = "up" /\ ~sCtx /\ NoFault
          /\ IF R.storesLate THEN sPc' = "shaken" /\ UNCHANGED <<line, beatVars>> ELSE BeginsReading
       \/ (SockFault \/ ((sConn = "cut" \/ sCtx) /\ NoFault)) /\ sPc' = "leave" /\ UNCHANGED <<line, beatVars>>
    /\ UNCHANGED <<sConn, held, sRunning, sBackoff, ending, inHand>>

-----------------------------------------------------------------------------
(* The read loop *)

Leaves(how) == sPc' = "leave" /\ inHand' = 0 /\ ending' = how /\ UNCHANGED <<sConn, held, sRunning, sBackoff>>

ReadFails ==
    /\ sPc = "read" /\ (sConn = "cut" \/ sCtx) /\ Leaves("read") /\ Quiet /\ NoFault
(* One frame: garbage, which nobody acknowledges, the platform's wish to reconnect, or an event. *)
ReadsFrame ==
    /\ sPc = "read" /\ sConn = "up" /\ line # <<>> /\ NoFault
    /\ line' = Tail(line)
    /\ LET i == Head(line)
           kind == Frames[i].kind
           over == kind = "garbage" \/ kind = "reconnect"
       IN  /\ refused' = IF over THEN refused \cup {i} ELSE refused
           /\ unacked' = IF kind = "reconnect" THEN unacked \ {i} ELSE unacked
           /\ \/ kind = "garbage" /\ R.garbage = "skips" /\ UNCHANGED readerVars
              \/ kind = "garbage" /\ R.garbage = "ends" /\ Leaves("read")
              \/ kind = "reconnect" /\ Leaves("kicked")
              \/ /\ ~over /\ inHand' = i /\ sPc' = IF R.acks = "first" THEN "ack" ELSE "dispatch"
                 /\ UNCHANGED <<sConn, held, sRunning, sBackoff, ending>>
    /\ UNCHANGED <<sockSetup, sCtx, sStop, beatVars, made, mute, sPublished, failed, acked, missed, sLost>>

(* The write of the acknowledgement: before the event is handed on, or after it with the outcome. *)
WritesAck ==
    /\ sPc = "ack"
    /\ LET ok == R.acks = "first" \/ inHand \notin failed IN
       \/ /\ sConn = "up" /\ ~sCtx /\ NoFault
          /\ acked' = IF ok THEN acked \cup {inHand} ELSE acked
          /\ unacked' = IF ok THEN unacked \ {inHand} ELSE unacked
          /\ failed' = IF ok THEN failed ELSE failed \ {inHand}
          /\ line' = IF ok THEN line ELSE Append(line, inHand)
          /\ IF R.acks = "first" THEN sPc' = "dispatch" /\ UNCHANGED inHand ELSE sPc' = "read" /\ inHand' = 0
          /\ UNCHANGED <<sConn, held, sRunning, sBackoff, ending>>
       \/ /\ sConn = "cut" \/ sCtx
          /\ failed' = failed \ {inHand} /\ Leaves("read") /\ NoFault /\ UNCHANGED <<acked, unacked, line>>
    /\ UNCHANGED <<sockSetup, sCtx, sStop, beatVars, made, mute, sPublished, refused, missed, sLost>>

(* The filter and HandleMessage, whose publication may fail. *)
Event(i) == Frames[i].event
Requests(i) == Filter(sockSetup.adapter, Event(i), sockSetup.cfg)
Dispatches ==
    /\ sPc = "dispatch"
    /\ sPc' = IF R.acks = "after" THEN "ack" ELSE "read"
    /\ inHand' = IF R.acks = "after" THEN inHand ELSE 0
    /\ \/ Requests(inHand) = {} /\ refused' = refused \cup {inHand} /\ NoFault /\ UNCHANGED <<sPublished, failed>>
       \/ Requests(inHand) # {} /\ ~sCtx /\ sPublished' = Append(sPublished, inHand) /\ NoFault /\ UNCHANGED <<refused, failed>>
       \/ /\ Requests(inHand) # {} /\ (SockFault \/ (sCtx /\ NoFault))
          /\ failed' = failed \cup {inHand} /\ UNCHANGED <<sPublished, refused>>
    /\ UNCHANGED <<sockSetup, sConn, held, sRunning, sBackoff, ending, sCtx, sStop, beatVars, platformVars, acked, missed, sLost>>

-----------------------------------------------------------------------------
(* The end of a connection, and the wait for the next *)

(* Deferred: the heartbeat is cancelled, c.conn cleared, the socket closed.  Discord's heartbeat is *)
(* joined; WeCom's is left to find out at its next tick.                                            *)
Cleanup ==
    /\ sPc = "leave" /\ NoFault
    /\ sPc' = "after" /\ sConn' = "none" /\ held' = FALSE /\ beat' = FALSE
    /\ stray' = (stray \/ (beat /\ R.beats = "silence"))
    /\ LineDies
    /\ UNCHANGED <<sRunning, sBackoff, ending, inHand, beatAcked, mute>> /\ OutOfReader
AfterRun ==
    /\ sPc = "after" /\ Quiet /\ NoFault
    /\ \/ (sCtx \/ (S.leavesAtOnce /\ ~sRunning)) /\ Returns
       \/ /\ ~(sCtx \/ (S.leavesAtOnce /\ ~sRunning))
          /\ sPc' = "backoff" /\ ending' = "failed"
          /\ sBackoff' = IF ~S.calms \/ ending = "failed" THEN sBackoff ELSE IF ending = "kicked" THEN 3 ELSE 1
          /\ UNCHANGED <<sConn, held, sRunning, inHand>>
BackoffOver ==
    /\ sPc = "backoff" /\ Quiet /\ NoFault
    /\ \/ sCtx /\ Returns
       \/ ~sCtx /\ sPc' = "loop" /\ sBackoff' = Min({sBackoff * 2, MaxBackoff}) /\ UNCHANGED <<sConn, held, sRunning, ending, inHand>>

-----------------------------------------------------------------------------
(* heartbeat and heartbeatLoop *)

BeatCuts == sConn' = "cut" /\ beat' = FALSE /\ UNCHANGED <<beatAcked, stray>> /\ LineDies
heartbeat ==
    /\ beat /\ sConn = "up" /\ NoFault
    /\ \/ R.beats = "answered" /\ beatAcked /\ beatAcked' = FALSE /\ UNCHANGED <<sConn, beat, stray, line, missed>>
       \/ R.beats = "answered" /\ ~beatAcked /\ BeatCuts
       \/ R.beats = "silence" /\ (mute \/ sPc = "dispatch") /\ BeatCuts
    /\ UNCHANGED <<sPc, held, sRunning, sBackoff, ending, inHand, mute>> /\ OutOfReader
(* The reader takes the platform's answer to a heartbeat. *)
BeatAnswered ==
    /\ beat /\ ~beatAcked /\ sPc = "read" /\ sConn = "up" /\ ~mute /\ beatAcked' = TRUE
    /\ UNCHANGED <<sockSetup, readerVars, sCtx, sStop, beat, stray, platformVars, outcomeVars, sFaults>>
(* heartbeatLoop finds its context cancelled, or another connection in c.conn. *)
StrayReturns ==
    /\ stray /\ stray' = FALSE
    /\ UNCHANGED <<sockSetup, readerVars, sCtx, sStop, beat, beatAcked, platformVars, outcomeVars, sFaults>>

-----------------------------------------------------------------------------
(* Stop, the manager's cancellation, the death of the process *)

StopFlags ==
    /\ sStop = "idle" /\ sStop' = "flagged" /\ sRunning' = FALSE
    /\ UNCHANGED <<sockSetup, sPc, sConn, held, sBackoff, ending, inHand, sCtx, beatVars, platformVars, outcomeVars, sFaults>>
StopTakesConn ==
    /\ sStop = "flagged" /\ sStop' = "stopped"
    /\ IF held THEN held' = FALSE /\ sConn' = "cut" /\ LineDies ELSE UNCHANGED <<held, sConn, line, missed>>
    /\ UNCHANGED <<sockSetup, sPc, sRunning, sBackoff, ending, inHand, sCtx, beatVars, made, unacked, mute,
                   sPublished, refused, failed, acked, sLost, sFaults>>
ManagerCancels ==
    /\ sStop = "stopped" /\ ~sCtx /\ sCtx' = TRUE
    /\ UNCHANGED <<sockSetup, readerVars, sStop, beatVars, platformVars, outcomeVars, sFaults>>
ProcessDies ==
    /\ sPc \notin {"new", "ended"} /\ sStop = "idle" /\ SockFault
    /\ sPc' = "new" /\ sConn' = "none" /\ held' = FALSE /\ sRunning' = FALSE /\ sBackoff' = 1 /\ ending' = "failed" /\ inHand' = 0
    /\ beat' = FALSE /\ beatAcked' = TRUE /\ stray' = FALSE /\ LineDies
    /\ sLost' = IF inHand # 0 /\ inHand \notin unacked \cup ToSet(sPublished) \cup refused \cup failed
                THEN sLost \cup {inHand} ELSE sLost
    /\ failed' = failed \ unacked
    /\ UNCHANGED <<sockSetup, sCtx, sStop, made, unacked, mute, sPublished, refused, acked>>

-----------------------------------------------------------------------------
ReaderStep ==
    \/ Start \/ verifyBot \/ VerifyFails \/ LoopHead \/ Asks \/ Dials \/ Stores \/ Shakes
    \/ ReadFails \/ ReadsFrame \/ WritesAck \/ Dispatches \/ Cleanup \/ AfterRun \/ BackoffOver
StopStep == StopTakesConn \/ ManagerCancels
SockNext ==
    \/ ReaderStep \/ heartbeat \/ BeatAnswered \/ StrayReturns \/ StopFlags \/ StopStep
    \/ PlatformPushes \/ ConnectionDrops \/ PeerFallsSilent \/ ProcessDies
SockFairness ==
    /\ WF_sockVars(ReaderStep) /\ WF_sockVars(heartbeat) /\ WF_sockVars(BeatAnswered) /\ WF_sockVars(StrayReturns)
    /\ WF_sockVars(StopStep)
SockSpec == SockInit /\ [][SockNext]_sockVars /\ SockFairness

-----------------------------------------------------------------------------
(* Properties *)

SockTypeOK ==
    /\ sConn \in {"none", "up", "cut"} /\ sBackoff \in 1 .. MaxBackoff /\ inHand \in 0 .. Len(Frames)
    /\ {held, sRunning, sCtx, beat, beatAcked, stray, mute} \subseteq BOOLEAN
    /\ ending \in {"failed", "read", "kicked"} /\ sStop \in {"idle", "flagged", "stopped"}

(* No socket and no heartbeat outlives the connection it belongs to: between two connections *)
(* and after Start has returned there is none, whatever Stop did in the meantime - but for   *)
(* the cancelled heartbeats of WeCom that are about to return.                               *)
SocketReleased ==
    sPc \notin {"dialed", "shake", "shaken", "read", "ack", "dispatch", "leave"} => sConn = "none" /\ ~held /\ ~beat /\ (stray => R.beats = "silence")

(* An event the platform was told is taken care of was handed to the agent or refused by the *)
(* filter.  Slack acknowledges first: there it may still be in hand, have failed, or be lost  *)
(* with the process.                                                                          *)
AckedIsHandled ==
    acked \subseteq ToSet(sPublished) \cup refused
                   \cup (IF sockSetup.adapter = "slack" THEN failed \cup sLost \cup {inHand} ELSE {})

(* Every event of the platform is somewhere: on the wire, kept for the next connection, in    *)
(* hand, published, refused, failed - or written while nobody listened.                       *)
EventsAccounted ==
    1 .. made \subseteq ToSet(line) \cup unacked \cup missed \cup ToSet(sPublished) \cup refused \cup failed \cup sLost \cup {inHand}

(* An adapter publishes what one person wrote in the order it was written, and - but for an   *)
(* acknowledgement a fault or Stop cut short - once.                                               *)
PublishedInOrder ==
    \A i, j \in DOMAIN sPublished : i < j =>
        \/ sPublished[i] < sPublished[j]
        \/ R.acks = "after" /\ (sFaults > 0 \/ sStop # "idle")

(* The adapters' connections: what discord, slack, mattermost, napcat, signal, dingtalk and   *)
(* wecom promise about their socket and about the events that come over it.                   *)
SocketInv == SockTypeOK /\ SocketReleased /\ AckedIsHandled /\ EventsAccounted /\ PublishedInOrder

(* Where an adapter comes to rest: it has returned once it was stopped and cancelled; else it *)
(* reads a live connection to the end, reconnecting as often as it takes - a silent peer is   *)
(* noticed where there is a heartbeat, and only there.                                        *)
SockAtRest ==
    IF sStop # "idle" THEN sPc = "ended" /\ sCtx /\ ~stray
    ELSE \/ sPc = "ended"
         \/ sPc = "read" /\ sConn = "up" /\ line = <<>> /\ (mute => R.beats = "never")
SockSettles == []<>SockAtRest

-----------------------------------------------------------------------------
(***************************************************************************)
(* The channel adapters without a socket of their own: those that ask      *)
(* their platform for news (Matrix, Email, WeChat, MoChat) and those the   *)
(* platform calls (WhatsApp, Linear, Feishu, Teams).  Whether a message is *)
(* lost or answered twice is decided by the order of four things: the      *)
(* position (a cursor, a flag, an HTTP status) is given up, the message is *)
(* entered into the window of messages seen, it is handed to HandleMessage *)
(* and, when that fails, it is forgotten again.  One record per adapter    *)
(* says how its code orders them; the machine is the same.                 *)
(*                                                                         *)
(* A job is one run of pollOnce, syncOnce or a worker's loop, or one       *)
(* request handler; two handlers can work on two attempts at one event,    *)
(* because the platform tries again when an answer takes too long.         *)
(***************************************************************************)

CONSTANTS
    Jobs,          \* the poller, or the request handlers
    DelSetups      \* [adapter, cfg, events, window, limit, faults]

VARIABLES
    delSetup, dLife, job, cursor, flagged, seenFIFO, cold,         \* the process and the mailbox
    written, told, inFlight,                                       \* the platform
    delivered, turnedAway, skipped, given, evicted, overtaken, dCrashed, dFaults

jobVars == <<job, cursor, seenFIFO, cold>>
deskVars == <<written, told, inFlight>>
fateVars == <<delivered, turnedAway, skipped, given, evicted, overtaken>>
delVars == <<delSetup, dLife, jobVars, flagged, deskVars, fateVars, dCrashed, dFaults>>

-----------------------------------------------------------------------------
(* The adapters.  source: where the position is kept; dedupes: before or after the filter, or *)
(* not at all; failure: what follows when HandleMessage fails; cold: the first answer is only *)
(* remembered.                                                                                *)

matrixSyncOnce == [source |-> "cursor", dedupes |-> "never", failure |-> "continue", cold |-> FALSE]
weixinPollOnce == [source |-> "cursor", dedupes |-> "first", failure |-> "forget", cold |-> FALSE]
(* The mutant: a message is marked as read before it is handed on. *)
emailFlagsFirst == [source |-> "cursor", dedupes |-> "never", failure |-> "continue", cold |-> FALSE]
emailPollOnce == [source |-> "flag", dedupes |-> "never", failure |-> "continue", cold |-> FALSE]
mochatSessionWorker == [source |-> "cursor", dedupes |-> "last", failure |-> "continue", cold |-> TRUE]
mochatPanelWorker == [source |-> "window", dedupes |-> "last", failure |-> "continue", cold |-> TRUE]
whatsappReceiveWebhook == [source |-> "post", dedupes |-> "first", failure |-> "forget", cold |-> FALSE]
linearWebhook == [source |-> "post", dedupes |-> "first", failure |-> "forget", cold |-> FALSE]
feishuEvent == [source |-> "post", dedupes |-> "first", failure |-> "forget", cold |-> FALSE]
teamsHandleActivity == [source |-> "post", dedupes |-> "never", failure |-> "forget", cold |-> FALSE]

DeliveryOf ==
    [matrix |-> matrixSyncOnce, weixin |-> weixinPollOnce, email |-> emailPollOnce, mochat |-> mochatSessionWorker,
     panel |-> mochatPanelWorker, whatsapp |-> whatsappReceiveWebhook, linear |-> linearWebhook,
     feishu |-> feishuEvent, msteams |-> teamsHandleActivity]

D == DeliveryOf[delSetup.adapter]
News == delSetup.events
FilterName == IF delSetup.adapter = "panel" THEN "mochat" ELSE delSetup.adapter
Wanted(i) == Filter(FilterName, News[i], delSetup.cfg) # {}
NoJob == [pc |-> "idle", batch |-> <<>>, status |-> 0]
Ascending(set) == SetToSortSeq(set, <)
Poll == D.source # "post"

DelFault == dFaults < delSetup.faults /\ dFaults' = dFaults + 1
NoDelFault == UNCHANGED dFaults

DelInit ==
    /\ delSetup \in DelSetups
    /\ dLife = "new" /\ job = [j \in Jobs |-> NoJob] /\ cursor = 0 /\ flagged = {} /\ seenFIFO = <<>> /\ cold = TRUE
    /\ written = 0 /\ told = {} /\ inFlight = {}
    /\ delivered = <<>> /\ turnedAway = {} /\ skipped = {} /\ given = {} /\ evicted = {} /\ overtaken = {}
    /\ dCrashed = FALSE /\ dFaults = 0

-----------------------------------------------------------------------------
(* The window of messages seen: wasSeen, remember; forgetSeen, forget *)

Seen == ToSet(seenFIFO)
remember(i) ==
    LET all == Append(seenFIFO, i) IN
    IF Len(all) > delSetup.limit
    THEN seenFIFO' = Tail(all) /\ evicted' = evicted \cup {Head(all)}
    ELSE seenFIFO' = all /\ UNCHANGED evicted
forget(i) == seenFIFO' = SelectSeq(seenFIFO, LAMBDA k : k # i)

-----------------------------------------------------------------------------
(* Start and Stop: a listener and its server, or a loop *)

DelStart ==
    /\ dLife = "new"
    /\ \/ dLife' = "up" /\ NoDelFault
       \/ dLife' = "ended" /\ ~Poll /\ DelFault
    /\ UNCHANGED <<delSetup, jobVars, flagged, deskVars, fateVars, dCrashed>>
(* SetRunning(false), and for a server Shutdown: nothing new is taken, what runs is waited for. *)
DelStop ==
    /\ dLife = "up" /\ dLife' = "stopping"
    /\ UNCHANGED <<delSetup, jobVars, flagged, deskVars, fateVars, dCrashed, dFaults>>
DelEnds ==
    /\ dLife = "stopping" /\ \A j \in Jobs : job[j].pc = "idle"
    /\ dLife' = "ended"
    /\ UNCHANGED <<delSetup, jobVars, flagged, deskVars, fateVars, dCrashed, dFaults>>

-----------------------------------------------------------------------------
(* The platform *)

SomebodyTells ==
    /\ written < Len(News) /\ written' = written + 1
    /\ UNCHANGED <<delSetup, dLife, jobVars, flagged, told, inFlight, fateVars, dCrashed, dFaults>>
(* An attempt at an event that was not answered with 200, while none is running - or the      *)
(* platform has given up on the one that is.                                                   *)
PlatformPosts(j) ==
    /\ ~Poll /\ dLife = "up" /\ job[j] = NoJob
    /\ \E i \in (1 .. written) \ told :
        /\ \/ i \notin inFlight /\ NoDelFault
           \/ i \in inFlight /\ DelFault
        /\ inFlight' = inFlight \cup {i}
        /\ job' = [job EXCEPT ![j] = [pc |-> "event", batch |-> <<i>>, status |-> 200]]
    /\ UNCHANGED <<delSetup, dLife, cursor, flagged, seenFIFO, cold, written, told, fateVars, dCrashed>>

-----------------------------------------------------------------------------
(* One poll *)

Fetched ==
    CASE D.source = "cursor" -> (cursor + 1) .. written
      [] D.source = "flag" -> (1 .. written) \ flagged
      [] D.source = "window" -> {i \in 1 .. written : i > written - delSetup.window}
      [] OTHER -> {}
Fetches(j) ==
    /\ Poll /\ dLife = "up" /\ job[j] = NoJob /\ Fetched # {}
    /\ \A k \in Jobs \ {j} : job[k] = NoJob
    /\ cursor' = IF D.source = "cursor" THEN written ELSE cursor
    /\ cold' = FALSE
    /\ \/ /\ D.cold /\ cold /\ skipped' = skipped \cup Fetched
          /\ seenFIFO' = IF D.source = "window" THEN Ascending(Fetched) ELSE seenFIFO
          /\ UNCHANGED <<job, given>>
       \/ /\ ~(D.cold /\ cold)
          /\ job' = [job EXCEPT ![j] = [pc |-> "event", batch |-> Ascending(Fetched), status |-> 0]]
          /\ given' = IF D.source = "cursor" THEN given \cup Fetched ELSE given
          /\ UNCHANGED <<skipped, seenFIFO>>
    /\ UNCHANGED <<delSetup, dLife, flagged, deskVars, delivered, turnedAway, evicted, overtaken, dCrashed, dFaults>>

-----------------------------------------------------------------------------
(* One event of a batch *)

Current(j) == Head(job[j].batch)
(* The event is dealt with: its flag is stored, or the request is answered, or the next one is taken. *)
NextPc(j) == IF D.source = "flag" THEN "mark" ELSE IF D.source = "post" THEN "reply" ELSE "done"
At(j, pc) == job' = [job EXCEPT ![j].pc = pc]

TakesEvent(j) ==
    /\ job[j].pc = "event"
    /\ LET i == Current(j)
           fresh == i \notin Seen
           marks == fresh /\ (D.dedupes = "first" \/ (D.dedupes = "last" /\ Wanted(i)))
           known == ~fresh /\ D.dedupes # "never"
       IN  /\ IF marks THEN remember(i) ELSE UNCHANGED <<seenFIFO, evicted>>
           /\ \/ known /\ At(j, NextPc(j)) /\ UNCHANGED turnedAway
              \/ ~known /\ ~Wanted(i) /\ At(j, NextPc(j)) /\ turnedAway' = turnedAway \cup {i}
              \/ ~known /\ Wanted(i) /\ At(j, "handle") /\ UNCHANGED turnedAway
           /\ overtaken' = IF known /\ ~Poll /\ \E k \in Jobs \ {j} : job[k].pc \in {"handle", "undo"} /\ Current(k) = i
                           THEN overtaken \cup {i} ELSE overtaken
    /\ UNCHANGED <<delSetup, dLife, cursor, flagged, cold, deskVars, delivered, skipped, given, dCrashed, dFaults>>

Handles(j) ==
    /\ job[j].pc = "handle" /\ At(j, NextPc(j)) /\ delivered' = Append(delivered, Current(j))
    /\ UNCHANGED <<delSetup, dLife, cursor, flagged, seenFIFO, cold, deskVars, turnedAway, skipped, given, evicted, overtaken,
                   dCrashed, dFaults>>
(* A failure leaves the event behind (unread, where that is kept), or undoes its entry first. *)
HandleFails(j) ==
    /\ job[j].pc = "handle" /\ DelFault
    /\ At(j, IF D.failure = "forget" THEN "undo" ELSE "done")
    /\ UNCHANGED <<delSetup, dLife, cursor, flagged, seenFIFO, cold, deskVars, fateVars, dCrashed>>
(* forgetSeen; pollOnce returns the error and drops the rest of the batch, a handler answers 503. *)
Undoes(j) ==
    /\ job[j].pc = "undo"
    /\ IF D.dedupes = "never" THEN UNCHANGED seenFIFO ELSE forget(Current(j))
    /\ job' = [job EXCEPT ![j] = IF Poll THEN NoJob ELSE [@ EXCEPT !.pc = "reply", !.status = 503]]
    /\ UNCHANGED <<delSetup, dLife, cursor, flagged, cold, deskVars, fateVars, dCrashed, dFaults>>
(* UID STORE +FLAGS (\Seen), which may fail. *)
Marks(j) ==
    /\ job[j].pc = "mark" /\ At(j, "done")
    /\ \/ flagged' = flagged \cup {Current(j)} /\ NoDelFault
       \/ UNCHANGED flagged /\ DelFault
    /\ UNCHANGED <<delSetup, dLife, cursor, seenFIFO, cold, deskVars, fateVars, dCrashed>>
Advances(j) ==
    /\ job[j].pc = "done"
    /\ job' = [job EXCEPT ![j] = IF Len(@.batch) > 1 THEN [@ EXCEPT !.pc = "event", !.batch = Tail(@)] ELSE NoJob]
    /\ UNCHANGED <<delSetup, dLife, cursor, flagged, seenFIFO, cold, deskVars, fateVars, dCrashed, dFaults>>
(* The answer reaches the platform, or is lost on the way. *)
Replies(j) ==
    /\ job[j].pc = "reply"
    /\ job' = [job EXCEPT ![j] = NoJob]
    /\ \/ told' = (IF job[j].status = 200 THEN told \cup {Current(j)} ELSE told) /\ NoDelFault
       \/ UNCHANGED told /\ DelFault
    /\ inFlight' = IF \E k \in Jobs \ {j} : job[k] # NoJob /\ Current(k) = Current(j) THEN inFlight ELSE inFlight \ {Current(j)}
    /\ UNCHANGED <<delSetup, dLife, cursor, flagged, seenFIFO, cold, written, fateVars, dCrashed>>

(* A restart keeps nothing: the window is empty, a cursor starts over or at the end, as the platform decides. *)
DeliveryDies ==
    /\ dLife = "up" /\ DelFault /\ dCrashed' = TRUE
    /\ dLife' = "new" /\ job' = [j \in Jobs |-> NoJob] /\ seenFIFO' = <<>> /\ cold' = TRUE
    /\ inFlight' = {}
    /\ cursor' \in IF D.source = "cursor" THEN {0, written} ELSE {0}
    /\ UNCHANGED <<delSetup, flagged, written, told, fateVars>>

JobStep(j) ==
    Fetches(j) \/ TakesEvent(j) \/ Handles(j) \/ HandleFails(j) \/ Undoes(j) \/ Marks(j) \/ Advances(j) \/ Replies(j)
DelNext ==
    \/ DelStart \/ DelStop \/ DelEnds \/ SomebodyTells \/ DeliveryDies
    \/ \E j \in Jobs : PlatformPosts(j) \/ JobStep(j)
DelFairness ==
    /\ WF_delVars(DelStart) /\ WF_delVars(DelEnds) /\ WF_delVars(\E j \in Jobs : PlatformPosts(j))
    /\ \A j \in Jobs : WF_delVars(JobStep(j))
DelSpec == DelInit /\ [][DelNext]_delVars /\ DelFairness

-----------------------------------------------------------------------------
(* Properties *)

InWork(i) == \E j \in Jobs : job[j] # NoJob /\ i \in ToSet(job[j].batch)
Fate(i) == i \in ToSet(delivered) \cup turnedAway \cup skipped

DelTypeOK ==
    /\ dLife \in {"new", "up", "stopping", "ended"} /\ cursor \in 0 .. written
    /\ \A j \in Jobs : job[j].pc \in {"idle", "event", "handle", "undo", "mark", "done", "reply"}

(* What the platform believes done is done: an event answered with 200, or a mail marked as    *)
(* read, was published or refused - except an attempt answered "seen" while the first attempt  *)
(* was still being handed on and then failed.                                                  *)
ToldIsHandled == \A i \in told \cup flagged : Fate(i) \/ i \in overtaken

(* Without a failure and without a crash nothing an adapter moved its cursor past is missing.  *)
(* A mail is never lost at all: unread until it was handed on.                                 *)
CursorKeepsFaith ==
    /\ dFaults = 0 => \A i \in given : Fate(i) \/ InWork(i)
    /\ delSetup.adapter = "email" => \A i \in 1 .. written : Fate(i) \/ InWork(i) \/ (i \notin flagged /\ i > cursor)

(* A message is answered once: twice only after a restart, where the adapter keeps no window,  *)
(* or when the window was too small to remember it.                                            *)
AnsweredOnce ==
    \A a, b \in DOMAIN delivered : a # b /\ delivered[a] = delivered[b] =>
        \/ dCrashed \/ delivered[a] \in evicted
        \/ D.dedupes = "never" /\ dFaults > 0

(* The window holds each message once and never more than its limit. *)
WindowKept == IsInjective(seenFIFO) /\ Len(seenFIFO) <= Max({delSetup.limit, delSetup.window})

(* A server that was shut down in good order has no handler running. *)
DrainedIsIdle == dLife = "ended" => \A j \in Jobs : job[j] = NoJob

(* The adapters' deliveries: no message believed delivered is missing, none is answered twice, *)
(* but for the cases each adapter's order of steps allows.                                     *)
DeliveryKept == DelTypeOK /\ ToldIsHandled /\ CursorKeepsFaith /\ AnsweredOnce /\ WindowKept /\ DrainedIsIdle

(* Every message ends somewhere: once the adapter runs undisturbed all that was written has    *)
(* been dealt with - or was lost to a failure or a restart, or left the window of a panel's    *)
(* messages before the next poll.                                                              *)
DelAtRest ==
    \/ dLife = "ended"
    \/ /\ dLife = "up" /\ \A j \in Jobs : job[j] = NoJob
       /\ \A i \in 1 .. written :
           \/ Fate(i) \/ i \in overtaken
           \/ dFaults > 0 /\ D.source \in {"cursor", "window"}
           \/ D.source = "window" /\ i <= written - delSetup.window
DelSettles == []<>DelAtRest

=============================================================================
