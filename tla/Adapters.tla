------------------------------ MODULE Adapters ------------------------------
(***************************************************************************)
(* What each channel adapter makes of one event of its platform, and where *)
(* its Send takes an answer: the filter between the wire and               *)
(* Base.HandleMessage, the chat identifier it builds, and the way back.    *)
(*                                                                         *)
(* An event is a record [kind, subtype, bot, sender, account, room, root,  *)
(* id, text, group, ref]: the fields the platforms' payloads have in       *)
(* common.  A field an adapter does not read is ignored by it.  A string   *)
(* put together from parts (channel|thread, group:id) is the sequence of   *)
(* its parts, separators included, so that cutting it again is what        *)
(* strings.Cut does.  The result of a filter is the set holding the one    *)
(* InboundRequest passed to HandleMessage, or the empty set.               *)
(***************************************************************************)
EXTENDS Integers, Sequences, SequencesExt

(* The bot's own account, as each adapter learns it. *)
Self == "self"
Blank == " "
TrimSpace(text) == IF text = Blank THEN "" ELSE text

Request(sender, chat, dm) == [sender |-> sender, chat |-> chat, dm |-> dm]
Accept(guard, request) == IF guard THEN {request} ELSE {}
FirstOf(a, b) == IF a # "" THEN a ELSE b

(* allowedChannel, allowedRoom, acceptRoom, allowedGroup, allowedSender: no list means everybody. *)
Lists(list, x) == list = {} \/ x \in list

(* strings.Cut(chat, sep): before, after and whether sep was found. *)
CutAt(chat, sep) ==
    LET at == SelectInSeq(chat, LAMBDA part : part = sep)
    IN  IF at = 0 THEN [before |-> chat, after |-> <<>>, found |-> FALSE]
        ELSE [before |-> SubSeq(chat, 1, at - 1), after |-> SubSeq(chat, at + 1, Len(chat)), found |-> TRUE]
(* The mutant: the thread is not part of the chat. *)
joinChatIDFlat(room, root) == <<room>>
joinChatID(room, root) == IF root = "" THEN <<room>> ELSE <<room, "|", root>>

-----------------------------------------------------------------------------
(* Adapters with a socket of their own *)

discordHandleMessage(e, cfg) ==
    Accept(~e.bot /\ e.sender \notin {"", Self} /\ e.room # "" /\ Lists(cfg.rooms, e.room) /\ TrimSpace(e.text) # "",
           Request(e.sender, <<e.room>>, e.group = ""))

slackHandleEvent(e, cfg) ==
    Accept(/\ e.kind = "message" /\ e.subtype = "" /\ ~e.bot /\ e.sender \notin {"", Self} /\ e.room # ""
           /\ Lists(cfg.rooms, e.room) /\ TrimSpace(e.text) # "",
           Request(e.sender, joinChatID(e.room, FirstOf(e.root, e.id)), FALSE))

mattermostHandlePost(e, cfg) ==
    Accept(/\ e.kind = "message" /\ e.id # "" /\ e.sender \notin {"", Self} /\ e.room # "" /\ TrimSpace(e.text) # ""
           /\ Lists(cfg.senders, e.sender) /\ Lists(cfg.rooms, e.room),
           Request(e.sender, joinChatID(e.room, FirstOf(e.root, e.id)), FALSE))

(* The text segments win over raw_message when they hold any text. *)
napcatHandleEvent(e, cfg) ==
    Accept(/\ e.kind = "message" /\ e.sender \notin {"", Self}
           /\ e.group # "" => Lists(cfg.rooms, e.group)
           /\ TrimSpace(e.text) # "",
           Request(e.sender, IF e.group = "" THEN <<"private", ":", e.sender>> ELSE <<"group", ":", e.group>>, e.group = ""))

(* sourceNumber before source; the bot's own messages come back as sync messages or under its number. *)
signalDispatch(e, cfg) ==
    LET sender == FirstOf(e.account, e.sender) IN
    Accept(e.subtype # "sync" /\ sender \notin {"", Self} /\ TrimSpace(e.text) # "" /\ Lists(cfg.senders, sender),
           Request(sender, IF e.group # "" THEN <<e.group>> ELSE <<sender>>, e.group = ""))

(* The staff id before the sender id; group conversations have type "2". *)
dingtalkHandleBotCallback(e, cfg) ==
    LET sender == FirstOf(e.account, e.sender) IN
    Accept(/\ e.kind \in {"", "message"} /\ TrimSpace(e.text) # "" /\ sender # "" /\ sender \in cfg.allowed
           /\ e.group = "" => ~cfg.noPrivate,
           Request(sender, IF e.group # "" THEN <<"group", ":", e.group>> ELSE <<sender>>, e.group = ""))

(* Voice, image, file and video messages have a text of their own; an unknown type is ignored. *)
wecomHandleMessage(e, cfg) ==
    Accept(/\ e.sender # "" /\ e.sender \in cfg.allowed
           /\ \/ e.kind = "message" /\ TrimSpace(e.text) # ""
              \/ e.kind = "media",
           Request(e.sender, <<FirstOf(e.room, e.sender)>>, e.group = ""))

-----------------------------------------------------------------------------
(* Adapters that ask their platform *)

matrixHandleEvent(e, cfg) ==
    Accept(Lists(cfg.rooms, e.room) /\ e.kind = "message" /\ e.sender \notin {"", Self} /\ TrimSpace(e.text) # "",
           Request(e.sender, <<e.room>>, FALSE))

emailHandleRawEmail(e, cfg) ==
    Accept(e.kind = "message" /\ e.sender # "" /\ e.sender \in cfg.allowed /\ TrimSpace(e.text) # "",
           Request(e.sender, <<e.sender>>, TRUE))

weixinHandleMessage(e, cfg) ==
    Accept(~e.bot /\ TrimSpace(e.sender) # "" /\ TrimSpace(e.text) # "" /\ e.sender \in cfg.allowed,
           Request(e.sender, <<e.sender>>, e.group = ""))

(* An empty message is not ignored: it is published under a text of its own. *)
mochatProcessEvent(e, cfg) ==
    Accept(e.kind = "message" /\ e.sender \notin {"", Self} /\ e.sender \in cfg.allowed,
           Request(e.sender, IF e.group # "" THEN <<"panel", ":", e.group>> ELSE <<e.room>>, e.group = ""))

-----------------------------------------------------------------------------
(* Adapters their platform calls *)

whatsappReceive(e, cfg) ==
    Accept(/\ e.room \in {"", cfg.number} /\ e.id # "" /\ e.sender # ""
           /\ e.kind = "message" /\ TrimSpace(e.text) # "" /\ Lists(cfg.senders, e.sender),
           Request(e.sender, <<e.sender>>, TRUE))

linearHandleWebhook(e, cfg) ==
    LET sender == FirstOf(e.account, e.sender) IN
    Accept(e.kind = "message" /\ sender \notin {"", Self} /\ e.room # "" /\ TrimSpace(e.text) # "" /\ sender \in cfg.allowed,
           Request(sender, <<e.room>>, FALSE))

(* A mention without text becomes the configured text; group conversations are not served. *)
teamsProcessActivity(e, cfg) ==
    LET sender == FirstOf(e.account, e.sender) IN
    Accept(/\ e.kind = "message" /\ sender # "" /\ e.room # "" /\ e.ref = "trusted" /\ e.sender # Self /\ e.group = ""
           /\ FirstOf(TrimSpace(e.text), cfg.mentionText) # "" /\ sender \in cfg.allowed,
           Request(sender, <<e.room>>, TRUE))

feishuWebhook(e, cfg) ==
    LET sender == FirstOf(e.account, e.sender) IN
    Accept(e.kind = "message" /\ sender # "" /\ sender \in cfg.allowed /\ e.room # "" /\ TrimSpace(e.text) # "",
           Request(sender, <<e.room>>, e.group = ""))

-----------------------------------------------------------------------------
(* The way back: Send's destination, or nothing when it returns an error.  A destination is *)
(* what the platform's API is given: [to, thread].                                          *)

Destination(to, thread) == {[to |-> to, thread |-> thread]}

discordSend(chat) == IF chat = <<"">> THEN {} ELSE Destination(chat, <<>>)
slackSend(chat) ==
    LET cut == CutAt(chat, "|") IN
    IF cut.before = <<"">> THEN {} ELSE Destination(cut.before, cut.after)
mattermostSend(chat) ==
    LET cut == CutAt(chat, "|") IN
    IF cut.before = <<"">> THEN {} ELSE Destination(cut.before, cut.after)
napcatSplitChatID(chat) ==
    LET cut == CutAt(chat, ":") IN
    IF ~cut.found \/ cut.after \in {<<>>, <<"">>} \/ cut.before \notin {<<"private">>, <<"group">>} THEN {}
    ELSE Destination(cut.after, cut.before)
signalSend(chat) == IF TrimSpace(chat[1]) = "" THEN {} ELSE Destination(chat, <<>>)
matrixSend(chat) == IF chat = <<"">> THEN {} ELSE Destination(chat, <<>>)
emailSend(chat, cfg) == IF ~cfg.autoReply \/ TrimSpace(chat[1]) = "" THEN {} ELSE Destination(chat, <<>>)
whatsappSend(chat) == IF TrimSpace(chat[1]) = "" THEN {} ELSE Destination(chat, <<>>)
linearSend(chat) == IF TrimSpace(chat[1]) = "" THEN {} ELSE Destination(chat, <<>>)
feishuSend(chat) == IF TrimSpace(chat[1]) = "" THEN {} ELSE Destination(chat, <<>>)
mochatSend(chat) ==
    IF TrimSpace(chat[1]) = "" THEN {}
    ELSE IF Len(chat) > 2 /\ SubSeq(chat, 1, 2) = <<"panel", ":">> THEN Destination(SubSeq(chat, 3, Len(chat)), <<"panel">>)
    ELSE Destination(chat, <<"session">>)

(* Four adapters can answer only through what an earlier event of the chat brought with it: *)
(* a session webhook that may have expired, a request id, a context token, a service URL.   *)
dingtalkSend(chat, refs, now) ==
    IF chat \notin DOMAIN refs \/ refs[chat].ref # "trusted" \/ (refs[chat].until # 0 /\ now > refs[chat].until) THEN {}
    ELSE Destination(chat, <<"webhook">>)
(* The passive answer to the last request of the chat, else (none, or it fails) a message to the chat. *)
wecomSend(chat, refs, passiveFails) ==
    IF chat \in DOMAIN refs /\ ~passiveFails THEN Destination(chat, <<"passive">>)
    ELSE IF TrimSpace(chat[1]) = "" THEN {} ELSE Destination(chat, <<>>)
weixinSend(chat, refs) ==
    IF TrimSpace(chat[1]) = "" \/ chat \notin DOMAIN refs THEN {} ELSE Destination(chat, <<>>)
teamsSend(chat, refs) ==
    IF chat \notin DOMAIN refs \/ refs[chat].ref # "trusted" THEN {} ELSE Destination(chat, <<>>)

-----------------------------------------------------------------------------
(* What the platform's answer to a call means: a reply is [sent, read, oversize, status,    *)
(* body, ok]; body is "empty", "json" or "garbage", ok the platform's own success flag.     *)

Success(reply) == reply.status \in 200 .. 299
Whole(reply) == reply.sent /\ reply.read /\ ~reply.oversize /\ Success(reply)
Decodes(reply, output) == ~output \/ reply.body \in {"empty", "json"}
Envelope(reply) == reply.body = "empty" \/ (reply.body = "json" /\ reply.ok)

discordApiCall(reply, output) == Whole(reply) /\ Decodes(reply, output)
slackApiCall(reply, output) == Whole(reply) /\ reply.body = "json" /\ reply.ok
mattermostApiCall(reply, output) == Whole(reply) /\ Decodes(reply, output)
matrixDoJSON(reply, output) == Whole(reply) /\ Decodes(reply, output)
napcatApiCall(reply, output) == Whole(reply) /\ Envelope(reply)
signalApiCall(reply, output) == reply.sent /\ Success(reply)
weixinApiPost(reply, output) == Whole(reply) /\ Envelope(reply)
linearGraphQL(reply, output) == Whole(reply) /\ Decodes(reply, output)
mochatPost(reply, output) == Whole(reply) /\ Envelope(reply)
whatsappPost(reply, output) == Whole(reply)
dingtalkPost(reply, output) == reply.sent /\ Success(reply)
feishuPost(reply, output) == reply.sent /\ Success(reply) /\ (reply.body = "json" => reply.ok)
teamsPost(reply, output) == reply.sent /\ Success(reply)

-----------------------------------------------------------------------------
(* The adapters by name *)

Filter(adapter, e, cfg) ==
    CASE adapter = "discord" -> discordHandleMessage(e, cfg)
      [] adapter = "slack" -> slackHandleEvent(e, cfg)
      [] adapter = "mattermost" -> mattermostHandlePost(e, cfg)
      [] adapter = "napcat" -> napcatHandleEvent(e, cfg)
      [] adapter = "signal" -> signalDispatch(e, cfg)
      [] adapter = "dingtalk" -> dingtalkHandleBotCallback(e, cfg)
      [] adapter = "wecom" -> wecomHandleMessage(e, cfg)
      [] adapter = "matrix" -> matrixHandleEvent(e, cfg)
      [] adapter = "email" -> emailHandleRawEmail(e, cfg)
      [] adapter = "weixin" -> weixinHandleMessage(e, cfg)
      [] adapter = "mochat" -> mochatProcessEvent(e, cfg)
      [] adapter = "whatsapp" -> whatsappReceive(e, cfg)
      [] adapter = "linear" -> linearHandleWebhook(e, cfg)
      [] adapter = "msteams" -> teamsProcessActivity(e, cfg)
      [] adapter = "feishu" -> feishuWebhook(e, cfg)

(* The chat's reference as the event leaves it; now is before any expiry. *)
Back(adapter, chat, e, cfg) ==
    LET refs == IF e.ref = "" THEN <<>> ELSE [c \in {chat} |-> [ref |-> e.ref, until |-> 0]] IN
    CASE adapter = "discord" -> discordSend(chat)
      [] adapter = "slack" -> slackSend(chat)
      [] adapter = "mattermost" -> mattermostSend(chat)
      [] adapter = "napcat" -> napcatSplitChatID(chat)
      [] adapter = "signal" -> signalSend(chat)
      [] adapter = "dingtalk" -> dingtalkSend(chat, IF e.ref = "trusted" THEN refs ELSE <<>>, 1)
      [] adapter = "wecom" -> wecomSend(chat, [c \in {chat} |-> e.id], e.ref # "trusted")
      [] adapter = "matrix" -> matrixSend(chat)
      [] adapter = "email" -> emailSend(chat, cfg)
      [] adapter = "weixin" -> weixinSend(chat, refs)
      [] adapter = "mochat" -> mochatSend(chat)
      [] adapter = "whatsapp" -> whatsappSend(chat)
      [] adapter = "linear" -> linearSend(chat)
      [] adapter = "msteams" -> teamsSend(chat, refs)
      [] adapter = "feishu" -> feishuSend(chat)

-----------------------------------------------------------------------------
(* The properties of the filters, for one adapter and one event *)

Speaker(adapter, e) ==
    IF adapter \in {"signal", "dingtalk", "linear", "msteams", "feishu"} THEN FirstOf(e.account, e.sender) ELSE e.sender

(* What a message was written in, as its platform names it: a thread of a channel, a group, a person. *)
Home(adapter, e) ==
    CASE adapter \in {"slack", "mattermost"} -> [to |-> <<e.room>>, thread |-> <<FirstOf(e.root, e.id)>>]
      [] adapter = "napcat" -> IF e.group = "" THEN [to |-> <<e.sender>>, thread |-> <<"private">>]
                               ELSE [to |-> <<e.group>>, thread |-> <<"group">>]
      [] adapter = "mochat" -> IF e.group = "" THEN [to |-> <<e.room>>, thread |-> <<"session">>]
                               ELSE [to |-> <<e.group>>, thread |-> <<"panel">>]
      [] adapter = "dingtalk" -> [to |-> IF e.group = "" THEN <<Speaker(adapter, e)>> ELSE <<"group", ":", e.group>>,
                                  thread |-> <<"webhook">>]
      [] adapter = "wecom" -> [to |-> <<FirstOf(e.room, e.sender)>>, thread |-> IF e.ref = "trusted" THEN <<"passive">> ELSE <<>>]
      [] adapter = "signal" -> [to |-> <<FirstOf(e.group, Speaker(adapter, e))>>, thread |-> <<>>]
      [] adapter \in {"email", "weixin", "whatsapp"} -> [to |-> <<e.sender>>, thread |-> <<>>]
      [] OTHER -> [to |-> <<e.room>>, thread |-> <<>>]

(* An answer goes back where the question was asked: Send, given the chat id an adapter   *)
(* published a message under, addresses the conversation (and the thread) of that message, *)
(* unless the adapter answers through a reference the message did not bring, or its        *)
(* configuration has it not answer at all.                                                 *)
ReplyGoesHome(adapter, e, cfg) ==
    \A r \in Filter(adapter, e, cfg) :
        LET back == Back(adapter, r.chat, e, cfg) IN
        /\ back \subseteq {Home(adapter, e)}
        /\ back = {} => \/ adapter \in {"dingtalk", "weixin"} /\ e.ref # "trusted"
                        \/ adapter = "email" /\ ~cfg.autoReply

(* A bot must not answer itself: where the adapter knows its own account, a message of that *)
(* account is never published, and nothing is published without a sender.                  *)
NeverItself(adapter, e, cfg) ==
    \A r \in Filter(adapter, e, cfg) :
        /\ r.sender = Speaker(adapter, e) /\ r.sender # ""
        /\ adapter \notin {"dingtalk", "wecom", "email", "weixin", "whatsapp", "msteams", "feishu"} => r.sender # Self

(* A call that returns nil was answered with a success status; where the platform reports  *)
(* failures in the body of a successful answer and the adapter looks for them, there was none. *)
NilMeansTaken(reply, output) ==
    LET calls == <<discordApiCall(reply, output), slackApiCall(reply, output), mattermostApiCall(reply, output),
                   matrixDoJSON(reply, output), napcatApiCall(reply, output), signalApiCall(reply, output),
                   weixinApiPost(reply, output), linearGraphQL(reply, output), mochatPost(reply, output),
                   whatsappPost(reply, output), dingtalkPost(reply, output), feishuPost(reply, output), teamsPost(reply, output)>>
    IN  /\ (\E i \in DOMAIN calls : calls[i]) => reply.sent /\ Success(reply)
        /\ (\E i \in {2, 5, 7, 9, 12} : calls[i]) => (reply.body = "json" => reply.ok)
=============================================================================
