----------------------------- MODULE MCOutbound -----------------------------
(* Instances of Outbound: what the agent publishes.                         *)
EXTENDS Outbound, TLC

CONSTANTS a, b

Shape(chat, kind, stream) ==
    [chat |-> chat, kind |-> kind, stream |-> stream, text |-> None, origin |-> None, mid |-> None]

Reply(chat, text, origin, mid) ==
    [chat |-> chat, kind |-> "plain", stream |-> None, text |-> text, origin |-> origin, mid |-> mid]

(* Two streams of one chat, with an end that carries text, and a message of *)
(* another chat.                                                            *)
StreamShapes ==
    {Shape(a, "delta", "s1"), Shape(a, "delta", "s2"), Shape(a, "end", "s1"), Shape(b, "plain", None)}

(* One stream beside plain messages, progress and an end without text.      *)
MixedShapes ==
    {Shape(a, "delta", "s1"), Shape(a, "mark", "s1"), Shape(a, "progress", None), Shape(b, "plain", None)}

(* Replies to two source messages; one names itself.                        *)
ReplyShapes ==
    {Reply(a, "yes", "m1", None), Reply(a, "no", "m1", "m2"), Reply(a, "yes", "m2", None)}

AllShapes == StreamShapes \cup MixedShapes \cup ReplyShapes \cup {Shape(a, "plain", None)}

(* Two streams and two slots, sends that succeed.                           *)
Streams ==
    [shapes |-> StreamShapes, messages |-> 4, showProgress |-> FALSE, pendingLimit |-> 2, concurrency |-> 2,
     sendMaxRetries |-> 2, fingerprintMax |-> 2, maxErrors |-> 0, stops |-> FALSE, hangs |-> FALSE]

(* The same with a failed send.                                             *)
Failing == [Streams EXCEPT !.messages = 3, !.maxErrors = 1]

(* One send at a time, shown progress, sends that return.                   *)
Mixed == [Failing EXCEPT !.shapes = MixedShapes, !.concurrency = 1, !.showProgress = TRUE]

(* StopAll at any moment, sends that hang, hidden progress.                 *)
Stopped == [Mixed EXCEPT !.showProgress = FALSE, !.stops = TRUE, !.hangs = TRUE]

(* StopAll with three messages of one chat registered, which the sweep ends *)
(* in any order.                                                            *)
Swept3 ==
    [Streams EXCEPT !.shapes = {Shape(a, "plain", None)}, !.messages = 3, !.pendingLimit = 3, !.stops = TRUE]

(* Repeated replies, room to remember one.                                  *)
Replies ==
    [Streams EXCEPT !.shapes = ReplyShapes, !.pendingLimit = 1, !.concurrency = 1, !.sendMaxRetries = 1,
                    !.fingerprintMax = 1]

All == {Streams, Failing, Mixed, Stopped, Swept3, Replies}
=============================================================================
