----------------------------- MODULE Transcript -----------------------------
(***************************************************************************)
(* What a session promises its callers (the doc comments of                *)
(* internal/session/session.go): a transcript that grows at its end by     *)
(* whole appends, that a summary or a replacement revises without adding,  *)
(* dropping or reordering a message, and that only a reset empties.        *)
(***************************************************************************)
EXTENDS Integers, Sequences

CONSTANTS Msgs, Batches     \* messages, and the sequences of them appended at once

VARIABLES
    log,    \* entries: records with an id, summary markers among them
    kept    \* the messages the callers count on

vars == <<log, kept>>

(* The messages of a transcript, in order, without the markers.             *)
Real(s) == LET IsReal(e) == e.id \in Msgs
               real == SelectSeq(s, IsReal)
           IN  [i \in 1 .. Len(real) |-> real[i].id]

Init == log = <<>> /\ kept = {}

AppendBatch(b) ==
    /\ Real(log') = Real(log) \o b
    /\ kept' = kept \cup {b[i] : i \in 1 .. Len(b)}

Revise == Real(log') = Real(log) /\ kept' = kept

Reset == log' = <<>> /\ kept' = {}

Next == Revise \/ Reset \/ \E b \in Batches : AppendBatch(b)

Spec == Init /\ [][Next]_vars
=============================================================================
