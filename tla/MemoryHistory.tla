--------------------------- MODULE MemoryHistory ----------------------------
(***************************************************************************)
(* The memory journal (internal/memory/store.go, dream.go): history.jsonl, *)
(* the .cursor and .dream_cursor files, the migration of a legacy          *)
(* HISTORY.md, and the dream automation that consumes the journal and      *)
(* compacts it (cmd/haosbot/system_automations.go).                        *)
(*                                                                         *)
(* A line of the journal is an entry, or bytes no reader can decode.  A    *)
(* failed or interrupted write leaves an undecodable tail without a        *)
(* newline, which the next append continues.  os.WriteFile truncates, then *)
(* writes: a crash in between leaves an empty file.                        *)
(***************************************************************************)
EXTENDS Integers, Sequences, FiniteSets, FiniteSetsExt, SequencesExt

CONSTANTS
    Appenders,      \* callers of AppendHistory on the process's store
    MaxEntries,     \* bound: entries appended
    MaxCrashes,     \* bound: crashes
    HistSetups,     \* retention, batch and faults considered
    NoCursor        \* what an unreadable .cursor reads as

VARIABLES
    histSetup,
    history, ragged,    \* history.jsonl, and whether its last line lacks its newline
    counter,            \* .cursor
    dreamCursor,        \* .dream_cursor (0 when absent or unreadable)
    legacy,             \* chunks of HISTORY.md, or <<>> when there is none
    migration,          \* how far maybeMigrateLegacyHistory is
    appendLock, appendPc, writing,      \* AppendHistory
    dreamPc, dreamBatch,                     \* the dream automation
    compacted,                          \* what CompactHistory read and will keep
    issued, histCrashes,                   \* history: entries issued, crashes
    acked, dreamed, spoiled, raced        \* entries acknowledged, shown to Dream, run into a torn tail, overtaken by a compaction

fileVars == <<history, ragged, counter, dreamCursor, legacy>>
appendVars == <<appendLock, appendPc, writing>>
dreamVars == <<dreamPc, dreamBatch, compacted>>
ghosts == <<issued, histCrashes, acked, dreamed, spoiled, raced>>
histVars == <<histSetup, fileVars, migration, appendVars, dreamVars, ghosts>>

Garbage == [cursor |-> -1, id |-> 0]
IsEntry(line) == line.cursor >= 0
Decoded(h) == SelectSeq(h, IsEntry)     \* ReadEntries: malformed lines are skipped
Cursors(h) == {l.cursor : l \in ToSet(Decoded(h))}
Ids(h) == {l.id : l \in ToSet(Decoded(h))}

HistTypeOK ==
    /\ \A l \in ToSet(history) : l = Garbage \/ (l.cursor \in Nat /\ l.id \in 0 .. issued)
    /\ ragged \in BOOLEAN
    /\ counter \in Nat \cup {NoCursor}
    /\ dreamCursor \in Nat
    /\ appendLock \in Appenders \cup {NoCursor}
    /\ appendPc \in [Appenders -> {"idle", "counting"}]
    /\ dreamPc \in {"idle", "turn", "advance", "compact", "rewrite"}
    /\ migration \in {"due", "counter", "dream", "park", "done"}

HistInit ==
    /\ histSetup \in HistSetups
    /\ history = <<>> /\ ragged = FALSE
    /\ counter = NoCursor /\ dreamCursor = 0
    /\ legacy = [i \in 1 .. histSetup.legacy |-> i]
    /\ migration = "due"
    /\ appendLock = NoCursor
    /\ appendPc = [a \in Appenders |-> "idle"]
    /\ writing = [a \in Appenders |-> Garbage]
    /\ dreamPc = "idle" /\ dreamBatch = <<>> /\ compacted = <<>>
    /\ issued = histSetup.legacy /\ histCrashes = 0
    /\ acked = {} /\ dreamed = {} /\ spoiled = {} /\ raced = {}

-----------------------------------------------------------------------------
(* Opening the store *)

(***************************************************************************)
(* maybeMigrateLegacyHistory: with no legacy file, or a journal that is    *)
(* not empty, there is nothing to do; otherwise the parsed chunks replace  *)
(* the journal (temporary file and rename), then both cursors are written  *)
(* and the legacy file is parked.  A write that fails ends it.             *)
(***************************************************************************)
Migrate ==
    /\ migration = "due"
    /\ IF legacy = <<>> \/ history # <<>>
       THEN migration' = "done" /\ UNCHANGED <<history, ragged>>
       ELSE /\ history' = [i \in DOMAIN legacy |-> [cursor |-> i, id |-> legacy[i]]]
            /\ ragged' = FALSE
            /\ migration' = "counter"
    /\ UNCHANGED <<histSetup, counter, dreamCursor, legacy, appendVars, dreamVars, ghosts>>
MigrateCounter ==
    /\ migration = "counter"
    /\ counter' = Len(legacy)
    /\ migration' = "dream"
    /\ UNCHANGED <<histSetup, history, ragged, dreamCursor, legacy, appendVars, dreamVars, ghosts>>
MigrateDream ==
    /\ migration = "dream"
    /\ dreamCursor' = Len(legacy)
    /\ migration' = "park"
    /\ UNCHANGED <<histSetup, history, ragged, counter, legacy, appendVars, dreamVars, ghosts>>
MigratePark ==
    /\ migration = "park"
    /\ legacy' = <<>>
    /\ migration' = "done"
    /\ UNCHANGED <<histSetup, history, ragged, counter, dreamCursor, appendVars, dreamVars, ghosts>>

Open == migration = "done"

-----------------------------------------------------------------------------
(* Append_ *)

MaxCursor(h) == Max(Cursors(h) \cup {0})
(* readLastEntry: the last line, when it can be decoded (a long one cannot: only its tail is read). *)
LastCursor == IF history # <<>> /\ ~histSetup.long /\ IsEntry(Last(history)) THEN Last(history).cursor ELSE NoCursor
NextCursor ==
    LET base == IF LastCursor # NoCursor THEN LastCursor ELSE MaxCursor(history)
    IN  (IF counter # NoCursor THEN Max({counter, base}) ELSE base) + 1

(* Appended to a ragged tail the line runs into it, and readers decode at most its beginning. *)
Extended(line) == IF ragged THEN history ELSE Append(history, line)

(* AppendHistory takes appendLock, picks the cursor and writes the line with its newline. *)
AppendHistory(a) ==
    /\ Open /\ appendPc[a] = "idle" /\ appendLock = NoCursor /\ issued < MaxEntries
    /\ issued' = issued + 1
    /\ LET line == [cursor |-> NextCursor, id |-> issued + 1]
       IN  /\ history' = Extended(line)
           /\ writing' = [writing EXCEPT ![a] = line]
           /\ spoiled' = IF ragged THEN spoiled \cup {line.id} ELSE spoiled
           /\ raced' = IF dreamPc = "rewrite" THEN raced \cup {line.id} ELSE raced
    /\ ragged' = FALSE
    /\ appendLock' = a
    /\ appendPc' = [appendPc EXCEPT ![a] = "counting"]
    /\ UNCHANGED <<histSetup, counter, dreamCursor, legacy, migration, dreamVars, histCrashes, acked, dreamed>>

(* The write fails half way (a full disk): the caller gets the error, the tail stays ragged. *)
AppendFails(a) ==
    /\ Open /\ appendPc[a] = "idle" /\ appendLock = NoCursor /\ issued < MaxEntries /\ histSetup.full
    /\ issued' = issued + 1
    /\ history' = IF ragged THEN history ELSE Append(history, Garbage)
    /\ ragged' = TRUE
    /\ UNCHANGED <<histSetup, counter, dreamCursor, legacy, migration, appendVars, dreamVars,
                   histCrashes, acked, dreamed, spoiled, raced>>

(* The counter file is rewritten, the lock released, the cursor returned. *)
AppendCounted(a) ==
    /\ appendPc[a] = "counting"
    /\ counter' = writing[a].cursor
    /\ acked' = acked \cup {writing[a]}
    /\ appendLock' = NoCursor
    /\ appendPc' = [appendPc EXCEPT ![a] = "idle"]
    /\ UNCHANGED <<histSetup, history, ragged, dreamCursor, legacy, migration, writing, dreamVars,
                   issued, histCrashes, dreamed, spoiled, raced>>

(* The counter cannot be rewritten (a full disk): the caller gets the error though its line is written. *)
AppendUncounted(a) ==
    /\ appendPc[a] = "counting" /\ histSetup.full
    /\ counter' \in {counter, NoCursor}
    /\ appendLock' = NoCursor
    /\ appendPc' = [appendPc EXCEPT ![a] = "idle"]
    /\ UNCHANGED <<histSetup, history, ragged, dreamCursor, legacy, migration, writing, dreamVars,
                   issued, histCrashes, acked, dreamed, spoiled, raced>>

-----------------------------------------------------------------------------
(* Dreaming *)

Unprocessed == SelectSeq(Decoded(history), LAMBDA l : l.cursor > dreamCursor)

(* BuildDreamPrompt: the first entries beyond the dream cursor; without any the run is skipped. *)
DreamBegin ==
    /\ Open /\ dreamPc = "idle" /\ Unprocessed # <<>>
    /\ dreamBatch' = SubSeq(Unprocessed, 1, Min({histSetup.batch, Len(Unprocessed)}))
    /\ dreamPc' = "turn"
    /\ UNCHANGED <<histSetup, fileVars, migration, appendVars, compacted, ghosts>>
DreamIncomplete ==
    /\ dreamPc = "turn"
    /\ dreamPc' = "idle"
    /\ dreamBatch' = <<>>
    /\ UNCHANGED <<histSetup, fileVars, migration, appendVars, compacted, ghosts>>
DreamCompleted ==
    /\ dreamPc = "turn"
    /\ dreamed' = dreamed \cup Ids(dreamBatch)
    /\ dreamPc' = "advance"
    /\ UNCHANGED <<histSetup, fileVars, migration, appendVars, dreamBatch, compacted, issued, histCrashes, acked, spoiled, raced>>
SetLastDreamCursorPast ==
    /\ dreamPc = "advance"
    /\ dreamCursor' = MaxCursor(history)
    /\ dreamBatch' = <<>>
    /\ dreamPc' = "compact"
    /\ UNCHANGED <<histSetup, history, ragged, counter, legacy, migration, appendVars, compacted, ghosts>>
SetLastDreamCursor ==
    /\ dreamPc = "advance"
    /\ dreamCursor' = Last(dreamBatch).cursor
    /\ dreamBatch' = <<>>
    /\ dreamPc' = "compact"
    /\ UNCHANGED <<histSetup, history, ragged, counter, legacy, migration, appendVars, compacted, ghosts>>

(***************************************************************************)
(* CompactHistory reads the journal without the append lock and keeps the  *)
(* last maxHistoryEntries, or everything from the first entry Dream has    *)
(* not consumed when that is more; writeEntries replaces the file later.   *)
(***************************************************************************)
Limit == histSetup.retention
FirstUnprocessed(h) ==
    LET open == {i \in DOMAIN h : h[i].cursor > dreamCursor}
    IN  IF open = {} THEN Len(h) + 1 ELSE Min(open)
KeptForgetsDream(h) == SubSeq(h, Len(h) - Limit + 1, Len(h))
Kept(h) == SubSeq(h, Min({Len(h) - Limit + 1, FirstUnprocessed(h)}), Len(h))
CompactRead ==
    /\ dreamPc = "compact"
    /\ LET h == Decoded(history)
       IN  IF Len(h) <= Limit THEN dreamPc' = "idle" /\ UNCHANGED compacted
           ELSE compacted' = Kept(h) /\ dreamPc' = "rewrite"
    /\ UNCHANGED <<histSetup, fileVars, migration, appendVars, dreamBatch, ghosts>>
CompactRewrite ==
    /\ dreamPc = "rewrite"
    /\ history' = compacted
    /\ ragged' = FALSE
    /\ compacted' = <<>>
    /\ dreamPc' = "idle"
    /\ UNCHANGED <<histSetup, counter, dreamCursor, legacy, migration, appendVars, dreamBatch, ghosts>>

-----------------------------------------------------------------------------
(***************************************************************************)
(* A crash: every call is gone and the store is opened again.  A write it  *)
(* interrupts is torn: the line being appended, or the cursor file being   *)
(* rewritten.  The rename in writeEntries and its data are durable.        *)
(***************************************************************************)
Crash ==
    /\ histCrashes < MaxCrashes
    /\ histCrashes' = histCrashes + 1
    /\ migration' = "due"
    /\ appendLock' = NoCursor
    /\ appendPc' = [a \in Appenders |-> "idle"]
    /\ dreamPc' = "idle" /\ dreamBatch' = <<>> /\ compacted' = <<>>
    /\ \/ UNCHANGED <<history, ragged, counter, dreamCursor>>
       \/ /\ Open /\ appendLock = NoCursor /\ ~ragged   \* torn line
          /\ \E line \in {Garbage, [cursor |-> NextCursor, id |-> 0]} : history' = Append(history, line)
          /\ ragged' = TRUE
          /\ UNCHANGED <<counter, dreamCursor>>
       \/ /\ appendLock # NoCursor                      \* torn .cursor
          /\ counter' = NoCursor
          /\ UNCHANGED <<history, ragged, dreamCursor>>
       \/ /\ dreamPc = "advance"                        \* torn .dream_cursor
          /\ dreamCursor' = 0
          /\ UNCHANGED <<history, ragged, counter>>
    /\ UNCHANGED <<histSetup, legacy, writing, issued, acked, dreamed, spoiled, raced>>

Append_(a) == AppendHistory(a) \/ AppendFails(a) \/ AppendCounted(a) \/ AppendUncounted(a)
Opening == Migrate \/ MigrateCounter \/ MigrateDream \/ MigratePark
DreamRun == DreamBegin \/ DreamIncomplete \/ DreamCompleted \/ SetLastDreamCursor \/ CompactRead \/ CompactRewrite
HistNext == (\E a \in Appenders : Append_(a)) \/ Opening \/ DreamRun \/ Crash

(* Calls in progress go on, the cron service keeps starting the dream job, and its turn is not cut short for ever. *)
HistFairness ==
    /\ WF_histVars(Opening) /\ \A a \in Appenders : WF_histVars(AppendCounted(a) \/ AppendUncounted(a))
    /\ WF_histVars(DreamBegin) /\ SF_histVars(DreamCompleted)
    /\ WF_histVars(SetLastDreamCursor \/ CompactRead \/ CompactRewrite)
HistSpec == HistInit /\ [][HistNext]_histVars /\ HistFairness

-----------------------------------------------------------------------------
(* Properties *)

(* The cursors along the journal increase, whatever was torn, lost or compacted: "the        *)
(* monotonic invariant the journal relies on" of appendLock's comment.                       *)
CursorsIncrease ==
    LET h == Decoded(history)
    IN  \A i, j \in DOMAIN h : i < j => h[i].cursor < h[j].cursor

(* A new entry is ahead of the dream cursor, so that Dream will see it.                      *)
NewEntriesUnseen == Open => NextCursor > dreamCursor

(* An acknowledged entry Dream has not been shown is still in the journal, unless it ran     *)
(* into a torn tail or was appended while a compaction held an older copy of the file.       *)
NothingDroppedUnseen ==
    \A e \in acked : e.id \in Ids(history) \cup dreamed \cup spoiled \cup raced

(* What lies behind the dream cursor was shown to Dream, lost as above, or migrated.         *)
ShownBeforeSkipped ==
    \A e \in acked : e.cursor <= dreamCursor => e.id \in dreamed \cup spoiled \cup raced

JournalInv == CursorsIncrease /\ NewEntriesUnseen /\ NothingDroppedUnseen /\ ShownBeforeSkipped

(* Every acknowledged entry is shown to Dream in the end, unless it was lost as above.       *)
AllDreamed == \A e \in acked : e.id \in dreamed \cup spoiled \cup raced
EverythingDreamed == <>[]AllDreamed

-----------------------------------------------------------------------------
(***************************************************************************)
(* Compaction of an idle session (internal/memory/consolidator.go,         *)
(* archiver.go, archive.go): the messages since the last checkpoint are    *)
(* summarised by the model, or copied raw into the memory journal when the *)
(* model does not deliver, and a checkpoint is committed to the session    *)
(* and saved.  The turns of the agent loop use the same Session object     *)
(* (StoreSessions.Invalidate does nothing and Open returns the cached one) *)
(* and do not take the consolidator's lock.                                *)
(*                                                                         *)
(* A summary is the set of messages it stands for; what the model or a     *)
(* truncation to a token limit leaves out of the text is not modelled.     *)
(***************************************************************************)

CONSTANTS
    Compactors,     \* callers of CompactIdleSession for this session
    MaxTalk,        \* bound: messages of the session
    MaxCompactions, \* bound: compactions begun
    MaxLosses,      \* bound: failed saves and crashes
    Checkpoint,     \* the hidden marker message
    Nobody

VARIABLES
    talk, archived, summary,    \* Session: messages, lastArchived, _last_summary
    stored,                     \* the same three as a restart loads them
    rawEntries,                 \* messages copied into the memory journal
    sessionLock,                \* Consolidator.locks[key]
    compaction,                 \* what each compaction in progress knows
    said, begun, losses,        \* history: messages, compactions, failed saves and crashes
    late, summarised            \* messages appended during a model call; how often each message was summarised

sessionVars == <<talk, archived, summary>>
consVars == <<sessionVars, stored, rawEntries, sessionLock, compaction, said, begun, losses, late, summarised>>

Messages == 1 .. MaxTalk
Resting == [pc |-> "none", source |-> {}, text |-> {}]

ConsTypeOK ==
    /\ talk \in Seq(Messages \cup {Checkpoint})
    /\ archived \in 0 .. Len(talk)
    /\ summary \subseteq Messages /\ rawEntries \subseteq Messages
    /\ sessionLock \in Compactors \cup {Nobody}
    /\ \A c \in Compactors : compaction[c].pc \in {"none", "archiving", "committing"}

ConsInit ==
    /\ talk = <<>> /\ archived = 0 /\ summary = {}
    /\ stored = [talk |-> <<>>, archived |-> 0, summary |-> {}]
    /\ rawEntries = {}
    /\ sessionLock = Nobody
    /\ compaction = [c \in Compactors |-> Resting]
    /\ said = 0 /\ begun = 0 /\ losses = 0
    /\ late = {} /\ summarised = [m \in Messages |-> 0]

-----------------------------------------------------------------------------
(* A turn appends to the journal of the session and to the object.  What else a turn may do to a *)
(* session, its own checkpoint and /new, is in AgentLoop.                                        *)
TurnAppends ==
    /\ said < MaxTalk
    /\ said' = said + 1
    /\ talk' = Append(talk, said + 1)
    /\ stored' = [stored EXCEPT !.talk = Append(@, said + 1)]
    /\ late' = IF \E c \in Compactors : compaction[c].pc # "none" THEN late \cup {said + 1} ELSE late
    /\ UNCHANGED <<archived, summary, rawEntries, sessionLock, compaction, begun, losses, summarised>>

(* What ArchiveSession hands to the archiver: the messages after the boundary, without checkpoints. *)
Source == {talk[i] : i \in archived + 1 .. Len(talk)} \ {Checkpoint}

(***************************************************************************)
(* CompactIdleSession under its per-key lock.  A session without messages  *)
(* after the boundary, or with nothing but the checkpoint there, is left   *)
(* alone.                                                                  *)
(***************************************************************************)
CompactUnlocked(c) ==
    /\ compaction[c].pc = "none" /\ begun < MaxCompactions
    /\ archived < Len(talk)
    /\ begun' = begun + 1
    /\ IF Source = {} THEN UNCHANGED <<sessionLock, compaction>>
       ELSE /\ sessionLock' = c
            /\ compaction' = [compaction EXCEPT ![c] =
                    [pc |-> "archiving", source |-> Source, text |-> {}]]
    /\ UNCHANGED <<sessionVars, stored, rawEntries, said, losses, late, summarised>>
CompactIdleSession(c) ==
    /\ sessionLock = Nobody
    /\ compaction[c].pc = "none" /\ begun < MaxCompactions
    /\ archived < Len(talk)
    /\ begun' = begun + 1
    /\ IF Source = {} THEN UNCHANGED <<sessionLock, compaction>>
       ELSE /\ sessionLock' = c
            /\ compaction' = [compaction EXCEPT ![c] =
                    [pc |-> "archiving", source |-> Source, text |-> {}]]
    /\ UNCHANGED <<sessionVars, stored, rawEntries, said, losses, late, summarised>>

(* The text passed on to the next step: the previous summary and the source, or the source alone. *)
CombineForgets(c) == compaction[c].source
Combine(c) == summary \cup compaction[c].source

(* Archive: the model returns a usable summary. *)
ArchiveSummarised(c) ==
    /\ compaction[c].pc = "archiving"
    /\ compaction' = [compaction EXCEPT ![c].pc = "committing", ![c].text = Combine(c)]
    /\ UNCHANGED <<sessionVars, stored, rawEntries, sessionLock, said, begun, losses, late, summarised>>

(* Archive: an error, a cut-off, empty or tool-calling answer; the raw messages go to the memory journal. *)
ArchiveRaw(c) ==
    /\ compaction[c].pc = "archiving"
    /\ rawEntries' = rawEntries \cup compaction[c].source
    /\ compaction' = [compaction EXCEPT ![c].pc = "committing", ![c].text = Combine(c)]
    /\ UNCHANGED <<sessionVars, stored, sessionLock, said, begun, losses, late, summarised>>

Finish(c) ==
    /\ compaction' = [compaction EXCEPT ![c] = Resting]
    /\ sessionLock' = Nobody

(* The raw fallback cannot write the journal either: the compaction fails and changes nothing. *)
ArchiveFails(c) ==
    /\ compaction[c].pc = "archiving"
    /\ Finish(c)
    /\ UNCHANGED <<sessionVars, stored, rawEntries, said, begun, losses, late, summarised>>

(***************************************************************************)
(* CommitSummaryCheckpoint puts the marker behind every message the object *)
(* has by now and moves the boundary there; Save writes the object.  When  *)
(* Save fails the object keeps the checkpoint.                             *)
(***************************************************************************)
Commit(c) ==
    /\ compaction[c].pc = "committing"
    /\ talk' = Append(talk, Checkpoint)
    /\ archived' = Len(talk)
    /\ summary' = compaction[c].text
    /\ summarised' = [m \in Messages |-> summarised[m] + (IF m \in compaction[c].source THEN 1 ELSE 0)]
CommitSaved(c) ==
    /\ Commit(c)
    /\ stored' = [talk |-> talk', archived |-> archived', summary |-> summary']
    /\ Finish(c)
    /\ UNCHANGED <<rawEntries, said, begun, losses, late>>
CommitSaveFails(c) ==
    /\ losses < MaxLosses
    /\ Commit(c)
    /\ losses' = losses + 1
    /\ Finish(c)
    /\ UNCHANGED <<stored, rawEntries, said, begun, late>>

(* The process restarts and reads the session from its files. *)
ConsCrash ==
    /\ losses < MaxLosses
    /\ losses' = losses + 1
    /\ talk' = stored.talk /\ archived' = stored.archived /\ summary' = stored.summary
    /\ sessionLock' = Nobody
    /\ compaction' = [c \in Compactors |-> Resting]
    /\ UNCHANGED <<stored, rawEntries, said, begun, late, summarised>>

Compacting(c) ==
    \/ CompactIdleSession(c) \/ ArchiveSummarised(c) \/ ArchiveRaw(c) \/ ArchiveFails(c)
    \/ CommitSaved(c) \/ CommitSaveFails(c)
ConsNext == TurnAppends \/ ConsCrash \/ \E c \in Compactors : Compacting(c)

-----------------------------------------------------------------------------
(* Properties *)

(* A message the replayed history no longer begins before is in the summary, in the object   *)
(* and on disk, unless a turn appended it while the model was summarising the others.        *)
NothingForgotten ==
    \A s \in {[talk |-> talk, archived |-> archived, summary |-> summary], stored} :
        {s.talk[i] : i \in 1 .. s.archived} \ {Checkpoint} \subseteq s.summary \cup late

(* No message is summarised twice, except by a compaction repeated after a failed save or a crash. *)
SummarisedOnce == \A m \in Messages : summarised[m] <= 1 + losses

(* What a restart loads is never ahead of the object: no message, and no boundary. *)
StoredBehind ==
    /\ ToSet(stored.talk) \ {Checkpoint} = ToSet(talk) \ {Checkpoint}
    /\ stored.archived <= archived

ConsInv == ConsTypeOK /\ NothingForgotten /\ SummarisedOnce /\ StoredBehind

=============================================================================
