---------------------------- MODULE SessionStore ----------------------------
(***************************************************************************)
(* One session of the session store (internal/session/session.go, store.go *)
(* and summary.go): the canonical file, the append-only journal beside it, *)
(* the Session object each process holds, and the cache that decides       *)
(* whether Open reuses the object or reads the files again.                *)
(*                                                                         *)
(* Every operation runs under the session-files lock, so it is one action, *)
(* split only where a crash or a failed write may cut it.  The file sizes  *)
(* and times that validate a cache entry are abstracted to whether a file  *)
(* was written since the entry was made.  A message carries its id and     *)
(* whether it was replaced; metadata records and encodings are left out.   *)
(***************************************************************************)
EXTENDS Integers, Sequences, FiniteSets, SequencesExt

CONSTANTS
    Procs,          \* processes, each with a store and a Session object
    Msgs, Batches,  \* messages, and what a turn appends at once
    Setups,         \* the environments considered
    MaxMarkers,     \* bound: summaries
    Marker, Torn

Entry == [id : Msgs \cup {Marker}, replaced : BOOLEAN]

VARIABLES
    setup,      \* the environment of this behaviour
    base,       \* the messages of the canonical file
    journal,    \* the records of the journal file; Torn is half a line
    mem,        \* Session.messages of each process
    jsize,      \* Session.journalSize, in records
    open,       \* the processes that hold a Session object
    cached,     \* those whose cache entry still matches the files
    given,      \* the messages given to AppendMessagesDurable so far
    kept,       \* the messages acknowledged and not cleared or deleted since
    faults

files == <<base, journal>>
objects == <<mem, jsize, open, cached>>
vars == <<setup, files, objects, given, kept, faults>>

Ops         == setup.ops            \* the operations used besides appends and compactions
Overlapping == setup.overlapping    \* whether a process goes on with an object the files have left behind
TornWrites  == setup.tornWrites     \* whether a journal write may end half-way
CutSaves    == setup.cutSaves       \* whether a save may end between its two files
MaxFaults   == setup.maxFaults      \* bound: crashes, torn writes and cut saves

TypeOK ==
    /\ setup \in Setups
    /\ base \in Seq(Entry)
    /\ journal \in Seq(Entry \cup {Torn})
    /\ mem \in [Procs -> Seq(Entry)]
    /\ jsize \in [Procs -> Nat]
    /\ open \subseteq Procs
    /\ cached \subseteq open
    /\ given \subseteq Msgs
    /\ kept \subseteq given
    /\ faults \in 0 .. MaxFaults

Init ==
    /\ setup \in Setups
    /\ base = <<>>
    /\ journal = <<>>
    /\ mem = [p \in Procs |-> <<>>]
    /\ jsize = [p \in Procs |-> 0]
    /\ open = {}
    /\ cached = {}
    /\ given = {}
    /\ kept = {}
    /\ faults = 0

-----------------------------------------------------------------------------
Ids(s) == {s[i].id : i \in DOMAIN s}

Fresh(b) == [i \in DOMAIN b |-> [id |-> b[i], replaced |-> FALSE]]

(* Mutant of Readable: stops at the first line it cannot read.              *)
ReadableUpToTorn(j) ==
    LET good == {i \in DOMAIN j : \A k \in 1 .. i : j[k] # Torn}
        lines == SetToSortSeq(good, <)
    IN  [k \in DOMAIN lines |-> j[lines[k]]]

(* consumeRecords: a line that is not a JSON object is skipped, and a line  *)
(* that follows half a line is joined to it.                                *)
Readable(j) ==
    LET good == {i \in DOMAIN j : j[i] # Torn /\ (i > 1 => j[i - 1] # Torn)}
        lines == SetToSortSeq(good, <)
    IN  [k \in DOMAIN lines |-> j[lines[k]]]

(* Mutant of Overlap: the journal is always replayed as a whole.            *)
OverlapNone(b, j) == 0

(* The longest prefix of the journal that ends the canonical transcript.    *)
Overlap(b, j) ==
    LET fits == {n \in 0 .. Len(j) : n <= Len(b) /\ SubSeq(b, Len(b) - n + 1, Len(b)) = SubSeq(j, 1, n)}
    IN  CHOOSE n \in fits : \A k \in fits : k <= n

(* loadLocked: the canonical file, then the rest of the journal.            *)
Loaded == LET j == Readable(journal)
          IN  base \o SubSeq(j, Overlap(base, j) + 1, Len(j))

-----------------------------------------------------------------------------
(* Mutant of Open: remembers a session it could not load.                   *)
OpenRemembersFailure(p) ==
    /\ p \notin cached
    /\ cached' = cached \cup {p}
    /\ UNCHANGED <<setup, files, mem, jsize, open, given, kept, faults>>

(* Open, when the cache has no entry that matches the files; otherwise it   *)
(* returns the object there is.                                             *)
Open(p) ==
    /\ p \notin cached
    /\ open' = open \cup {p}
    /\ cached' = cached \cup {p}
    /\ mem' = [mem EXCEPT ![p] = Loaded]
    /\ jsize' = [jsize EXCEPT ![p] = Len(journal)]
    /\ UNCHANGED <<setup, files, given, kept, faults>>

(* rememberSession, for a fifth session: the cache drops its oldest entry.  *)
Evict(p) ==
    /\ p \in cached
    /\ cached' = cached \ {p}
    /\ UNCHANGED <<setup, files, mem, jsize, open, given, kept, faults>>

(* A turn opens the session when it begins; with overlapping turns the      *)
(* files may have changed when it writes.                                   *)
Holds(p) == p \in open /\ (Overlapping \/ p \in cached)

Unused(b) == ToSet(b) \cap given = {}

(* Mutant of AppendMessagesDurable: other processes do not notice it.       *)
AppendUnnoticed(p, b) ==
    /\ Holds(p)
    /\ Unused(b)
    /\ journal' = journal \o Fresh(b)
    /\ mem' = [mem EXCEPT ![p] = @ \o Fresh(b)]
    /\ jsize' = [jsize EXCEPT ![p] = @ + Len(b)]
    /\ cached' = cached \cup {p}
    /\ given' = given \cup ToSet(b)
    /\ kept' = kept \cup ToSet(b)
    /\ UNCHANGED <<setup, base, open, faults>>

(* Mutant of AppendMessagesDurable: the object keeps one message of several. *)
AppendFirstOnly(p, b) ==
    /\ Holds(p)
    /\ Unused(b)
    /\ journal' = journal \o Fresh(b)
    /\ mem' = [mem EXCEPT ![p] = @ \o SubSeq(Fresh(b), 1, 1)]
    /\ jsize' = [jsize EXCEPT ![p] = @ + Len(b)]
    /\ cached' = {p}
    /\ given' = given \cup ToSet(b)
    /\ kept' = kept \cup ToSet(b)
    /\ UNCHANGED <<setup, base, open, faults>>

(* rememberCurrent stamps the entry with the files as they are now.         *)
AppendMessagesDurable(p, b) ==
    /\ Holds(p)
    /\ Unused(b)
    /\ journal' = journal \o Fresh(b)
    /\ mem' = [mem EXCEPT ![p] = @ \o Fresh(b)]
    /\ jsize' = [jsize EXCEPT ![p] = @ + Len(b)]
    /\ cached' = {p}
    /\ given' = given \cup ToSet(b)
    /\ kept' = kept \cup ToSet(b)
    /\ UNCHANGED <<setup, base, open, faults>>

(* The write fails after n whole records and part of the next; the caller   *)
(* is told, and its object does not change.                                 *)
AppendTorn(p, b, n) ==
    /\ TornWrites /\ faults < MaxFaults
    /\ faults' = faults + 1
    /\ Holds(p)
    /\ Unused(b)
    /\ n < Len(b)
    /\ journal' = Append(journal \o Fresh(SubSeq(b, 1, n)), Torn)
    /\ cached' = {}
    /\ given' = given \cup ToSet(b)
    /\ UNCHANGED <<setup, base, mem, jsize, open, kept>>

-----------------------------------------------------------------------------
(* In memory only, until a save.                                            *)

SetMessage(p, i) ==
    /\ "set" \in Ops
    /\ Holds(p)
    /\ i \in DOMAIN mem[p] /\ mem[p][i].id \in Msgs
    /\ mem' = [mem EXCEPT ![p][i].replaced = TRUE]
    /\ UNCHANGED <<setup, files, jsize, open, cached, given, kept, faults>>

(* The marker goes before the messages that stay, wherever those are.       *)
CommitSummaryCheckpoint(p, i) ==
    /\ "summary" \in Ops
    /\ Holds(p)
    /\ i \in 0 .. Len(mem[p])
    /\ Cardinality({k \in DOMAIN mem[p] : mem[p][k].id = Marker}) < MaxMarkers
    /\ mem' = [mem EXCEPT ![p] = InsertAt(@, i + 1, [id |-> Marker, replaced |-> FALSE])]
    /\ UNCHANGED <<setup, files, jsize, open, cached, given, kept, faults>>

-----------------------------------------------------------------------------
(* saveLocked: the canonical file is replaced, then the journal removed.    *)

(* Mutant of saveLocked: leaves the journal.                                *)
saveKeepsJournal(p) ==
    /\ base' = mem[p]
    /\ jsize' = [jsize EXCEPT ![p] = 0]
    /\ cached' = {p}
    /\ UNCHANGED <<setup, journal, mem, open, given, kept, faults>>

saveLocked(p) ==
    /\ base' = mem[p]
    /\ journal' = <<>>
    /\ jsize' = [jsize EXCEPT ![p] = 0]
    /\ cached' = {p}
    /\ UNCHANGED <<setup, mem, open, given, kept, faults>>

(* Save, as it follows a summary or a replacement.                          *)
Saves(p) == Holds(p) /\ Ops \cap {"summary", "set"} # {}

Save(p) == Saves(p) /\ saveLocked(p)

(* Only when the journal is the one the object knows, as far as it knows.   *)
Compacts(p) == Holds(p) /\ journal # <<>> /\ (jsize[p] > 0 => jsize[p] = Len(journal))

CompactJournal(p) == Compacts(p) /\ saveLocked(p)

(* A save that stops between the two files: removing one fails.             *)
SaveCut(p) ==
    /\ CutSaves /\ faults < MaxFaults
    /\ faults' = faults + 1
    /\ Saves(p) \/ Compacts(p)
    /\ base' = mem[p]
    /\ cached' = {}
    /\ UNCHANGED <<setup, journal, mem, jsize, open, given, kept>>

(* Clear, and the save that the /new command does at once; the save may be  *)
(* cut as any other.                                                        *)
Clear(p) ==
    /\ "clear" \in Ops
    /\ Holds(p)
    /\ mem' = [mem EXCEPT ![p] = <<>>]
    /\ base' = <<>>
    /\ kept' = kept \ Ids(mem[p])
    /\ \/ /\ journal' = <<>>
          /\ jsize' = [jsize EXCEPT ![p] = 0]
          /\ cached' = {p}
          /\ UNCHANGED faults
       \/ /\ CutSaves /\ faults < MaxFaults
          /\ faults' = faults + 1
          /\ cached' = {}
          /\ UNCHANGED <<setup, journal, jsize>>
    /\ UNCHANGED <<setup, open, given>>

Delete(p) ==
    /\ "delete" \in Ops
    /\ base' = <<>>
    /\ journal' = <<>>
    /\ cached' = {}
    /\ kept' = {}
    /\ UNCHANGED <<setup, mem, jsize, open, given, faults>>

(* The process stops between two operations.                                *)
Crash(p) ==
    /\ p \in open /\ faults < MaxFaults
    /\ faults' = faults + 1
    /\ open' = open \ {p}
    /\ cached' = cached \ {p}
    /\ mem' = [mem EXCEPT ![p] = <<>>]
    /\ jsize' = [jsize EXCEPT ![p] = 0]
    /\ UNCHANGED <<setup, files, given, kept>>

Next ==
    \E p \in setup.procs :
        \/ Open(p) \/ Evict(p)
        \/ \E b \in setup.batches :
              \/ AppendMessagesDurable(p, b)
              \/ \E n \in 0 .. Len(b) - 1 : AppendTorn(p, b, n)
        \/ \E i \in DOMAIN mem[p] : SetMessage(p, i)
        \/ \E i \in 0 .. Len(mem[p]) : CommitSummaryCheckpoint(p, i)
        \/ Save(p) \/ SaveCut(p) \/ Clear(p) \/ CompactJournal(p) \/ Delete(p) \/ Crash(p)

Spec == Init /\ [][Next]_vars

-----------------------------------------------------------------------------
(* Where the transcript is kept: no write is torn, only a save of plain     *)
(* appends is cut, and turns of several processes do not overlap.           *)
Undisturbed ==
    /\ ~TornWrites
    /\ CutSaves => Ops = {}
    /\ Overlapping => Cardinality(setup.procs) = 1

(* The files as a reader would load them behave as a transcript: what is    *)
(* acknowledged is there once, in order, whole appends at a time, through   *)
(* summaries, replacements, compactions and crashes.                        *)
T == INSTANCE Transcript WITH log <- IF Undisturbed THEN Loaded ELSE <<>>, kept <- IF Undisturbed THEN kept ELSE {}
ImplementsTranscript == T!Spec

(* Every acknowledged message that was not cleared or deleted is loaded     *)
(* again (loadLocked).                                                      *)
NothingLost == kept \subseteq Ids(Loaded)

(* A torn write costs at most one acknowledged message, the one joined to   *)
(* it: consumeRecords skips that line and reads on.                         *)
TornLossBounded == Cardinality(kept \ Ids(Loaded)) <= faults

(* No message is loaded twice (loadLocked, the overlap).                    *)
NothingTwice ==
    \A i, k \in DOMAIN Loaded : Loaded[i].id = Loaded[k].id /\ Loaded[i].id \in Msgs => i = k

(* The object Open returns from its cache has every message the files have  *)
(* (cachedSession).                                                         *)
CacheCurrent == \A p \in cached : Ids(Loaded) \cap kept \subseteq Ids(mem[p])

(* Without torn writes: what the /new command cleared is not loaded again   *)
(* (saveLocked, loadLocked).                                                *)
ClearedNotLoaded == (given \ kept) \cap Ids(Loaded) = {}

(* A session read from memory misses nothing the files hold, and the files  *)
(* miss at most one acknowledged message for each fault.                    *)
SessionInv == TypeOK /\ CacheCurrent /\ TornLossBounded
=============================================================================
