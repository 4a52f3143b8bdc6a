---------------------------- MODULE BuiltinTools ----------------------------
(***************************************************************************)
(* The file tools of internal/tools/builtin: apply_patch, edit_file,       *)
(* write_file, read_file and list_dir, and the path policy they share.     *)
(* Calls of different sessions run at the same time over one workspace;    *)
(* os.WriteFile truncates, then fills, so another call may read between.   *)
(*                                                                         *)
(* A text is a sequence of tokens: words, "nl" (LF) and "crlf" (CR LF).    *)
(***************************************************************************)
EXTENDS Integers, Sequences, FiniteSets, SequencesExt

CONSTANTS
    FtSetups    \* [disk : Paths -> text, calls : caller -> call, faults : Nat]

VARIABLES
    ftSetup,    \* the setup of this behaviour
    disk,       \* what every path holds (Absent: no such file)
    ftPc,       \* idle, plan, snap, open, fill, done
    at,         \* position in the edits, the order of writes or the undo list
    writes,     \* patchWrites: the pending contents in insertion order
    undoing,    \* the write pass failed and the backups are being restored
    backups,    \* what the snapshot read
    outcome,    \* "", "ok", "dry" or "error"
    ftFaults,   \* failures of the file system still to come
    seen,       \* history: what the planning of a call read at each path
    foreign,    \* history: paths another call wrote after this one touched them
    undoFailed  \* history: the rollback itself failed

ftVars == <<ftSetup, disk, ftPc, at, writes, undoing, backups, outcome, ftFaults,
            seen, foreign, undoFailed>>

Absent == <<"absent">>

(***************************************************************************)
(* Texts.                                                                  *)
(***************************************************************************)
Normalised(t) == [i \in DOMAIN t |-> IF t[i] = "crlf" THEN "nl" ELSE t[i]]

UsesCRLF(t) == \E i \in DOMAIN t : t[i] = "crlf"

Restored(t, crlf) ==
    [i \in DOMAIN t |-> IF crlf /\ t[i] = "nl" THEN "crlf" ELSE t[i]]

Terminated(t) == IF t # <<>> /\ Last(t) # "nl" THEN Append(t, "nl") ELSE t

OccursAt(t, s, i) == i + Len(s) - 1 <= Len(t) /\ SubSeq(t, i, i + Len(s) - 1) = s

Occurrences(t, s) == {i \in 1..Len(t) : OccursAt(t, s, i)}

\* appendText: the addition never joins an unterminated last line.
appendText(content, addition) ==
    LET base  == Normalised(content)
        extra == Normalised(addition)
    IN  Terminated(IF base # <<>> /\ extra # <<>> /\ Last(base) # "nl"
                      /\ Head(extra) # "nl"
                   THEN Append(base, "nl") \o extra
                   ELSE base \o extra)

Refused == [ok |-> FALSE, text |-> Absent]

Planned(t) == [ok |-> TRUE, text |-> t]

applyAdd(current, edit) ==
    IF edit.new = Absent THEN Refused
    ELSE IF current # Absent
    THEN Planned(Restored(appendText(current, edit.new), UsesCRLF(current)))
    ELSE Planned(Terminated(Normalised(edit.new)))

applyReplace(current, edit) ==
    IF edit.old = <<>> \/ edit.new = Absent \/ current = Absent THEN Refused
    ELSE LET content == Normalised(current)
             old     == Normalised(edit.old)
             found   == Occurrences(content, old)
             pos     == CHOOSE i \in found : TRUE
         IN  IF Cardinality(found) # 1 THEN Refused
             ELSE Planned(Restored(Terminated(
                      SubSeq(content, 1, pos - 1) \o Normalised(edit.new)
                      \o SubSeq(content, pos + Len(old), Len(content))),
                      UsesCRLF(current)))

(***************************************************************************)
(* edit_file.  A request is [old, new, all, occurrence, hint, expected,    *)
(* markdown]; 0 stands for an argument that was not given, markdown for a  *)
(* path whose extension is one of markdownExtensions.                      *)
(***************************************************************************)
\* findExactMatches: leftmost matches that do not overlap.
findExactMatches(content, old) ==
    LET from[i \in 1..(Len(content) + 1)] ==
            IF i > Len(content) THEN <<>>
            ELSE IF OccursAt(content, old, i) THEN <<i>> \o from[i + Len(old)]
            ELSE from[i + 1]
    IN  from[1]

NewlinesIn(t) == Len(SelectSeq(t, LAMBDA x : x = "nl"))

LineOf(content, start) == NewlinesIn(SubSeq(content, 1, start - 1)) + 1

endLine(content, start, old) ==
    LineOf(content, start)
    + NewlinesIn(IF old # <<>> /\ Last(old) = "nl" THEN Front(old) ELSE old)

\* The arguments that exclude each other, and a count no match satisfies.
SelectorRefused(req, count) ==
    \/ req.all /\ (req.occurrence # 0 \/ req.hint # 0)
    \/ req.occurrence # 0 /\ req.hint # 0
    \/ req.occurrence > count
    \/ count > 1 /\ ~req.all /\ req.occurrence = 0 /\ req.hint = 0

Selected(content, old, req) ==
    LET matches == findExactMatches(content, old)
    IN  CASE req.all            -> matches
          [] req.occurrence # 0 -> <<matches[req.occurrence]>>
          [] req.hint # 0       ->
                SelectSeq(matches, LAMBDA m : LineOf(content, m) <= req.hint
                                           /\ req.hint <= endLine(content, m, old))
          [] OTHER              -> SubSeq(matches, 1, 1)

\* stripTrailingWS, on the only space this alphabet has.
stripTrailingWS(t) ==
    LET keep(i) == \/ t[i] # "sp"
                   \/ \E j \in (i + 1)..Len(t) :
                          t[j] \notin {"sp", "nl"} /\ \A k \in i..j : t[k] # "nl"
    IN  [i \in 1..Cardinality({j \in DOMAIN t : keep(j)}) |->
            t[CHOOSE j \in DOMAIN t : keep(j)
                /\ Cardinality({k \in 1..j : keep(k)}) = i]]

\* Trailing spaces mean a line break in Markdown, and are kept there.
normNew(req) ==
    IF req.markdown THEN Normalised(req.new) ELSE stripTrailingWS(Normalised(req.new))

\* The splice: deleting a whole line takes its line end with it.
Splice(content, old, new, selected) ==
    LET stop(m) == LET e == m + Len(old)
                   IN  IF /\ new = <<>> /\ (m = 1 \/ content[m - 1] = "nl")
                          /\ Last(old) # "nl" /\ e <= Len(content) /\ content[e] = "nl"
                       THEN e + 1 ELSE e
        upto[n \in 0..Len(selected)] ==
            IF n = 0 THEN [text |-> <<>>, prev |-> 1]
            ELSE [text |-> upto[n - 1].text
                           \o SubSeq(content, upto[n - 1].prev, selected[n] - 1) \o new,
                  prev |-> stop(selected[n])]
    IN  upto[Len(selected)].text
        \o SubSeq(content, upto[Len(selected)].prev, Len(content))

EditExecute(current, req) ==
    IF current # Absent /\ req.old = req.new THEN Refused
    ELSE IF current = Absent
    THEN IF req.old = <<>> THEN Planned(req.new) ELSE Refused
    ELSE IF req.old = <<>>
    THEN IF \A i \in DOMAIN current : current[i] \in {"sp", "nl", "crlf"}
         THEN Planned(req.new) ELSE Refused
    ELSE LET content  == Normalised(current)
             old      == Normalised(req.old)
             matches  == findExactMatches(content, old)
             selected == Selected(content, old, req)
         IN  IF matches = <<>> \/ SelectorRefused(req, Len(matches)) THEN Refused
             ELSE IF \/ req.hint # 0 /\ Len(selected) # 1
                     \/ req.expected # 0 /\ Len(selected) # req.expected
             THEN Refused
             ELSE Planned(Restored(Splice(content, old, normNew(req), selected),
                                   UsesCRLF(current)))

(***************************************************************************)
(* read_file: one page.  lines holds the width of every numbered line.     *)
(***************************************************************************)
ReadMaxChars == 5           \* readMaxChars, scaled to the widths of the model
ReadDefaultLimit == 3       \* readDefaultLimit, scaled

\* The page cut one line late.
PageEndLate(lines, offset, limit) ==
    LET window == IF limit > 0 THEN limit ELSE ReadDefaultLimit
        end    == IF offset - 1 + window > Len(lines) THEN Len(lines)
                  ELSE offset - 1 + window
    IN  IF end < Len(lines) THEN end + 1 ELSE end

\* The last line of the page that starts at offset.
PageEnd(lines, offset, limit) ==
    LET window  == IF limit > 0 THEN limit ELSE ReadDefaultLimit
        end     == IF offset - 1 + window > Len(lines) THEN Len(lines)
                   ELSE offset - 1 + window
        width[n \in (offset - 1)..end] ==
            IF n = offset - 1 THEN 0 ELSE width[n - 1] + lines[n] + 1
    IN  IF width[end] - 1 <= ReadMaxChars THEN end
        ELSE CHOOSE n \in (offset - 1)..end :
                 /\ width[n] <= ReadMaxChars
                 /\ n = end \/ width[n + 1] > ReadMaxChars

\* ReadFile.Execute after the file was read: [ok, first, last, next], where
\* next is the offset the answer tells the reader to go on with, 0 at the end.
ReadPage(lines, offset, limit) ==
    LET first == IF offset < 1 THEN 1 ELSE offset
    IN  IF first > Len(lines) THEN [ok |-> FALSE, first |-> 0, last |-> 0, next |-> 0]
        ELSE LET last == PageEnd(lines, first, limit)
             IN  [ok |-> TRUE, first |-> first, last |-> last,
                  next |-> IF last < Len(lines) THEN last + 1 ELSE 0]

(***************************************************************************)
(* list_dir.  An entry is a path below the directory, a sequence of names; *)
(* names are numbers in their string order, 0 stands for an ignored name.  *)
(***************************************************************************)
lessPathParts(a, b) ==
    LET shared == {i \in DOMAIN a : i \in DOMAIN b}
        differ == {i \in shared : a[i] # b[i]}
    IN  IF differ # {}
        THEN LET i == CHOOSE i \in differ : \A j \in differ : i <= j IN a[i] < b[i]
        ELSE Len(a) < Len(b)

hasIgnoredPart(p) == \E i \in DOMAIN p : p[i] = 0

\* [items, total]: the entries listed and how many there were to list.  The
\* recursive walk looks for ignored names in the whole path, the directory's
\* own included; the plain listing only in the entry's name.
ListDirExecute(dir, entries, recursive, limit) ==
    LET kept  == {p \in entries : IF recursive THEN ~hasIgnoredPart(dir \o p)
                                  ELSE Len(p) = 1 /\ ~hasIgnoredPart(p)}
        all   == SetToSortSeq(kept, lessPathParts)
    IN  [items |-> SubSeq(all, 1, IF Len(all) < limit THEN Len(all) ELSE limit),
         total |-> Len(all)]

(***************************************************************************)
(* PathPolicy.  An absolute path is a sequence of names; a tree maps the   *)
(* paths that exist to "dir", "file" or the path a symbolic link names.    *)
(***************************************************************************)
isPrefixPath(root, p) == Len(root) <= Len(p) /\ SubSeq(p, 1, Len(root)) = root

\* The path with every link on it followed, which is filepath.EvalSymlinks when
\* what it leads to exists.
EvalSymlinks(tree, p) ==
    LET real[n \in 0..Len(p)] ==
            IF n = 0 THEN <<>>
            ELSE LET here == Append(real[n - 1], p[n])
                 IN  IF here \in DOMAIN tree.links THEN tree.links[here] ELSE here
    IN  real[Len(p)]

Exists(tree, p) == EvalSymlinks(tree, p) \in tree.nodes

\* A link on the path leads nowhere.
Dangles(tree, p) ==
    \E n \in DOMAIN p :
        LET link == Append(EvalSymlinks(tree, SubSeq(p, 1, n - 1)), p[n])
        IN  link \in DOMAIN tree.links /\ tree.links[link] \notin tree.nodes

\* The path as it is written, its links not followed.
resolveByName(tree, p) == p

resolveNonStrict(tree, p) ==
    LET n == CHOOSE n \in 0..Len(p) :
                 /\ n = 0 \/ Exists(tree, SubSeq(p, 1, n))
                 /\ \A m \in (n + 1)..Len(p) : ~Exists(tree, SubSeq(p, 1, m))
    IN  EvalSymlinks(tree, SubSeq(p, 1, n)) \o SubSeq(p, n + 1, Len(p))

isPathWithin(tree, p, root) ==
    isPrefixPath(resolveNonStrict(tree, root), resolveNonStrict(tree, p))

\* resolve: the allowed directory, the extra directories, then exact files.
policyResolve(policy, tree, p, needRoot) ==
    LET resolved == resolveNonStrict(tree, p)
        files    == IF needRoot /\ ~policy.restricted THEN {} ELSE policy.files
        granted  == \/ ~policy.restricted /\ files = {}
                    \/ policy.restricted /\ isPathWithin(tree, resolved, policy.allowed)
                    \/ \E d \in policy.dirs : isPathWithin(tree, resolved, d)
                    \/ p = resolved /\ p \in files
    IN  [ok |-> granted, path |-> resolved]

(***************************************************************************)
(* The calls.  A call is [tool, edits, dry]: edit_file and write_file have *)
(* one edit; an edit is [path, action, old, new] (apply_patch), a request  *)
(* of edit_file with its path, or [path, new] (write_file).                *)
(***************************************************************************)
Callers == DOMAIN ftSetup.calls

Call(c) == ftSetup.calls[c]

Pending(c, p) == {i \in DOMAIN writes[c] : writes[c][i].path = p}

\* writes.get, else the file.
Current(c, p) ==
    IF Pending(c, p) # {} THEN writes[c][CHOOSE i \in Pending(c, p) : TRUE].text
    ELSE disk[p]

\* patchWrites.set: a path keeps its first place in the order.
SetPending(ws, p, t) ==
    IF \E i \in DOMAIN ws : ws[i].path = p
    THEN [i \in DOMAIN ws |-> IF ws[i].path = p THEN [path |-> p, text |-> t] ELSE ws[i]]
    ELSE Append(ws, [path |-> p, text |-> t])

FtInit ==
    /\ ftSetup \in FtSetups
    /\ disk = ftSetup.disk
    /\ ftPc = [c \in Callers |-> "idle"]
    /\ at = [c \in Callers |-> 1]
    /\ writes = [c \in Callers |-> <<>>]
    /\ undoing = [c \in Callers |-> FALSE]
    /\ backups = [c \in Callers |-> <<>>]
    /\ outcome = [c \in Callers |-> ""]
    /\ ftFaults = ftSetup.faults
    /\ seen = [c \in Callers |-> ftSetup.disk]
    /\ foreign = [c \in Callers |-> {}]
    /\ undoFailed = [c \in Callers |-> FALSE]

Finish(c, result) ==
    /\ ftPc' = [ftPc EXCEPT ![c] = "done"]
    /\ outcome' = [outcome EXCEPT ![c] = result]

\* This call looked at p: what others wrote there before is known to it.
Looked(c, p) == foreign' = [foreign EXCEPT ![c] = @ \ {p}]

\* This call wrote p.
Wrote(c, p) == foreign' = [d \in Callers |-> IF d = c THEN foreign[d] \ {p}
                                             ELSE foreign[d] \cup {p}]

\* One edit of apply_patch: applyAdd or applyReplace over what is pending.
PlanEdit(c) ==
    /\ Call(c).tool = "apply_patch" /\ ftPc[c] \in {"idle", "plan"}
    /\ LET e    == Call(c).edits[at[c]]
           r    == IF e.action = "add" THEN applyAdd(Current(c, e.path), e)
                   ELSE applyReplace(Current(c, e.path), e)
           last == at[c] = Len(Call(c).edits)
       IN  /\ IF Pending(c, e.path) = {}
              THEN Looked(c, e.path) /\ seen' = [seen EXCEPT ![c][e.path] = disk[e.path]]
              ELSE UNCHANGED <<foreign, seen>>
           /\ IF ~r.ok
              THEN Finish(c, "error") /\ UNCHANGED <<writes, at>>
              ELSE /\ writes' = [writes EXCEPT ![c] = SetPending(@, e.path, r.text)]
                   /\ at' = [at EXCEPT ![c] = IF last THEN 1 ELSE @ + 1]
                   /\ IF last /\ Call(c).dry THEN Finish(c, "dry")
                      ELSE /\ ftPc' = [ftPc EXCEPT ![c] = IF last THEN "snap" ELSE "plan"]
                           /\ UNCHANGED outcome
    /\ UNCHANGED <<ftSetup, disk, undoing, backups, ftFaults, undoFailed>>

\* edit_file reads, selects and splices; nothing is snapshotted.
EditPlan(c) ==
    /\ Call(c).tool = "edit_file" /\ ftPc[c] = "idle"
    /\ LET e == Call(c).edits[1]
           r == EditExecute(disk[e.path], e)
       IN  /\ Looked(c, e.path) /\ seen' = [seen EXCEPT ![c][e.path] = disk[e.path]]
           /\ IF ~r.ok
              THEN Finish(c, "error") /\ UNCHANGED writes
              ELSE /\ writes' = [writes EXCEPT ![c] = <<[path |-> e.path, text |-> r.text]>>]
                   /\ ftPc' = [ftPc EXCEPT ![c] = "open"] /\ UNCHANGED outcome
    /\ UNCHANGED <<ftSetup, disk, at, undoing, backups, ftFaults, undoFailed>>

\* write_file replaces the file whatever it holds.
WritePlan(c) ==
    /\ Call(c).tool = "write_file" /\ ftPc[c] = "idle"
    /\ LET e == Call(c).edits[1]
       IN  writes' = [writes EXCEPT ![c] = <<[path |-> e.path, text |-> e.new]>>]
    /\ ftPc' = [ftPc EXCEPT ![c] = "open"]
    /\ UNCHANGED <<ftSetup, disk, at, undoing, backups, outcome, ftFaults, seen, foreign,
                   undoFailed>>

\* The snapshot of one target; a file that cannot be read ends the call.
Snapshot(c) ==
    /\ ftPc[c] = "snap"
    /\ LET p == writes[c][at[c]].path
       IN  \/ /\ backups' = [backups EXCEPT ![c] = Append(@, disk[p])]
              /\ Looked(c, p)
              /\ ftPc' = [ftPc EXCEPT ![c] = IF at[c] = Len(writes[c]) THEN "open" ELSE "snap"]
              /\ at' = [at EXCEPT ![c] = IF @ = Len(writes[c]) THEN 1 ELSE @ + 1]
              /\ UNCHANGED <<outcome, ftFaults>>
           \/ /\ ftFaults > 0 /\ disk[p] # Absent /\ ftFaults' = ftFaults - 1
              /\ Finish(c, "error")
              /\ UNCHANGED <<backups, at, foreign>>
    /\ UNCHANGED <<ftSetup, disk, writes, undoing, seen, undoFailed>>

\* What the current pass stores at its position: the plan, or the backup.
Target(c) == IF undoing[c] THEN backups[c][at[c]] ELSE writes[c][at[c]].text

\* The pass moves on, and the call ends after the last path.
Advance(c) ==
    IF at[c] < Len(writes[c])
    THEN /\ at' = [at EXCEPT ![c] = @ + 1] /\ ftPc' = [ftPc EXCEPT ![c] = "open"]
         /\ UNCHANGED outcome
    ELSE Finish(c, IF undoing[c] THEN "error" ELSE "ok") /\ UNCHANGED at

\* The rollback starts where the write pass stopped.
WriteFailedFromHere(c) ==
    IF Call(c).tool = "apply_patch" /\ ~undoing[c]
    THEN /\ undoing' = [undoing EXCEPT ![c] = TRUE]
         /\ ftPc' = [ftPc EXCEPT ![c] = "open"]
         /\ UNCHANGED <<outcome, undoFailed, at>>
    ELSE /\ Finish(c, "error")
         /\ undoFailed' = [undoFailed EXCEPT ![c] = TRUE]
         /\ UNCHANGED <<undoing, at>>

\* A failed write: apply_patch rolls back from the first path, a failed
\* rollback gives up, the single-file tools just report.
WriteFailed(c) ==
    IF Call(c).tool = "apply_patch" /\ ~undoing[c]
    THEN /\ undoing' = [undoing EXCEPT ![c] = TRUE]
         /\ at' = [at EXCEPT ![c] = 1] /\ ftPc' = [ftPc EXCEPT ![c] = "open"]
         /\ UNCHANGED <<outcome, undoFailed>>
    ELSE /\ Finish(c, "error")
         /\ undoFailed' = [undoFailed EXCEPT ![c] = TRUE]
         /\ UNCHANGED <<undoing, at>>

\* MkdirAll and the open with O_TRUNC; in a rollback, a path that had no file
\* is removed when there is one.
WriteOpen(c) ==
    /\ ftPc[c] = "open"
    /\ LET p == writes[c][at[c]].path
       IN  \/ /\ ftFaults > 0 /\ ftFaults' = ftFaults - 1
              /\ ~(Target(c) = Absent /\ disk[p] = Absent)
              /\ WriteFailed(c) /\ UNCHANGED <<disk, foreign>>
           \/ /\ Target(c) # Absent
              /\ disk' = [disk EXCEPT ![p] = <<>>]
              /\ Wrote(c, p)
              /\ ftPc' = [ftPc EXCEPT ![c] = "fill"]
              /\ UNCHANGED <<at, outcome, undoing, undoFailed, ftFaults>>
           \/ /\ Target(c) = Absent
              /\ disk' = [disk EXCEPT ![p] = Absent]
              /\ IF disk[p] = Absent THEN Looked(c, p) ELSE Wrote(c, p)
              /\ Advance(c)
              /\ UNCHANGED <<undoing, undoFailed, ftFaults>>
    /\ UNCHANGED <<ftSetup, writes, backups, seen>>

\* The bytes reach the file, or the write fails and leaves it truncated.
WriteFill(c) ==
    /\ ftPc[c] = "fill"
    /\ LET p == writes[c][at[c]].path
       IN  \/ /\ disk' = [disk EXCEPT ![p] = Target(c)]
              /\ Wrote(c, p) /\ Advance(c)
              /\ UNCHANGED <<undoing, undoFailed, ftFaults>>
           \/ /\ ftFaults > 0 /\ ftFaults' = ftFaults - 1
              /\ WriteFailed(c) /\ UNCHANGED <<disk, foreign>>
    /\ UNCHANGED <<ftSetup, writes, backups, seen>>

FtNext == \E c \in Callers :
    PlanEdit(c) \/ EditPlan(c) \/ WritePlan(c) \/ Snapshot(c) \/ WriteOpen(c) \/ WriteFill(c)

FtDone == \A c \in Callers : ftPc[c] = "done"

FtSpec == FtInit /\ [][FtNext]_ftVars

(***************************************************************************)
(* Properties.                                                             *)
(***************************************************************************)
FtTypeOK ==
    /\ \A c \in Callers :
        /\ ftPc[c] \in {"idle", "plan", "snap", "open", "fill", "done"}
        /\ outcome[c] \in {"", "ok", "dry", "error"}
        /\ (outcome[c] # "") <=> (ftPc[c] = "done")
        /\ Len(backups[c]) <= Len(writes[c])
    /\ ftFaults \in 0..ftSetup.faults

Named(c) == {Call(c).edits[i].path : i \in DOMAIN Call(c).edits}

\* What the edits of a call, applied one after the other straight to the
\* files, leave behind: the reference for the plan kept in memory.
Sequentially(files, call) ==
    LET result(f, e) == CASE call.tool = "write_file" -> Planned(e.new)
                          [] call.tool = "edit_file"  -> EditExecute(f[e.path], e)
                          [] e.action = "add"         -> applyAdd(f[e.path], e)
                          [] OTHER                    -> applyReplace(f[e.path], e)
        after[n \in 0..Len(call.edits)] ==
            IF n = 0 THEN files
            ELSE LET e == call.edits[n] IN
                 [after[n - 1] EXCEPT ![e.path] = result(after[n - 1], e).text]
    IN  after[Len(call.edits)]

\* A patch that reports success left every file it names, unless another call
\* wrote there since, as its edits applied one by one to what it read would
\* (apply_patch.go, apply: the pending writes).
AppliedInOrder ==
    \A c \in Callers : outcome[c] = "ok" =>
        \A p \in Named(c) \ foreign[c] : disk[p] = Sequentially(seen[c], Call(c))[p]

\* A patch that reports an error, unless its rollback failed too, left every
\* file as its snapshot found it; one that stopped earlier, and a dry run,
\* wrote nothing (apply_patch.go: the snapshot before writeAll, the rollback).
AllOrNothing ==
    \A c \in Callers :
        /\ Call(c).tool = "apply_patch" /\ outcome[c] = "error" /\ ~undoFailed[c] =>
            \A i \in DOMAIN backups[c] :
                writes[c][i].path \notin foreign[c] => disk[writes[c][i].path] = backups[c][i]
        /\ outcome[c] = "dry" =>
            \A p \in Named(c) \ foreign[c] : disk[p] = seen[c][p]

\* A file no call names keeps its content.
OthersUntouched ==
    \A p \in DOMAIN disk : (\A c \in Callers : p \notin Named(c)) => disk[p] = ftSetup.disk[p]

PatchInv == FtTypeOK /\ AppliedInOrder /\ AllOrNothing /\ OthersUntouched
(***************************************************************************)
(* Properties of the functions, over the inputs a run enumerates.          *)
(***************************************************************************)
\* A reader who follows "Use offset=N to continue" is shown every line of a
\* file once and reaches its end, on pages no wider than the limit, unless a
\* single numbered line is wider than a page: then the page is empty and the hint names the same offset again
\* (read_file.go, the readMaxChars trim).
PagingCovers(lines, limit) ==
    LET from[n \in 0..Len(lines)] ==
            IF n = 0 THEN ReadPage(lines, 1, limit)
            ELSE IF from[n - 1].next = 0 THEN from[n - 1]
            ELSE ReadPage(lines, from[n - 1].next, limit)
        steps == {n \in 1..Len(lines) : from[n - 1].next # 0}
        width[n \in 0..Len(lines)] == IF n = 0 THEN 0 ELSE width[n - 1] + lines[n] + 1
        wide  == \E i \in DOMAIN lines : lines[i] >= ReadMaxChars
    IN  lines # <<>> /\ ~wide =>
            /\ from[Len(lines)].last = Len(lines) /\ from[Len(lines)].next = 0
            /\ \A n \in steps : from[n].first = from[n - 1].last + 1
            /\ \A n \in {0} \cup steps :
                   width[from[n].last] - width[from[n].first - 1] - 1 <= ReadMaxChars

\* The listing is in one order: a directory before what it holds, whole
\* subtrees together; a cut listing is the beginning of the full one.
ListingOrdered(dir, entries, limit) ==
    LET full == ListDirExecute(dir, entries, TRUE, Cardinality(entries)).items
        cut  == ListDirExecute(dir, entries, TRUE, limit)
    IN  /\ \A i, j \in DOMAIN full : isPrefixPath(full[i], full[j]) => i <= j
        /\ \A i, j, k \in DOMAIN full :
               i < j /\ j < k /\ Head(full[i]) = Head(full[k]) => Head(full[j]) = Head(full[i])
        /\ cut.total = Len(full) /\ IsPrefix(cut.items, full)

\* A path the policy grants is, once every link on it is followed, below the
\* allowed directory or an extra one, or is one of the files granted by name,
\* unless a link on the path leads nowhere: resolveNonStrict takes such a link
\* for a missing file and keeps its name, though its comment (paths.go:146) has
\* it mirror Python's Path.resolve, which follows that link too.
GrantIsInside(policy, tree, p, needRoot) ==
    LET r == policyResolve(policy, tree, p, needRoot)
    IN  policy.restricted /\ r.ok /\ ~Dangles(tree, p) =>
            \/ \E d \in policy.dirs \cup {policy.allowed} :
                   isPrefixPath(EvalSymlinks(tree, d), EvalSymlinks(tree, p))
            \/ p \in policy.files /\ EvalSymlinks(tree, p) = p

\* An edit that edit_file accepts changes only the spans it selected: with the
\* old text put back at each of them the file is what it was, up to the line
\* ends and to the line end a deleted line takes along; and without
\* replace_all exactly one span changes.
EditIsLocal(current, req) ==
    LET r       == EditExecute(current, req)
        content == Normalised(current)
        old     == Normalised(req.old)
        new     == normNew(req)
        spans   == Selected(content, old, req)
        put(k)  == spans[k] + (k - 1) * (Len(new) - Len(old))
        result  == Normalised(r.text)
    IN  current # Absent /\ req.old # <<>> /\ r.ok =>
            /\ req.all \/ Len(spans) = 1
            /\ UsesCRLF(current) => ~\E i \in DOMAIN r.text : r.text[i] = "nl"
            /\ new # <<>> =>
                /\ Len(result) = Len(content) + Len(spans) * (Len(new) - Len(old))
                /\ \A k \in DOMAIN spans : OccursAt(result, new, put(k))
                /\ Splice(result, new, old, [k \in DOMAIN spans |-> put(k)]) = content
            /\ new = <<>> => Len(result) \in
                (Len(content) - Len(spans) * (Len(old) + 1))..(Len(content) - Len(spans) * Len(old))

-----------------------------------------------------------------------------
(***************************************************************************)
(* The tools that leave the process: exec and python_exec of               *)
(* internal/tools/builtin run a command under a deadline, a2a_call sends a *)
(* message to another agent; and the registry the calls go through         *)
(* (internal/tools/tool.go).                                               *)
(*                                                                         *)
(* A command has a leader and may leave a descendant that keeps the output *)
(* pipe open.  os/exec reaps the leader, then waits for the pipe: exec for *)
(* WaitDelay at most, python_exec for as long as it takes.                 *)
(***************************************************************************)

CONSTANTS
    CtSetups,       \* the commands: see Command below
    MaxClock,       \* bound: ticks of the clock
    MaxWrites       \* bound: chunks the leader writes

VARIABLES
    ctSetup,        \* the command of this behaviour
    ctPc,           \* start, run, drain, returned
    leader,         \* none, alive, exited, killed
    reaped,         \* Process.Wait has returned
    child,          \* none, alive, dead: the descendant holding the pipe
    ctClock,        \* ticks since the command started
    cancelled,      \* the turn's context was cancelled
    signalled,      \* cmd.Cancel was called, and found a process
    waited,         \* ticks since the leader was reaped
    produced,       \* chunks the leader wrote
    captured,       \* chunks in the capped buffer
    dropped,        \* chunks the capped buffer counted as dropped
    verdict,        \* "", ok, failed, timeout, cancelled, blocked
    inTime          \* history: the leader was reaped before the context ended

ctVars == <<ctSetup, ctPc, leader, reaped, child, ctClock, cancelled, signalled, waited,
            produced, captured, dropped, verdict, inTime>>

\* A command: tool, the seconds asked for (0: none), whether the guard is on
\* and what the command line looks like, the shell asked for, its exit code,
\* whether it leaves a descendant.
Command == [tool : {"exec", "python_exec"}, seconds : Nat, restricted : BOOLEAN,
            line : {"plain", "denied", "dotdot"}, cwd : {"inside", "outside"},
            shell : {"", "bash", "missing", "other"}, code : {0, 1}, leaves : BOOLEAN]

DefaultSeconds == 1     \* execDefaultTimeoutSeconds, scaled
MaxSeconds == 2         \* execMaxTimeoutSeconds, scaled
CaptureLimit == 2       \* execMaxCaptureBytes, in chunks
WaitDelay == 1          \* cmd.WaitDelay, in ticks

resolveTimeout(seconds) ==
    IF seconds > 0 THEN IF seconds > MaxSeconds THEN MaxSeconds ELSE seconds
    ELSE DefaultSeconds

\* python_exec ignores a timeout beyond its maximum instead of capping it.
pythonTimeout(seconds) ==
    IF seconds > 0 /\ seconds <= MaxSeconds THEN seconds ELSE DefaultSeconds

Deadline == IF ctSetup.tool = "exec" THEN resolveTimeout(ctSetup.seconds)
            ELSE pythonTimeout(ctSetup.seconds)

\* The directory is checked, the command line is not.
prepareUnguarded(c) == ~c.restricted \/ c.cwd = "inside"

\* The guards of a restricted workspace: TRUE when the command may run.
prepare(c) ==
    ~c.restricted \/ (c.cwd = "inside" /\ c.line # "denied" /\ c.line # "dotdot")

resolveShell(c) == c.shell \in {"", "bash"}

CtInit ==
    /\ ctSetup \in CtSetups
    /\ ctPc = "start" /\ leader = "none" /\ reaped = FALSE /\ child = "none"
    /\ ctClock = 0 /\ cancelled = FALSE /\ signalled = FALSE /\ waited = 0
    /\ produced = 0 /\ captured = 0 /\ dropped = 0
    /\ verdict = "" /\ inTime = FALSE

Return(v) == ctPc' = "returned" /\ verdict' = v

ctProcess == <<leader, reaped, child, signalled, waited, produced, captured, dropped, inTime>>

\* exec: arguments, guards and shell, then cmd.Start.
ExecStart ==
    /\ ctPc = "start" /\ ctSetup.tool = "exec"
    /\ IF cancelled THEN Return("cancelled") /\ UNCHANGED leader
       ELSE IF ~prepare(ctSetup) \/ ~resolveShell(ctSetup)
       THEN Return("blocked") /\ UNCHANGED leader
       ELSE ctPc' = "run" /\ leader' = "alive" /\ UNCHANGED verdict
    /\ UNCHANGED <<ctSetup, reaped, child, ctClock, cancelled, signalled, waited, produced,
                   captured, dropped, inTime>>

\* python_exec starts its interpreter without a guard.
PythonStart ==
    /\ ctPc = "start" /\ ctSetup.tool = "python_exec"
    /\ IF cancelled THEN Return("failed") /\ UNCHANGED leader
       ELSE ctPc' = "run" /\ leader' = "alive" /\ UNCHANGED verdict
    /\ UNCHANGED <<ctSetup, reaped, child, ctClock, cancelled, signalled, waited, produced,
                   captured, dropped, inTime>>

\* cappedBuffer.Write: what does not fit is counted, and the writer goes on;
\* the buffer of python_exec (CombinedOutput) takes everything.
CappedWrite ==
    /\ leader = "alive" /\ ctPc = "run" /\ produced < MaxWrites
    /\ produced' = produced + 1
    /\ IF ctSetup.tool = "python_exec" \/ captured < CaptureLimit
       THEN captured' = captured + 1 /\ UNCHANGED dropped
       ELSE dropped' = dropped + 1 /\ UNCHANGED captured
    /\ UNCHANGED <<ctSetup, ctPc, leader, reaped, child, ctClock, cancelled, signalled,
                   waited, verdict, inTime>>

\* The leader ends by itself, leaving a descendant when it is that kind.
LeaderExits ==
    /\ leader = "alive"
    /\ leader' = "exited"
    /\ child' = IF ctSetup.leaves THEN "alive" ELSE child
    /\ UNCHANGED <<ctSetup, ctPc, reaped, ctClock, cancelled, signalled, waited, produced,
                   captured, dropped, verdict, inTime>>

\* The leader starts its descendant while it goes on itself.
LeaderSpawns ==
    /\ leader = "alive" /\ ctSetup.leaves /\ child = "none"
    /\ child' = "alive"
    /\ UNCHANGED <<ctSetup, ctPc, leader, reaped, ctClock, cancelled, signalled, waited,
                   produced, captured, dropped, verdict, inTime>>

ChildExits ==
    /\ child = "alive" /\ child' = "dead"
    /\ UNCHANGED <<ctSetup, ctPc, leader, reaped, ctClock, cancelled, signalled, waited,
                   produced, captured, dropped, verdict, inTime>>

Tick ==
    /\ ctPc \in {"run", "drain"}
    /\ ctClock < MaxClock \/ (reaped /\ waited < WaitDelay)
    /\ ctClock' = IF ctClock < MaxClock THEN ctClock + 1 ELSE ctClock
    /\ waited' = IF reaped /\ waited < WaitDelay THEN waited + 1 ELSE waited
    /\ UNCHANGED <<ctSetup, ctPc, leader, reaped, child, cancelled, signalled, produced,
                   captured, dropped, verdict, inTime>>

\* The turn is cancelled from outside.
CancelTurn ==
    /\ ctPc # "returned" /\ ~cancelled /\ cancelled' = TRUE
    /\ UNCHANGED <<ctSetup, ctPc, leader, reaped, child, ctClock, signalled, waited,
                   produced, captured, dropped, verdict, inTime>>

ContextOver == cancelled \/ ctClock >= Deadline

\* The group kill reduced to a kill of the leader.
KillLeaderOnly ==
    /\ ctPc = "run" /\ ContextOver /\ ~reaped /\ ~signalled
    /\ ctSetup.tool = "exec"
    /\ signalled' = TRUE
    /\ leader' = IF leader = "alive" THEN "killed" ELSE leader
    /\ UNCHANGED <<ctSetup, ctPc, reaped, child, ctClock, cancelled, waited, produced,
                   captured, dropped, verdict, inTime>>

\* configureProcessTree: the whole group is killed.  A leader that ended but
\* was not reaped yet is still found, so the call counts as a kill.
KillGroup ==
    /\ ctPc = "run" /\ ContextOver /\ ~reaped /\ ~signalled
    /\ ctSetup.tool = "exec"
    /\ signalled' = TRUE
    /\ leader' = IF leader = "alive" THEN "killed" ELSE leader
    /\ child' = IF child = "alive" THEN "dead" ELSE child
    /\ UNCHANGED <<ctSetup, ctPc, reaped, ctClock, cancelled, waited, produced, captured,
                   dropped, verdict, inTime>>

\* python_exec has os/exec's default: the leader alone is killed.
KillLeader ==
    /\ ctPc = "run" /\ ContextOver /\ ~reaped /\ ~signalled
    /\ ctSetup.tool = "python_exec"
    /\ signalled' = TRUE
    /\ leader' = IF leader = "alive" THEN "killed" ELSE leader
    /\ UNCHANGED <<ctSetup, ctPc, reaped, child, ctClock, cancelled, waited, produced,
                   captured, dropped, verdict, inTime>>

\* Process.Wait returns; the goroutine watching the context is gone with it.
Reap ==
    /\ ctPc = "run" /\ leader \in {"exited", "killed"}
    /\ reaped' = TRUE /\ ctPc' = "drain"
    /\ inTime' = (leader = "exited" /\ ~signalled)
    /\ UNCHANGED <<ctSetup, leader, child, ctClock, cancelled, signalled, waited, produced,
                   captured, dropped, verdict>>

PipeClosed == child # "alive"

\* What cmd.Run returns: nil, or the first of the exit status, the context's
\* error when it was killed, and ErrWaitDelay.
RunError(delayed) ==
    IF leader = "killed" \/ ctSetup.code # 0 THEN "exit"
    ELSE IF signalled THEN "context"
    ELSE IF delayed THEN "delay" ELSE ""

\* The verdict taken from the context alone.
ExecVerdictByExit(err) ==
    CASE cancelled   -> "cancelled"
      [] OTHER       -> IF err = "exit" THEN "failed" ELSE "ok"

\* The verdict of exec: the context counts only when Run returned an error.
ExecVerdict(err) ==
    CASE err # "" /\ cancelled              -> "cancelled"
      [] err # "" /\ ~cancelled /\ ContextOver -> "timeout"
      [] err = ""                           -> "ok"
      [] OTHER                              -> "failed"

\* No WaitDelay: the call waits for whoever holds the pipe.
ExecReturnPatient ==
    /\ ctPc = "drain" /\ ctSetup.tool = "exec" /\ PipeClosed
    /\ Return(ExecVerdict(RunError(FALSE)))
    /\ UNCHANGED <<ctSetup, ctClock, cancelled>> /\ UNCHANGED ctProcess

ExecReturn ==
    /\ ctPc = "drain" /\ ctSetup.tool = "exec"
    /\ PipeClosed \/ waited >= WaitDelay
    /\ Return(ExecVerdict(RunError(~PipeClosed)))
    /\ UNCHANGED <<ctSetup, ctClock, cancelled>> /\ UNCHANGED ctProcess

\* python_exec answers every outcome as ordinary content, after the pipe is closed.
PythonReturn ==
    /\ ctPc = "drain" /\ ctSetup.tool = "python_exec" /\ PipeClosed
    /\ \E first \in {"timeout", "failed"} :      \* which end of the context came first
        /\ first = "timeout" => ctClock >= Deadline
        /\ first = "failed" => cancelled \/ ctClock < Deadline
        /\ Return(IF RunError(FALSE) = "" THEN "ok" ELSE first)
    /\ UNCHANGED <<ctSetup, ctClock, cancelled>> /\ UNCHANGED ctProcess

CtNext ==
    \/ ExecStart \/ PythonStart \/ CappedWrite \/ LeaderExits \/ LeaderSpawns \/ ChildExits
    \/ Tick \/ CancelTurn \/ KillGroup \/ KillLeader \/ Reap \/ ExecReturn \/ PythonReturn

\* Steps of the tool, of the operating system and of time; the command itself
\* and its descendant owe nothing.
CtProgress ==
    ExecStart \/ PythonStart \/ KillGroup \/ KillLeader \/ Reap \/ ExecReturn \/ PythonReturn

(***************************************************************************)
(* a2a_call.  A URL is [host, rpc], rpc when its path ends in /a2a.  A     *)
(* peer is [card, first, second]: its card, <<>> when none can be fetched, *)
(* and how it answers the two method names.                                *)
(***************************************************************************)
NoURL == [host |-> "", rpc |-> FALSE]

\* The first JSON-RPC interface with a URL, else the URL of an older card.
jsonRPCEndpoint(card) ==
    LET found == SelectSeq(card.ifaces, LAMBDA i : i.binding = "JSONRPC" /\ i.url # NoURL)
    IN  IF found # <<>> THEN Head(found).url ELSE card.url

\* Where a message goes: to the advertised endpoint, else below the base.
Endpoint(base, peer) ==
    LET advertised == IF peer.card = <<>> THEN NoURL ELSE jsonRPCEndpoint(peer.card[1])
        endpoint   == IF advertised # NoURL THEN advertised ELSE base
    IN  IF endpoint = base THEN [base EXCEPT !.rpc = TRUE] ELSE endpoint

\* Whether the peer took the message in before it answered this way: an
\* answer may be lost, too large or not JSON after the work was done.
TookIn(answer) == answer \in {"reply", "empty", "lost", "garbled"}

\* The second method name is also tried when an answer was lost.
sendMessageRetrying(peer) ==
    LET again == peer.first \in {"notfound", "lost"}
        final == IF again THEN peer.second ELSE peer.first
    IN  [posts |-> IF again THEN <<peer.first, peer.second>> ELSE <<peer.first>>,
         answer |-> IF final \in {"lost", "garbled"} THEN "error"
                    ELSE IF final \in {"notfound", "refused"} THEN "A2A error"
                    ELSE IF final = "empty" THEN "no task or message" ELSE "reply"]

\* sendMessage: the second method name only after "method not found".
sendMessage(peer) ==
    LET again == peer.first = "notfound"
        final == IF again THEN peer.second ELSE peer.first
    IN  [posts |-> IF again THEN <<peer.first, peer.second>> ELSE <<peer.first>>,
         answer |-> IF final \in {"lost", "garbled"} THEN "error"
                    ELSE IF final \in {"notfound", "refused"} THEN "A2A error"
                    ELSE IF final = "empty" THEN "no task or message" ELSE "reply"]

\* Execute of a2a_call: every outcome is ordinary content.
A2AExecute(input, peer) ==
    LET said(x) == [to |-> NoURL, posts |-> <<>>, answer |-> x]
        sent    == sendMessage(peer)
    IN  CASE input.url = NoURL -> said("agent_url is required")
          [] input.action = "discover" ->
                said(IF peer.card = <<>> THEN "discovery failed" ELSE "card")
          [] input.action = "send" /\ input.text = "" -> said("task_message is required")
          [] input.action = "send" /\ input.text # "" ->
                [to |-> Endpoint(input.url, peer), posts |-> sent.posts, answer |-> sent.answer]
          [] OTHER -> said("unknown action")

\* joinParts over texts, "" being a blank one.
joinParts(parts) == SelectSeq(parts, LAMBDA x : x # "")

\* formatTask: artifacts, else the status message, else the last of the history.
formatTask(task) ==
    LET fromArtifacts == joinParts(FlattenSeq(task.artifacts))
        fromStatus    == joinParts(task.status)
    IN  IF fromArtifacts # <<>> THEN fromArtifacts
        ELSE IF fromStatus # <<>> THEN fromStatus
        ELSE IF task.history # <<>> THEN joinParts(Last(task.history)) ELSE <<>>

(***************************************************************************)
(* The registry.  Names are numbers in their string order; those from Mcp  *)
(* on carry the mcp_ prefix.                                               *)
(***************************************************************************)
Mcp == 3

\* A name registered again is listed again.
RegisterTwice(reg, name, tool) ==
    [order |-> Append(reg.order, name),
     tools |-> [n \in DOMAIN reg.tools \cup {name} |-> IF n = name THEN tool ELSE reg.tools[n]]]

Register(reg, name, tool) ==
    [order |-> IF name \in DOMAIN reg.tools THEN reg.order ELSE Append(reg.order, name),
     tools |-> [n \in DOMAIN reg.tools \cup {name} |-> IF n = name THEN tool ELSE reg.tools[n]]]

Schemas(reg) ==
    LET names == SortSeq(SelectSeq(reg.order, LAMBDA n : n < Mcp), <)
                 \o SortSeq(SelectSeq(reg.order, LAMBDA n : n >= Mcp), <)
    IN  [i \in DOMAIN names |-> [name |-> names[i], tool |-> reg.tools[names[i]]]]

\* Execute: one result for every call, an error unless the tool itself said ok.
RegistryExecute(reg, call) ==
    [id |-> call.id,
     error |-> IF ~call.validName \/ call.name \notin DOMAIN reg.tools \/ ~call.object
               THEN TRUE ELSE reg.tools[call.name] = "failing"]

(***************************************************************************)
(* Properties.                                                             *)
(***************************************************************************)
CtTypeOK ==
    /\ ctSetup \in Command
    /\ ctPc \in {"start", "run", "drain", "returned"}
    /\ leader \in {"none", "alive", "exited", "killed"}
    /\ child \in {"none", "alive", "dead"}
    /\ verdict \in {"", "ok", "failed", "timeout", "cancelled", "blocked"}
    /\ ctClock \in 0..MaxClock

\* A command is reported as done only when it ended by itself with status 0
\* and nothing held its output any more; what it wrote was kept or counted as
\* dropped; a blocked command never started (exec.go, Execute).
VerdictHonest ==
    /\ verdict = "ok" => leader = "exited" /\ ctSetup.code = 0 /\ child # "alive"
    /\ captured + dropped = produced
    /\ verdict = "blocked" => leader = "none"
    /\ verdict = "timeout" => ctClock >= Deadline
    /\ ctSetup.restricted /\ ctSetup.tool = "exec" /\ leader # "none" =>
        ctSetup.cwd = "inside" /\ ctSetup.line = "plain"

\* A command whose context ended before its leader was reaped leaves no
\* process of its group behind (process_unix.go: the group kill); a descendant
\* outlives exec only when the leader had ended by itself in time.
NoOrphan ==
    ctSetup.tool = "exec" /\ ctPc = "returned" /\ child = "alive" => inTime

ExecInv == CtTypeOK /\ VerdictHonest /\ NoOrphan

\* A call of exec always returns; one of python_exec does unless a descendant
\* keeps the pipe open, which no deadline ends (python_exec.go:103).
CtAtRest ==
    \/ ctPc = "returned"
    \/ ctSetup.tool = "python_exec" /\ child = "alive"

\* A message reaches the work of the peer at most once, whatever is lost or
\* garbled on the way back: only a peer that knows no such method is asked
\* again.  It goes to a JSON-RPC interface when the card has one, and only a
\* send takes it there (a2a_call.go, Execute and sendMessage).
TakenInOnce(input, peer) ==
    LET r == A2AExecute(input, peer)
    IN  /\ Cardinality({i \in DOMAIN r.posts : TookIn(r.posts[i])}) <= 1
        /\ r.answer = "reply" => input.action = "send" /\ TookIn(Last(r.posts))
        /\ r.posts # <<>> /\ peer.card # <<>> =>
               LET rpc == {i \in Range(peer.card[1].ifaces) : i.binding = "JSONRPC"}
               IN  (\E i \in rpc : i.url # NoURL) =>
                       \E i \in rpc : r.to = i.url \/ (i.url = input.url /\ r.to.host = i.url.host)

\* A task that produced text anywhere the peer may put it is never read as silent.
ReplyKept(task) ==
    formatTask(task) = <<>> =>
        /\ \A i \in DOMAIN task.artifacts : joinParts(task.artifacts[i]) = <<>>
        /\ joinParts(task.status) = <<>>

\* Whatever was registered, and however often, every name is advertised once,
\* with the tool registered last, built-in tools before MCP tools and each
\* group in order: the prompt prefix does not depend on the order of registration;
\* and a call by an advertised name runs the tool advertised under it.
AdvertisedOnce(regs) ==
    LET after[n \in 0..Len(regs)] ==
            IF n = 0 THEN [order |-> <<>>, tools |-> <<>>]
            ELSE Register(after[n - 1], regs[n].name, regs[n].tool)
        reg == after[Len(regs)]
        s   == Schemas(reg)
    IN  /\ \A i, j \in DOMAIN s : i < j => s[i].name < s[j].name
        /\ \A n \in DOMAIN regs : (\A m \in (n + 1)..Len(regs) : regs[m].name # regs[n].name) =>
               \E i \in DOMAIN s : s[i] = regs[n]
        /\ \A i \in DOMAIN s :
               LET call == [id |-> i, name |-> s[i].name, validName |-> TRUE, object |-> TRUE]
               IN  RegistryExecute(reg, call) = [id |-> i, error |-> s[i].tool = "failing"]

=============================================================================
