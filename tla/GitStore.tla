------------------------------ MODULE GitStore ------------------------------
(***************************************************************************)
(* Version control of the memory files (internal/gitstore): the work tree, *)
(* .git/index, the object store and HEAD, under Init, AutoCommit and       *)
(* Revert, edits by the agent and crashes.  Nothing locks the repository.  *)
(*                                                                         *)
(* Blobs and trees are content-addressed and renamed into place, so a tree *)
(* is the function it encodes and a commit is its number, with its tree    *)
(* and parent.  The index file is truncated and rewritten: a crash leaves  *)
(* a torn one.  Messages, identities, modes and reflogs are left out.      *)
(***************************************************************************)
EXTENDS Integers, Sequences, FiniteSets, FiniteSetsExt, SequencesExt

CONSTANTS
    GitClients,     \* callers of the store's methods
    TrackedFiles,
    FileContents,   \* what the agent writes; Empty is what Init touches
    MaxCommits, MaxEdits, MaxGitCrashes,    \* bounds
    Empty, Gone, TornIndex

NoCommit == 0
Trees == [TrackedFiles -> FileContents \cup {Empty, Gone}]
Nothing == [f \in TrackedFiles |-> Gone]
GitIdle == [pc |-> "idle", init |-> FALSE, seen |-> Nothing, parent |-> NoCommit, new |-> NoCommit]

VARIABLES
    worktree,           \* the tracked files
    gitDir,             \* .git exists
    gitIndex,           \* .git/index: what is staged, or TornIndex
    commits,            \* the commit objects, by number: tree and parent
    gitHead,            \* the commit HEAD resolves to
    client,             \* what each call is doing: its step, the files it staged, its commit
    edits, gitCrashes,  \* history
    returned,           \* commits whose call has returned them
    overlapped          \* two calls have been writing at once

gitVars == <<worktree, gitDir, gitIndex, commits, gitHead, client, edits, gitCrashes, returned, overlapped>>

CommitIds == DOMAIN commits
GitTypeOK ==
    /\ worktree \in Trees
    /\ gitDir \in BOOLEAN
    /\ gitIndex \in Trees \cup {TornIndex}
    /\ \A i \in CommitIds : commits[i].tree \in Trees /\ commits[i].parent \in 0 .. i - 1
    /\ gitHead \in CommitIds \cup {NoCommit}
    /\ returned \subseteq CommitIds

GitInit ==
    /\ worktree \in {Nothing}
    /\ gitDir = FALSE
    /\ gitIndex = Nothing
    /\ commits = <<>> /\ gitHead = NoCommit
    /\ client = [c \in GitClients |-> GitIdle]
    /\ edits = 0 /\ gitCrashes = 0
    /\ returned = {} /\ overlapped = FALSE

Step(c, pc) == client' = [client EXCEPT ![c].pc = pc]
Return(c) == client' = [client EXCEPT ![c] = GitIdle]
Busy(c) == client[c].pc # "idle"
NotesOverlap(c) == overlapped' = (overlapped \/ \E d \in GitClients \ {c} : Busy(d))
ReadIndex == gitIndex           \* readIndex: fails on a torn file (see Stopped)
Stopped == gitIndex = TornIndex
repoVars == <<gitDir, gitIndex, commits, gitHead>>
faultVars == <<edits, gitCrashes>>

-----------------------------------------------------------------------------
(* Init: makes .git, then touches the tracked files and stages and commits them. *)
InitRepository(c) ==
    /\ ~Busy(c) /\ ~gitDir
    /\ gitDir' = TRUE
    /\ client' = [client EXCEPT ![c].pc = "touch", ![c].init = TRUE]
    /\ NotesOverlap(c)
    /\ UNCHANGED <<worktree, gitIndex, commits, gitHead, faultVars, returned>>
InitTouches(c) ==
    /\ client[c].pc = "touch"
    /\ worktree' = [f \in TrackedFiles |-> IF worktree[f] = Gone THEN Empty ELSE worktree[f]]
    /\ Step(c, "stage")
    /\ UNCHANGED <<repoVars, faultVars, returned, overlapped>>

(* AutoCommit on a repository that exists, even one a crash left without a commit. *)
AutoCommit(c) ==
    /\ ~Busy(c) /\ gitDir
    /\ Step(c, "stage")
    /\ NotesOverlap(c)
    /\ UNCHANGED <<worktree, repoVars, faultVars, returned>>

(***************************************************************************)
(* Revert: the files the parent of the commit has are written back, one by *)
(* one in the code; a file it does not have stays as it is.                *)
(***************************************************************************)
ParentOf(i) == commits[i].parent
RECURSIVE AncestorsOf(_)
AncestorsOf(i) == IF i = NoCommit THEN {} ELSE {i} \cup AncestorsOf(ParentOf(i))
TreeOf(i) == IF i = NoCommit THEN Nothing ELSE commits[i].tree

Restored(t) == [f \in TrackedFiles |-> IF t[f] = Gone THEN worktree[f] ELSE t[f]]
Revert(c, i) ==
    /\ ~Busy(c) /\ gitDir
    /\ i \in AncestorsOf(gitHead) /\ ParentOf(i) # NoCommit     \* resolveSHA, and the parent exists
    /\ \E f \in TrackedFiles : TreeOf(ParentOf(i))[f] # Gone
    /\ worktree' = Restored(TreeOf(ParentOf(i)))
    /\ Step(c, "stage")
    /\ NotesOverlap(c)
    /\ UNCHANGED <<repoVars, faultVars, returned>>

-----------------------------------------------------------------------------
(* stage: the tracked files as they are now replace their entries; a missing file's entry is deleted. *)
Stage(c) ==
    /\ client[c].pc = "stage" /\ ~Stopped
    /\ client' = [client EXCEPT ![c].pc = "index", ![c].seen = worktree]
    /\ UNCHANGED <<worktree, repoVars, faultVars, returned, overlapped>>
StageFails(c) ==
    /\ client[c].pc = "stage" /\ Stopped
    /\ Return(c)
    /\ UNCHANGED <<worktree, repoVars, faultVars, returned, overlapped>>
WriteIndex(c) ==
    /\ client[c].pc = "index"
    /\ gitIndex' = client[c].seen
    /\ Step(c, IF client[c].init THEN "commit" ELSE "compare")
    /\ UNCHANGED <<worktree, gitDir, commits, gitHead, faultVars, returned, overlapped>>

(* hasStagedChanges: the tree of the index against HEAD's; without a HEAD, any entry. *)
HasStagedChangesKept == \E f \in TrackedFiles : ReadIndex[f] \notin {Gone, TreeOf(gitHead)[f]}   \* mutant: deletions are overlooked
HasStagedChanges == ReadIndex # TreeOf(gitHead)
NothingStaged(c) ==
    /\ client[c].pc = "compare" /\ (Stopped \/ ~HasStagedChanges)
    /\ Return(c)
    /\ UNCHANGED <<worktree, repoVars, faultVars, returned, overlapped>>
Staged(c) ==
    /\ client[c].pc = "compare" /\ ~Stopped /\ HasStagedChanges
    /\ Step(c, "commit")
    /\ UNCHANGED <<worktree, repoVars, faultVars, returned, overlapped>>

(* commit: tree from the index, parent from HEAD, object written. *)
CommitObjectRootless(c) ==    \* mutant
    /\ client[c].pc = "commit" /\ ~Stopped
    /\ Len(commits) < MaxCommits
    /\ commits' = Append(commits, [tree |-> ReadIndex, parent |-> NoCommit])
    /\ client' = [client EXCEPT ![c].pc = "head", ![c].new = Len(commits) + 1]
    /\ UNCHANGED <<worktree, gitDir, gitIndex, gitHead, faultVars, returned, overlapped>>
CommitObject(c) ==
    /\ client[c].pc = "commit" /\ ~Stopped
    /\ Len(commits) < MaxCommits
    /\ commits' = Append(commits, [tree |-> ReadIndex, parent |-> gitHead])
    /\ client' = [client EXCEPT ![c].pc = "head", ![c].new = Len(commits) + 1]
    /\ UNCHANGED <<worktree, gitDir, gitIndex, gitHead, faultVars, returned, overlapped>>

(* updateHead reads HEAD again, *)
UpdateHeadReads(c) ==
    /\ client[c].pc = "head"
    /\ client' = [client EXCEPT ![c].pc = "swap", ![c].parent = gitHead]
    /\ UNCHANGED <<worktree, repoVars, faultVars, returned, overlapped>>
(* gives up when it changed since that read, *)
UpdateHeadCompares(c) ==
    /\ client[c].pc = "swap"
    /\ IF gitHead = client[c].parent THEN client' = [client EXCEPT ![c].pc = "write"] ELSE Return(c)
    /\ UNCHANGED <<worktree, repoVars, faultVars, returned, overlapped>>
(* and replaces it, whatever it has become since. *)
UpdateHead(c) ==
    /\ client[c].pc = "write"
    /\ gitHead' = client[c].new /\ returned' = returned \cup {client[c].new}
    /\ Return(c)
    /\ UNCHANGED <<worktree, gitDir, gitIndex, commits, faultVars, overlapped>>

-----------------------------------------------------------------------------
(* The agent writes and deletes memory files; the process stops, perhaps in the middle of the index. *)
EditFile(f, v) ==
    /\ edits < MaxEdits /\ v # worktree[f]
    /\ edits' = edits + 1
    /\ worktree' = [worktree EXCEPT ![f] = v]
    /\ UNCHANGED <<repoVars, client, gitCrashes, returned, overlapped>>
GitCrash ==
    /\ gitCrashes < MaxGitCrashes
    /\ gitCrashes' = gitCrashes + 1
    /\ client' = [c \in GitClients |-> GitIdle]
    /\ gitIndex' \in IF \E c \in GitClients : client[c].pc = "index" THEN {gitIndex, TornIndex} ELSE {gitIndex}
    /\ UNCHANGED <<worktree, gitDir, commits, gitHead, edits, returned, overlapped>>

Committing(c) ==
    \/ Stage(c) \/ StageFails(c) \/ WriteIndex(c) \/ NothingStaged(c) \/ Staged(c)
    \/ CommitObject(c) \/ UpdateHeadReads(c) \/ UpdateHeadCompares(c) \/ UpdateHead(c)
GitNext ==
    \/ \E c \in GitClients :
        \/ InitRepository(c) \/ InitTouches(c) \/ AutoCommit(c) \/ Committing(c)
        \/ \E i \in CommitIds : Revert(c, i)
    \/ \E f \in TrackedFiles, v \in FileContents \cup {Gone} : EditFile(f, v)
    \/ GitCrash

-----------------------------------------------------------------------------
(* Properties *)

(* A commit that was returned stays in the log of HEAD, across crashes, unless two calls     *)
(* were writing at once: nothing compares the new commit's parent with the HEAD it replaces. *)
ReturnedStaysInLog == overlapped \/ returned \subseteq AncestorsOf(gitHead)
GitInv == GitTypeOK /\ ReturnedStaysInLog

(* Whenever a call returns from a readable repository, with a commit or with "nothing to     *)
(* commit", and no other call was writing, HEAD holds exactly the files the call staged,     *)
(* deletions included, however often they were edited or reverted in between.                *)
HeadHoldsStaged ==
    \A c \in GitClients :
        client[c].pc \in {"compare", "swap", "write"} /\ client'[c].pc = "idle" /\ gitCrashes' = gitCrashes /\ ~Stopped /\ ~overlapped
            => TreeOf(gitHead)' = client[c].seen

=============================================================================
