----------------------------- MODULE Namespaces -----------------------------
(***************************************************************************)
(* Which directory of the sessions root a workspace keeps its sessions in  *)
(* (NewStore of internal/session/store.go, lock.go).  A workspace carries  *)
(* an identity file; the namespace directory of that identity records the  *)
(* workspace it belongs to.  Workspaces are copied, moved and removed      *)
(* between runs, identity files get lost, and a process may stop between   *)
(* any two of the writes, which the migration lock keeps to one process.   *)
(*                                                                         *)
(* Paths are canonical; two names of one directory (sameFile), symlinked   *)
(* markers and unreadable directories are left out.                        *)
(***************************************************************************)
EXTENDS Integers, FiniteSets, FiniteSetsExt

CONSTANTS
    Openers,        \* processes that create a store
    Paths,          \* where a workspace can be
    MaxIds,         \* bound: identities drawn (randomHex)
    MaxChanges,     \* bound: things the user does to workspaces, and crashes
    NoPath

NoId == 0
BadId == -1                 \* an identity file that holds no identifier
SpaceIds == 1 .. MaxIds
NoSpace == [made |-> FALSE, owner |-> NoPath, used |-> FALSE]
Closed == [pc |-> "closed", path |-> NoPath, id |-> NoId, tries |-> 0]

VARIABLES
    present, identity,      \* workspaces that exist, and their identity files
    space,                  \* namespace directories: made, .workspace marker, holds sessions
    migrationLock, opener,  \* the lock, and what each process is doing
    drawn, changes,         \* history: identities drawn, user changes and crashes
    home, ambiguous         \* the namespace a workspace was first opened with; workspaces named by two namespaces

nsVars == <<present, identity, space, migrationLock, opener, drawn, changes, home, ambiguous>>

NsTypeOK ==
    /\ present \subseteq Paths
    /\ identity \in [Paths -> SpaceIds \cup {NoId, BadId}]
    /\ space \in [SpaceIds -> [made : BOOLEAN, owner : Paths \cup {NoPath}, used : BOOLEAN]]
    /\ migrationLock \subseteq Openers /\ Cardinality(migrationLock) <= 1
    /\ \A o \in Openers : opener[o].pc \in {"closed", "resolve", "write", "claim", "mark", "open"}

NsInit ==
    /\ present \in {{p} : p \in Paths}
    /\ identity = [p \in Paths |-> NoId]
    /\ space = [i \in SpaceIds |-> NoSpace]
    /\ migrationLock = {}
    /\ opener = [o \in Openers |-> Closed]
    /\ drawn = 0 /\ changes = 0
    /\ home = [p \in Paths |-> NoId] /\ ambiguous = {}

Go(o, pc, id) == opener' = [opener EXCEPT ![o].pc = pc, ![o].id = id]
Fail(o) == opener' = [opener EXCEPT ![o] = Closed] /\ migrationLock' = {}
ghostVars == <<home, ambiguous>>

-----------------------------------------------------------------------------
(* NewStore *)

(* NewStore takes the migration lock; a process that does not get it in time has no store. *)
NewStore(o, p) ==
    /\ opener[o].pc = "closed" /\ p \in present
    /\ migrationLock = {}
    /\ migrationLock' = {o}
    /\ opener' = [opener EXCEPT ![o] = [pc |-> "resolve", path |-> p, id |-> NoId, tries |-> 0]]
    /\ UNCHANGED <<present, identity, space, drawn, changes, ghostVars>>

(* findWorkspaceNamespace: the namespaces that name this workspace. *)
NamespacesOf(p) == {i \in SpaceIds : space[i].owner = p}

(***************************************************************************)
(* resolveWorkspaceID: the identity file, or the namespace that names this *)
(* workspace (any, when several do), or a fresh identity, whose file is    *)
(* created first and written afterwards.                                   *)
(***************************************************************************)
ResolveKnown(o) ==
    /\ opener[o].pc = "resolve"
    /\ identity[opener[o].path] \in SpaceIds
    /\ Go(o, "claim", identity[opener[o].path])
    /\ UNCHANGED <<present, identity, space, migrationLock, drawn, changes, ghostVars>>
ResolveInvalid(o) ==
    /\ opener[o].pc = "resolve"
    /\ identity[opener[o].path] = BadId
    /\ Fail(o)
    /\ UNCHANGED <<present, identity, space, drawn, changes, ghostVars>>
ResolveRecovered(o) ==
    LET p == opener[o].path
    IN  /\ opener[o].pc = "resolve"
        /\ identity[p] = NoId
        /\ \E i \in NamespacesOf(p) :
            /\ identity' = [identity EXCEPT ![p] = i]
            /\ Go(o, "claim", i)
        /\ ambiguous' = IF Cardinality(NamespacesOf(p)) > 1 THEN ambiguous \cup {p} ELSE ambiguous
        /\ UNCHANGED <<present, space, migrationLock, drawn, changes, home>>
ResolveFresh(o) ==
    LET p == opener[o].path
    IN  /\ opener[o].pc = "resolve"
        /\ identity[p] = NoId /\ NamespacesOf(p) = {}
        /\ drawn < MaxIds
        /\ drawn' = drawn + 1
        /\ identity' = [identity EXCEPT ![p] = BadId]
        /\ Go(o, "write", drawn + 1)
        /\ UNCHANGED <<present, space, migrationLock, changes, ghostVars>>
ResolveWritten(o) ==
    /\ opener[o].pc = "write"
    /\ identity' = [identity EXCEPT ![opener[o].path] = opener[o].id]
    /\ Go(o, "claim", opener[o].id)
    /\ UNCHANGED <<present, space, migrationLock, drawn, changes, ghostVars>>

(***************************************************************************)
(* claimWorkspaceNamespace: a directory that does not exist is made and    *)
(* marked; an unmarked one is taken when it is empty; one that names this  *)
(* workspace, or a workspace that is gone, is taken; one that names        *)
(* another workspace means this one is a copy and gets a new identity.     *)
(***************************************************************************)
ClaimMake(o) ==
    /\ opener[o].pc = "claim"
    /\ ~space[opener[o].id].made
    /\ space' = [space EXCEPT ![opener[o].id].made = TRUE]
    /\ Go(o, "mark", opener[o].id)
    /\ UNCHANGED <<present, identity, migrationLock, drawn, changes, ghostVars>>

TakesAnyway(o) == TRUE
Takes(o) ==
    LET s == space[opener[o].id]
    IN  IF s.owner = NoPath THEN ~s.used ELSE s.owner = opener[o].path \/ s.owner \notin present
Opened(o) ==
    LET p == opener[o].path
        i == opener[o].id
    IN  /\ space' = [space EXCEPT ![i].made = TRUE, ![i].owner = p]
        /\ opener' = [opener EXCEPT ![o].pc = "open"]
        /\ migrationLock' = {}
        /\ home' = IF home[p] = NoId THEN [home EXCEPT ![p] = i] ELSE home
ClaimTake(o) ==
    /\ opener[o].pc = "claim"
    /\ space[opener[o].id].made /\ Takes(o)
    /\ Opened(o)
    /\ UNCHANGED <<present, identity, drawn, changes, ambiguous>>
ClaimMarked(o) ==
    /\ opener[o].pc = "mark"
    /\ Opened(o)
    /\ UNCHANGED <<present, identity, drawn, changes, ambiguous>>
ClaimRefused(o) ==
    LET s == space[opener[o].id]
    IN  /\ opener[o].pc = "claim"
        /\ s.made /\ (s.owner = NoPath /\ s.used)
        /\ Fail(o)
        /\ UNCHANGED <<present, identity, space, drawn, changes, ghostVars>>
ClaimRotate(o) ==
    LET p == opener[o].path
        s == space[opener[o].id]
    IN  /\ opener[o].pc = "claim"
        /\ s.made /\ s.owner # NoPath /\ ~Takes(o)
        /\ drawn < MaxIds
        /\ drawn' = drawn + 1
        /\ identity' = [identity EXCEPT ![p] = drawn + 1]
        /\ IF opener[o].tries = 2
           THEN Fail(o)
           ELSE /\ opener' = [opener EXCEPT ![o].id = drawn + 1, ![o].tries = @ + 1]
                /\ UNCHANGED migrationLock
        /\ UNCHANGED <<present, space, changes, ghostVars>>

(* A session is saved in the namespace; the process ends. *)
SaveSession(o) ==
    /\ opener[o].pc = "open" /\ ~space[opener[o].id].used
    /\ space' = [space EXCEPT ![opener[o].id].used = TRUE]
    /\ UNCHANGED <<present, identity, migrationLock, opener, drawn, changes, ghostVars>>
Close(o) ==
    /\ opener[o].pc = "open"
    /\ opener' = [opener EXCEPT ![o] = Closed]
    /\ UNCHANGED <<present, identity, space, migrationLock, drawn, changes, ghostVars>>

-----------------------------------------------------------------------------
(* The world around it *)

InUse(p) == \E o \in Openers : opener[o].path = p
Change == changes < MaxChanges /\ changes' = changes + 1
Rest == UNCHANGED <<space, migrationLock, opener, drawn>>

CopyWorkspace(p, q) ==
    /\ Change /\ p \in present /\ q \notin present
    /\ present' = present \cup {q}
    /\ identity' = [identity EXCEPT ![q] = identity[p]]
    /\ home' = [home EXCEPT ![q] = NoId]
    /\ ambiguous' = ambiguous \ {q}
    /\ Rest
MoveWorkspace(p, q) ==
    /\ Change /\ p \in present /\ q \notin present /\ ~InUse(p)
    /\ present' = (present \ {p}) \cup {q}
    /\ identity' = [identity EXCEPT ![q] = identity[p], ![p] = NoId]
    /\ home' = [home EXCEPT ![p] = NoId, ![q] = NoId]
    /\ ambiguous' = ambiguous \ {q}
    /\ Rest
LoseIdentity(p) ==
    /\ Change /\ p \in present /\ identity[p] # NoId
    /\ identity' = [identity EXCEPT ![p] = NoId]
    /\ UNCHANGED <<present, home, ambiguous>> /\ Rest
NsCrash(o) ==
    /\ Change /\ opener[o].pc # "closed"
    /\ opener' = [opener EXCEPT ![o] = Closed]
    /\ migrationLock' = migrationLock \ {o}
    /\ UNCHANGED <<present, identity, space, drawn, home, ambiguous>>

Resolving(o) == ResolveKnown(o) \/ ResolveInvalid(o) \/ ResolveRecovered(o) \/ ResolveFresh(o) \/ ResolveWritten(o)
Claiming(o) == ClaimMake(o) \/ ClaimTake(o) \/ ClaimMarked(o) \/ ClaimRefused(o) \/ ClaimRotate(o)
WorkspaceChanges == \E p, q \in Paths : CopyWorkspace(p, q) \/ MoveWorkspace(p, q) \/ LoseIdentity(p)
NsNext ==
    \/ \E o \in Openers :
        \/ \E p \in Paths : NewStore(o, p)
        \/ Resolving(o) \/ Claiming(o) \/ SaveSession(o) \/ Close(o) \/ NsCrash(o)
    \/ WorkspaceChanges

-----------------------------------------------------------------------------
(* Properties *)

(* Two workspaces that are open at the same time never keep their sessions in one directory, *)
(* however they were copied and moved: "rotating the id when a copied workspace claims one   *)
(* that belongs to a different, still-existing path".                                        *)
Isolated ==
    \A o1, o2 \in Openers :
        opener[o1].pc = "open" /\ opener[o2].pc = "open" /\ opener[o1].path # opener[o2].path
            => opener[o1].id # opener[o2].id

(* A workspace that stays where it is finds its sessions again, after crashes, after losing  *)
(* its identity file and after being copied, unless two namespaces name it.                  *)
FindsItsSessions ==
    \A o \in Openers :
        opener[o].pc = "open" /\ opener[o].path \notin ambiguous => opener[o].id = home[opener[o].path]

NamespaceInv == NsTypeOK /\ Isolated /\ FindsItsSessions

=============================================================================
