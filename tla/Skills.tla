-------------------------------- MODULE Skills --------------------------------
(***************************************************************************)
(* The skills of a workspace (internal/skills): which ones are listed and  *)
(* under which name, which ones a prompt always holds and which one a      *)
(* message asks for (loader.go); and the plugins they may come from, whose *)
(* package counts as enabled only while it is the one that was activated   *)
(* (plugin.go).                                                            *)
(*                                                                         *)
(* The state machine is about one plugin: listings of several turns read   *)
(* its marker, its package and its skill at different moments, while the   *)
(* user edits the package and enables or disables it.  No lock is held.    *)
(***************************************************************************)
EXTENDS Integers, Sequences, FiniteSets, SequencesExt

CONSTANT
    SkSetups        \* [listers, changes]: the turns that list, and how often the
                    \* user changes the package or its marker
CONSTANT
    MkSetups        \* [actors, there, faults]: the requests that change one skill's
                    \* directory (hub, github, put, delete), whether it is there,
                    \* and how often a download or the process fails

VARIABLES
    skSetup,        \* the setup of this behaviour
    package,        \* the version of the package, which its fingerprint tells apart
    marker,         \* the file "enabled": none, root (the old form), torn, or a version
    skPc,           \* per lister: read, print, settle, rewrite, load, ended
    current,        \* per lister: the marker it read
    fingerprint,    \* per lister: the version it computed
    shown,          \* per lister: the version whose skill it put in the prompt, or 0
    changes,        \* how often the user changed something
    approved,       \* history: the versions the user enabled last
    spoilt,         \* history: what happened to the plugin since then
    moved,          \* history: listers during which the user changed something
    raced,          \* history: such a lister wrote or removed the marker since
    wrong           \* history: listers that showed a version not approved, while nothing raced

skVars == <<skSetup, package, marker, skPc, current, fingerprint, shown, changes, approved,
            spoilt, moved, raced, wrong>>

Versions == {1, 2}
None == 0           \* no marker
Root == 9           \* the marker that names only the package's root
Torn == 8           \* the marker truncated by os.WriteFile and not yet written
Unreadable == 3     \* a package without a fingerprint: it holds a device or a pipe

SkInit ==
    /\ skSetup \in SkSetups
    /\ package = 1 /\ marker = None /\ approved = {} /\ spoilt = {} /\ changes = 0 /\ moved = {}
    /\ raced = FALSE /\ wrong = {}
    /\ skPc = [l \in skSetup.listers |-> "read"]
    /\ current = [l \in skSetup.listers |-> None]
    /\ fingerprint = [l \in skSetup.listers |-> 0]
    /\ shown = [l \in skSetup.listers |-> 0]

InListing == {l \in skSetup.listers : skPc[l] \in {"print", "settle", "rewrite", "load"}}

(***************************************************************************)
(* The user, through means outside this code.                              *)
(***************************************************************************)
EditPackage(v) ==
    /\ changes < skSetup.changes /\ v # package
    /\ package' = v /\ changes' = changes + 1 /\ moved' = moved \cup InListing
    /\ spoilt' = spoilt \cup {"edited"}
    /\ UNCHANGED <<skSetup, marker, skPc, current, fingerprint, shown, approved, raced, wrong>>

\* Enabled in the current form, or found enabled in the old one.
EnablePlugin(as) ==
    /\ changes < skSetup.changes /\ as \in {package, Root}
    /\ marker' = as /\ approved' = (IF as = Root THEN Versions ELSE {package}) /\ spoilt' = {}
    /\ changes' = changes + 1 /\ moved' = moved \cup InListing /\ raced' = FALSE
    /\ UNCHANGED <<skSetup, package, skPc, current, fingerprint, shown, wrong>>

DisablePlugin ==
    /\ changes < skSetup.changes /\ marker # None
    /\ marker' = None /\ approved' = {} /\ spoilt' = {}
    /\ changes' = changes + 1 /\ moved' = moved \cup InListing /\ raced' = FALSE
    /\ UNCHANGED <<skSetup, package, skPc, current, fingerprint, shown, wrong>>

(***************************************************************************)
(* enabledPackageFingerprint.                                              *)
(***************************************************************************)
At(l, from, to) == skPc[l] = from /\ skPc' = [skPc EXCEPT ![l] = to]

ReadMarker(l) ==
    /\ IF marker = None THEN At(l, "read", "ended") ELSE At(l, "read", "print")
    /\ current' = [current EXCEPT ![l] = marker]
    /\ UNCHANGED <<skSetup, package, marker, fingerprint, shown, changes, approved, spoilt, moved,
                   raced, wrong>>

packageFingerprint(l) ==
    /\ At(l, "print", "settle") /\ fingerprint' = [fingerprint EXCEPT ![l] = package]
    /\ UNCHANGED <<skSetup, package, marker, current, shown, changes, approved, spoilt, moved,
                   raced, wrong>>

\* Any marker taken for the current one.
AcceptsAny(l) == current[l] # None
Accepts(l) == fingerprint[l] # Unreadable /\ current[l] \in {fingerprint[l], Root}

\* The old form is rewritten; what names another package, and the marker of a
\* package that has no fingerprint, is removed.
SettleMarker(l) ==
    /\ \/ /\ ~Accepts(l) /\ At(l, "settle", "ended") /\ marker' = None
          /\ spoilt' = spoilt \cup (IF current[l] = Torn THEN {"torn"} ELSE {})
                             \cup (IF fingerprint[l] = Unreadable THEN {"unreadable"} ELSE {})
       \/ /\ Accepts(l) /\ current[l] = Root /\ At(l, "settle", "rewrite") /\ marker' = Torn
          /\ UNCHANGED spoilt
       \/ /\ Accepts(l) /\ current[l] # Root /\ At(l, "settle", "load")
          /\ UNCHANGED <<marker, spoilt>>
    /\ raced' = (raced \/ (marker' # marker /\ l \in moved))
    /\ UNCHANGED <<skSetup, package, current, fingerprint, shown, changes, approved, moved, wrong>>

\* The second half of os.WriteFile; a file removed meanwhile stays removed.
RewriteMarker(l) ==
    /\ At(l, "rewrite", "load")
    /\ marker' = IF marker = None THEN None ELSE fingerprint[l]
    /\ raced' = (raced \/ (marker' # marker /\ l \in moved))
    /\ UNCHANGED <<skSetup, package, current, fingerprint, shown, changes, approved, spoilt, moved,
                   wrong>>

\* LoadSkill reads the file again, after the listing.
ReadSkill(l) ==
    /\ At(l, "load", "ended") /\ shown' = [shown EXCEPT ![l] = package]
    /\ wrong' = IF package \in approved \/ raced THEN wrong ELSE wrong \cup {l}
    /\ UNCHANGED <<skSetup, package, marker, current, fingerprint, changes, approved, spoilt, moved,
                   raced>>

SkNext ==
    \/ \E v \in Versions \cup {Unreadable} : EditPackage(v)
    \/ \E as \in Versions \cup {Root} : EnablePlugin(as)
    \/ DisablePlugin
    \/ \E l \in skSetup.listers :
          ReadMarker(l) \/ packageFingerprint(l) \/ SettleMarker(l) \/ RewriteMarker(l)
          \/ ReadSkill(l)

(***************************************************************************)
(* Installing (internal/marketplace).  A skill is a document and the files *)
(* beside it; an installer stages them in a directory of its own.          *)
(***************************************************************************)
VARIABLES
    mkSetup,        \* the setup of this behaviour
    mkPc,           \* per actor: check, stage, clear, rename, ended
    stage,          \* per actor: the files in its staging directory
    dest,           \* [owner, files] of the skill's directory
    told,           \* per actor: what it answered
    stale,          \* history: actors whose check is older than a change of dest
    torn,           \* history: dest is, or was left, half removed
    lost,           \* history: a document the user saved was removed by an installer
    mkFaults        \* how many failures are left

mkVars == <<mkSetup, mkPc, stage, dest, told, stale, torn, lost, mkFaults>>

Files == {"SKILL.md", "tool"}
Actors == DOMAIN mkSetup.actors
Kind(i) == mkSetup.actors[i]

MkInit ==
    /\ mkSetup \in MkSetups
    /\ mkPc = [i \in DOMAIN mkSetup.actors |-> "check"]
    /\ stage = [i \in DOMAIN mkSetup.actors |-> {}]
    /\ dest = [owner |-> "before", files |-> IF mkSetup.there THEN Files ELSE {}]
    /\ told = [i \in DOMAIN mkSetup.actors |-> ""]
    /\ stale = {} /\ torn = FALSE /\ lost = FALSE /\ mkFaults = mkSetup.faults

MkGo(i, from, to) == mkPc[i] = from /\ mkPc' = [mkPc EXCEPT ![i] = to]
Answer(i, from, what) ==
    /\ MkGo(i, from, "ended") /\ told' = [told EXCEPT ![i] = what]
    /\ stage' = [stage EXCEPT ![i] = {}]
Others(i) == {j \in Actors \ {i} : mkPc[j] # "check"}

\* A document found there is taken for the installed skill.
InstallCheck(i) ==
    /\ Kind(i) \in {"hub", "github"}
    /\ IF "SKILL.md" \in dest.files THEN Answer(i, "check", "installed")
       ELSE MkGo(i, "check", "stage") /\ UNCHANGED <<told, stage>>
    /\ UNCHANGED <<mkSetup, dest, stale, torn, lost, mkFaults>>

StageFile(i, f) ==
    /\ mkPc[i] = "stage" /\ f \notin stage[i]
    /\ stage' = [stage EXCEPT ![i] = @ \cup {f}]
    /\ UNCHANGED <<mkSetup, mkPc, dest, told, stale, torn, lost, mkFaults>>

InstallFails(i) ==
    /\ mkFaults > 0 /\ mkFaults' = mkFaults - 1 /\ Answer(i, "stage", "failed")
    /\ UNCHANGED <<mkSetup, dest, stale, torn, lost>>

\* What was downloaded is complete and has its document.
StagedPartly(i) == "SKILL.md" \in stage[i]
Staged(i) == stage[i] = Files

InstallVerified(i) ==
    /\ Staged(i) /\ MkGo(i, "stage", IF Kind(i) = "hub" THEN "clear" ELSE "rename")
    /\ UNCHANGED <<mkSetup, stage, dest, told, stale, torn, lost, mkFaults>>

\* os.RemoveAll of the directory, a file at a time: before the rename of the hub's
\* installer, and in Uninstall and the WebUI's delete.
RemoveFile(i, f) ==
    /\ mkPc[i] = "clear" /\ f \in dest.files
    /\ dest' = [dest EXCEPT !.files = @ \ {f}]
    /\ torn' = (dest.files # {f})
    /\ lost' = (lost \/ (f = "SKILL.md" /\ dest.owner = "user" /\ Kind(i) = "hub"
                         /\ i \notin stale))
    /\ stale' = stale \cup Others(i)
    /\ UNCHANGED <<mkSetup, mkPc, stage, told, mkFaults>>

RemoveDone(i) ==
    /\ dest.files = {}
    /\ IF Kind(i) = "hub" THEN MkGo(i, "clear", "rename") /\ UNCHANGED <<told, stage>>
       ELSE Answer(i, "clear", "removed")
    /\ UNCHANGED <<mkSetup, dest, stale, torn, lost, mkFaults>>

\* os.Rename onto a directory that holds something fails.
InstallRename(i) ==
    /\ mkPc[i] = "rename"
    /\ IF dest.files = {}
       THEN /\ dest' = [owner |-> Kind(i), files |-> stage[i]] /\ torn' = FALSE
            /\ Answer(i, "rename", "installed") /\ stale' = stale \cup Others(i)
       ELSE Answer(i, "rename", "failed") /\ UNCHANGED <<dest, torn, stale>>
    /\ UNCHANGED <<mkSetup, lost, mkFaults>>

\* PUT /api/webui/skill: the document, written atomically.
PutSkill(i) ==
    /\ Kind(i) = "put" /\ Answer(i, "check", "saved")
    /\ dest' = [owner |-> "user", files |-> dest.files \cup {"SKILL.md"}]
    /\ stale' = stale \cup Others(i)
    /\ UNCHANGED <<mkSetup, torn, lost, mkFaults>>

UninstallCheck(i) ==
    /\ Kind(i) = "delete"
    /\ IF dest.files = {} THEN Answer(i, "check", "missing")
       ELSE MkGo(i, "check", "clear") /\ UNCHANGED <<told, stage>>
    /\ UNCHANGED <<mkSetup, dest, stale, torn, lost, mkFaults>>

\* The process ends; staging directories stay behind.
InstallCrash ==
    /\ mkFaults > 0 /\ mkFaults' = mkFaults - 1
    /\ mkPc' = [i \in Actors |-> "ended"]
    /\ UNCHANGED <<mkSetup, stage, dest, told, stale, torn, lost>>

MkNext ==
    \/ \E i \in Actors :
          \/ InstallCheck(i) \/ InstallFails(i) \/ InstallVerified(i) \/ InstallRename(i)
          \/ RemoveDone(i) \/ PutSkill(i) \/ UninstallCheck(i)
          \/ \E f \in Files : StageFile(i, f) \/ RemoveFile(i, f)
    \/ InstallCrash

\* installedSkills: every directory with a document, staging directories included;
\* 0 is the skill itself.
installedSkills ==
    {i \in Actors : "SKILL.md" \in stage[i]}
        \cup (IF "SKILL.md" \in dest.files THEN {0} ELSE {})

\* resolveSkillRoot: of the directories named as the skill that hold a document, the
\* shortest path, then the first by name.  A path is a sequence of names.
resolveSkillRoot(tree, skillID) ==
    LET candidates == {SubSeq(p, 1, Len(p) - 1) : p \in {q \in tree :
                          Len(q) > 1 /\ Last(q) = "SKILL.md" /\ q[Len(q) - 1] = skillID}}
    IN  IF candidates = {} THEN <<>>
        ELSE CHOOSE c \in candidates : \A d \in candidates : Len(c) <= Len(d)

\* The files an installer copies: those below the root.
SkillFiles(tree, root) == {SubSeq(p, Len(root) + 1, Len(p)) : p \in {q \in tree :
                              Len(q) > Len(root) /\ IsPrefix(root, q)}}

\* Install: the order in which the catalogues are tried; "" is neither named.
Install(req, hubWorks, githubWorks) ==
    CASE ~req.allowed -> "disabled"
      [] req.provider = "skillhub" -> IF hubWorks THEN "hub" ELSE "failed"
      [] req.provider = "skills_sh" -> IF githubWorks THEN "github" ELSE "failed"
      [] req.provider = "cliapps" -> "failed"
      [] OTHER -> IF hubWorks THEN "hub" ELSE IF req.source /\ githubWorks THEN "github" ELSE "failed"

(***************************************************************************)
(* Listing.  A loader is [workspace, plugins, builtin: sequences; disabled,*)
(* available, always, blank: sets of names; aliases: old name -> new].     *)
(* A plugin is [name, skills, enabled].                                    *)
(***************************************************************************)
\* installedPlugins: a name carried by two packages counts for none of them.
installedPlugins(plugins) ==
    SelectSeq(plugins, LAMBDA p : Cardinality({i \in DOMAIN plugins : plugins[i].name = p.name}) = 1)

EnabledAgentPluginSkills(plugins) ==
    FlattenSeq([i \in DOMAIN installedPlugins(plugins) |->
        IF installedPlugins(plugins)[i].enabled THEN installedPlugins(plugins)[i].skills ELSE <<>>])

FromSource(names, source) == [i \in DOMAIN names |-> [name |-> names[i], source |-> source]]
Unseen(names, seen) ==
    SelectSeq([i \in DOMAIN names |-> IF names[i] \in seen \cup Range(SubSeq(names, 1, i - 1))
                                      THEN "" ELSE names[i]],
              LAMBDA n : n # "")

\* Disabling a skill under one of its two names disables both.
DisabledNamesLiteral(l) == l.disabled
DisabledNames(l) ==
    l.disabled \cup UNION {{old, l.aliases[old]} : old \in {o \in DOMAIN l.aliases :
                                                   {o, l.aliases[o]} \cap l.disabled # {}}}

ListSkills(l, filterUnavailable) ==
    LET plugin == Unseen(EnabledAgentPluginSkills(l.plugins), Range(l.workspace))
        builtin == Unseen(l.builtin, Range(l.workspace) \cup Range(plugin))
        all == FromSource(l.workspace, "workspace") \o FromSource(plugin, "plugin")
               \o FromSource(builtin, "builtin")
    IN  SelectSeq(all, LAMBDA s : /\ s.name \notin DisabledNames(l)
                                  /\ filterUnavailable => s.name \in l.available)

Names(listed) == {listed[i].name : i \in DOMAIN listed}

Resolved(l, available, name) ==
    IF name \notin available /\ name \in DOMAIN l.aliases THEN l.aliases[name] ELSE name

\* LoadSkill: the name that is read, or "" when there is none.
LoadSkill(l, name) ==
    LET n == Resolved(l, Names(ListSkills(l, FALSE)), name)
    IN  IF n \in Names(ListSkills(l, FALSE)) THEN n ELSE ""

GetAlwaysSkills(l) == SelectSeq(ListSkills(l, TRUE), LAMBDA s : s.name \in l.always)

\* A text is a sequence of characters; "e" stands for a letter no name may hold.
NameChars == {"a", "b"}
WordChars == NameChars \cup {"$", "e"}

\* findSkillReferences: after a reference the scan goes on behind it.
findSkillReferences(text) ==
    LET runEnd(i) == CHOOSE j \in i + 1 .. Len(text) + 1 :
                        /\ \A k \in i + 1 .. j - 1 : text[k] \in NameChars
                        /\ j = Len(text) + 1 \/ text[j] \notin NameChars
        scan[i \in 1 .. Len(text) + 1] ==
            IF i > Len(text) THEN <<>>
            ELSE IF text[i] # "$" \/ (i > 1 /\ text[i - 1] \in WordChars) THEN scan[i + 1]
            ELSE (IF runEnd(i) > i + 1 THEN <<SubSeq(text, i + 1, runEnd(i) - 1)>> ELSE <<>>)
                 \o scan[runEnd(i)]
    IN  scan[1]

\* GetExplicitlyInvokedSkills, for the references of a message.
GetExplicitlyInvokedSkills(l, refs) ==
    LET available == Names(ListSkills(l, TRUE))
        names == [i \in DOMAIN refs |-> Resolved(l, available, refs[i])]
    IN  Unseen(SelectSeq(names, LAMBDA n : n \in available), {})

\* BuildExplicitSkillRuntimeContext, with a skill already in the prompt repeated.
BuildExplicitRepeating(l, refs) ==
    SelectSeq(GetExplicitlyInvokedSkills(l, refs), LAMBDA n : n \notin l.blank)
BuildExplicitSkillRuntimeContext(l, refs) ==
    SelectSeq(GetExplicitlyInvokedSkills(l, refs),
              LAMBDA n : n \notin Names(GetAlwaysSkills(l)) \cup l.blank)

\* BuildSkillsSummary: the groups in order, each with what it lists.
BuildSkillsSummary(l, exclude) ==
    LET group(source) == SelectSeq(ListSkills(l, FALSE),
                                   LAMBDA s : s.source = source /\ s.name \notin exclude)
    IN  SelectSeq(<<group("workspace"), group("plugin"), group("builtin")>>, LAMBDA g : g # <<>>)

(***************************************************************************)
(* Requirements.  A skill's metadata may hold anything: requires is        *)
(* [dict, bins, env], a list being a sequence whose blank items are "".    *)
(***************************************************************************)
requirementLists(requires) ==
    IF ~requires.dict THEN [bins |-> {}, env |-> {}]
    ELSE [bins |-> Range(requires.bins) \ {""}, env |-> Range(requires.env) \ {""}]

CheckRequirements(requires, present) ==
    LET r == requirementLists(requires) IN r.bins \cup r.env \subseteq present

GetMissingRequirements(requires, present) ==
    LET r == requirementLists(requires)
    IN  {<<"CLI", b>> : b \in r.bins \ present} \cup {<<"ENV", e>> : e \in r.env \ present}

(***************************************************************************)
(* Properties.                                                             *)
(***************************************************************************)
TypeOK ==
    /\ skSetup \in SkSetups /\ package \in Versions \cup {Unreadable}
    /\ marker \in Versions \cup {None, Root, Torn}
    /\ \A l \in skSetup.listers : shown[l] \in 0 .. Unreadable /\ fingerprint[l] \in 0 .. Unreadable

\* A plugin's skill is in a prompt only in a version its user enabled: a package
\* edited after it was enabled contributes nothing until it is enabled again, edited
\* back or not.  The window is that of one listing: only a listing the user changed
\* something during may show another version.
OnlyApproved == wrong \subseteq moved

\* No listing enables what the user did not: the marker names a version the user
\* enabled, however many listings rewrite it; and a readable plugin enabled and not
\* edited since stays enabled, unless a listing read the marker between the truncation and
\* the write of another one and removed it as foreign (plugin.go:217, 225).  Only a
\* listing the user changed something during may leave another marker.
MarkerIsUsers ==
    \/ raced
    \/ /\ marker = Root => approved = Versions
       /\ marker \in Versions => marker \in approved
       /\ marker = None /\ approved # {} => spoilt # {}

SkillsInv == TypeOK /\ OnlyApproved /\ MarkerIsUsers

\* A directory that holds a skill's document holds all of the skill, from one
\* source: no failed, cut or overlapping installation leaves a part of one, and only
\* a removal under way, or cut by a crash, shows one (a document saved by the user
\* needs no other file).
SkillWhole ==
    "SKILL.md" \in dest.files /\ dest.owner # "user" /\ ~torn => dest.files = Files

\* An installation that succeeds never removes a document the user saved, unless it
\* was saved after the installer looked.
UserSkillKept == ~lost

\* What is listed as installed is the skill itself and the staging directories of
\* requests that have not answered: an installation that answers, also with a
\* failure, leaves none behind.
StagingCleared == installedSkills \subseteq {0} \cup {i \in Actors : told[i] = ""}

InstallInv == SkillWhole /\ UserSkillKept /\ StagingCleared

\* The root chosen in a repository holds the document of that skill, and what is
\* copied from it includes the document at the top.
RootHoldsSkill(tree, skillID) ==
    LET root == resolveSkillRoot(tree, skillID)
    IN  /\ root = <<>> <=> ~\E p \in tree : Len(p) > 1 /\ Last(p) = "SKILL.md" /\ p[Len(p) - 1] = skillID
        /\ root # <<>> => <<"SKILL.md">> \in SkillFiles(tree, root) /\ Last(root) = skillID

\* Every skill is listed once, from the first of workspace, plugins and built-ins
\* that has it, and under neither of its two names once one of them is disabled.
ListedByPrecedence(l) ==
    LET all == ListSkills(l, FALSE)
        has(n, source) == n \in CASE source = "workspace" -> Range(l.workspace)
                                  [] source = "plugin" -> Range(EnabledAgentPluginSkills(l.plugins))
                                  [] OTHER -> Range(l.builtin)
    IN  /\ \A i, j \in DOMAIN all : all[i].name = all[j].name => i = j
        /\ \A i \in DOMAIN all :
              /\ has(all[i].name, all[i].source)
              /\ all[i].source = "builtin" => ~has(all[i].name, "plugin")
              /\ all[i].source # "workspace" => ~has(all[i].name, "workspace")
        /\ \A old \in DOMAIN l.aliases :
              l.disabled \cap {old, l.aliases[old]} # {} => Names(all) \cap {old, l.aliases[old]} = {}

\* A message that asks for skills gets each of them once, none that the prompt
\* always holds, none that is disabled or lacks a requirement; and each one it gets
\* can be loaded under that name.
InvokedSound(l, refs) ==
    LET got == BuildExplicitSkillRuntimeContext(l, refs)
    IN  /\ Cardinality(Range(got)) = Len(got)
        /\ \A n \in Range(got) : /\ n \notin Names(GetAlwaysSkills(l)) \cup DisabledNames(l)
                                 /\ n \in l.available /\ LoadSkill(l, n) = n
                                 /\ \E i \in DOMAIN refs : refs[i] = n \/ LoadSkill(l, refs[i]) = n
                                                           \/ Resolved(l, {}, refs[i]) = n

\* The summary shows every listed skill that is not excluded, once.
SummaryComplete(l, exclude) ==
    LET rows == FlattenSeq(BuildSkillsSummary(l, exclude))
    IN  /\ Names(rows) = Names(ListSkills(l, FALSE)) \ exclude
        /\ Len(rows) = Cardinality(Names(rows))

\* A reference is a dollar sign not behind a word, with the longest name after it;
\* none is missed and none is found inside a word.
ReferencesExact(text) ==
    LET starts == {i \in 1 .. Len(text) - 1 : /\ text[i] = "$" /\ text[i + 1] \in NameChars
                                              /\ i = 1 \/ text[i - 1] \notin WordChars}
    IN  /\ Len(findSkillReferences(text)) = Cardinality(starts)
        /\ \A r \in Range(findSkillReferences(text)) :
              \E i \in starts : /\ SubSeq(text, i + 1, i + Len(r)) = r
                                /\ i + Len(r) = Len(text) \/ text[i + Len(r) + 1] \notin NameChars

\* A skill is unavailable exactly when something it needs is named as missing.
MissingExplains(requires, present) ==
    CheckRequirements(requires, present) <=> GetMissingRequirements(requires, present) = {}
===============================================================================
