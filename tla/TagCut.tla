------------------------------- MODULE TagCut -------------------------------
(***************************************************************************)
(* `anodizer tag`: from the commits since the previous tag to a bump       *)
(* commit, a tag and an atomic push, run in several checkouts of one       *)
(* repository whose branch and tags move underneath them.                  *)
(*                                                                         *)
(* A commit is the sequence of entries from the root to it, so that a      *)
(* prefix is an ancestor.  Versions are counted: a release is the next     *)
(* number, whichever part of a semantic version it raises.  Every          *)
(* repository here has been tagged once.                                   *)
(***************************************************************************)
EXTENDS Integers, Sequences, SequencesExt, FiniteSetsExt

CONSTANTS
  Ci, Laptop,      \* checkouts: made afresh by a CI job, kept by an operator
  N,               \* groups that carry a tag family of their own
  Shapes,          \* repository shapes: "lockstep" has one group, and one
                   \* [workspace.package].version; "grouped" one per group
  Lockfile,        \* Cargo.lock is committed at the root
  Options,         \* command lines of an operator; a CI job has one
  NoTag,
  MaxVersion, MaxWork, MaxWithdrawals, MaxFaults

Clone == Ci \cup Laptop
Group == 1..N
Version == 1..MaxVersion
Option == [push : {"local", "push", "tags_only", "api"}, sign : BOOLEAN]

Author == Clone \cup {"dev", "rollback"}
Entries == [by : Author, touches : SUBSET Group, man : [Group -> Version]]
Commit == Seq(Entries) \ {<<>>}
TagObject == [at : Commit, signed : BOOLEAN, by : Author]
Tags == [Group -> [Version -> TagObject \cup {NoTag}]]

ASSUME TagCutAssumption ==
  /\ N \in Nat \ {0} /\ MaxVersion \in Nat \ {0, 1}
  /\ {MaxWork, MaxWithdrawals, MaxFaults} \subseteq Nat
  /\ Shapes \subseteq {"lockstep", "grouped"}
  /\ Lockfile \in BOOLEAN
  /\ Options \subseteq Option
  /\ {"dev", "rollback"} \cap Clone = {}
  /\ NoTag \notin TagObject

VARIABLES
  shape,
  origin,    \* the commit of the remote branch
  rtags,     \* the remote's tag objects
  deferred,  \* tags that went up by --push-tags-only, ahead of their branch
  head, ltags,  \* each checkout's commit and tag objects
  disk,      \* the versions in its working tree's manifests
  pc, opts, plan, made,  \* the command running in it
  stale,     \* the leftover tag that stopped the last one
  torn,      \* checkouts a stopped lockstep bump has left uncommitted
  blind,     \* some run could not list the remote
  work, withdrawals, faults

remote == <<origin, rtags, deferred>>
checkout == <<head, ltags, disk>>
command == <<pc, opts, plan, made, stale>>
bounds == <<work, withdrawals, faults>>
vars == <<shape, remote, checkout, command, torn, blind, bounds>>

Groups == IF shape = "lockstep" THEN {1} ELSE Group

CiLine == [push |-> "push", sign |-> FALSE]
NoOption == [push |-> "local", sign |-> FALSE]
NoPlan == [g \in Group |-> 0]
Planned(c) == {g \in Group : plan[c][g] # 0}

\* The shape of the state: a type invariant for every variable.
CutTypeOK ==
  /\ shape \in Shapes
  /\ origin \in Commit /\ rtags \in Tags
  /\ deferred \subseteq Group \X Version
  /\ head \in [Clone -> Commit] /\ ltags \in [Clone -> Tags]
  /\ disk \in [Clone -> [Group -> Version]]
  /\ pc \in [Clone -> {"idle", "write", "commit", "tag", "api", "push", "done"}]
  /\ opts \in [Clone -> Option]
  /\ plan \in [Clone -> [Group -> 0..MaxVersion]]
  /\ made \in [Clone -> SUBSET Group] /\ \A c \in Clone : made[c] \subseteq Planned(c)
  /\ stale \in [Clone -> SUBSET (Group \X Version)]
  /\ torn \subseteq Clone /\ blind \in BOOLEAN
  /\ work \in 0..MaxWork /\ withdrawals \in 0..MaxWithdrawals /\ faults \in 0..MaxFaults

Manifest(k) == Last(k).man

Entry(who, S, man) == [by |-> who, touches |-> S, man |-> man]

First == [g \in Group |-> 1]
Root == <<Entry("dev", Group, First)>>
Bumped == Append(Root, Entry("rollback", {1}, [First EXCEPT ![1] = 2]))
Reverted == Append(Bumped, Entry("rollback", {1}, First))

Tag(k, signed, who) == [at |-> k, signed |-> signed, by |-> who]

\* Either the first release, or also a second one that was withdrawn, whose
\* tag the operator's checkouts still have.
Init ==
  /\ shape \in Shapes
  /\ withdrawals \in 0..Min({1, MaxWithdrawals})
  /\ origin = IF withdrawals = 0 THEN Root ELSE Reverted
  /\ rtags = [g \in Group |-> [v \in Version |-> IF v = 1 THEN Tag(Root, FALSE, "dev") ELSE NoTag]]
  /\ deferred = {}
  /\ head = [c \in Clone |-> origin]
  /\ ltags = [c \in Clone |-> IF withdrawals = 1 /\ c \in Laptop
                               THEN [rtags EXCEPT ![1][2] = Tag(Bumped, FALSE, "dev")] ELSE rtags]
  /\ disk = [c \in Clone |-> First]
  /\ pc = [c \in Clone |-> "idle"]
  /\ opts = [c \in Clone |-> NoOption]
  /\ plan = [c \in Clone |-> NoPlan]
  /\ made = [c \in Clone |-> {}]
  /\ stale = [c \in Clone |-> {}]
  /\ torn = {} /\ blind = FALSE
  /\ work = 0 /\ faults = 0

Fault == faults < MaxFaults /\ faults' = faults + 1

-----------------------------------------------------------------------------
(***************************************************************************)
(* What git answers about commits and tags.                                *)
(***************************************************************************)
Tagged(tags, g) == {v \in Version : tags[g][v] # NoTag}
Latest(tags, g) == Max(Tagged(tags, g))

\* `git log tag..HEAD`: the entries of k that the tag does not reach.
Since(tag, k) == {i \in 1..Len(k) : ~IsPrefix(SubSeq(k, 1, i), tag.at)}

\* How many of its first entries k shares with m.
Shared(k, m) == Max({n \in 0..Len(k) : IsPrefix(SubSeq(k, 1, n), m)})

\* A commit of that range asks for a release of g; a bump commit does not.
detect_bump(tag, k, g) == \E i \in Since(tag, k) : k[i].by = "dev" /\ g \in k[i].touches

\* What `git diff` compares below a group's path.
Content(k, g) ==
  <<Cardinality({i \in 1..Len(k) : k[i].by = "dev" /\ g \in k[i].touches}), Manifest(k)[g]>>

-----------------------------------------------------------------------------
(***************************************************************************)
(* Planning.                                                               *)
(***************************************************************************)
\* Mutant: the checkout's own tags are taken for the remote's.
previous_is_local(c, g, names) == Max(Tagged(ltags[c], g))

\* The newest local tag the remote still has, when the remote was listed.
find_previous_tag(c, g, names) == Max(Tagged(ltags[c], g) \cap names[g])

\* Mutant: only a manifest that is ahead asks for a release.
plan_needs_manifest(prev, bump, manifest) == IF manifest > prev THEN manifest ELSE 0

\* The next version, 0 when nothing asks for a release.  A manifest ahead of
\* the previous tag asks for one, and one ahead of the derived version wins.
planned_version(prev, bump, manifest) ==
  LET derived == IF bump THEN prev + 1 ELSE prev
  IN IF ~bump /\ manifest <= prev THEN 0
     ELSE IF manifest > derived THEN manifest ELSE derived

\* The groups that changed since their newest local tag; all of them when
\* the workspace's own files changed since the oldest of those.
detect_changed_crates(c) ==
  LET newest == [g \in Groups |-> ltags[c][g][Latest(ltags[c], g)]]
      oldest == CHOOSE g \in Groups :
                  \A h \in Groups : \/ Latest(ltags[c], g) < Latest(ltags[c], h)
                                    \/ Latest(ltags[c], g) = Latest(ltags[c], h) /\ g <= h
  IN IF Lockfile /\ Manifest(newest[oldest].at) # Manifest(head[c]) THEN Groups
     ELSE {g \in Groups : Content(newest[g].at, g) # Content(head[c], g)}

\* One version for the workspace, or one per changed group.
compute_tags(c, names) ==
  [g \in Group |->
     IF g \notin Groups THEN 0 ELSE
     LET prev == find_previous_tag(c, g, names)
         tag == ltags[c][g][prev]
         changed == IF shape = "lockstep" THEN Since(tag, head[c]) # {}
                    ELSE g \in detect_changed_crates(c)
     IN IF changed THEN planned_version(prev, detect_bump(tag, head[c], g), disk[c][g]) ELSE 0]

\* A run with nothing to tag changes nothing, and API tagging is refused for
\* groups and for signed tags.  A remote that cannot be listed leaves the
\* local tags to count.
StartTag(c, o) ==
  /\ pc[c] = "idle"
  /\ o.push = "api" => shape = "lockstep" /\ ~o.sign
  /\ \E asked \in BOOLEAN :
       LET names == [g \in Group |-> IF asked THEN Tagged(rtags, g) ELSE Version]
           tags == compute_tags(c, names)
       IN /\ IF asked THEN UNCHANGED faults ELSE Fault
          /\ tags # NoPlan /\ \A g \in Group : tags[g] <= MaxVersion
          /\ plan' = [plan EXCEPT ![c] = tags]
          /\ blind' = (blind \/ ~asked)
  /\ opts' = [opts EXCEPT ![c] = o]
  /\ stale' = [stale EXCEPT ![c] = {}]
  /\ pc' = [pc EXCEPT ![c] = "write"]
  /\ UNCHANGED <<shape, remote, checkout, made, torn, work, withdrawals>>

-----------------------------------------------------------------------------
(***************************************************************************)
(* The bump commit.                                                        *)
(***************************************************************************)
Goto(c, l) == pc' = [pc EXCEPT ![c] = l]

\* The checkout of a CI job is used once.
Return(c) ==
  /\ pc' = [pc EXCEPT ![c] = IF c \in Ci THEN "done" ELSE "idle"]
  /\ opts' = [opts EXCEPT ![c] = NoOption]
  /\ plan' = [plan EXCEPT ![c] = NoPlan]
  /\ made' = [made EXCEPT ![c] = {}]

\* Mutant: manifests that already read right need no commit in any shape.
skip_in_every_shape(c) ==
  /\ pc[c] = "write"
  /\ \A g \in Planned(c) : disk[c][g] = plan[c][g]
  /\ Goto(c, "tag")
  /\ UNCHANGED <<shape, remote, checkout, opts, plan, made, stale, torn, blind, bounds>>

\* In a lockstep workspace whose manifests read the new version already
\* there is nothing to sync.
SkipBump(c) ==
  /\ pc[c] = "write" /\ shape = "lockstep"
  /\ \A g \in Planned(c) : disk[c][g] = plan[c][g]
  /\ Goto(c, "tag")
  /\ UNCHANGED <<shape, remote, checkout, opts, plan, made, stale, torn, blind, bounds>>

\* Mutant: the manifests of groups without a new version are written too.
write_every_manifest(c) ==
  /\ pc[c] = "write"
  /\ shape = "lockstep" => \E g \in Planned(c) : disk[c][g] # plan[c][g]
  /\ disk' = [disk EXCEPT ![c] = plan[c]]
  /\ Goto(c, "commit")
  /\ UNCHANGED <<shape, remote, head, ltags, opts, plan, made, stale, torn, blind, bounds>>

WriteManifests(c) ==
  /\ pc[c] = "write"
  /\ shape = "lockstep" => \E g \in Planned(c) : disk[c][g] # plan[c][g]
  /\ disk' = [disk EXCEPT ![c] = [g \in Group |->
                IF g \in Planned(c) THEN plan[c][g] ELSE disk[c][g]]]
  /\ Goto(c, "commit")
  /\ UNCHANGED <<shape, remote, head, ltags, opts, plan, made, stale, torn, blind, bounds>>

\* The written files are staged and committed, unless HEAD has them already.
CommitBump(c) ==
  /\ pc[c] = "commit"
  /\ LET man == [g \in Group |-> IF g \in Planned(c) THEN disk[c][g] ELSE Manifest(head[c])[g]]
         bumped == {g \in Group : man[g] # Manifest(head[c])[g]}
     IN head' = IF bumped = {} THEN head ELSE
                [head EXCEPT ![c] = Append(head[c], Entry(c, bumped, man))]
  /\ Goto(c, "tag")
  /\ UNCHANGED <<shape, remote, ltags, disk, opts, plan, made, stale, torn, blind, bounds>>

-----------------------------------------------------------------------------
(***************************************************************************)
(* The tags, one after the other, then one push.                           *)
(***************************************************************************)
NextGroup(c) == Min(Planned(c) \ made[c])

\* After the last tag comes the push, if one was asked for.
Made(c, g) ==
  IF made[c] \cup {g} = Planned(c) /\ opts[c].push = "local" THEN Return(c)
  ELSE /\ made' = [made EXCEPT ![c] = made[c] \cup {g}]
       /\ Goto(c, IF made'[c] = Planned(c) THEN "push" ELSE "tag")
       /\ UNCHANGED <<opts, plan>>

\* Mutant: any leftover at HEAD is reused, signed or not.
reuse_any(c) ==
  /\ pc[c] = "tag" /\ opts[c].push # "api"
  /\ LET g == NextGroup(c)
         old == ltags[c][g][plan[c][g]]
         new == Tag(head[c], opts[c].sign, c)
     IN /\ old # NoTag => old.at = head[c]
        /\ ltags' = [ltags EXCEPT ![c][g][plan[c][g]] = IF old # NoTag THEN old ELSE new]
        /\ Made(c, g)
  /\ UNCHANGED <<shape, remote, head, disk, stale, torn, blind, bounds>>

\* A leftover tag at HEAD is reused, re-created when a signature is missing.
CreateTag(c) ==
  /\ pc[c] = "tag" /\ opts[c].push # "api"
  /\ LET g == NextGroup(c)
         old == ltags[c][g][plan[c][g]]
         new == Tag(head[c], opts[c].sign, c)
     IN /\ old # NoTag => old.at = head[c]
        /\ ltags' = [ltags EXCEPT ![c][g][plan[c][g]] =
                       IF old # NoTag /\ (old.signed \/ ~opts[c].sign) THEN old ELSE new]
        /\ Made(c, g)
  /\ UNCHANGED <<shape, remote, head, disk, stale, torn, blind, bounds>>

\* A leftover tag at another commit stops the command with advice.
StaleTag(c) ==
  /\ pc[c] = "tag" /\ opts[c].push # "api"
  /\ LET g == NextGroup(c)
         old == ltags[c][g][plan[c][g]]
     IN /\ old # NoTag /\ old.at # head[c]
        /\ stale' = [stale EXCEPT ![c] = {<<g, plan[c][g]>>}]
  /\ Return(c)
  /\ UNCHANGED <<shape, remote, checkout, torn, blind, bounds>>

FastForward(c) == IsPrefix(origin, head[c])

\* The branch follows later, or was pushed before.
TagsAlone(c) == opts[c].push \in {"tags_only", "api"}

\* Git takes the push: the branch moves forward and no tag is replaced.
Accepted(c) ==
  /\ TagsAlone(c) \/ FastForward(c)
  /\ \A g \in Planned(c) : rtags[g][plan[c][g]] \in {NoTag, ltags[c][g][plan[c][g]]}

\* Mutant: the refs of a push are taken one by one.
push_each_ref(c) ==
  /\ origin' = IF ~TagsAlone(c) /\ FastForward(c) THEN head[c] ELSE origin
  /\ rtags' = [g \in Group |-> [v \in Version |->
                 IF g \in Planned(c) /\ v = plan[c][g] /\ rtags[g][v] = NoTag
                 THEN ltags[c][g][v] ELSE rtags[g][v]]]
  /\ deferred' = IF opts[c].push # "tags_only" THEN deferred
                 ELSE deferred \cup {<<g, plan[c][g]>> : g \in Planned(c)}

\* `git push --atomic`: all of its refs, or none.
push_branch_and_tags_atomic_in(c) ==
  /\ Accepted(c)
  /\ origin' = IF TagsAlone(c) THEN origin ELSE head[c]
  /\ rtags' = [g \in Group |-> [v \in Version |->
                 IF g \in Planned(c) /\ v = plan[c][g] THEN ltags[c][g][v] ELSE rtags[g][v]]]
  /\ deferred' = IF opts[c].push # "tags_only" THEN deferred
                 ELSE deferred \cup {<<g, plan[c][g]>> : g \in Planned(c)}

\* Whether or not the answer comes back, the command ends.
Push(c) ==
  /\ pc[c] = "push"
  /\ push_branch_and_tags_atomic_in(c)
  /\ Return(c)
  /\ UNCHANGED <<shape, checkout, stale, torn, blind, bounds>>

PushRejected(c) ==
  /\ pc[c] = "push" /\ ~Accepted(c)
  /\ Return(c)
  /\ UNCHANGED <<shape, remote, checkout, stale, torn, blind, bounds>>

\* API tagging pushes the branch alone, then creates the tag at its commit.
PushBranch(c) ==
  /\ pc[c] = "tag" /\ opts[c].push = "api"
  /\ FastForward(c)
  /\ origin' = head[c]
  /\ Goto(c, "api")
  /\ UNCHANGED <<shape, rtags, deferred, checkout, opts, plan, made, stale, torn, blind, bounds>>

BranchRejected(c) ==
  /\ pc[c] = "tag" /\ opts[c].push = "api"
  /\ ~FastForward(c)
  /\ Return(c)
  /\ UNCHANGED <<shape, remote, checkout, stale, torn, blind, bounds>>

\* GitHub refuses a reference that exists.  The checkout does not get the tag.
create_tag_via_github_api(c) ==
  /\ pc[c] = "api"
  /\ LET v == plan[c][1]
     IN rtags' = IF rtags[1][v] # NoTag THEN rtags
                 ELSE [rtags EXCEPT ![1][v] = Tag(head[c], FALSE, c)]
  /\ Return(c)
  /\ UNCHANGED <<shape, origin, deferred, checkout, stale, torn, blind, bounds>>

\* Without `gh` the tag is made in the checkout, where `git tag` refuses one
\* that exists, and pushed without the branch.
create_and_push_tag_in(c) ==
  /\ pc[c] = "api"
  /\ LET g == NextGroup(c)
     IN IF ltags[c][g][plan[c][g]] # NoTag THEN Return(c) /\ UNCHANGED ltags
        ELSE /\ ltags' = [ltags EXCEPT ![c][g][plan[c][g]] = Tag(head[c], opts[c].sign, c)]
             /\ Made(c, g)
  /\ UNCHANGED <<shape, remote, head, disk, stale, torn, blind, bounds>>

-----------------------------------------------------------------------------
\* A kill, a write that fails, a commit git or a hook of it refuses, a
\* failing pre hook, a tag that cannot be signed, a remote that is away: the
\* command ends and what it has done so far stays.
Stop(c) ==
  /\ pc[c] \notin {"idle", "done"}
  /\ Fault
  /\ IF pc[c] = "write"
     THEN \E S \in SUBSET Planned(c) : disk' = [disk EXCEPT ![c] =
            [g \in Group |-> IF g \in S THEN plan[c][g] ELSE disk[c][g]]]
     ELSE UNCHANGED disk
  /\ torn' = IF shape = "lockstep" /\ disk'[c] # Manifest(head[c]) THEN torn \cup {c} ELSE torn
  /\ Return(c)
  /\ UNCHANGED <<shape, remote, head, ltags, stale, blind, work, withdrawals>>

(***************************************************************************)
(* Around the command: others push work, a CI job checks out afresh, an    *)
(* operator follows the advice of a rejected push or of a stale tag, and a *)
(* release is withdrawn.                                                   *)
(***************************************************************************)
Work(S) ==
  /\ S # {} /\ S \subseteq Groups /\ work < MaxWork
  /\ work' = work + 1
  /\ origin' = Append(origin, Entry("dev", S, Manifest(origin)))
  /\ UNCHANGED <<shape, rtags, deferred, checkout, command, torn, blind, withdrawals, faults>>

Checkout(c) ==
  /\ c \in Ci /\ pc[c] \in {"idle", "done"}
  /\ Goto(c, "idle")
  /\ head' = [head EXCEPT ![c] = origin]
  /\ ltags' = [ltags EXCEPT ![c] = rtags]
  /\ disk' = [disk EXCEPT ![c] = Manifest(origin)]
  /\ stale' = [stale EXCEPT ![c] = {}]
  /\ UNCHANGED <<shape, remote, opts, plan, made, torn, blind, bounds>>

\* `git pull --rebase`, in a clean tree and without a conflict; a tag the
\* checkout has is not replaced.
Pull(c) ==
  /\ c \in Laptop /\ pc[c] = "idle"
  /\ disk[c] = Manifest(head[c])
  /\ LET base == Shared(head[c], origin)
         mine == SubSeq(head[c], base + 1, Len(head[c]))
         touched == [i \in 0..Len(mine) |-> UNION {mine[j].touches : j \in 1..i}]
         replayed == [i \in 1..Len(mine) |-> [mine[i] EXCEPT !.man = [g \in Group |->
                        IF g \in touched[i] THEN mine[i].man[g] ELSE Manifest(origin)[g]]]]
     IN /\ \A g \in touched[Len(mine)] : Manifest(origin)[g] = head[c][base].man[g]
        /\ head' = [head EXCEPT ![c] = origin \o replayed]
  /\ disk' = [disk EXCEPT ![c] = Manifest(head'[c])]
  /\ ltags' = [ltags EXCEPT ![c] = [g \in Group |-> [v \in Version |->
                 IF ltags[c][g][v] = NoTag THEN rtags[g][v] ELSE ltags[c][g][v]]]]
  /\ UNCHANGED <<shape, remote, command, torn, blind, bounds>>

DropStale(c) ==
  /\ c \in Laptop /\ pc[c] = "idle" /\ stale[c] # {}
  /\ ltags' = [ltags EXCEPT ![c] = [g \in Group |-> [v \in Version |->
                 IF <<g, v>> \in stale[c] THEN NoTag ELSE ltags[c][g][v]]]]
  /\ stale' = [stale EXCEPT ![c] = {}]
  /\ UNCHANGED <<shape, remote, head, disk, pc, opts, plan, made, torn, blind, bounds>>

\* `anodizer tag rollback` of the newest version, somewhere else: the bump is
\* reverted on the branch and the remote tag is gone.
Withdraw(g) ==
  /\ g \in Groups /\ withdrawals < MaxWithdrawals
  /\ LET v == Latest(rtags, g) IN
       /\ v > 1 /\ Manifest(origin)[g] = v
       /\ rtags' = [rtags EXCEPT ![g][v] = NoTag]
       /\ deferred' = deferred \ {<<g, v>>}
       /\ origin' = Append(origin, Entry("rollback", {g},
                            [Manifest(origin) EXCEPT ![g] = Latest(rtags', g)]))
  /\ withdrawals' = withdrawals + 1
  /\ UNCHANGED <<shape, checkout, command, torn, blind, work, faults>>

Step(c) ==
  \/ SkipBump(c) \/ WriteManifests(c) \/ CommitBump(c) \/ CreateTag(c) \/ StaleTag(c)
  \/ Push(c) \/ PushRejected(c) \/ PushBranch(c) \/ BranchRejected(c)
  \/ create_tag_via_github_api(c) \/ create_and_push_tag_in(c)

Next ==
  \/ \E c \in Clone :
       \/ \E o \in IF c \in Ci THEN {CiLine} ELSE Options : StartTag(c, o)
       \/ Step(c) \/ Stop(c) \/ Checkout(c) \/ Pull(c) \/ DropStale(c)
  \/ \E S \in SUBSET Group : Work(S)
  \/ \E g \in Group : Withdraw(g)

Spec == Init /\ [][Next]_vars

(***************************************************************************)
(* Fairness: a started command goes on unless it stops, and CI runs        *)
(* `tag --push` in a fresh checkout again and again.                       *)
(***************************************************************************)
Fresh(c) == head[c] = origin /\ ltags[c] = rtags /\ disk[c] = Manifest(origin)

CiRun(c) == Fresh(c) /\ StartTag(c, CiLine)

FairSpec ==
  /\ Spec
  /\ \A c \in Ci : WF_vars(Step(c)) /\ SF_vars(Checkout(c) /\ (pc[c] = "done" \/ ~Fresh(c))) /\ SF_vars(CiRun(c))

-----------------------------------------------------------------------------
PublishedTags == {t \in Groups \X Version : rtags[t[1]][t[2]] # NoTag}

\* A published tag names the version in the manifests of the commit it points
\* at, whatever stopped the runs before and whoever raced them.  Excepted is a
\* lockstep checkout in which a bump was stopped before its commit.
TagNamesManifest ==
  \A t \in PublishedTags :
    LET tag == rtags[t[1]][t[2]]
    IN Manifest(tag.at)[t[1]] = t[2] \/ tag.by \in torn

\* "Tagging a commit whose Cargo.toml is NOT at `new_version` would ship a tag
\* pointing at the wrong version" (cli/src/commands/tag/run.rs).
TagNamesManifestAlways ==
  \A t \in PublishedTags : Manifest(rtags[t[1]][t[2]].at)[t[1]] = t[2]

\* No orphan tag: a published tag's commit is on the published branch, unless
\* --push-tags-only deferred the branch.
NoOrphanTag ==
  \A t \in PublishedTags \ deferred : IsPrefix(rtags[t[1]][t[2]].at, origin)

\* A run that asks for signatures publishes signed tags only, over whatever
\* tags earlier runs left in the checkout.
SignedAsAsked ==
  [][\A c \in Clone, g \in Group, v \in Version :
       opts[c].sign /\ pc[c] = "push" /\ pc'[c] # "push"
         /\ rtags[g][v] = NoTag /\ rtags'[g][v] # NoTag => rtags'[g][v].signed]_vars

\* As long as every run could list the remote, one that pushes its branch
\* cuts the version after the newest the remote has by then, also in a checkout
\* that still holds tags withdrawn there, and when a withdrawal or another run
\* races it.
CutsNextVersion ==
  [][\A c \in Clone, g \in Group :
       pc[c] = "push" /\ pc'[c] # "push" /\ opts[c].push = "push" /\ ~blind
         /\ rtags'[g] # rtags[g] => plan[c][g] = Latest(rtags, g) + 1]_vars

Unreleased(g) == g \in Groups /\ detect_bump(rtags[g][Latest(rtags, g)], origin, g)

\* Work on the branch gets its tag, through rejected pushes, stopped runs,
\* stale tags and withdrawals.
WorkIsTagged == \A g \in Group : Unreleased(g) ~> ~Unreleased(g)

=============================================================================
