---------------------------- MODULE GithubRelease ----------------------------
(***************************************************************************)
(* The GitHub backend of the release stage, for one crate and its tag: the *)
(* release is found or created as a draft, its assets are uploaded by      *)
(* parallel tasks, and only then is it made live.  A later run of the same *)
(* tag meets whatever earlier runs left behind.                            *)
(*                                                                         *)
(* A request whose answer never came may still be carried out later, also  *)
(* after the run that sent it has ended.  Runs can be killed, and a rebuild*)
(* of the tag may produce other bytes under the same asset names.          *)
(***************************************************************************)
EXTENDS Naturals, Sequences, FiniteSets, SequencesExt

CONSTANTS
  Asset,       \* the file names of the crate's artifacts
  Build,       \* what a build of the tag can produce
  Size,        \* [Build -> Nat]: the size of its artifacts
  Absent,      \* no asset of that name
  Partial,     \* registered, never completed: not downloadable
  Digests,     \* whether GitHub reports the digest of an asset
  Concurrency, \* release.upload_concurrency
  Options,     \* the flags and settings a run may be given
  MaxRuns,     \* bound: runs of the stage on one tag
  MaxFaults    \* bound: how many things go wrong in a behaviour

ASSUME GithubAssumption ==
  /\ IsFiniteSet(Asset)
  /\ Size \in [Build -> Nat]
  /\ Absent \notin Build /\ Partial \notin Build /\ Absent # Partial
  /\ Digests \in BOOLEAN
  /\ Concurrency \in Nat \ {0}
  /\ Options \subseteq [mode : {"keep-existing", "replace"},
                        draft : BOOLEAN, skip : BOOLEAN, resume : BOOLEAN,
                        replace : BOOLEAN, replace_draft : BOOLEAN,
                        use_draft : BOOLEAN, immutable : BOOLEAN]
  /\ \A o \in Options : ~(o.replace_draft /\ o.use_draft)
  /\ MaxRuns \in Nat
  /\ MaxFaults \in Nat

VARIABLES
  \* GitHub: the releases of the tag in order of creation, and the requests
  \* that nobody waits for any more
  releases, late,
  \* the run
  pc, opt, build, target, retouch, replace, task, exit,
  \* the releases the run's report names for a rollback
  evidence,
  \* bookkeeping of the model
  runs, faults,
  unfinished \* live releases that an option left, or leaves, without some asset

github == <<releases, late, unfinished>>
vars == <<releases, late, pc, opt, build, target, retouch, replace, task, exit,
          evidence, runs, faults, unfinished>>

Content == Build \cup {Absent, Partial}
Release == [state : {"draft", "live", "immutable", "gone"}, assets : [Asset -> Content]]
Stage == {"idle", "drafts", "find", "create", "upload", "publish"}

\* The shape of the state: a type invariant for every variable.
GithubTypeOK ==
  /\ releases \in Seq(Release)
  /\ late \subseteq [rel : DOMAIN releases, asset : Asset, build : Build]
  /\ pc \in Stage
  /\ opt \in Options
  /\ build \in Build
  /\ target \in 0..Len(releases)
  /\ retouch \in BOOLEAN
  /\ replace \in BOOLEAN
  /\ task \in [Asset -> {"queued", "post", "exists", "delete", "repost", "done", "failed"}]
  /\ Cardinality({a \in Asset : task[a] \in {"post", "exists", "delete", "repost"}})
       <= Concurrency
  /\ exit \in {"none", "ok", "err", "killed"}
  /\ evidence \subseteq DOMAIN releases
  /\ runs \in Nat
  /\ faults \in Nat
  /\ unfinished \subseteq DOMAIN releases

Queued == [a \in Asset |-> "queued"]

Init ==
  /\ releases = <<>> /\ late = {}
  /\ pc = "idle" /\ opt \in Options /\ build \in Build
  /\ target = 0 /\ retouch = FALSE /\ replace = FALSE
  /\ task = Queued
  /\ exit = "none" /\ evidence = {}
  /\ runs = 0 /\ faults = 0 /\ unfinished = {}

Fault == faults < MaxFaults /\ faults' = faults + 1

Drafts == {r \in DOMAIN releases : releases[r].state = "draft"}
IsLive(rel) == rel.state \in {"live", "immutable"}
Live == {r \in DOMAIN releases : IsLive(releases[r])}

Bail ==
  /\ pc' = "idle" /\ exit' = "err"
  /\ UNCHANGED <<opt, build, target, retouch, replace, task, evidence, runs>>

Goto(label) ==
  pc' = label /\ UNCHANGED <<opt, build, task, exit, evidence, runs>>

-----------------------------------------------------------------------------
(***************************************************************************)
(* Finding the release to write to.                                        *)
(***************************************************************************)
StartRun ==
  /\ pc = "idle" /\ runs < MaxRuns
  /\ runs' = runs + 1
  /\ opt' \in Options /\ build' \in Build
  /\ replace' = opt'.replace
  /\ target' = 0 /\ retouch' = FALSE /\ task' = Queued
  /\ exit' = "none" /\ evidence' = {}
  /\ pc' = "drafts"
  /\ UNCHANGED <<github, faults>>

\* A stale draft is removed, never a release that is live.
ReplaceDraft ==
  /\ pc = "drafts" /\ opt.replace_draft
  /\ \E d \in Drafts : releases' = [releases EXCEPT ![d].state = "gone"]
  /\ Goto("find")
  /\ UNCHANGED <<late, unfinished, target, retouch, replace, faults>>

ReuseDraft ==
  /\ pc = "drafts" /\ opt.use_draft
  /\ target' \in Drafts
  /\ Goto("upload")
  /\ UNCHANGED <<github, retouch, replace, faults>>

NoDraft ==
  /\ pc = "drafts"
  /\ opt.replace_draft \/ opt.use_draft => Drafts = {}
  /\ Goto("find")
  /\ UNCHANGED <<github, target, retouch, replace, faults>>

\* mode: replace looks for nothing.
SkipLookup ==
  /\ pc = "find" /\ opt.mode = "replace"
  /\ Goto("create")
  /\ UNCHANGED <<github, target, retouch, replace, faults>>

\* Mutant: whatever is found counts as debris.
ResumeAnything(r) ==
  /\ target' = r
  /\ retouch' = IsLive(releases[r])
  /\ replace' = TRUE

\* A draft is debris of an earlier run: its assets may be overwritten.
Resume(r) ==
  /\ target' = r
  /\ retouch' = IsLive(releases[r])
  /\ replace' = (replace \/ releases[r].state = "draft")

\* Mutant: --resume-release is not heard.
BlockResume(r) ==
  /\ ~opt.skip /\ ~opt.replace
  /\ IsLive(releases[r])
  /\ \E a \in Asset : releases[r].assets[a] # Absent

check_existing_assets_block_upload(r) ==
  /\ ~opt.skip /\ ~opt.resume /\ ~opt.replace
  /\ IsLive(releases[r])
  /\ \E a \in Asset : releases[r].assets[a] # Absent

\* A live release of the tag is found.
FindLive ==
  /\ pc = "find" /\ opt.mode # "replace"
  /\ \E r \in Live :
       /\ releases[r].state # "immutable"
       /\ ~check_existing_assets_block_upload(r)
       /\ Resume(r)
       /\ unfinished' = IF opt.replace /\ ~opt.skip THEN unfinished \cup {r} ELSE unfinished
  /\ Goto("upload")
  /\ UNCHANGED <<releases, late, faults>>

\* An immutable release cannot be updated, and assets that are public are not
\* overwritten unasked.
LiveBlocks ==
  /\ pc = "find" /\ opt.mode # "replace"
  /\ \E r \in Live :
       releases[r].state = "immutable" \/ check_existing_assets_block_upload(r)
  /\ Bail
  /\ UNCHANGED <<github, faults>>

\* Nothing public: the lookup by tag returns a draft, or none.
FindDraft ==
  /\ pc = "find" /\ opt.mode # "replace" /\ Live = {}
  /\ \E d \in Drafts : Resume(d)
  /\ Goto("upload")
  /\ UNCHANGED <<github, faults>>

FindNothing ==
  /\ pc = "find" /\ opt.mode # "replace" /\ Live = {}
  /\ Goto("create")
  /\ UNCHANGED <<github, target, retouch, replace, faults>>

NewDraft == Append(releases, [state |-> "draft", assets |-> [a \in Asset |-> Absent]])

\* Mutant: created as it will be in the end.
CreateLive ==
  /\ pc = "create" /\ Live = {}
  /\ releases' = Append(releases, [state |-> IF opt.draft THEN "draft" ELSE "live",
                                   assets |-> [a \in Asset |-> Absent]])
  /\ target' = Len(releases')
  /\ Goto("upload")
  /\ UNCHANGED <<late, unfinished, retouch, replace, faults>>

\* Always a draft at first.
Create ==
  /\ pc = "create" /\ Live = {}
  /\ releases' = NewDraft
  /\ target' = Len(releases')
  /\ Goto("upload")
  /\ UNCHANGED <<late, unfinished, retouch, replace, faults>>

\* A second release of a tag is refused.
CreateRefused ==
  /\ pc = "create" /\ Live # {}
  /\ Bail
  /\ UNCHANGED <<github, faults>>

\* The draft was created and nobody knows: the request is sent again, or not.
CreateUnanswered ==
  /\ pc = "create" /\ Live = {}
  /\ Fault
  /\ releases' = NewDraft
  /\ (Goto("create") /\ UNCHANGED <<target, retouch, replace>>) \/ Bail
  /\ UNCHANGED <<late, unfinished>>

-----------------------------------------------------------------------------
(***************************************************************************)
(* The uploads: one task per asset, a bounded number of them at a time.    *)
(***************************************************************************)
SkipsUploads == opt.skip \/ (retouch /\ ~replace)

Active == {a \in Asset : task[a] \in {"post", "exists", "delete", "repost"}}
Uploading == pc = "upload" /\ ~SkipsUploads
process == <<pc, opt, build, target, retouch, replace, exit, evidence, runs>>

Become(a, s) == task' = [task EXCEPT ![a] = s]
Stored(a) == releases[target].assets[a]
Store(r, a, c) == releases' = [releases EXCEPT ![r].assets[a] = c]

\* Mutant: no semaphore.
AcquireAtOnce(a) ==
  /\ Uploading /\ task[a] = "queued"
  /\ Become(a, "post")
  /\ UNCHANGED <<github, process, faults>>

Acquire(a) ==
  /\ Uploading /\ task[a] = "queued" /\ Cardinality(Active) < Concurrency
  /\ Become(a, "post")
  /\ UNCHANGED <<github, process, faults>>

Upload(a) ==
  /\ Uploading /\ task[a] \in {"post", "repost"} /\ Stored(a) = Absent
  /\ Store(target, a, build)
  /\ Become(a, "done")
  /\ UNCHANGED <<late, unfinished, process, faults>>

\* 422 already_exists.  The second one of an attempt is the asset that came
\* back after its delete: another attempt.
AlreadyExists(a) ==
  /\ Uploading /\ task[a] \in {"post", "repost"} /\ Stored(a) # Absent
  /\ Become(a, IF task[a] = "post" THEN "exists" ELSE "post")
  /\ UNCHANGED <<github, process, faults>>

\* Mutant: sizes are enough.
CompareSizes(remote) ==
  CASE remote = Partial -> "delete"
    [] remote \in Build /\ Size[remote] = Size[build] -> "done"
    [] OTHER -> IF replace THEN "delete" ELSE "failed"

\* Equal by digest, or by size where there is none.
classify_already_exists(remote) ==
  CASE remote = Partial -> "delete"
    [] remote \in Build /\ Size[remote] = Size[build] /\ (Digests => remote = build) -> "done"
    [] OTHER -> IF replace THEN "delete" ELSE "failed"

Probe(a) ==
  /\ Uploading /\ task[a] = "exists"
  /\ Become(a, classify_already_exists(Stored(a)))
  /\ UNCHANGED <<github, process, faults>>

\* The asset of that name, whatever it is by now.
Delete(a) ==
  /\ Uploading /\ task[a] = "delete"
  /\ Store(target, a, Absent)
  /\ Become(a, "repost")
  /\ UNCHANGED <<late, unfinished, process, faults>>

\* Nobody answers within the retry budget, or the last attempt is refused.
Again(a) == \E s \in {"post", "failed"} : Become(a, s)

Request(a) == [rel |-> target, asset |-> a, build |-> build]

\* Sent, and not answered: it may still arrive.
Unanswered(a) ==
  /\ Uploading /\ task[a] \in {"post", "repost"}
  /\ Fault
  /\ late' = late \cup {Request(a)}
  /\ Again(a)
  /\ UNCHANGED <<releases, unfinished, process>>

\* Broken in the middle: the name is taken, the bytes are not there.
Interrupted(a) ==
  /\ Uploading /\ task[a] \in {"post", "repost"} /\ Stored(a) = Absent
  /\ Fault
  /\ Store(target, a, Partial)
  /\ Again(a)
  /\ UNCHANGED <<late, unfinished, process>>

\* A refused upload, probe or delete.
TaskFails(a) ==
  /\ Uploading /\ a \in Active
  /\ Fault
  /\ Become(a, "failed")
  /\ UNCHANGED <<github, process>>

\* What a run that stops leaves on the wire.
InFlight == {Request(a) : a \in {b \in Asset : Uploading /\ task[b] \in {"post", "repost"}}}

\* The first failure aborts the other tasks.
AbortUploads ==
  /\ Uploading
  /\ \E a \in Asset : task[a] = "failed"
  /\ late' = late \cup InFlight
  /\ Bail
  /\ UNCHANGED <<releases, unfinished, faults>>

JoinAll ==
  /\ pc = "upload"
  /\ ~SkipsUploads => \A a \in Asset : task[a] = "done"
  /\ Goto("publish")
  /\ UNCHANGED <<github, target, retouch, replace, faults>>

-----------------------------------------------------------------------------
(***************************************************************************)
(* The end of a run.                                                       *)
(***************************************************************************)
\* The release the report names is the one the tag is looked up by.
capture_release_ids == evidence' \in {{}, {target}} /\ (IsLive(releases'[target]) => evidence' = {target})

\* All assets, and all of one build.
Whole(r) == \E b \in Build : \A a \in Asset : releases[r].assets[a] = b

MakeLive ==
  /\ releases' = [releases EXCEPT ![target].state =
                    IF @ = "immutable" \/ opt.immutable THEN "immutable" ELSE "live"]
  /\ unfinished' = IF Whole(target) THEN unfinished \ {target}
                   ELSE IF opt.skip THEN unfinished \cup {target} ELSE unfinished

\* Un-draft, unless the release is to stay a draft or another one is public.
Publish ==
  /\ pc = "publish"
  /\ IF opt.draft
     THEN /\ UNCHANGED releases
          /\ unfinished' = IF Whole(target) THEN unfinished \ {target} ELSE unfinished
     ELSE Live \subseteq {target} /\ MakeLive
  /\ capture_release_ids
  /\ pc' = "idle" /\ exit' = "ok"
  /\ UNCHANGED <<late, opt, build, target, retouch, replace, task, runs, faults>>

PublishRefused ==
  /\ pc = "publish" /\ ~opt.draft /\ ~(Live \subseteq {target})
  /\ Bail
  /\ UNCHANGED <<github, faults>>

\* The release is live and the run reports a failure.
PublishUnanswered ==
  /\ pc = "publish" /\ ~opt.draft /\ Live \subseteq {target}
  /\ Fault
  /\ MakeLive
  /\ Bail
  /\ UNCHANGED late

\* A call that keeps failing, a template, a missing artifact.
StepFails ==
  /\ pc \in {"drafts", "find", "create", "publish"} \/ (pc = "upload" /\ task = Queued)
  /\ Fault
  /\ Bail
  /\ UNCHANGED github

Kill ==
  /\ pc # "idle"
  /\ Fault
  /\ late' = late \cup InFlight
  /\ pc' = "idle" /\ exit' = "killed"
  /\ UNCHANGED <<releases, unfinished, opt, build, target, retouch, replace, task,
                 evidence, runs>>

-----------------------------------------------------------------------------
(***************************************************************************)
(* Between and behind the runs.                                            *)
(***************************************************************************)
\* A request arrives late; a name that is taken refuses it.
LateLands(q) ==
  /\ late' = late \ {q}
  /\ releases' = IF releases[q.rel].state # "gone" /\ releases[q.rel].assets[q.asset] = Absent
                 THEN [releases EXCEPT ![q.rel].assets[q.asset] = q.build]
                 ELSE releases
  /\ UNCHANGED <<unfinished, process, task, faults>>

\* The operator publishes a finished draft by hand.
OperatorPublishes ==
  /\ pc = "idle" /\ exit = "ok" /\ opt.draft /\ ~opt.skip /\ Live = {}
  /\ releases[target].state = "draft"
  /\ releases' = [releases EXCEPT ![target].state = "live"]
  /\ UNCHANGED <<late, unfinished, process, task, faults>>

\* tag rollback deletes what the report names.
Rollback ==
  /\ pc = "idle" /\ evidence # {}
  /\ releases' = [r \in DOMAIN releases |->
                    IF r \in evidence THEN [releases[r] EXCEPT !.state = "gone"] ELSE releases[r]]
  /\ evidence' = {}
  /\ exit' = "none"
  /\ UNCHANGED <<late, unfinished, pc, opt, build, target, retouch, replace, task, runs, faults>>

Rest == pc = "idle" /\ runs = MaxRuns /\ UNCHANGED vars

Task(a) ==
  \/ Acquire(a) \/ Upload(a) \/ AlreadyExists(a) \/ Probe(a) \/ Delete(a)
  \/ Unanswered(a) \/ Interrupted(a) \/ TaskFails(a)

Step ==
  \/ StartRun \/ ReplaceDraft \/ ReuseDraft \/ NoDraft
  \/ SkipLookup \/ FindLive \/ LiveBlocks \/ FindDraft \/ FindNothing
  \/ Create \/ CreateRefused \/ CreateUnanswered
  \/ AbortUploads \/ JoinAll \/ Publish \/ PublishRefused \/ PublishUnanswered \/ StepFails
  \/ \E a \in Asset : Task(a)

Environment ==
  \/ Kill \/ OperatorPublishes \/ Rollback
  \/ \E q \in late : LateLands(q)

Next == Step \/ Environment \/ Rest

Spec == Init /\ [][Next]_vars

\* A run proceeds, and a release that failed is run again.
FairSpec == Spec /\ WF_vars(Step)

-----------------------------------------------------------------------------
(***************************************************************************)
(* What the backend must do.                                               *)
(***************************************************************************)
\* Draft-then-publish: a release the public can see has all its assets, all
\* of one build, unless uploads were switched off for it or an overwrite of a
\* live release was asked for and has not succeeded yet.
LiveCoherent == \A r \in Live \ unfinished : Whole(r)

\* A run that uploads and ends well leaves exactly its own build on its
\* release, whatever was there before and whatever arrives late.
RunDeliversBuild ==
  exit = "ok" /\ ~SkipsUploads => \A a \in Asset : releases[target].assets[a] = build

\* Bytes the public may have downloaded are changed only by a run that was
\* told to replace them: resuming a stale draft never reaches a live release.
PublicBytesKept ==
  [][\A r \in Live, a \in Asset :
       releases[r].assets[a] \in Build /\ releases'[r].assets[a] # releases[r].assets[a]
         => opt.replace]_vars

Resumes(o) ==
  /\ o.resume \/ o.replace
  /\ o.mode # "replace" /\ ~o.use_draft /\ ~o.immutable

\* A release that failed anywhere completes when it is run again, if the runs
\* may resume what they find.
ResumedRunConverges ==
  [](runs > 0 => Resumes(opt)) => <>(exit = "ok")

\* A release that went live before another publisher failed: the identical
\* command finds it live and ends well.
IdenticalRunConverges == (pc = "drafts" /\ Live # {}) ~> (exit = "ok")
=============================================================================
