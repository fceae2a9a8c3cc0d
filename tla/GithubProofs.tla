---------------------------- MODULE GithubProofs ----------------------------
(***************************************************************************)
(* Theorems about GithubRelease, for any assets, builds, settings, number  *)
(* of runs and faults.                                                     *)
(***************************************************************************)
EXTENDS GithubRelease, SequenceTheorems, FiniteSetTheorems, TLAPS

-----------------------------------------------------------------------------
(***************************************************************************)
(* The inductive invariant.                                                *)
(***************************************************************************)
\* Until a release is chosen no task has started.
Choosing ==
  pc \in {"drafts", "find", "create"} =>
    task = Queued /\ retouch = FALSE /\ replace = opt.replace

\* The run has a release to write to, or ended well with one.
Chosen == pc \in {"upload", "publish"} \/ exit = "ok"

\* A chosen release exists, a retouched one is live, and a run ends well only
\* from where it has joined its uploads.
OnTarget ==
  /\ Chosen => target \in DOMAIN releases
  /\ Chosen /\ retouch => IsLive(releases[target])
  /\ pc # "idle" => exit = "none"
  /\ pc = "publish" \/ exit = "ok" => SkipsUploads \/ \A a \in Asset : task[a] = "done"

\* What a task that is done leaves: the bytes of the build as far as GitHub's
\* answers can tell.
DoneIsStored ==
  \A a \in Asset : task[a] = "done" =>
    /\ target \in DOMAIN releases
    /\ Stored(a) \in Build
    /\ Size[Stored(a)] = Size[build]
    /\ Digests => Stored(a) = build

\* Only a run that was told so deletes what is public.
Overwrites ==
  /\ pc = "upload" /\ replace => opt.replace \/ ~IsLive(releases[target])
  /\ Uploading => \A a \in Asset : task[a] = "delete" => replace \/ Stored(a) = Partial

\* A live release that is being written to is marked as unfinished.
WritesUnfinished ==
  Uploading /\ IsLive(releases[target]) => target \in unfinished

GithubInv ==
  /\ GithubTypeOK
  /\ Choosing
  /\ OnTarget
  /\ DoneIsStored
  /\ Overwrites
  /\ WritesUnfinished
  /\ Digests => LiveCoherent

-----------------------------------------------------------------------------
(***************************************************************************)
(* The releases of the tag.                                                *)
(***************************************************************************)
\* The parts of a release.
LEMMA ReleaseParts ==
  ASSUME releases \in Seq(Release)
  PROVE  /\ Len(releases) \in Nat /\ DOMAIN releases = 1..Len(releases)
         /\ \A r \in DOMAIN releases :
              /\ releases[r] \in Release
              /\ releases[r].state \in {"draft", "live", "immutable", "gone"}
              /\ releases[r].assets \in [Asset -> Content]
<1>1. Len(releases) \in Nat /\ DOMAIN releases = 1..Len(releases)
  BY LenProperties
<1>2. \A r \in DOMAIN releases : releases[r] \in Release
  BY <1>1, ElementOfSeq
<1> QED BY <1>1, <1>2 DEF Release

\* The settings of a run.
LEMMA OptionParts ==
  ASSUME NEW o \in Options
  PROVE  /\ o.draft \in BOOLEAN /\ o.skip \in BOOLEAN /\ o.resume \in BOOLEAN
         /\ o.replace \in BOOLEAN /\ o.immutable \in BOOLEAN
BY GithubAssumption

\* Storing changes one asset of one release.
LEMMA StoreEffect ==
  ASSUME releases \in Seq(Release), NEW r \in DOMAIN releases, NEW a \in Asset, NEW c \in Content,
         Store(r, a, c)
  PROVE  /\ releases' \in Seq(Release) /\ DOMAIN releases' = DOMAIN releases /\ Len(releases') = Len(releases)
         /\ \A q \in DOMAIN releases : releases'[q].state = releases[q].state
         /\ \A q \in DOMAIN releases : q # r => releases'[q] = releases[q]
         /\ releases'[r].assets[a] = c
         /\ \A b \in Asset : b # a => releases'[r].assets[b] = releases[r].assets[b]
<1> DEFINE new == [releases[r] EXCEPT !.assets[a] = c]
<1>1. r \in 1..Len(releases) /\ releases[r] \in Release /\ releases[r].assets \in [Asset -> Content]
  BY ReleaseParts
<1>2. new \in Release
  BY <1>1 DEF Release
<1>3. new.state = releases[r].state /\ new.assets = [releases[r].assets EXCEPT ![a] = c]
  BY <1>1 DEF Release
<1>4. releases' = [releases EXCEPT ![r] = new]
  BY DEF Store
<1> HIDE DEF new
<1>5. releases' \in Seq(Release) /\ Len(releases') = Len(releases)
      /\ \A q \in 1..Len(releases) : releases'[q] = IF q = r THEN new ELSE releases[q]
  BY <1>1, <1>2, <1>4, ExceptSeq
<1>6. DOMAIN releases' = DOMAIN releases
  BY <1>5, LenProperties
<1>7. DOMAIN releases = 1..Len(releases)
  BY ReleaseParts
<1> QED BY <1>1, <1>3, <1>5, <1>6, <1>7

\* Changing the state of a release leaves its assets alone.
LEMMA StateEffect ==
  ASSUME releases \in Seq(Release), NEW r \in DOMAIN releases,
         NEW s \in {"draft", "live", "immutable", "gone"},
         releases' = [releases EXCEPT ![r].state = s]
  PROVE  /\ releases' \in Seq(Release) /\ DOMAIN releases' = DOMAIN releases /\ Len(releases') = Len(releases)
         /\ \A q \in DOMAIN releases : releases'[q].assets = releases[q].assets
         /\ \A q \in DOMAIN releases : q # r => releases'[q].state = releases[q].state
         /\ releases'[r].state = s
<1> DEFINE new == [releases[r] EXCEPT !.state = s]
<1>1. r \in 1..Len(releases) /\ releases[r] \in Release
  BY ReleaseParts
<1>2. new \in Release /\ new.assets = releases[r].assets /\ new.state = s
  BY <1>1 DEF Release
<1>3. releases' = [releases EXCEPT ![r] = new]
  OBVIOUS
<1> HIDE DEF new
<1>4. releases' \in Seq(Release) /\ Len(releases') = Len(releases)
      /\ \A q \in 1..Len(releases) : releases'[q] = IF q = r THEN new ELSE releases[q]
  BY <1>1, <1>2, <1>3, ExceptSeq
<1>5. DOMAIN releases' = DOMAIN releases /\ DOMAIN releases = 1..Len(releases)
  BY <1>4, LenProperties
<1> QED BY <1>1, <1>2, <1>4, <1>5

\* A new draft comes last and is empty.
LEMMA NewDraftEffect ==
  ASSUME releases \in Seq(Release), releases' = NewDraft
  PROVE  /\ releases' \in Seq(Release) /\ Len(releases') = Len(releases) + 1
         /\ DOMAIN releases \subseteq DOMAIN releases'
         /\ DOMAIN releases' = DOMAIN releases \cup {Len(releases')}
         /\ \A q \in DOMAIN releases : releases'[q] = releases[q]
         /\ releases'[Len(releases')].state = "draft"
<1> DEFINE new == [state |-> "draft", assets |-> [a \in Asset |-> Absent]]
<1>1. new \in Release /\ new.state = "draft"
  BY DEF Release, Content
<1>2. releases' = Append(releases, new)
  BY DEF NewDraft
<1> HIDE DEF new
<1>3. /\ releases' \in Seq(Release) /\ Len(releases') = Len(releases) + 1
      /\ \A q \in 1..Len(releases) : releases'[q] = releases[q]
      /\ releases'[Len(releases) + 1] = new
  BY <1>1, <1>2, AppendProperties
<1>4. Len(releases) \in Nat /\ DOMAIN releases = 1..Len(releases) /\ DOMAIN releases' = 1..Len(releases')
  BY <1>3, LenProperties
<1> QED BY <1>1, <1>3, <1>4

\* A release whose assets stay is as whole as it was.
LEMMA WholeKept ==
  ASSUME NEW r, releases'[r].assets = releases[r].assets
  PROVE  Whole(r)' <=> Whole(r)
BY DEF Whole

\* What was coherent stays so when nothing goes live, nothing is declared
\* finished and the assets of the finished live releases stay.
LEMMA CoherentKept ==
  ASSUME LiveCoherent,
         \A r \in Live' \ unfinished' : r \in Live \ unfinished /\ releases'[r].assets = releases[r].assets
  PROVE  LiveCoherent'
<1>1. ASSUME NEW r \in Live' \ unfinished' PROVE Whole(r)'
  <2>1. Whole(r)
    BY <1>1 DEF LiveCoherent
  <2> QED BY <1>1, <2>1, WholeKept
<1> QED BY <1>1 DEF LiveCoherent

-----------------------------------------------------------------------------
(***************************************************************************)
(* The steps of a run that choose the release.                             *)
(***************************************************************************)
\* A run starts from nothing but its settings and its build.
LEMMA StartRunStep ==
  ASSUME GithubInv, StartRun
  PROVE  GithubInv'
<1>1. /\ UNCHANGED <<releases, late, unfinished, faults>>
      /\ runs' = runs + 1 /\ opt' \in Options /\ build' \in Build /\ replace' = opt'.replace
      /\ target' = 0 /\ retouch' = FALSE /\ task' = Queued /\ exit' = "none" /\ evidence' = {}
      /\ pc' = "drafts"
  BY DEF StartRun, github
<1>2. GithubTypeOK'
  <2>1. replace' \in BOOLEAN
    BY <1>1, OptionParts
  <2>2. /\ task' \in [Asset -> {"queued", "post", "exists", "delete", "repost", "done", "failed"}]
        /\ {a \in Asset : task'[a] \in {"post", "exists", "delete", "repost"}} = {}
    BY <1>1 DEF Queued
  <2>3. Cardinality({a \in Asset : task'[a] \in {"post", "exists", "delete", "repost"}}) <= Concurrency
    BY <2>2, FS_EmptySet, GithubAssumption
  <2>4. target' \in 0..Len(releases')
    BY <1>1, ReleaseParts DEF GithubInv, GithubTypeOK
  <2>5. runs' \in Nat
    BY <1>1 DEF GithubInv, GithubTypeOK
  <2> QED BY <1>1, <2>1, <2>2, <2>3, <2>4, <2>5 DEF GithubInv, GithubTypeOK, Stage
<1>3. Choosing' /\ OnTarget' /\ DoneIsStored'
  BY <1>1 DEF Choosing, OnTarget, DoneIsStored, Chosen, Queued
<1>4. Overwrites' /\ WritesUnfinished'
  BY <1>1 DEF Overwrites, WritesUnfinished, Uploading
<1>5. Digests => LiveCoherent'
  BY <1>1 DEF GithubInv, LiveCoherent, Live, Whole
<1> QED BY <1>2, <1>3, <1>4, <1>5 DEF GithubInv

\* Nothing is found, or nothing looked for.
LEMMA LookStep ==
  ASSUME GithubInv, NoDraft \/ SkipLookup \/ FindNothing
  PROVE  GithubInv'
<1>1. /\ UNCHANGED <<releases, late, unfinished, faults, opt, build, task, exit, evidence, runs,
                     target, retouch, replace>>
      /\ pc \in {"drafts", "find"} /\ pc' \in {"find", "create"}
  BY DEF NoDraft, SkipLookup, FindNothing, Goto, github
<1>2. GithubTypeOK'
  BY <1>1 DEF GithubInv, GithubTypeOK, Stage
<1>3. Choosing' /\ OnTarget' /\ DoneIsStored'
  BY <1>1 DEF GithubInv, Choosing, OnTarget, DoneIsStored, Chosen, Stored, SkipsUploads
<1>4. Overwrites' /\ WritesUnfinished'
  BY <1>1 DEF Overwrites, WritesUnfinished, Uploading
<1>5. Digests => LiveCoherent'
  BY <1>1 DEF GithubInv, LiveCoherent, Live, Whole
<1> QED BY <1>2, <1>3, <1>4, <1>5 DEF GithubInv

\* A stale draft goes.
LEMMA ReplaceDraftStep ==
  ASSUME GithubInv, ReplaceDraft
  PROVE  GithubInv'
<1>1. /\ UNCHANGED <<late, unfinished, faults, opt, build, task, exit, evidence, runs,
                     target, retouch, replace>>
      /\ pc = "drafts" /\ pc' = "find"
  BY DEF ReplaceDraft, Goto
<1>2. PICK d \in DOMAIN releases : releases' = [releases EXCEPT ![d].state = "gone"]
  BY DEF ReplaceDraft, Drafts
<1>3. /\ releases' \in Seq(Release) /\ DOMAIN releases' = DOMAIN releases /\ Len(releases') = Len(releases)
      /\ \A q \in DOMAIN releases : releases'[q].assets = releases[q].assets
      /\ \A q \in DOMAIN releases : q # d => releases'[q].state = releases[q].state
      /\ releases'[d].state = "gone"
  BY <1>2, StateEffect DEF GithubInv, GithubTypeOK
<1>4. GithubTypeOK'
  BY <1>1, <1>3 DEF GithubInv, GithubTypeOK, Stage
<1>5. Choosing' /\ OnTarget' /\ DoneIsStored'
  <2>1. exit = "none" /\ task = Queued
    BY <1>1 DEF GithubInv, OnTarget, Choosing
  <2> QED BY <1>1, <2>1 DEF GithubInv, Choosing, OnTarget, DoneIsStored, Chosen, SkipsUploads, Queued
<1>6. Overwrites' /\ WritesUnfinished'
  BY <1>1 DEF Overwrites, WritesUnfinished, Uploading
<1>7. Digests => LiveCoherent'
  BY <1>1, <1>3, CoherentKept DEF GithubInv, Live, IsLive
<1> QED BY <1>4, <1>5, <1>6, <1>7 DEF GithubInv

\* A draft is taken up again, or a live release is opened.
LEMMA ChooseStep ==
  ASSUME GithubInv, ReuseDraft \/ FindDraft \/ FindLive
  PROVE  GithubInv'
<1>1. /\ UNCHANGED <<releases, late, faults, opt, build, task, exit, evidence, runs>>
      /\ pc \in {"drafts", "find"} /\ pc' = "upload"
  BY DEF ReuseDraft, FindDraft, FindLive, Goto, github
<1>2. /\ target' \in DOMAIN releases
      /\ \/ /\ releases[target'].state = "draft" /\ retouch' = FALSE /\ UNCHANGED unfinished
            /\ replace' \in BOOLEAN
         \/ /\ IsLive(releases[target']) /\ retouch' = TRUE /\ replace' = opt.replace
            /\ unfinished' = IF opt.replace /\ ~opt.skip THEN unfinished \cup {target'} ELSE unfinished
  <2>1. retouch = FALSE /\ replace = opt.replace /\ replace \in BOOLEAN
    BY <1>1 DEF GithubInv, GithubTypeOK, Choosing
  <2>2. CASE ReuseDraft
    BY <2>1, <2>2 DEF ReuseDraft, Drafts, github
  <2>3. CASE FindDraft
    <3>1. PICK d \in Drafts : Resume(d)
      BY <2>3 DEF FindDraft
    <3>2. target' = d /\ d \in DOMAIN releases /\ releases[d].state = "draft"
      BY <3>1 DEF Resume, Drafts
    <3>3. retouch' = FALSE
      <4>1. retouch' = (releases[d].state \in {"live", "immutable"})
        BY <3>1 DEF Resume, IsLive
      <4>2. (releases[d].state \in {"live", "immutable"}) = FALSE
        BY <3>2
      <4> QED BY <4>1, <4>2
    <3>4. replace' \in BOOLEAN
      BY <3>1 DEF Resume
    <3> QED BY <2>3, <3>2, <3>3, <3>4 DEF FindDraft, github
  <2>4. CASE FindLive
    <3>1. PICK r \in Live :
             Resume(r) /\ unfinished' = IF opt.replace /\ ~opt.skip THEN unfinished \cup {r} ELSE unfinished
      BY <2>4 DEF FindLive
    <3>2. target' = r /\ r \in DOMAIN releases /\ IsLive(releases[r]) /\ releases[r].state # "draft"
      BY <3>1 DEF Resume, Live, IsLive
    <3>3. retouch' = TRUE
      BY <3>1, <3>2 DEF Resume
    <3>4. replace' = opt.replace
      BY <2>1, <3>1, <3>2 DEF Resume
    <3> QED BY <3>1, <3>2, <3>3, <3>4
  <2> QED BY <2>2, <2>3, <2>4
<1>3. exit = "none" /\ task = Queued
  BY <1>1 DEF GithubInv, OnTarget, Choosing
<1>4. GithubTypeOK'
  <2>1. target' \in 0..Len(releases) /\ unfinished' \subseteq DOMAIN releases
    BY <1>2, ReleaseParts DEF GithubInv, GithubTypeOK
  <2>2. retouch' \in BOOLEAN /\ replace' \in BOOLEAN
    BY <1>2, OptionParts DEF GithubInv, GithubTypeOK
  <2> QED BY <1>1, <2>1, <2>2 DEF GithubInv, GithubTypeOK, Stage
<1>5. Choosing' /\ OnTarget' /\ DoneIsStored'
  BY <1>1, <1>2, <1>3 DEF Choosing, OnTarget, DoneIsStored, Chosen, Queued
<1>6. Overwrites'
  BY <1>1, <1>2, <1>3 DEF Overwrites, Queued, IsLive
<1>7. WritesUnfinished'
  BY <1>1, <1>2 DEF WritesUnfinished, Uploading, SkipsUploads, IsLive
<1>8. Digests => LiveCoherent'
  BY <1>1, <1>2, CoherentKept DEF GithubInv, Live
<1> QED BY <1>4, <1>5, <1>6, <1>7, <1>8 DEF GithubInv

\* A draft is created, and the run knows it or not.
LEMMA CreateStep ==
  ASSUME GithubInv, Create \/ CreateUnanswered
  PROVE  GithubInv'
<1>1. /\ UNCHANGED <<late, unfinished, opt, build, task, evidence, runs, retouch, replace>>
      /\ pc = "create" /\ releases' = NewDraft
      /\ faults' = faults \/ faults' = faults + 1
      /\ \/ pc' = "upload" /\ target' = Len(releases') /\ UNCHANGED exit
         \/ pc' = "create" /\ UNCHANGED <<target, exit>>
         \/ pc' = "idle" /\ exit' = "err" /\ UNCHANGED target
  BY DEF Create, CreateUnanswered, Goto, Bail, Fault
<1>2. /\ releases' \in Seq(Release) /\ Len(releases') = Len(releases) + 1
      /\ DOMAIN releases \subseteq DOMAIN releases'
      /\ DOMAIN releases' = DOMAIN releases \cup {Len(releases')}
      /\ \A q \in DOMAIN releases : releases'[q] = releases[q]
      /\ releases'[Len(releases')].state = "draft"
  BY <1>1, NewDraftEffect DEF GithubInv, GithubTypeOK
<1>3. exit = "none" /\ task = Queued /\ retouch = FALSE /\ replace = opt.replace
  BY <1>1 DEF GithubInv, OnTarget, Choosing
<1>4. GithubTypeOK'
  <2>1. target' \in 0..Len(releases')
    BY <1>1, <1>2, ReleaseParts DEF GithubInv, GithubTypeOK
  <2>2. late' \subseteq [rel : DOMAIN releases', asset : Asset, build : Build]
    BY <1>1, <1>2 DEF GithubInv, GithubTypeOK
  <2>3. faults' \in Nat /\ pc' \in Stage /\ exit' \in {"none", "ok", "err", "killed"}
    BY <1>1 DEF GithubInv, GithubTypeOK, Stage
  <2> QED BY <1>1, <1>2, <2>1, <2>2, <2>3 DEF GithubInv, GithubTypeOK
<1>5. Choosing' /\ OnTarget' /\ DoneIsStored'
  BY <1>1, <1>2, <1>3 DEF Choosing, OnTarget, DoneIsStored, Chosen, Queued
<1>6. Overwrites' /\ WritesUnfinished'
  BY <1>1, <1>2, <1>3 DEF Overwrites, WritesUnfinished, Uploading, Queued, IsLive
<1>7. Digests => LiveCoherent'
  BY <1>1, <1>2, CoherentKept DEF GithubInv, Live, IsLive
<1> QED BY <1>4, <1>5, <1>6, <1>7 DEF GithubInv

-----------------------------------------------------------------------------
(***************************************************************************)
(* The upload tasks.                                                       *)
(***************************************************************************)
Label == {"queued", "post", "exists", "delete", "repost", "done", "failed"}

\* A task that changes state keeps to the permits of the semaphore.
LEMMA TaskTypes ==
  ASSUME GithubTypeOK, NEW a \in Asset, NEW s \in Label, Become(a, s),
         a \in Active \/ Cardinality(Active) < Concurrency \/ s \in {"queued", "done", "failed"}
  PROVE  /\ task' \in [Asset -> Label]
         /\ Cardinality({b \in Asset : task'[b] \in {"post", "exists", "delete", "repost"}}) <= Concurrency
         /\ task'[a] = s /\ \A b \in Asset : b # a => task'[b] = task[b]
<1> DEFINE next == {b \in Asset : task'[b] \in {"post", "exists", "delete", "repost"}}
<1>1. task \in [Asset -> Label] /\ Cardinality(Active) <= Concurrency
  BY DEF GithubTypeOK, Active, Label
<1>2. task' \in [Asset -> Label] /\ task'[a] = s /\ \A b \in Asset : b # a => task'[b] = task[b]
  BY <1>1 DEF Become
<1>3. IsFiniteSet(Active) /\ Cardinality(Active) \in Nat /\ Concurrency \in Nat
  BY FS_Subset, FS_CardinalityType, GithubAssumption DEF Active
<1>4. CASE a \in Active \/ s \in {"queued", "done", "failed"}
  <2>1. next \subseteq Active
    BY <1>2, <1>4 DEF Active
  <2>2. Cardinality(next) <= Cardinality(Active) /\ Cardinality(next) \in Nat
    BY <1>3, <2>1, FS_Subset, FS_CardinalityType
  <2> QED BY <1>1, <1>2, <1>3, <2>2
<1>5. CASE a \notin Active /\ Cardinality(Active) < Concurrency
  <2>1. next \subseteq Active \cup {a}
    BY <1>2 DEF Active
  <2>2. IsFiniteSet(Active \cup {a}) /\ Cardinality(Active \cup {a}) = Cardinality(Active) + 1
    BY <1>3, <1>5, FS_AddElement
  <2>3. Cardinality(next) <= Cardinality(Active) + 1 /\ Cardinality(next) \in Nat
    BY <2>1, <2>2, FS_Subset, FS_CardinalityType
  <2> QED BY <1>2, <1>3, <1>5, <2>3
<1> QED BY <1>4, <1>5

\* What a task may become when it writes nothing.
Allowed(a, s) ==
  /\ s = "done" => Stored(a) \in Build /\ Size[Stored(a)] = Size[build] /\ (Digests => Stored(a) = build)
  /\ s = "delete" => replace \/ Stored(a) = Partial

\* A task moves and writes nothing.
LEMMA TaskStep ==
  ASSUME GithubInv, NEW a \in Asset, NEW s \in Label, Become(a, s), Uploading, Allowed(a, s),
         a \in Active \/ Cardinality(Active) < Concurrency \/ s \in {"queued", "done", "failed"},
         late' \subseteq late \cup {Request(a)}, faults' \in Nat,
         UNCHANGED <<releases, unfinished, process>>
  PROVE  GithubInv'
<1>1. /\ task' \in [Asset -> Label]
      /\ Cardinality({b \in Asset : task'[b] \in {"post", "exists", "delete", "repost"}}) <= Concurrency
      /\ task'[a] = s /\ \A b \in Asset : b # a => task'[b] = task[b]
  BY TaskTypes DEF GithubInv
<1>2. UNCHANGED <<pc, opt, build, target, retouch, replace, exit, evidence, runs>> /\ pc = "upload"
  BY DEF process, Uploading
<1>3. target \in DOMAIN releases /\ exit = "none"
  BY <1>2 DEF GithubInv, OnTarget, Chosen
<1>4. GithubTypeOK'
  <2>1. Request(a) \in [rel : DOMAIN releases, asset : Asset, build : Build]
    BY <1>3 DEF GithubInv, GithubTypeOK, Request
  <2> QED BY <1>1, <1>2, <2>1 DEF GithubInv, GithubTypeOK, Label
<1>5. Choosing' /\ OnTarget'
  BY <1>2, <1>3 DEF GithubInv, Choosing, OnTarget, Chosen
<1>6. DoneIsStored'
  BY <1>1, <1>2, <1>3 DEF GithubInv, DoneIsStored, Stored, Allowed
<1>7. Overwrites' /\ WritesUnfinished'
  BY <1>1, <1>2 DEF GithubInv, Overwrites, WritesUnfinished, Uploading, SkipsUploads, Stored, Allowed
<1>8. Digests => LiveCoherent'
  BY CoherentKept DEF GithubInv, Live
<1> QED BY <1>4, <1>5, <1>6, <1>7, <1>8 DEF GithubInv

\* A task writes its asset: its build, nothing, or a part.
LEMMA WriteStep ==
  ASSUME GithubInv, NEW a \in Asset, NEW s \in {"post", "repost", "done", "failed"}, Become(a, s), Uploading,
         NEW c \in Content, Store(target, a, c), a \in Active, s = "done" => c = build,
         faults' \in Nat, UNCHANGED <<late, unfinished, process>>
  PROVE  GithubInv'
<1>1. /\ task' \in [Asset -> Label]
      /\ Cardinality({b \in Asset : task'[b] \in {"post", "exists", "delete", "repost"}}) <= Concurrency
      /\ task'[a] = s /\ \A b \in Asset : b # a => task'[b] = task[b]
  BY TaskTypes DEF GithubInv, Label
<1>2. UNCHANGED <<pc, opt, build, target, retouch, replace, exit, evidence, runs>> /\ pc = "upload"
  BY DEF process, Uploading
<1>3. target \in DOMAIN releases /\ exit = "none" /\ build \in Build
  BY <1>2 DEF GithubInv, GithubTypeOK, OnTarget, Chosen
<1>4. /\ releases' \in Seq(Release) /\ DOMAIN releases' = DOMAIN releases /\ Len(releases') = Len(releases)
      /\ \A q \in DOMAIN releases : releases'[q].state = releases[q].state
      /\ \A q \in DOMAIN releases : q # target => releases'[q] = releases[q]
      /\ releases'[target].assets[a] = c
      /\ \A b \in Asset : b # a => releases'[target].assets[b] = releases[target].assets[b]
  BY <1>3, StoreEffect DEF GithubInv, GithubTypeOK
<1>5. GithubTypeOK'
  BY <1>1, <1>2, <1>4 DEF GithubInv, GithubTypeOK, Label
<1>6. Choosing' /\ OnTarget'
  BY <1>2, <1>3, <1>4 DEF GithubInv, Choosing, OnTarget, Chosen, IsLive
<1>7. DoneIsStored'
  BY <1>1, <1>2, <1>3, <1>4 DEF GithubInv, DoneIsStored, Stored
<1>8. Overwrites'
  <2>1. replace => opt.replace \/ ~IsLive(releases'[target])
    BY <1>2, <1>3, <1>4 DEF GithubInv, Overwrites, IsLive
  <2>2. \A b \in Asset : task'[b] = "delete" => replace \/ releases'[target].assets[b] = Partial
    BY <1>1, <1>4 DEF GithubInv, Overwrites, Stored
  <2> QED BY <1>2, <2>1, <2>2 DEF Overwrites, Stored
<1>9. IsLive(releases[target]) => target \in unfinished
  BY DEF GithubInv, WritesUnfinished
<1>10. WritesUnfinished'
  BY <1>2, <1>3, <1>4, <1>9 DEF WritesUnfinished, IsLive
<1>11. Digests => LiveCoherent'
  BY <1>3, <1>4, <1>9, CoherentKept DEF GithubInv, Live, IsLive
<1> QED BY <1>5, <1>6, <1>7, <1>8, <1>10, <1>11 DEF GithubInv

\* Every step of a task keeps the invariant.
LEMMA TasksStep ==
  ASSUME GithubInv, NEW a \in Asset, Task(a)
  PROVE  GithubInv'
<1>1. faults \in Nat /\ (Fault => faults' \in Nat) /\ build \in Build /\ task[a] \in Label
      /\ task \in [Asset -> Label]
  BY DEF GithubInv, GithubTypeOK, Fault, Label
<1>2. task[a] \in {"post", "exists", "delete", "repost"} => a \in Active
  BY DEF Active
<1>3. {build, Absent, Partial} \subseteq Content
  BY <1>1 DEF Content
<1>4. CASE Acquire(a)
  <2>1. Allowed(a, "post") /\ "post" \in Label
    BY DEF Allowed, Label
  <2> QED BY <1>1, <1>4, <2>1, TaskStep DEF Acquire, github
<1>5. CASE AlreadyExists(a)
  <2>1. PICK s \in {"exists", "post"} : Become(a, s)
    BY <1>5 DEF AlreadyExists
  <2>2. Allowed(a, s) /\ s \in Label
    BY <2>1 DEF Allowed, Label
  <2> QED BY <1>1, <1>2, <1>5, <2>1, <2>2, TaskStep DEF AlreadyExists, github
<1>6. CASE Probe(a)
  <2> DEFINE s == classify_already_exists(Stored(a))
  <2>1. s \in {"delete", "done", "failed"} /\ Allowed(a, s)
    BY DEF classify_already_exists, Allowed
  <2>2. Become(a, s) /\ Uploading /\ task[a] = "exists" /\ UNCHANGED <<github, process, faults>>
    BY <1>6 DEF Probe
  <2> HIDE DEF s
  <2>3. s \in Label
    BY <2>1 DEF Label
  <2> QED BY <1>1, <1>2, <2>1, <2>2, <2>3, TaskStep DEF github
<1>7. CASE Unanswered(a)
  <2>1. PICK s \in {"post", "failed"} : Become(a, s)
    BY <1>7 DEF Unanswered, Again
  <2>2. Allowed(a, s) /\ s \in Label
    BY <2>1 DEF Allowed, Label
  <2> QED BY <1>1, <1>2, <1>7, <2>1, <2>2, TaskStep DEF Unanswered
<1>8. CASE TaskFails(a)
  <2>1. Allowed(a, "failed") /\ "failed" \in Label
    BY DEF Allowed, Label
  <2> QED BY <1>1, <1>8, <2>1, TaskStep DEF TaskFails, github
<1>9. CASE Upload(a)
  BY <1>1, <1>2, <1>3, <1>9, WriteStep DEF Upload
<1>10. CASE Delete(a)
  BY <1>1, <1>2, <1>3, <1>10, WriteStep DEF Delete
<1>11. CASE Interrupted(a)
  <2>1. PICK s \in {"post", "failed"} : Become(a, s)
    BY <1>11 DEF Interrupted, Again
  <2> QED BY <1>1, <1>2, <1>3, <1>11, <2>1, WriteStep DEF Interrupted
<1> QED BY <1>4, <1>5, <1>6, <1>7, <1>8, <1>9, <1>10, <1>11 DEF Task

-----------------------------------------------------------------------------
(***************************************************************************)
(* The end of a run, and what happens behind it.                           *)
(***************************************************************************)
\* All tasks are joined, or there was nothing to upload.
LEMMA JoinStep ==
  ASSUME GithubInv, JoinAll
  PROVE  GithubInv'
<1>1. /\ UNCHANGED <<releases, late, unfinished, faults, opt, build, task, exit, evidence, runs,
                     target, retouch, replace>>
      /\ pc = "upload" /\ pc' = "publish" /\ (SkipsUploads \/ \A a \in Asset : task[a] = "done")
  BY DEF JoinAll, Goto, github
<1>2. GithubTypeOK'
  BY <1>1 DEF GithubInv, GithubTypeOK, Stage
<1>3. Choosing' /\ OnTarget' /\ DoneIsStored'
  BY <1>1 DEF GithubInv, Choosing, OnTarget, DoneIsStored, Chosen, Stored, SkipsUploads
<1>4. Overwrites' /\ WritesUnfinished'
  BY <1>1 DEF Overwrites, WritesUnfinished, Uploading
<1>5. Digests => LiveCoherent'
  BY <1>1, CoherentKept DEF GithubInv, Live
<1> QED BY <1>2, <1>3, <1>4, <1>5 DEF GithubInv

\* A run that uploaded and joined has made its release whole.
LEMMA JoinedIsWhole ==
  ASSUME GithubInv, Digests, ~SkipsUploads, pc = "publish" \/ exit = "ok"
  PROVE  Whole(target)
<1>1. \A a \in Asset : Stored(a) = build
  BY DEF GithubInv, OnTarget, DoneIsStored
<1> QED BY <1>1 DEF GithubInv, GithubTypeOK, Whole, Stored

\* The steps that stop a run, by an error or by force.
LEMMA StopStep ==
  ASSUME GithubInv,
         LiveBlocks \/ CreateRefused \/ PublishRefused \/ StepFails \/ AbortUploads \/ Kill
  PROVE  GithubInv'
<1>1. /\ UNCHANGED <<releases, unfinished, opt, build, task, evidence, runs, target, retouch, replace>>
      /\ pc' = "idle" /\ exit' \in {"err", "killed"}
  BY DEF LiveBlocks, CreateRefused, PublishRefused, StepFails, AbortUploads, Kill, Bail, github
<1>2. /\ late' = late \/ late' = late \cup InFlight
      /\ faults' = faults \/ faults' = faults + 1
  BY DEF LiveBlocks, CreateRefused, PublishRefused, StepFails, AbortUploads, Kill, Fault, github
<1>3. GithubTypeOK'
  <2>1. Uploading => target \in DOMAIN releases
    BY DEF GithubInv, OnTarget, Chosen, Uploading
  <2>2. InFlight \subseteq [rel : DOMAIN releases, asset : Asset, build : Build]
    BY <2>1 DEF GithubInv, GithubTypeOK, InFlight, Request
  <2>3. late' \subseteq [rel : DOMAIN releases, asset : Asset, build : Build] /\ faults' \in Nat
    BY <1>2, <2>2 DEF GithubInv, GithubTypeOK
  <2> QED BY <1>1, <2>3 DEF GithubInv, GithubTypeOK, Stage
<1>4. Choosing' /\ OnTarget' /\ DoneIsStored'
  BY <1>1 DEF GithubInv, Choosing, OnTarget, DoneIsStored, Chosen, Stored
<1>5. Overwrites' /\ WritesUnfinished'
  BY <1>1 DEF Overwrites, WritesUnfinished, Uploading
<1>6. Digests => LiveCoherent'
  BY <1>1, CoherentKept DEF GithubInv, Live
<1> QED BY <1>3, <1>4, <1>5, <1>6 DEF GithubInv

\* Making the release live.
LEMMA MakeLiveEffect ==
  ASSUME GithubInv, pc = "publish", MakeLive
  PROVE  /\ target \in DOMAIN releases
         /\ releases' \in Seq(Release) /\ DOMAIN releases' = DOMAIN releases /\ Len(releases') = Len(releases)
         /\ \A q \in DOMAIN releases : releases'[q].assets = releases[q].assets
         /\ \A q \in DOMAIN releases : q # target => releases'[q].state = releases[q].state
         /\ IsLive(releases'[target])
         /\ unfinished' \subseteq DOMAIN releases
         /\ Digests => LiveCoherent'
<1> DEFINE s == IF releases[target].state = "immutable" \/ opt.immutable THEN "immutable" ELSE "live"
<1>1. target \in DOMAIN releases /\ releases \in Seq(Release)
  BY DEF GithubInv, GithubTypeOK, OnTarget, Chosen
<1>2. s \in {"immutable", "live"} /\ releases' = [releases EXCEPT ![target].state = s]
  BY DEF MakeLive
<1> HIDE DEF s
<1>3. /\ releases' \in Seq(Release) /\ DOMAIN releases' = DOMAIN releases /\ Len(releases') = Len(releases)
      /\ \A q \in DOMAIN releases : releases'[q].assets = releases[q].assets
      /\ \A q \in DOMAIN releases : q # target => releases'[q].state = releases[q].state
      /\ releases'[target].state = s
  BY <1>1, <1>2, StateEffect
<1>4. /\ Whole(target) => unfinished' = unfinished \ {target}
      /\ ~Whole(target) => IF opt.skip THEN unfinished' = unfinished \cup {target} ELSE unfinished' = unfinished
  BY DEF MakeLive
<1>5. unfinished' \subseteq DOMAIN releases
  BY <1>1, <1>4 DEF GithubInv, GithubTypeOK
<1>6. ASSUME Digests PROVE LiveCoherent'
  <2> SUFFICES ASSUME NEW r \in Live', r \notin unfinished' PROVE Whole(r)
    BY <1>3, WholeKept DEF LiveCoherent, Live
  <2>1. CASE r = target
    <3>1. ASSUME ~Whole(target) PROVE FALSE
      <4>1. ~opt.skip /\ target \notin unfinished
        BY <1>4, <2>1, <3>1
      <4>2. SkipsUploads
        BY <1>6, <3>1, JoinedIsWhole
      <4>3. retouch
        BY <4>1, <4>2 DEF SkipsUploads
      <4>4. target \in Live
        BY <1>1, <4>3 DEF GithubInv, OnTarget, Chosen, Live
      <4> QED BY <1>6, <3>1, <4>1, <4>4 DEF GithubInv, LiveCoherent
    <3> QED BY <2>1, <3>1
  <2>2. CASE r # target
    <3>1. r \in Live \ unfinished
      BY <1>3, <1>4, <2>2 DEF Live, IsLive
    <3> QED BY <1>6, <3>1 DEF GithubInv, LiveCoherent
  <2> QED BY <2>1, <2>2
<1> QED BY <1>1, <1>2, <1>3, <1>5, <1>6 DEF IsLive

\* The end of a run, and the run that fails although it published.
LEMMA PublishStep ==
  ASSUME GithubInv, Publish \/ PublishUnanswered
  PROVE  GithubInv'
<1>1. /\ UNCHANGED <<late, opt, build, target, retouch, replace, task, runs>>
      /\ pc = "publish" /\ pc' = "idle" /\ exit' \in {"ok", "err"}
      /\ faults' = faults \/ faults' = faults + 1
      /\ evidence' = evidence \/ evidence' = {} \/ evidence' = {target}
  BY DEF Publish, PublishUnanswered, Bail, Fault, capture_release_ids
<1>2. \/ MakeLive
      \/ UNCHANGED releases /\ unfinished' = IF Whole(target) THEN unfinished \ {target} ELSE unfinished
  BY DEF Publish, PublishUnanswered
<1>3. target \in DOMAIN releases
  BY <1>1 DEF GithubInv, OnTarget, Chosen
<1>4. /\ releases' \in Seq(Release) /\ DOMAIN releases' = DOMAIN releases /\ Len(releases') = Len(releases)
      /\ \A q \in DOMAIN releases : releases'[q].assets = releases[q].assets
      /\ IsLive(releases[target]) => IsLive(releases'[target])
      /\ unfinished' \subseteq DOMAIN releases
      /\ Digests => LiveCoherent'
  <2>1. CASE MakeLive
    BY <1>1, <2>1, MakeLiveEffect
  <2>2. CASE UNCHANGED releases /\ unfinished' = IF Whole(target) THEN unfinished \ {target} ELSE unfinished
    <3>1. Digests => LiveCoherent'
      BY <2>2 DEF GithubInv, LiveCoherent, Live, Whole
    <3> QED BY <2>2, <3>1 DEF GithubInv, GithubTypeOK
  <2> QED BY <1>2, <2>1, <2>2
<1>5. GithubTypeOK'
  <2>1. faults' \in Nat /\ evidence' \subseteq DOMAIN releases
    BY <1>1, <1>3 DEF GithubInv, GithubTypeOK
  <2> QED BY <1>1, <1>4, <2>1 DEF GithubInv, GithubTypeOK, Stage
<1>6. Choosing' /\ OnTarget'
  BY <1>1, <1>3, <1>4 DEF GithubInv, Choosing, OnTarget, Chosen, SkipsUploads
<1>7. DoneIsStored'
  BY <1>1, <1>3, <1>4 DEF GithubInv, DoneIsStored, Stored
<1>8. Overwrites' /\ WritesUnfinished'
  BY <1>1 DEF Overwrites, WritesUnfinished, Uploading
<1> QED BY <1>4, <1>5, <1>6, <1>7, <1>8 DEF GithubInv

\* A late request fills an empty place or none.
LEMMA LateStep ==
  ASSUME GithubInv, NEW q \in late, LateLands(q)
  PROVE  GithubInv'
<1>1. /\ UNCHANGED <<pc, opt, build, target, retouch, replace, exit, evidence, runs>>
      /\ UNCHANGED <<unfinished, task, faults>>
      /\ late' = late \ {q}
  BY DEF LateLands, process
<1>2. q.rel \in DOMAIN releases /\ q.asset \in Asset /\ q.build \in Build /\ releases \in Seq(Release)
  BY DEF GithubInv, GithubTypeOK
<1>3. /\ releases' \in Seq(Release) /\ DOMAIN releases' = DOMAIN releases /\ Len(releases') = Len(releases)
      /\ \A r \in DOMAIN releases : releases'[r].state = releases[r].state
      /\ \A r \in DOMAIN releases, a \in Asset :
           releases[r].assets[a] # Absent => releases'[r].assets[a] = releases[r].assets[a]
  <2>1. CASE releases[q.rel].state # "gone" /\ releases[q.rel].assets[q.asset] = Absent
    <3>1. Store(q.rel, q.asset, q.build) /\ q.build \in Content
      BY <1>2, <2>1 DEF LateLands, Store, Content
    <3> HIDE <2>1
    <3>2. /\ releases' \in Seq(Release) /\ DOMAIN releases' = DOMAIN releases /\ Len(releases') = Len(releases)
          /\ \A r \in DOMAIN releases : releases'[r].state = releases[r].state
          /\ \A r \in DOMAIN releases : r # q.rel => releases'[r] = releases[r]
          /\ \A b \in Asset : b # q.asset => releases'[q.rel].assets[b] = releases[q.rel].assets[b]
      BY <1>2, <3>1, StoreEffect
    <3> QED BY <2>1, <3>2
  <2>2. CASE ~(releases[q.rel].state # "gone" /\ releases[q.rel].assets[q.asset] = Absent)
    <3>1. releases' = releases
      BY <2>2 DEF LateLands
    <3> QED BY <1>2, <3>1
  <2> QED BY <2>1, <2>2
<1>4. GithubTypeOK'
  BY <1>1, <1>3 DEF GithubInv, GithubTypeOK
<1>5. Choosing' /\ OnTarget'
  BY <1>1, <1>3 DEF GithubInv, Choosing, OnTarget, Chosen, SkipsUploads, IsLive
<1>6. DoneIsStored'
  BY <1>1, <1>3, GithubAssumption DEF GithubInv, DoneIsStored, Stored
<1>7. Overwrites'
  <2>1. Uploading => target \in DOMAIN releases
    BY DEF GithubInv, OnTarget, Chosen, Uploading
  <2>2. Uploading' = Uploading /\ (pc = "upload" => target \in DOMAIN releases)
    BY <1>1 DEF GithubInv, OnTarget, Chosen, Uploading, SkipsUploads
  <2>3. pc = "upload" /\ replace => opt.replace \/ ~IsLive(releases'[target])
    BY <1>3, <2>2 DEF GithubInv, Overwrites, IsLive
  <2>4. Uploading => \A a \in Asset : task[a] = "delete" => replace \/ releases'[target].assets[a] = Partial
    BY <1>3, <2>1, GithubAssumption DEF GithubInv, Overwrites, Stored
  <2> QED BY <1>1, <2>2, <2>3, <2>4 DEF Overwrites, Stored
<1>8. WritesUnfinished'
  BY <1>1, <1>3 DEF GithubInv, WritesUnfinished, OnTarget, Chosen, Uploading, SkipsUploads, IsLive
<1>9. ASSUME Digests PROVE LiveCoherent'
  <2> SUFFICES ASSUME NEW r \in Live', r \notin unfinished' PROVE Whole(r)'
    BY DEF LiveCoherent
  <2>1. r \in DOMAIN releases /\ Whole(r)
    BY <1>1, <1>3, <1>9 DEF GithubInv, LiveCoherent, Live, IsLive
  <2>2. PICK b \in Build : \A a \in Asset : releases[r].assets[a] = b
    BY <2>1 DEF Whole
  <2>3. \A a \in Asset : releases'[r].assets[a] = b
    BY <1>3, <2>1, <2>2, GithubAssumption
  <2> QED BY <2>3 DEF Whole
<1> QED BY <1>4, <1>5, <1>6, <1>7, <1>8, <1>9 DEF GithubInv

\* The operator publishes what a run left whole.
LEMMA OperatorStep ==
  ASSUME GithubInv, OperatorPublishes
  PROVE  GithubInv'
<1>1. /\ UNCHANGED <<pc, opt, build, target, retouch, replace, exit, evidence, runs>>
      /\ UNCHANGED <<late, unfinished, task, faults>>
      /\ pc = "idle" /\ exit = "ok" /\ ~opt.skip /\ releases[target].state = "draft"
      /\ releases' = [releases EXCEPT ![target].state = "live"]
  BY DEF OperatorPublishes, process
<1>2. target \in DOMAIN releases /\ releases \in Seq(Release)
  BY <1>1 DEF GithubInv, GithubTypeOK, OnTarget, Chosen
<1>3. /\ releases' \in Seq(Release) /\ DOMAIN releases' = DOMAIN releases /\ Len(releases') = Len(releases)
      /\ \A q \in DOMAIN releases : releases'[q].assets = releases[q].assets
      /\ \A q \in DOMAIN releases : q # target => releases'[q].state = releases[q].state
      /\ releases'[target].state = "live"
  BY <1>1, <1>2, StateEffect
<1>4. GithubTypeOK'
  BY <1>1, <1>3 DEF GithubInv, GithubTypeOK
<1>5. Choosing' /\ OnTarget' /\ DoneIsStored'
  BY <1>1, <1>2, <1>3 DEF GithubInv, Choosing, OnTarget, DoneIsStored, Chosen, SkipsUploads, Stored, IsLive
<1>6. Overwrites' /\ WritesUnfinished'
  BY <1>1 DEF Overwrites, WritesUnfinished, Uploading
<1>7. ASSUME Digests PROVE LiveCoherent'
  <2>1. ~SkipsUploads
    BY <1>1 DEF GithubInv, OnTarget, Chosen, SkipsUploads, IsLive
  <2>2. Whole(target)
    BY <1>1, <1>7, <2>1, JoinedIsWhole
  <2>3. ASSUME NEW r \in Live' \ unfinished' PROVE Whole(r)
    BY <1>1, <1>3, <1>7, <2>2, <2>3 DEF GithubInv, LiveCoherent, Live, IsLive
  <2> QED BY <1>3, <2>3, WholeKept DEF LiveCoherent, Live
<1> QED BY <1>4, <1>5, <1>6, <1>7 DEF GithubInv

\* A rollback deletes releases and changes no asset.
LEMMA RollbackStep ==
  ASSUME GithubInv, Rollback
  PROVE  GithubInv'
<1>1. /\ UNCHANGED <<late, unfinished, pc, opt, build, target, retouch, replace, task, runs, faults>>
      /\ pc = "idle" /\ evidence' = {} /\ exit' = "none"
      /\ releases' = [r \in DOMAIN releases |->
                        IF r \in evidence THEN [releases[r] EXCEPT !.state = "gone"] ELSE releases[r]]
  BY DEF Rollback
<1>2. /\ Len(releases) \in Nat /\ DOMAIN releases = 1..Len(releases)
      /\ \A r \in DOMAIN releases : releases[r] \in Release
  BY ReleaseParts DEF GithubInv, GithubTypeOK
<1>3. \A r \in DOMAIN releases : /\ [releases[r] EXCEPT !.state = "gone"] \in Release
                                 /\ [releases[r] EXCEPT !.state = "gone"].assets = releases[r].assets
                                 /\ [releases[r] EXCEPT !.state = "gone"].state = "gone"
  BY <1>2 DEF Release
<1>4. /\ releases' \in [1..Len(releases) -> Release]
      /\ \A r \in DOMAIN releases : /\ releases'[r].assets = releases[r].assets
                                    /\ releases'[r].state \in {releases[r].state, "gone"}
  BY <1>1, <1>2, <1>3
<1>5. releases' \in Seq(Release) /\ Len(releases') = Len(releases) /\ DOMAIN releases' = DOMAIN releases
  BY <1>2, <1>4
<1>6. GithubTypeOK'
  BY <1>1, <1>5 DEF GithubInv, GithubTypeOK
<1>7. Choosing' /\ OnTarget' /\ DoneIsStored'
  BY <1>1, <1>4, <1>5 DEF GithubInv, Choosing, OnTarget, DoneIsStored, Chosen, Stored
<1>8. Overwrites' /\ WritesUnfinished'
  BY <1>1 DEF Overwrites, WritesUnfinished, Uploading
<1>9. Digests => LiveCoherent'
  BY <1>1, <1>4, <1>5, CoherentKept DEF GithubInv, Live, IsLive
<1> QED BY <1>6, <1>7, <1>8, <1>9 DEF GithubInv

-----------------------------------------------------------------------------
(***************************************************************************)
(* The invariant is inductive.                                             *)
(***************************************************************************)
\* Before the first run there is no release.
LEMMA GithubInit == Init => GithubInv
<1> SUFFICES ASSUME Init PROVE GithubInv
  OBVIOUS
<1>1. releases \in Seq(Release) /\ Len(releases) = 0 /\ DOMAIN releases = {}
  BY EmptySeq DEF Init
<1>2. GithubTypeOK
  <2>1. /\ task \in [Asset -> {"queued", "post", "exists", "delete", "repost", "done", "failed"}]
        /\ {a \in Asset : task[a] \in {"post", "exists", "delete", "repost"}} = {}
    BY DEF Init, Queued
  <2>2. Cardinality({a \in Asset : task[a] \in {"post", "exists", "delete", "repost"}}) <= Concurrency
    BY <2>1, FS_EmptySet, GithubAssumption
  <2>3. /\ late = {} /\ unfinished = {} /\ evidence = {} /\ target = 0 /\ runs = 0 /\ faults = 0
        /\ pc = "idle" /\ exit = "none" /\ retouch = FALSE /\ replace = FALSE
        /\ opt \in Options /\ build \in Build
    BY DEF Init
  <2>4. target \in 0..Len(releases) /\ late \subseteq [rel : DOMAIN releases, asset : Asset, build : Build]
    BY <1>1, <2>3
  <2> QED BY <1>1, <2>1, <2>2, <2>3, <2>4 DEF GithubTypeOK, Stage
<1>3. Choosing /\ OnTarget /\ DoneIsStored
  BY DEF Init, Choosing, OnTarget, DoneIsStored, Chosen, Queued
<1>4. Overwrites /\ WritesUnfinished /\ LiveCoherent
  BY <1>1 DEF Init, Overwrites, WritesUnfinished, Uploading, LiveCoherent, Live
<1> QED BY <1>2, <1>3, <1>4 DEF GithubInv

\* Every step keeps the invariant.
LEMMA GithubStep == GithubInv /\ [Next]_vars => GithubInv'
<1> SUFFICES ASSUME GithubInv, [Next]_vars PROVE GithubInv'
  OBVIOUS
<1>1. ASSUME UNCHANGED vars PROVE GithubInv'
  BY <1>1 DEF GithubInv, GithubTypeOK, Choosing, OnTarget, DoneIsStored, Overwrites, WritesUnfinished,
              LiveCoherent, Chosen, Uploading, SkipsUploads, Stored, Live, Whole, vars
<1>2. CASE Step
  BY <1>2, StartRunStep, LookStep, ReplaceDraftStep, ChooseStep, CreateStep, TasksStep, JoinStep, StopStep,
     PublishStep DEF Step
<1>3. CASE Environment
  BY <1>3, StopStep, LateStep, OperatorStep, RollbackStep DEF Environment
<1>4. CASE Rest
  BY <1>1, <1>4 DEF Rest
<1> QED BY <1>1, <1>2, <1>3, <1>4 DEF Next

\* The invariant holds in every state of every behaviour.
LEMMA GithubInvariant == Spec => []GithubInv
BY GithubInit, GithubStep, PTL DEF Spec

-----------------------------------------------------------------------------
(***************************************************************************)
(* What the backend does, for any instance.                                *)
(***************************************************************************)
\* Every variable keeps its type; in particular no more uploads are under way
\* than upload_concurrency allows.
THEOREM GithubTypes == Spec => []GithubTypeOK
<1>1. GithubInv => GithubTypeOK
  BY DEF GithubInv
<1> QED BY <1>1, GithubInvariant, PTL

\* Where GitHub reports digests, a run that uploads and ends well leaves its
\* own build on its release, whatever it met there and whatever comes late.
THEOREM RunsDeliverTheirBuild ==
  ASSUME Digests
  PROVE  Spec => []RunDeliversBuild
<1>1. ASSUME GithubInv PROVE RunDeliversBuild
  BY <1>1 DEF GithubInv, OnTarget, DoneIsStored, RunDeliversBuild, Stored
<1> QED BY <1>1, GithubInvariant, PTL

\* Where GitHub reports digests, a release the public can see is whole, but for
\* the ones an option left or leaves without some asset.
THEOREM LiveReleasesAreWhole ==
  ASSUME Digests
  PROVE  Spec => []LiveCoherent
<1>1. ASSUME GithubInv PROVE LiveCoherent
  BY <1>1 DEF GithubInv
<1> QED BY <1>1, GithubInvariant, PTL

\* A step that changes public bytes belongs to a run that was told to replace.
LEMMA StepKeepsPublicBytes ==
  ASSUME GithubInv, [Next]_vars, NEW r \in Live, NEW a \in Asset,
         releases[r].assets[a] \in Build, releases'[r].assets[a] # releases[r].assets[a]
  PROVE  opt.replace
<1>1. r \in DOMAIN releases /\ IsLive(releases[r]) /\ releases \in Seq(Release)
      /\ releases[r].assets[a] # Absent /\ releases[r].assets[a] # Partial
  BY GithubAssumption DEF GithubInv, GithubTypeOK, Live
<1>2. releases' # releases
  OBVIOUS
<1>3. ASSUME NEW b \in Asset, Upload(b) \/ Interrupted(b) PROVE FALSE
  <2>1. target \in DOMAIN releases /\ Stored(b) = Absent
    BY <1>3 DEF GithubInv, OnTarget, Chosen, Upload, Interrupted, Uploading
  <2>2. PICK c \in Content : Store(target, b, c)
    BY <1>3 DEF Upload, Interrupted, Content, GithubInv, GithubTypeOK
  <2>3. /\ \A q \in DOMAIN releases : q # target => releases'[q] = releases[q]
        /\ \A x \in Asset : x # b => releases'[target].assets[x] = releases[target].assets[x]
    BY <1>1, <2>1, <2>2, StoreEffect
  <2> QED BY <1>1, <2>1, <2>3 DEF Stored
<1>4. ASSUME NEW b \in Asset, Delete(b) PROVE opt.replace
  <2>1. target \in DOMAIN releases /\ Uploading /\ pc = "upload" /\ task[b] = "delete"
    BY <1>4 DEF GithubInv, OnTarget, Chosen, Delete, Uploading
  <2>2. /\ \A q \in DOMAIN releases : q # target => releases'[q] = releases[q]
        /\ \A x \in Asset : x # b => releases'[target].assets[x] = releases[target].assets[x]
    BY <1>1, <1>4, <2>1, StoreEffect DEF Delete, Content
  <2>3. r = target /\ a = b
    BY <1>1, <2>2
  <2>4. replace
    BY <1>1, <2>1, <2>3 DEF GithubInv, Overwrites, Stored
  <2> QED BY <1>1, <2>1, <2>3, <2>4 DEF GithubInv, Overwrites
<1>5. ASSUME NEW q \in late, LateLands(q) PROVE FALSE
  <2>1. q.rel \in DOMAIN releases /\ q.asset \in Asset /\ q.build \in Content
    BY DEF GithubInv, GithubTypeOK, Content
  <2>2. releases[q.rel].assets[q.asset] = Absent /\ Store(q.rel, q.asset, q.build)
    BY <1>2, <1>5 DEF LateLands, Store
  <2>3. /\ \A p \in DOMAIN releases : p # q.rel => releases'[p] = releases[p]
        /\ \A x \in Asset : x # q.asset => releases'[q.rel].assets[x] = releases[q.rel].assets[x]
    BY <1>1, <2>1, <2>2, StoreEffect
  <2> QED BY <1>1, <2>2, <2>3
<1>6. ASSUME ReplaceDraft \/ Publish \/ PublishUnanswered \/ OperatorPublishes PROVE FALSE
  <2>1. CASE ReplaceDraft
    <3>1. PICK d \in DOMAIN releases : releases' = [releases EXCEPT ![d].state = "gone"]
      BY <2>1 DEF ReplaceDraft, Drafts
    <3> QED BY <1>1, <3>1, StateEffect
  <2>2. CASE Publish \/ PublishUnanswered
    <3>1. pc = "publish" /\ MakeLive
      BY <1>2, <2>2 DEF Publish, PublishUnanswered
    <3> QED BY <1>1, <3>1, MakeLiveEffect
  <2>3. CASE OperatorPublishes
    <3>1. target \in DOMAIN releases /\ releases' = [releases EXCEPT ![target].state = "live"]
      BY <2>3 DEF GithubInv, OnTarget, Chosen, OperatorPublishes
    <3> QED BY <1>1, <3>1, StateEffect
  <2> QED BY <1>6, <2>1, <2>2, <2>3
<1>7. ASSUME Create \/ CreateUnanswered PROVE FALSE
  BY <1>1, <1>7, NewDraftEffect DEF Create, CreateUnanswered
<1>8. ASSUME Rollback PROVE FALSE
  <2>1. releases[r] \in Release /\ [releases[r] EXCEPT !.state = "gone"].assets = releases[r].assets
    BY <1>1, ReleaseParts DEF Release
  <2>2. releases'[r] = IF r \in evidence THEN [releases[r] EXCEPT !.state = "gone"] ELSE releases[r]
    BY <1>1, <1>8 DEF Rollback
  <2> QED BY <2>1, <2>2
<1>9. ASSUME NEW b \in Asset, Task(b) PROVE Upload(b) \/ Interrupted(b) \/ Delete(b)
  BY <1>2, <1>9 DEF Task, Acquire, AlreadyExists, Probe, Unanswered, TaskFails, github
<1>10. ASSUME Step, ~\E b \in Asset : Task(b)
       PROVE  ReplaceDraft \/ Publish \/ PublishUnanswered \/ Create \/ CreateUnanswered
  BY <1>2, <1>10 DEF Step, StartRun, ReuseDraft, NoDraft, SkipLookup, FindLive, LiveBlocks, FindDraft, FindNothing,
         CreateRefused, AbortUploads, JoinAll, PublishRefused, StepFails, github
<1>11. ~Kill /\ ~Rest /\ ~UNCHANGED vars
  BY <1>2 DEF Kill, Rest, vars
<1> QED BY <1>3, <1>4, <1>5, <1>6, <1>7, <1>8, <1>9, <1>10, <1>11 DEF Next, Environment

\* Bytes the public may have downloaded change only in a run that was told to
\* replace them.
THEOREM PublicBytesAreKept == Spec => PublicBytesKept
<1> DEFINE Kept == \A r \in Live, a \in Asset :
                     releases[r].assets[a] \in Build /\ releases'[r].assets[a] # releases[r].assets[a]
                       => opt.replace
<1>1. GithubInv /\ [Next]_vars => [Kept]_vars
  BY StepKeepsPublicBytes
<1>2. PublicBytesKept <=> [][Kept]_vars
  BY PTL DEF PublicBytesKept
<1> QED BY <1>1, <1>2, GithubInvariant, PTL DEF Spec
=============================================================================
