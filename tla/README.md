# A model of anodizer's tag, release, announce and rollback

anodizer is a release tool: one command builds a version's artifacts and
publishes them to two dozen places (a GitHub release, buckets, taps, package
registries, the snap store); another takes a failed release back. Neither is
atomic. A release is a list of writes to services that do not know each other,
some of which can never be undone; the process can be killed between any two
of them; and what a later command knows of an earlier one is what the earlier
one left in a few JSON files. This project models that core: how a version gets
its tag, what a release does to the upstreams, what it writes down, when it may
exit with status zero, whom it tells, and what a rollback then does with the
record.

Source paths below are relative to `src/crates/`.

## 1. Inventory

### Components that are modelled

| Part | State it keeps | Operations | Interacts with |
|---|---|---|---|
| Publish report and gates (`core/src/publish_report.rs`, `publish_evidence.rs`, `publisher.rs`) | a list of rows: publisher, group, required, outcome, evidence | the gate predicates, `gate_required_failures`, `records_published_work`, `absorb_prior` | read by every stage below |
| Blob stage (`stage-blob/src/run.rs`) | none of its own; seeds one row | upload, skip, fail | runs before the dispatch, which takes over its row |
| Publish dispatch (`stage-publish/src/{dispatch,lib,registry}.rs`) | the report, in memory | one turn per publisher in group order: gate, deselection, config skip, nightly, reconcile, verify gate, run | upstreams, `summary.json` after every turn, `report.json` at the end |
| Snapcraft publish stage (`stage-snapcraft/src/publish_stage/`) | none; adds one row | as the dispatch, for the snap store | the same report and verify gate |
| Run summary (`stage-publish/src/run_summary.rs`) | `dist/run-<tag>/summary.json` | write, burn verdict, `mark_withdrawn_in_summary` | the ledger of the next release's reconcile and the rollback's guard |
| Run report (`stage-publish/src/report.rs`) | `dist/run-<tag>/report.json` | write, `carry_prior_work` | what a withdrawal replays |
| Rollback engine (`stage-publish/src/rollback.rs`) | `dist/run-<tag>/rollback.json` | candidates, withdraw each, persist, mark the ledger | upstreams, the two other files |
| `tag rollback` (`cli/src/commands/tag/rollback/`, `core/src/git/commits/rollback.rs`) | branch, local and remote tag | guard, unwind, revert or reset, push, delete tags | git, GitHub, the rollback engine |
| Announce (`stage-announce/src/{dispatch,sent_marker,announcers/mod}.rs`) | work queue, result channel, `dist/.announce-sent-<version>.json` | render each announcer, pool of detached workers, collect until a deadline, drain, mark sent | chat and mail services; the marker of earlier runs |
| Cargo publisher (`stage-publish/src/cargo/`) | crates published so far, the issued token | plan, reconcile, guards, already-published check, dependency wait, `cargo publish` with retry, index poll, yank | crates.io and its index; other jobs of the workspace |
| GitHub release (`stage-release/src/`) | the release id, its assets | draft handling, lookup, create or PATCH, bounded parallel upload, publish | GitHub; what earlier runs left at the tag |
| `tag` (`cli/src/commands/tag/`, `core/src/git/tags/`) | branch, tags and manifests of a checkout | previous tag, plan, write manifests, commit, tag, push or API call | the remote, other checkouts |
| Pipeline runner (`cli/src/pipeline/`), end of run (`stage-announce/src/run.rs`) | exit status | stage order, first stage error, `emit_summary` and the last gate | all of the above |

What makes each of them correct:

- gates: after a required failure no one-way door is opened; exit status zero
  means every selected required publisher is out;
- ledger: it passes a publisher for complete only if the upstream is complete
  with these bytes and nothing withdrew it since;
- report: what is live at a reversible upstream is named by the record, over
  any number of runs;
- summary: a version spent at a one-way door stays on record as spent;
- rollback: nothing is deleted before it was withdrawn, a burned version keeps
  its tag, a stopped rollback can be repeated;
- announce: a channel on record is never told again, one that was not told is
  named, and a provider that hangs does not hang the stage;
- cargo: dependencies are visible before a dependent is sent, a run ends well
  only over content equivalent to its build, a rollback yanks only its own;
- GitHub: what the public sees is complete and of one build, and its bytes
  change only on request;
- tag: a tag points at a commit of the branch whose manifests have its version,
  and work on the branch gets a tag;
- re-runs: the same command eventually succeeds if things stop going wrong.

### What is hard here

(a) Kills between a remote write and the file that records it, (b) work of one
release spread over several runs whose files are merged, (c) a stale file, index
or local tag read as proof, (d) partial failure of one step of many, (e) long
legal command sequences, release, roll back, re-cut, release again, that reach
states no unit test sets up, (f) requests whose answer is lost and that are
carried out all the same, perhaps late, and (g) interleaving: the announcers'
workers, the upload tasks, two checkouts of one repository, another job of the
workspace. PROJECT.json lists the hazards line by line.

### Not modelled

The parallel fan-out, atomic file writes, split and merge, post-publish polling,
promote, the arithmetic of the retry driver and the GitLab and Gitea backends
have state worth modelling and are in the plan. Of the modelled parts:
`tag --crate`, `--version`, custom and hash tags, hooks, changelogs and the
propagation of bumps to dependents; nightly retention, rate limits and release
bodies; the announcers' message formats. The build, archive, packaging and
signing stages, the determinism harness, configuration, templates and the
individual publishers' manifests, most of the repository by volume, are external
tools, file formats and string formatting: the models see a build only as the
identity of its bytes, and a publisher as its parameters.

## 2. Modules

```
PublishReport            rows, outcomes, gate predicates, dispatch order
   |
RunRecords               summary.json, report.json, rollback.json: pure rules
   |
PublishPipeline          one tag released any number of times   (state machine)
   |            \
   |             PublishPipelineProofs <- ExitSoundProofs       (theorems)
   |                                           |
TagRollback              releases, rollbacks and re-cuts of the tag
   |                                           |
ReleaseHistory ------------------------- TagRollbackProofs <- RecordProofs

MCPublishPipeline   MCTagRollback   MCReleaseHistory            (TLC instances)

Delivery   <== Announce        AnnounceProofs   MCAnnounce   (<== is implemented by)
Submission <== CargoPublish    CargoProofs      MCCargoPublish
               GithubRelease   GithubProofs     MCGithubRelease
               TagCut          TagCutProofs     MCTagCut
```

In the first block each module EXTENDS the one above it; `TagRollback` composes
the rollback command with the release pipeline over the same upstreams and
files. The four below look inside one part that the pipeline sees as a single
publisher or stage, or, for `TagCut`, at the command that runs before it.

**PublishReport.** The publishers are `1 .. N`, the order of the registry. A
row is `[outcome, evidence, items, digest]`: whether there is evidence, which
items it names as published, and the build its digests are of. Groups,
stages and `required` are constants.

**RunRecords.** Operators named as the functions they translate:
`write_summary_json`, `ledger_fast_path`, `withdrawn_beside`, `candidate_row`,
`absorb_prior`, `carry_row`, `carry_prior_work`, `load_prior_state`,
`write_report_to_run_dir`. Two constants stand for kinds of evidence that the
code treats differently: `FreshEvidence` (a new commit id on every publish, so
the file's bytes change) and `UntypedWhenIdle` (publishers that return
evidence without a typed list when they had nothing to do). A third,
`Moderated` of the pipeline, holds the publishers whose turn may end pending: a
gallery with a moderation queue, or a tap that opens a pull request and may find
it open already.

**PublishPipeline.** Variables: the upstreams (`upstream[p][i]` is the build
whose bytes item `i` has at `p`), the three files, the process (`pc`,
`results`, `verify`, `build`, `opts`, `exit`) and two bookkeeping variables,
`faults` (how many things went wrong) and `lost` (what a killed run wrote
without recording it). One action per way a publisher's turn can end; every
dispatch action pushes its row and rewrites the summary as one step
(`Push`, dispatch.rs:574-590), because nothing between the push and the
snapshot can be observed but a kill, and a kill there equals one before the
push of a publisher whose writes arrived (`KillDuring`). The order of the skip
cascade is the order of the code: gate, deselected, config-skipped, nightly,
reconcile, verify gate, simulated failure, run.

**TagRollback.** Adds the command (`cmd`, `cmdopts`, the rows `state` it
decides in memory and `todo`), the branch as the checkout and the remote have
it, the tags, and `torn` (publishers a killed pass withdrew without writing it
down). A step is one row's withdrawal, one file write or one git operation.
`Unwritten` is what a pass has decided in memory and would lose: the loop
(rollback.rs:140-176) writes `rollback.json` once, after its last row, so a kill
tears every publisher decided so far and not only the one in flight.

**ReleaseHistory.** Two history variables beside `TagRollback`, which constrain
none of its steps, so that the files can be judged against what happened. `burnt`
has the dispatched Submitters at which the last run with a row really put
something, alive, whatever that run or a later one then wrote; `masked` the work
of a run whose report write found its own bytes on disk and left an old
`rollback.json` in front of them. The properties that hold through any order of
releases, withdrawals, kills and re-cuts are stated here; the stronger forms that
the documentation promises and the code breaks (`KeepsBurnedTagAlways`,
`WorkStaysRecordedAlways`) are in `TagRollback`; section 3 has their refutations.

**Announce.** The main thread (`pc`, `record`, `errors`, `succeeded`,
`abandoned`), the queue and result channel it shares with a pool of workers, the
workers, the marker file and the messages each channel got. A worker pops,
posts, waits for the answer, tries again and tells; it may stop for ever at any
point. The marker is truncated (`mark_sent`) and written (`flush`) in two steps,
because the code writes it in place. `window` collects the channels for which
the code itself leaves a duplicate possible.

**Delivery.** What a channel may rely on: posts only to channels not on record,
records only of channels that got a message. `Announce` implements it with
`recorded <- load(marker)` (property `KeepsPromise`).

**CargoPublish.** The registry, its lagging index, the run (`order`, `at`,
`tries`, `record`, `token`), its row of the report and, beside it, another job
that uploads crates and a rollback that yanks. One action per way a crate's turn
can end, in the order of `publish_to_cargo_with_guard`. The row (`row`, and the
crates it names, `ledger`) is the last run's alone: cargo is a Submitter, and
`carry_prior_work` (report.rs:179-192) drops the earlier row of one that was
reached again. A rollback takes up only a row that failed or whose earlier
withdrawal did (`candidate_rows`); it may yank all, lose some yanks to a warning,
break off or lack its scope, and a failed row that was yanked stays failed
(rollback.rs:511-526).

**Submission.** A one-way door seen from outside: slots fill once, and a
submission is called complete only when its slots hold equivalent content.
`CargoPublish` implements it with crates as slots (property `SubmitsSoundly`).

**GithubRelease.** The releases of one tag with their assets, the requests
nobody waits for any more (`late`), the run and one task per asset. An upload
is a request, its answer, and, when the name is taken, probe, comparison,
delete and repost, interleaved with the other tasks.

**TagCut.** The remote branch and tags, and per checkout its commit, tags,
manifests on disk and running command. A commit is the sequence of entries from
the root, so that an ancestor is a prefix; the merge base of two commits is the
length of what they share, and a rebase puts the entries behind it on top of the
remote branch, with the remote's manifests except where an entry touched them.
CI checkouts are made fresh for every
job and run one command line; an operator's is kept, may be stale, and runs any.

### Abstractions

Pipeline and rollback:

- One tag, one crate layout, one checkout. Snapshot and dry runs are left out:
  they write nothing to an upstream.
- A publisher has a few items (crates, files, manifests); `run()` writes all
  that is missing or fails after some of them. A failed run's evidence names
  what it wrote; writes whose answer was lost are seen only as a kill.
- The reconcile probe is a parameter: none, by version or by content. An
  unreachable probe is "Unknown" and, as in the code, goes on to publish.
- `PendingValidation` is folded into `PendingModeration`, entry skips into
  `NotApplicable`; `PublishedNoRollback` is produced by no publisher.
- Files are written whole and can be read. Disk errors and corrupt files are
  left out, `rollback.json`, which the code writes in place, included.
- Hooks, logging, timings and pollers change no modelled state.
- Rollback: the operator names the bump commit; no foreign commit sits on top
  of it; `--scope`, `--dry-run` and several tags at one commit are left out. A
  guard refusal changes nothing and is a step not taken. The GitHub release
  removed at tag deletion is not one of the publishers: only its failure, which
  keeps the tag, is modelled. One advisory outage excuses every advisory
  registry of that guard pass.
- Withdrawing a Submitter (a yank, a closed submission) does not free its slot.

The other modules:

- Announce: an announcer whose template is empty or false is not in `Channel`.
  One message per channel; the text is left out. Time is the deadline passing.
- Cargo: all crates are at one version. Two builds of one source are
  equivalent, which stands for the comparison of package contents; two of
  different sources are not. A rollback of a row that names no crate yanks
  nothing and is left out. A crate is visible on the index some time after
  its upload. Which environment variable carries the token is left out.
- GitHub: one crate, hence one release per tag. A request is carried out when it
  is answered, or, unanswered, later or never. Asset sizes and digests are those
  of the build. Body, name, milestones and discussion are left out.
- Tag: versions are counted, whichever part of a semantic version is raised, and
  every repository has been tagged once. Several tags of one run are created one
  after the other and pushed together. Without `gh` a tag meant for the API is made
  in the checkout and pushed by itself (`create_and_push_tag_in`). A rebase keeps bump commits that do not
  conflict. Withdrawal is a step of the environment (its own model is
  `TagRollback`).

## 3. Runs

Passing:

| Run | Instance | Checks |
|---|---|---|
| `pipeline` | blob, tap, registry, a snap store no snap was built for; two items, two builds, one fault | `TypeOK`, `WorkIsRecorded`, `ExitSound` |
| `gates` | six publishers in all groups and stages, one inactive, one that skips nightlies; five command lines, one fault, verify gate on | `DoorsCloseBehindFailure`, `ExitSound` |
| `convergence` | tap, moderated registry, a bucket and a tap with nothing to publish, an inactive snap store; one command line, two items, two faults | `Converges` |
| `rollbacks` | tap, registry the guard asks, retained moderated gallery; every rollback command line, two faults | `HistoryTypeOK`, `NoLimbo`, `BurnsStayOnRecord`, `RecutSound`, `KeepsBurnedTag` |
| `unwinding` | an artifact repository whose evidence repeats itself and a retained tap; two items, one build, two faults | `WorkStaysRecorded`, `DeletesWithdrawn` |
| `announce` | three channels, two workers, two runs, one fault | `AnnounceTypeOK`, `NoSilentLoss`, `DuplicatesExcused`, `KeepsPromise`, `StageReturns` |
| `cargo` | three crates and one of another job, three builds of two sources, one rollback, one fault | `CargoTypeOK`, `DepsVisibleBeforeSend`, `YanksOnlyOwn`, `CompletedStaysUp`, `SubmitsSoundly`, `CargoConverges` |
| `github` | three assets, two builds, two uploads at a time, two runs under eight settings, one fault | `GithubTypeOK`, `LiveCoherent`, `RunDeliversBuild`, `PublicBytesKept`, `ResumedRunConverges` |
| `tags` | a CI and an operator's checkout, lockstep and two groups; one piece of work, one withdrawal, one fault | `CutTypeOK`, `TagNamesManifest`, `NoOrphanTag`, `SignedAsAsked`, `CutsNextVersion`, `WorkIsTagged` |

- `WorkIsRecorded`: between runs, what a reversible publisher has at its
  upstream is named by the record a withdrawal replays, except what a killed
  run had not written down.
- `DoorsCloseBehindFailure`: with the gate on, no Manager or Submitter had a
  turn that reached its upstream after a required publisher failed.
- `ExitSound`: without `--fail-fast`, exit zero means that every required
  publisher the command line selected is complete upstream. `gates` asks it
  over the gates and groups, `pipeline` over partly published upstreams and the
  ledger rows of earlier runs and builds.
- `Converges`: re-running the command reaches exit zero again and again.
- `NoLimbo`: the remote tag of a revert rollback goes only after the revert is
  on the remote branch.
- `RecutSound`: exit zero keeps its meaning across withdrawals and re-cuts.
- `BurnsStayOnRecord`: what the last run with a row put through a dispatched
  one-way door is burned in `summary.json` from that step on, through a kill of
  the run, runs that stop before their first row, withdrawals and re-cuts.
- `KeepsBurnedTag`: without `--force`, no rollback deletes the tag of a version
  that a registry which must answer holds, whichever run put it there, nor after
  the last run landed at any dispatched Submitter, probed or not.
- `WorkStaysRecorded`, `DeletesWithdrawn`: partial withdrawals lose no record,
  and a tag goes only after its release was withdrawn. Excepted is what a killed
  run never wrote down and what an unchanged report write masked.
- `KeepsPromise`, `NoSilentLoss`, `DuplicatesExcused`: what is on record was
  delivered and is not sent again; what was never delivered is named by the
  stage that ends; a channel told twice went through one of the windows the code
  leaves (a lost answer, a send unreported at the drain, a kill before the
  flush, a marker not written).
- `StageReturns`: the collector comes back although every send may hang.
- `SubmitsSoundly`, `DepsVisibleBeforeSend`: as the module descriptions say; the
  exceptions (`Impatient`, `Custom`) are in the formula.
- `YanksOnlyOwn`: no crate of another job is yanked, and the row of a failed run
  names what that run uploaded, unless the answer was lost.
- `CompletedStaysUp`: once a run has ended well, nothing is yanked any more.
- `CargoConverges`: with nothing yanked and the source unchanged, a workspace
  published in part is finished by running the release again.
- `LiveCoherent`, `RunDeliversBuild`, `PublicBytesKept`: a live release has all
  assets of one build; a run that ends well has delivered its own; public bytes
  change only under `--replace-existing`.
- `ResumedRunConverges`: runs that may resume or replace what they find reach
  exit zero from whatever a failed run left.
- `TagNamesManifest`, `NoOrphanTag`, `SignedAsAsked`, `CutsNextVersion`: what a
  published tag points at, its signature and its number.
- `WorkIsTagged`: work on the branch gets its tag.

Violations. Each of these runs checks one statement the repository makes about
itself and finds a behaviour of the code against it; PROJECT.json quotes the
lines.

- `burned_tag`: a clean re-run overwrites the summary row that recorded the
  burn; with no probe for that registry the guard lets the tag go.
- `rerun_blocked`: once the release is live with its assets, the identical
  command, which the documentation names as the way to recover, is refused.
- `torn_bump`: a lockstep bump stopped between writing the manifests and its
  commit makes the next run tag a commit that has the old version.

### Known divergences without a run

Further places where the models show the code short of what it says, smaller
than the three above or of the same family. The definitions are in the modules
where there is one, and any of them can be checked by naming it in a copy of the
configuration given.

- `ExitSoundAlways` (`gates`): `--fail-fast` breaks the loop on an optional
  failure, the required publishers behind it get no row, and the run exits zero
  (stage-publish/src/dispatch.rs:588).
- `WorkIsRecorded` with publisher 2 in `UntypedWhenIdle` (`pipeline`): evidence
  of an idle turn, without a typed list, replaces the carried row that named its
  work (report.rs:225). gemfury, which has no probe, returns such evidence
  (gemfury/publisher.rs:265-276), and the report's second write of the same run
  drops the row that publish_evidence.rs:873-875 says is kept.
- `WorkIsRecorded` with publisher 2 in `Moderated` (`pipeline`): homebrew, scoop,
  nix and krew, Managers, record `PendingValidation` when they pushed and found
  their pull request open (scoop/publish.rs:270-273, util/pr.rs:323-327), and
  `candidate_rows` (rollback.rs:414) takes no pending row of a Manager: the commit
  that the row names is not withdrawn.
- `WorkStaysRecordedAlways` (`unwinding`): a release withdrawn and made again with
  evidence that repeats itself finds its `report.json` on disk byte for byte and
  returns before it removes the `rollback.json` that says withdrawn
  (report.rs:404), a file of which report.rs:417-419 says: "left behind, the next
  withdrawal would read it in preference and never see this run".
- `RollbackCompletes` (`rollbacks`, with `FairTagSpec`): after a failed push the
  repeated rollback reverts a commit that is already reverted; git refuses the
  empty revert and the tags stay.
- `BurnIsReal` (`rollbacks`): a withdrawal turns a Submitter that failed without
  publishing into `rollback-failed`, which counts as burned.
- In a grouped repository the change detection reads local tags only
  (crate_select.rs:221): after a failed push a re-run in the same checkout finds
  nothing to do. `WorkIsTagged` holds because CI starts from a fresh checkout.
- The index poll after an upload asks crates.io for crates of other registries
  too (cargo/publish.rs:773).
- A yank that cargo refuses is a warning (cargo/publisher.rs:456). The row of a
  failed publish stays failed, so a later rollback tries it again; a row left by
  a rollback that failed or had no scope becomes `RolledBack`, and its crate is
  not tried again.
- `mode: replace` never looks for the release of an earlier run
  (github/backend/run.rs:199) and meets it as a refused create.

### Bounds, and why they are enough

`MaxFaults` bounds failures, outages, refusals and kills together; the number
of releases in the pipeline is not bounded. One fault already yields a partial
publish, a kill at any step or a refused gate, followed by any number of clean
runs with either build; two faults add a second failure on top of the recovery
from the first, which is what the withdrawal properties need (a failed
withdrawal, then a kill of its retry). Two items are the least that make "part
of it" differ from all and nothing; two builds the least that make bytes differ;
`unwinding` has one, since a release that repeats its bytes is what hides work
there.
The publishers of an instance differ in exactly the parameters the code branches
on: group, stage, required, probe, moderation, guard probe, retention. Symmetry
is used on items and builds only, which no definition tells apart, and never
with liveness.

`announce` has more channels than workers, so that one waits in the queue while
others hang, and a second run that reads the marker of the first; `MaxAttempts`
is the default of ten, far above the faults, so that a channel fails by the
deadline or by a refusal that is final. `cargo` has a fork in its dependencies (either
order of the first two crates), a dependency it does not publish, an equivalent
and a changed rebuild. `github` has one asset more than may be in flight, so
that an abort finds a task queued, one posting and one done; two runs are the
least for "what an earlier run left", and a request may be late into the second.
`tags` has one version more than the first two releases need; its second start
state has a withdrawn release whose tag the operator still holds.

### Fairness

`FairSpec` of the pipeline: a started process takes its next step (weak fairness
on `RunStep`; it is sequential code, each step of which returns), and an
operator whose release stopped short runs it again. Nothing is assumed about
which outcome a step has; the fault budget alone makes failures finite.
`FairTagSpec` says the same of the rollback command and of the operator who
types it again.

`Announce`: time passes (`DeadlinePasses`) and the main thread runs; no step of a
worker is fair, because a send has no timeout the stage could rely on.
`CargoPublish`: the publisher and the operator who repeats it, and every upload
shows on the index in the end. `GithubRelease`: the run's tasks go on, requests
being bounded by the client's timeout, and a failed run is repeated.
`TagCut`: a started command goes on, and CI checks out and tags again and again.
The latter two are strong, since another checkout may move the branch in
between and make them disabled for a moment; CI starts a job on every push.

## 4. Proofs

Eight modules hold theorems. Each proves one inductive invariant of its
specification, for every value of the constants that satisfies their named
assumptions, and derives the properties from it; TLC checked every invariant on
the instance of its run before it was proved. A proof of a step has one lemma per
action, and these begin with the action's effect on the variables.

**PublishPipelineProofs.**

- `TypeCorrect`: `Spec => []TypeOK`. The work is in the record operators:
  lemmas show that `carry_row`, `CarryRow`, `carry_prior_work`,
  `write_report_to_run_dir` and `write_summary_json` return rows and files.
- `DoorsClose`: `Spec => []DoorsCloseBehindFailure`. Not inductive as it stands:
  a publisher whose turn comes now must know that every failed one had its turn
  before it. The strengthening `DoorInv` adds `InDispatchOrder`, which ties
  `pc` to the set of rows present (a row of the dispatch exists only for
  publishers before every pending one, none of the snap store before its
  stage), so that the failure the gate sees is one that went before.

**ExitSoundProofs.** `ExitIsSound`: `Spec => []ExitSound`. The exit gate looks
at rows, never at an upstream, so `ExitInv(T)` adds what connects them.
`RowsTrue`: a row that claims success is complete upstream, a gated one has a
closed gate, a skipped one belongs to a publisher the run was not to serve.
`LedgerTrue`: a summary row of an earlier run that a reconcile takes for proof
is one. `Served`: at the gate, no publisher the run was to serve lacks a row.
While releases run the upstreams only grow, which keeps both true. `T` is a
set of publishers about which nothing is promised: empty here, and in
`TagRollback` those a killed or unfinished withdrawal has touched.

**TagRollbackProofs** (`HistoryTypes`, `NeverInLimbo`, `RecutIsSound`,
`BurnsAreDurable`, `BurnedTagsAreKept`). `TagInv` has `Alone` (a command runs beside no release),
`GitOrder` (before a tag is touched the branch is where the command line wants
it: `NoLimbo`), `Guarded` (what the guard found absent stays absent while the
command runs: `KeepsBurnedTag`), and for `RecutSound` the statement
`ExitInv(torn \cup Unwritten)`. A withdrawal shrinks an upstream, which
`LedgerTrue` forbids for publishers outside the excused set: the publisher
enters `Unwritten` with the step that withdraws it and leaves when
`rollback.json` is written, because from then on `withdrawn_beside` keeps the
reconcile from taking its row for proof. `Unwinding` says why the write makes
that so: a decided row in memory says "withdrawn", and a row that said so in the
file this pass started from still does. `BurnsAreDurable` follows the summary
through everything that writes it: the snapshot of each row, an empty summary that
does not replace one with rows, and a withdrawal's mark, which turns a landed row
into one that still counts as landed. `BurnedTagsAreKept` joins the two, without a
hypothesis on the probes: the guard asked the registries that must answer, and
read the burns of the last run in the summary. What it does not say is that burns
of runs before the last are kept where no probe answers; that is false, which is
what the run `burned_tag` shows.

**RecordProofs** (`ReleasesAreRecorded`, `RecordsSurvive`, `TagsOutliveReleases`:
the properties `WorkIsRecorded`, `WorkStaysRecorded`, `DeletesWithdrawn`). `Held`
follows every item of a reversible upstream: it is named by the file a
withdrawal replays, or lost to a kill, or in a row the running release still has
in memory. The lemmas under it are about the rules that move rows: folding an
earlier row into the rows at hand (`CarryNames`), writing `report.json`
(`WriteNames`) and deciding a row (`DecideNames`) lose no item that was named,
unless it was withdrawn. `PassHeld` says the same of the rows a withdrawal
decides in memory, and `PassDone` that after the pass only failed withdrawals are
left. All of them carry a set of excused items: none for `ReleasesAreRecorded`,
`masked` for the two theorems over `HistorySpec`, which need no hypothesis on the
evidence: a step that leaves a stale `rollback.json` in front of a report is the
step that puts its work into `masked`. They speak of the publishers in
`Nameable`, whose rows are typed also when their turn was idle (not in
`UntypedWhenIdle`) and final (not in `Moderated`); `ReleasesAreRecorded` assumes
that of every reversible publisher. For the others the statement is false, which
is among the known divergences of section 3.

**AnnounceProofs** (`AnnounceTypes`, `DuplicatesAreExcused`,
`NothingIsLostSilently`, `AnnounceKeepsPromise`). A channel is in one place at a
time, queued, with one worker, reported or harvested (`OnePlace`,
`ReportedOnce`); outside the window, one that is still to be posted to has no
message (`NotYet`) and one that has a message is on its way to the record
(`Traced`), also when a worker outlives its run (`LateIsExcused`). `Accounted`
gives `NoSilentLoss`; `Arrived` and `MarkerShape` (the record is the marker, the
marker is torn only between its two writes) give the refinement of `Delivery`,
action by action.

**CargoProofs** (`CargoTypes`, `RollbackYanksOnlyOwn`, `CompletedReleaseStaysUp`,
`DependenciesVisible`, `CargoSubmitsSoundly`). `OnOrder` and `Progress`: the crates before the current one
have landed with content equivalent to the build and are visible to whoever
waits for them later in the order; that a dependency comes earlier is what
`validate_publish_order` says of every plan. `Progress` at the end of the order
is the step of `Submission` that calls the submission complete; `OwnUploads`
carries the yank property, and `CompleteIsUp` its end: after a run that ended well
nothing is left to upload, so no later row that a rollback takes names a crate.
Assumed: the set of crates is finite.

**GithubProofs** (`GithubTypes`, `RunsDeliverTheirBuild`, `LiveReleasesAreWhole`,
`PublicBytesAreKept`). `DoneIsStored`: an upload task that is done has its asset
on the release as far as GitHub's answers can tell, and no late request of an
earlier run changes it. `OnTarget` (a run publishes only after all tasks),
`Overwrites` (only a run told so deletes public bytes) and `WritesUnfinished` (a
live release being written to is marked) carry the rest. Two theorems assume
`Digests`, GitHub's per-asset digest: without it the code can only compare sizes
(`DoneIsStored` says what remains), and two builds of one size are not told
apart. Assumed: the set of assets is finite.

**TagCutProofs** (`CutTypes`, `NoTagIsOrphaned`, `TagsNameManifests`,
`SignedTagsOnly`). `CutInv` has a part for the remote and the same part for each
checkout: the first version of every group is tagged (`FirstTagged`), every tag
names its commit's manifest or comes from a torn checkout (`Named`), and a tag on
the remote whose branch was not deferred is on the branch (`OnBranch`). The rest
describes a command between two steps: it never plans the first version
(`NewVersions`), the tree is clean, or bumped as planned (`Tree`), tags
made so far are at its head and signed as asked (`TagsMade`), and one created
through the API has had its branch pushed (`ApiPushed`). A push is
accepted only as a fast forward, so it keeps `OnBranch` for the tags of all other
checkouts; ancestry is a prefix, and the lemmas on prefixes, merge bases and the
newest of a set of versions come first.

Assumptions are those of the constants, named in the modules that declare them
(`PublisherAssumption` and its neighbours, `EvidenceAssumption`,
`ConfigAssumption`, `CargoAssumption`, `GithubAssumption` and so on); TLC
evaluates them in every run.

What attempts to prove found in the models, and is mended there: the kill of a
rollback lost only the withdrawal in flight, not those decided before it
(`Unwritten`); two overlapping cases of the step that makes a GitHub release live;
the bound on versions was not in the guard of `StartTag`; and `SignedAsAsked` was
said of any tag that appears while a signing run pushes, where another checkout
may push an old unsigned one.

Only model-checked:

- `CutsNextVersion`: it relates the version a run planned from an old view of the
  remote to the remote at its push, over races with withdrawals and with
  pushes of tags alone. The invariant has to say which of these can go
  unnoticed.
- `Converges`, `StageReturns`, `CargoConverges`, `ResumedRunConverges`,
  `WorkIsTagged`: liveness under fairness is out of the prover's reach.

## 5. Plan

1. Done: `PublishReport`, `RunRecords`, `PublishPipeline`, `TagRollback`, their
   instances and first theorems.
2. Done: `Announce` and `Delivery`, `CargoPublish` and `Submission`,
   `GithubRelease`, `TagCut`, with their instances.
3. Done: for each of these the type invariant, the safety invariants and the
   refinements of `Delivery` and `Submission` as theorems.
4. Next theorem: `CutsNextVersion`.
5. Next modules: `Release`, an abstract specification of the whole pipeline (an
   upstream is absent, partly or entirely released; exit zero is allowed only in
   the last case); `Retry` and `Parallel`; `Split`, `Poll` and `FsAtomic`.
