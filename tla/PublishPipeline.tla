--------------------------- MODULE PublishPipeline ---------------------------
(***************************************************************************)
(* Releasing one tag: the blob stage, the group-aware publish dispatch,    *)
(* the snap-store stage and the end-of-run bookkeeping, run any number of  *)
(* times against the same upstreams and the same dist/run-<tag>/ files.    *)
(*                                                                         *)
(* A step is one publisher's turn.  Between two turns the process can be   *)
(* killed, and a turn itself can be cut short after part of its writes     *)
(* reached the upstream.  Failures, probe outages, refused verify gates    *)
(* and kills are drawn from a budget of MaxFaults, so a run list is        *)
(* unbounded while the number of things that go wrong is finite.           *)
(***************************************************************************)
EXTENDS RunRecords

CONSTANTS
  Options,        \* command lines an operator may type
  ConfigInactive, \* publishers whose every entry evaluates skip-inactive
  SkipsOnNightly, \* publishers that opt out of --nightly
  Inapplicable,   \* publishers with nothing to publish for this version
  Probe,          \* [Publisher -> {"none", "version", "content"}]
  Moderated,      \* publishers whose submission may sit in moderation, and
                  \* taps whose push may find its pull request open already
  VerifyGate,     \* whether a pre-submitter verify-release gate is installed
  MaxFaults       \* bound: how many things go wrong in a behaviour

OptionSet == [deselected : SUBSET Publisher, simulated : SUBSET Publisher,
              gate_submitter : BOOLEAN, fail_fast : BOOLEAN,
              nightly : BOOLEAN, skip_publish : BOOLEAN]

ASSUME ConfigAssumption ==
  /\ Options \subseteq OptionSet
  /\ ConfigInactive \subseteq Publisher
  /\ SkipsOnNightly \subseteq Publisher
  /\ Inapplicable \subseteq Publisher
  /\ Moderated \subseteq Publisher
  /\ Probe \in [Publisher -> {"none", "version", "content"}]
  /\ VerifyGate \in BOOLEAN
  /\ MaxFaults \in Nat

VARIABLES
  \* the world
  upstream,  \* [Publisher -> [Item -> Build \cup {NoBuild}]]
  \* dist/run-<tag>/
  summary, report, rollback,
  \* the process
  pc, results, verify, build, opts, exit,
  \* bookkeeping of the model
  faults,    \* how many things went wrong so far
  lost       \* [Publisher -> SUBSET Item]: writes a kill kept off report.json

disk == <<summary, report, rollback>>
vars == <<upstream, summary, report, rollback, pc, results, verify, build,
          opts, exit, faults, lost>>

PC == {"idle", "blob", "dispatch", "persist", "snapcraft", "tail", "emit"}

\* The shape of the state: a type invariant for every variable.
TypeOK ==
  /\ upstream \in [Publisher -> [Item -> Build \cup {NoBuild}]]
  /\ summary \in Summary
  /\ report \in ReportFile
  /\ rollback \in ReportFile
  /\ pc \in PC
  /\ results \in [Publisher -> Row]
  /\ verify \in {"unevaluated", "clear", "blocked"}
  /\ build \in Build \cup {NoBuild}
  /\ opts \in OptionSet
  /\ exit \in {"none", "ok", "err", "killed"}
  /\ faults \in Nat
  /\ lost \in [Publisher -> SUBSET Item]

NoOptions == [deselected |-> {}, simulated |-> {}, gate_submitter |-> TRUE,
              fail_fast |-> FALSE, nightly |-> FALSE, skip_publish |-> FALSE]

Init ==
  /\ upstream = [p \in Publisher |-> [i \in Item |-> NoBuild]]
  /\ summary = NoSummary
  /\ report = NoReport
  /\ rollback = NoReport
  /\ pc = "idle"
  /\ results = NoRows
  /\ verify = "unevaluated"
  /\ build = NoBuild
  /\ opts = NoOptions
  /\ exit = "none"
  /\ faults = 0
  /\ lost = [p \in Publisher |-> {}]

-----------------------------------------------------------------------------
(***************************************************************************)
(* Upstreams.  A Submitter's slot is immutable: an item, once there, keeps *)
(* its bytes.  The other groups overwrite what differs from the local      *)
(* bytes and leave identical bytes alone.                                  *)
(***************************************************************************)
Live(p) == {i \in Item : upstream[p][i] # NoBuild}
Diverges(p) == \E i \in Live(p) : upstream[p][i] # build

Writable(p) ==
  IF Group[p] = "Submitter" THEN Item \ Live(p)
  ELSE {i \in Item : upstream[p][i] # build}

\* An immutable slot holds other bytes: some publishers fail on it, some
\* take the version for already published.
Conflicts(p) == Group[p] = "Submitter" /\ Diverges(p)

Write(p, items) ==
  upstream' = [upstream EXCEPT ![p] = [i \in Item |->
                 IF i \in items THEN build ELSE upstream[p][i]]]

\* One more thing goes wrong.
Fault == faults < MaxFaults /\ faults' = faults + 1

-----------------------------------------------------------------------------
(***************************************************************************)
(* The start of a run.  The operator types any of the command lines; a     *)
(* rebuild may or may not reproduce the earlier bytes.                     *)
(***************************************************************************)
StartRun ==
  /\ pc = "idle"
  /\ \E o \in Options, b \in Build : opts' = o /\ build' = b
  /\ pc' = "blob"
  /\ results' = NoRows
  /\ verify' = "unevaluated"
  /\ exit' = "none"
  /\ UNCHANGED <<upstream, disk, faults, lost>>

(***************************************************************************)
(* The blob stage.  Its gate check cannot fire: no stage before it records *)
(* a row.  Its row reaches disk with the next snapshot or report write.    *)
(***************************************************************************)
AfterBlob == pc' = IF opts.skip_publish THEN "snapcraft" ELSE "dispatch"

\* No blob configuration, or every job of it disabled: no row.
BlobNoWork ==
  /\ pc = "blob"
  /\ \A p \in Publisher : Stage[p] = "blob" =>
       p \notin opts.deselected /\ p \in ConfigInactive \cup Inapplicable
  /\ AfterBlob
  /\ UNCHANGED <<upstream, disk, results, verify, build, opts, exit, faults, lost>>

BlobTurn(p) ==
  pc = "blob" /\ Stage[p] = "blob"

BlobRuns(p) ==
  BlobTurn(p) /\ p \notin opts.deselected \cup ConfigInactive \cup Inapplicable

BlobDeselected(p) ==
  /\ BlobTurn(p) /\ p \in opts.deselected
  /\ results' = [results EXCEPT ![p] = SkipRow("Deselected")]
  /\ AfterBlob
  /\ UNCHANGED <<upstream, disk, verify, build, opts, exit, faults, lost>>

\* Every object uploaded, or all of them already there byte-identical.
BlobSucceeds(p) ==
  /\ BlobRuns(p)
  /\ Write(p, Writable(p))
  /\ results' = [results EXCEPT ![p] =
       IF Writable(p) = {} THEN SkipRow("AlreadyPublished")
       ELSE WorkRow("Succeeded", TRUE, Writable(p), NoBuild)]
  /\ AfterBlob
  /\ UNCHANGED <<disk, verify, build, opts, exit, faults, lost>>

\* A failed upload keeps the record of what it wrote before failing.
BlobFails(p) ==
  /\ BlobRuns(p)
  /\ Fault
  /\ \E written \in SUBSET Writable(p) :
       /\ Write(p, written)
       /\ results' = [results EXCEPT ![p] =
            WorkRow("Failed", written # {}, written, NoBuild)]
  /\ AfterBlob
  /\ UNCHANGED <<disk, verify, build, opts, exit, lost>>

-----------------------------------------------------------------------------
(***************************************************************************)
(* The dispatch loop.  The publisher whose turn it is goes down the skip   *)
(* cascade; every outcome pushes a row and rewrites summary.json.          *)
(***************************************************************************)
Pending == {p \in Publisher : Stage[p] = "dispatch" /\ results[p] = NoRow}

DispatchTurn(p) ==
  /\ pc = "dispatch"
  /\ p \in Pending
  /\ \A q \in Pending : q = p \/ Before(p, q)

\* Push the row, snapshot the summary, and leave the loop on --fail-fast.
Push(p, row) ==
  /\ results' = [results EXCEPT ![p] = row]
  /\ summary' = write_summary_json(summary, results')
  /\ pc' = IF row.outcome = "Failed" /\ opts.fail_fast THEN "persist" ELSE "dispatch"
  /\ UNCHANGED <<report, rollback, build, opts, exit, lost>>

Gated(p) ==
  OneWayDoor(p) /\ opts.gate_submitter /\ submitter_gate_closed(results)

DispatchGated(p) ==
  /\ DispatchTurn(p) /\ Gated(p)
  /\ Push(p, SkipRow("SubmitterGated"))
  /\ UNCHANGED <<upstream, verify, faults>>

DispatchDeselected(p) ==
  /\ DispatchTurn(p) /\ ~Gated(p)
  /\ p \in opts.deselected
  /\ Push(p, SkipRow("Deselected"))
  /\ UNCHANGED <<upstream, verify, faults>>

DispatchConfigSkipped(p) ==
  /\ DispatchTurn(p) /\ ~Gated(p)
  /\ p \notin opts.deselected /\ p \in ConfigInactive
  /\ Push(p, SkipRow("ConfigSkipped"))
  /\ UNCHANGED <<upstream, verify, faults>>

\* The operator's flags and the configuration leave p in this run.
Selected(p) ==
  /\ p \notin opts.deselected
  /\ p \notin ConfigInactive
  /\ ~(opts.nightly /\ p \in SkipsOnNightly)

DispatchNightly(p) ==
  /\ DispatchTurn(p) /\ ~Gated(p)
  /\ p \notin opts.deselected /\ p \notin ConfigInactive
  /\ opts.nightly /\ p \in SkipsOnNightly
  /\ Push(p, SkipRow("Nightly"))
  /\ UNCHANGED <<upstream, verify, faults>>

\* Mutant: a probe takes a partly published version for a diverged one.
reconcile_partial_diverges(p) ==
  IF ledger_fast_path(summary, rollback, p, build) THEN {"Complete"}
  ELSE IF Probe[p] = "none" THEN {"Absent"}
  ELSE {IF Live(p) = Item THEN "Complete" ELSE IF Live(p) = {} THEN "Absent" ELSE "Diverged"}

\* What the reconcile consult may answer; Unknown is an unreachable probe.
reconcile(p) ==
  IF ledger_fast_path(summary, rollback, p, build) THEN {"Complete"}
  ELSE IF Probe[p] = "none" THEN {"Absent"}
  ELSE {"Unknown",
        IF Probe[p] = "content" /\ Diverges(p) THEN "Diverged"
        ELSE IF Live(p) = Item THEN "Complete" ELSE "Absent"}

Consulted(p) ==
  DispatchTurn(p) /\ ~Gated(p) /\ Selected(p) /\ p \notin opts.simulated

DispatchComplete(p) ==
  /\ Consulted(p)
  /\ "Complete" \in reconcile(p)
  /\ Push(p, SkipRow("AlreadyPublished"))
  /\ UNCHANGED <<upstream, verify, faults>>

DispatchDiverged(p) ==
  /\ Consulted(p)
  /\ "Diverged" \in reconcile(p)
  /\ Push(p, SkipRow("Failed"))
  /\ UNCHANGED <<upstream, verify, faults>>

\* The reconcile consult lets p through, or was not made for it.
ReachesVerifyGate(p) ==
  \/ Consulted(p) /\ reconcile(p) \cap {"Absent", "Unknown"} # {}
  \/ DispatchTurn(p) /\ ~Gated(p) /\ Selected(p) /\ p \in opts.simulated

\* The lazy verify gate, evaluated once per run, lets a Submitter through.
VerifyClears(p) ==
  /\ Group[p] = "Submitter" => verify # "blocked"
  /\ verify' = IF Group[p] = "Submitter" /\ opts.gate_submitter
               THEN "clear" ELSE verify

\* It refuses, or could not be asked, or refused an earlier Submitter.
VerifyRefuses(p) ==
  /\ Group[p] = "Submitter" /\ opts.gate_submitter
  /\ \/ verify = "blocked" /\ UNCHANGED faults
     \/ verify = "unevaluated" /\ VerifyGate /\ Fault
  /\ verify' = "blocked"

DispatchVerifyBlocked(p) ==
  /\ ReachesVerifyGate(p)
  /\ VerifyRefuses(p)
  /\ Push(p, SkipRow("VerifyGateBlocked"))
  /\ UNCHANGED upstream

DispatchSimulatedFailure(p) ==
  /\ ReachesVerifyGate(p) /\ p \in opts.simulated
  /\ VerifyClears(p)
  /\ Push(p, SkipRow("Failed"))
  /\ UNCHANGED <<upstream, faults>>

\* run() is about to be invoked.
DispatchRuns(p) == ReachesVerifyGate(p) /\ p \notin opts.simulated /\ VerifyClears(p)

\* A submission queue reports pending; a run that wrote nothing may say so.
OkOutcome(p) ==
  IF p \in Inapplicable THEN {"NotApplicable"}
  ELSE {"Succeeded"}
         \cup (IF p \in Moderated THEN {"PendingModeration"} ELSE {})
         \cup (IF Writable(p) = {} THEN {"AlreadyPublished"} ELSE {})

OkItems(p) == IF p \in Inapplicable THEN {} ELSE Writable(p)

DispatchSucceeds(p) ==
  /\ DispatchRuns(p)
  /\ Write(p, OkItems(p))
  /\ \E outcome \in OkOutcome(p) : Push(p, WorkRow(outcome, TRUE, OkItems(p), build))
  /\ UNCHANGED faults

\* run() errs; the partial evidence it stashed rides on the Failed row.
DispatchFails(p) ==
  /\ DispatchRuns(p)
  /\ Fault \/ (Conflicts(p) /\ UNCHANGED faults)
  /\ \E written \in SUBSET OkItems(p) :
       /\ Write(p, written)
       /\ Push(p, WorkRow("Failed", written # {}, written, NoBuild))

(***************************************************************************)
(* The end of the publish stage: persist report.json, then fail the stage  *)
(* (and so the pipeline) when a required publisher failed or was blocked.  *)
(***************************************************************************)
PersistReport ==
  /\ report' = write_report_to_run_dir(results, report, rollback)
  /\ rollback' = RollbackAfterWrite(results, report, rollback)

FinishPublish ==
  /\ pc = "persist" \/ (pc = "dispatch" /\ Pending = {})
  /\ PersistReport
  /\ IF gate_required_failures(results)
     THEN pc' = "emit" /\ exit' = "err"
     ELSE pc' = "snapcraft" /\ UNCHANGED exit
  /\ UNCHANGED <<upstream, summary, results, verify, build, opts, faults, lost>>

-----------------------------------------------------------------------------
(***************************************************************************)
(* The snap-store stage.  Its gate fires only when the publish stage was   *)
(* skipped: otherwise a required failure ended the pipeline before it.     *)
(***************************************************************************)
SnapcraftTurn(p) == pc = "snapcraft" /\ Stage[p] = "snapcraft"

RecordSnapcraft(p, row) ==
  /\ results' = [results EXCEPT ![p] = row]
  /\ pc' = "tail"
  /\ UNCHANGED <<disk, build, opts, exit, lost>>

SnapcraftGateClosed == opts.gate_submitter /\ submitter_gate_closed(results)

\* No snapcraft configuration, or no snap was built: no row.
SnapcraftNoWork ==
  /\ pc = "snapcraft"
  /\ \A p \in Publisher : Stage[p] = "snapcraft" =>
       /\ p \notin opts.deselected /\ ~SnapcraftGateClosed
       /\ p \in Inapplicable \ ConfigInactive
  /\ pc' = "tail"
  /\ UNCHANGED <<upstream, disk, results, verify, build, opts, exit, faults, lost>>

SnapcraftDeselected(p) ==
  /\ SnapcraftTurn(p) /\ p \in opts.deselected
  /\ RecordSnapcraft(p, SkipRow("Deselected"))
  /\ UNCHANGED <<upstream, verify, faults>>

SnapcraftGated(p) ==
  /\ SnapcraftTurn(p) /\ p \notin opts.deselected /\ SnapcraftGateClosed
  /\ RecordSnapcraft(p, SkipRow("SubmitterGated"))
  /\ UNCHANGED <<upstream, verify, faults>>

SnapcraftConfigSkipped(p) ==
  /\ SnapcraftTurn(p) /\ p \notin opts.deselected /\ ~SnapcraftGateClosed
  /\ p \in ConfigInactive
  /\ RecordSnapcraft(p, SkipRow("ConfigSkipped"))
  /\ UNCHANGED <<upstream, verify, faults>>

SnapcraftReachesVerifyGate(p) ==
  /\ SnapcraftTurn(p) /\ p \notin opts.deselected /\ ~SnapcraftGateClosed
  /\ p \notin ConfigInactive \cup Inapplicable

SnapcraftVerifyBlocked(p) ==
  /\ SnapcraftReachesVerifyGate(p)
  /\ VerifyRefuses(p)
  /\ RecordSnapcraft(p, SkipRow("VerifyGateBlocked"))
  /\ UNCHANGED upstream

SnapcraftRuns(p) == SnapcraftReachesVerifyGate(p) /\ VerifyClears(p)

\* Snaps the store already has are skipped one by one.
SnapcraftSucceeds(p) ==
  /\ SnapcraftRuns(p)
  /\ Write(p, Writable(p))
  /\ RecordSnapcraft(p, IF Writable(p) = {} THEN SkipRow("AlreadyPublished")
                        ELSE WorkRow("Succeeded", TRUE, Writable(p), NoBuild))
  /\ UNCHANGED faults

SnapcraftFails(p) ==
  /\ SnapcraftRuns(p)
  /\ Writable(p) # {}
  /\ Fault
  /\ \E written \in SUBSET Writable(p) :
       /\ Write(p, written)
       /\ RecordSnapcraft(p, WorkRow("Failed", written # {}, written, NoBuild))

-----------------------------------------------------------------------------
(***************************************************************************)
(* A stage returns Err before it touches an upstream: a version guard, a   *)
(* configuration error, the announce or verify-release tail.  The pipeline *)
(* runs no later stage, but still writes its summary and report.           *)
(***************************************************************************)
StageError ==
  /\ \/ pc \in {"blob", "snapcraft", "tail"}
     \/ pc = "dispatch" /\ \A p \in Publisher : Stage[p] = "dispatch" => p \in Pending
  /\ Fault
  /\ pc' = "emit"
  /\ exit' = "err"
  /\ UNCHANGED <<upstream, disk, results, verify, build, opts, lost>>

\* Announce and verify-release return Ok; neither changes a publisher row.
FinishTail ==
  /\ pc = "tail"
  /\ pc' = "emit"
  /\ UNCHANGED <<upstream, disk, results, verify, build, opts, exit, faults, lost>>

\* emit_summary runs on every orderly end; then the outer exit gate.
FinishRun ==
  /\ pc = "emit"
  /\ summary' = write_summary_json(summary, results)
  /\ PersistReport
  /\ exit' = IF exit = "err" \/ gate_required_failures(results) THEN "err" ELSE "ok"
  /\ pc' = "idle"
  /\ UNCHANGED <<upstream, results, verify, build, opts, faults, lost>>

-----------------------------------------------------------------------------
(***************************************************************************)
(* A hard kill (SIGKILL, OOM, runner eviction): what is in memory is gone. *)
(* `lost` notes the writes no report.json will ever name.                  *)
(***************************************************************************)
Recorded(p) == Withdrawable(load_prior_state(report, rollback), p)

Die(written) ==
  /\ Fault
  /\ pc' = "idle"
  /\ exit' = "killed"
  /\ results' = NoRows
  /\ verify' = "unevaluated"
  /\ lost' = [p \in Publisher |->
                lost[p] \cup ((results[p].items \cup written[p]) \ Recorded(p))]
  /\ UNCHANGED <<report, rollback, build, opts>>

Kill ==
  /\ pc # "idle"
  /\ Die([p \in Publisher |-> {}])
  /\ UNCHANGED <<upstream, summary>>

\* Killed inside a publisher's run, after part of its writes arrived.  The
\* dispatch loop snapshots the summary once more at a Submitter's verify gate.
KillDuring(p) ==
  /\ \/ BlobRuns(p)
     \/ ReachesVerifyGate(p) /\ p \notin opts.simulated /\ OkItems(p) # {}
     \/ SnapcraftReachesVerifyGate(p)
  /\ Group[p] = "Submitter" => verify # "blocked"
  /\ \E written \in SUBSET Writable(p) \ {{}} :
       /\ Write(p, written)
       /\ Die([q \in Publisher |-> IF q = p THEN written ELSE {}])
  /\ summary' = IF pc = "dispatch" /\ Group[p] = "Submitter" /\ opts.gate_submitter
                THEN write_summary_json(summary, results) ELSE summary

-----------------------------------------------------------------------------
BlobStep(p) == BlobDeselected(p) \/ BlobSucceeds(p)

DispatchStep(p) ==
  \/ DispatchGated(p) \/ DispatchDeselected(p) \/ DispatchConfigSkipped(p)
  \/ DispatchNightly(p) \/ DispatchComplete(p) \/ DispatchDiverged(p)
  \/ DispatchVerifyBlocked(p) \/ DispatchSimulatedFailure(p)
  \/ DispatchSucceeds(p) \/ DispatchFails(p)

SnapcraftStep(p) ==
  \/ SnapcraftDeselected(p) \/ SnapcraftGated(p) \/ SnapcraftConfigSkipped(p)
  \/ SnapcraftVerifyBlocked(p) \/ SnapcraftSucceeds(p) \/ SnapcraftFails(p)

\* What the process itself does next, once started.
RunStep ==
  \/ BlobNoWork \/ FinishPublish \/ SnapcraftNoWork \/ FinishTail \/ FinishRun
  \/ \E p \in Publisher :
       BlobStep(p) \/ BlobFails(p) \/ DispatchStep(p) \/ SnapcraftStep(p)

Next ==
  \/ StartRun
  \/ RunStep
  \/ StageError
  \/ Kill
  \/ \E p \in Publisher : KillDuring(p)

Spec == Init /\ [][Next]_vars

(***************************************************************************)
(* Fairness: a started process takes its next step unless it is killed,    *)
(* and the operator re-runs the release after it stopped short.  Nothing   *)
(* is assumed about which outcome a step has: the fault budget alone makes *)
(* failures finite.                                                        *)
(***************************************************************************)
FairSpec == Spec /\ WF_vars(RunStep) /\ WF_vars(StartRun /\ exit # "ok")

-----------------------------------------------------------------------------
\* A required failure (any group, any stage) is the last thing a one-way
\* door may follow: with the gate on, every Manager or Submitter publisher
\* that this run let loose on its upstream had its turn before every
\* required publisher that failed.  dispatch.rs re-checks the gate per
\* publisher, seeds it with the blob stage's row, and the snap-store stage
\* asks the same question of the same report.
DoorsCloseBehindFailure ==
  opts.gate_submitter =>
    \A p, q \in Publisher :
      /\ Required[q] /\ results[q].outcome = "Failed"
      /\ OneWayDoor(p)
      /\ results[p].outcome \in {"Succeeded", "PendingModeration", "Failed"}
      => p = q \/ Before(p, q)

\* This command line and configuration leave p something to publish.
Expected(p) ==
  /\ p \notin opts.deselected \cup ConfigInactive \cup Inapplicable
  /\ Stage[p] = "dispatch" => /\ ~(opts.nightly /\ p \in SkipsOnNightly)
                              /\ ~opts.skip_publish

\* Exit status zero means released: after a run without --fail-fast that
\* ends ok, every required publisher the command line selected is entirely
\* at its upstream, whether this run put it there, an earlier run did and a
\* probe or the summary ledger said so, or a killed run did.
ExitSound ==
  pc = "idle" /\ exit = "ok" /\ ~opts.fail_fast =>
    \A p \in Publisher : Required[p] /\ Expected(p) => Live(p) = Item

\* The same for every run, as the exit gate's comment has it: a required
\* publisher that never published must not "exit 0 -- a silent partial
\* release" (core/src/publish_report.rs:439-445).
ExitSoundAlways ==
  pc = "idle" /\ exit = "ok" =>
    \A p \in Publisher : Required[p] /\ Expected(p) => Live(p) = Item

\* A release that took several runs is withdrawn as one: between runs, what
\* a reversible publisher has at its upstream is named by the record a
\* withdrawal replays, however the work was spread over runs; the only
\* exception is what a killed process wrote and never recorded.
WorkIsRecorded ==
  pc = "idle" =>
    \A p \in Publisher :
      Group[p] # "Submitter" => Live(p) \subseteq Recorded(p) \cup lost[p]

\* Re-running the same command converges: when only finitely many things go
\* wrong and every build reproduces the same bytes, the operator's re-runs
\* reach exit status zero again and again: nothing an earlier run left at an
\* upstream or in dist/run-<tag>/ wedges the release.
Converges == []<>(pc = "idle" /\ exit = "ok")

=============================================================================
