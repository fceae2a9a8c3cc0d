----------------------------- MODULE TagRollback -----------------------------
(***************************************************************************)
(* `anodizer tag rollback`: the published-state guard, the withdrawal of   *)
(* what the release recorded, the revert of the bump commit and the tag    *)
(* deletion, run between releases of the same tag, over the same upstreams *)
(* and the same dist/run-<tag>/ files, in the checkout that released.      *)
(*                                                                         *)
(* A step is one row's withdrawal, one file write or one git operation;    *)
(* the command can be killed between any two of them.                      *)
(***************************************************************************)
EXTENDS PublishPipeline

CONSTANTS
  Commands,     \* rollback command lines an operator may type
  GuardProbe,   \* [Publisher -> {"none", "closed", "advisory"}]: whether the
                \* guard asks p's registry, and what an outage of it means
  Retained,     \* publishers with retain_on_rollback
  Unregistered  \* publishers that left the configuration since the release

Command == [force : BOOLEAN, no_push : BOOLEAN, mode : {"revert", "reset"}]

NoCommand == [force |-> FALSE, no_push |-> FALSE, mode |-> "revert"]

ASSUME RollbackAssumption ==
  /\ Commands \subseteq Command
  /\ GuardProbe \in [Publisher -> {"none", "closed", "advisory"}]
  /\ Retained \subseteq Publisher
  /\ Unregistered \subseteq Publisher

VARIABLES
  cmd,      \* the command's next step, "none" when none is running
  cmdopts,  \* its command line
  state,    \* the rows it decides, in memory until they are persisted
  todo,     \* the rows still to withdraw
  local,    \* what the checkout's HEAD makes of the bump commit
  origin,   \* what the remote branch makes of it
  tags,     \* which of the local and the remote tag exist
  torn      \* publishers whose withdrawal a kill kept off rollback.json

tagvars == <<cmd, cmdopts, state, todo, local, origin, tags, torn>>
allvars == <<vars, tagvars>>

Side == {"results", "carried"}
Head == {"bump", "reverted", "reset"}

TagTypeOK ==
  /\ TypeOK
  /\ cmd \in {"none", "unwind", "mark", "git", "push", "delete", "delete_local"}
  /\ cmdopts \in Command
  /\ state \in ReportFile
  /\ todo \subseteq Side \X Publisher
  /\ local \in Head
  /\ origin \in {"bump", "reverted"}
  /\ tags \subseteq {"local", "remote"}
  /\ torn \subseteq Publisher

TagInit ==
  /\ Init
  /\ cmd = "none"
  /\ cmdopts = NoCommand
  /\ state = NoReport
  /\ todo = {}
  /\ local = "bump"
  /\ origin = "bump"
  /\ tags = {"local", "remote"}
  /\ torn = {}

release == <<upstream, summary, report, rollback, pc, results, verify, build,
             opts, exit, lost>>

-----------------------------------------------------------------------------
(***************************************************************************)
(* The guard, before any mutation.  A refusal changes nothing, as does the *)
(* refusal of a tag without a summary that has a published GitHub release. *)
(***************************************************************************)
Probed(kind) == {p \in Publisher : GuardProbe[p] = kind}

\* Mutant: the run's own summary is taken for the whole truth.
guard_trusts_summary ==
  burned_submitter_names(summary.results) = {} /\ UNCHANGED faults

\* The summary shows no burn, no registry that must answer has the version,
\* and none of the advisory ones has it either, unless it is unreachable.
check_not_irreversibly_published ==
  /\ burned_submitter_names(summary.results) = {}
  /\ \A p \in Probed("closed") : Live(p) = {}
  /\ \/ (\A p \in Probed("advisory") : Live(p) = {}) /\ UNCHANGED faults
     \/ Probed("advisory") # {} /\ Fault

\* Mutant: the tags go before the publishers are asked.
rollback_without_unwind ==
  /\ cmd = "none" /\ pc = "idle"
  /\ "local" \in tags
  /\ \E o \in Commands :
       /\ cmdopts' = o
       /\ IF o.force THEN UNCHANGED faults ELSE check_not_irreversibly_published
  /\ cmd' = "git"
  /\ exit' = "none"
  /\ UNCHANGED <<upstream, disk, pc, results, verify, build, opts, lost, state, todo,
                 local, origin, tags, torn>>

\* The withdrawal starts from the recorded rows; without a record it is
\* skipped with a warning.
unwind_published_state ==
  LET prior == load_prior_state(report, rollback) IN
    IF prior.exists
    THEN /\ cmd' = "unwind"
         /\ state' = prior
         /\ todo' = {t \in Side \X Publisher : candidate_row(t[2], prior[t[1]][t[2]])}
    ELSE cmd' = "git" /\ UNCHANGED <<state, todo>>

\* Tags are looked up in the checkout: without the local one there is
\* nothing to roll back.
StartRollback ==
  /\ cmd = "none" /\ pc = "idle"
  /\ "local" \in tags
  /\ \E o \in Commands :
       /\ cmdopts' = o
       /\ IF o.force THEN UNCHANGED faults ELSE check_not_irreversibly_published
  /\ unwind_published_state
  /\ exit' = "none"
  /\ UNCHANGED <<upstream, disk, pc, results, verify, build, opts, lost,
                 local, origin, tags, torn>>

-----------------------------------------------------------------------------
(***************************************************************************)
(* The withdrawal of the recorded rows: this run's own first, then the     *)
(* carried ones, each in report order.                                     *)
(***************************************************************************)
UnwindTurn(t) ==
  /\ cmd = "unwind" /\ t \in todo
  /\ \A u \in todo : \/ u = t
                     \/ t[1] = "results" /\ u[1] = "carried"
                     \/ t[1] = u[1] /\ Before(t[2], u[2])

RowOf(t) == state[t[1]][t[2]]

Decide(t, outcome) ==
  /\ state' = [state EXCEPT ![t[1]][t[2]].outcome = outcome]
  /\ todo' = todo \ {t}
  /\ UNCHANGED <<summary, report, rollback, pc, results, verify, build, opts, exit,
                 lost, cmd, cmdopts, local, origin, tags, torn>>

\* Deleting the named objects or reverting the named commits; a withdrawal
\* of a Submitter (a yank, a closed submission) leaves its slot burned.
Withdraw(p, items) ==
  upstream' = IF Group[p] = "Submitter" THEN upstream
              ELSE [upstream EXCEPT ![p] = [i \in Item |->
                      IF i \in items THEN NoBuild ELSE upstream[p][i]]]

\* The publisher cannot be asked: no evidence, or not in the registry, which
\* knows the dispatched publishers and the blob stage's.
Unresolved(t) ==
  ~RowOf(t).evidence \/ t[2] \in Unregistered \/ Stage[t[2]] = "snapcraft"

UnwindUnresolved(t) ==
  /\ UnwindTurn(t) /\ Unresolved(t)
  /\ Decide(t, "RollbackFailed")
  /\ UNCHANGED <<upstream, faults>>

\* Mutant: the disposition is stored where the outcome belongs.
retained_as_outcome(t) ==
  /\ UnwindTurn(t) /\ ~Unresolved(t) /\ t[2] \in Retained
  /\ Decide(t, "Retained")
  /\ UNCHANGED <<upstream, faults>>

UnwindRetained(t) ==
  /\ UnwindTurn(t) /\ ~Unresolved(t) /\ t[2] \in Retained
  /\ Decide(t, RowOf(t).outcome)
  /\ UNCHANGED <<upstream, faults>>

Withdraws(t) == UnwindTurn(t) /\ ~Unresolved(t) /\ t[2] \notin Retained

\* The credential the withdrawal needs is not exported.
UnwindNoScope(t) ==
  /\ Withdraws(t)
  /\ Fault
  /\ Decide(t, "RollbackSkippedNoScope")
  /\ UNCHANGED upstream

\* A failed Submitter stays failed: its version did not go out.
UnwindSucceeds(t) ==
  /\ Withdraws(t)
  /\ Withdraw(t[2], RowOf(t).items)
  /\ Decide(t, IF Group[t[2]] = "Submitter" /\ RowOf(t).outcome = "Failed"
               THEN "Failed" ELSE "RolledBack")
  /\ UNCHANGED faults

\* Mutant: a failed withdrawal counts as done.
failure_counts_as_done(t) ==
  /\ Withdraws(t)
  /\ Fault
  /\ \E done \in SUBSET RowOf(t).items : Withdraw(t[2], done)
  /\ Decide(t, "RolledBack")

UnwindFails(t) ==
  /\ Withdraws(t)
  /\ Fault
  /\ \E done \in SUBSET RowOf(t).items : Withdraw(t[2], done)
  /\ Decide(t, "RollbackFailed")

\* Every row decided: rollback.json is written, then the ledger is marked.
PersistWithdrawal ==
  /\ cmd = "unwind" /\ todo = {}
  /\ rollback' = state
  /\ cmd' = "mark"
  /\ UNCHANGED <<upstream, summary, report, pc, results, verify, build, opts, exit, faults,
                 lost, cmdopts, state, todo, local, origin, tags, torn>>

\* The status of a withdrawn row replaces the one in the summary, a carried
\* row's after this run's own.
mark_withdrawn_in_summary(s, decided) ==
  [s EXCEPT !.results = [p \in Publisher |->
     LET marks == {w \in Side : decided[w][p].outcome \in WithdrawnOutcome}
     IN IF s.results[p].outcome = "none" \/ marks = {} THEN s.results[p]
        ELSE [s.results[p] EXCEPT !.outcome =
                decided[IF "carried" \in marks THEN "carried" ELSE "results"][p].outcome]]]

MarkWithdrawn ==
  /\ cmd = "mark"
  /\ summary' = IF summary.exists THEN mark_withdrawn_in_summary(summary, state) ELSE summary
  /\ cmd' = "git"
  /\ UNCHANGED <<upstream, report, rollback, pc, results, verify, build, opts, exit, faults,
                 lost, cmdopts, state, todo, local, origin, tags, torn>>

-----------------------------------------------------------------------------
(***************************************************************************)
(* The git half: the local mutation, the push, then the tag deletion.      *)
(***************************************************************************)
\* The command returns: its memory is gone.
Return == cmd' = "none" /\ cmdopts' = NoCommand /\ state' = NoReport /\ todo' = {}

\* A commit that is already reverted reverts to nothing, which git refuses;
\* so does a dirty tree or a conflict, and a reset can fail too.  When only
\* the amended message fails, the revert commit stays.
MutationFails ==
  /\ cmd = "git"
  /\ \/ cmdopts.mode = "revert" /\ local # "bump" /\ UNCHANGED <<local, faults>>
     \/ UNCHANGED local /\ Fault
     \/ cmdopts.mode = "revert" /\ local = "bump" /\ local' = "reverted" /\ Fault
  /\ Return
  /\ UNCHANGED <<release, origin, tags, torn>>

Revert ==
  /\ cmd = "git" /\ cmdopts.mode = "revert"
  /\ local = "bump"
  /\ local' = "reverted"
  /\ cmd' = IF cmdopts.no_push THEN "delete" ELSE "push"
  /\ UNCHANGED <<release, faults, cmdopts, state, todo, origin, tags, torn>>

Reset ==
  /\ cmd = "git" /\ cmdopts.mode = "reset"
  /\ local' = "reset"
  /\ cmd' = "delete"
  /\ UNCHANGED <<release, faults, cmdopts, state, todo, origin, tags, torn>>

\* Mutant: a failed push does not stop the command.
push_failure_ignored ==
  /\ cmd = "push"
  /\ Fault
  /\ cmd' = "delete"
  /\ UNCHANGED <<release, cmdopts, state, todo, local, origin, tags, torn>>

PushFails ==
  /\ cmd = "push"
  /\ Fault
  /\ Return
  /\ UNCHANGED <<release, local, origin, tags, torn>>

PushBranch ==
  /\ cmd = "push"
  /\ origin' = "reverted"
  /\ cmd' = "delete"
  /\ UNCHANGED <<release, faults, cmdopts, state, todo, local, tags, torn>>

\* The GitHub release at the tag cannot be removed: the tag is kept.  Only a
\* release some summary (or --force) attributes to the attempt is removed.
ReleaseRetained ==
  /\ cmd = "delete" /\ ~cmdopts.no_push
  /\ cmdopts.force \/ summary.exists
  /\ Fault
  /\ Return
  /\ UNCHANGED <<release, local, origin, tags, torn>>

\* The remote leg; a failed delete is a warning.
DeleteRemoteTag ==
  /\ cmd = "delete"
  /\ \/ ~cmdopts.no_push /\ tags' = tags \ {"remote"} /\ UNCHANGED faults
     \/ ~cmdopts.no_push /\ UNCHANGED tags /\ Fault
     \/ cmdopts.no_push /\ UNCHANGED <<tags, faults>>
  /\ cmd' = "delete_local"
  /\ UNCHANGED <<release, cmdopts, state, todo, local, origin, torn>>

DeleteLocalTag ==
  /\ cmd = "delete_local"
  /\ \/ tags' = tags \ {"local"} /\ UNCHANGED faults
     \/ UNCHANGED tags /\ Fault
  /\ Return
  /\ UNCHANGED <<release, local, origin, torn>>

-----------------------------------------------------------------------------
\* What this pass has withdrawn, or tried to, and not yet written down: a
\* publisher with a decided row, but for those a pass leaves alone.
Unwritten ==
  {p \in Publisher :
     /\ cmd = "unwind" /\ Group[p] # "Submitter" /\ p \notin Retained
     /\ \E w \in Side : /\ <<w, p>> \notin todo
                        /\ candidate_row(p, load_prior_state(report, rollback)[w][p])}

\* Killed: a withdrawal in flight may have been carried out in part, and
\* what was withdrawn since the last write is in no file.
KillRollback ==
  /\ cmd # "none"
  /\ Fault
  /\ \/ UNCHANGED upstream
     \/ \E t \in todo : Withdraws(t) /\ \E done \in SUBSET RowOf(t).items : Withdraw(t[2], done)
  /\ torn' = torn \cup Unwritten \cup {p \in Publisher : upstream'[p] # upstream[p]}
  /\ Return
  /\ UNCHANGED <<summary, report, rollback, pc, results, verify, build, opts, exit, lost,
                 local, origin, tags>>

\* The operator cuts the same version again after a rollback, pushing the
\* tag anew over whatever the rollback left of it.
ReCut ==
  /\ cmd = "none" /\ pc = "idle"
  /\ "local" \notin tags
  /\ tags' = {"local", "remote"}
  /\ local' = "bump" /\ origin' = "bump"
  /\ UNCHANGED <<release, faults, cmd, cmdopts, state, todo, torn>>

\* A release of the tag, as PublishPipeline has it.
Release ==
  /\ cmd = "none"
  /\ (StartRun /\ "local" \in tags) \/ RunStep \/ StageError \/ Kill
       \/ \E p \in Publisher : KillDuring(p)
  /\ UNCHANGED tagvars

UnwindStep(t) ==
  \/ UnwindUnresolved(t) \/ UnwindRetained(t) \/ UnwindNoScope(t)
  \/ UnwindSucceeds(t) \/ UnwindFails(t)

\* What the command itself does next, once started.
RollbackStep ==
  \/ \E t \in Side \X Publisher : UnwindStep(t)
  \/ PersistWithdrawal \/ MarkWithdrawn
  \/ MutationFails \/ Revert \/ Reset \/ PushFails \/ PushBranch
  \/ ReleaseRetained \/ DeleteRemoteTag \/ DeleteLocalTag

TagNext == Release \/ StartRollback \/ RollbackStep \/ KillRollback \/ ReCut

TagSpec == TagInit /\ [][TagNext]_allvars

(***************************************************************************)
(* Fairness: a started command or release goes on unless it is killed, and *)
(* an operator whose rollback stopped short types it again.                *)
(***************************************************************************)
FairTagSpec ==
  /\ TagSpec
  /\ WF_allvars(RollbackStep)
  /\ WF_allvars(Release /\ pc # "idle")
  /\ WF_allvars(StartRollback)

-----------------------------------------------------------------------------
\* Re-running the release and then withdrawing it "still removes everything"
\* (docs/site/content/docs/advanced/release-resilience.md): what is live at a
\* reversible upstream is named by the record the next withdrawal replays,
\* through any order of releases, withdrawals, kills and re-cuts; excepted is
\* what a killed release wrote and never recorded.
WorkStaysRecordedAlways == cmd = "none" => WorkIsRecorded

\* Never "a tag-deleted-but-commit-unpushed limbo": when a revert rollback
\* has removed the remote tag, the revert is on the remote branch.
NoLimbo == "remote" \notin tags => origin = "reverted" \/ local = "reset"

\* "Refuse rollback when the version is already burned at a one-way-door
\* (Submitter group) publisher" (cli/src/commands/tag/rollback/guard.rs):
\* without --force no rollback deletes the tag of a version such a door holds,
\* whichever run burned it and however that run ended.  The advisory
\* registries are excepted: the guard lets an outage of those pass.
KeepsBurnedTagAlways ==
  [][~(tags \subseteq tags') /\ ~cmdopts.force =>
       \A p \in Publisher :
         Group[p] = "Submitter" /\ GuardProbe[p] # "advisory" => Live(p) = {}]_allvars

\* Exit status zero still means released after withdrawals and re-cuts: the
\* ledger never passes a withdrawn publisher for complete, unless the
\* withdrawal was killed before it could be written down.
RecutSound ==
  pc = "idle" /\ exit = "ok" /\ ~opts.fail_fast =>
    \A p \in Publisher : Required[p] /\ Expected(p) => Live(p) = Item \/ p \in torn

\* The summary calls a version burned only when a one-way door holds it:
\* "`failed` published nothing unless its evidence records work"
\* (stage-publish/src/run_summary.rs).
BurnIsReal ==
  \A p \in burned_submitter_names(summary.results) : Live(p) # {}

\* A rollback that stopped after its revert is "safely retryable"
\* (cli/src/commands/tag/rollback/run.rs): typing it again deletes the tag,
\* unless the operator releases again instead.
RollbackCompletes ==
  (local = "reverted" /\ "local" \in tags) ~> ("local" \notin tags \/ pc # "idle")

=============================================================================
