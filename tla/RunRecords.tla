------------------------------ MODULE RunRecords ------------------------------
(***************************************************************************)
(* The three files of dist/run-<tag>/ and the pure rules that move rows    *)
(* between them: summary.json (the ledger), report.json (what a withdrawal *)
(* replays) and rollback.json (the state after a withdrawal pass).         *)
(***************************************************************************)
EXTENDS PublishReport

CONSTANTS
  FreshEvidence,   \* publishers whose evidence names something new on every
                   \* publish (a tap commit), as opposed to object keys
  UntypedWhenIdle  \* publishers whose evidence has no typed list at all when
                   \* the run wrote nothing (the others leave the list empty)

ASSUME EvidenceAssumption ==
  FreshEvidence \subseteq Publisher /\ UntypedWhenIdle \subseteq Publisher

Summary == [exists : BOOLEAN, results : [Publisher -> Row]]
ReportFile ==
  [exists : BOOLEAN, results : [Publisher -> Row], carried : [Publisher -> Row]]

NoSummary == [exists |-> FALSE, results |-> NoRows]
NoReport == [exists |-> FALSE, results |-> NoRows, carried |-> NoRows]

(***************************************************************************)
(* summary.json                                                            *)
(***************************************************************************)

\* Mutant: the last write wins, rows or none.
write_summary_always(old, results) == [exists |-> TRUE, results |-> results]

\* A summary without publisher rows never replaces one that has them.
write_summary_json(old, results) ==
  IF results = NoRows /\ old.exists /\ old.results # NoRows
  THEN old
  ELSE [exists |-> TRUE, results |-> results]

\* Mutant: only the summary is asked about a withdrawal.
never_withdrawn(rollback, p) == FALSE

\* rollback.json beside the summary records a withdrawal of p.
withdrawn_beside(rollback, p) ==
  /\ rollback.exists
  /\ \/ rollback.results[p].outcome \in WithdrawnOutcome
     \/ rollback.carried[p].outcome \in WithdrawnOutcome

\* Mutant: any evidence is proof, that of a failed run without digests too.
ledger_any_row(summary, rollback, p, b) ==
  /\ summary.exists
  /\ ~withdrawn_beside(rollback, p)
  /\ summary.results[p].evidence

\* The ledger proves p complete for the bytes of build b.
ledger_fast_path(summary, rollback, p, b) ==
  /\ summary.exists
  /\ ~withdrawn_beside(rollback, p)
  /\ summary.results[p].outcome \in {"Succeeded", "PendingModeration"}
  /\ summary.results[p].evidence
  /\ summary.results[p].digest = b

(***************************************************************************)
(* report.json                                                             *)
(***************************************************************************)

\* A row a withdrawal would act on.
candidate_row(p, row) ==
  IF Group[p] = "Submitter"
  THEN row.outcome \in {"Failed", "RollbackFailed", "RollbackSkippedNoScope"}
  ELSE \/ row.outcome \in {"Succeeded", "RollbackFailed", "RollbackSkippedNoScope"}
       \/ row.outcome = "Failed" /\ records_published_work(row)

\* The evidence carries the typed list of its publisher's kind.
Typed(p, row) == row.items # {} \/ p \notin UntypedWhenIdle

\* Two records combine when they are equal or of the same typed kind.
Joins(p, row, prior) ==
  \/ row.evidence = prior.evidence /\ row.items = prior.items /\ row.digest = prior.digest
  \/ Typed(p, row) /\ Typed(p, prior)

\* Mutant: the prior list is pushed as one element instead of joined.
absorb_prior_nested(row, prior) == [row EXCEPT !.items = @ \cup {prior.items}]

\* One record holding what both name; the digests stay those of `row`.
absorb_prior(row, prior) == [row EXCEPT !.items = @ \cup prior.items]

\* A row already carried absorbs the earlier one, or is replaced by it.
carry_row(p, carried, earlier) ==
  IF carried.outcome # "none" /\ Joins(p, carried, earlier)
  THEN absorb_prior(carried, earlier)
  ELSE earlier

\* This run reached the Submitter p again and decided afresh.
RanAgain(mine) == mine.outcome \in {"Succeeded", "Failed", "AlreadyPublished"}

\* Fold one earlier row of p into this run's row and the carried row.
CarryRow(p, acc, earlier) ==
  IF ~candidate_row(p, earlier) \/ ~earlier.evidence
    THEN acc
  ELSE IF Group[p] = "Submitter"
    THEN IF RanAgain(acc.mine) THEN acc
         ELSE [acc EXCEPT !.carried = carry_row(p, @, earlier)]
  ELSE IF /\ candidate_row(p, acc.mine)
          /\ records_published_work(acc.mine)
          /\ Joins(p, acc.mine, earlier)
    THEN [acc EXCEPT !.mine = absorb_prior(@, earlier)]
  ELSE [acc EXCEPT !.carried = carry_row(p, @, earlier)]

\* Mutant: each write replaces the file with this run's rows only.
carry_nothing(results, prior) ==
  [exists |-> TRUE, results |-> results, carried |-> NoRows]

\* The carried rows of the prior state are folded first, then its own rows.
carry_prior_work(results, prior) ==
  LET fold == [p \in Publisher |->
        CarryRow(p, CarryRow(p, [mine |-> results[p], carried |-> NoRow],
                             prior.carried[p]),
                 prior.results[p])]
  IN [exists |-> TRUE,
      results |-> [p \in Publisher |-> fold[p].mine],
      carried |-> [p \in Publisher |-> fold[p].carried]]

\* The persisted state a later run or withdrawal starts from.
load_prior_state(report, rollback) == IF rollback.exists THEN rollback ELSE report

write_report_to_run_dir(results, report, rollback) ==
  IF results = NoRows
  THEN report
  ELSE LET prior == load_prior_state(report, rollback)
       IN IF prior.exists
          THEN carry_prior_work(results, prior)
          ELSE [exists |-> TRUE, results |-> results, carried |-> NoRows]

\* The file on disk already holds the bytes about to be written.
SameBytes(results, report, rollback) ==
  /\ write_report_to_run_dir(results, report, rollback) = report
  /\ rollback.exists =>
       \A p \in FreshEvidence : ~records_published_work(results[p])

\* A write removes the withdrawal state it supersedes; a write that finds
\* its own bytes on disk returns before that.
RollbackAfterWrite(results, report, rollback) ==
  IF results = NoRows \/ SameBytes(results, report, rollback)
  THEN rollback
  ELSE NoReport

\* What a withdrawal started now would be asked to withdraw for p.
Withdrawable(state, p) ==
  UNION {row.items : row \in {r \in {state.results[p], state.carried[p]} :
                                candidate_row(p, r) /\ r.evidence}}

=============================================================================
