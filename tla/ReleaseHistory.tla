--------------------------- MODULE ReleaseHistory ---------------------------
(***************************************************************************)
(* What releases and rollbacks of a tag owe each other over its history.   *)
(* Two history variables follow TagRollback and constrain none of it: what *)
(* the runs really put through one-way doors, and what a report write left *)
(* behind a withdrawal's file.  The files are judged against them.         *)
(***************************************************************************)
EXTENDS TagRollback

VARIABLES
  burnt,   \* dispatched Submitters the last run with a row landed at, alive
  masked   \* [Publisher -> SUBSET Item]: work, with evidence that repeats an
           \* earlier run's, of a run whose report write found its bytes on
           \* disk and left rollback.json beside it

historyvars == <<allvars, burnt, masked>>

HistoryInit ==
  /\ TagInit
  /\ burnt = {}
  /\ masked = [p \in Publisher |-> {}]

\* This step put something through a dispatched one-way door, and the
\* process lived to push the row.
Landed ==
  {p \in Publisher : /\ Stage[p] = "dispatch" /\ Group[p] = "Submitter"
                     /\ upstream'[p] # upstream[p]
                     /\ exit' # "killed"}

\* The step decides the first row of a run: its summary will replace the
\* earlier one.
FirstRow == results = NoRows /\ results' # NoRows

\* The report write that returns before it removes rollback.json.
KeepsStaleRollback ==
  /\ FinishPublish \/ FinishRun
  /\ results # NoRows /\ rollback.exists
  /\ SameBytes(results, report, rollback)

Remember ==
  /\ burnt' = (IF FirstRow THEN {} ELSE burnt) \cup Landed
  /\ masked' = IF KeepsStaleRollback
               THEN [p \in Publisher |-> IF p \in FreshEvidence THEN masked[p]
                       ELSE masked[p] \cup (results[p].items \ Recorded(p))]
               ELSE masked

HistoryNext == TagNext /\ Remember

HistorySpec == HistoryInit /\ [][HistoryNext]_historyvars

-----------------------------------------------------------------------------
HistoryTypeOK ==
  /\ TagTypeOK
  /\ burnt \subseteq Publisher
  /\ masked \in [Publisher -> SUBSET Item]

\* The ledger does not forget a burn: what the last run with a row put
\* through a dispatched one-way door is burned in summary.json from the step
\* it landed on, through a kill of that run, runs that stop before their
\* first row, withdrawals that mark the summary and re-cuts of the tag.
\* (dispatch.rs snapshots the summary per row; write_summary_json keeps rows
\* from a run that has none; mark_withdrawn_in_summary changes landed rows
\* into landed rows.)
BurnsStayOnRecord == burnt \subseteq burned_submitter_names(summary.results)

\* A version some one-way door holds keeps its tag: without --force no
\* rollback deletes it while a registry that must answer has the version,
\* whichever run burned it, nor after the last run landed at a dispatched
\* Submitter, whether or not the guard has a probe for that one.
KeepsBurnedTag ==
  [][~(tags \subseteq tags') /\ ~cmdopts.force =>
       /\ \A p \in Probed("closed") : Live(p) = {}
       /\ burnt = {}]_historyvars

\* Reversible publishers every row of which can name their work: its evidence
\* has a typed list, and its outcome is never a pending one, which no
\* withdrawal takes up.
Nameable ==
  {p \in Publisher : Group[p] # "Submitter" /\ p \notin UntypedWhenIdle \cup Moderated}

\* What is live at a reversible upstream is named by the record the next
\* withdrawal replays, through any order of releases, withdrawals, kills and
\* re-cuts; excepted is what a killed release never recorded and, where
\* evidence repeats itself, what an unchanged report.json left behind a
\* superseded rollback.json.
WorkStaysRecorded ==
  cmd = "none" /\ pc = "idle" =>
    \A p \in Nameable : Live(p) \subseteq Recorded(p) \cup lost[p] \cup masked[p]

\* A tag is deleted only after its release was withdrawn: what a reversible
\* upstream still holds then is retained by configuration, or named by a
\* rollback.json row that says its withdrawal failed, or was in no record.
DeletesWithdrawn ==
  [][~(tags \subseteq tags') =>
       \A p \in Nameable \ Retained :
         Live(p) \subseteq lost[p] \cup masked[p] \cup UNION {rollback[w][p].items : w \in
           {v \in Side : rollback[v][p].outcome
                           \in {"RollbackFailed", "RollbackSkippedNoScope"}}}]_historyvars

=============================================================================
