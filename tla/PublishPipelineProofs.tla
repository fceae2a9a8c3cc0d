------------------------ MODULE PublishPipelineProofs ------------------------
(***************************************************************************)
(* Theorems about PublishPipeline for every number of publishers, every    *)
(* configuration, every set of command lines and any number of faults.     *)
(***************************************************************************)
EXTENDS PublishPipeline, TLAPS

(***************************************************************************)
(* Types of the building blocks.                                           *)
(***************************************************************************)

\* The rows the code pushes are rows: no row, a skip, a record of work.
LEMMA RowTypes ==
  /\ NoRow \in Row
  /\ NoRows \in [Publisher -> Row]
  /\ \A o \in Outcome : SkipRow(o) \in Row
  /\ \A o \in Outcome, e \in BOOLEAN, i \in SUBSET Item, d \in Build \cup {NoBuild} :
       WorkRow(o, e, i, d) \in Row
  BY DEF NoRow, NoRows, SkipRow, WorkRow, Row, Outcome

\* Joining two records of the same publisher gives a record.
LEMMA CarryTypes ==
  ASSUME NEW p \in Publisher, NEW acc \in [mine : Row, carried : Row], NEW earlier \in Row
  PROVE  CarryRow(p, acc, earlier) \in [mine : Row, carried : Row]
<1>1. \A r, s \in Row : absorb_prior(r, s) \in Row
  BY DEF absorb_prior, Row
<1>2. \A r, s \in Row : carry_row(p, r, s) \in Row
  BY <1>1 DEF carry_row
<1>3. carry_row(p, acc.carried, earlier) \in Row /\ absorb_prior(acc.mine, earlier) \in Row
  BY <1>1, <1>2
<1> QED BY <1>3 DEF CarryRow

\* What write_summary_json leaves on disk is a summary.
LEMMA SummaryTypes ==
  ASSUME NEW old \in Summary, NEW rs \in [Publisher -> Row]
  PROVE  write_summary_json(old, rs) \in Summary
  BY DEF write_summary_json, Summary

\* What write_report_to_run_dir leaves on disk is a report and a withdrawal state.
LEMMA ReportTypes ==
  ASSUME NEW rs \in [Publisher -> Row], NEW rep \in ReportFile, NEW rb \in ReportFile
  PROVE  /\ write_report_to_run_dir(rs, rep, rb) \in ReportFile
         /\ RollbackAfterWrite(rs, rep, rb) \in ReportFile
<1> DEFINE prior == load_prior_state(rep, rb)
<1>1. prior \in ReportFile
  BY DEF load_prior_state
<1>2. prior.results \in [Publisher -> Row] /\ prior.carried \in [Publisher -> Row]
  BY <1>1 DEF ReportFile
<1> DEFINE fold == [p \in Publisher |->
             CarryRow(p, CarryRow(p, [mine |-> rs[p], carried |-> NoRow],
                                  prior.carried[p]),
                      prior.results[p])]
<1>3. ASSUME NEW p \in Publisher PROVE fold[p] \in [mine : Row, carried : Row]
  <2>1. [mine |-> rs[p], carried |-> NoRow] \in [mine : Row, carried : Row]
    BY RowTypes
  <2>2. prior.carried[p] \in Row /\ prior.results[p] \in Row
    BY <1>2
  <2> QED BY <2>1, <2>2, CarryTypes
<1>4. carry_prior_work(rs, prior) \in ReportFile
  <2>1. /\ [p \in Publisher |-> fold[p].mine] \in [Publisher -> Row]
        /\ [p \in Publisher |-> fold[p].carried] \in [Publisher -> Row]
    BY <1>3
  <2> QED BY <2>1 DEF carry_prior_work, ReportFile
<1>5. write_report_to_run_dir(rs, rep, rb) \in ReportFile
  BY <1>4, RowTypes DEF write_report_to_run_dir, ReportFile
<1>6. RollbackAfterWrite(rs, rep, rb) \in ReportFile
  BY RowTypes DEF RollbackAfterWrite, NoReport, ReportFile
<1> QED BY <1>5, <1>6

-----------------------------------------------------------------------------
(***************************************************************************)
(* Type correctness.                                                       *)
(***************************************************************************)

\* A write to an upstream stores builds.
LEMMA WriteTypes ==
  ASSUME TypeOK, NEW p \in Publisher, NEW items, Write(p, items)
  PROVE  upstream' \in [Publisher -> [Item -> Build \cup {NoBuild}]]
<1>1. build \in Build \cup {NoBuild} /\ upstream[p] \in [Item -> Build \cup {NoBuild}]
  BY DEF TypeOK
<1>2. [i \in Item |-> IF i \in items THEN build ELSE upstream[p][i]]
        \in [Item -> Build \cup {NoBuild}]
  BY <1>1
<1> QED BY <1>2 DEF Write, TypeOK

\* Pushing a row keeps the types of everything Push decides.
LEMMA PushTypes ==
  ASSUME TypeOK, NEW p \in Publisher, NEW row \in Row, Push(p, row)
  PROVE  /\ results' \in [Publisher -> Row]
         /\ summary' \in Summary
         /\ pc' \in PC
         /\ UNCHANGED <<report, rollback, build, opts, exit, lost>>
<1>1. results' \in [Publisher -> Row]
  BY DEF Push, TypeOK
<1>2. summary' \in Summary
  BY <1>1, SummaryTypes DEF Push, TypeOK
<1> QED BY <1>1, <1>2 DEF Push, PC

\* So does the snap-store stage's record.
LEMMA RecordTypes ==
  ASSUME TypeOK, NEW p \in Publisher, NEW row \in Row, RecordSnapcraft(p, row)
  PROVE  /\ results' \in [Publisher -> Row]
         /\ pc' \in PC
         /\ UNCHANGED <<summary, report, rollback, build, opts, exit, lost>>
  BY DEF RecordSnapcraft, TypeOK, PC, disk

\* The verify gate has one of its three verdicts afterwards.
LEMMA VerifyTypes ==
  ASSUME TypeOK, NEW p \in Publisher
  PROVE  /\ VerifyClears(p) => verify' \in {"unevaluated", "clear", "blocked"}
         /\ VerifyRefuses(p) => /\ verify' \in {"unevaluated", "clear", "blocked"}
                                /\ faults' \in Nat
  BY DEF VerifyClears, VerifyRefuses, TypeOK, Fault

\* The files are files after PersistReport.
LEMMA PersistTypes ==
  ASSUME TypeOK, PersistReport
  PROVE  report' \in ReportFile /\ rollback' \in ReportFile
  BY ReportTypes DEF PersistReport, TypeOK

\* Every action keeps the state well typed.
LEMMA TypeStep ==
  ASSUME TypeOK, [Next]_vars
  PROVE  TypeOK'
<1> USE DEF disk
<1>1. CASE StartRun
  <2>1. opts' \in OptionSet /\ build' \in Build
    BY <1>1, ConfigAssumption DEF StartRun
  <2> QED BY <1>1, <2>1, RowTypes DEF StartRun, TypeOK, PC
<1>2. CASE BlobNoWork
  BY <1>2 DEF BlobNoWork, AfterBlob, TypeOK, PC
<1>3. CASE FinishPublish
  BY <1>3, PersistTypes DEF FinishPublish, TypeOK, PC
<1>4. CASE SnapcraftNoWork
  BY <1>4 DEF SnapcraftNoWork, TypeOK, PC
<1>5. CASE FinishTail
  BY <1>5 DEF FinishTail, TypeOK, PC
<1>6. CASE FinishRun
  <2>1. summary' \in Summary
    BY <1>6, SummaryTypes DEF FinishRun, TypeOK
  <2> QED BY <1>6, <2>1, PersistTypes DEF FinishRun, TypeOK, PC
<1>7. CASE StageError
  BY <1>7 DEF StageError, Fault, TypeOK, PC
<1>8. ASSUME NEW p \in Publisher, BlobDeselected(p) PROVE TypeOK'
  BY <1>8, RowTypes DEF BlobDeselected, AfterBlob, TypeOK, PC, Outcome, SkipReason
<1>9. ASSUME NEW p \in Publisher, BlobSucceeds(p) PROVE TypeOK'
  <2>1. Writable(p) \in SUBSET Item
    BY DEF Writable
  <2>2. SkipRow("AlreadyPublished") \in Row
        /\ WorkRow("Succeeded", TRUE, Writable(p), NoBuild) \in Row
    BY <2>1, RowTypes DEF Outcome, SkipReason
  <2>3. upstream' \in [Publisher -> [Item -> Build \cup {NoBuild}]]
    BY <1>9, WriteTypes DEF BlobSucceeds
  <2> QED BY <1>9, <2>2, <2>3 DEF BlobSucceeds, AfterBlob, TypeOK, PC
<1>10. ASSUME NEW p \in Publisher, BlobFails(p) PROVE TypeOK'
  <2>1. PICK written \in SUBSET Writable(p) :
          /\ Write(p, written)
          /\ results' = [results EXCEPT ![p] =
               WorkRow("Failed", written # {}, written, NoBuild)]
    BY <1>10 DEF BlobFails
  <2>2. written \in SUBSET Item
    BY <2>1 DEF Writable
  <2>3. WorkRow("Failed", written # {}, written, NoBuild) \in Row
    BY <2>2, RowTypes DEF Outcome
  <2>4. upstream' \in [Publisher -> [Item -> Build \cup {NoBuild}]]
    BY <2>1, WriteTypes
  <2>5. results' \in [Publisher -> Row]
    BY <2>1, <2>3 DEF TypeOK
  <2>6. /\ faults' \in Nat
        /\ pc' \in PC
        /\ UNCHANGED <<summary, report, rollback, verify, build, opts, exit, lost>>
    BY <1>10 DEF BlobFails, AfterBlob, Fault, TypeOK, PC
  <2> QED BY <2>4, <2>5, <2>6 DEF TypeOK
<1>11. ASSUME NEW p \in Publisher,
              \/ DispatchGated(p) \/ DispatchDeselected(p) \/ DispatchConfigSkipped(p)
              \/ DispatchNightly(p) \/ DispatchComplete(p) \/ DispatchDiverged(p)
       PROVE  TypeOK'
  <2>1. PICK o \in Outcome : Push(p, SkipRow(o)) /\ UNCHANGED <<upstream, verify, faults>>
    BY <1>11 DEF DispatchGated, DispatchDeselected, DispatchConfigSkipped,
                 DispatchNightly, DispatchComplete, DispatchDiverged, Outcome, SkipReason
  <2>2. SkipRow(o) \in Row
    BY RowTypes
  <2> QED BY <2>1, <2>2, PushTypes DEF TypeOK
<1>12. ASSUME NEW p \in Publisher, DispatchVerifyBlocked(p) PROVE TypeOK'
  <2>1. SkipRow("VerifyGateBlocked") \in Row
    BY RowTypes DEF Outcome, SkipReason
  <2> QED BY <1>12, <2>1, PushTypes, VerifyTypes DEF DispatchVerifyBlocked, TypeOK
<1>13. ASSUME NEW p \in Publisher, DispatchSimulatedFailure(p) PROVE TypeOK'
  <2>1. SkipRow("Failed") \in Row
    BY RowTypes DEF Outcome
  <2> QED BY <1>13, <2>1, PushTypes, VerifyTypes DEF DispatchSimulatedFailure, TypeOK
<1>14. ASSUME NEW p \in Publisher, DispatchSucceeds(p) PROVE TypeOK'
  <2>1. PICK o \in OkOutcome(p) : Push(p, WorkRow(o, TRUE, OkItems(p), build))
    BY <1>14 DEF DispatchSucceeds
  <2>2. OkItems(p) \in SUBSET Item /\ o \in Outcome
    BY <2>1 DEF OkItems, Writable, OkOutcome, Outcome, SkipReason
  <2>3. WorkRow(o, TRUE, OkItems(p), build) \in Row
    BY <2>2, RowTypes DEF TypeOK
  <2>4. upstream' \in [Publisher -> [Item -> Build \cup {NoBuild}]]
    BY <1>14, WriteTypes DEF DispatchSucceeds
  <2> QED BY <1>14, <2>1, <2>3, <2>4, PushTypes, VerifyTypes
          DEF DispatchSucceeds, DispatchRuns, TypeOK
<1>15. ASSUME NEW p \in Publisher, DispatchFails(p) PROVE TypeOK'
  <2>1. PICK written \in SUBSET OkItems(p) :
          /\ Write(p, written)
          /\ Push(p, WorkRow("Failed", written # {}, written, NoBuild))
    BY <1>15 DEF DispatchFails
  <2>2. written \in SUBSET Item
    BY <2>1 DEF OkItems, Writable
  <2>3. WorkRow("Failed", written # {}, written, NoBuild) \in Row
    BY <2>2, RowTypes DEF Outcome
  <2>4. upstream' \in [Publisher -> [Item -> Build \cup {NoBuild}]]
    BY <2>1, WriteTypes
  <2>5. faults' \in Nat
    BY <1>15 DEF DispatchFails, Fault, TypeOK
  <2> QED BY <1>15, <2>1, <2>3, <2>4, <2>5, PushTypes, VerifyTypes
          DEF DispatchFails, DispatchRuns, TypeOK
<1>16. ASSUME NEW p \in Publisher,
              SnapcraftDeselected(p) \/ SnapcraftGated(p) \/ SnapcraftConfigSkipped(p)
       PROVE  TypeOK'
  <2>1. PICK o \in Outcome :
          RecordSnapcraft(p, SkipRow(o)) /\ UNCHANGED <<upstream, verify, faults>>
    BY <1>16 DEF SnapcraftDeselected, SnapcraftGated, SnapcraftConfigSkipped,
                 Outcome, SkipReason
  <2>2. SkipRow(o) \in Row
    BY RowTypes
  <2> QED BY <2>1, <2>2, RecordTypes DEF TypeOK
<1>17. ASSUME NEW p \in Publisher, SnapcraftVerifyBlocked(p) PROVE TypeOK'
  <2>1. SkipRow("VerifyGateBlocked") \in Row
    BY RowTypes DEF Outcome, SkipReason
  <2> QED BY <1>17, <2>1, RecordTypes, VerifyTypes DEF SnapcraftVerifyBlocked, TypeOK
<1>18. ASSUME NEW p \in Publisher, SnapcraftSucceeds(p) PROVE TypeOK'
  <2>1. Writable(p) \in SUBSET Item
    BY DEF Writable
  <2>2. SkipRow("AlreadyPublished") \in Row
        /\ WorkRow("Succeeded", TRUE, Writable(p), NoBuild) \in Row
    BY <2>1, RowTypes DEF Outcome, SkipReason
  <2>3. PICK row \in Row : RecordSnapcraft(p, row)
    BY <1>18, <2>2 DEF SnapcraftSucceeds
  <2>4. upstream' \in [Publisher -> [Item -> Build \cup {NoBuild}]]
    BY <1>18, WriteTypes DEF SnapcraftSucceeds
  <2> QED BY <1>18, <2>3, <2>4, RecordTypes, VerifyTypes
          DEF SnapcraftSucceeds, SnapcraftRuns, TypeOK
<1>19. ASSUME NEW p \in Publisher, SnapcraftFails(p) PROVE TypeOK'
  <2>1. PICK written \in SUBSET Writable(p) :
          /\ Write(p, written)
          /\ RecordSnapcraft(p, WorkRow("Failed", written # {}, written, NoBuild))
    BY <1>19 DEF SnapcraftFails
  <2>2. written \in SUBSET Item
    BY <2>1 DEF Writable
  <2>3. WorkRow("Failed", written # {}, written, NoBuild) \in Row
    BY <2>2, RowTypes DEF Outcome
  <2>4. upstream' \in [Publisher -> [Item -> Build \cup {NoBuild}]]
    BY <2>1, WriteTypes
  <2>5. faults' \in Nat
    BY <1>19 DEF SnapcraftFails, Fault, TypeOK
  <2> QED BY <1>19, <2>1, <2>3, <2>4, <2>5, RecordTypes, VerifyTypes
          DEF SnapcraftFails, SnapcraftRuns, TypeOK
<1>20. ASSUME NEW written \in [Publisher -> SUBSET Item], Die(written),
              upstream' \in [Publisher -> [Item -> Build \cup {NoBuild}]],
              summary' \in Summary
       PROVE  TypeOK'
  <2>1. lost' \in [Publisher -> SUBSET Item]
    BY <1>20 DEF Die, TypeOK, Row
  <2> QED BY <1>20, <2>1, RowTypes DEF Die, Fault, TypeOK, PC
<1>21. CASE Kill
  BY <1>20, <1>21 DEF Kill, TypeOK
<1>22. ASSUME NEW p \in Publisher, KillDuring(p) PROVE TypeOK'
  <2>1. PICK written \in SUBSET Writable(p) \ {{}} :
          /\ Write(p, written)
          /\ Die([q \in Publisher |-> IF q = p THEN written ELSE {}])
    BY <1>22 DEF KillDuring
  <2>2. [q \in Publisher |-> IF q = p THEN written ELSE {}] \in [Publisher -> SUBSET Item]
    BY <2>1 DEF Writable
  <2>3. upstream' \in [Publisher -> [Item -> Build \cup {NoBuild}]]
    BY <2>1, WriteTypes
  <2>4. summary' \in Summary
    BY <1>22, SummaryTypes DEF KillDuring, TypeOK
  <2> QED BY <1>20, <2>1, <2>2, <2>3, <2>4
<1>23. CASE UNCHANGED vars
  BY <1>23 DEF vars, TypeOK
<1> QED
  BY <1>1, <1>2, <1>3, <1>4, <1>5, <1>6, <1>7, <1>8, <1>9, <1>10, <1>11, <1>12, <1>13,
     <1>14, <1>15, <1>16, <1>17, <1>18, <1>19, <1>21, <1>22, <1>23
  DEF Next, RunStep, BlobStep, DispatchStep, SnapcraftStep

\* The program starts in a well-typed state.
LEMMA InitTypes == Init => TypeOK
  BY RowTypes
  DEF Init, TypeOK, PC, NoSummary, NoReport, Summary, ReportFile, OptionSet, NoOptions

\* Every variable keeps its type: rows stay rows through the joins of
\* carry_prior_work, files stay files through every write and kill.
THEOREM TypeCorrect == Spec => []TypeOK
<1>1. Init => TypeOK
  BY InitTypes
<1>2. TypeOK /\ [Next]_vars => TypeOK'
  BY TypeStep
<1> QED BY <1>1, <1>2, PTL DEF Spec

-----------------------------------------------------------------------------
(***************************************************************************)
(* The one-way-door gate.  DoorsCloseBehindFailure is not inductive: that  *)
(* a new required failure has only earlier doors behind it follows from    *)
(* the rows arriving in dispatch order.                                    *)
(***************************************************************************)

\* Rows arrive in dispatch order: none before the blob stage, none of the
\* snap store before its stage, and within the loop every row is that of a
\* publisher whose turn comes before every publisher still pending.
InDispatchOrder ==
  /\ pc = "blob" => results = NoRows
  /\ pc \in {"dispatch", "persist", "snapcraft"} =>
       \A p \in Publisher : Stage[p] = "snapcraft" => results[p] = NoRow
  /\ pc = "dispatch" =>
       \A p, q \in Publisher :
         /\ Stage[p] = "dispatch" /\ results[p] # NoRow
         /\ Stage[q] = "dispatch" /\ results[q] = NoRow
         => Before(p, q)

DoorInv == TypeOK /\ InDispatchOrder /\ DoorsCloseBehindFailure

Ran == {"Succeeded", "PendingModeration", "Failed"}

\* An open gate means that no required publisher has failed in this run.
LEMMA OpenGate ==
  ASSUME NEW rs, ~submitter_gate_closed(rs), NEW q \in Publisher, Required[q]
  PROVE  rs[q].outcome # "Failed"
  BY PublisherAssumption DEF submitter_gate_closed, any_failed, Groups

\* A row whose publisher comes after every row already there, and that is
\* no door run through a closed gate, keeps the doors property.
LEMMA DoorPush ==
  ASSUME TypeOK, DoorsCloseBehindFailure,
         NEW p \in Publisher, NEW row,
         results' = [results EXCEPT ![p] = row], UNCHANGED opts,
         \A r \in Publisher : results[r] # NoRow /\ r # p => Before(r, p),
         OneWayDoor(p) /\ opts.gate_submitter /\ row.outcome \in Ran =>
           ~submitter_gate_closed(results)
  PROVE  DoorsCloseBehindFailure'
<1> SUFFICES ASSUME opts.gate_submitter, NEW x \in Publisher, NEW y \in Publisher,
                    Required[y], results'[y].outcome = "Failed",
                    OneWayDoor(x), results'[x].outcome \in Ran
             PROVE  x = y \/ Before(x, y)
  BY DEF DoorsCloseBehindFailure, Ran
<1>1. CASE x = p /\ y = p
  BY <1>1
<1>2. CASE x # p /\ y # p
  <2>1. results[x] = results'[x] /\ results[y] = results'[y]
    BY <1>2 DEF TypeOK
  <2> QED BY <2>1 DEF DoorsCloseBehindFailure, Ran
<1>3. CASE x = p /\ y # p
  <2>1. results'[x] = row /\ results[y].outcome = "Failed"
    BY <1>3 DEF TypeOK
  <2>2. ~submitter_gate_closed(results)
    BY <1>3, <2>1
  <2> QED BY <2>1, <2>2, OpenGate
<1>4. CASE x # p /\ y = p
  <2>1. results[x].outcome \in Ran
    BY <1>4 DEF TypeOK
  <2>2. results[x] # NoRow
    BY <2>1 DEF Ran, NoRow
  <2> QED BY <1>4, <2>2
<1> QED BY <1>1, <1>2, <1>3, <1>4

\* In the loop, the publisher whose turn it is comes after every row.
LEMMA TurnIsLast ==
  ASSUME TypeOK, InDispatchOrder, NEW p \in Publisher, DispatchTurn(p),
         NEW r \in Publisher, results[r] # NoRow
  PROVE  Before(r, p)
<1>1. Stage[p] = "dispatch" /\ results[p] = NoRow /\ pc = "dispatch"
  BY DEF DispatchTurn, Pending
<1>2. Stage[r] \in {"blob", "dispatch"}
  BY <1>1, PublisherAssumption DEF InDispatchOrder, Stages
<1>3. CASE Stage[r] = "blob"
  BY <1>1, <1>3 DEF Before, StageRank
<1>4. CASE Stage[r] = "dispatch"
  BY <1>1, <1>4 DEF InDispatchOrder
<1> QED BY <1>2, <1>3, <1>4

\* A turn of the loop keeps both parts of the invariant.
LEMMA DispatchDoor ==
  ASSUME TypeOK, InDispatchOrder, DoorsCloseBehindFailure,
         NEW p \in Publisher, DispatchTurn(p), NEW row, Push(p, row),
         row.outcome # "none",
         row.outcome \in Ran => ~Gated(p)
  PROVE  InDispatchOrder' /\ DoorsCloseBehindFailure'
<1>1. /\ pc = "dispatch" /\ Stage[p] = "dispatch" /\ results[p] = NoRow
      /\ results' = [results EXCEPT ![p] = row] /\ UNCHANGED opts
      /\ pc' \in {"dispatch", "persist"}
  BY DEF DispatchTurn, Pending, Push
<1>2. row # NoRow
  BY DEF NoRow
<1>3. DoorsCloseBehindFailure'
  BY <1>1, TurnIsLast, DoorPush DEF Gated
<1>4. \A q \in Publisher : Stage[q] = "snapcraft" => results'[q] = NoRow
  BY <1>1 DEF InDispatchOrder, TypeOK
<1>5. ASSUME NEW x \in Publisher, NEW y \in Publisher,
             Stage[x] = "dispatch", results'[x] # NoRow,
             Stage[y] = "dispatch", results'[y] = NoRow
      PROVE  Before(x, y)
  <2>1. y # p /\ results[y] = NoRow
    BY <1>1, <1>2, <1>5 DEF TypeOK
  <2>2. CASE x = p
    BY <1>5, <2>1, <2>2 DEF DispatchTurn, Pending
  <2>3. CASE x # p
    BY <1>1, <1>5, <2>1, <2>3 DEF TypeOK, InDispatchOrder
  <2> QED BY <2>2, <2>3
<1>6. InDispatchOrder'
  BY <1>1, <1>4, <1>5 DEF InDispatchOrder
<1> QED BY <1>3, <1>6

\* So does a row of the snap-store stage.
LEMMA SnapcraftDoor ==
  ASSUME TypeOK, InDispatchOrder, DoorsCloseBehindFailure,
         NEW p \in Publisher, SnapcraftTurn(p), NEW row, RecordSnapcraft(p, row),
         row.outcome \in Ran => ~SnapcraftGateClosed
  PROVE  InDispatchOrder' /\ DoorsCloseBehindFailure'
<1>1. /\ pc = "snapcraft" /\ Stage[p] = "snapcraft" /\ pc' = "tail"
      /\ results' = [results EXCEPT ![p] = row] /\ UNCHANGED opts
  BY DEF SnapcraftTurn, RecordSnapcraft
<1>2. ASSUME NEW r \in Publisher, r # p PROVE Before(r, p)
  <2>1. Stage[r] \in {"blob", "dispatch"}
    BY <1>1, <1>2, PublisherAssumption, StageAssumption DEF Stages
  <2> QED BY <1>1, <2>1 DEF Before, StageRank
<1>3. DoorsCloseBehindFailure'
  BY <1>1, <1>2, DoorPush DEF SnapcraftGateClosed
<1>4. InDispatchOrder'
  BY <1>1 DEF InDispatchOrder
<1> QED BY <1>3, <1>4

\* A row of the blob stage is the first of its run, and blob is no door.
LEMMA BlobDoor ==
  ASSUME TypeOK, InDispatchOrder, DoorsCloseBehindFailure,
         NEW p \in Publisher, BlobTurn(p), NEW row,
         results' = [results EXCEPT ![p] = row], AfterBlob, UNCHANGED opts
  PROVE  InDispatchOrder' /\ DoorsCloseBehindFailure'
<1>1. /\ pc = "blob" /\ Stage[p] = "blob" /\ Group[p] = "Assets"
      /\ results = NoRows /\ pc' \in {"dispatch", "snapcraft"}
  BY StageAssumption DEF BlobTurn, InDispatchOrder, AfterBlob
<1>2. \A r \in Publisher : results[r] = NoRow
  BY <1>1 DEF NoRows
<1>3. DoorsCloseBehindFailure'
  BY <1>1, <1>2, DoorPush DEF OneWayDoor
<1>4. \A q \in Publisher : Stage[q] # "blob" => results'[q] = NoRow
  BY <1>1, <1>2 DEF TypeOK
<1>5. InDispatchOrder'
  BY <1>1, <1>4 DEF InDispatchOrder
<1> QED BY <1>3, <1>5

\* Every action keeps the invariant.
LEMMA DoorStep ==
  ASSUME DoorInv, [Next]_vars
  PROVE  DoorInv'
<1> USE DEF DoorInv
<1>1. TypeOK'
  BY TypeStep
<1>2. ASSUME results' = NoRows, pc' \in {"blob", "idle"}
      PROVE  InDispatchOrder' /\ DoorsCloseBehindFailure'
  <2>1. \A p \in Publisher : results'[p] = NoRow
    BY <1>2 DEF NoRows
  <2>2. DoorsCloseBehindFailure'
    BY <2>1 DEF DoorsCloseBehindFailure, NoRow
  <2> QED BY <1>2, <2>2 DEF InDispatchOrder
<1>3. ASSUME UNCHANGED <<results, opts>>, pc' \in {"emit", "idle", "tail"} \/ pc' = pc
      PROVE  InDispatchOrder' /\ DoorsCloseBehindFailure'
  <2>1. DoorsCloseBehindFailure'
    BY <1>3 DEF DoorsCloseBehindFailure
  <2> QED BY <1>3, <2>1 DEF InDispatchOrder
<1>4. CASE StartRun \/ Kill \/ (\E p \in Publisher : KillDuring(p))
  BY <1>1, <1>2, <1>4 DEF StartRun, Kill, KillDuring, Die
<1>5. CASE BlobNoWork
  <2>1. results' = NoRows /\ pc' \in {"dispatch", "snapcraft"}
    BY <1>5 DEF BlobNoWork, AfterBlob, InDispatchOrder
  <2>2. \A p \in Publisher : results'[p] = NoRow
    BY <2>1 DEF NoRows
  <2>3. DoorsCloseBehindFailure'
    BY <2>2 DEF DoorsCloseBehindFailure, NoRow
  <2> QED BY <1>1, <2>1, <2>2, <2>3 DEF InDispatchOrder
<1>6. CASE FinishPublish
  <2>1. UNCHANGED <<results, opts>> /\ pc \in {"dispatch", "persist"} /\ pc' \in {"emit", "snapcraft"}
    BY <1>6 DEF FinishPublish
  <2>2. DoorsCloseBehindFailure'
    BY <2>1 DEF DoorsCloseBehindFailure
  <2> QED BY <1>1, <2>1, <2>2 DEF InDispatchOrder
<1>7. CASE SnapcraftNoWork \/ FinishTail \/ FinishRun \/ StageError
  BY <1>1, <1>3, <1>7 DEF SnapcraftNoWork, FinishTail, FinishRun, StageError
<1>8. ASSUME NEW p \in Publisher, BlobStep(p) \/ BlobFails(p) PROVE DoorInv'
  <2>1. PICK row : results' = [results EXCEPT ![p] = row]
    BY <1>8 DEF BlobStep, BlobDeselected, BlobSucceeds, BlobFails
  <2>2. BlobTurn(p) /\ AfterBlob /\ UNCHANGED opts
    BY <1>8 DEF BlobStep, BlobDeselected, BlobSucceeds, BlobFails, BlobRuns
  <2> QED BY <1>1, <2>1, <2>2, BlobDoor
<1>9. ASSUME NEW p \in Publisher, DispatchStep(p) PROVE DoorInv'
  <2>1. CASE DispatchGated(p) \/ DispatchDeselected(p) \/ DispatchConfigSkipped(p)
             \/ DispatchNightly(p) \/ DispatchComplete(p) \/ DispatchVerifyBlocked(p)
    <3>1. PICK o \in SkipReason : Push(p, SkipRow(o)) /\ DispatchTurn(p)
      BY <2>1 DEF DispatchGated, DispatchDeselected, DispatchConfigSkipped, DispatchNightly,
                  DispatchComplete, DispatchVerifyBlocked, ReachesVerifyGate, Consulted, SkipReason
    <3>2. SkipRow(o).outcome = o /\ o # "none" /\ o \notin Ran
      BY <3>1 DEF SkipRow, NoRow, SkipReason, Ran
    <3> QED BY <1>1, <3>1, <3>2, DispatchDoor
  <2>2. CASE DispatchDiverged(p) \/ DispatchSimulatedFailure(p)
    <3>1. Push(p, SkipRow("Failed")) /\ DispatchTurn(p) /\ ~Gated(p)
      BY <2>2 DEF DispatchDiverged, DispatchSimulatedFailure, ReachesVerifyGate, Consulted
    <3>2. SkipRow("Failed").outcome # "none"
      BY DEF SkipRow, NoRow
    <3> QED BY <1>1, <3>1, <3>2, DispatchDoor
  <2>3. CASE DispatchSucceeds(p) \/ DispatchFails(p)
    <3>1. DispatchTurn(p) /\ ~Gated(p)
      BY <2>3 DEF DispatchSucceeds, DispatchFails, DispatchRuns, ReachesVerifyGate, Consulted
    <3>2. \A o, e, i, d : WorkRow(o, e, i, d).outcome = o
      BY DEF WorkRow
    <3>3. CASE DispatchSucceeds(p)
      <4>1. PICK o \in OkOutcome(p) : Push(p, WorkRow(o, TRUE, OkItems(p), build))
        BY <3>3 DEF DispatchSucceeds
      <4>2. o # "none"
        BY <4>1 DEF OkOutcome
      <4> QED BY <1>1, <3>1, <3>2, <4>1, <4>2, DispatchDoor
    <3>4. CASE DispatchFails(p)
      <4>1. PICK written : Push(p, WorkRow("Failed", written # {}, written, NoBuild))
        BY <3>4 DEF DispatchFails
      <4> QED BY <1>1, <3>1, <3>2, <4>1, DispatchDoor
    <3> QED BY <2>3, <3>3, <3>4
  <2> QED BY <1>9, <2>1, <2>2, <2>3 DEF DispatchStep
<1>10. ASSUME NEW p \in Publisher, SnapcraftStep(p) PROVE DoorInv'
  <2>1. CASE SnapcraftDeselected(p) \/ SnapcraftGated(p) \/ SnapcraftConfigSkipped(p)
             \/ SnapcraftVerifyBlocked(p)
    <3>1. PICK o \in SkipReason : RecordSnapcraft(p, SkipRow(o)) /\ SnapcraftTurn(p)
      BY <2>1 DEF SnapcraftDeselected, SnapcraftGated, SnapcraftConfigSkipped,
                  SnapcraftVerifyBlocked, SnapcraftReachesVerifyGate, SkipReason
    <3>2. SkipRow(o).outcome \notin Ran
      BY <3>1 DEF SkipRow, NoRow, SkipReason, Ran
    <3> QED BY <1>1, <3>1, <3>2, SnapcraftDoor
  <2>2. CASE SnapcraftSucceeds(p) \/ SnapcraftFails(p)
    <3>1. SnapcraftTurn(p) /\ ~SnapcraftGateClosed
      BY <2>2 DEF SnapcraftSucceeds, SnapcraftFails, SnapcraftRuns, SnapcraftReachesVerifyGate
    <3>2. PICK row : RecordSnapcraft(p, row)
      BY <2>2 DEF SnapcraftSucceeds, SnapcraftFails
    <3> QED BY <1>1, <3>1, <3>2, SnapcraftDoor
  <2> QED BY <1>10, <2>1, <2>2 DEF SnapcraftStep
<1>11. CASE UNCHANGED vars
  BY <1>1, <1>3, <1>11 DEF vars
<1> QED
  BY <1>4, <1>5, <1>6, <1>7, <1>8, <1>9, <1>10, <1>11 DEF Next, RunStep

\* Behind a required failure no one-way door opens: for every set of
\* publishers, groups and command lines, a Manager or Submitter publisher
\* that ran with the gate on ran before every required publisher that failed.
THEOREM DoorsClose == Spec => []DoorsCloseBehindFailure
<1>1. Init => DoorInv
  <2>1. Init => TypeOK
    BY InitTypes
  <2>2. Init => InDispatchOrder
    BY DEF Init, InDispatchOrder
  <2>3. Init => DoorsCloseBehindFailure
    BY DEF Init, DoorsCloseBehindFailure, NoRows, NoRow
  <2> QED BY <2>1, <2>2, <2>3 DEF DoorInv
<1>2. DoorInv /\ [Next]_vars => DoorInv'
  BY DoorStep
<1>3. DoorInv => DoorsCloseBehindFailure
  BY DEF DoorInv
<1> QED BY <1>1, <1>2, <1>3, PTL DEF Spec

=============================================================================
