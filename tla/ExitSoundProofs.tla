--------------------------- MODULE ExitSoundProofs ---------------------------
(***************************************************************************)
(* What exit status zero promises, for every configuration: ExitSound of   *)
(* PublishPipeline as a theorem.  The lemmas are stated for a set T of     *)
(* publishers about which nothing is promised: none for the pipeline on    *)
(* its own, the torn ones where `tag rollback` runs beside it.             *)
(*                                                                         *)
(* The exit gate looks at rows, never at an upstream.  So every row must   *)
(* be true of the world (RowsTrue), and so must the summary of an earlier  *)
(* run that a reconcile takes for proof (LedgerTrue), also once the record *)
(* of a withdrawal beside it is superseded (Snapshot); and at the gate no  *)
(* publisher the run was expected to serve may be without a row (Served).  *)
(***************************************************************************)
EXTENDS PublishPipelineProofs

\* A running process knows the bytes it built.
BuildKnown == pc # "idle" => build \in Build

\* p is entirely at its upstream, or nothing is promised about it.
Complete(p, T) == Live(p) = Item \/ p \in T

\* What the row of p, when there is one, says is so.
RowTrue(p, T) ==
  \/ results[p] = NoRow
  \/ results[p].outcome \in {"Succeeded", "PendingModeration", "AlreadyPublished"}
       /\ Complete(p, T)
  \/ results[p].outcome \in {"Failed", "VerifyGateBlocked"}
  \/ results[p].outcome = "SubmitterGated" /\ submitter_gate_closed(results)
  \/ results[p].outcome \in {"Deselected", "ConfigSkipped", "Nightly", "NotApplicable"}
       /\ ~Expected(p)

RowsTrue(T) == \A p \in Publisher : RowTrue(p, T)

\* The rows call p published.
Claims(rs, p) ==
  Stage[p] = "dispatch" /\ rs[p].outcome \in {"Succeeded", "PendingModeration"}

\* A summary row the ledger would take for proof of p is one.
LedgerTrue(T) ==
  \A p \in Publisher :
    Claims(summary.results, p) => Complete(p, T) \/ withdrawn_beside(rollback, p)

\* From the first turn of the dispatch until its end the summary is the rows.
Snapshot ==
  pc \in {"dispatch", "persist"} =>
    \/ summary.results = results
    \/ pc = "dispatch" /\ \A p \in Publisher : Stage[p] = "dispatch" => results[p] = NoRow

\* A publisher the run has still to serve is one its stage has not passed.
Served ==
  /\ pc = "persist" => opts.fail_fast
  /\ exit # "err" /\ ~opts.fail_fast =>
       \A p \in Publisher : Expected(p) /\ results[p] = NoRow =>
         \/ pc \in {"idle", "blob"}
         \/ pc = "dispatch" /\ Stage[p] \in {"dispatch", "snapcraft"}
         \/ pc = "snapcraft" /\ Stage[p] = "snapcraft"

\* Exit status zero promises nothing about T.
ExitSoundBut(T) ==
  pc = "idle" /\ exit = "ok" /\ ~opts.fail_fast =>
    \A p \in Publisher : Required[p] /\ Expected(p) => Complete(p, T)

ExitInv(T) ==
  /\ DoorInv
  /\ BuildKnown
  /\ pc # "idle" => RowsTrue(T)
  /\ LedgerTrue(T)
  /\ Snapshot
  /\ Served
  /\ ExitSoundBut(T)

-----------------------------------------------------------------------------
(***************************************************************************)
(* Upstreams only grow while releases run.                                 *)
(***************************************************************************)

\* A write adds the items it names and removes none.
LEMMA WriteLive ==
  ASSUME TypeOK, build \in Build, NEW p \in Publisher, NEW items \in SUBSET Item,
         Write(p, items)
  PROVE  /\ Live(p)' = Live(p) \cup items
         /\ \A q \in Publisher : q # p => Live(q)' = Live(q)
<1>1. upstream \in [Publisher -> [Item -> Build \cup {NoBuild}]]
  BY DEF TypeOK
<1>2. upstream' = [upstream EXCEPT ![p] = [i \in Item |->
                     IF i \in items THEN build ELSE upstream[p][i]]]
  BY DEF Write
<1>3. \A q \in Publisher : q # p => upstream'[q] = upstream[q]
  BY <1>1, <1>2
<1>4. \A i \in Item : upstream'[p][i] = IF i \in items THEN build ELSE upstream[p][i]
  BY <1>1, <1>2
<1>5. build # NoBuild
  BY PublisherAssumption
<1> QED BY <1>3, <1>4, <1>5 DEF Live

\* What is complete stays complete.
Kept == \A q \in Publisher : Live(q) = Item => Live(q)' = Item

\* A write keeps what is complete.
LEMMA WriteKept ==
  ASSUME TypeOK, build \in Build, NEW p \in Publisher, NEW items \in SUBSET Item,
         Write(p, items)
  PROVE  Kept
<1> SUFFICES ASSUME NEW q \in Publisher, Live(q) = Item PROVE Live(q)' = Item
  BY DEF Kept
<1>1. CASE q = p
  BY <1>1, WriteLive
<1>2. CASE q # p
  BY <1>2, WriteLive
<1> QED BY <1>1, <1>2

\* A publisher that wrote all it had to write is complete.
LEMMA WriteAll ==
  ASSUME TypeOK, build \in Build, NEW p \in Publisher, Write(p, Writable(p))
  PROVE  Live(p)' = Item /\ Kept
<1>1. Writable(p) \in SUBSET Item
  BY DEF Writable
<1>2. Item \ Writable(p) \subseteq Live(p)
  BY PublisherAssumption DEF Writable, Live
<1>3. Live(p)' = Live(p) \cup Writable(p)
  BY <1>1, WriteLive
<1>4. Live(p) \subseteq Item
  BY DEF Live
<1>5. Live(p)' = Item
  BY <1>1, <1>2, <1>3, <1>4
<1> QED BY <1>1, <1>5, WriteKept

\* A step that writes to no upstream keeps what is complete.
LEMMA SameKept == ASSUME UNCHANGED upstream PROVE Kept
  BY DEF Kept, Live

-----------------------------------------------------------------------------
(***************************************************************************)
(* Rows and the ledger stay true.                                          *)
(***************************************************************************)

\* A true row, added where none was, leaves every row true.
LEMMA AddRow ==
  ASSUME NEW T, TypeOK, RowsTrue(T), NEW p \in Publisher, results[p] = NoRow,
         \A q \in Publisher : q # p => results'[q] = results[q],
         UNCHANGED opts, Kept, RowTrue(p, T)'
  PROVE  RowsTrue(T)'
<1> SUFFICES ASSUME NEW q \in Publisher, q # p PROVE RowTrue(q, T)'
  BY DEF RowsTrue
<1>1. RowTrue(q, T) /\ results'[q] = results[q]
  BY DEF RowsTrue
<1>2. Complete(q, T) => Complete(q, T)'
  BY DEF Kept, Complete
<1>3. Expected(q)' <=> Expected(q)
  BY DEF Expected
<1>4. submitter_gate_closed(results) => submitter_gate_closed(results)'
  <2>1. \A r \in Publisher : results[r].outcome = "Failed" => results'[r].outcome = "Failed"
    BY DEF NoRow
  <2> QED BY <2>1 DEF submitter_gate_closed, any_failed
<1> QED BY <1>1, <1>2, <1>3, <1>4 DEF RowTrue

\* Rows that are left alone stay true.
LEMMA SameRows ==
  ASSUME NEW T, RowsTrue(T), UNCHANGED <<results, opts>>, Kept
  PROVE  RowsTrue(T)'
<1> SUFFICES ASSUME NEW q \in Publisher PROVE RowTrue(q, T)'
  BY DEF RowsTrue
<1>1. /\ RowTrue(q, T)
      /\ Complete(q, T) => Complete(q, T)'
      /\ Expected(q)' <=> Expected(q)
  BY DEF RowsTrue, Kept, Complete, Expected
<1> QED BY <1>1 DEF RowTrue

\* Without rows nothing is claimed.
LEMMA NoRowsTrue == ASSUME NEW T, results' = NoRows PROVE RowsTrue(T)'
  BY DEF RowsTrue, RowTrue, NoRows

\* A summary written from true rows is proof of what it says.
LEMMA LedgerKept ==
  ASSUME NEW T, LedgerTrue(T), Kept, NEW rs,
         \A q \in Publisher : Claims(rs, q) => Complete(q, T)',
         UNCHANGED rollback,
         summary' = summary \/ summary' = write_summary_json(summary, rs)
  PROVE  LedgerTrue(T)'
<1>1. summary'.results = summary.results \/ summary'.results = rs
  BY DEF write_summary_json
<1>2. \A q \in Publisher : Complete(q, T) => Complete(q, T)'
  BY DEF Kept, Complete
<1> QED BY <1>1, <1>2 DEF LedgerTrue, withdrawn_beside

\* A summary whose rows are proof needs no withdrawal record beside it.
LEMMA LedgerAlone ==
  ASSUME NEW T, \A q \in Publisher : Claims(summary'.results, q) => Complete(q, T)'
  PROVE  LedgerTrue(T)'
  BY DEF LedgerTrue, Claims

\* What a true row says of a published outcome.
LEMMA RowProof ==
  ASSUME NEW T, NEW q \in Publisher, RowTrue(q, T), Claims(results, q)
  PROVE  Complete(q, T)
  BY DEF RowTrue, NoRow, Claims

-----------------------------------------------------------------------------
(***************************************************************************)
(* What each stage's actions add.                                          *)
(***************************************************************************)

\* One step serves p: its row is new and true, the others are untouched.
Serves(p, T) ==
  /\ results[p] = NoRow
  /\ results'[p] # NoRow
  /\ \A q \in Publisher : q # p => results'[q] = results[q]
  /\ UNCHANGED opts
  /\ Kept
  /\ RowTrue(p, T)'

\* Adding a row with an outcome makes it the row of p and of nobody else.
LEMMA RowAdded ==
  ASSUME TypeOK, NEW p \in Publisher, NEW row, row.outcome # "none",
         results' = [results EXCEPT ![p] = row]
  PROVE  /\ results'[p] = row
         /\ results'[p] # NoRow
         /\ \A q \in Publisher : q # p => results'[q] = results[q]
  BY DEF TypeOK, NoRow

\* A skip row has the outcome it was made with.
LEMMA SkipOutcome == \A o : SkipRow(o).outcome = o
  BY DEF SkipRow, NoRow

\* So has a row of work.
LEMMA WorkOutcome == \A o, e, i, d : WorkRow(o, e, i, d).outcome = o
  BY DEF WorkRow

\* The blob stage serves its publisher.
LEMMA BlobServes ==
  ASSUME NEW T, ExitInv(T), NEW p \in Publisher, BlobStep(p) \/ BlobFails(p)
  PROVE  Serves(p, T) /\ BlobTurn(p) /\ AfterBlob /\ UNCHANGED <<disk, exit, build>>
<1>1. TypeOK /\ BuildKnown /\ InDispatchOrder
  BY DEF ExitInv, DoorInv
<1>2. BlobTurn(p) /\ AfterBlob /\ UNCHANGED <<disk, exit, build, opts>>
  BY DEF BlobStep, BlobDeselected, BlobSucceeds, BlobFails, BlobRuns
<1>3. build \in Build /\ results[p] = NoRow
  BY <1>1, <1>2 DEF BlobTurn, BuildKnown, InDispatchOrder, NoRows
<1>4. CASE BlobDeselected(p)
  <2>1. results' = [results EXCEPT ![p] = SkipRow("Deselected")] /\ Kept /\ p \in opts'.deselected
    BY <1>2, <1>4, SameKept DEF BlobDeselected
  <2>2. SkipRow("Deselected").outcome = "Deselected"
    BY DEF SkipRow, NoRow
  <2>3. RowTrue(p, T)'
    BY <1>1, <2>1, <2>2, RowAdded DEF RowTrue, Expected
  <2> QED BY <1>1, <1>2, <1>3, <2>1, <2>2, <2>3, RowAdded DEF Serves
<1>5. CASE BlobSucceeds(p)
  <2> DEFINE row == IF Writable(p) = {} THEN SkipRow("AlreadyPublished")
                    ELSE WorkRow("Succeeded", TRUE, Writable(p), NoBuild)
  <2>1. results' = [results EXCEPT ![p] = row] /\ Complete(p, T)' /\ Kept
    BY <1>1, <1>3, <1>5, WriteAll DEF BlobSucceeds, Complete
  <2>2. row.outcome \in {"AlreadyPublished", "Succeeded"}
    BY DEF SkipRow, NoRow, WorkRow
  <2> HIDE DEF row
  <2>3. RowTrue(p, T)'
    BY <1>1, <2>1, <2>2, RowAdded DEF RowTrue
  <2> QED BY <1>1, <1>2, <1>3, <2>1, <2>2, <2>3, RowAdded DEF Serves
<1>6. CASE BlobFails(p)
  <2>1. PICK written \in SUBSET Writable(p) :
          /\ Write(p, written)
          /\ results' = [results EXCEPT ![p] = WorkRow("Failed", written # {}, written, NoBuild)]
    BY <1>6 DEF BlobFails
  <2>2. written \in SUBSET Item
    BY <2>1 DEF Writable
  <2>3. Kept
    BY <1>1, <1>3, <2>1, <2>2, WriteKept
  <2>4. WorkRow("Failed", written # {}, written, NoBuild).outcome = "Failed"
    BY DEF WorkRow
  <2>5. RowTrue(p, T)'
    BY <1>1, <2>1, <2>4, RowAdded DEF RowTrue
  <2> QED BY <1>1, <1>2, <1>3, <2>1, <2>3, <2>4, <2>5, RowAdded DEF Serves
<1> QED BY <1>2, <1>4, <1>5, <1>6 DEF BlobStep

\* The verdict Complete is true of the upstream: the probe looked, or the
\* ledger's row is proof.
LEMMA CompleteProof ==
  ASSUME NEW T, LedgerTrue(T), NEW p \in Publisher, Stage[p] = "dispatch",
         "Complete" \in reconcile(p)
  PROVE  Complete(p, T)
<1>1. CASE ledger_fast_path(summary, rollback, p, build)
  BY <1>1 DEF ledger_fast_path, LedgerTrue, Claims
<1>2. CASE ~ledger_fast_path(summary, rollback, p, build)
  BY <1>2 DEF reconcile, Complete
<1> QED BY <1>1, <1>2

\* A pushed row with a true outcome serves p.
LEMMA PushServes ==
  ASSUME NEW T, TypeOK, NEW p \in Publisher, DispatchTurn(p), NEW row, Push(p, row),
         row.outcome # "none", Kept, results'[p] = row => RowTrue(p, T)'
  PROVE  Serves(p, T)
<1>1. results[p] = NoRow /\ results' = [results EXCEPT ![p] = row] /\ UNCHANGED opts
  BY DEF DispatchTurn, Pending, Push
<1> QED BY <1>1, RowAdded DEF Serves

\* A dispatch turn that skips p serves it.
LEMMA SkipServes ==
  ASSUME NEW T, ExitInv(T), NEW p \in Publisher,
         \/ DispatchGated(p) \/ DispatchDeselected(p) \/ DispatchConfigSkipped(p)
         \/ DispatchNightly(p) \/ DispatchComplete(p) \/ DispatchDiverged(p)
         \/ DispatchVerifyBlocked(p) \/ DispatchSimulatedFailure(p)
  PROVE  Serves(p, T) /\ DispatchTurn(p) /\ \E row : Push(p, row)
<1>1. TypeOK /\ LedgerTrue(T)
  BY DEF ExitInv, DoorInv
<1>2. DispatchTurn(p) /\ UNCHANGED upstream
  BY DEF DispatchGated, DispatchDeselected, DispatchConfigSkipped, DispatchNightly,
         DispatchComplete, DispatchDiverged, DispatchVerifyBlocked, DispatchSimulatedFailure,
         ReachesVerifyGate, Consulted
<1>3. Kept /\ Stage[p] = "dispatch" /\ results[p] = NoRow
  BY <1>2, SameKept DEF DispatchTurn, Pending
<1>4. ASSUME NEW o, Push(p, SkipRow(o)), o # "none",
             results'[p].outcome = o => RowTrue(p, T)'
      PROVE  Serves(p, T) /\ \E row : Push(p, row)
  BY <1>1, <1>2, <1>3, <1>4, PushServes, SkipOutcome
<1>5. CASE DispatchGated(p)
  <2>1. Push(p, SkipRow("SubmitterGated")) /\ submitter_gate_closed(results)
    BY <1>5 DEF DispatchGated, Gated
  <2>2. \A q \in Publisher : results[q].outcome = "Failed" => results'[q].outcome = "Failed"
    BY <1>1, <1>3, <2>1 DEF Push, TypeOK, NoRow
  <2>3. submitter_gate_closed(results)'
    BY <2>1, <2>2 DEF submitter_gate_closed, any_failed
  <2> QED BY <1>2, <1>4, <2>1, <2>3 DEF RowTrue
<1>6. CASE DispatchDeselected(p)
  <2>1. Push(p, SkipRow("Deselected")) /\ ~Expected(p)'
    BY <1>6 DEF DispatchDeselected, Expected, Push
  <2> QED BY <1>2, <1>4, <2>1 DEF RowTrue
<1>7. CASE DispatchConfigSkipped(p)
  <2>1. Push(p, SkipRow("ConfigSkipped")) /\ ~Expected(p)'
    BY <1>7 DEF DispatchConfigSkipped, Expected, Push
  <2> QED BY <1>2, <1>4, <2>1 DEF RowTrue
<1>8. CASE DispatchNightly(p)
  <2>1. Push(p, SkipRow("Nightly")) /\ ~Expected(p)'
    BY <1>3, <1>8 DEF DispatchNightly, Expected, Push
  <2> QED BY <1>2, <1>4, <2>1 DEF RowTrue
<1>9. CASE DispatchComplete(p)
  <2>1. Push(p, SkipRow("AlreadyPublished")) /\ Complete(p, T)'
    BY <1>1, <1>3, <1>9, CompleteProof DEF DispatchComplete, Kept, Complete
  <2> QED BY <1>2, <1>4, <2>1 DEF RowTrue
<1>10. CASE DispatchDiverged(p) \/ DispatchSimulatedFailure(p)
  <2>1. Push(p, SkipRow("Failed"))
    BY <1>10 DEF DispatchDiverged, DispatchSimulatedFailure
  <2> QED BY <1>2, <1>4, <2>1 DEF RowTrue
<1>11. CASE DispatchVerifyBlocked(p)
  <2>1. Push(p, SkipRow("VerifyGateBlocked"))
    BY <1>11 DEF DispatchVerifyBlocked
  <2> QED BY <1>2, <1>4, <2>1 DEF RowTrue
<1> QED BY <1>2, <1>5, <1>6, <1>7, <1>8, <1>9, <1>10, <1>11

\* A dispatch turn that runs p serves it.
LEMMA RunServes ==
  ASSUME NEW T, ExitInv(T), NEW p \in Publisher, DispatchSucceeds(p) \/ DispatchFails(p)
  PROVE  Serves(p, T) /\ DispatchTurn(p) /\ \E row : Push(p, row)
<1>1. TypeOK /\ BuildKnown
  BY DEF ExitInv, DoorInv
<1>2. DispatchTurn(p)
  BY DEF DispatchSucceeds, DispatchFails, DispatchRuns, ReachesVerifyGate, Consulted
<1>3. build \in Build /\ Stage[p] = "dispatch"
  BY <1>1, <1>2 DEF DispatchTurn, BuildKnown, Pending
<1>4. OkItems(p) \in SUBSET Item
  BY DEF OkItems, Writable
<1>5. CASE DispatchSucceeds(p)
  <2>1. PICK o \in OkOutcome(p) : Push(p, WorkRow(o, TRUE, OkItems(p), build))
    BY <1>5 DEF DispatchSucceeds
  <2>2. Write(p, OkItems(p))
    BY <1>5 DEF DispatchSucceeds
  <2>3. Kept
    BY <1>1, <1>3, <1>4, <2>2, WriteKept
  <2>4. WorkRow(o, TRUE, OkItems(p), build).outcome = o /\ o # "none"
    BY <2>1 DEF OkOutcome, WorkRow
  <2>5. CASE p \in Inapplicable
    <3>1. o = "NotApplicable" /\ ~Expected(p)'
      BY <2>1, <2>5 DEF OkOutcome, Expected
    <3>2. results'[p] = WorkRow(o, TRUE, OkItems(p), build) => RowTrue(p, T)'
      BY <2>4, <3>1 DEF RowTrue
    <3> QED BY <1>1, <1>2, <2>1, <2>3, <2>4, <3>2, PushServes
  <2>6. CASE p \notin Inapplicable
    <3>1. o \in {"Succeeded", "PendingModeration", "AlreadyPublished"}
      BY <2>1, <2>6 DEF OkOutcome
    <3>2. Complete(p, T)'
      BY <1>1, <1>3, <2>2, <2>6, WriteAll DEF OkItems, Complete
    <3>3. results'[p] = WorkRow(o, TRUE, OkItems(p), build) => RowTrue(p, T)'
      BY <2>4, <3>1, <3>2 DEF RowTrue
    <3> QED BY <1>1, <1>2, <2>1, <2>3, <2>4, <3>3, PushServes
  <2> QED BY <2>5, <2>6, <1>2, <2>1
<1>6. CASE DispatchFails(p)
  <2>1. PICK written \in SUBSET OkItems(p) :
          /\ Write(p, written)
          /\ Push(p, WorkRow("Failed", written # {}, written, NoBuild))
    BY <1>6 DEF DispatchFails
  <2>2. Kept
    BY <1>1, <1>3, <1>4, <2>1, WriteKept
  <2>3. results'[p] = WorkRow("Failed", written # {}, written, NoBuild) => RowTrue(p, T)'
    BY WorkOutcome DEF RowTrue
  <2> QED BY <1>1, <1>2, <2>1, <2>2, <2>3, PushServes, WorkOutcome
<1> QED BY <1>5, <1>6

\* The snap-store stage serves its publisher.
LEMMA SnapcraftServes ==
  ASSUME NEW T, ExitInv(T), NEW p \in Publisher, SnapcraftStep(p)
  PROVE  Serves(p, T) /\ SnapcraftTurn(p) /\ pc' = "tail" /\ UNCHANGED <<disk, exit, build>>
<1>1. TypeOK /\ BuildKnown /\ InDispatchOrder
  BY DEF ExitInv, DoorInv
<1>2. SnapcraftTurn(p) /\ \E row : RecordSnapcraft(p, row)
  BY DEF SnapcraftStep, SnapcraftDeselected, SnapcraftGated, SnapcraftConfigSkipped,
         SnapcraftVerifyBlocked, SnapcraftSucceeds, SnapcraftFails, SnapcraftRuns,
         SnapcraftReachesVerifyGate
<1>3. pc' = "tail" /\ UNCHANGED <<disk, exit, build, opts>>
  BY <1>2 DEF RecordSnapcraft
<1>4. build \in Build /\ results[p] = NoRow
  BY <1>1, <1>2 DEF SnapcraftTurn, BuildKnown, InDispatchOrder
<1>5. ASSUME NEW row, RecordSnapcraft(p, row), row.outcome # "none", Kept,
             results'[p] = row => RowTrue(p, T)'
      PROVE  Serves(p, T)
  BY <1>1, <1>3, <1>4, <1>5, RowAdded DEF Serves, RecordSnapcraft
<1>6. \A o : SkipRow(o).outcome = o
  BY SkipOutcome
<1>7. CASE SnapcraftDeselected(p)
  <2>1. RecordSnapcraft(p, SkipRow("Deselected")) /\ ~Expected(p)' /\ Kept
    BY <1>3, <1>7, SameKept DEF SnapcraftDeselected, Expected
  <2>2. results'[p] = SkipRow("Deselected") => RowTrue(p, T)'
    BY <1>6, <2>1 DEF RowTrue
  <2> QED BY <1>2, <1>3, <1>5, <1>6, <2>1, <2>2
<1>8. CASE SnapcraftGated(p)
  <2>1. RecordSnapcraft(p, SkipRow("SubmitterGated")) /\ submitter_gate_closed(results) /\ Kept
    BY <1>8, SameKept DEF SnapcraftGated, SnapcraftGateClosed
  <2>2. \A q \in Publisher : results[q].outcome = "Failed" => results'[q].outcome = "Failed"
    BY <1>1, <1>4, <2>1 DEF RecordSnapcraft, TypeOK, NoRow
  <2>3. submitter_gate_closed(results)'
    BY <2>1, <2>2 DEF submitter_gate_closed, any_failed
  <2>4. results'[p] = SkipRow("SubmitterGated") => RowTrue(p, T)'
    BY <1>6, <2>3 DEF RowTrue
  <2> QED BY <1>2, <1>3, <1>5, <1>6, <2>1, <2>4
<1>9. CASE SnapcraftConfigSkipped(p)
  <2>1. RecordSnapcraft(p, SkipRow("ConfigSkipped")) /\ ~Expected(p)' /\ Kept
    BY <1>9, SameKept DEF SnapcraftConfigSkipped, Expected
  <2>2. results'[p] = SkipRow("ConfigSkipped") => RowTrue(p, T)'
    BY <1>6, <2>1 DEF RowTrue
  <2> QED BY <1>2, <1>3, <1>5, <1>6, <2>1, <2>2
<1>10. CASE SnapcraftVerifyBlocked(p)
  <2>1. RecordSnapcraft(p, SkipRow("VerifyGateBlocked")) /\ Kept
    BY <1>10, SameKept DEF SnapcraftVerifyBlocked
  <2>2. results'[p] = SkipRow("VerifyGateBlocked") => RowTrue(p, T)'
    BY <1>6 DEF RowTrue
  <2> QED BY <1>2, <1>3, <1>5, <1>6, <2>1, <2>2
<1>11. CASE SnapcraftSucceeds(p)
  <2> DEFINE row == IF Writable(p) = {} THEN SkipRow("AlreadyPublished")
                    ELSE WorkRow("Succeeded", TRUE, Writable(p), NoBuild)
  <2>1. RecordSnapcraft(p, row) /\ Complete(p, T)' /\ Kept
    BY <1>1, <1>4, <1>11, WriteAll DEF SnapcraftSucceeds, Complete
  <2>2. row.outcome \in {"AlreadyPublished", "Succeeded"}
    BY DEF SkipRow, NoRow, WorkRow
  <2> HIDE DEF row
  <2>3. results'[p] = row => RowTrue(p, T)'
    BY <2>1, <2>2 DEF RowTrue
  <2> QED BY <1>2, <1>3, <1>5, <2>1, <2>2, <2>3
<1>12. CASE SnapcraftFails(p)
  <2>1. PICK written \in SUBSET Writable(p) :
          /\ Write(p, written)
          /\ RecordSnapcraft(p, WorkRow("Failed", written # {}, written, NoBuild))
    BY <1>12 DEF SnapcraftFails
  <2>2. written \in SUBSET Item
    BY <2>1 DEF Writable
  <2>3. Kept
    BY <1>1, <1>4, <2>1, <2>2, WriteKept
  <2>4. WorkRow("Failed", written # {}, written, NoBuild).outcome = "Failed"
    BY DEF WorkRow
  <2>5. results'[p] = WorkRow("Failed", written # {}, written, NoBuild) => RowTrue(p, T)'
    BY <2>4 DEF RowTrue
  <2> QED BY <1>2, <1>3, <1>5, <2>1, <2>3, <2>4, <2>5
<1> QED BY <1>7, <1>8, <1>9, <1>10, <1>11, <1>12 DEF SnapcraftStep

-----------------------------------------------------------------------------
(***************************************************************************)
(* The invariant.                                                          *)
(***************************************************************************)

\* The exit gate lets a run end ok only when every publisher it served and
\* every one it was expected to serve is complete.
LEMMA GateProof ==
  ASSUME NEW T, ExitInv(T), FinishRun, exit' = "ok", ~opts.fail_fast,
         NEW p \in Publisher, Required[p], Expected(p)
  PROVE  Complete(p, T)
<1>1. pc = "emit" /\ exit # "err" /\ ~gate_required_failures(results)
  BY DEF FinishRun
<1>2. results[p] # NoRow
  BY <1>1 DEF ExitInv, Served
<1>3. results[p].outcome \notin {"Failed", "VerifyGateBlocked"}
  BY <1>1 DEF gate_required_failures, required_failure_names, required_gate_blocked_names,
              is_required_release_failure
<1>4. ~submitter_gate_closed(results)
  BY <1>1 DEF gate_required_failures, required_failure_names, is_required_release_failure,
              submitter_gate_closed, any_failed
<1> QED BY <1>1, <1>2, <1>3, <1>4 DEF ExitInv, RowsTrue, RowTrue

\* Every action keeps the invariant.
LEMMA ExitStep ==
  ASSUME NEW T, ExitInv(T), [Next]_vars
  PROVE  ExitInv(T)'
<1> USE DEF disk
<1>1. DoorInv'
  BY DoorStep DEF ExitInv
<1>2. /\ TypeOK /\ InDispatchOrder /\ BuildKnown /\ LedgerTrue(T) /\ Snapshot /\ Served
      /\ pc # "idle" => RowsTrue(T)
      /\ ExitSoundBut(T)
  BY DEF ExitInv, DoorInv
<1>3. pc # "idle" => \A q \in Publisher : Claims(results, q) => Complete(q, T)
  BY <1>2, RowProof DEF RowsTrue
<1>4. ASSUME NEW p \in Publisher, Serves(p, T), pc # "idle", UNCHANGED rollback,
             UNCHANGED summary \/ summary' = write_summary_json(summary, results')
      PROVE  RowsTrue(T)' /\ LedgerTrue(T)'
  <2>1. RowsTrue(T)'
    BY <1>2, <1>4, AddRow DEF Serves
  <2>2. ASSUME NEW q \in Publisher, Claims(results', q)
        PROVE  Complete(q, T)'
    BY <2>1, <2>2 DEF RowsTrue, RowTrue, NoRow, Claims
  <2>3. Kept
    BY <1>4 DEF Serves
  <2> QED BY <1>2, <1>4, <2>1, <2>2, <2>3, LedgerKept
<1>5. ASSUME UNCHANGED <<upstream, results, opts>>
      PROVE  /\ pc # "idle" => RowsTrue(T)'
             /\ UNCHANGED <<summary, rollback>> => LedgerTrue(T)'
             /\ Kept
             /\ \A q \in Publisher : Complete(q, T) => Complete(q, T)'
  <2>1. Kept
    BY <1>5, SameKept
  <2>2. \A q \in Publisher : Complete(q, T) => Complete(q, T)'
    BY <2>1 DEF Kept, Complete
  <2>3. pc # "idle" => RowsTrue(T)'
    BY <1>2, <1>5, <2>1, SameRows
  <2>4. UNCHANGED <<summary, rollback>> => LedgerTrue(T)'
    BY <1>2, <2>2 DEF LedgerTrue, withdrawn_beside
  <2> QED BY <2>1, <2>2, <2>3, <2>4
<1>6. CASE StartRun
  <2>1. results' = NoRows /\ build' \in Build /\ pc' = "blob" /\ UNCHANGED <<upstream, summary, rollback>>
    BY <1>6 DEF StartRun
  <2>2. RowsTrue(T)' /\ LedgerTrue(T)'
    BY <1>2, <2>1, NoRowsTrue DEF LedgerTrue, Complete, Live
  <2> QED BY <1>1, <2>1, <2>2 DEF ExitInv, BuildKnown, Snapshot, Served, ExitSoundBut
<1>7. CASE BlobNoWork
  <2>1. /\ pc = "blob" /\ pc' \in {"dispatch", "snapcraft"} /\ AfterBlob
        /\ UNCHANGED <<upstream, results, summary, rollback, opts, exit, build>>
    BY <1>7 DEF BlobNoWork, AfterBlob
  <2>2. \A q \in Publisher : Stage[q] = "blob" => ~Expected(q)
    BY <1>7 DEF BlobNoWork, Expected
  <2>3. Served'
    BY <2>1, <2>2, PublisherAssumption DEF Served, AfterBlob, Expected, Stages
  <2>4. Snapshot'
    BY <1>2, <2>1 DEF Snapshot, InDispatchOrder, NoRows
  <2> QED BY <1>1, <1>2, <1>5, <2>1, <2>3, <2>4 DEF ExitInv, BuildKnown, ExitSoundBut
<1>8. ASSUME NEW p \in Publisher, BlobStep(p) \/ BlobFails(p) PROVE ExitInv(T)'
  <2>1. Serves(p, T) /\ BlobTurn(p) /\ AfterBlob /\ UNCHANGED <<summary, rollback, exit, build>>
    BY <1>8, BlobServes
  <2>2. \A q \in Publisher : Stage[q] = "blob" => q = p
    BY <2>1, StageAssumption DEF BlobTurn
  <2>3. Served'
    BY <2>1, <2>2, PublisherAssumption DEF Served, AfterBlob, Expected, Stages, Serves
  <2>4. pc = "blob" /\ pc' \in {"dispatch", "snapcraft"} /\ Stage[p] = "blob"
    BY <2>1 DEF BlobTurn, AfterBlob
  <2>5. Snapshot'
    BY <1>2, <2>1, <2>4 DEF Snapshot, InDispatchOrder, NoRows, Serves
  <2> QED BY <1>1, <1>2, <1>4, <2>1, <2>3, <2>4, <2>5 DEF ExitInv, BuildKnown, ExitSoundBut
<1>9. ASSUME NEW p \in Publisher, DispatchStep(p) PROVE ExitInv(T)'
  <2>1. Serves(p, T) /\ DispatchTurn(p) /\ \E row : Push(p, row)
    BY <1>9, SkipServes, RunServes DEF DispatchStep
  <2>2. PICK row : Push(p, row)
    BY <2>1
  <2>3. /\ summary' = write_summary_json(summary, results')
        /\ pc = "dispatch" /\ pc' \in {"dispatch", "persist"}
        /\ pc' = "persist" => opts.fail_fast
        /\ UNCHANGED <<rollback, build, opts, exit>>
    BY <2>1, <2>2 DEF Push, DispatchTurn
  <2>4. \A q \in Publisher : results'[q] = NoRow => results[q] = NoRow
    BY <2>1 DEF Serves
  <2>5. Served'
    BY <1>2, <2>3, <2>4 DEF Served, Expected
  <2>6. results' # NoRows
    BY <2>1 DEF Serves, NoRows
  <2>7. summary'.results = results'
    BY <2>3, <2>6 DEF write_summary_json
  <2> QED BY <1>1, <1>2, <1>4, <2>1, <2>3, <2>5, <2>7 DEF ExitInv, BuildKnown, Snapshot, ExitSoundBut
<1>10. CASE FinishPublish
  <2>1. /\ UNCHANGED <<upstream, results, summary, opts, build>>
        /\ \/ pc = "persist"
           \/ pc = "dispatch" /\ \A q \in Publisher : Stage[q] = "dispatch" => results[q] # NoRow
        /\ \/ pc' = "emit" /\ exit' = "err"
           \/ pc' = "snapcraft" /\ exit' = exit
    BY <1>10 DEF FinishPublish, Pending
  <2>2. Served'
    BY <1>2, <2>1 DEF Served, Expected
  <2>3. \A q \in Publisher : Claims(summary.results, q) => Claims(results, q)
    BY <1>2, <2>1 DEF Snapshot, Claims
  <2>4. \A q \in Publisher : Claims(summary'.results, q) => Complete(q, T)'
    BY <1>3, <1>5, <2>1, <2>3
  <2>5. LedgerTrue(T)'
    BY <2>4, LedgerAlone
  <2> QED BY <1>1, <1>2, <1>5, <2>1, <2>2, <2>5 DEF ExitInv, BuildKnown, Snapshot, ExitSoundBut
<1>11. CASE SnapcraftNoWork
  <2>1. /\ pc = "snapcraft" /\ pc' = "tail"
        /\ UNCHANGED <<upstream, results, summary, rollback, opts, build, exit>>
    BY <1>11 DEF SnapcraftNoWork
  <2>2. \A q \in Publisher : Stage[q] = "snapcraft" => ~Expected(q)
    BY <1>11 DEF SnapcraftNoWork, Expected
  <2>3. Served'
    BY <1>2, <2>1, <2>2 DEF Served, Expected
  <2> QED BY <1>1, <1>2, <1>5, <2>1, <2>3 DEF ExitInv, BuildKnown, Snapshot, ExitSoundBut
<1>12. ASSUME NEW p \in Publisher, SnapcraftStep(p) PROVE ExitInv(T)'
  <2>1. /\ Serves(p, T) /\ SnapcraftTurn(p) /\ pc = "snapcraft" /\ pc' = "tail"
        /\ UNCHANGED <<summary, rollback, exit, build>>
    BY <1>12, SnapcraftServes DEF SnapcraftTurn
  <2>2. \A q \in Publisher : Stage[q] = "snapcraft" => q = p
    BY <2>1, StageAssumption DEF SnapcraftTurn
  <2>3. Served'
    BY <1>2, <2>1, <2>2 DEF Served, Expected, Serves, SnapcraftTurn
  <2> QED BY <1>1, <1>2, <1>4, <2>1, <2>3 DEF ExitInv, BuildKnown, Snapshot, ExitSoundBut
<1>13. CASE FinishTail
  <2>1. /\ pc = "tail" /\ pc' = "emit"
        /\ UNCHANGED <<upstream, results, summary, rollback, opts, build, exit>>
    BY <1>13 DEF FinishTail
  <2>2. Served'
    BY <1>2, <2>1 DEF Served, Expected
  <2> QED BY <1>1, <1>2, <1>5, <2>1, <2>2 DEF ExitInv, BuildKnown, Snapshot, ExitSoundBut
<1>14. CASE StageError
  <2>1. /\ pc # "idle" /\ pc' = "emit" /\ exit' = "err"
        /\ UNCHANGED <<upstream, results, summary, rollback, opts, build>>
    BY <1>14 DEF StageError
  <2> QED BY <1>1, <1>2, <1>5, <2>1 DEF ExitInv, BuildKnown, Snapshot, ExitSoundBut, Served
<1>15. CASE FinishRun
  <2>1. /\ pc = "emit" /\ pc' = "idle" /\ UNCHANGED <<upstream, results, opts>>
        /\ summary' = write_summary_json(summary, results)
        /\ rollback' = RollbackAfterWrite(results, report, rollback)
    BY <1>15 DEF FinishRun, PersistReport
  <2>2. \A q \in Publisher : Claims(results, q) => Complete(q, T)'
    BY <1>3, <1>5, <2>1
  <2>3. LedgerTrue(T)'
    <3>1. CASE results = NoRows
      <4>1. UNCHANGED rollback
        BY <2>1, <3>1 DEF RollbackAfterWrite
      <4> QED BY <1>2, <1>5, <2>1, <2>2, <4>1, LedgerKept
    <3>2. CASE results # NoRows
      <4>1. summary'.results = results
        BY <2>1, <3>2 DEF write_summary_json
      <4> QED BY <2>2, <4>1, LedgerAlone
    <3> QED BY <3>1, <3>2
  <2>4. ExitSoundBut(T)'
    BY <1>15, <2>1, GateProof DEF ExitSoundBut, Expected, Complete, Live
  <2> QED BY <1>1, <2>1, <2>3, <2>4 DEF ExitInv, BuildKnown, Snapshot, Served
<1>16. ASSUME Kept, pc # "idle", pc' = "idle", exit' = "killed", UNCHANGED rollback,
              summary' = summary \/ summary' = write_summary_json(summary, results)
       PROVE  ExitInv(T)'
  <2>1. \A q \in Publisher : Claims(results, q) => Complete(q, T)'
    BY <1>3, <1>16 DEF Kept, Complete
  <2>2. LedgerTrue(T)'
    BY <1>2, <1>16, <2>1, LedgerKept
  <2> QED BY <1>1, <1>16, <2>2 DEF ExitInv, BuildKnown, Snapshot, Served, ExitSoundBut
<1>17. CASE Kill
  BY <1>16, <1>17, SameKept DEF Kill, Die
<1>18. ASSUME NEW p \in Publisher, KillDuring(p) PROVE ExitInv(T)'
  <2>1. PICK written \in SUBSET Writable(p) \ {{}} :
          /\ Write(p, written)
          /\ Die([q \in Publisher |-> IF q = p THEN written ELSE {}])
    BY <1>18 DEF KillDuring
  <2>2. written \in SUBSET Item
    BY <2>1 DEF Writable
  <2>3. pc # "idle" /\ build \in Build
    BY <1>2, <1>18 DEF KillDuring, BuildKnown, BlobRuns, BlobTurn, ReachesVerifyGate, Consulted,
                       DispatchTurn, SnapcraftReachesVerifyGate, SnapcraftTurn
  <2>4. Kept
    BY <1>2, <2>1, <2>2, <2>3, WriteKept
  <2>5. summary' = summary \/ summary' = write_summary_json(summary, results)
    BY <1>18 DEF KillDuring
  <2> QED BY <1>16, <2>1, <2>3, <2>4, <2>5 DEF Die
<1>19. CASE UNCHANGED vars
  <2>1. UNCHANGED <<upstream, results, summary, rollback, opts, pc, exit, build>>
    BY <1>19 DEF vars
  <2>2. Served' /\ Snapshot' /\ BuildKnown'
    BY <1>2, <2>1 DEF Served, Snapshot, BuildKnown, Expected
  <2> QED BY <1>1, <1>2, <1>5, <2>1, <2>2 DEF ExitInv, ExitSoundBut, Expected
<1> QED
  BY <1>6, <1>7, <1>8, <1>9, <1>10, <1>11, <1>12, <1>13, <1>14, <1>15, <1>17, <1>18, <1>19
  DEF Next, RunStep

\* A release starts with nothing promised and nothing on record.
LEMMA ExitStart ==
  ASSUME NEW T, Init
  PROVE  ExitInv(T)
<1>1. DoorInv
  <2>1. TypeOK
    BY InitTypes
  <2>2. InDispatchOrder
    BY DEF Init, InDispatchOrder
  <2>3. DoorsCloseBehindFailure
    BY DEF Init, DoorsCloseBehindFailure, NoRows, NoRow
  <2> QED BY <2>1, <2>2, <2>3 DEF DoorInv
<1>2. LedgerTrue(T)
  BY DEF Init, LedgerTrue, Claims, NoSummary, NoRows, NoRow
<1> QED BY <1>1, <1>2 DEF Init, ExitInv, BuildKnown, Snapshot, Served, ExitSoundBut

\* Exit status zero means released: for every configuration and any history
\* of failed, killed and repeated runs, a run without --fail-fast that ends
\* ok leaves every required publisher it was to serve complete upstream.
THEOREM ExitIsSound == Spec => []ExitSound
<1>1. Init => ExitInv({})
  BY ExitStart
<1>2. ExitInv({}) /\ [Next]_vars => ExitInv({})'
  BY ExitStep
<1>3. ExitInv({}) => ExitSound
  BY DEF ExitInv, ExitSoundBut, ExitSound, Complete
<1> QED BY <1>1, <1>2, <1>3, PTL DEF Spec

=============================================================================
