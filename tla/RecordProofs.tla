---------------------------- MODULE RecordProofs ----------------------------
(***************************************************************************)
(* What the files of a run directory still name, for every configuration:  *)
(* WorkIsRecorded of PublishPipeline, and WorkStaysRecorded and            *)
(* DeletesWithdrawn of ReleaseHistory.                                     *)
(*                                                                         *)
(* The invariant is stated with an excuse E, what a publisher may have     *)
(* live and unnamed: nothing for releases alone, `masked` once a release   *)
(* may follow a withdrawal.                                                *)
(***************************************************************************)
EXTENDS TagRollbackProofs

\* A withdrawal would act on the row, and on which items.
Acts(p, row) == candidate_row(p, row) /\ row.evidence
Names(p, row) == IF Acts(p, row) THEN row.items ELSE {}

\* What a carried row may be.
Carriable(p, row) == row = NoRow \/ Acts(p, row)

\* A report that is not there has no rows.
ReportShape == report.exists \/ report = NoReport

\* A row of the running release names what the release wrote.
RowsNamed == \A p \in Nameable : results[p].items \subseteq Names(p, results[p])

\* What is live is named by the record, or was lost to a kill, or excused, or
\* is still only in the memory of the running release.
Held(E) ==
  \A p \in Nameable : Live(p) \subseteq Recorded(p) \cup lost[p] \cup E[p]
                                   \cup (IF pc = "idle" THEN {} ELSE results[p].items)

RecordInv(E) == ReportShape /\ RowsNamed /\ Held(E)

\* What a finished pass left: rows that say that their withdrawal failed.
Unfinished(state0, p) ==
  UNION {state0[w][p].items : w \in {v \in Side : state0[v][p].outcome
                                       \in {"RollbackFailed", "RollbackSkippedNoScope"}}}

\* During a pass the rows in memory name what is still live, and a row that
\* would be acted on is still to be decided or says that its withdrawal failed.
PassHeld(E) ==
  cmd = "unwind" =>
    /\ \A p \in Nameable : Live(p) \subseteq lost[p] \cup E[p] \cup Withdrawable(state, p)
    /\ \A t \in Side \X Publisher :
         /\ candidate_row(t[2], RowOf(t)) /\ Group[t[2]] # "Submitter" /\ t[2] \notin Retained
         => t \in todo \/ RowOf(t).outcome \in {"RollbackFailed", "RollbackSkippedNoScope"}

\* From the written pass to the deleted tag only failed withdrawals are live.
PassDone(E) ==
  cmd \in {"mark", "git", "push", "delete", "delete_local"} =>
    \A p \in Nameable \ Retained : Live(p) \subseteq lost[p] \cup E[p] \cup Unfinished(rollback, p)

KeptInv(E) == RecordInv(E) /\ PassHeld(E) /\ PassDone(E)

-----------------------------------------------------------------------------
(***************************************************************************)
(* What the operators on rows keep of the items they name.                 *)
(***************************************************************************)
\* A withdrawal acts on at most two rows of a publisher.
LEMMA WithdrawableRows ==
  ASSUME NEW s, NEW p
  PROVE  Withdrawable(s, p) = Names(p, s.results[p]) \cup Names(p, s.carried[p])
  BY DEF Withdrawable, Names, Acts

\* An absent row names nothing.
LEMMA NoRowNames ==
  ASSUME NEW p
  PROVE  Names(p, NoRow) = {} /\ NoRow.items = {} /\ NoRow.outcome = "none"
  BY DEF Names, NoRow

\* Joining an earlier record adds its items to a row that counts.
LEMMA AbsorbNames ==
  ASSUME NEW p \in Publisher, NEW row \in Row, NEW earlier \in Row, Acts(p, row),
         NEW new, new = absorb_prior(row, earlier)
  PROVE  Acts(p, new) /\ Names(p, new) = Names(p, row) \cup earlier.items
<1>1. /\ new.outcome = row.outcome /\ new.evidence = row.evidence
      /\ new.items = row.items \cup earlier.items
  BY DEF absorb_prior, Row
<1>2. Acts(p, new)
  BY <1>1 DEF Acts, candidate_row, records_published_work
<1> QED BY <1>1, <1>2 DEF Names

\* Folding one earlier row in loses no item of it or of the rows at hand.
LEMMA CarryNames ==
  ASSUME NEW p \in Nameable, NEW acc \in [mine : Row, carried : Row], NEW earlier \in Row,
         Carriable(p, acc.carried),
         NEW new, new = CarryRow(p, acc, earlier)
  PROVE  /\ Names(p, acc.mine) \cup Names(p, acc.carried) \cup Names(p, earlier)
              \subseteq Names(p, new.mine) \cup Names(p, new.carried)
         /\ Carriable(p, new.carried)
<1>1. p \in Publisher /\ Group[p] # "Submitter" /\ p \notin UntypedWhenIdle
  BY DEF Nameable
<1>2. \A r, s \in Row : Joins(p, r, s)
  BY <1>1 DEF Joins, Typed
<1>3. CASE ~Acts(p, earlier)
  BY <1>3 DEF CarryRow, Acts, Names, Carriable
<1>4. CASE Acts(p, earlier) /\ candidate_row(p, acc.mine) /\ records_published_work(acc.mine)
  <2>1. new = [acc EXCEPT !.mine = absorb_prior(@, earlier)]
    BY <1>1, <1>2, <1>4 DEF CarryRow, Acts
  <2>2. PICK a : a = absorb_prior(acc.mine, earlier)
    OBVIOUS
  <2>3. new.mine = a /\ new.carried = acc.carried
    BY <2>1, <2>2
  <2>4. Acts(p, acc.mine)
    BY <1>4 DEF Acts, records_published_work
  <2>5. Names(p, a) = Names(p, acc.mine) \cup earlier.items
    BY <1>1, <2>2, <2>4, AbsorbNames
  <2> QED BY <2>3, <2>5 DEF Names
<1>5. CASE Acts(p, earlier) /\ ~(candidate_row(p, acc.mine) /\ records_published_work(acc.mine))
  <2>1. new = [acc EXCEPT !.carried = carry_row(p, @, earlier)]
    BY <1>1, <1>2, <1>5 DEF CarryRow, Acts
  <2>2. PICK a : a = carry_row(p, acc.carried, earlier)
    OBVIOUS
  <2>3. new.mine = acc.mine /\ new.carried = a
    BY <2>1, <2>2
  <2>4. CASE acc.carried = NoRow
    <3>1. a = earlier
      BY <2>2, <2>4, NoRowNames DEF carry_row
    <3>2. Names(p, acc.carried) = {}
      BY <2>4, NoRowNames
    <3> QED BY <1>5, <2>3, <3>1, <3>2 DEF Carriable
  <2>5. CASE Acts(p, acc.carried)
    <3>1. acc.carried.outcome # "none"
      BY <1>1, <2>5 DEF Acts, candidate_row
    <3>2. a = absorb_prior(acc.carried, earlier)
      BY <1>2, <2>2, <3>1 DEF carry_row
    <3>3. Acts(p, a) /\ Names(p, a) = Names(p, acc.carried) \cup earlier.items
      BY <1>1, <2>5, <3>2, AbsorbNames
    <3> QED BY <2>3, <3>3 DEF Names, Carriable
  <2> QED BY <2>4, <2>5 DEF Carriable
<1> QED BY <1>3, <1>4, <1>5

\* The rows of a report that carries the prior state name what either named.
LEMMA CarryPriorNames ==
  ASSUME NEW p \in Nameable, NEW rs \in [Publisher -> Row], NEW prior \in ReportFile,
         NEW new, new = carry_prior_work(rs, prior)
  PROVE  Names(p, rs[p]) \cup Withdrawable(prior, p) \subseteq Withdrawable(new, p)
<1>1. p \in Publisher
  BY DEF Nameable
<1>2. rs[p] \in Row /\ prior.results[p] \in Row /\ prior.carried[p] \in Row
  BY <1>1 DEF ReportFile
<1>3. PICK a \in [mine : Row, carried : Row] : a = [mine |-> rs[p], carried |-> NoRow]
  BY <1>2, RowTypes
<1>4. PICK b \in [mine : Row, carried : Row] : b = CarryRow(p, a, prior.carried[p])
  <2>1. CarryRow(p, a, prior.carried[p]) \in [mine : Row, carried : Row]
    BY <1>1, <1>2, CarryTypes
  <2> QED BY <2>1
<1>5. PICK c \in [mine : Row, carried : Row] : c = CarryRow(p, b, prior.results[p])
  <2>1. CarryRow(p, b, prior.results[p]) \in [mine : Row, carried : Row]
    BY <1>1, <1>2, CarryTypes
  <2> QED BY <2>1
<1>6. a.mine = rs[p] /\ a.carried = NoRow
  BY <1>3
<1>7. /\ Names(p, a.mine) \cup Names(p, a.carried) \cup Names(p, prior.carried[p])
           \subseteq Names(p, b.mine) \cup Names(p, b.carried)
      /\ Carriable(p, b.carried)
  <2>1. PICK e \in Row : e = prior.carried[p]
    BY <1>2
  <2>2. b = CarryRow(p, a, e) /\ Carriable(p, a.carried)
    BY <1>4, <1>6, <2>1 DEF Carriable
  <2> QED BY <2>1, <2>2, CarryNames
<1>8. /\ Names(p, b.mine) \cup Names(p, b.carried) \cup Names(p, prior.results[p])
           \subseteq Names(p, c.mine) \cup Names(p, c.carried)
      /\ Carriable(p, c.carried)
  <2>1. PICK e \in Row : e = prior.results[p]
    BY <1>2
  <2>2. Carriable(p, b.carried)
    BY <1>7
  <2>3. c = CarryRow(p, b, e)
    BY <1>5, <2>1
  <2> QED BY <2>1, <2>2, <2>3, CarryNames
<1>9. new.results[p] = c.mine /\ new.carried[p] = c.carried
  <2>1. c = CarryRow(p, CarryRow(p, [mine |-> rs[p], carried |-> NoRow], prior.carried[p]), prior.results[p])
    BY <1>3, <1>4, <1>5
  <2> QED BY <1>1, <2>1 DEF carry_prior_work
<1>10. Withdrawable(prior, p) = Names(p, prior.results[p]) \cup Names(p, prior.carried[p])
  BY WithdrawableRows
<1>11. Withdrawable(new, p) = Names(p, c.mine) \cup Names(p, c.carried)
  BY <1>9, WithdrawableRows
<1> QED BY <1>6, <1>7, <1>8, <1>10, <1>11

\* A report write that would return before it removes rollback.json.
Stale == results # NoRows /\ rollback.exists /\ SameBytes(results, report, rollback)

\* Writing report.json loses nothing on record and adds the run's own work,
\* unless it finds its bytes on disk beside a rollback.json.
LEMMA WriteNames ==
  ASSUME NEW p \in Nameable, NEW rs \in [Publisher -> Row], rs[p].items \subseteq Names(p, rs[p]),
         NEW rep \in ReportFile, NEW rb \in ReportFile, rep.exists \/ rep = NoReport,
         NEW new, new = write_report_to_run_dir(rs, rep, rb),
         NEW left, left = RollbackAfterWrite(rs, rep, rb)
  PROVE  /\ Withdrawable(load_prior_state(rep, rb), p)
              \subseteq Withdrawable(load_prior_state(new, left), p)
         /\ \/ rs[p].items \subseteq Withdrawable(load_prior_state(new, left), p)
            \/ rs # NoRows /\ rb.exists /\ SameBytes(rs, rep, rb)
<1>1. p \in Publisher
  BY DEF Nameable
<1>2. PICK prior \in ReportFile : prior = load_prior_state(rep, rb)
  BY DEF load_prior_state
<1>3. CASE rs = NoRows
  <2>1. new = rep /\ left = rb
    BY <1>3 DEF write_report_to_run_dir, RollbackAfterWrite
  <2>2. rs[p].items = {}
    BY <1>1, <1>3, NoRowNames DEF NoRows
  <2> QED BY <2>1, <2>2
<1>4. ASSUME rs # NoRows
      PROVE  Withdrawable(prior, p) \cup rs[p].items \subseteq Withdrawable(new, p)
  <2>1. CASE prior.exists
    <3>1. new = carry_prior_work(rs, prior)
      BY <1>2, <1>4, <2>1 DEF write_report_to_run_dir
    <3> QED BY <3>1, CarryPriorNames
  <2>2. CASE ~prior.exists
    <3>1. new = [exists |-> TRUE, results |-> rs, carried |-> NoRows]
      BY <1>2, <1>4, <2>2 DEF write_report_to_run_dir
    <3>2. prior = NoReport
      BY <1>2, <2>2 DEF load_prior_state
    <3>3. prior.results[p] = NoRow /\ prior.carried[p] = NoRow /\ new.results[p] = rs[p]
      BY <1>1, <3>1, <3>2 DEF NoReport, NoRows
    <3>4. Withdrawable(prior, p) = {}
      BY <3>3, WithdrawableRows, NoRowNames
    <3>5. Names(p, rs[p]) \subseteq Withdrawable(new, p)
      BY <3>3, WithdrawableRows
    <3> QED BY <3>4, <3>5
  <2> QED BY <2>1, <2>2
<1>5. CASE rs # NoRows /\ SameBytes(rs, rep, rb)
  <2>1. new = rep /\ left = rb
    BY <1>5 DEF RollbackAfterWrite, SameBytes
  <2>2. CASE rb.exists
    BY <1>5, <2>1, <2>2
  <2>3. CASE ~rb.exists
    <3>1. load_prior_state(new, left) = new
      BY <2>1, <2>3 DEF load_prior_state
    <3> QED BY <1>2, <1>4, <1>5, <3>1
  <2> QED BY <2>2, <2>3
<1>6. CASE rs # NoRows /\ ~SameBytes(rs, rep, rb)
  <2>1. left = NoReport
    BY <1>6 DEF RollbackAfterWrite
  <2>2. load_prior_state(new, left) = new
    BY <2>1 DEF load_prior_state, NoReport
  <2> QED BY <1>2, <1>4, <1>6, <2>2
<1> QED BY <1>3, <1>5, <1>6

\* A written report is there.
LEMMA WriteShape ==
  ASSUME NEW rs, NEW rep, NEW rb, rep.exists \/ rep = NoReport,
         NEW new, new = write_report_to_run_dir(rs, rep, rb)
  PROVE  new.exists \/ new = NoReport
  BY DEF write_report_to_run_dir, carry_prior_work

-----------------------------------------------------------------------------
(***************************************************************************)
(* Releases.                                                               *)
(***************************************************************************)
\* A turn writes to one upstream and adds the row that names what it wrote.
LEMMA AddNames ==
  ASSUME NEW E, TypeOK, RecordInv(E), pc # "idle", pc' # "idle",
         NEW p \in Publisher, NEW row, results[p] = NoRow,
         results' = [results EXCEPT ![p] = row],
         p \in Nameable => Live(p)' \subseteq Live(p) \cup row.items /\ row.items \subseteq Names(p, row),
         \A q \in Publisher : q # p => Live(q)' = Live(q),
         UNCHANGED <<report, rollback, lost>>
  PROVE  RecordInv(E)'
<1>1. results'[p] = row /\ \A q \in Publisher : q # p => results'[q] = results[q]
  BY DEF TypeOK
<1>2. ReportShape' /\ RowsNamed'
  BY <1>1 DEF RecordInv, ReportShape, RowsNamed, Nameable
<1>3. ASSUME NEW q \in Nameable PROVE Live(q)' \subseteq Recorded(q)' \cup lost'[q] \cup E[q] \cup results'[q].items
  <2>1. Recorded(q)' = Recorded(q) /\ lost'[q] = lost[q] /\ q \in Publisher /\ q \in Nameable
    BY DEF Recorded, Nameable
  <2>2. Live(q) \subseteq Recorded(q) \cup lost[q] \cup E[q] \cup results[q].items
    BY DEF RecordInv, Held
  <2>3. CASE q = p
    BY <1>1, <2>1, <2>2, <2>3, NoRowNames
  <2>4. CASE q # p
    BY <1>1, <2>1, <2>2, <2>4
  <2> QED BY <2>3, <2>4
<1> QED BY <1>2, <1>3 DEF RecordInv, Held

\* A skip names and writes nothing.
LEMMA SkipNames ==
  ASSUME NEW o
  PROVE  SkipRow(o).items = {}
  BY DEF SkipRow, NoRow

\* A row of work by a tracked publisher names its items.
LEMMA WorkNames ==
  ASSUME NEW p \in Nameable, NEW o, NEW e \in BOOLEAN, NEW items \in SUBSET Item, NEW d,
         items # {} => o \in {"Succeeded", "Failed"} /\ e,
         NEW row, row = WorkRow(o, e, items, d)
  PROVE  row.items = items /\ row.items \subseteq Names(p, row)
  BY DEF WorkRow, Names, Acts, candidate_row, records_published_work, Nameable

\* The blob stage.
LEMMA BlobNames ==
  ASSUME NEW E, DoorInv, BuildKnown, RecordInv(E),
         NEW p \in Publisher, BlobStep(p) \/ BlobFails(p)
  PROVE  RecordInv(E)'
<1>1. TypeOK /\ InDispatchOrder
  BY DEF DoorInv
<1>2. BlobTurn(p) /\ AfterBlob /\ UNCHANGED <<report, rollback, lost>>
  BY DEF BlobStep, BlobDeselected, BlobSucceeds, BlobFails, BlobRuns, disk
<1>3. build \in Build /\ results[p] = NoRow /\ pc # "idle" /\ pc' # "idle"
  BY <1>1, <1>2 DEF BlobTurn, BuildKnown, InDispatchOrder, NoRows, AfterBlob
<1>4. Writable(p) \in SUBSET Item
  BY DEF Writable
<1>5. CASE BlobDeselected(p)
  <2>1. results' = [results EXCEPT ![p] = SkipRow("Deselected")] /\ UNCHANGED upstream
    BY <1>5 DEF BlobDeselected
  <2>2. SkipRow("Deselected").items = {}
    BY SkipNames
  <2>3. \A q \in Publisher : Live(q)' = Live(q)
    BY <2>1 DEF Live
  <2> QED BY <1>1, <1>2, <1>3, <2>1, <2>2, <2>3, AddNames
<1>6. CASE BlobSucceeds(p)
  <2>1. PICK row : row = IF Writable(p) = {} THEN SkipRow("AlreadyPublished")
                         ELSE WorkRow("Succeeded", TRUE, Writable(p), NoBuild)
    OBVIOUS
  <2>2. results' = [results EXCEPT ![p] = row] /\ Write(p, Writable(p))
    BY <1>6, <2>1 DEF BlobSucceeds
  <2>4. Live(p)' = Live(p) \cup Writable(p) /\ \A q \in Publisher : q # p => Live(q)' = Live(q)
    BY <1>1, <1>3, <1>4, <2>2, WriteLive
  <2>5. p \in Nameable => row.items = Writable(p) /\ row.items \subseteq Names(p, row)
    <3>1. CASE Writable(p) = {}
      BY <2>1, <3>1, SkipNames
    <3>2. CASE Writable(p) # {}
      BY <2>1, <3>2 DEF WorkRow, Names, Acts, candidate_row, records_published_work, Nameable
    <3> QED BY <3>1, <3>2
  <2> QED BY <1>1, <1>2, <1>3, <2>2, <2>4, <2>5, AddNames
<1>7. CASE BlobFails(p)
  <2>1. PICK written \in SUBSET Writable(p) :
          /\ Write(p, written)
          /\ results' = [results EXCEPT ![p] = WorkRow("Failed", written # {}, written, NoBuild)]
    BY <1>7 DEF BlobFails
  <2>2. PICK row : row = WorkRow("Failed", written # {}, written, NoBuild)
    OBVIOUS
  <2>3. written \in SUBSET Item
    BY <1>4, <2>1
  <2>4. Live(p)' = Live(p) \cup written /\ \A q \in Publisher : q # p => Live(q)' = Live(q)
    BY <1>1, <1>3, <2>1, <2>3, WriteLive
  <2>5. p \in Nameable => row.items = written /\ row.items \subseteq Names(p, row)
    BY <2>2, <2>3 DEF WorkRow, Names, Acts, candidate_row, records_published_work, Nameable
  <2> QED BY <1>1, <1>2, <1>3, <2>1, <2>2, <2>3, <2>4, <2>5, AddNames
<1> QED BY <1>5, <1>6, <1>7 DEF BlobStep

\* A turn of the dispatch that skips p.
LEMMA DispatchSkipNames ==
  ASSUME NEW E, TypeOK, RecordInv(E), NEW p \in Publisher,
         \/ DispatchGated(p) \/ DispatchDeselected(p) \/ DispatchConfigSkipped(p)
         \/ DispatchNightly(p) \/ DispatchComplete(p) \/ DispatchDiverged(p)
         \/ DispatchVerifyBlocked(p) \/ DispatchSimulatedFailure(p)
  PROVE  RecordInv(E)'
<1>1. DispatchTurn(p) /\ UNCHANGED upstream /\ \E o : Push(p, SkipRow(o))
  BY DEF DispatchGated, DispatchDeselected, DispatchConfigSkipped, DispatchNightly,
         DispatchComplete, DispatchDiverged, DispatchVerifyBlocked, DispatchSimulatedFailure,
         ReachesVerifyGate, Consulted
<1>2. PICK o : Push(p, SkipRow(o))
  BY <1>1
<1>3. PICK row : row = SkipRow(o)
  OBVIOUS
<1>4. row.items = {}
  BY <1>3, SkipNames
<1>5. /\ results[p] = NoRow /\ pc # "idle" /\ pc' # "idle"
      /\ results' = [results EXCEPT ![p] = row] /\ UNCHANGED <<report, rollback, lost>>
  BY <1>1, <1>2, <1>3 DEF DispatchTurn, Pending, Push
<1>6. \A q \in Publisher : Live(q)' = Live(q)
  BY <1>1 DEF Live
<1> QED BY <1>4, <1>5, <1>6, AddNames

\* A turn of the dispatch in which p runs.
LEMMA DispatchRunNames ==
  ASSUME NEW E, TypeOK, BuildKnown, RecordInv(E), NEW p \in Publisher,
         DispatchSucceeds(p) \/ DispatchFails(p)
  PROVE  RecordInv(E)'
<1>1. DispatchTurn(p)
  BY DEF DispatchSucceeds, DispatchFails, DispatchRuns, ReachesVerifyGate, Consulted
<1>2. results[p] = NoRow /\ pc = "dispatch" /\ build \in Build
  BY <1>1 DEF DispatchTurn, Pending, BuildKnown
<1>3. PICK written, o, e, d :
        /\ written \in SUBSET OkItems(p) /\ e \in BOOLEAN
        /\ Write(p, written) /\ Push(p, WorkRow(o, e, written, d))
        /\ p \in Nameable /\ written # {} => o \in {"Succeeded", "Failed"} /\ e
  <2>1. CASE DispatchSucceeds(p)
    <3>1. PICK o \in OkOutcome(p) : Write(p, OkItems(p)) /\ Push(p, WorkRow(o, TRUE, OkItems(p), build))
      BY <2>1 DEF DispatchSucceeds
    <3>2. p \in Nameable /\ OkItems(p) # {} => o = "Succeeded"
      BY <3>1 DEF OkOutcome, OkItems, Nameable
    <3> QED BY <3>1, <3>2
  <2>2. CASE DispatchFails(p)
    <3>1. PICK written \in SUBSET OkItems(p) :
            Write(p, written) /\ Push(p, WorkRow("Failed", written # {}, written, NoBuild))
      BY <2>2 DEF DispatchFails
    <3> QED BY <3>1
  <2> QED BY <2>1, <2>2
<1>4. written \in SUBSET Item
  BY <1>3 DEF OkItems, Writable
<1>5. PICK row : row = WorkRow(o, e, written, d)
  OBVIOUS
<1>7. Live(p)' = Live(p) \cup written /\ \A q \in Publisher : q # p => Live(q)' = Live(q)
  BY <1>2, <1>3, <1>4, WriteLive
<1>8. p \in Nameable => row.items = written /\ row.items \subseteq Names(p, row)
  BY <1>3, <1>4, <1>5, WorkNames
<1>9. pc' # "idle" /\ results' = [results EXCEPT ![p] = row] /\ UNCHANGED <<report, rollback, lost>>
  BY <1>3, <1>5 DEF Push
<1> QED BY <1>2, <1>7, <1>8, <1>9, AddNames

\* The snap store is a Submitter: its rows and writes are not tracked.
LEMMA SnapcraftNames ==
  ASSUME NEW E, DoorInv, BuildKnown, RecordInv(E), NEW p \in Publisher, SnapcraftStep(p)
  PROVE  RecordInv(E)'
<1>1. SnapcraftTurn(p) /\ \E row : RecordSnapcraft(p, row)
  BY DEF SnapcraftStep, SnapcraftDeselected, SnapcraftGated, SnapcraftConfigSkipped,
         SnapcraftVerifyBlocked, SnapcraftSucceeds, SnapcraftFails, SnapcraftRuns,
         SnapcraftReachesVerifyGate
<1>2. PICK row : RecordSnapcraft(p, row)
  BY <1>1
<1>3. /\ pc = "snapcraft" /\ pc' = "tail" /\ results' = [results EXCEPT ![p] = row]
      /\ UNCHANGED <<report, rollback, lost>>
  BY <1>1, <1>2 DEF SnapcraftTurn, RecordSnapcraft, disk
<1>4. p \notin Nameable
  BY <1>1, StageAssumption DEF SnapcraftTurn, Nameable
<1>5. TypeOK /\ build \in Build
  BY <1>3 DEF DoorInv, BuildKnown
<1>6. UNCHANGED upstream \/ \E items \in SUBSET Writable(p) : Write(p, items)
  BY DEF SnapcraftStep, SnapcraftDeselected, SnapcraftGated, SnapcraftConfigSkipped,
         SnapcraftVerifyBlocked, SnapcraftSucceeds, SnapcraftFails
<1>7. Writable(p) \in SUBSET Item
  BY DEF Writable
<1>8. \A q \in Publisher : q # p => Live(q)' = Live(q)
  <2>1. CASE UNCHANGED upstream
    BY <2>1 DEF Live
  <2>2. CASE \E items \in SUBSET Writable(p) : Write(p, items)
    <3>1. PICK items \in SUBSET Item : Write(p, items)
      BY <1>7, <2>2
    <3> QED BY <1>5, <3>1, WriteLive
  <2> QED BY <1>6, <2>1, <2>2
<1>9. results[p] = NoRow
  BY <1>1, <1>3 DEF DoorInv, InDispatchOrder, SnapcraftTurn
<1> QED BY <1>3, <1>4, <1>5, <1>8, <1>9, AddNames

-----------------------------------------------------------------------------
\* A report write keeps what is held, whatever comes next, when the excuse
\* takes up what a stale rollback.json hides.
LEMMA PersistNames ==
  ASSUME NEW E, NEW F, TypeOK, RecordInv(E), \A p \in Nameable : E[p] \subseteq F[p],
         Stale => \A p \in Nameable : results[p].items \subseteq Recorded(p) \cup F[p],
         PersistReport, pc # "idle", UNCHANGED <<upstream, results, lost>>
  PROVE  RecordInv(F)'
<1>1. /\ results \in [Publisher -> Row] /\ report \in ReportFile /\ rollback \in ReportFile
      /\ report' = write_report_to_run_dir(results, report, rollback)
      /\ rollback' = RollbackAfterWrite(results, report, rollback)
  BY DEF TypeOK, PersistReport
<1>2. ReportShape' /\ RowsNamed'
  BY <1>1, WriteShape DEF RecordInv, ReportShape, RowsNamed
<1>3. ASSUME NEW p \in Nameable PROVE Live(p)' \subseteq Recorded(p)' \cup lost'[p] \cup F[p]
  <2>1. p \in Nameable /\ results[p].items \subseteq Names(p, results[p])
    BY DEF RecordInv, RowsNamed
  <2>2. report.exists \/ report = NoReport
    BY DEF RecordInv, ReportShape
  <2>3. PICK new, left : new = report' /\ left = rollback'
    OBVIOUS
  <2>4. /\ Withdrawable(load_prior_state(report, rollback), p)
             \subseteq Withdrawable(load_prior_state(new, left), p)
        /\ \/ results[p].items \subseteq Withdrawable(load_prior_state(new, left), p)
           \/ results # NoRows /\ rollback.exists /\ SameBytes(results, report, rollback)
    BY <1>1, <2>1, <2>2, <2>3, WriteNames
  <2>5. Recorded(p) \subseteq Recorded(p)' /\ (results[p].items \subseteq Recorded(p)' \/ Stale)
    BY <2>3, <2>4 DEF Recorded, Stale
  <2>6. results[p].items \subseteq Recorded(p)' \cup F[p]
    BY <2>5
  <2>7. Live(p) \subseteq Recorded(p) \cup lost[p] \cup E[p] \cup results[p].items
    BY DEF RecordInv, Held
  <2>8. Live(p)' = Live(p)
    BY DEF Live
  <2> QED BY <2>5, <2>6, <2>7, <2>8
<1> QED BY <1>2, <1>3 DEF RecordInv, Held

\* A kill adds to `lost` what no file names.
LEMMA DieNames ==
  ASSUME NEW E, TypeOK, RecordInv(E), pc # "idle", NEW written, Die(written),
         \A p \in Nameable : Live(p)' \subseteq Live(p) \cup written[p]
  PROVE  RecordInv(E)'
<1>1. /\ pc' = "idle" /\ results' = NoRows /\ UNCHANGED <<report, rollback>>
      /\ lost' = [p \in Publisher |-> lost[p] \cup ((results[p].items \cup written[p]) \ Recorded(p))]
  BY DEF Die
<1>2. ReportShape' /\ RowsNamed'
  <2>1. \A p \in Nameable : results'[p].items = {}
    BY <1>1, NoRowNames DEF NoRows, Nameable
  <2> QED BY <1>1, <2>1 DEF RecordInv, ReportShape, RowsNamed
<1>3. ASSUME NEW p \in Nameable PROVE Live(p)' \subseteq Recorded(p)' \cup lost'[p] \cup E[p]
  <2>1. Recorded(p)' = Recorded(p)
    BY <1>1 DEF Recorded
  <2>2. lost'[p] = lost[p] \cup ((results[p].items \cup written[p]) \ Recorded(p))
    BY <1>1 DEF Nameable
  <2>3. Live(p) \subseteq Recorded(p) \cup lost[p] \cup E[p] \cup results[p].items
    BY DEF RecordInv, Held
  <2> QED BY <2>1, <2>2, <2>3
<1> QED BY <1>1, <1>2, <1>3 DEF RecordInv, Held

\* A step that writes nothing and keeps the rows.
LEMMA SameNames ==
  ASSUME NEW E, RecordInv(E), UNCHANGED <<upstream, report, rollback, results, lost>>,
         pc = "idle" \/ pc' # "idle"
  PROVE  RecordInv(E)'
<1>1. ReportShape' /\ RowsNamed'
  BY DEF RecordInv, ReportShape, RowsNamed
<1>2. \A p \in Nameable : Live(p)' = Live(p) /\ Recorded(p)' = Recorded(p) /\ lost'[p] = lost[p]
  BY DEF Live, Recorded
<1>3. Held(E)'
  BY <1>2 DEF RecordInv, Held
<1> QED BY <1>1, <1>3 DEF RecordInv

\* A wider excuse.
LEMMA RecordGrows ==
  ASSUME NEW E, NEW F, RecordInv(E)', \A p \in Nameable : E[p] \subseteq F[p]
  PROVE  RecordInv(F)'
  BY DEF RecordInv, Held

\* Every step of a release keeps the record.
LEMMA RecordStep ==
  ASSUME NEW E, NEW F, DoorInv, BuildKnown, RecordInv(E), [Next]_vars,
         \A p \in Nameable : E[p] \subseteq F[p],
         (FinishPublish \/ FinishRun) /\ Stale =>
           \A p \in Nameable : results[p].items \subseteq Recorded(p) \cup F[p]
  PROVE  RecordInv(F)'
<1>1. TypeOK
  BY DEF DoorInv
<1>2. CASE StartRun
  <2>1. /\ pc = "idle" /\ pc' = "blob" /\ results' = NoRows
        /\ UNCHANGED <<upstream, report, rollback, lost>>
    BY <1>2 DEF StartRun, disk
  <2>2. \A p \in Publisher : results'[p].items = {}
    BY <2>1, NoRowNames DEF NoRows
  <2>3. ReportShape' /\ RowsNamed'
    BY <2>1, <2>2 DEF RecordInv, ReportShape, RowsNamed, Nameable
  <2>4. \A p \in Nameable : Live(p)' = Live(p) /\ Recorded(p)' = Recorded(p) /\ lost'[p] = lost[p]
    BY <2>1 DEF Live, Recorded
  <2>5. RecordInv(E)'
    BY <2>1, <2>3, <2>4 DEF RecordInv, Held
  <2> QED BY <2>5, RecordGrows
<1>3. CASE BlobNoWork \/ SnapcraftNoWork \/ FinishTail \/ StageError
  <2>1. UNCHANGED <<upstream, report, rollback, results, lost>> /\ pc' # "idle"
    BY <1>3 DEF BlobNoWork, SnapcraftNoWork, FinishTail, StageError, AfterBlob, disk
  <2>2. RecordInv(E)'
    BY <2>1, SameNames
  <2> QED BY <2>2, RecordGrows
<1>4. CASE FinishPublish \/ FinishRun
  <2>1. PersistReport /\ UNCHANGED <<upstream, results, lost>> /\ pc # "idle"
    BY <1>4 DEF FinishPublish, FinishRun
  <2>2. Stale => \A p \in Nameable : results[p].items \subseteq Recorded(p) \cup F[p]
    BY <1>4
  <2> QED BY <1>1, <2>1, <2>2, PersistNames
<1>5. CASE \E p \in Publisher : BlobStep(p) \/ BlobFails(p)
  <2>1. RecordInv(E)'
    BY <1>5, BlobNames
  <2> QED BY <2>1, RecordGrows
<1>6. CASE \E p \in Publisher : DispatchStep(p)
  <2>1. RecordInv(E)'
    BY <1>1, <1>6, DispatchSkipNames, DispatchRunNames DEF DispatchStep
  <2> QED BY <2>1, RecordGrows
<1>7. CASE \E p \in Publisher : SnapcraftStep(p)
  <2>1. RecordInv(E)'
    BY <1>7, SnapcraftNames
  <2> QED BY <2>1, RecordGrows
<1>8. CASE Kill
  <2>1. PICK written : written = [p \in Publisher |-> {}]
    OBVIOUS
  <2>2. Die(written) /\ UNCHANGED upstream /\ pc # "idle"
    BY <1>8, <2>1 DEF Kill
  <2>3. \A p \in Nameable : Live(p)' \subseteq Live(p) \cup written[p]
    BY <2>2 DEF Live
  <2>4. RecordInv(E)'
    BY <1>1, <2>2, <2>3, DieNames
  <2> QED BY <2>4, RecordGrows
<1>9. CASE \E p \in Publisher : KillDuring(p)
  <2>1. PICK p \in Publisher : KillDuring(p)
    BY <1>9
  <2>2. pc # "idle"
    BY <2>1 DEF KillDuring, BlobRuns, BlobTurn, ReachesVerifyGate, Consulted, DispatchTurn,
                SnapcraftReachesVerifyGate, SnapcraftTurn
  <2>3. PICK arrived \in SUBSET Writable(p) :
          Write(p, arrived) /\ Die([q \in Publisher |-> IF q = p THEN arrived ELSE {}])
    BY <2>1 DEF KillDuring
  <2>4. PICK written : written = [q \in Publisher |-> IF q = p THEN arrived ELSE {}]
    OBVIOUS
  <2>5. arrived \in SUBSET Item /\ build \in Build
    BY <2>2 DEF Writable, BuildKnown
  <2>6. Live(p)' = Live(p) \cup arrived /\ \A q \in Publisher : q # p => Live(q)' = Live(q)
    BY <1>1, <2>3, <2>5, WriteLive
  <2>7. \A q \in Nameable : q \in Publisher
    BY DEF Nameable
  <2>8. \A q \in Nameable : Live(q)' \subseteq Live(q) \cup written[q]
    BY <2>4, <2>6, <2>7
  <2>9. RecordInv(E)'
    BY <1>1, <2>2, <2>3, <2>4, <2>8, DieNames
  <2> QED BY <2>9, RecordGrows
<1>10. CASE UNCHANGED vars
  <2>1. UNCHANGED <<upstream, report, rollback, results, lost>> /\ UNCHANGED pc
    BY <1>10 DEF vars
  <2>2. RecordInv(E)'
    BY <2>1, SameNames
  <2> QED BY <2>2, RecordGrows
<1> QED BY <1>2, <1>3, <1>4, <1>5, <1>6, <1>7, <1>8, <1>9, <1>10 DEF Next, RunStep

\* Nothing is written at the start.
LEMMA RecordStart ==
  ASSUME NEW E, Init
  PROVE  RecordInv(E)
<1>1. ReportShape
  BY DEF Init, ReportShape
<1>2. RowsNamed
  BY NoRowNames DEF Init, RowsNamed, NoRows, Nameable
<1>3. \A p \in Nameable : Live(p) = {}
  BY DEF Init, Live, Nameable
<1> QED BY <1>1, <1>2, <1>3 DEF RecordInv, Held

\* A release writes no rollback.json.
LEMMA NoWithdrawal ==
  ASSUME ~rollback.exists, [Next]_vars
  PROVE  ~rollback'.exists
<1>1. rollback' = rollback \/ rollback' = RollbackAfterWrite(results, report, rollback)
  BY DEF Next, RunStep, StartRun, BlobNoWork, FinishPublish, SnapcraftNoWork, FinishTail, FinishRun,
         PersistReport, BlobStep, BlobDeselected, BlobSucceeds, BlobFails, DispatchStep,
         DispatchGated, DispatchDeselected, DispatchConfigSkipped, DispatchNightly, DispatchComplete,
         DispatchDiverged, DispatchVerifyBlocked, DispatchSimulatedFailure, DispatchSucceeds,
         DispatchFails, Push, SnapcraftStep, SnapcraftDeselected, SnapcraftGated,
         SnapcraftConfigSkipped, SnapcraftVerifyBlocked, SnapcraftSucceeds, SnapcraftFails,
         RecordSnapcraft, StageError, Kill, KillDuring, Die, disk, vars
<1> QED BY <1>1 DEF RollbackAfterWrite, NoReport

\* The excuse of releases alone.
Nothing == [p \in Publisher |-> {}]

\* A release spread over any number of failed, killed and repeated runs is
\* withdrawn as one: between runs the record names everything a reversible
\* publisher has upstream, except what a killed run never wrote down.  The
\* rows of every reversible publisher must be typed, as `carry_prior_work`
\* needs them, and final, as `candidate_rows` does.
THEOREM ReleasesAreRecorded ==
  ASSUME \A p \in Publisher :
           Group[p] # "Submitter" => p \notin UntypedWhenIdle \cup Moderated
  PROVE  Spec => []WorkIsRecorded
<1> DEFINE Inv == ExitInv({}) /\ RecordInv(Nothing) /\ ~rollback.exists
<1>1. Init => Inv
  BY ExitStart, RecordStart DEF Init, NoReport
<1>2. Inv /\ [Next]_vars => Inv'
  <2> SUFFICES ASSUME Inv, [Next]_vars PROVE Inv'
    OBVIOUS
  <2>1. ExitInv({})' /\ ~rollback'.exists
    BY ExitStep, NoWithdrawal
  <2>2. DoorInv /\ BuildKnown /\ ~Stale
    BY DEF ExitInv, Stale
  <2>3. PICK E : E = Nothing
    OBVIOUS
  <2>4. RecordInv(E)'
    BY <2>2, <2>3, RecordStep
  <2> QED BY <2>1, <2>3, <2>4
<1>3. Inv => WorkIsRecorded
  BY DEF RecordInv, Held, WorkIsRecorded, Nameable, Nothing
<1> QED BY <1>1, <1>2, <1>3, PTL DEF Spec

-----------------------------------------------------------------------------
(***************************************************************************)
(* Withdrawals.                                                            *)
(***************************************************************************)
\* A decided row keeps its items, and names them unless it was withdrawn.
LEMMA DecideNames ==
  ASSUME NEW s \in ReportFile, NEW t \in Side \X Publisher, NEW o \in Outcome, NEW r,
         r = WithOutcome(s, t, o)
  PROVE  /\ \A p \in Publisher : p # t[2] => Withdrawable(r, p) = Withdrawable(s, p)
         /\ Withdrawable(s, t[2]) \subseteq Withdrawable(r, t[2]) \cup s[t[1]][t[2]].items
         /\ o \in {"RollbackFailed", "RollbackSkippedNoScope", s[t[1]][t[2]].outcome}
              => Withdrawable(s, t[2]) \subseteq Withdrawable(r, t[2])
<1>1. t[1] \in Side /\ t[2] \in Publisher /\ t = <<t[1], t[2]>>
  OBVIOUS
<1>2. /\ r[t[1]][t[2]].outcome = o
      /\ r[t[1]][t[2]].items = s[t[1]][t[2]].items
      /\ r[t[1]][t[2]].evidence = s[t[1]][t[2]].evidence
  BY SetOutcome
<1>3. \A u \in Side \X Publisher : u # t => r[u[1]][u[2]] = s[u[1]][u[2]]
  BY SetOutcome
<1>4. r \in ReportFile
  BY SetOutcome
<1>5. \A w \in Side, p \in Publisher : <<w, p>> # t => r[w][p] = s[w][p]
  <2> TAKE w \in Side, p \in Publisher
  <2>1. <<w, p>> \in Side \X Publisher
    OBVIOUS
  <2> QED BY <1>3, <2>1
<1>6. \A p \in Publisher :
        /\ Withdrawable(s, p) = Names(p, s["results"][p]) \cup Names(p, s["carried"][p])
        /\ Withdrawable(r, p) = Names(p, r["results"][p]) \cup Names(p, r["carried"][p])
  BY <1>4, WithdrawableRows, Sides DEF Side
<1>7. ASSUME NEW p \in Publisher, p # t[2] PROVE Withdrawable(r, p) = Withdrawable(s, p)
  <2>1. \A w \in Side : <<w, p>> # t
    BY <1>1, <1>7
  <2>2. r["results"][p] = s["results"][p] /\ r["carried"][p] = s["carried"][p]
    BY <1>5, <2>1 DEF Side
  <2> QED BY <1>6, <2>2
<1>8. \A w \in Side : w # t[1] => r[w][t[2]] = s[w][t[2]]
  <2> SUFFICES ASSUME NEW w \in Side, w # t[1] PROVE r[w][t[2]] = s[w][t[2]]
    OBVIOUS
  <2>1. <<w, t[2]>> # t
    BY <1>1
  <2> QED BY <1>1, <1>5, <2>1
<1>9. \A w \in Side : Names(t[2], s[w][t[2]]) \subseteq Names(t[2], r[w][t[2]]) \cup s[t[1]][t[2]].items
  <2> SUFFICES ASSUME NEW w \in Side
               PROVE  Names(t[2], s[w][t[2]]) \subseteq Names(t[2], r[w][t[2]]) \cup s[t[1]][t[2]].items
    OBVIOUS
  <2>1. CASE w = t[1]
    BY <2>1 DEF Names
  <2>2. CASE w # t[1]
    BY <1>8, <2>2
  <2> QED BY <2>1, <2>2
<1>10. ASSUME o \in {"RollbackFailed", "RollbackSkippedNoScope", s[t[1]][t[2]].outcome}
       PROVE  \A w \in Side : Names(t[2], s[w][t[2]]) \subseteq Names(t[2], r[w][t[2]])
  <2> SUFFICES ASSUME NEW w \in Side
               PROVE  Names(t[2], s[w][t[2]]) \subseteq Names(t[2], r[w][t[2]])
    OBVIOUS
  <2>1. CASE w = t[1]
    BY <1>2, <1>10, <2>1 DEF Names, Acts, candidate_row, records_published_work
  <2>2. CASE w # t[1]
    BY <1>8, <2>2
  <2> QED BY <2>1, <2>2
<1>11. "results" \in Side /\ "carried" \in Side
  BY DEF Side
<1>12. Withdrawable(s, t[2]) \subseteq Withdrawable(r, t[2]) \cup s[t[1]][t[2]].items
  BY <1>1, <1>6, <1>9, <1>11
<1>13. o \in {"RollbackFailed", "RollbackSkippedNoScope", s[t[1]][t[2]].outcome}
         => Withdrawable(s, t[2]) \subseteq Withdrawable(r, t[2])
  BY <1>1, <1>6, <1>10, <1>11
<1> QED BY <1>7, <1>12, <1>13

\* Outside a release, an upstream that shrinks is still on record.
LEMMA ShrinkNames ==
  ASSUME NEW E, RecordInv(E), pc = "idle",
         UNCHANGED <<report, rollback, results, lost, pc>>,
         \A q \in Publisher : Live(q)' \subseteq Live(q)
  PROVE  RecordInv(E)'
<1>1. ReportShape' /\ RowsNamed'
  BY DEF RecordInv, ReportShape, RowsNamed
<1>2. \A p \in Nameable : Recorded(p)' = Recorded(p) /\ lost'[p] = lost[p] /\ p \in Publisher
  BY DEF Recorded, Nameable
<1>3. Held(E)'
  BY <1>2 DEF RecordInv, Held
<1> QED BY <1>1, <1>3 DEF RecordInv

\* A withdrawal takes the named items away.
LEMMA WithdrawGone ==
  ASSUME TypeOK, NEW p \in Publisher, Group[p] # "Submitter", NEW items, Withdraw(p, items)
  PROVE  Live(p)' \cap items = {}
<1>1. upstream' = [upstream EXCEPT ![p] = [i \in Item |-> IF i \in items THEN NoBuild ELSE upstream[p][i]]]
  BY DEF Withdraw
<1>2. upstream'[p] = [i \in Item |-> IF i \in items THEN NoBuild ELSE upstream[p][i]]
  BY <1>1 DEF TypeOK
<1> QED BY <1>2 DEF Live

\* A pass starts from the record.
LEMMA StartKeeps ==
  ASSUME NEW E, TagInv, KeptInv(E), StartRollback
  PROVE  KeptInv(E)'
<1>1. /\ cmd = "none" /\ pc = "idle"
      /\ UNCHANGED <<upstream, report, rollback, pc, results, lost>>
      /\ unwind_published_state
  BY DEF StartRollback, disk
<1>2. RecordInv(E)'
  BY <1>1, SameNames DEF KeptInv
<1>3. PICK prior : prior = load_prior_state(report, rollback)
  OBVIOUS
<1>4. \A p \in Nameable : Live(p)' \subseteq lost'[p] \cup E[p] \cup Withdrawable(prior, p)
  <2>1. \A p \in Nameable : Live(p) \subseteq Recorded(p) \cup lost[p] \cup E[p]
    BY <1>1 DEF KeptInv, RecordInv, Held
  <2>2. \A p \in Nameable : Live(p)' = Live(p) /\ Recorded(p) = Withdrawable(prior, p)
    BY <1>1, <1>3 DEF Live, Recorded
  <2> QED BY <1>1, <2>1, <2>2
<1>5. CASE prior.exists
  <2>1. /\ cmd' = "unwind" /\ state' = prior
        /\ todo' = {t \in Side \X Publisher : candidate_row(t[2], prior[t[1]][t[2]])}
    BY <1>1, <1>3, <1>5 DEF unwind_published_state
  <2>2. \A t \in Side \X Publisher : RowOf(t)' = prior[t[1]][t[2]]
    BY <2>1 DEF RowOf
  <2>3. PassHeld(E)'
    BY <1>4, <2>1, <2>2 DEF PassHeld
  <2> QED BY <1>2, <2>1, <2>3 DEF KeptInv, PassDone
<1>6. CASE ~prior.exists
  <2>1. cmd' = "git"
    BY <1>1, <1>3, <1>6 DEF unwind_published_state
  <2>2. prior = NoReport
    BY <1>3, <1>6 DEF load_prior_state, KeptInv, RecordInv, ReportShape
  <2>3. \A p \in Nameable : prior.results[p] = NoRow /\ prior.carried[p] = NoRow
    BY <2>2 DEF NoReport, NoRows, Nameable
  <2>4. \A p \in Nameable : Withdrawable(prior, p) = {}
    BY <2>3, WithdrawableRows, NoRowNames
  <2>5. PassDone(E)'
    BY <1>4, <2>4 DEF PassDone
  <2> QED BY <1>2, <2>1, <2>5 DEF KeptInv, PassHeld
<1> QED BY <1>5, <1>6

\* A decided row: withdrawn, or still named.
LEMMA DecideKeeps ==
  ASSUME NEW E, TagInv, KeptInv(E),
         NEW t \in Side \X Publisher, UnwindTurn(t), NEW o \in Outcome, Decide(t, o),
         \A q \in Publisher : Live(q)' \subseteq Live(q),
         \/ o \in {"RollbackFailed", "RollbackSkippedNoScope", RowOf(t).outcome}
         \/ Group[t[2]] # "Submitter" => Live(t[2])' \cap RowOf(t).items = {},
         Group[t[2]] # "Submitter" /\ t[2] \notin Retained => o \in WithdrawnOutcome
  PROVE  KeptInv(E)'
<1>1. /\ cmd = "unwind" /\ cmd' = "unwind" /\ t \in todo /\ todo' = todo \ {t}
      /\ state' = WithOutcome(state, t, o)
      /\ UNCHANGED <<report, rollback, pc, results, lost>>
  BY DEF UnwindTurn, Decide, WithOutcome
<1>2. pc = "idle" /\ state \in ReportFile
  BY <1>1 DEF TagInv, Alone, TagTypeOK
<1>3. RecordInv(E)'
  BY <1>1, <1>2, ShrinkNames DEF KeptInv
<1>4. PICK r : r = state'
  OBVIOUS
<1>5. /\ \A p \in Publisher : p # t[2] => Withdrawable(r, p) = Withdrawable(state, p)
      /\ Withdrawable(state, t[2]) \subseteq Withdrawable(r, t[2]) \cup state[t[1]][t[2]].items
      /\ o \in {"RollbackFailed", "RollbackSkippedNoScope", state[t[1]][t[2]].outcome}
           => Withdrawable(state, t[2]) \subseteq Withdrawable(r, t[2])
  BY <1>1, <1>2, <1>4, DecideNames
<1>6. ASSUME NEW p \in Nameable PROVE Live(p)' \subseteq lost'[p] \cup E[p] \cup Withdrawable(r, p)
  <2>1. Live(p) \subseteq lost[p] \cup E[p] \cup Withdrawable(state, p) /\ lost'[p] = lost[p]
    BY <1>1 DEF KeptInv, PassHeld
  <2>2. p \in Publisher /\ Group[p] # "Submitter" /\ Live(p)' \subseteq Live(p)
    BY DEF Nameable
  <2>3. CASE p # t[2]
    BY <1>5, <2>1, <2>2, <2>3
  <2>4. CASE p = t[2] /\ o \in {"RollbackFailed", "RollbackSkippedNoScope", RowOf(t).outcome}
    BY <1>5, <2>1, <2>2, <2>4 DEF RowOf
  <2>5. CASE p = t[2] /\ Live(t[2])' \cap RowOf(t).items = {}
    BY <1>5, <2>1, <2>2, <2>5 DEF RowOf
  <2> QED BY <2>2, <2>3, <2>4, <2>5
<1>7. r[t[1]][t[2]].outcome = o /\ \A u \in Side \X Publisher : u # t => r[u[1]][u[2]] = state[u[1]][u[2]]
  BY <1>1, <1>2, <1>4, SetOutcome
<1>8. RowOf(t)'.outcome = o /\ \A u \in Side \X Publisher : u # t => RowOf(u)' = RowOf(u)
  BY <1>4, <1>7 DEF RowOf
<1>9. ASSUME NEW u \in Side \X Publisher,
             candidate_row(u[2], RowOf(u)'), Group[u[2]] # "Submitter", u[2] \notin Retained
      PROVE  u \in todo' \/ RowOf(u)'.outcome \in {"RollbackFailed", "RollbackSkippedNoScope"}
  <2>1. CASE u = t
    BY <1>8, <1>9, <2>1 DEF candidate_row, WithdrawnOutcome
  <2>2. CASE u # t
    BY <1>1, <1>8, <1>9, <2>2 DEF KeptInv, PassHeld
  <2> QED BY <2>1, <2>2
<1>10. PassHeld(E)'
  BY <1>4, <1>6, <1>9 DEF PassHeld
<1> QED BY <1>1, <1>3, <1>10 DEF KeptInv, PassDone

\* Every way the withdrawal of a row can end.
LEMMA UnwindKeeps ==
  ASSUME NEW E, TagInv, KeptInv(E), NEW t \in Side \X Publisher, UnwindStep(t)
  PROVE  KeptInv(E)'
<1>1. TypeOK /\ t[2] \in Publisher /\ RowOf(t).outcome \in Outcome
  BY RowOfType DEF TagInv, TagTypeOK, Row
<1>2. UnwindTurn(t)
  BY DEF UnwindStep, UnwindUnresolved, UnwindRetained, UnwindNoScope, UnwindSucceeds,
         UnwindFails, Withdraws
<1>3. ASSUME UNCHANGED upstream PROVE \A q \in Publisher : Live(q)' \subseteq Live(q)
  BY <1>3 DEF Live
<1>4. {"RollbackFailed", "RollbackSkippedNoScope", "RolledBack", "Failed"} \subseteq Outcome
  BY DEF Outcome, WithdrawnOutcome
<1>5. CASE UnwindUnresolved(t)
  <2>1. Decide(t, "RollbackFailed") /\ UNCHANGED upstream
    BY <1>5 DEF UnwindUnresolved
  <2> QED BY <1>2, <1>3, <1>4, <2>1, DecideKeeps DEF WithdrawnOutcome
<1>6. CASE UnwindRetained(t)
  <2>1. Decide(t, RowOf(t).outcome) /\ UNCHANGED upstream /\ t[2] \in Retained
    BY <1>6 DEF UnwindRetained
  <2> QED BY <1>1, <1>2, <1>3, <2>1, DecideKeeps
<1>7. CASE UnwindNoScope(t)
  <2>1. Decide(t, "RollbackSkippedNoScope") /\ UNCHANGED upstream
    BY <1>7 DEF UnwindNoScope
  <2> QED BY <1>2, <1>3, <1>4, <2>1, DecideKeeps DEF WithdrawnOutcome
<1>8. CASE UnwindSucceeds(t)
  <2>1. PICK o : o = IF Group[t[2]] = "Submitter" /\ RowOf(t).outcome = "Failed"
                     THEN "Failed" ELSE "RolledBack"
    OBVIOUS
  <2>2. Withdraw(t[2], RowOf(t).items) /\ Decide(t, o)
    BY <1>8, <2>1 DEF UnwindSucceeds
  <2>3. o \in Outcome /\ (Group[t[2]] # "Submitter" => o \in WithdrawnOutcome)
    BY <1>4, <2>1 DEF WithdrawnOutcome
  <2>4. \A q \in Publisher : Live(q)' \subseteq Live(q)
    BY <1>1, <2>2, WithdrawEffect
  <2>5. Group[t[2]] # "Submitter" => Live(t[2])' \cap RowOf(t).items = {}
    BY <1>1, <2>2, WithdrawGone
  <2> QED BY <1>2, <2>2, <2>3, <2>4, <2>5, DecideKeeps
<1>9. CASE UnwindFails(t)
  <2>1. PICK done : Withdraw(t[2], done) /\ Decide(t, "RollbackFailed")
    BY <1>9 DEF UnwindFails
  <2>2. \A q \in Publisher : Live(q)' \subseteq Live(q)
    BY <1>1, <2>1, WithdrawEffect
  <2> QED BY <1>2, <1>4, <2>1, <2>2, DecideKeeps DEF WithdrawnOutcome
<1> QED BY <1>5, <1>6, <1>7, <1>8, <1>9 DEF UnwindStep

\* The written pass is the record, and what is live in it failed to go.
LEMMA PersistKeeps ==
  ASSUME NEW E, TagInv, KeptInv(E), PersistWithdrawal
  PROVE  KeptInv(E)'
<1>1. /\ cmd = "unwind" /\ todo = {} /\ cmd' = "mark" /\ rollback' = state
      /\ UNCHANGED <<upstream, report, pc, results, lost>>
  BY DEF PersistWithdrawal
<1>2. pc = "idle" /\ state \in ReportFile /\ state.exists
  BY <1>1 DEF TagInv, Alone, TagTypeOK, Unwinding
<1>3. \A p \in Nameable : Live(p)' \subseteq lost'[p] \cup E[p] \cup Withdrawable(state, p)
  <2>1. \A p \in Nameable : Live(p)' = Live(p)
    BY <1>1 DEF Live
  <2> QED BY <1>1, <2>1 DEF KeptInv, PassHeld
<1>4. \A p \in Nameable : Recorded(p)' = Withdrawable(state, p)
  BY <1>1, <1>2 DEF Recorded, load_prior_state
<1>5. RecordInv(E)'
  BY <1>1, <1>2, <1>3, <1>4 DEF KeptInv, RecordInv, ReportShape, RowsNamed, Held
<1>6. ASSUME NEW p \in Nameable \ Retained PROVE Withdrawable(state, p) \subseteq Unfinished(state, p)
  <2>1. p \in Publisher /\ Group[p] # "Submitter"
    BY DEF Nameable
  <2>2. ASSUME NEW w \in Side PROVE Names(p, state[w][p]) \subseteq Unfinished(state, p)
    <3>1. PICK t \in Side \X Publisher : t = <<w, p>>
      BY <2>1
    <3>2. t[1] = w /\ t[2] = p /\ RowOf(t) = state[w][p]
      BY <3>1 DEF RowOf
    <3>3. candidate_row(p, state[w][p]) =>
            state[w][p].outcome \in {"RollbackFailed", "RollbackSkippedNoScope"}
      BY <1>1, <2>1, <3>2 DEF KeptInv, PassHeld
    <3> QED BY <3>3 DEF Names, Acts, Unfinished
  <2>3. Withdrawable(state, p) = Names(p, state["results"][p]) \cup Names(p, state["carried"][p])
    BY <1>2, WithdrawableRows, Sides DEF Side
  <2> QED BY <2>2, <2>3 DEF Side
<1>7. PassDone(E)'
  BY <1>1, <1>3, <1>6 DEF PassDone, Unfinished
<1> QED BY <1>1, <1>5, <1>7 DEF KeptInv, PassHeld

\* A step of the command that leaves upstreams and records alone.
LEMMA OverKeeps ==
  ASSUME NEW E, KeptInv(E), UNCHANGED <<upstream, report, rollback, results, lost, pc>>,
         cmd' # "unwind", cmd' = "none" \/ cmd \in {"mark", "git", "push", "delete", "delete_local"}
  PROVE  KeptInv(E)'
<1>1. RecordInv(E)'
  BY SameNames DEF KeptInv
<1>2. \A p \in Nameable : Live(p)' = Live(p) /\ Unfinished(rollback, p)' = Unfinished(rollback, p)
  BY DEF Live, Unfinished
<1>3. PassDone(E)'
  BY <1>2 DEF KeptInv, PassDone
<1> QED BY <1>1, <1>3 DEF KeptInv, PassHeld

\* Nothing happens.
LEMMA KeptStutter ==
  ASSUME NEW E, KeptInv(E), UNCHANGED allvars
  PROVE  KeptInv(E)'
<1>1. UNCHANGED <<upstream, report, rollback, results, lost, pc>> /\ UNCHANGED <<cmd, state, todo>>
  BY DEF allvars, vars, tagvars
<1>2. RecordInv(E)'
  BY <1>1, SameNames DEF KeptInv
<1>3. \A p \in Nameable : Live(p)' = Live(p)
  BY <1>1 DEF Live
<1>4. PassHeld(E)' /\ PassDone(E)'
  BY <1>1, <1>3 DEF KeptInv, PassHeld, PassDone, RowOf, Unfinished
<1> QED BY <1>2, <1>4 DEF KeptInv

\* Every step of a withdrawal and a re-cut keeps the record.
LEMMA KeptCommand ==
  ASSUME NEW E, TagInv, KeptInv(E), [TagNext]_allvars, ~Release
  PROVE  KeptInv(E)'
<1>1. CASE StartRollback
  BY <1>1, StartKeeps
<1>2. CASE \E t \in Side \X Publisher : UnwindStep(t)
  BY <1>2, UnwindKeeps
<1>3. CASE PersistWithdrawal
  BY <1>3, PersistKeeps
<1>4. CASE MarkWithdrawn
  BY <1>4, OverKeeps DEF MarkWithdrawn
<1>5. CASE GitStep
  <2>1. /\ cmd \in {"git", "push", "delete", "delete_local"}
        /\ cmd' \in {"none", "push", "delete", "delete_local"} /\ UNCHANGED release
    BY <1>5, GitFrame
  <2>2. UNCHANGED <<upstream, report, rollback, results, lost, pc>>
    BY <2>1 DEF release
  <2> QED BY <2>1, <2>2, OverKeeps
<1>6. CASE KillRollback
  <2>1. cmd # "none" /\ cmd' = "none" /\ UNCHANGED <<report, rollback, pc, results, lost>>
    BY <1>6 DEF KillRollback, Return
  <2>2. UNCHANGED upstream \/ \E t \in todo : \E done : Withdraw(t[2], done)
    BY <1>6 DEF KillRollback
  <2>3. TypeOK /\ todo \subseteq Side \X Publisher /\ pc = "idle"
    BY <2>1 DEF TagInv, TagTypeOK, Alone
  <2>4. \A q \in Publisher : Live(q)' \subseteq Live(q)
    <3>1. CASE UNCHANGED upstream
      BY <3>1 DEF Live
    <3>2. CASE \E t \in todo : \E done : Withdraw(t[2], done)
      <4>1. PICK t, done : t \in todo /\ Withdraw(t[2], done)
        BY <3>2
      <4>2. t[2] \in Publisher
        BY <2>3, <4>1
      <4> QED BY <2>3, <4>1, <4>2, WithdrawEffect
    <3> QED BY <2>2, <3>1, <3>2
  <2>5. RecordInv(E)'
    BY <2>1, <2>3, <2>4, ShrinkNames DEF KeptInv
  <2> QED BY <2>1, <2>5 DEF KeptInv, PassHeld, PassDone
<1>7. CASE ReCut
  <2>1. cmd' = "none" /\ UNCHANGED <<upstream, report, rollback, results, lost, pc>>
    BY <1>7 DEF ReCut, release
  <2> QED BY <2>1, OverKeeps
<1>8. CASE UNCHANGED allvars
  BY <1>8, KeptStutter
<1> QED BY <1>1, <1>2, <1>3, <1>4, <1>5, <1>6, <1>7, <1>8 DEF TagNext, RollbackStep, GitStep

\* So does a release, when the excuse takes up what a stale rollback.json hides.
LEMMA KeptRelease ==
  ASSUME NEW E, NEW F, TagInv, KeptInv(E), Release,
         \A p \in Nameable : E[p] \subseteq F[p],
         (FinishPublish \/ FinishRun) /\ Stale =>
           \A p \in Nameable : results[p].items \subseteq Recorded(p) \cup F[p]
  PROVE  KeptInv(F)'
<1>1. [Next]_vars /\ cmd' = "none"
  BY DEF Release, tagvars, Next
<1>2. DoorInv /\ BuildKnown
  BY DEF TagInv, ExitInv
<1>3. RecordInv(F)'
  BY <1>1, <1>2, RecordStep DEF KeptInv
<1> QED BY <1>1, <1>3 DEF KeptInv, PassHeld, PassDone

\* A wider excuse.
LEMMA KeptGrows ==
  ASSUME NEW E, NEW F, KeptInv(E)', \A p \in Nameable : E[p] \subseteq F[p]
  PROVE  KeptInv(F)'
<1>1. RecordInv(F)'
  BY RecordGrows DEF KeptInv
<1>2. PassHeld(F)' /\ PassDone(F)'
  BY DEF KeptInv, PassHeld, PassDone
<1> QED BY <1>1, <1>2 DEF KeptInv

\* The excuse of a tag's history is `masked`; as a value, so that the lemmas
\* apply to it.
LEMMA Masked ==
  ASSUME NEW E, E = masked
  PROVE  KeptInv(masked) <=> KeptInv(E)
  BY DEF KeptInv, RecordInv, Held, PassHeld, PassDone

\* The same in the next state.
LEMMA MaskedNext ==
  ASSUME NEW F, F = masked', KeptInv(F)'
  PROVE  KeptInv(masked)'
  BY DEF KeptInv, RecordInv, Held, PassHeld, PassDone

\* `masked` grows by what a stale rollback.json hides, and never shrinks.
LEMMA MaskGrows ==
  ASSUME RowsNamed, [HistoryNext]_historyvars, NEW E, E = masked, NEW F, F = masked'
  PROVE  /\ \A p \in Nameable : E[p] \subseteq F[p]
         /\ HistoryNext /\ (FinishPublish \/ FinishRun) /\ Stale =>
              \A p \in Nameable : results[p].items \subseteq Recorded(p) \cup F[p]
<1>1. \A p \in Nameable : p \in Publisher
  BY DEF Nameable
<1>2. CASE ~HistoryNext
  <2>1. F = E
    BY <1>2 DEF historyvars
  <2> QED BY <1>2, <2>1
<1>3. CASE HistoryNext /\ KeepsStaleRollback
  <2>1. F = [p \in Publisher |-> IF p \in FreshEvidence THEN E[p]
                                ELSE E[p] \cup (results[p].items \ Recorded(p))]
    BY <1>3 DEF HistoryNext, Remember
  <2>2. \A p \in Nameable \cap FreshEvidence : results[p].items = {}
    <3>1. \A p \in FreshEvidence : ~records_published_work(results[p])
      BY <1>3 DEF KeepsStaleRollback, SameBytes
    <3> QED BY <3>1 DEF RowsNamed, Names, Acts, records_published_work
  <2> QED BY <1>1, <2>1, <2>2
<1>4. CASE HistoryNext /\ ~KeepsStaleRollback
  <2>1. F = E
    BY <1>4 DEF HistoryNext, Remember
  <2> QED BY <1>4, <2>1 DEF KeepsStaleRollback, Stale
<1> QED BY <1>2, <1>3, <1>4

\* Every step of a tag's history keeps the record.
LEMMA KeptStep ==
  ASSUME TagInv, KeptInv(masked), [HistoryNext]_historyvars
  PROVE  KeptInv(masked)'
<1>1. PICK E : E = masked
  OBVIOUS
<1>2. PICK F : F = masked'
  OBVIOUS
<1>0. RowsNamed
  BY DEF KeptInv, RecordInv
<1>3. KeptInv(E) /\ \A p \in Nameable : E[p] \subseteq F[p]
  BY <1>0, <1>1, <1>2, Masked, MaskGrows
<1>4. CASE Release /\ HistoryNext
  <2>1. (FinishPublish \/ FinishRun) /\ Stale =>
          \A p \in Nameable : results[p].items \subseteq Recorded(p) \cup F[p]
    BY <1>0, <1>1, <1>2, <1>4, MaskGrows
  <2>2. KeptInv(F)'
    BY <1>3, <1>4, <2>1, KeptRelease
  <2> QED BY <1>2, <2>2, MaskedNext
<1>5. CASE ~Release /\ HistoryNext
  <2>1. KeptInv(E)'
    BY <1>3, <1>5, KeptCommand DEF HistoryNext
  <2>2. KeptInv(F)'
    BY <1>3, <2>1, KeptGrows
  <2> QED BY <1>2, <2>2, MaskedNext
<1>6. CASE UNCHANGED historyvars
  <2>1. ~Release \/ (Release /\ TagNext)
    BY DEF TagNext
  <2>2. UNCHANGED allvars /\ F = E
    BY <1>1, <1>2, <1>6 DEF historyvars
  <2>3. KeptInv(E)'
    BY <1>3, <2>2, KeptStutter
  <2> QED BY <1>2, <2>2, <2>3, MaskedNext
<1> QED BY <1>4, <1>5, <1>6

\* The invariant holds in every history of the tag.
LEMMA KeptInvariant == HistorySpec => [](TagInv /\ KeptInv(masked))
<1>1. HistoryInit => TagInv /\ KeptInv(masked)
  <2> SUFFICES ASSUME HistoryInit PROVE TagInv /\ KeptInv(masked)
    OBVIOUS
  <2>1. TagInit /\ Init /\ cmd = "none"
    BY DEF HistoryInit, TagInit
  <2>2. PICK E : E = masked
    OBVIOUS
  <2>3. RecordInv(E)
    BY <2>1, RecordStart
  <2>4. KeptInv(E)
    BY <2>1, <2>3 DEF KeptInv, PassHeld, PassDone
  <2> QED BY <2>1, <2>2, <2>4, Masked, TagStart
<1>2. TagInv /\ KeptInv(masked) /\ [HistoryNext]_historyvars => TagInv' /\ KeptInv(masked)'
  BY HistoryTagStep, TagStep, KeptStep
<1> QED BY <1>1, <1>2, PTL DEF HistorySpec

\* Partial, failed, killed and repeated withdrawals, and the releases between
\* them, lose no record of a publisher whose rows are typed: what is live at
\* its upstream is named by the file the next withdrawal replays, but for
\* what a killed release never wrote down and, of a publisher whose evidence
\* repeats itself, what an unchanged report.json left behind a superseded
\* rollback.json.
THEOREM RecordsSurvive == HistorySpec => []WorkStaysRecorded
<1>1. KeptInv(masked) => WorkStaysRecorded
  BY DEF KeptInv, RecordInv, Held, WorkStaysRecorded
<1> QED BY <1>1, KeptInvariant, PTL

\* The step of DeletesWithdrawn.
DeletedIsWithdrawn ==
  ~(tags \subseteq tags') =>
    \A p \in Nameable \ Retained :
      Live(p) \subseteq lost[p] \cup masked[p] \cup UNION {rollback[w][p].items : w \in
        {v \in Side : rollback[v][p].outcome
                        \in {"RollbackFailed", "RollbackSkippedNoScope"}}}

\* A tag is deleted only after its release was withdrawn: what a reversible
\* upstream with typed rows holds then is retained, or named by a row of
\* rollback.json that says that its withdrawal failed, or was in no record
\* the withdrawal could read.
THEOREM TagsOutliveReleases == HistorySpec => DeletesWithdrawn
<1>1. TagInv /\ KeptInv(masked) /\ [HistoryNext]_historyvars => [DeletedIsWithdrawn]_historyvars
  <2> SUFFICES ASSUME TagInv, KeptInv(masked), HistoryNext, ~(tags \subseteq tags'),
                      NEW p \in Nameable \ Retained
               PROVE  Live(p) \subseteq lost[p] \cup masked[p] \cup Unfinished(rollback, p)
    BY DEF DeletedIsWithdrawn, Unfinished
  <2>1. cmd \in {"delete", "delete_local"}
    BY TagDeletion DEF HistoryNext
  <2> QED BY <2>1 DEF KeptInv, PassDone
<1>2. DeletesWithdrawn <=> [][DeletedIsWithdrawn]_historyvars
  BY PTL DEF DeletesWithdrawn, DeletedIsWithdrawn
<1> QED BY <1>1, <1>2, KeptInvariant, PTL DEF HistorySpec

=============================================================================
