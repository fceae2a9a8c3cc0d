-------------------------- MODULE TagRollbackProofs --------------------------
(***************************************************************************)
(* Theorems about TagRollback and ReleaseHistory: releases, rollbacks and  *)
(* re-cuts of one tag, for every configuration, every command line and any *)
(* number of faults.                                                       *)
(***************************************************************************)
EXTENDS ReleaseHistory, ExitSoundProofs

-----------------------------------------------------------------------------
(***************************************************************************)
(* The inductive invariant.                                                *)
(***************************************************************************)
\* The row a pass started from.
Prior(t) == load_prior_state(report, rollback)[t[1]][t[2]]

\* No release runs beside the command, and nobody reads an exit status then.
Alone == cmd # "none" => pc = "idle" /\ exit = "none"

\* The branch is where the command line wants it before a tag is touched.
GitOrder ==
  /\ cmd = "push" => cmdopts.mode = "revert"
  /\ cmd \in {"delete", "delete_local"} =>
       /\ cmdopts.mode = "reset" => local = "reset"
       /\ cmdopts.mode = "revert" /\ ~cmdopts.no_push => origin = "reverted"

\* What the guard found absent is absent for as long as the command runs.
Guarded ==
  cmd # "none" /\ ~cmdopts.force => \A p \in Probed("closed") : Live(p) = {}

\* The rows in memory: the decided ones say so, and no withdrawal on record
\* is forgotten.
Unwinding ==
  cmd = "unwind" =>
    /\ state.exists
    /\ \A t \in todo : candidate_row(t[2], Prior(t))
    /\ \A t \in Side \X Publisher :
         /\ Prior(t).outcome \in WithdrawnOutcome => RowOf(t).outcome \in WithdrawnOutcome
         /\ /\ t \notin todo /\ candidate_row(t[2], Prior(t))
            /\ Group[t[2]] # "Submitter" /\ t[2] \notin Retained
            => RowOf(t).outcome \in WithdrawnOutcome

TagInv ==
  /\ TagTypeOK
  /\ Alone
  /\ GitOrder
  /\ NoLimbo
  /\ Guarded
  /\ Unwinding
  /\ ExitInv(torn \cup Unwritten)

-----------------------------------------------------------------------------
(***************************************************************************)
(* Rows in a file of the run directory.                                    *)
(***************************************************************************)
\* The two lists of a report, by name.
LEMMA Sides ==
  ASSUME NEW s \in ReportFile, NEW w \in Side
  PROVE  /\ s[w] \in [Publisher -> Row]
         /\ s["results"] = s.results /\ s["carried"] = s.carried
  BY DEF ReportFile, Side

WithOutcome(s, t, o) == [s EXCEPT ![t[1]][t[2]].outcome = o]

\* Setting one outcome changes nothing else.
LEMMA SetOutcome ==
  ASSUME NEW s \in ReportFile, NEW t \in Side \X Publisher, NEW o \in Outcome, NEW r,
         r = WithOutcome(s, t, o)
  PROVE  /\ r \in ReportFile /\ r.exists = s.exists
         /\ r[t[1]][t[2]].outcome = o
         /\ r[t[1]][t[2]].items = s[t[1]][t[2]].items
         /\ r[t[1]][t[2]].evidence = s[t[1]][t[2]].evidence
         /\ \A u \in Side \X Publisher : u # t => r[u[1]][u[2]] = s[u[1]][u[2]]
<1> DEFINE row == [s[t[1]][t[2]] EXCEPT !.outcome = o]
           rows == [s[t[1]] EXCEPT ![t[2]] = row]
<1>1. t[1] \in Side /\ t[2] \in Publisher /\ t = <<t[1], t[2]>>
  OBVIOUS
<1>2. s[t[1]] \in [Publisher -> Row] /\ s[t[1]][t[2]] \in Row
  BY <1>1, Sides
<1>3. row \in Row /\ row.outcome = o /\ row.items = s[t[1]][t[2]].items /\ row.evidence = s[t[1]][t[2]].evidence
  BY <1>2 DEF Row
<1>4. rows \in [Publisher -> Row] /\ rows[t[2]] = row /\ \A q \in Publisher : q # t[2] => rows[q] = s[t[1]][q]
  BY <1>1, <1>2, <1>3
<1>5. r = [s EXCEPT ![t[1]] = rows]
  BY DEF WithOutcome
<1> HIDE DEF row, rows
<1>6. r \in ReportFile /\ r.exists = s.exists
  <2>1. CASE t[1] = "results"
    BY <2>1, <1>4, <1>5 DEF ReportFile
  <2>2. CASE t[1] = "carried"
    BY <2>2, <1>4, <1>5 DEF ReportFile
  <2> QED BY <1>1, <2>1, <2>2 DEF Side
<1>7. r[t[1]] = rows /\ \A w \in Side : w # t[1] => r[w] = s[w]
  <2>1. CASE t[1] = "results"
    BY <2>1, <1>5 DEF ReportFile, Side
  <2>2. CASE t[1] = "carried"
    BY <2>2, <1>5 DEF ReportFile, Side
  <2> QED BY <1>1, <2>1, <2>2 DEF Side
<1>8. ASSUME NEW u \in Side \X Publisher, u # t PROVE r[u[1]][u[2]] = s[u[1]][u[2]]
  <2>1. u[1] \in Side /\ u[2] \in Publisher /\ (u[1] # t[1] \/ u[2] # t[2])
    BY <1>1, <1>8
  <2> QED BY <2>1, <1>4, <1>7
<1>9. r[t[1]][t[2]] = row
  BY <1>4, <1>7
<1> QED BY <1>3, <1>6, <1>8, <1>9

-----------------------------------------------------------------------------
(***************************************************************************)
(* Exit status zero beside a command: ExitInv promises nothing about the   *)
(* publishers a pass has touched and not written down.                     *)
(***************************************************************************)
\* The excused set as a value, so that the pipeline's lemmas apply to it.
LEMMA Excused ==
  ASSUME NEW T, T = torn \cup Unwritten
  PROVE  ExitInv(torn \cup Unwritten) <=> ExitInv(T)
  BY DEF ExitInv, LedgerTrue, RowsTrue, RowTrue, ExitSoundBut, Complete

\* The same in the next state.
LEMMA ExcusedNext ==
  ASSUME NEW U, U = (torn \cup Unwritten)', ExitInv(U)'
  PROVE  ExitInv(torn \cup Unwritten)'
  BY DEF ExitInv, LedgerTrue, RowsTrue, RowTrue, ExitSoundBut, Complete

\* A step of the command leaves the process of the release alone.
LEMMA ExitOver ==
  ASSUME NEW T, NEW U, ExitInv(T), pc = "idle", UNCHANGED <<pc, results, opts>>,
         TypeOK', exit' = "none", LedgerTrue(U)'
  PROVE  ExitInv(U)'
<1>1. DoorInv'
  BY DEF ExitInv, DoorInv, InDispatchOrder, DoorsCloseBehindFailure
<1> QED BY <1>1 DEF ExitInv, BuildKnown, Snapshot, Served, ExitSoundBut

\* The ledger stays true when what changes upstream is excused.
LEMMA LedgerOver ==
  ASSUME NEW T, NEW U, T \subseteq U, LedgerTrue(T), UNCHANGED <<summary, rollback>>,
         \A q \in Publisher : upstream'[q] # upstream[q] => q \in U
  PROVE  LedgerTrue(U)'
<1> SUFFICES ASSUME NEW p \in Publisher, Claims(summary.results, p), p \notin U,
                    ~withdrawn_beside(rollback, p)
             PROVE  Live(p)' = Item
  BY DEF LedgerTrue, Complete
<1>1. Live(p) = Item /\ upstream'[p] = upstream[p]
  BY DEF LedgerTrue, Complete
<1> QED BY <1>1 DEF Live

\* What the command has to show for TagInv, apart from its own order.
LEMMA Over ==
  ASSUME TagInv, TagTypeOK', pc = "idle", UNCHANGED <<pc, results, opts>>, exit' = "none",
         NEW U, U = (torn \cup Unwritten)', LedgerTrue(U)',
         GitOrder', NoLimbo', Guarded', Unwinding'
  PROVE  TagInv'
<1>1. PICK T : T = torn \cup Unwritten
  OBVIOUS
<1>2. ExitInv(T)
  BY <1>1, Excused DEF TagInv
<1>3. ExitInv(U)'
  BY <1>2, ExitOver DEF TagTypeOK
<1>4. ExitInv(torn \cup Unwritten)'
  BY <1>3, ExcusedNext
<1> QED BY <1>4 DEF TagInv, Alone

\* The ledger, as the invariant has it.
LEMMA Ledger ==
  ASSUME TagInv, NEW T, T = torn \cup Unwritten
  PROVE  LedgerTrue(T)
<1>1. ExitInv(T)
  BY Excused DEF TagInv
<1> QED BY <1>1 DEF ExitInv

-----------------------------------------------------------------------------
(***************************************************************************)
(* Releases and re-cuts.                                                   *)
(***************************************************************************)
\* A step of a release is one of the pipeline.
LEMMA ReleaseStep ==
  ASSUME TagInv, Release
  PROVE  TagInv'
<1>1. /\ [Next]_vars
      /\ cmd = "none" /\ cmd' = "none"
      /\ UNCHANGED <<cmdopts, state, todo, local, origin, tags, torn>>
  BY DEF Release, tagvars, Next
<1>2. TypeOK'
  BY <1>1, TypeStep DEF TagInv, TagTypeOK
<1>3. TagTypeOK'
  BY <1>1, <1>2 DEF TagInv, TagTypeOK
<1>4. PICK T : T = torn \cup Unwritten
  OBVIOUS
<1>5. ExitInv(T)'
  BY <1>1, <1>4, Excused, ExitStep DEF TagInv
<1>6. T = (torn \cup Unwritten)'
  BY <1>1, <1>4 DEF Unwritten
<1>7. ExitInv(torn \cup Unwritten)'
  BY <1>5, <1>6, ExcusedNext
<1> QED BY <1>1, <1>3, <1>7 DEF TagInv, Alone, GitOrder, NoLimbo, Guarded, Unwinding

\* A re-cut puts the branch and both tags back.
LEMMA ReCutStep ==
  ASSUME TagInv, ReCut
  PROVE  TagInv'
<1>1. /\ cmd = "none" /\ cmd' = "none"
      /\ UNCHANGED <<upstream, summary, report, rollback, pc, results, verify, build, opts, exit, lost>>
      /\ UNCHANGED <<faults, cmdopts, state, todo, torn>>
      /\ tags' = {"local", "remote"} /\ local' = "bump" /\ origin' = "bump"
  BY DEF ReCut, release
<1>2. TagTypeOK'
  BY <1>1 DEF TagInv, TagTypeOK, TypeOK, Head
<1>3. PICK T : T = torn \cup Unwritten
  OBVIOUS
<1>4. [Next]_vars
  BY <1>1 DEF vars
<1>5. ExitInv(T)'
  BY <1>3, <1>4, Excused, ExitStep DEF TagInv
<1>6. T = (torn \cup Unwritten)'
  BY <1>1, <1>3 DEF Unwritten
<1>7. ExitInv(torn \cup Unwritten)'
  BY <1>5, <1>6, ExcusedNext
<1> QED BY <1>1, <1>2, <1>7 DEF TagInv, Alone, GitOrder, NoLimbo, Guarded, Unwinding

-----------------------------------------------------------------------------
(***************************************************************************)
(* The guard and the withdrawal.                                           *)
(***************************************************************************)
\* A fault is counted.
LEMMA FaultTypes ==
  ASSUME faults \in Nat, Fault \/ UNCHANGED faults
  PROVE  faults' \in Nat
  BY DEF Fault

\* The state a pass starts from is a report.
LEMMA PriorType ==
  ASSUME TypeOK
  PROVE  /\ load_prior_state(report, rollback) \in ReportFile
         /\ \A t \in Side \X Publisher : Prior(t) \in Row
<1>1. load_prior_state(report, rollback) \in ReportFile
  BY DEF TypeOK, load_prior_state
<1>2. ASSUME NEW t \in Side \X Publisher PROVE Prior(t) \in Row
  <2>1. t[1] \in Side /\ t[2] \in Publisher
    OBVIOUS
  <2> QED BY <1>1, <2>1, Sides DEF Prior
<1> QED BY <1>1, <1>2

\* The guard looks before anything is changed.
LEMMA StartStep ==
  ASSUME TagInv, StartRollback
  PROVE  TagInv'
<1>1. /\ cmd = "none" /\ pc = "idle" /\ exit' = "none"
      /\ UNCHANGED <<upstream, summary, report, rollback, pc, results, verify, build, opts, lost>>
      /\ UNCHANGED <<local, origin, tags, torn>>
      /\ unwind_published_state
  BY DEF StartRollback, disk
<1>2. PICK o \in Commands :
        /\ cmdopts' = o
        /\ IF o.force THEN UNCHANGED faults ELSE check_not_irreversibly_published
  BY DEF StartRollback
<1>3. faults' \in Nat
  BY <1>2, FaultTypes DEF TagInv, TagTypeOK, TypeOK, check_not_irreversibly_published
<1>4. cmdopts' \in Command
  BY <1>2, RollbackAssumption
<1> DEFINE prior == load_prior_state(report, rollback)
<1>5. prior \in ReportFile
  BY PriorType DEF TagInv, TagTypeOK
<1>6. /\ cmd' \in {"unwind", "git"}
      /\ state' \in ReportFile
      /\ todo' \subseteq Side \X Publisher
      /\ cmd' = "unwind" =>
           /\ state' = prior /\ prior.exists
           /\ todo' = {t \in Side \X Publisher : candidate_row(t[2], prior[t[1]][t[2]])}
  BY <1>1, <1>5 DEF TagInv, TagTypeOK, unwind_published_state
<1> HIDE DEF prior
<1>7. TypeOK'
  BY <1>1, <1>3 DEF TagInv, TagTypeOK, TypeOK
<1>8. TagTypeOK'
  BY <1>1, <1>4, <1>6, <1>7 DEF TagInv, TagTypeOK
<1>9. Guarded'
  BY <1>1, <1>2 DEF Guarded, check_not_irreversibly_published, Live, Probed
<1>10. Unwinding'
  <2> SUFFICES ASSUME cmd' = "unwind" PROVE Unwinding'
    BY DEF Unwinding
  <2>1. \A t \in Side \X Publisher : Prior(t)' = Prior(t) /\ RowOf(t)' = Prior(t)
    BY <1>1, <1>6 DEF Prior, RowOf, prior
  <2>2. \A t \in todo' : t \in Side \X Publisher /\ candidate_row(t[2], Prior(t))
    BY <1>6 DEF Prior, prior
  <2>3. \A t \in Side \X Publisher : t \notin todo' => ~candidate_row(t[2], Prior(t))
    BY <1>6 DEF Prior, prior
  <2> QED BY <1>6, <2>1, <2>2, <2>3 DEF Unwinding
<1>11. PICK T : T = torn \cup Unwritten
  OBVIOUS
<1>12. PICK U : U = (torn \cup Unwritten)'
  OBVIOUS
<1>13. T \subseteq U
  BY <1>1, <1>11, <1>12 DEF Unwritten
<1>14. LedgerTrue(U)'
  BY <1>1, <1>11, <1>13, Ledger, LedgerOver
<1>15. GitOrder' /\ NoLimbo'
  BY <1>1, <1>6 DEF TagInv, GitOrder, NoLimbo
<1> QED BY <1>1, <1>8, <1>9, <1>10, <1>12, <1>14, <1>15, Over

\* Deciding a row: its outcome is set, it is done with, and a withdrawal
\* touches the upstream of its publisher only.
LEMMA DecideStep ==
  ASSUME TagInv, NEW t \in Side \X Publisher, UnwindTurn(t), NEW o \in Outcome, Decide(t, o),
         faults' \in Nat,
         upstream' \in [Publisher -> [Item -> Build \cup {NoBuild}]],
         \A q \in Publisher : Live(q)' \subseteq Live(q),
         \A q \in Publisher : upstream'[q] # upstream[q] =>
           q = t[2] /\ Group[q] # "Submitter" /\ q \notin Retained,
         RowOf(t).outcome \in WithdrawnOutcome => o \in WithdrawnOutcome,
         Group[t[2]] # "Submitter" /\ t[2] \notin Retained => o \in WithdrawnOutcome
  PROVE  TagInv'
<1>1. /\ cmd = "unwind" /\ cmd' = "unwind" /\ t \in todo /\ todo' = todo \ {t}
      /\ state' = [state EXCEPT ![t[1]][t[2]].outcome = o]
      /\ UNCHANGED <<summary, report, rollback, pc, results, verify, build, opts, exit, lost>>
      /\ UNCHANGED <<cmdopts, local, origin, tags, torn>>
  BY DEF UnwindTurn, Decide
<1>2. pc = "idle" /\ exit' = "none"
  BY <1>1 DEF TagInv, Alone
<1>3. /\ state' \in ReportFile /\ state'.exists = state.exists
      /\ state'[t[1]][t[2]].outcome = o
      /\ \A u \in Side \X Publisher : u # t => state'[u[1]][u[2]] = state[u[1]][u[2]]
  <2>1. state \in ReportFile /\ state' = WithOutcome(state, t, o)
    BY <1>1 DEF TagInv, TagTypeOK, WithOutcome
  <2>2. PICK r : r = state'
    OBVIOUS
  <2>3. r \in ReportFile /\ r.exists = state.exists /\ r[t[1]][t[2]].outcome = o
    BY <2>1, <2>2, SetOutcome
  <2>4. \A u \in Side \X Publisher : u # t => r[u[1]][u[2]] = state[u[1]][u[2]]
    BY <2>1, <2>2, SetOutcome
  <2> QED BY <2>2, <2>3, <2>4
<1>4. TypeOK'
  BY <1>1 DEF TagInv, TagTypeOK, TypeOK
<1>5. TagTypeOK'
  BY <1>1, <1>3, <1>4 DEF TagInv, TagTypeOK
<1>6. Guarded'
  BY <1>1, PublisherAssumption DEF TagInv, Guarded, Probed
<1>7. \A u \in Side \X Publisher : Prior(u)' = Prior(u)
  BY <1>1 DEF Prior
<1>8. Unwinding'
  <2>1. RowOf(t)'.outcome = o /\ \A u \in Side \X Publisher : u # t => RowOf(u)' = RowOf(u)
    BY <1>3 DEF RowOf
  <2>2. Unwinding /\ todo \subseteq Side \X Publisher
    BY DEF TagInv, TagTypeOK
  <2>3. state'.exists /\ \A u \in todo' : candidate_row(u[2], Prior(u)')
    BY <1>1, <1>3, <1>7, <2>2 DEF Unwinding
  <2>4. ASSUME NEW u \in Side \X Publisher
        PROVE  /\ Prior(u)'.outcome \in WithdrawnOutcome => RowOf(u)'.outcome \in WithdrawnOutcome
               /\ /\ u \notin todo' /\ candidate_row(u[2], Prior(u)')
                  /\ Group[u[2]] # "Submitter" /\ u[2] \notin Retained
                  => RowOf(u)'.outcome \in WithdrawnOutcome
    BY <1>1, <1>7, <2>1, <2>2 DEF Unwinding
  <2> QED BY <2>3, <2>4 DEF Unwinding
<1>9. PICK T : T = torn \cup Unwritten
  OBVIOUS
<1>10. PICK U : U = (torn \cup Unwritten)'
  OBVIOUS
<1>11. T \subseteq U
  BY <1>1, <1>9, <1>10 DEF Unwritten
<1>12. ASSUME NEW q \in Publisher, upstream'[q] # upstream[q] PROVE q \in U
  <2>1. t[1] \in Side /\ q = t[2] /\ t = <<t[1], q>> /\ Group[q] # "Submitter" /\ q \notin Retained
    BY <1>12
  <2>2. candidate_row(q, load_prior_state(report, rollback)[t[1]][q])
    BY <1>1, <2>1 DEF TagInv, Unwinding, Prior
  <2>3. <<t[1], q>> \notin todo'
    BY <1>1, <2>1
  <2>4. q \in Unwritten'
    BY <1>1, <2>1, <2>2, <2>3 DEF Unwritten
  <2> QED BY <1>10, <2>4
<1>13. LedgerTrue(U)'
  BY <1>1, <1>9, <1>11, <1>12, Ledger, LedgerOver
<1>14. GitOrder' /\ NoLimbo'
  BY <1>1 DEF TagInv, GitOrder, NoLimbo
<1> QED BY <1>1, <1>2, <1>5, <1>6, <1>8, <1>10, <1>13, <1>14, Over

\* A withdrawal removes items of its publisher, unless that is a one-way door.
LEMMA WithdrawEffect ==
  ASSUME TypeOK, NEW p \in Publisher, NEW items, Withdraw(p, items)
  PROVE  /\ upstream' \in [Publisher -> [Item -> Build \cup {NoBuild}]]
         /\ \A q \in Publisher : Live(q)' \subseteq Live(q)
         /\ \A q \in Publisher : upstream'[q] # upstream[q] => q = p /\ Group[q] # "Submitter"
<1>1. upstream \in [Publisher -> [Item -> Build \cup {NoBuild}]]
  BY DEF TypeOK
<1>2. CASE Group[p] = "Submitter"
  BY <1>1, <1>2 DEF Withdraw, Live
<1>3. CASE Group[p] # "Submitter"
  <2> DEFINE left == [i \in Item |-> IF i \in items THEN NoBuild ELSE upstream[p][i]]
  <2>1. left \in [Item -> Build \cup {NoBuild}] /\ \A i \in Item : left[i] \in {NoBuild, upstream[p][i]}
    BY <1>1
  <2>2. upstream' = [upstream EXCEPT ![p] = left]
    BY <1>3 DEF Withdraw
  <2> HIDE DEF left
  <2>3. upstream'[p] = left /\ \A q \in Publisher : q # p => upstream'[q] = upstream[q]
    BY <1>1, <2>2
  <2>4. upstream' \in [Publisher -> [Item -> Build \cup {NoBuild}]]
    BY <1>1, <2>1, <2>2
  <2>5. \A q \in Publisher : Live(q)' \subseteq Live(q)
    BY <2>1, <2>3 DEF Live
  <2> QED BY <1>3, <2>3, <2>4, <2>5
<1> QED BY <1>2, <1>3

\* The row in turn is a row.
LEMMA RowOfType ==
  ASSUME TagInv, NEW t \in Side \X Publisher
  PROVE  RowOf(t) \in Row
<1>1. t[1] \in Side /\ t[2] \in Publisher /\ state \in ReportFile
  BY DEF TagInv, TagTypeOK
<1> QED BY <1>1, Sides DEF RowOf

\* Every way a row's withdrawal can end.
LEMMA UnwindRow ==
  ASSUME TagInv, NEW t \in Side \X Publisher, UnwindStep(t)
  PROVE  TagInv'
<1>1. TypeOK /\ faults \in Nat /\ t[2] \in Publisher
  BY DEF TagInv, TagTypeOK, TypeOK
<1>2. RowOf(t) \in Row
  BY RowOfType
<1>3. UnwindTurn(t)
  BY DEF UnwindStep, UnwindUnresolved, UnwindRetained, UnwindNoScope, UnwindSucceeds,
         UnwindFails, Withdraws
<1>4. ASSUME UNCHANGED upstream
      PROVE  /\ upstream' \in [Publisher -> [Item -> Build \cup {NoBuild}]]
             /\ \A q \in Publisher : Live(q)' \subseteq Live(q)
             /\ \A q \in Publisher : upstream'[q] = upstream[q]
  BY <1>1, <1>4 DEF TypeOK, Live
<1>5. CASE UnwindUnresolved(t)
  <2>1. Decide(t, "RollbackFailed") /\ UNCHANGED <<upstream, faults>>
    BY <1>5 DEF UnwindUnresolved
  <2> QED BY <1>1, <1>3, <1>4, <2>1, DecideStep DEF WithdrawnOutcome, Outcome
<1>6. CASE UnwindRetained(t)
  <2>1. Decide(t, RowOf(t).outcome) /\ UNCHANGED <<upstream, faults>> /\ t[2] \in Retained
    BY <1>6 DEF UnwindRetained
  <2>2. RowOf(t).outcome \in Outcome
    BY <1>2 DEF Row
  <2> QED BY <1>1, <1>3, <1>4, <2>1, <2>2, DecideStep
<1>7. CASE UnwindNoScope(t)
  <2>1. Decide(t, "RollbackSkippedNoScope") /\ UNCHANGED upstream /\ Fault
    BY <1>7 DEF UnwindNoScope
  <2>2. faults' \in Nat
    BY <1>1, <2>1, FaultTypes
  <2> QED BY <1>1, <1>3, <1>4, <2>1, <2>2, DecideStep DEF WithdrawnOutcome, Outcome
<1>8. CASE UnwindSucceeds(t)
  <2> DEFINE o == IF Group[t[2]] = "Submitter" /\ RowOf(t).outcome = "Failed"
                  THEN "Failed" ELSE "RolledBack"
  <2>1. /\ Withdraw(t[2], RowOf(t).items) /\ Decide(t, o) /\ UNCHANGED faults
        /\ t[2] \notin Retained
    BY <1>8 DEF UnwindSucceeds, Withdraws
  <2>2. /\ o \in Outcome
        /\ RowOf(t).outcome \in WithdrawnOutcome => o \in WithdrawnOutcome
        /\ Group[t[2]] # "Submitter" => o \in WithdrawnOutcome
    BY DEF WithdrawnOutcome, Outcome
  <2> HIDE DEF o
  <2> QED BY <1>1, <1>3, <2>1, <2>2, WithdrawEffect, DecideStep
<1>9. CASE UnwindFails(t)
  <2>1. PICK done : Withdraw(t[2], done)
    BY <1>9 DEF UnwindFails
  <2>2. Decide(t, "RollbackFailed") /\ Fault /\ t[2] \notin Retained
    BY <1>9 DEF UnwindFails, Withdraws
  <2>3. faults' \in Nat
    BY <1>1, <2>2, FaultTypes
  <2>4. "RollbackFailed" \in Outcome \cap WithdrawnOutcome
    BY DEF WithdrawnOutcome, Outcome
  <2> QED BY <1>1, <1>3, <2>1, <2>2, <2>3, <2>4, WithdrawEffect, DecideStep
<1> QED BY <1>5, <1>6, <1>7, <1>8, <1>9 DEF UnwindStep

\* rollback.json takes over what the pass knows: every publisher it touched,
\* and every one an earlier pass had, is withdrawn there.
LEMMA PersistStep ==
  ASSUME TagInv, PersistWithdrawal
  PROVE  TagInv'
<1>1. /\ cmd = "unwind" /\ todo = {} /\ cmd' = "mark" /\ rollback' = state
      /\ UNCHANGED <<upstream, summary, report, pc, results, verify, build, opts, exit, faults, lost>>
      /\ UNCHANGED <<cmdopts, state, todo, local, origin, tags, torn>>
  BY DEF PersistWithdrawal
<1>2. pc = "idle" /\ exit' = "none" /\ state \in ReportFile /\ Unwinding /\ TypeOK
  BY <1>1 DEF TagInv, Alone, TagTypeOK
<1>3. TypeOK'
  BY <1>1, <1>2 DEF TypeOK
<1>4. TagTypeOK'
  BY <1>1, <1>3 DEF TagInv, TagTypeOK
<1>5. ASSUME NEW p \in Publisher, NEW w \in Side, state[w][p].outcome \in WithdrawnOutcome
      PROVE  withdrawn_beside(rollback', p)
  <2>1. state["results"] = state.results /\ state["carried"] = state.carried
    BY <1>2, <1>5, Sides
  <2> QED BY <1>1, <1>2, <1>5, <2>1 DEF withdrawn_beside, Unwinding, Side
<1>6. ASSUME NEW p \in Publisher, withdrawn_beside(rollback, p)
      PROVE  withdrawn_beside(rollback', p)
  <2>1. /\ load_prior_state(report, rollback) = rollback
        /\ rollback["results"] = rollback.results /\ rollback["carried"] = rollback.carried
    BY <1>2, <1>6, Sides DEF withdrawn_beside, load_prior_state, TypeOK, Side
  <2>2. PICK w \in Side : rollback[w][p].outcome \in WithdrawnOutcome
    BY <1>6, <2>1 DEF withdrawn_beside, Side
  <2>3. <<w, p>> \in Side \X Publisher /\ <<w, p>>[1] = w /\ <<w, p>>[2] = p
    OBVIOUS
  <2>4. state[w][p].outcome \in WithdrawnOutcome
    BY <1>1, <1>2, <2>1, <2>2, <2>3 DEF Unwinding, Prior, RowOf
  <2> QED BY <1>5, <2>4
<1>7. ASSUME NEW p \in Unwritten PROVE withdrawn_beside(rollback', p)
  <2>1. PICK w \in Side : candidate_row(p, load_prior_state(report, rollback)[w][p])
    BY <1>7 DEF Unwritten
  <2>2. p \in Publisher /\ Group[p] # "Submitter" /\ p \notin Retained
    BY <1>7 DEF Unwritten
  <2>3. <<w, p>> \in Side \X Publisher /\ <<w, p>>[1] = w /\ <<w, p>>[2] = p
    BY <2>2
  <2>4. state[w][p].outcome \in WithdrawnOutcome
    BY <1>1, <1>2, <2>1, <2>2, <2>3 DEF Unwinding, Prior, RowOf
  <2> QED BY <1>5, <2>2, <2>4
<1>8. PICK T : T = torn \cup Unwritten
  OBVIOUS
<1>9. PICK U : U = (torn \cup Unwritten)'
  OBVIOUS
<1>10. U = torn
  BY <1>1, <1>9 DEF Unwritten
<1>11. LedgerTrue(U)'
  <2> SUFFICES ASSUME NEW p \in Publisher, Claims(summary.results, p),
                      ~withdrawn_beside(rollback', p)
               PROVE  Complete(p, U)'
    BY <1>1 DEF LedgerTrue
  <2>1. LedgerTrue(T)
    BY <1>8, Ledger
  <2>2. Complete(p, T) /\ p \notin Unwritten
    BY <1>6, <1>7, <2>1 DEF LedgerTrue
  <2> QED BY <1>1, <1>8, <1>10, <2>2 DEF Complete, Live
<1>12. GitOrder' /\ NoLimbo' /\ Guarded' /\ Unwinding'
  BY <1>1 DEF TagInv, GitOrder, NoLimbo, Guarded, Unwinding, Live
<1> QED BY <1>1, <1>2, <1>4, <1>9, <1>11, <1>12, Over

\* The rows of a summary after the mark.
Marked(s, decided) ==
  [p \in Publisher |->
     LET marks == {w \in Side : decided[w][p].outcome \in WithdrawnOutcome}
     IN IF s.results[p].outcome = "none" \/ marks = {} THEN s.results[p]
        ELSE [s.results[p] EXCEPT !.outcome =
                decided[IF "carried" \in marks THEN "carried" ELSE "results"][p].outcome]]

\* One row after the mark: as it was, or withdrawn.
LEMMA MarkedRow ==
  ASSUME NEW s \in Summary, NEW decided \in ReportFile, NEW p \in Publisher
  PROVE  /\ Marked(s, decided)[p] \in Row
         /\ \/ Marked(s, decided)[p] = s.results[p]
            \/ Marked(s, decided)[p].outcome \in WithdrawnOutcome
<1> DEFINE marks == {w \in Side : decided[w][p].outcome \in WithdrawnOutcome}
           last == IF "carried" \in marks THEN "carried" ELSE "results"
<1>1. Marked(s, decided)[p] =
        IF s.results[p].outcome = "none" \/ marks = {} THEN s.results[p]
        ELSE [s.results[p] EXCEPT !.outcome = decided[last][p].outcome]
  BY DEF Marked
<1>2. s.results[p] \in Row
  BY DEF Summary
<1>3. marks # {} => last \in marks
  BY DEF Side
<1>4. marks # {} => decided[last][p].outcome \in WithdrawnOutcome
  BY <1>3
<1>5. WithdrawnOutcome \subseteq Outcome
  BY DEF Outcome
<1> HIDE DEF marks, last
<1> QED BY <1>1, <1>2, <1>4, <1>5 DEF Row

\* Marking the ledger takes claims away and adds none.
LEMMA MarkStep ==
  ASSUME TagInv, MarkWithdrawn
  PROVE  TagInv'
<1>1. /\ cmd = "mark" /\ cmd' = "git"
      /\ summary' = IF summary.exists THEN mark_withdrawn_in_summary(summary, state) ELSE summary
      /\ UNCHANGED <<upstream, report, rollback, pc, results, verify, build, opts, exit, faults, lost>>
      /\ UNCHANGED <<cmdopts, state, todo, local, origin, tags, torn>>
  BY DEF MarkWithdrawn
<1>2. pc = "idle" /\ exit' = "none" /\ state \in ReportFile /\ summary \in Summary /\ TypeOK
  BY <1>1 DEF TagInv, Alone, TagTypeOK, TypeOK
<1>3. mark_withdrawn_in_summary(summary, state) = [summary EXCEPT !.results = Marked(summary, state)]
  BY DEF mark_withdrawn_in_summary, Marked
<1>4. Marked(summary, state) \in [Publisher -> Row]
  <2>1. Marked(summary, state) = [p \in Publisher |-> Marked(summary, state)[p]]
    BY DEF Marked
  <2> QED BY <1>2, <2>1, MarkedRow
<1>5. /\ summary' \in Summary
      /\ summary' = summary \/ summary'.results = Marked(summary, state)
  BY <1>1, <1>2, <1>3, <1>4 DEF Summary
<1>6. TypeOK'
  BY <1>1, <1>2, <1>5 DEF TypeOK
<1>7. TagTypeOK'
  BY <1>1, <1>6 DEF TagInv, TagTypeOK
<1>8. ASSUME NEW p \in Publisher, Claims(summary'.results, p)
      PROVE  Claims(summary.results, p)
  <2>1. \/ summary'.results[p] = summary.results[p]
        \/ summary'.results[p].outcome \in WithdrawnOutcome
    BY <1>2, <1>5, MarkedRow
  <2> QED BY <1>8, <2>1 DEF Claims, WithdrawnOutcome
<1>9. PICK T : T = torn \cup Unwritten
  OBVIOUS
<1>10. T = (torn \cup Unwritten)'
  BY <1>1, <1>9 DEF Unwritten
<1>11. LedgerTrue(T)'
  <2>1. LedgerTrue(T)
    BY <1>9, Ledger
  <2> QED BY <1>1, <1>8, <2>1 DEF LedgerTrue, Complete, Live
<1>12. GitOrder' /\ NoLimbo' /\ Guarded' /\ Unwinding'
  BY <1>1 DEF TagInv, GitOrder, NoLimbo, Guarded, Unwinding, Live
<1> QED BY <1>1, <1>2, <1>7, <1>10, <1>11, <1>12, Over

-----------------------------------------------------------------------------
(***************************************************************************)
(* The git half.                                                           *)
(***************************************************************************)
\* The variables a command forgets on return have their types.
LEMMA ReturnTypes == NoCommand \in Command /\ NoReport \in ReportFile
<1>1. NoCommand \in Command
  BY DEF NoCommand, Command
<1>2. NoRows \in [Publisher -> Row]
  BY RowTypes
<1> QED BY <1>1, <1>2 DEF NoReport, ReportFile

\* A git operation leaves every upstream and every file alone.
LEMMA GitOver ==
  ASSUME TagInv, cmd # "none", cmd # "unwind", cmd' # "unwind",
         UNCHANGED release, UNCHANGED torn,
         cmd' # "none" => UNCHANGED cmdopts,
         TagTypeOK', GitOrder', NoLimbo'
  PROVE  TagInv'
<1>1. UNCHANGED <<upstream, summary, rollback, pc, results, opts, exit>>
  BY DEF release
<1>2. pc = "idle" /\ exit' = "none"
  BY <1>1 DEF TagInv, Alone
<1>3. PICK T : T = torn \cup Unwritten
  OBVIOUS
<1>4. T = (torn \cup Unwritten)'
  BY <1>3 DEF Unwritten
<1>5. LedgerTrue(T)'
  BY <1>1, <1>3, Ledger, LedgerOver
<1>6. Guarded' /\ Unwinding'
  BY <1>1 DEF TagInv, Guarded, Unwinding, Live, Probed
<1> QED BY <1>1, <1>2, <1>4, <1>5, <1>6, Over

GitStep ==
  \/ MutationFails \/ Revert \/ Reset \/ PushFails \/ PushBranch
  \/ ReleaseRetained \/ DeleteRemoteTag \/ DeleteLocalTag

\* What the git operations have in common.
LEMMA GitFrame ==
  ASSUME TagInv, GitStep
  PROVE  /\ cmd \in {"git", "push", "delete", "delete_local"}
         /\ cmd' \in {"none", "push", "delete", "delete_local"}
         /\ UNCHANGED release /\ UNCHANGED torn
         /\ Fault \/ UNCHANGED faults
         /\ \/ UNCHANGED <<cmdopts, state, todo>>
            \/ cmd' = "none" /\ cmdopts' = NoCommand /\ state' = NoReport /\ todo' = {}
         /\ local' \in Head /\ origin' \in {"bump", "reverted"} /\ tags' \subseteq tags
<1>1. local \in Head /\ origin \in {"bump", "reverted"}
  BY DEF TagInv, TagTypeOK
<1>2. CASE MutationFails
  BY <1>1, <1>2 DEF MutationFails, Return, Head
<1>3. CASE Revert
  BY <1>1, <1>3 DEF Revert, Head
<1>4. CASE Reset
  BY <1>1, <1>4 DEF Reset, Head
<1>5. CASE PushFails \/ ReleaseRetained
  BY <1>1, <1>5 DEF PushFails, ReleaseRetained, Return
<1>6. CASE PushBranch
  BY <1>1, <1>6 DEF PushBranch
<1>7. CASE DeleteRemoteTag
  BY <1>1, <1>7 DEF DeleteRemoteTag
<1>8. CASE DeleteLocalTag
  BY <1>1, <1>8 DEF DeleteLocalTag, Return
<1> QED BY <1>2, <1>3, <1>4, <1>5, <1>6, <1>7, <1>8 DEF GitStep

\* The revert is pushed before a tag goes, and a reset before as well.
LEMMA GitStepKeeps ==
  ASSUME TagInv, GitStep
  PROVE  TagInv'
<1>1. /\ cmd \in {"git", "push", "delete", "delete_local"}
      /\ cmd' \in {"none", "push", "delete", "delete_local"}
      /\ UNCHANGED release /\ UNCHANGED torn
      /\ \/ UNCHANGED <<cmdopts, state, todo>>
         \/ cmd' = "none" /\ cmdopts' = NoCommand /\ state' = NoReport /\ todo' = {}
      /\ local' \in Head /\ origin' \in {"bump", "reverted"} /\ tags' \subseteq tags
  BY GitFrame
<1>2. TagTypeOK'
  <2>1. faults' \in Nat
    BY GitFrame, FaultTypes DEF TagInv, TagTypeOK, TypeOK
  <2>2. TypeOK'
    BY <1>1, <2>1 DEF TagInv, TagTypeOK, TypeOK, release
  <2>3. NoCommand \in Command /\ NoReport \in ReportFile
    BY ReturnTypes
  <2> QED BY <1>1, <2>2, <2>3 DEF TagInv, TagTypeOK
<1>3. /\ GitOrder /\ NoLimbo
      /\ cmdopts.mode \in {"revert", "reset"}
  BY DEF TagInv, TagTypeOK, Command
<1>4. GitOrder' /\ NoLimbo'
  <2>1. CASE MutationFails
    BY <1>3, <2>1 DEF MutationFails, Return, GitOrder, NoLimbo
  <2>2. CASE Revert
    BY <1>3, <2>2 DEF Revert, GitOrder, NoLimbo
  <2>3. CASE Reset
    BY <1>3, <2>3 DEF Reset, GitOrder, NoLimbo
  <2>4. CASE PushFails \/ ReleaseRetained
    BY <1>3, <2>4 DEF PushFails, ReleaseRetained, Return, GitOrder, NoLimbo
  <2>5. CASE PushBranch
    BY <1>3, <2>5 DEF PushBranch, GitOrder, NoLimbo
  <2>6. CASE DeleteRemoteTag
    BY <1>3, <2>6 DEF DeleteRemoteTag, GitOrder, NoLimbo
  <2>7. CASE DeleteLocalTag
    BY <1>3, <2>7 DEF DeleteLocalTag, Return, GitOrder, NoLimbo
  <2> QED BY <2>1, <2>2, <2>3, <2>4, <2>5, <2>6, <2>7 DEF GitStep
<1> QED BY <1>1, <1>2, <1>4, GitOver

\* A kill excuses what the pass had touched: it is on record nowhere.
LEMMA KillStep ==
  ASSUME TagInv, KillRollback
  PROVE  TagInv'
<1>1. /\ cmd # "none" /\ cmd' = "none" /\ cmdopts' = NoCommand /\ state' = NoReport /\ todo' = {}
      /\ torn' = torn \cup Unwritten \cup {p \in Publisher : upstream'[p] # upstream[p]}
      /\ UNCHANGED <<summary, report, rollback, pc, results, verify, build, opts, exit, lost>>
      /\ UNCHANGED <<local, origin, tags>> /\ Fault
  BY DEF KillRollback, Return
<1>2. pc = "idle" /\ exit' = "none"
  BY <1>1 DEF TagInv, Alone
<1>3. TypeOK /\ faults' \in Nat
  BY <1>1, FaultTypes DEF TagInv, TagTypeOK, TypeOK
<1>4. upstream' \in [Publisher -> [Item -> Build \cup {NoBuild}]]
  <2>1. CASE UNCHANGED upstream
    BY <1>3, <2>1 DEF TypeOK
  <2>2. CASE \E t \in todo : \E done : Withdraw(t[2], done)
    <3>1. PICK t \in todo : \E done : Withdraw(t[2], done)
      BY <2>2
    <3>2. t[2] \in Publisher
      BY <3>1 DEF TagInv, TagTypeOK
    <3>3. PICK done : Withdraw(t[2], done)
      BY <3>1
    <3> QED BY <1>3, <3>2, <3>3, WithdrawEffect
  <2> QED BY <2>1, <2>2 DEF KillRollback
<1>5. TypeOK'
  BY <1>1, <1>3, <1>4 DEF TypeOK
<1>6. TagTypeOK'
  <2>1. NoCommand \in Command /\ NoReport \in ReportFile
    BY ReturnTypes
  <2>2. torn' \subseteq Publisher
    BY <1>1 DEF TagInv, TagTypeOK, Unwritten
  <2> QED BY <1>1, <1>5, <2>1, <2>2 DEF TagInv, TagTypeOK
<1>7. PICK T : T = torn \cup Unwritten
  OBVIOUS
<1>8. PICK U : U = (torn \cup Unwritten)'
  OBVIOUS
<1>9. T \subseteq U /\ \A q \in Publisher : upstream'[q] # upstream[q] => q \in U
  BY <1>1, <1>7, <1>8
<1>10. LedgerTrue(U)'
  BY <1>1, <1>7, <1>9, Ledger, LedgerOver
<1>11. GitOrder' /\ NoLimbo' /\ Guarded' /\ Unwinding'
  BY <1>1 DEF TagInv, GitOrder, NoLimbo, Guarded, Unwinding
<1> QED BY <1>1, <1>2, <1>6, <1>8, <1>10, <1>11, Over

-----------------------------------------------------------------------------
(***************************************************************************)
(* The theorems.                                                           *)
(***************************************************************************)
\* At first nothing is published and no command runs.
LEMMA TagStart ==
  ASSUME TagInit
  PROVE  TagInv
<1>1. Init /\ TypeOK
  BY InitTypes DEF TagInit
<1>2. NoCommand \in Command /\ NoReport \in ReportFile
  BY ReturnTypes
<1>3. TagTypeOK
  BY <1>1, <1>2 DEF TagInit, TagTypeOK, Head
<1>4. PICK T : T = torn \cup Unwritten
  OBVIOUS
<1>5. ExitInv(torn \cup Unwritten)
  BY <1>1, <1>4, Excused, ExitStart
<1> QED BY <1>3, <1>5 DEF TagInit, TagInv, Alone, GitOrder, NoLimbo, Guarded, Unwinding

\* Every step of releases, rollbacks and re-cuts preserves the invariant.
LEMMA TagStep ==
  ASSUME TagInv, [TagNext]_allvars
  PROVE  TagInv'
<1>1. CASE Release
  BY <1>1, ReleaseStep
<1>2. CASE StartRollback
  BY <1>2, StartStep
<1>3. CASE \E t \in Side \X Publisher : UnwindStep(t)
  BY <1>3, UnwindRow
<1>4. CASE PersistWithdrawal
  BY <1>4, PersistStep
<1>5. CASE MarkWithdrawn
  BY <1>5, MarkStep
<1>6. CASE GitStep
  BY <1>6, GitStepKeeps
<1>7. CASE KillRollback
  BY <1>7, KillStep
<1>8. CASE ReCut
  BY <1>8, ReCutStep
<1>9. CASE UNCHANGED allvars
  <2>1. UNCHANGED vars /\ UNCHANGED tagvars
    BY <1>9 DEF allvars
  <2>2. /\ UNCHANGED <<upstream, summary, report, rollback, pc, results, verify, build>>
        /\ UNCHANGED <<opts, exit, faults, lost>>
        /\ UNCHANGED <<cmd, cmdopts, state, todo, local, origin, tags, torn>>
    BY <2>1 DEF vars, tagvars
  <2>3. TagTypeOK'
    BY <2>2 DEF TagInv, TagTypeOK, TypeOK
  <2>4. PICK T : T = torn \cup Unwritten
    OBVIOUS
  <2>5. T = (torn \cup Unwritten)'
    BY <2>2, <2>4 DEF Unwritten
  <2>6. ExitInv(torn \cup Unwritten)'
    BY <2>1, <2>4, <2>5, Excused, ExitStep, ExcusedNext DEF TagInv
  <2>7. Alone' /\ GitOrder' /\ NoLimbo' /\ Guarded'
    BY <2>2 DEF TagInv, Alone, GitOrder, NoLimbo, Guarded, Live
  <2>8. Unwinding'
    BY <2>2 DEF TagInv, Unwinding, Prior, RowOf
  <2> QED BY <2>3, <2>6, <2>7, <2>8 DEF TagInv
<1> QED BY <1>1, <1>2, <1>3, <1>4, <1>5, <1>6, <1>7, <1>8, <1>9 DEF TagNext, RollbackStep, GitStep

\* The invariant holds in every behaviour.
LEMMA TagInvariant == TagSpec => []TagInv
  BY TagStart, TagStep, PTL DEF TagSpec

\* A rollback never leaves the remote tag deleted and the bump commit on the
\* remote branch: the push of the revert comes before the tag deletion, and
\* a push that fails ends the command (tag/rollback/run.rs).
THEOREM NeverInLimbo == TagSpec => []NoLimbo
<1>1. TagInv => NoLimbo
  BY DEF TagInv
<1> QED BY <1>1, TagInvariant, PTL

\* Exit status zero of a release means released, whatever rollbacks, kills
\* and re-cuts of the tag came before it: the reconcile never takes a
\* withdrawn publisher for complete, unless a kill kept its withdrawal out
\* of rollback.json.
THEOREM RecutIsSound == TagSpec => []RecutSound
<1>1. TagInv => RecutSound
  <2> SUFFICES ASSUME TagInv, pc = "idle", exit = "ok", ~opts.fail_fast
               PROVE  \A p \in Publisher :
                        Required[p] /\ Expected(p) => Live(p) = Item \/ p \in torn
    BY DEF RecutSound
  <2>1. cmd = "none"
    BY DEF TagInv, Alone
  <2>2. Unwritten = {}
    BY <2>1 DEF Unwritten
  <2>3. PICK T : T = torn \cup Unwritten
    OBVIOUS
  <2>4. ExitInv(T)
    BY <2>3, Excused DEF TagInv
  <2> QED BY <2>2, <2>3, <2>4 DEF ExitInv, ExitSoundBut, Complete
<1> QED BY <1>1, TagInvariant, PTL

-----------------------------------------------------------------------------
(***************************************************************************)
(* The history of a tag: burns and the tag they hold.                      *)
(***************************************************************************)
\* A step of the history is a step of TagRollback.
LEMMA HistoryTagStep ==
  ASSUME [HistoryNext]_historyvars
  PROVE  [TagNext]_allvars
  BY DEF HistoryNext, historyvars

\* Only the last two steps of a rollback delete a tag.
LEMMA TagDeletion ==
  ASSUME TagInv, TagNext, ~(tags \subseteq tags')
  PROVE  cmd \in {"delete", "delete_local"}
<1>1. tags' # tags /\ tags' # {"local", "remote"}
  BY DEF TagInv, TagTypeOK
<1>2. DeleteRemoteTag \/ DeleteLocalTag
  BY <1>1 DEF TagNext, RollbackStep, UnwindStep, UnwindUnresolved, UnwindRetained,
              UnwindNoScope, UnwindSucceeds, UnwindFails, Decide, Release, StartRollback, ReCut,
              PersistWithdrawal, MarkWithdrawn, MutationFails, Revert, Reset, PushFails,
              PushBranch, ReleaseRetained, KillRollback, tagvars
<1> QED BY <1>2 DEF DeleteRemoteTag, DeleteLocalTag

\* A summary that is not there has no rows.
SummaryShape == summary.exists \/ summary = NoSummary

\* Once the run has rows, they name what it landed.
RowsHoldBurns == results # NoRows => burnt \subseteq burned_submitter_names(results)

BurnRecord == SummaryShape /\ BurnsStayOnRecord /\ RowsHoldBurns

\* The guard let a rollback through only where nothing was burned.
GuardSawBurns == cmd # "none" /\ ~cmdopts.force => burnt = {}

HistoryInv == BurnRecord /\ GuardSawBurns /\ HistoryTypeOK

\* No row, no burn.
LEMMA NoRowsNoBurn == burned_submitter_names(NoRows) = {}
  BY DEF burned_submitter_names, outcome_landed, NoRows, NoRow

\* A summary write keeps the burns it is given, or those it leaves on disk.
LEMMA WriteBurns ==
  ASSUME NEW old, NEW rs, NEW new, NEW b, new = write_summary_json(old, rs),
         old.exists \/ old = NoSummary,
         rs = NoRows => b \subseteq burned_submitter_names(old.results),
         rs # NoRows => b \subseteq burned_submitter_names(rs)
  PROVE  /\ b \subseteq burned_submitter_names(new.results)
         /\ new.exists \/ new = NoSummary
<1>1. CASE rs = NoRows /\ old.exists /\ old.results # NoRows
  BY <1>1 DEF write_summary_json
<1>2. CASE rs = NoRows /\ ~(old.exists /\ old.results # NoRows)
  <2>1. old.results = NoRows
    BY <1>2 DEF NoSummary
  <2>2. new = [exists |-> TRUE, results |-> rs]
    BY <1>2 DEF write_summary_json
  <2> QED BY <1>2, <2>1, <2>2
<1>3. CASE rs # NoRows
  BY <1>3 DEF write_summary_json
<1> QED BY <1>1, <1>2, <1>3

\* A step that decides no row and lands nothing.
LEMMA RestBurn ==
  ASSUME BurnRecord, Remember, Landed = {},
         results' = results \/ results' = NoRows,
         summary' = summary \/ summary' = write_summary_json(summary, results)
  PROVE  BurnRecord' /\ burnt' = burnt
<1>1. burnt' = burnt
  BY DEF Remember, FirstRow
<1>2. SummaryShape' /\ BurnsStayOnRecord'
  <2>1. CASE summary' = summary
    BY <1>1, <2>1 DEF BurnRecord, SummaryShape, BurnsStayOnRecord
  <2>2. CASE summary' = write_summary_json(summary, results)
    <3>1. PICK new : new = summary'
      OBVIOUS
    <3>2. /\ burnt \subseteq burned_submitter_names(new.results)
          /\ new.exists \/ new = NoSummary
      BY <2>2, <3>1, WriteBurns DEF BurnRecord, SummaryShape, BurnsStayOnRecord, RowsHoldBurns
    <3> QED BY <1>1, <3>1, <3>2 DEF SummaryShape, BurnsStayOnRecord
  <2> QED BY <2>1, <2>2
<1>3. RowsHoldBurns'
  BY <1>1 DEF BurnRecord, RowsHoldBurns
<1> QED BY <1>1, <1>2, <1>3 DEF BurnRecord

\* A turn that decides p's row, and lands at p alone if anywhere.
LEMMA RowBurn ==
  ASSUME BurnRecord, Remember, results \in [Publisher -> Row],
         NEW p \in Publisher, NEW row, results[p] = NoRow,
         results' = [results EXCEPT ![p] = row],
         Landed \subseteq {p}, p \in Landed => outcome_landed(row),
         (Landed = {} /\ UNCHANGED summary) \/ summary' = write_summary_json(summary, results')
  PROVE  BurnRecord'
<1>1. results'[p] = row /\ \A q \in Publisher : q # p => results'[q] = results[q]
  OBVIOUS
<1>2. Landed \subseteq burned_submitter_names(results')
  BY <1>1 DEF Landed, burned_submitter_names
<1>3. burned_submitter_names(results) \subseteq burned_submitter_names(results')
  <2>1. ~outcome_landed(NoRow)
    BY DEF outcome_landed, NoRow
  <2> QED BY <1>1, <2>1 DEF burned_submitter_names
<1>4. results' # NoRows => burnt' \subseteq burned_submitter_names(results')
  <2>1. results' # NoRows /\ results = NoRows => burnt' = Landed
    BY DEF Remember, FirstRow
  <2>2. results # NoRows => burnt' = burnt \cup Landed
    BY DEF Remember, FirstRow
  <2> QED BY <1>2, <1>3, <2>1, <2>2 DEF BurnRecord, RowsHoldBurns
<1>5. Landed = {} => burnt' \subseteq burned_submitter_names(summary.results)
  BY DEF Remember, BurnRecord, BurnsStayOnRecord
<1>6. results' = NoRows => Landed = {}
  BY <1>2, NoRowsNoBurn
<1>7. CASE Landed = {} /\ UNCHANGED summary
  BY <1>4, <1>5, <1>7 DEF BurnRecord, SummaryShape, BurnsStayOnRecord, RowsHoldBurns
<1>8. CASE summary' = write_summary_json(summary, results')
  <2>1. PICK new, rs, b : new = summary' /\ rs = results' /\ b = burnt'
    OBVIOUS
  <2>2. /\ rs = NoRows => b \subseteq burned_submitter_names(summary.results)
        /\ rs # NoRows => b \subseteq burned_submitter_names(rs)
    BY <1>4, <1>5, <1>6, <2>1
  <2>3. /\ b \subseteq burned_submitter_names(new.results)
        /\ new.exists \/ new = NoSummary
    BY <1>8, <2>1, <2>2, WriteBurns DEF BurnRecord, SummaryShape
  <2> QED BY <1>4, <2>1, <2>3 DEF BurnRecord, SummaryShape, BurnsStayOnRecord, RowsHoldBurns
<1> QED BY <1>7, <1>8

\* Where a publisher's turn lands.
LEMMA WriteLands ==
  ASSUME TypeOK, NEW p \in Publisher, NEW items, Write(p, items)
  PROVE  Landed \subseteq {p} /\ (Landed # {} => items # {})
<1>1. upstream \in [Publisher -> [Item -> Build \cup {NoBuild}]]
  BY DEF TypeOK
<1>2. upstream' = [upstream EXCEPT ![p] = [i \in Item |-> IF i \in items THEN build ELSE upstream[p][i]]]
  BY DEF Write
<1>3. /\ upstream'[p] = [i \in Item |-> IF i \in items THEN build ELSE upstream[p][i]]
      /\ \A q \in Publisher : q # p => upstream'[q] = upstream[q]
  BY <1>1, <1>2
<1>4. items = {} => upstream'[p] = upstream[p]
  BY <1>1, <1>3
<1> QED BY <1>3, <1>4 DEF Landed

\* A turn of the dispatch.
LEMMA DispatchBurn ==
  ASSUME TypeOK, BurnRecord, Remember, NEW p \in Publisher, DispatchStep(p)
  PROVE  BurnRecord'
<1>1. DispatchTurn(p) /\ results \in [Publisher -> Row]
  BY DEF DispatchStep, DispatchGated, DispatchDeselected, DispatchConfigSkipped, DispatchNightly,
         DispatchComplete, DispatchDiverged, DispatchVerifyBlocked, DispatchSimulatedFailure,
         DispatchSucceeds, DispatchFails, DispatchRuns, ReachesVerifyGate, Consulted, TypeOK
<1>2. results[p] = NoRow
  BY <1>1 DEF DispatchTurn, Pending
<1>3. CASE DispatchSucceeds(p)
  <2>1. PICK o \in OkOutcome(p) : Write(p, OkItems(p)) /\ Push(p, WorkRow(o, TRUE, OkItems(p), build))
    BY <1>3 DEF DispatchSucceeds
  <2>2. PICK row : row = WorkRow(o, TRUE, OkItems(p), build)
    OBVIOUS
  <2>3. OkItems(p) # {} => outcome_landed(row)
    BY <2>1, <2>2 DEF OkOutcome, OkItems, WorkRow, outcome_landed, SkipReason
  <2>4. Landed \subseteq {p} /\ (Landed # {} => OkItems(p) # {})
    BY <2>1, WriteLands
  <2>5. results' = [results EXCEPT ![p] = row] /\ summary' = write_summary_json(summary, results')
    BY <2>1, <2>2 DEF Push
  <2> QED BY <1>1, <1>2, <2>3, <2>4, <2>5, RowBurn
<1>4. CASE DispatchFails(p)
  <2>1. PICK written : Write(p, written) /\ Push(p, WorkRow("Failed", written # {}, written, NoBuild))
    BY <1>4 DEF DispatchFails
  <2>2. PICK row : row = WorkRow("Failed", written # {}, written, NoBuild)
    OBVIOUS
  <2>3. written # {} => outcome_landed(row)
    BY <2>2 DEF WorkRow, outcome_landed, records_published_work, SkipReason
  <2>4. Landed \subseteq {p} /\ (Landed # {} => written # {})
    BY <2>1, WriteLands
  <2>5. results' = [results EXCEPT ![p] = row] /\ summary' = write_summary_json(summary, results')
    BY <2>1, <2>2 DEF Push
  <2> QED BY <1>1, <1>2, <2>3, <2>4, <2>5, RowBurn
<1>5. CASE ~DispatchSucceeds(p) /\ ~DispatchFails(p)
  <2>1. UNCHANGED upstream /\ \E row : Push(p, row)
    BY <1>5 DEF DispatchStep, DispatchGated, DispatchDeselected, DispatchConfigSkipped,
                DispatchNightly, DispatchComplete, DispatchDiverged, DispatchVerifyBlocked,
                DispatchSimulatedFailure
  <2>2. PICK row : Push(p, row)
    BY <2>1
  <2>3. Landed = {}
    BY <2>1 DEF Landed
  <2>4. results' = [results EXCEPT ![p] = row] /\ summary' = write_summary_json(summary, results')
    BY <2>2 DEF Push
  <2> QED BY <1>1, <1>2, <2>3, <2>4, RowBurn
<1> QED BY <1>3, <1>4, <1>5

\* A turn of the stages that own a row: no dispatched door is in it.
LEMMA StageBurn ==
  ASSUME DoorInv, BurnRecord, Remember, NEW p \in Publisher,
         BlobStep(p) \/ BlobFails(p) \/ SnapcraftStep(p)
  PROVE  BurnRecord'
<1>1. TypeOK /\ InDispatchOrder /\ results \in [Publisher -> Row]
  BY DEF DoorInv, TypeOK
<1>2. BlobTurn(p) \/ SnapcraftTurn(p)
  BY DEF BlobStep, BlobDeselected, BlobSucceeds, BlobFails, BlobRuns, SnapcraftStep,
         SnapcraftDeselected, SnapcraftGated, SnapcraftConfigSkipped, SnapcraftVerifyBlocked,
         SnapcraftSucceeds, SnapcraftFails, SnapcraftRuns, SnapcraftReachesVerifyGate
<1>3. results[p] = NoRow /\ Stage[p] # "dispatch"
  BY <1>1, <1>2 DEF BlobTurn, SnapcraftTurn, InDispatchOrder, NoRows
<1>4. UNCHANGED summary /\ \E row : results' = [results EXCEPT ![p] = row]
  BY DEF BlobStep, BlobDeselected, BlobSucceeds, BlobFails, SnapcraftStep, SnapcraftDeselected,
         SnapcraftGated, SnapcraftConfigSkipped, SnapcraftVerifyBlocked, SnapcraftSucceeds,
         SnapcraftFails, RecordSnapcraft, disk
<1>5. UNCHANGED upstream \/ \E items : Write(p, items)
  BY DEF BlobStep, BlobDeselected, BlobSucceeds, BlobFails, SnapcraftStep, SnapcraftDeselected,
         SnapcraftGated, SnapcraftConfigSkipped, SnapcraftVerifyBlocked, SnapcraftSucceeds,
         SnapcraftFails
<1>6. Landed = {}
  <2>1. CASE UNCHANGED upstream
    BY <2>1 DEF Landed
  <2>2. CASE \E items : Write(p, items)
    <3>1. Landed \subseteq {p}
      BY <1>1, <2>2, WriteLands
    <3> QED BY <1>3, <3>1 DEF Landed
  <2> QED BY <1>5, <2>1, <2>2
<1>7. PICK row : results' = [results EXCEPT ![p] = row]
  BY <1>4
<1> QED BY <1>1, <1>3, <1>4, <1>6, <1>7, RowBurn

\* Every step of a release keeps the burns on record.
LEMMA ReleaseBurn ==
  ASSUME DoorInv, BurnRecord, Remember, Release
  PROVE  BurnRecord'
<1>1. TypeOK
  BY DEF DoorInv
<1>2. CASE StartRun
  <2>1. results' = NoRows /\ UNCHANGED <<upstream, summary>>
    BY <1>2 DEF StartRun, disk
  <2>2. Landed = {}
    BY <2>1 DEF Landed
  <2> QED BY <2>1, <2>2, RestBurn
<1>3. CASE BlobNoWork \/ SnapcraftNoWork \/ FinishTail \/ StageError \/ FinishPublish \/ FinishRun
  <2>1. /\ UNCHANGED <<upstream, results>>
        /\ summary' = summary \/ summary' = write_summary_json(summary, results)
    BY <1>3 DEF BlobNoWork, SnapcraftNoWork, FinishTail, StageError, FinishPublish, FinishRun, disk
  <2>2. Landed = {}
    BY <2>1 DEF Landed
  <2> QED BY <2>1, <2>2, RestBurn
<1>4. CASE \E p \in Publisher : BlobStep(p) \/ BlobFails(p) \/ SnapcraftStep(p)
  BY <1>4, StageBurn
<1>5. CASE \E p \in Publisher : DispatchStep(p)
  BY <1>1, <1>5, DispatchBurn
<1>6. CASE Kill \/ \E p \in Publisher : KillDuring(p)
  <2>1. /\ results' = NoRows /\ exit' = "killed"
        /\ summary' = summary \/ summary' = write_summary_json(summary, results)
    BY <1>6 DEF Kill, KillDuring, Die
  <2>2. Landed = {}
    BY <2>1 DEF Landed
  <2> QED BY <2>1, <2>2, RestBurn
<1> QED BY <1>2, <1>3, <1>4, <1>5, <1>6 DEF Release, RunStep

\* A withdrawal lands nothing and takes no burn off the ledger.
LEMMA MarkBurns ==
  ASSUME NEW s \in Summary, NEW decided \in ReportFile, NEW new,
         new = mark_withdrawn_in_summary(s, decided)
  PROVE  /\ burned_submitter_names(s.results) \subseteq burned_submitter_names(new.results)
         /\ new.exists = s.exists
<1>1. new = [s EXCEPT !.results = Marked(s, decided)]
  BY DEF mark_withdrawn_in_summary, Marked
<1>2. new.results = Marked(s, decided) /\ new.exists = s.exists
  BY <1>1 DEF Summary
<1>3. ASSUME NEW p \in Publisher, outcome_landed(s.results[p]) PROVE outcome_landed(new.results[p])
  <2>1. new.results[p] = s.results[p] \/ new.results[p].outcome \in WithdrawnOutcome
    BY <1>2, MarkedRow
  <2> QED BY <1>3, <2>1 DEF outcome_landed, WithdrawnOutcome, SkipReason
<1> QED BY <1>2, <1>3 DEF burned_submitter_names

\* The steps of the command, and a re-cut.
LEMMA CommandBurn ==
  ASSUME TagInv, BurnRecord, Remember, TagNext, ~Release
  PROVE  BurnRecord' /\ burnt' = burnt
<1>1. TypeOK /\ todo \subseteq Side \X Publisher
  BY DEF TagInv, TagTypeOK
<1>2. UNCHANGED results
  BY DEF TagNext, StartRollback, RollbackStep, UnwindStep, UnwindUnresolved, UnwindRetained,
         UnwindNoScope, UnwindSucceeds, UnwindFails, Decide, PersistWithdrawal, MarkWithdrawn,
         MutationFails, Revert, Reset, PushFails, PushBranch, ReleaseRetained, DeleteRemoteTag,
         DeleteLocalTag, KillRollback, ReCut, release
<1>3. UNCHANGED upstream \/ \E t \in Side \X Publisher : \E items : Withdraw(t[2], items)
  <2>1. CASE KillRollback
    BY <1>1, <2>1 DEF KillRollback
  <2>2. CASE ~KillRollback
    BY <2>2 DEF TagNext, StartRollback, RollbackStep, UnwindStep, UnwindUnresolved, UnwindRetained,
         UnwindNoScope, UnwindSucceeds, UnwindFails, Decide, PersistWithdrawal, MarkWithdrawn,
         MutationFails, Revert, Reset, PushFails, PushBranch, ReleaseRetained, DeleteRemoteTag,
         DeleteLocalTag, ReCut, release
  <2> QED BY <2>1, <2>2
<1>4. Landed = {}
  <2>1. CASE UNCHANGED upstream
    BY <2>1 DEF Landed
  <2>2. CASE \E t \in Side \X Publisher : \E items : Withdraw(t[2], items)
    <3>1. PICK t \in Side \X Publisher : \E items : Withdraw(t[2], items)
      BY <2>2
    <3>2. \A q \in Publisher : upstream'[q] # upstream[q] => Group[q] # "Submitter"
      BY <1>1, <3>1, WithdrawEffect
    <3> QED BY <3>2 DEF Landed
  <2> QED BY <1>3, <2>1, <2>2
<1>5. CASE MarkWithdrawn
  <2>1. summary' = IF summary.exists THEN mark_withdrawn_in_summary(summary, state) ELSE summary
    BY <1>5 DEF MarkWithdrawn
  <2>2. burnt' = burnt
    BY <1>2, <1>4 DEF Remember, FirstRow
  <2>3. summary \in Summary /\ state \in ReportFile
    BY <1>1 DEF TypeOK, TagInv, TagTypeOK
  <2>4. PICK new : new = summary'
    OBVIOUS
  <2>5. CASE summary.exists
    <3>1. /\ burned_submitter_names(summary.results) \subseteq burned_submitter_names(new.results)
          /\ new.exists = summary.exists
      BY <2>1, <2>3, <2>4, <2>5, MarkBurns
    <3> QED BY <1>2, <2>2, <2>4, <2>5, <3>1
            DEF BurnRecord, SummaryShape, BurnsStayOnRecord, RowsHoldBurns
  <2>6. CASE ~summary.exists
    BY <1>2, <1>4, <2>1, <2>6, RestBurn
  <2> QED BY <2>5, <2>6
<1>6. CASE ~MarkWithdrawn
  <2>1. UNCHANGED summary
    BY <1>6 DEF TagNext, StartRollback, RollbackStep, UnwindStep, UnwindUnresolved, UnwindRetained,
         UnwindNoScope, UnwindSucceeds, UnwindFails, Decide, PersistWithdrawal, disk,
         MutationFails, Revert, Reset, PushFails, PushBranch, ReleaseRetained, DeleteRemoteTag,
         DeleteLocalTag, KillRollback, ReCut, release
  <2> QED BY <1>2, <1>4, <2>1, RestBurn
<1> QED BY <1>5, <1>6

\* A rollback that runs without --force was let through by the guard.
LEMMA GuardBurns ==
  ASSUME BurnRecord, GuardSawBurns, TagNext, ~Release, burnt' = burnt
  PROVE  GuardSawBurns'
<1>1. CASE StartRollback
  <2>1. cmdopts'.force \/ check_not_irreversibly_published
    BY <1>1 DEF StartRollback
  <2>2. check_not_irreversibly_published => burned_submitter_names(summary.results) = {}
    BY DEF check_not_irreversibly_published
  <2> QED BY <2>1, <2>2 DEF GuardSawBurns, BurnRecord, BurnsStayOnRecord
<1>2. CASE ~StartRollback
  <2>1. cmd' = "none" \/ (cmd # "none" /\ UNCHANGED cmdopts)
    BY <1>2 DEF TagNext, RollbackStep, UnwindStep, UnwindUnresolved, UnwindRetained, UnwindTurn,
         Withdraws, UnwindNoScope, UnwindSucceeds, UnwindFails, Decide, PersistWithdrawal,
         MarkWithdrawn, MutationFails, Revert, Reset, PushFails, PushBranch, ReleaseRetained,
         DeleteRemoteTag, DeleteLocalTag, KillRollback, ReCut, Return
  <2> QED BY <2>1 DEF GuardSawBurns
<1> QED BY <1>1, <1>2

\* Every step of a tag's history.
LEMMA HistoryStep ==
  ASSUME TagInv, HistoryInv, [HistoryNext]_historyvars
  PROVE  HistoryInv'
<1>1. TagTypeOK'
  BY HistoryTagStep, TagStep DEF TagInv
<1>2. CASE HistoryNext
  <2>1. TagNext /\ Remember /\ BurnRecord /\ GuardSawBurns
    BY <1>2 DEF HistoryNext, HistoryInv
  <2>2. DoorInv /\ results \in [Publisher -> Row]
    BY DEF TagInv, ExitInv, DoorInv, TypeOK
  <2>3. BurnRecord' /\ GuardSawBurns'
    <3>1. CASE Release
      <4>1. cmd' = "none"
        BY <3>1 DEF Release, tagvars
      <4> QED BY <2>1, <2>2, <3>1, <4>1, ReleaseBurn DEF GuardSawBurns
    <3>2. CASE ~Release
      BY <2>1, <3>2, CommandBurn, GuardBurns
    <3> QED BY <3>1, <3>2
  <2>4. burnt' \subseteq Publisher
    BY <2>1 DEF Remember, Landed, HistoryInv, HistoryTypeOK
  <2>5. masked' \in [Publisher -> SUBSET Item]
    <3>1. \A p \in Publisher : results[p].items \subseteq Item
      BY <2>2 DEF Row
    <3>2. masked \in [Publisher -> SUBSET Item]
      BY DEF HistoryInv, HistoryTypeOK
    <3> QED BY <2>1, <3>1, <3>2 DEF Remember
  <2> QED BY <1>1, <2>3, <2>4, <2>5 DEF HistoryInv, HistoryTypeOK
<1>3. CASE UNCHANGED historyvars
  <2>1. UNCHANGED <<summary, results, cmd, cmdopts, burnt, masked>>
    BY <1>3 DEF historyvars, allvars, vars, tagvars
  <2> QED BY <1>1, <2>1 DEF HistoryInv, HistoryTypeOK, BurnRecord, SummaryShape,
             BurnsStayOnRecord, RowsHoldBurns, GuardSawBurns
<1> QED BY <1>2, <1>3

\* The invariants hold in every history of the tag.
LEMMA HistoryInvariant == HistorySpec => [](TagInv /\ HistoryInv)
<1>1. HistoryInit => TagInv /\ HistoryInv
  <2> SUFFICES ASSUME HistoryInit PROVE TagInv /\ HistoryInv
    OBVIOUS
  <2>1. TagInv /\ TagTypeOK
    BY TagStart DEF HistoryInit, TagInv
  <2>2. summary = NoSummary /\ cmd = "none" /\ burnt = {} /\ masked = [p \in Publisher |-> {}]
    BY DEF HistoryInit, TagInit, Init
  <2> QED BY <2>1, <2>2 DEF HistoryInv, HistoryTypeOK, BurnRecord, SummaryShape,
             BurnsStayOnRecord, RowsHoldBurns, GuardSawBurns
<1>2. TagInv /\ HistoryInv /\ [HistoryNext]_historyvars => TagInv' /\ HistoryInv'
  BY HistoryTagStep, TagStep, HistoryStep
<1> QED BY <1>1, <1>2, PTL DEF HistorySpec

\* The variables of the release, of `tag rollback` and of the history keep
\* their types.
THEOREM HistoryTypes == HistorySpec => []HistoryTypeOK
<1>1. HistoryInv => HistoryTypeOK
  BY DEF HistoryInv
<1> QED BY <1>1, HistoryInvariant, PTL

\* The ledger does not forget a burn: for any number of publishers, runs,
\* kills, withdrawals and re-cuts, what the last run with a row put through a
\* dispatched one-way door is burned in summary.json.
THEOREM BurnsAreDurable == HistorySpec => []BurnsStayOnRecord
<1>1. HistoryInv => BurnsStayOnRecord
  BY DEF HistoryInv, BurnRecord
<1> QED BY <1>1, HistoryInvariant, PTL

\* What a step that deletes a tag must find.
BurnedTagKept ==
  ~(tags \subseteq tags') /\ ~cmdopts.force =>
    /\ \A p \in Probed("closed") : Live(p) = {}
    /\ burnt = {}

\* For every choice of probes, no rollback without --force deletes the tag of
\* a version that a registry with a closed probe holds, whichever run burned
\* it, or that the last run burned at any dispatched Submitter, with a probe
\* or without.
THEOREM BurnedTagsAreKept == HistorySpec => KeepsBurnedTag
<1>1. TagInv /\ HistoryInv /\ [HistoryNext]_historyvars => [BurnedTagKept]_historyvars
  <2> SUFFICES ASSUME TagInv, HistoryInv, HistoryNext, ~(tags \subseteq tags'), ~cmdopts.force
               PROVE  (\A p \in Probed("closed") : Live(p) = {}) /\ burnt = {}
    BY DEF BurnedTagKept
  <2>1. cmd # "none"
    BY TagDeletion DEF HistoryNext
  <2> QED BY <2>1 DEF TagInv, Guarded, HistoryInv, GuardSawBurns
<1>2. KeepsBurnedTag <=> [][BurnedTagKept]_historyvars
  BY PTL DEF KeepsBurnedTag, BurnedTagKept
<1> QED BY <1>1, <1>2, HistoryInvariant, PTL DEF HistorySpec

=============================================================================
