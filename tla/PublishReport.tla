---------------------------- MODULE PublishReport ----------------------------
(***************************************************************************)
(* The vocabulary of a publish run: what a publisher is, what a row of     *)
(* the publish report says, and the predicates every gate site asks of it. *)
(*                                                                         *)
(* A row keeps the two facts the code decides on: the outcome and the      *)
(* evidence.  The evidence is reduced to the items (crates, packages,      *)
(* objects, tap commits) the run committed and to the build whose artifact *)
(* digests it recorded.  A report holds at most one row per publisher, so  *)
(* `results` is a function from publishers to rows, NoRow where none was   *)
(* pushed.                                                                 *)
(***************************************************************************)
EXTENDS Naturals

CONSTANTS
  N,          \* number of registered publishers
  Item,       \* what one publisher writes upstream for one version
  Build,      \* identities of built bytes: equal builds, equal digests
  NoBuild,    \* absent upstream, and "no digests recorded" in evidence
  Group,      \* [Publisher -> Groups]
  Required,   \* [Publisher -> BOOLEAN]
  Stage       \* [Publisher -> Stages]: the pipeline stage that runs it

Publisher == 1..N

Groups == {"Assets", "Manager", "Submitter"}
Stages == {"blob", "dispatch", "snapcraft"}

ASSUME PublisherAssumption ==
  /\ N \in Nat \ {0}
  /\ NoBuild \notin Build
  /\ Group \in [Publisher -> Groups]
  /\ Required \in [Publisher -> BOOLEAN]
  /\ Stage \in [Publisher -> Stages]

\* Blob is Assets and the snap store Submitter; each is one stage-owned row.
ASSUME StageAssumption ==
  /\ \A p \in Publisher : Stage[p] = "blob" => Group[p] = "Assets"
  /\ \A p \in Publisher : Stage[p] = "snapcraft" => Group[p] = "Submitter"
  /\ \A p, q \in Publisher : Stage[p] = Stage[q] /\ Stage[p] # "dispatch" => p = q

(***************************************************************************)
(* Rows.                                                                   *)
(***************************************************************************)
SkipReason == {"SubmitterGated", "Deselected", "ConfigSkipped", "Nightly",
               "AlreadyPublished", "VerifyGateBlocked", "NotApplicable"}

WithdrawnOutcome == {"RolledBack", "RollbackFailed", "RollbackSkippedNoScope"}

Outcome == {"none", "Succeeded", "Failed", "PendingModeration"}
             \cup SkipReason \cup WithdrawnOutcome

Row == [outcome : Outcome, evidence : BOOLEAN, items : SUBSET Item,
        digest : Build \cup {NoBuild}]

NoRow == [outcome |-> "none", evidence |-> FALSE, items |-> {}, digest |-> NoBuild]

SkipRow(reason) == [NoRow EXCEPT !.outcome = reason]

WorkRow(outcome, evidence, items, digest) ==
  [outcome |-> outcome, evidence |-> evidence, items |-> items, digest |-> digest]

NoRows == [p \in Publisher |-> NoRow]

records_published_work(row) == row.evidence /\ row.items # {}

(***************************************************************************)
(* The gate predicates.                                                    *)
(***************************************************************************)
is_required_release_failure(outcome) == outcome \in {"Failed", "RollbackFailed"}

any_failed(results, group) ==
  \E p \in Publisher :
    Group[p] = group /\ Required[p] /\ results[p].outcome = "Failed"

\* Mutant: the dispatch report is not seeded with the blob stage's row.
gate_ignores_assets(results) ==
  any_failed(results, "Manager") \/ any_failed(results, "Submitter")

\* The one-way-door gate, asked by the dispatch loop and by both stages.
submitter_gate_closed(results) ==
  \/ any_failed(results, "Assets")
  \/ any_failed(results, "Manager")
  \/ any_failed(results, "Submitter")

required_failure_names(results) ==
  {p \in Publisher : Required[p] /\ is_required_release_failure(results[p].outcome)}

required_gate_blocked_names(results) ==
  {p \in Publisher : Required[p] /\ results[p].outcome = "VerifyGateBlocked"}

\* Mutant: a publisher the verify gate blocked is not asked about.
gate_ignores_blocked(results) == required_failure_names(results) # {}

\* Whether the exit gate turns the run into an error.
gate_required_failures(results) ==
  \/ required_failure_names(results) # {}
  \/ required_gate_blocked_names(results) # {}

(***************************************************************************)
(* The burn rule of the run summary: did the publish action reach the      *)
(* remote at some point, whatever happened to it later?                    *)
(***************************************************************************)
outcome_landed(row) ==
  /\ row.outcome \notin SkipReason \cup {"none"}
  /\ row.outcome = "Failed" => records_published_work(row)

burned_submitter_names(results) ==
  {p \in Publisher : Group[p] = "Submitter" /\ outcome_landed(results[p])}

(***************************************************************************)
(* Dispatch order: the stages in pipeline order and, in the dispatch loop, *)
(* Assets -> Manager -> Submitter with registration order inside a group.  *)
(***************************************************************************)
StageRank(p) == IF Stage[p] = "blob" THEN 0 ELSE IF Stage[p] = "dispatch" THEN 1 ELSE 2

group_dispatch_order(g) == IF g = "Assets" THEN 0 ELSE IF g = "Manager" THEN 1 ELSE 2

\* p's turn comes before q's in a run.
Before(p, q) ==
  \/ StageRank(p) < StageRank(q)
  \/ /\ StageRank(p) = StageRank(q)
     /\ \/ group_dispatch_order(Group[p]) < group_dispatch_order(Group[q])
        \/ group_dispatch_order(Group[p]) = group_dispatch_order(Group[q]) /\ p < q

OneWayDoor(p) == Group[p] \in {"Manager", "Submitter"}

=============================================================================
