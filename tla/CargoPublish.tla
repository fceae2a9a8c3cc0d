---------------------------- MODULE CargoPublish ----------------------------
(***************************************************************************)
(* The cargo publisher: the crates of a workspace are pushed to crates.io  *)
(* one by one in dependency order, each guarded by the registry's index,   *)
(* which shows an upload only some time after it happened.                 *)
(*                                                                         *)
(* A crate, once uploaded, keeps its bytes for ever.  Other release jobs   *)
(* of the same workspace may upload crates at any moment, a run can be     *)
(* killed between two steps, the answer to an upload can be lost, and a    *)
(* tag rollback can yank what the last run recorded.                       *)
(***************************************************************************)
EXTENDS Naturals, Sequences, FiniteSets, SequencesExt

CONSTANTS
  Crate,        \* the crates of the workspace, at the version to release
  Deps,         \* [Crate -> SUBSET Crate]: dependencies inside the workspace
  Selected,     \* --crate arguments, none meaning every crate
  Configured,   \* crates with an active publish.cargo block
  Custom,       \* crates that go to another registry than crates.io
  Waiting,      \* crates with wait_for_workspace_deps enabled
  Impatient,    \* crates with index_timeout: 0
  Known,        \* crates with an earlier version on the index
  Oidc,         \* whether Trusted Publishing issues the registry token
  Build,        \* what `cargo package` can produce for the workspace
  NoBuild,
  Source,       \* [Build -> source]: two builds of a source are equivalent
  Attempts,     \* PUBLISH_PROPAGATION_RETRIES
  Outsiders,    \* crates another job may upload
  MaxRollbacks, \* bound: tag rollbacks in a behaviour
  MaxFaults     \* bound: how many things go wrong in a behaviour

ASSUME CargoAssumption ==
  /\ IsFiniteSet(Crate)
  /\ Deps \in [Crate -> SUBSET Crate]
  /\ Selected \subseteq Crate
  /\ Configured \subseteq Crate
  /\ Custom \subseteq Crate
  /\ Waiting \subseteq Crate
  /\ Impatient \subseteq Crate
  /\ Known \subseteq Crate
  /\ Oidc \in BOOLEAN
  /\ NoBuild \notin Build
  /\ DOMAIN Source = Build
  /\ Attempts \in Nat \ {0}
  /\ Outsiders \subseteq Crate
  /\ MaxRollbacks \in Nat
  /\ MaxFaults \in Nat

VARIABLES
  \* the registry
  registry,  \* [Crate -> Build \cup {NoBuild}]
  indexed,   \* crates the sparse index shows
  yanked,
  \* the publisher
  pc, order, at, tries, build, record, token, exit,
  \* the publisher's row of the run's files: its outcome, the crates it names
  row, ledger,
  \* bookkeeping of the model
  mine,      \* crates uploaded by this publisher
  attempt,   \* of those, the ones the latest run uploaded
  unheard,   \* of those, the ones whose answer was lost
  released,  \* whether a run has ended well
  rollbacks, faults

world == <<registry, indexed, yanked, mine, attempt, unheard>>
vars == <<registry, indexed, yanked, pc, order, at, tries, build, record, token, exit,
          row, ledger, mine, attempt, unheard, released, rollbacks, faults>>

Outcome == {"none", "Succeeded", "Failed", "AlreadyPublished",
            "RolledBack", "RollbackFailed", "RollbackSkippedNoScope"}

\* The shape of the state: a type invariant for every variable.
CargoTypeOK ==
  /\ registry \in [Crate -> Build \cup {NoBuild}]
  /\ indexed \subseteq {c \in Crate \ Custom : registry[c] # NoBuild}
  /\ yanked \subseteq {c \in Crate : registry[c] # NoBuild}
  /\ pc \in {"idle", "reconcile", "guards", "decide", "wait", "send", "poll"}
  /\ order \in Seq(Crate)
  /\ at \in 1..(Len(order) + 1)
  /\ tries \in 0..Attempts
  /\ build \in Build \cup {NoBuild}
  /\ record \subseteq Crate
  /\ token \in {"none", "issued"}
  /\ exit \in {"none", "ok", "err", "killed"}
  /\ row \in Outcome
  /\ ledger \subseteq Crate
  /\ mine \subseteq Crate /\ attempt \subseteq mine /\ unheard \subseteq mine
  /\ released \in BOOLEAN
  /\ rollbacks \in Nat
  /\ faults \in Nat

Init ==
  /\ registry = [c \in Crate |-> NoBuild]
  /\ indexed = {} /\ yanked = {}
  /\ pc = "idle" /\ order = <<>> /\ at = 1 /\ tries = 0
  /\ build = NoBuild
  /\ record = {} /\ ledger = {}
  /\ mine = {} /\ attempt = {} /\ unheard = {} /\ released = FALSE
  /\ token = "none" /\ exit = "none" /\ row = "none"
  /\ rollbacks = 0 /\ faults = 0

Fault == faults < MaxFaults /\ faults' = faults + 1

-----------------------------------------------------------------------------
(***************************************************************************)
(* The plan: what is published, and in which order.                        *)
(***************************************************************************)
Closed(S) == Selected \subseteq S /\ \A c \in S : Deps[c] \subseteq S

\* Every seed and every dependency reachable from it.
expand_with_transitive_deps ==
  CHOOSE S \in SUBSET Crate : Closed(S) /\ \A T \in SUBSET Crate : Closed(T) => S \subseteq T

Eligible ==
  Configured \cap (IF Selected = {} THEN Crate ELSE expand_with_transitive_deps)

\* No crate before one it needs.
validate_publish_order(s) ==
  \A i, j \in 1..Len(s) : s[j] \in Deps[s[i]] => j < i

\* The orders a topological sort may return; none when there is a cycle.
cargo_publish_plan == {s \in SetToSeqs(Eligible) : validate_publish_order(s)}

Plan == ToSet(order)
Current == order[at]
Later == {order[i] : i \in (at + 1)..Len(order)}

\* Mutant: only the crate that comes next is looked at.
NextDepends(c) == at < Len(order) /\ c \in Deps[order[at + 1]]

HasDependents(c) == \E later \in Later : c \in Deps[later]

-----------------------------------------------------------------------------
(***************************************************************************)
(* The end of a run.                                                       *)
(***************************************************************************)
\* This run's row takes the place of an earlier run's: what a Submitter
\* submitted before is not carried once a run reaches it again
\* (carry_prior_work).  The token outlives a failure that left crates live, for
\* a rollback to use.
Finish(outcome) ==
  /\ pc' = "idle"
  /\ exit' = IF outcome = "Failed" THEN "err" ELSE "ok"
  /\ row' = outcome
  /\ ledger' = record'
  /\ token' = IF outcome = "Failed" /\ record' # {} THEN token ELSE "none"
  /\ released' = (released \/ outcome # "Failed")
  /\ UNCHANGED <<order, at, tries, build, rollbacks>>

Bail == UNCHANGED record /\ Finish("Failed")

\* On to the next crate, or to the end of the run.
NextCrate ==
  IF at = Len(order)
  THEN Finish("Succeeded")
  ELSE /\ pc' = "decide"
       /\ at' = at + 1
       /\ UNCHANGED <<order, tries, build, token, exit, row, ledger, released, rollbacks>>

Advance == UNCHANGED record /\ NextCrate

Goto(label) ==
  /\ pc' = label
  /\ UNCHANGED <<order, at, build, record, token, exit, row, ledger, released, rollbacks>>

-----------------------------------------------------------------------------
(***************************************************************************)
(* The start: reconcile, then the guards ahead of the first upload.        *)
(***************************************************************************)
StartRun ==
  /\ pc = "idle"
  /\ build' \in Build
  /\ order' \in cargo_publish_plan \ {<<>>}
  /\ at' = 1 /\ tries' = 0
  /\ record' = {} /\ token' = "none"
  /\ exit' = "none"
  /\ pc' = "reconcile"
  /\ attempt' = {}
  /\ UNCHANGED <<registry, indexed, yanked, mine, unheard, row, ledger, released,
                 rollbacks, faults>>

\* Mutant: a rebuild must be byte-identical.
Identical(c) == registry[c] = build

\* Byte-identical, or different only in what the release process writes.
Equivalent(c) == Source[registry[c]] = Source[build]

\* Every planned crate is on crates.io with verified content: run() is skipped.
ReconcileComplete ==
  /\ pc = "reconcile"
  /\ Plan \subseteq indexed
  /\ \A c \in Plan : Equivalent(c)
  /\ UNCHANGED record /\ Finish("AlreadyPublished")
  /\ UNCHANGED <<world, faults>>

ReconcileDiverged ==
  /\ pc = "reconcile"
  /\ Plan \subseteq indexed
  /\ \E c \in Plan : ~Equivalent(c)
  /\ Bail
  /\ UNCHANGED <<world, faults>>

\* Absent, or Unknown: run() decides, with a token of its own if need be.
ReconcileAbsent ==
  /\ pc = "reconcile"
  /\ \/ ~(Plan \subseteq indexed) /\ UNCHANGED faults
     \/ Fault
  /\ pc' = "guards"
  /\ token' = IF Oidc THEN "issued" ELSE "none"
  /\ UNCHANGED <<world, order, at, tries, build, record, exit, row, ledger, released,
                 rollbacks>>

\* Dependencies outside the plan must be on the index already, and Trusted
\* Publishing cannot create a crate.
check_publish_set_completeness == \A c \in Plan : Deps[c] \ Plan \subseteq indexed
check_tp_new_crates == token = "issued" => Plan \ Custom \subseteq Known \cup indexed

\* An index that does not answer lets both guards pass.
GuardsPass ==
  /\ pc = "guards"
  /\ \/ check_publish_set_completeness /\ check_tp_new_crates /\ UNCHANGED faults
     \/ Fault
  /\ Goto("decide")
  /\ UNCHANGED <<world, tries>>

\* A guard refuses, no token is issued, or the working tree is dirty.
GuardsRefuse ==
  /\ pc = "guards"
  /\ \/ ~(check_publish_set_completeness /\ check_tp_new_crates) /\ UNCHANGED faults
     \/ Fault
  /\ Bail
  /\ UNCHANGED world

-----------------------------------------------------------------------------
(***************************************************************************)
(* One crate: skip what is there with equivalent content, fail on anything *)
(* that cannot be verified, publish what is not there.                     *)
(***************************************************************************)
Guarded(c) == c \notin Custom

\* Mutant: what was found on the index is recorded like an own upload.
SkipAndRecord ==
  /\ pc = "decide" /\ Guarded(Current) /\ Current \in indexed
  /\ Equivalent(Current)
  /\ record' = record \cup {Current}
  /\ NextCrate
  /\ UNCHANGED <<world, faults>>

\* Mutant: the version is enough.
SkipOnVersion ==
  /\ pc = "decide" /\ Guarded(Current) /\ Current \in indexed
  /\ Advance
  /\ UNCHANGED <<world, faults>>

\* Byte-identical or source-equivalent: neither recorded nor polled.
SkipPublished ==
  /\ pc = "decide" /\ Guarded(Current) /\ Current \in indexed
  /\ Equivalent(Current)
  /\ Advance
  /\ UNCHANGED <<world, faults>>

\* Other content under this version.
RefuseDivergence ==
  /\ pc = "decide" /\ Guarded(Current) /\ Current \in indexed
  /\ ~Equivalent(Current)
  /\ Bail
  /\ UNCHANGED <<world, faults>>

\* The index, the local package or the download fails: fail closed.
CannotVerify ==
  /\ pc = "decide" /\ Guarded(Current)
  /\ Fault
  /\ Bail
  /\ UNCHANGED world

MustPublish ==
  /\ pc = "decide"
  /\ Guarded(Current) => Current \notin indexed
  /\ IF Current \in Waiting /\ Deps[Current] # {}
     THEN Goto("wait") /\ UNCHANGED tries
     ELSE Goto("send") /\ tries' = 1
  /\ UNCHANGED <<world, faults>>

DepsAppear ==
  /\ pc = "wait" /\ Deps[Current] \subseteq indexed
  /\ Goto("send") /\ tries' = 1
  /\ UNCHANGED <<world, faults>>

DepsTimeOut ==
  /\ pc = "wait" /\ ~(Deps[Current] \subseteq indexed)
  /\ Bail
  /\ UNCHANGED <<world, faults>>

-----------------------------------------------------------------------------
(***************************************************************************)
(* `cargo publish`.  Only index lag and network errors are tried again.    *)
(***************************************************************************)
\* What cargo can resolve a dependency against.
Resolvable(d) ==
  /\ d \notin yanked
  /\ IF d \in Custom THEN registry[d] # NoBuild ELSE d \in indexed

CanResolve == \A d \in Deps[Current] : Resolvable(d)

\* Mutant: one attempt too many.
RetryOnceMore ==
  IF tries <= Attempts
  THEN Goto("send") /\ tries' = tries + 1
  ELSE Bail

RetryOrFail ==
  IF tries < Attempts
  THEN Goto("send") /\ tries' = tries + 1
  ELSE Bail

\* Lag of the index, or an upstream that never arrived.
Unresolved ==
  /\ pc = "send" /\ ~CanResolve
  /\ RetryOrFail
  /\ UNCHANGED <<world, faults>>

\* The version is taken: the registry refuses, and that is not retried.
AlreadyUploaded ==
  /\ pc = "send" /\ CanResolve /\ registry[Current] # NoBuild
  /\ Bail
  /\ UNCHANGED <<world, faults>>

Upload ==
  /\ CanResolve /\ registry[Current] = NoBuild
  /\ registry' = [registry EXCEPT ![Current] = build]
  /\ mine' = mine \cup {Current}
  /\ attempt' = attempt \cup {Current}
  /\ UNCHANGED <<indexed, yanked>>

\* Published and recorded; polled for when a later crate needs it.
Published ==
  /\ pc = "send"
  /\ Upload
  /\ record' = record \cup {Current}
  /\ IF HasDependents(Current) /\ Current \notin Impatient
     THEN /\ pc' = "poll"
          /\ UNCHANGED <<order, at, tries, build, token, exit, row, ledger, released, rollbacks>>
     ELSE NextCrate
  /\ UNCHANGED <<unheard, faults>>

\* The upload landed and its answer was lost: cargo reports a network error.
AnswerLost ==
  /\ pc = "send"
  /\ Fault
  /\ Upload
  /\ unheard' = unheard \cup {Current}
  /\ RetryOrFail

\* A network error before the upload, or a failure cargo does not survive.
SendFails ==
  /\ pc = "send"
  /\ Fault
  /\ RetryOrFail \/ Bail
  /\ UNCHANGED world

\* The poll asks crates.io, whatever registry the crate went to.
PollSees ==
  /\ pc = "poll" /\ Current \in indexed
  /\ Advance
  /\ UNCHANGED <<world, faults>>

PollTimesOut ==
  /\ pc = "poll" /\ Current \notin indexed
  /\ Bail
  /\ UNCHANGED <<world, faults>>

-----------------------------------------------------------------------------
(***************************************************************************)
(* The world, kills, and the tag rollback of a later process.              *)
(***************************************************************************)
process == <<pc, order, at, tries, build, record, token, exit, row, ledger, released,
             rollbacks>>

IndexCatchesUp(c) ==
  /\ registry[c] # NoBuild /\ c \notin indexed \cup Custom
  /\ indexed' = indexed \cup {c}
  /\ UNCHANGED <<registry, yanked, mine, attempt, unheard, process, faults>>

\* Another job of the workspace releases one of its crates.
OtherJobUploads(c, b) ==
  /\ c \in Outsiders /\ registry[c] = NoBuild
  /\ registry' = [registry EXCEPT ![c] = b]
  /\ UNCHANGED <<indexed, yanked, mine, attempt, unheard, process, faults>>

\* report.json is written at the end of the stage: a kill loses the record, and
\* the row of an earlier run stands.
Kill ==
  /\ pc # "idle"
  /\ Fault
  /\ pc' = "idle" /\ exit' = "killed"
  /\ record' = {}
  /\ UNCHANGED <<world, order, at, tries, build, token, row, ledger, released, rollbacks>>

\* Mutant: a clean publish is withdrawn as well.
AnyCandidate == {"Succeeded", "Failed", "RollbackFailed", "RollbackSkippedNoScope"}

\* The outcomes that make a Submitter's row a candidate for a rollback: what it
\* submitted is withdrawn only while the submission is partial.
candidate_rows == {"Failed", "RollbackFailed", "RollbackSkippedNoScope"}

\* A forced tag rollback yanks the crates that the row names, all but `left`,
\* and leaves an outcome.  A row that names none has nothing to yank.
Withdraw(left, outcome) ==
  /\ pc = "idle" /\ rollbacks < MaxRollbacks
  /\ row \in candidate_rows /\ ledger # {}
  /\ yanked' = yanked \cup (ledger \ left)
  /\ row' = outcome
  /\ exit' = "none"
  /\ rollbacks' = rollbacks + 1
  /\ UNCHANGED <<registry, indexed, mine, attempt, unheard, pc, order, at, tries, build,
                 record, token, ledger, released>>

\* A yank that cargo refuses is a warning.  A row that failed keeps its outcome,
\* and with it its place among the candidates.
Rollback ==
  \E left \in SUBSET ledger :
    /\ Withdraw(left, IF row = "Failed" THEN "Failed" ELSE "RolledBack")
    /\ IF left = {} THEN UNCHANGED faults ELSE Fault

\* Some of the yanks were made when cargo could not be started any more.
RollbackBreaks ==
  \E left \in SUBSET ledger : left # {} /\ Withdraw(left, "RollbackFailed") /\ Fault

RollbackWithoutScope == Withdraw(ledger, "RollbackSkippedNoScope") /\ Fault

Step ==
  \/ StartRun
  \/ ReconcileComplete \/ ReconcileDiverged \/ ReconcileAbsent
  \/ GuardsPass \/ GuardsRefuse
  \/ SkipPublished \/ RefuseDivergence \/ CannotVerify \/ MustPublish
  \/ DepsAppear \/ DepsTimeOut
  \/ Unresolved \/ AlreadyUploaded \/ Published \/ AnswerLost \/ SendFails
  \/ PollSees \/ PollTimesOut

Environment ==
  \/ \E c \in Crate : IndexCatchesUp(c)
  \/ \E c \in Crate, b \in Build : OtherJobUploads(c, b)
  \/ Kill \/ Rollback \/ RollbackBreaks \/ RollbackWithoutScope

Next == Step \/ Environment

Spec == Init /\ [][Next]_vars

\* The publisher runs, a failed release is tried again, and an upload shows
\* on the index in the end.
Fairness == WF_vars(Step) /\ \A c \in Crate : WF_vars(IndexCatchesUp(c))

FairSpec == Spec /\ Fairness

-----------------------------------------------------------------------------
(***************************************************************************)
(* What the publisher must do.                                             *)
(***************************************************************************)
\* The publisher is a Submission: crates are immutable slots, and a run ends
\* well only when each planned crate holds content equivalent to its build
\* (the poison guard of publish_to_cargo_with_guard).
Door == INSTANCE Submission WITH
  Slot <- Crate, slots <- registry, wanted <- Plan, verdict <- exit

SubmitsSoundly == Door!Spec

\* When `cargo publish` is spawned, the dependencies published along with the
\* crate are visible on the index, unless their index poll was switched off.
DepsVisibleBeforeSend ==
  pc = "send" => Deps[Current] \cap Plan \subseteq indexed \cup Impatient \cup Custom

\* A rollback never yanks a crate that another job uploaded, and the row of a
\* run that failed names every crate this run uploaded, but for those whose
\* answer was lost.
YanksOnlyOwn ==
  /\ yanked \subseteq mine
  /\ pc = "idle" /\ exit = "err" => attempt \ unheard \subseteq ledger

\* Once a run has ended well, nothing of the release is yanked any more: not by
\* the row of the run that completed it, nor by a row of an earlier failure, nor
\* by one that a later run adds (rollback.rs:391, "not to revert a clean one").
CompletedStaysUp == [][released => yanked' = yanked]_vars

SameSource ==
  \A c \in Crate : registry[c] # NoBuild /\ build # NoBuild =>
    Source[registry[c]] = Source[build]

Needed == UNION {Deps[c] : c \in Eligible} \ Eligible

\* A release that failed halfway completes when it is run again, unless
\* something was yanked, the content changed or a crate of another job that
\* it needs never appears.
CargoConverges ==
  [](yanked = {} /\ SameSource) /\ <>(Needed \subseteq indexed) => <>(exit = "ok")
=============================================================================
