----------------------------- MODULE CargoProofs -----------------------------
(***************************************************************************)
(* Theorems about CargoPublish, for any workspace, any configuration, any  *)
(* number of retries, faults and rollbacks, and any uploads of other jobs. *)
(***************************************************************************)
EXTENDS CargoPublish, SequenceTheorems, FiniteSetTheorems, TLAPS

-----------------------------------------------------------------------------
(***************************************************************************)
(* The inductive invariant.                                                *)
(***************************************************************************)
\* The publisher is at one of its crates.
Busy == pc \in {"decide", "wait", "send", "poll"}

\* A run that is on works through a valid order, from its first crate.
OnOrder ==
  pc # "idle" => /\ at \in 1..Len(order)
                 /\ validate_publish_order(order)
                 /\ Plan = Eligible
                 /\ build \in Build
                 /\ pc \in {"reconcile", "guards"} => at = 1

\* Crate i of the order is on the registry with content equivalent to the build.
Landed(i) == registry[order[i]] # NoBuild /\ Equivalent(order[i])

\* Nobody later in the order waits for crate i, or the index shows it.
Visible(i) ==
  \/ order[i] \in indexed \cup Impatient
  \/ \A j \in (i + 1)..Len(order) : order[i] \notin Deps[order[j]]

\* The crates before the current one are done with; a polled one has landed.
Progress ==
  /\ Busy => \A i \in 1..(at - 1) : Landed(i) /\ Visible(i)
  /\ pc = "poll" => Landed(at)

\* What is named for a rollback this publisher uploaded, and a run records each
\* upload that it hears of.
OwnUploads ==
  /\ \A c \in mine : registry[c] # NoBuild
  /\ record \subseteq attempt /\ ledger \subseteq mine
  /\ pc # "idle" => attempt \ unheard \subseteq record

\* Once a run has ended well there is nothing left to upload, so that no later
\* run records anything, and no row that a rollback takes names a crate.
CompleteIsUp ==
  released => /\ \A c \in Eligible : registry[c] # NoBuild
              /\ pc # "idle" => record = {}
              /\ row \in candidate_rows => ledger = {}

CargoInv ==
  CargoTypeOK /\ OnOrder /\ Progress /\ OwnUploads /\ YanksOnlyOwn /\ CompleteIsUp

-----------------------------------------------------------------------------
(***************************************************************************)
(* The plan.                                                               *)
(***************************************************************************)
\* A plan is a valid order of all the eligible crates.
LEMMA PlanIsOrder ==
  ASSUME NEW s \in cargo_publish_plan
  PROVE  s \in Seq(Crate) /\ validate_publish_order(s) /\ ToSet(s) = Eligible
<1>1. Eligible \subseteq Crate
  BY CargoAssumption DEF Eligible
<1>2. IsFiniteSet(Eligible) /\ Cardinality(Eligible) \in Nat
  BY <1>1, CargoAssumption, FS_Subset, FS_CardinalityType
<1>3. s \in [1..Cardinality(Eligible) -> Eligible] /\ validate_publish_order(s)
  BY DEF cargo_publish_plan, SetToSeqs
<1>4. s \in Seq(Eligible)
  BY <1>2, <1>3
<1>5. s \in Surjection(1..Cardinality(Eligible), Eligible)
  <2> DEFINE D == 1..Cardinality(Eligible)
  <2>1. \A i, j \in D : i # j => s[i] # s[j]
    BY DEF cargo_publish_plan, SetToSeqs
  <2>2. s \in Injection(D, Eligible)
    BY <1>3, <2>1 DEF Injection, IsInjective
  <2>3. Cardinality(D) = Cardinality(Eligible)
    BY <1>2, FS_Interval
  <2> QED BY <1>2, <2>2, <2>3, FS_Injection
<1>6. ToSet(s) = Eligible
  BY <1>3, <1>5 DEF ToSet, Surjection
<1> QED BY <1>1, <1>3, <1>4, <1>6, SeqMonotonic

\* The crates of the order.
LEMMA PlanElements ==
  ASSUME CargoTypeOK
  PROVE  /\ Len(order) \in Nat
         /\ \A i \in 1..Len(order) : order[i] \in Crate /\ order[i] \in Plan
         /\ \A c \in Plan : c \in Crate /\ \E i \in 1..Len(order) : c = order[i]
<1>1. order \in Seq(Crate)
  BY DEF CargoTypeOK
<1>2. Len(order) \in Nat /\ DOMAIN order = 1..Len(order) /\ \A i \in 1..Len(order) : order[i] \in Crate
  BY <1>1, LenProperties, ElementOfSeq
<1> QED BY <1>2 DEF Plan, ToSet

\* A step that keeps the order and the build, replaces nothing on the registry
\* and hides nothing on the index undoes no progress.
LEMMA ProgressKept ==
  ASSUME CargoTypeOK, CargoTypeOK',
         UNCHANGED <<order, build>>,
         \A c \in Crate : registry[c] # NoBuild => registry'[c] = registry[c],
         indexed \subseteq indexed',
         NEW i \in 1..Len(order)
  PROVE  (Landed(i) => Landed(i)') /\ (Visible(i) => Visible(i)')
<1>1. order[i] \in Crate
  BY PlanElements
<1>2. Landed(i) => Landed(i)'
  BY <1>1 DEF Landed, Equivalent
<1>3. Visible(i) => Visible(i)'
  BY DEF Visible
<1> QED BY <1>2, <1>3

-----------------------------------------------------------------------------
(***************************************************************************)
(* The kinds of steps.                                                     *)
(***************************************************************************)
\* A run ends, and its row names what it recorded.
LEMMA FinishStep ==
  ASSUME CargoInv, pc # "idle", NEW v \in {"Succeeded", "AlreadyPublished", "Failed"},
         UNCHANGED record, Finish(v), UNCHANGED world, faults' \in Nat,
         v # "Failed" => \A c \in Eligible : registry[c] # NoBuild
  PROVE  CargoInv'
<1>1. /\ UNCHANGED <<registry, indexed, yanked, mine, attempt, unheard, order, at, tries, build, record,
                     rollbacks>>
      /\ pc' = "idle" /\ ledger' = record /\ row' = v /\ released' = (released \/ v # "Failed")
  BY DEF Finish, world
<1>2. exit' \in {"none", "ok", "err", "killed"} /\ row' \in Outcome
  BY DEF Finish, Outcome
<1>3. token' \in {"none", "issued"}
  BY DEF Finish, CargoInv, CargoTypeOK
<1>4. CargoTypeOK'
  BY <1>1, <1>2, <1>3 DEF CargoInv, CargoTypeOK
<1>5. OnOrder' /\ Progress'
  BY <1>1 DEF OnOrder, Progress, Busy
<1>6. OwnUploads' /\ YanksOnlyOwn'
  BY <1>1 DEF CargoInv, CargoTypeOK, OwnUploads, YanksOnlyOwn
<1>7. CompleteIsUp'
  BY <1>1 DEF CargoInv, CargoTypeOK, CompleteIsUp, candidate_rows
<1> QED BY <1>4, <1>5, <1>6, <1>7 DEF CargoInv

\* A run moves on within a crate.
LEMMA GotoStep ==
  ASSUME CargoInv, UNCHANGED world, faults' \in Nat, tries' \in 0..Attempts,
         UNCHANGED <<order, at, build, record, exit, row, ledger, released, rollbacks>>,
         token' \in {"none", "issued"},
         \/ pc = "reconcile" /\ pc' = "guards"
         \/ pc = "guards" /\ pc' = "decide"
         \/ Busy /\ pc' \in {"wait", "send"}
  PROVE  CargoInv'
<1>1. UNCHANGED <<registry, indexed, yanked, mine, attempt, unheard>>
  BY DEF world
<1>2. pc # "idle" /\ pc' \in {"idle", "reconcile", "guards", "decide", "wait", "send", "poll"} \ {"idle", "poll"}
  BY DEF Busy
<1>3. CargoTypeOK'
  BY <1>1, <1>2 DEF CargoInv, CargoTypeOK
<1>4. OnOrder'
  BY <1>2 DEF CargoInv, OnOrder, Busy, Plan
<1>5. Progress'
  <2>1. at \in 1..Len(order) /\ Len(order) \in Nat
    BY <1>2, PlanElements DEF CargoInv, OnOrder
  <2>2. CASE Busy
    <3>1. \A i \in 1..(at - 1) : Landed(i)' /\ Visible(i)'
      BY <1>1, <1>3, <2>1, <2>2, ProgressKept DEF CargoInv, Progress
    <3> QED BY <1>2, <3>1 DEF Progress
  <2>3. CASE ~Busy
    <3>1. at = 1
      BY <2>3 DEF CargoInv, OnOrder
    <3> QED BY <1>2, <3>1 DEF Progress
  <2> QED BY <2>2, <2>3
<1>6. OwnUploads' /\ YanksOnlyOwn' /\ CompleteIsUp'
  BY <1>1, <1>2 DEF CargoInv, OwnUploads, YanksOnlyOwn, CompleteIsUp
<1> QED BY <1>3, <1>4, <1>5, <1>6 DEF CargoInv

\* A crate is done with: on to the next one, or to the end of the run.
LEMMA AdvanceStep ==
  ASSUME CargoInv, Busy, Landed(at), Visible(at), Advance, UNCHANGED world, UNCHANGED faults
  PROVE  CargoInv'
<1>1. at \in 1..Len(order) /\ Len(order) \in Nat /\ pc # "idle" /\ faults' \in Nat
  BY PlanElements DEF CargoInv, CargoTypeOK, OnOrder, Busy
<1>2. CASE at = Len(order)
  <2>1. \A i \in 1..Len(order) : i \in 1..(at - 1) \/ i = at
    BY <1>1, <1>2
  <2>2. \A i \in 1..Len(order) : registry[order[i]] # NoBuild
    BY <2>1 DEF CargoInv, Progress, Landed
  <2>3. \A c \in Eligible : registry[c] # NoBuild
    BY <1>1, <2>2, PlanElements DEF CargoInv, OnOrder
  <2>4. UNCHANGED record /\ Finish("Succeeded")
    BY <1>2 DEF Advance, NextCrate
  <2> QED BY <1>1, <2>3, <2>4, FinishStep
<1>3. CASE at # Len(order)
  <2>1. /\ UNCHANGED <<registry, indexed, yanked, mine, attempt, unheard, order, tries, build, record, token,
                       exit, row, ledger, released, rollbacks, faults>>
        /\ pc' = "decide" /\ at' = at + 1
    BY <1>3 DEF Advance, NextCrate, world
  <2>2. at' \in 1..Len(order)
    BY <1>1, <1>3, <2>1
  <2>3. CargoTypeOK'
    BY <1>1, <2>1, <2>2 DEF CargoInv, CargoTypeOK
  <2>4. OnOrder'
    BY <1>1, <2>1, <2>2 DEF CargoInv, OnOrder, Plan
  <2>5. Progress'
    <3>1. \A i \in 1..(at' - 1) : i \in 1..Len(order) /\ (i \in 1..(at - 1) \/ i = at)
      BY <1>1, <2>1
    <3>2. \A i \in 1..(at' - 1) : Landed(i) /\ Visible(i)
      BY <3>1 DEF CargoInv, Progress
    <3>3. \A i \in 1..(at' - 1) : Landed(i)' /\ Visible(i)'
      BY <2>1, <2>3, <3>1, <3>2, ProgressKept DEF CargoInv
    <3> QED BY <2>1, <3>3 DEF Progress
  <2>6. OwnUploads' /\ YanksOnlyOwn' /\ CompleteIsUp'
    BY <1>1, <2>1 DEF CargoInv, OwnUploads, YanksOnlyOwn, CompleteIsUp
  <2> QED BY <2>3, <2>4, <2>5, <2>6 DEF CargoInv
<1> QED BY <1>2, <1>3

\* Another attempt, or the end of the run, when nothing was uploaded.
LEMMA RetryStep ==
  ASSUME CargoInv, pc = "send", RetryOrFail \/ Bail, UNCHANGED world, faults' \in Nat
  PROVE  CargoInv'
<1>1. CASE Bail
  BY <1>1, FinishStep DEF Bail
<1>2. CASE RetryOrFail
  <2>1. CASE tries < Attempts
    <3>1. tries' \in 0..Attempts
      BY <1>2, <2>1, CargoAssumption DEF CargoInv, CargoTypeOK, RetryOrFail
    <3>2. pc' = "send" /\ UNCHANGED <<order, at, build, record, token, exit, row, ledger, released, rollbacks>>
      BY <1>2, <2>1 DEF RetryOrFail, Goto
    <3>3. token' \in {"none", "issued"} /\ Busy
      BY <3>2 DEF CargoInv, CargoTypeOK, Busy
    <3> QED BY <3>1, <3>2, <3>3, GotoStep
  <2>2. CASE ~(tries < Attempts)
    BY <1>2, <2>2, FinishStep DEF RetryOrFail, Bail
  <2> QED BY <2>1, <2>2
<1> QED BY <1>1, <1>2

\* A run starts with a fresh plan and nothing recorded.
LEMMA StartRunStep ==
  ASSUME CargoInv, StartRun
  PROVE  CargoInv'
<1>1. /\ UNCHANGED <<registry, indexed, yanked, mine, unheard, row, ledger, released, rollbacks, faults>>
      /\ attempt' = {} /\ pc = "idle" /\ pc' = "reconcile" /\ build' \in Build
      /\ order' \in cargo_publish_plan \ {<<>>}
      /\ at' = 1 /\ tries' = 0 /\ record' = {} /\ token' = "none" /\ exit' = "none"
  BY DEF StartRun
<1>2. order' \in Seq(Crate) /\ order' # <<>> /\ validate_publish_order(order') /\ ToSet(order') = Eligible
  BY <1>1, PlanIsOrder
<1>3. Len(order') \in Nat \ {0}
  BY <1>2, EmptySeq
<1>4. CargoTypeOK'
  <2>1. at' \in 1..(Len(order') + 1) /\ tries' \in 0..Attempts
    BY <1>1, <1>3, CargoAssumption
  <2> QED BY <1>1, <1>2, <2>1 DEF CargoInv, CargoTypeOK
<1>5. OnOrder'
  <2>1. at' \in 1..Len(order')
    BY <1>1, <1>3
  <2>2. validate_publish_order(order)'
    BY <1>2 DEF validate_publish_order
  <2> QED BY <1>1, <1>2, <2>1, <2>2 DEF OnOrder, Plan
<1>6. Progress' /\ OwnUploads' /\ YanksOnlyOwn' /\ CompleteIsUp'
  BY <1>1 DEF CargoInv, Progress, OwnUploads, YanksOnlyOwn, CompleteIsUp, Busy
<1> QED BY <1>4, <1>5, <1>6 DEF CargoInv

\* What an upload does to the registry.
LEMMA UploadEffect ==
  ASSUME CargoInv, pc = "send", Upload
  PROVE  /\ Current \in Eligible /\ Current \in Crate /\ at \in 1..Len(order) /\ Len(order) \in Nat
         /\ build \in Build /\ build # NoBuild
         /\ registry' \in [Crate -> Build \cup {NoBuild}]
         /\ registry[Current] = NoBuild /\ registry'[Current] = build
         /\ \A c \in Crate : c # Current => registry'[c] = registry[c]
         /\ \A c \in Crate : registry[c] # NoBuild => registry'[c] = registry[c]
         /\ mine' = mine \cup {Current} /\ attempt' = attempt \cup {Current}
         /\ UNCHANGED <<indexed, yanked>> /\ ~released
<1>1. at \in 1..Len(order) /\ Len(order) \in Nat /\ build \in Build /\ Current \in Crate /\ Current \in Eligible
  BY PlanElements DEF CargoInv, OnOrder, Current
<1>2. build # NoBuild
  BY <1>1, CargoAssumption
<1>3. registry \in [Crate -> Build \cup {NoBuild}]
  BY DEF CargoInv, CargoTypeOK
<1>4. ~released
  BY <1>1 DEF CargoInv, CompleteIsUp, Upload
<1> QED BY <1>1, <1>2, <1>3, <1>4 DEF Upload

\* The upload keeps the rest of the invariant, whatever the publisher does next
\* as long as it stays on this crate or goes to the next one.
LEMMA PublishedStep ==
  ASSUME CargoInv, Published
  PROVE  CargoInv'
<1>1. /\ pc = "send" /\ Upload /\ record' = record \cup {Current}
      /\ UNCHANGED <<order, tries, build, unheard, rollbacks, faults>>
  BY DEF Published, NextCrate, Finish
<1>2. \/ /\ pc' = "poll" /\ UNCHANGED <<at, token, exit, row, ledger, released>>
      \/ /\ ~(HasDependents(Current) /\ Current \notin Impatient) /\ at # Len(order)
         /\ pc' = "decide" /\ at' = at + 1 /\ UNCHANGED <<token, exit, row, ledger, released>>
      \/ /\ at = Len(order) /\ pc' = "idle" /\ exit' = "ok" /\ token' = "none"
         /\ row' = "Succeeded" /\ ledger' = record' /\ released' = TRUE /\ UNCHANGED at
  BY DEF Published, NextCrate, Finish, CargoInv, CargoTypeOK
<1> DEFINE Effect ==
         /\ Current \in Eligible /\ Current \in Crate /\ at \in 1..Len(order) /\ Len(order) \in Nat
         /\ build \in Build /\ build # NoBuild
         /\ registry' \in [Crate -> Build \cup {NoBuild}]
         /\ registry[Current] = NoBuild /\ registry'[Current] = build
         /\ \A c \in Crate : c # Current => registry'[c] = registry[c]
         /\ \A c \in Crate : registry[c] # NoBuild => registry'[c] = registry[c]
         /\ mine' = mine \cup {Current} /\ attempt' = attempt \cup {Current}
         /\ UNCHANGED <<indexed, yanked>> /\ ~released
<1>3. Effect
  BY <1>1, UploadEffect
<1>4. CargoTypeOK'
  <2>1. /\ indexed' \subseteq {c \in Crate \ Custom : registry'[c] # NoBuild}
        /\ yanked' \subseteq {c \in Crate : registry'[c] # NoBuild}
    BY <1>3 DEF CargoInv, CargoTypeOK
  <2>2. at' \in 1..(Len(order') + 1)
    BY <1>1, <1>2, <1>3
  <2>3. /\ record' \subseteq Crate /\ ledger' \subseteq Crate
        /\ mine' \subseteq Crate /\ attempt' \subseteq mine' /\ unheard' \subseteq mine'
    BY <1>1, <1>2, <1>3 DEF CargoInv, CargoTypeOK
  <2>4. /\ pc' \in {"idle", "reconcile", "guards", "decide", "wait", "send", "poll"}
        /\ token' \in {"none", "issued"}
        /\ exit' \in {"none", "ok", "err", "killed"}
        /\ row' \in Outcome /\ released' \in BOOLEAN
    BY <1>2 DEF CargoInv, CargoTypeOK, Outcome
  <2> QED BY <1>1, <1>3, <2>1, <2>2, <2>3, <2>4 DEF CargoInv, CargoTypeOK
<1>5. OnOrder'
  BY <1>1, <1>2, <1>3 DEF CargoInv, OnOrder, Plan
<1>6. Progress'
  <2>1. \A i \in 1..Len(order) : (Landed(i) => Landed(i)') /\ (Visible(i) => Visible(i)')
    BY <1>1, <1>3, <1>4, ProgressKept DEF CargoInv
  <2>2. \A i \in 1..(at - 1) : i \in 1..Len(order) /\ Landed(i)' /\ Visible(i)'
    BY <1>1, <1>3, <2>1 DEF CargoInv, Progress, Busy
  <2>3. registry'[order[at]] # NoBuild /\ Source[registry'[order[at]]] = Source[build]
    BY <1>3 DEF Current
  <2>4. CASE pc' = "poll" /\ UNCHANGED at
    BY <1>1, <2>2, <2>3, <2>4 DEF Progress, Landed, Equivalent
  <2>5. CASE /\ ~(HasDependents(Current) /\ Current \notin Impatient)
             /\ at # Len(order) /\ pc' = "decide" /\ at' = at + 1
    <3>1. Visible(at)
      BY <2>5 DEF HasDependents, Later, Current, Visible
    <3>2. \A i \in 1..(at' - 1) : i \in 1..(at - 1) \/ i = at
      BY <1>3, <2>5
    <3>3. registry'[order'[at]] # NoBuild /\ Source[registry'[order'[at]]] = Source[build']
      BY <1>1, <2>3
    <3>4. \A i \in 1..(at' - 1) : Landed(i)' /\ Visible(i)'
      BY <1>3, <2>1, <2>2, <3>1, <3>2, <3>3 DEF Landed, Equivalent
    <3> QED BY <2>5, <3>4 DEF Progress
  <2>6. CASE pc' = "idle"
    BY <2>6 DEF Progress, Busy
  <2> QED BY <1>2, <2>4, <2>5, <2>6
<1>7. OwnUploads'
  BY <1>1, <1>2, <1>3 DEF CargoInv, CargoTypeOK, OwnUploads
<1>8. YanksOnlyOwn'
  BY <1>1, <1>2, <1>3 DEF CargoInv, CargoTypeOK, OwnUploads, YanksOnlyOwn
<1>9. CompleteIsUp'
  <2>1. CASE at = Len(order) /\ row' = "Succeeded" /\ pc' = "idle"
    <3>1. \A i \in 1..Len(order) : i \in 1..(at - 1) \/ i = at
      BY <1>3, <2>1
    <3>2. \A i \in 1..(at - 1) : registry[order[i]] # NoBuild /\ order[i] \in Crate
      BY <1>1, <1>3, PlanElements DEF CargoInv, Progress, Landed, Busy
    <3>3. \A i \in 1..Len(order) : registry'[order[i]] # NoBuild
      BY <1>3, <3>1, <3>2 DEF Current
    <3>4. \A c \in Eligible : registry'[c] # NoBuild
      BY <1>1, <3>3, PlanElements DEF CargoInv, OnOrder
    <3> QED BY <2>1, <3>4 DEF CompleteIsUp, candidate_rows
  <2>2. CASE UNCHANGED released
    BY <1>3, <2>2 DEF CompleteIsUp
  <2> QED BY <1>2, <2>1, <2>2
<1> QED BY <1>4, <1>5, <1>6, <1>7, <1>8, <1>9 DEF CargoInv

\* The registry took the crate and nobody told the publisher.
LEMMA AnswerLostStep ==
  ASSUME CargoInv, AnswerLost
  PROVE  CargoInv'
<1>1. /\ pc = "send" /\ Upload /\ unheard' = unheard \cup {Current} /\ faults' = faults + 1
      /\ UNCHANGED <<order, at, build, record, rollbacks>> /\ released' = released
  BY DEF AnswerLost, Fault, RetryOrFail, Goto, Bail, Finish, CargoInv, CargoTypeOK
<1>2. \/ /\ pc' = "send" /\ tries < Attempts /\ tries' = tries + 1
         /\ UNCHANGED <<token, exit, row, ledger>>
      \/ /\ pc' = "idle" /\ UNCHANGED tries /\ token' \in {token, "none"} /\ exit' = "err" /\ row' = "Failed"
         /\ ledger' = record
  BY DEF AnswerLost, RetryOrFail, Goto, Bail, Finish
<1> DEFINE Effect ==
         /\ Current \in Eligible /\ Current \in Crate /\ at \in 1..Len(order) /\ Len(order) \in Nat
         /\ build \in Build /\ build # NoBuild
         /\ registry' \in [Crate -> Build \cup {NoBuild}]
         /\ registry[Current] = NoBuild /\ registry'[Current] = build
         /\ \A c \in Crate : c # Current => registry'[c] = registry[c]
         /\ \A c \in Crate : registry[c] # NoBuild => registry'[c] = registry[c]
         /\ mine' = mine \cup {Current} /\ attempt' = attempt \cup {Current}
         /\ UNCHANGED <<indexed, yanked>> /\ ~released
<1>3. Effect
  BY <1>1, UploadEffect
<1>4. CargoTypeOK'
  <2>1. /\ indexed' \subseteq {c \in Crate \ Custom : registry'[c] # NoBuild}
        /\ yanked' \subseteq {c \in Crate : registry'[c] # NoBuild}
    BY <1>3 DEF CargoInv, CargoTypeOK
  <2>2. tries' \in 0..Attempts /\ faults' \in Nat
    BY <1>1, <1>2, CargoAssumption DEF CargoInv, CargoTypeOK
  <2>3. /\ ledger' \subseteq Crate
        /\ mine' \subseteq Crate /\ attempt' \subseteq mine' /\ unheard' \subseteq mine'
    BY <1>1, <1>2, <1>3 DEF CargoInv, CargoTypeOK
  <2>4. /\ pc' \in {"idle", "reconcile", "guards", "decide", "wait", "send", "poll"}
        /\ token' \in {"none", "issued"}
        /\ exit' \in {"none", "ok", "err", "killed"}
        /\ row' \in Outcome /\ released' \in BOOLEAN
    BY <1>1, <1>2 DEF CargoInv, CargoTypeOK, Outcome
  <2> QED BY <1>1, <1>3, <2>1, <2>2, <2>3, <2>4 DEF CargoInv, CargoTypeOK
<1>5. OnOrder'
  BY <1>1, <1>2, <1>3 DEF CargoInv, OnOrder, Plan
<1>6. Progress'
  <2>1. \A i \in 1..(at - 1) : Landed(i)' /\ Visible(i)'
    BY <1>1, <1>3, <1>4, ProgressKept DEF CargoInv, Progress, Busy
  <2> QED BY <1>1, <1>2, <2>1 DEF Progress
<1>7. OwnUploads' /\ YanksOnlyOwn'
  BY <1>1, <1>2, <1>3 DEF CargoInv, CargoTypeOK, OwnUploads, YanksOnlyOwn
<1>8. CompleteIsUp'
  BY <1>1, <1>3 DEF CompleteIsUp
<1> QED BY <1>4, <1>5, <1>6, <1>7, <1>8 DEF CargoInv

\* The index catches up, or another job fills a slot: the publisher stands still.
LEMMA WorldStep ==
  ASSUME CargoInv, (\E c \in Crate : IndexCatchesUp(c)) \/ (\E c \in Crate, b \in Build : OtherJobUploads(c, b))
  PROVE  CargoInv'
<1>1. /\ UNCHANGED <<pc, order, at, tries, build, record, token, exit, row, ledger, released, rollbacks>>
      /\ UNCHANGED <<yanked, mine, attempt, unheard, faults>>
  BY DEF IndexCatchesUp, OtherJobUploads, process
<1>2. /\ registry' \in [Crate -> Build \cup {NoBuild}]
      /\ \A c \in Crate : registry[c] # NoBuild => registry'[c] = registry[c]
  BY CargoAssumption DEF CargoInv, CargoTypeOK, IndexCatchesUp, OtherJobUploads
<1>3. /\ indexed \subseteq indexed'
      /\ \A c \in indexed' \ indexed : c \in Crate \ Custom /\ registry[c] # NoBuild
  BY DEF IndexCatchesUp, OtherJobUploads
<1>4. CargoTypeOK'
  <2>1. \A c \in indexed : c \in Crate \ Custom /\ registry[c] # NoBuild
    BY DEF CargoInv, CargoTypeOK
  <2>2. \A c \in indexed' : c \in Crate \ Custom /\ registry'[c] # NoBuild
    BY <1>2, <1>3, <2>1
  <2>3. \A c \in yanked : c \in Crate /\ registry'[c] # NoBuild
    BY <1>2 DEF CargoInv, CargoTypeOK
  <2> QED BY <1>1, <1>2, <2>2, <2>3 DEF CargoInv, CargoTypeOK
<1>5. OnOrder'
  BY <1>1 DEF CargoInv, OnOrder, Plan
<1>6. Progress'
  <2>1. Busy => Len(order) \in Nat /\ at \in 1..Len(order)
    BY PlanElements DEF CargoInv, OnOrder, Busy
  <2>2. \A i \in 1..Len(order) : (Landed(i) => Landed(i)') /\ (Visible(i) => Visible(i)')
    BY <1>1, <1>2, <1>3, <1>4, ProgressKept DEF CargoInv
  <2>3. Busy => \A i \in 1..(at - 1) : Landed(i)' /\ Visible(i)'
    BY <2>1, <2>2 DEF CargoInv, Progress
  <2>4. ASSUME pc = "poll" PROVE Landed(at)'
    <3>1. at \in 1..Len(order) /\ Landed(at)
      BY <2>1, <2>4 DEF CargoInv, Progress, Busy
    <3>2. order[at] \in Crate
      BY <3>1, PlanElements DEF CargoInv
    <3> QED BY <1>1, <1>2, <3>1, <3>2 DEF Landed, Equivalent
  <2> QED BY <1>1, <2>3, <2>4 DEF Progress, Busy
<1>7. OwnUploads' /\ YanksOnlyOwn'
  BY <1>1, <1>2 DEF CargoInv, CargoTypeOK, OwnUploads, YanksOnlyOwn
<1>8. CompleteIsUp'
  <2>1. Eligible \subseteq Crate
    BY CargoAssumption DEF Eligible
  <2>2. CargoTypeOK'
    BY <1>4
  <2> QED BY <1>1, <1>2, <2>1, CargoAssumption DEF CargoInv, CompleteIsUp
<1> QED BY <1>4, <1>5, <1>6, <1>7, <1>8 DEF CargoInv

\* A kill loses the record; the row of an earlier run stands.
LEMMA KillStep ==
  ASSUME CargoInv, Kill
  PROVE  CargoInv'
<1>1. /\ UNCHANGED <<registry, indexed, yanked, mine, attempt, unheard, order, at, tries, build, token, row,
                     ledger, released, rollbacks>>
      /\ pc' = "idle" /\ exit' = "killed" /\ record' = {} /\ faults' = faults + 1
  BY DEF Kill, Fault, world
<1>2. CargoTypeOK'
  BY <1>1 DEF CargoInv, CargoTypeOK
<1>3. OnOrder' /\ Progress'
  BY <1>1 DEF OnOrder, Progress, Busy
<1>4. OwnUploads' /\ YanksOnlyOwn' /\ CompleteIsUp'
  BY <1>1 DEF CargoInv, OwnUploads, YanksOnlyOwn, CompleteIsUp
<1> QED BY <1>2, <1>3, <1>4 DEF CargoInv

\* The three ways a rollback can end are one withdrawal each.
LEMMA RollbackWithdraws ==
  ASSUME CargoInv, Rollback \/ RollbackBreaks \/ RollbackWithoutScope
  PROVE  /\ \E left, outcome : outcome \in Outcome /\ Withdraw(left, outcome)
         /\ faults' = faults \/ faults' = faults + 1
<1>1. "Failed" \in Outcome /\ "RolledBack" \in Outcome /\ "RollbackFailed" \in Outcome
      /\ "RollbackSkippedNoScope" \in Outcome
  BY DEF Outcome
<1>2. CASE Rollback
  BY <1>1, <1>2 DEF Rollback, Fault
<1>3. CASE RollbackBreaks
  BY <1>1, <1>3 DEF RollbackBreaks, Fault
<1>4. CASE RollbackWithoutScope
  BY <1>1, <1>4 DEF RollbackWithoutScope, Fault
<1> QED BY <1>2, <1>3, <1>4

\* A rollback yanks what the row names, and only of a release not completed.
LEMMA RollbackStep ==
  ASSUME CargoInv, Rollback \/ RollbackBreaks \/ RollbackWithoutScope
  PROVE  CargoInv' /\ ~released
<1>1. PICK left, outcome : outcome \in Outcome /\ Withdraw(left, outcome)
  BY RollbackWithdraws
<1>2. /\ UNCHANGED <<registry, indexed, mine, attempt, unheard, pc, order, at, tries, build, record, token,
                     ledger, released>>
      /\ pc = "idle" /\ exit' = "none" /\ rollbacks' = rollbacks + 1 /\ row' \in Outcome
      /\ row \in candidate_rows /\ ledger # {}
      /\ yanked' = yanked \cup (ledger \ left)
  BY <1>1 DEF Withdraw
<1>3. ~released
  BY <1>2 DEF CargoInv, CompleteIsUp
<1>4. CargoTypeOK'
  <2>1. yanked' \subseteq {c \in Crate : registry[c] # NoBuild}
    BY <1>2 DEF CargoInv, CargoTypeOK, OwnUploads
  <2>2. rollbacks' \in Nat /\ faults' \in Nat
    BY <1>2, RollbackWithdraws DEF CargoInv, CargoTypeOK
  <2> QED BY <1>2, <2>1, <2>2 DEF CargoInv, CargoTypeOK
<1>5. OnOrder' /\ Progress'
  BY <1>2 DEF OnOrder, Progress, Busy
<1>6. OwnUploads' /\ YanksOnlyOwn'
  BY <1>2 DEF CargoInv, OwnUploads, YanksOnlyOwn
<1>7. CompleteIsUp'
  BY <1>2, <1>3 DEF CompleteIsUp
<1> QED BY <1>3, <1>4, <1>5, <1>6, <1>7 DEF CargoInv

-----------------------------------------------------------------------------
(***************************************************************************)
(* The invariant is inductive.                                             *)
(***************************************************************************)
\* Nothing is published before the first run.
LEMMA CargoInit == Init => CargoInv
<1> SUFFICES ASSUME Init PROVE CargoInv
  OBVIOUS
<1>1. order \in Seq(Crate) /\ Len(order) = 0
  BY EmptySeq DEF Init
<1>2. CargoTypeOK
  <2>1. released \in BOOLEAN /\ row \in Outcome
    BY DEF Init, Outcome
  <2>2. at \in 1..(Len(order) + 1) /\ tries \in 0..Attempts /\ rollbacks \in Nat /\ faults \in Nat
    BY <1>1, CargoAssumption DEF Init
  <2> QED BY <1>1, <2>1, <2>2 DEF Init, CargoTypeOK
<1>3. OnOrder /\ Progress /\ OwnUploads /\ YanksOnlyOwn /\ CompleteIsUp
  BY DEF Init, OnOrder, Progress, OwnUploads, YanksOnlyOwn, CompleteIsUp, Busy
<1> QED BY <1>2, <1>3 DEF CargoInv

\* A crate that the index shows with equivalent content needs nothing more.
LEMMA ShownIsDone ==
  ASSUME CargoInv, Busy, Current \in indexed, Equivalent(Current)
  PROVE  Landed(at) /\ Visible(at)
BY DEF CargoInv, CargoTypeOK, Landed, Visible, Current

\* The publisher's own steps keep the invariant.
LEMMA PublisherStep ==
  ASSUME CargoInv, Step
  PROVE  CargoInv'
<1>1. faults \in Nat /\ (Fault => faults' \in Nat) /\ 1 \in 0..Attempts /\ tries \in 0..Attempts
      /\ token \in {"none", "issued"}
  BY CargoAssumption DEF CargoInv, CargoTypeOK, Fault
<1>2. ASSUME ReconcileDiverged \/ GuardsRefuse \/ RefuseDivergence \/ CannotVerify
             \/ DepsTimeOut \/ AlreadyUploaded \/ PollTimesOut
      PROVE  CargoInv'
  <2>1. /\ pc # "idle"
        /\ UNCHANGED record /\ Finish("Failed")
        /\ UNCHANGED world /\ faults' \in Nat
    BY <1>1, <1>2 DEF ReconcileDiverged, GuardsRefuse, RefuseDivergence, CannotVerify,
                      DepsTimeOut, AlreadyUploaded, PollTimesOut, Bail
  <2> QED BY <2>1, FinishStep
<1>10. CASE ReconcileComplete
  <2>1. \A c \in Eligible : registry[c] # NoBuild
    BY <1>10 DEF ReconcileComplete, CargoInv, CargoTypeOK, OnOrder
  <2>2. pc # "idle" /\ UNCHANGED record /\ Finish("AlreadyPublished") /\ UNCHANGED world /\ faults' \in Nat
    BY <1>1, <1>10 DEF ReconcileComplete
  <2> QED BY <2>1, <2>2, FinishStep
<1>3. CASE ReconcileAbsent
  BY <1>1, <1>3, GotoStep DEF ReconcileAbsent
<1>4. CASE GuardsPass
  BY <1>1, <1>4, GotoStep DEF GuardsPass, Goto
<1>5. CASE MustPublish
  BY <1>1, <1>5, GotoStep DEF MustPublish, Goto, Busy
<1>6. CASE DepsAppear
  BY <1>1, <1>6, GotoStep DEF DepsAppear, Goto, Busy
<1>7. CASE SkipPublished
  <2>1. Busy /\ Landed(at) /\ Visible(at)
    BY <1>7, ShownIsDone DEF SkipPublished, Busy
  <2> QED BY <1>7, <2>1, AdvanceStep DEF SkipPublished
<1>8. CASE PollSees
  <2>1. Busy /\ Landed(at) /\ Visible(at)
    BY <1>8 DEF CargoInv, Progress, PollSees, Busy, Visible, Current
  <2> QED BY <1>8, <2>1, AdvanceStep DEF PollSees
<1>9. CASE Unresolved \/ SendFails
  BY <1>1, <1>9, RetryStep DEF Unresolved, SendFails
<1> QED BY <1>2, <1>3, <1>4, <1>5, <1>6, <1>7, <1>8, <1>9, <1>10, StartRunStep, PublishedStep, AnswerLostStep DEF Step

\* Every step keeps the invariant.
LEMMA CargoStep == CargoInv /\ [Next]_vars => CargoInv'
<1> SUFFICES ASSUME CargoInv, [Next]_vars PROVE CargoInv'
  OBVIOUS
<1>1. ASSUME UNCHANGED vars PROVE CargoInv'
  BY <1>1 DEF CargoInv, CargoTypeOK, OnOrder, Progress, OwnUploads, YanksOnlyOwn, CompleteIsUp, Busy, Landed,
              Visible, Equivalent, validate_publish_order, Plan, vars
<1>2. CASE Step
  BY <1>2, PublisherStep
<1>3. CASE Environment
  BY <1>3, WorldStep, KillStep, RollbackStep DEF Environment
<1> QED BY <1>1, <1>2, <1>3 DEF Next

\* The invariant holds in every state of every behaviour.
LEMMA CargoInvariant == Spec => []CargoInv
BY CargoInit, CargoStep, PTL DEF Spec

-----------------------------------------------------------------------------
(***************************************************************************)
(* What the publisher does, for any instance.                              *)
(***************************************************************************)
\* Every variable keeps its type; in particular the index shows only what was
\* uploaded and no crate is sent more than PUBLISH_PROPAGATION_RETRIES times.
THEOREM CargoTypes == Spec => []CargoTypeOK
<1>1. CargoInv => CargoTypeOK
  BY DEF CargoInv
<1> QED BY <1>1, CargoInvariant, PTL

\* A rollback yanks no crate of another job, and the row of a failed run names
\* every upload of this run that was heard of.
THEOREM RollbackYanksOnlyOwn == Spec => []YanksOnlyOwn
<1>1. CargoInv => YanksOnlyOwn
  BY DEF CargoInv
<1> QED BY <1>1, CargoInvariant, PTL

\* What a step may never do once a run has ended well: yank a crate.
KeepsUp == released => yanked' = yanked

\* Once the release is complete no rollback yanks any of it, however many runs
\* failed before and after, and whatever rows they left.
THEOREM CompletedReleaseStaysUp == Spec => CompletedStaysUp
<1>1. ASSUME CargoInv, [Next]_vars PROVE [KeepsUp]_vars
  <2>1. ASSUME Step PROVE yanked' = yanked
    BY <2>1 DEF Step, StartRun, ReconcileComplete, ReconcileDiverged, ReconcileAbsent, GuardsPass, GuardsRefuse,
                SkipPublished, RefuseDivergence, CannotVerify, MustPublish, DepsAppear, DepsTimeOut, Unresolved,
                AlreadyUploaded, Published, AnswerLost, SendFails, PollSees, PollTimesOut, Upload, world
  <2>2. ASSUME (\E c \in Crate : IndexCatchesUp(c)) \/ (\E c \in Crate, b \in Build : OtherJobUploads(c, b)) \/ Kill
        PROVE  yanked' = yanked
    BY <2>2 DEF IndexCatchesUp, OtherJobUploads, Kill, world
  <2>3. ASSUME Rollback \/ RollbackBreaks \/ RollbackWithoutScope PROVE ~released
    BY <1>1, <2>3, RollbackStep
  <2> QED BY <1>1, <2>1, <2>2, <2>3 DEF Next, Environment, KeepsUp
<1>2. CompletedStaysUp <=> [][KeepsUp]_vars
  BY PTL DEF CompletedStaysUp, KeepsUp
<1> QED BY <1>1, <1>2, CargoInvariant, PTL DEF Spec

\* When `cargo publish` is spawned for a crate, the dependencies published
\* along with it show on the index, whatever the shape of the workspace.
THEOREM DependenciesVisible == Spec => []DepsVisibleBeforeSend
<1>1. ASSUME CargoInv PROVE DepsVisibleBeforeSend
  <2> SUFFICES ASSUME pc = "send", NEW d \in Deps[Current], d \in Plan
               PROVE  d \in indexed \cup Impatient
    BY DEF DepsVisibleBeforeSend
  <2>1. at \in 1..Len(order) /\ Len(order) \in Nat /\ validate_publish_order(order)
    BY <1>1, PlanElements DEF CargoInv, OnOrder
  <2>2. PICK i \in 1..Len(order) : d = order[i]
    BY <1>1, PlanElements DEF CargoInv
  <2>3. i < at
    BY <2>1, <2>2 DEF validate_publish_order, Current
  <2>4. Visible(i)
    BY <1>1, <2>1, <2>2, <2>3 DEF CargoInv, Progress, Busy
  <2>5. at \in (i + 1)..Len(order)
    BY <2>1, <2>2, <2>3
  <2> QED BY <2>2, <2>4, <2>5 DEF Visible, Current
<1> QED BY <1>1, CargoInvariant, PTL

\* The registry only fills, one crate at a time.
LEMMA StepFillsAtMostOne ==
  ASSUME CargoInv, [Next]_vars
  PROVE  Door!FillsAtMostOne
<1>1. ASSUME Published \/ AnswerLost PROVE Door!FillsAtMostOne
  <2>1. pc = "send" /\ Upload
    BY <1>1 DEF Published, AnswerLost
  <2>2. Current \in Crate /\ build \in Build
    BY <2>1, UploadEffect
  <2> QED BY <2>1, <2>2 DEF Upload, Door!FillsAtMostOne
<1>2. ASSUME NEW c \in Crate, NEW b \in Build, OtherJobUploads(c, b) PROVE Door!FillsAtMostOne
  BY <1>2 DEF OtherJobUploads, Door!FillsAtMostOne
<1>3. ASSUME registry' = registry PROVE Door!FillsAtMostOne
  BY <1>3 DEF Door!FillsAtMostOne
<1>4. ASSUME Step, ~Published, ~AnswerLost PROVE registry' = registry
  BY <1>4 DEF Step, StartRun, ReconcileComplete, ReconcileDiverged, ReconcileAbsent, GuardsPass, GuardsRefuse,
              SkipPublished, RefuseDivergence, CannotVerify, MustPublish, DepsAppear, DepsTimeOut, Unresolved,
              AlreadyUploaded, SendFails, PollSees, PollTimesOut, world
<1>5. ASSUME \/ \E c \in Crate : IndexCatchesUp(c)
             \/ Kill \/ Rollback \/ RollbackBreaks \/ RollbackWithoutScope
      PROVE  registry' = registry
  BY <1>5 DEF IndexCatchesUp, Kill, Rollback, RollbackBreaks, RollbackWithoutScope, Withdraw, world
<1>6. ASSUME UNCHANGED vars PROVE registry' = registry
  BY <1>6 DEF vars
<1> QED BY <1>1, <1>2, <1>3, <1>4, <1>5, <1>6 DEF Next, Environment

\* A run that is called complete has every planned crate on the registry.
LEMMA OkIsComplete ==
  ASSUME CargoInv, [Next]_vars, exit' = "ok", exit # "ok"
  PROVE  Door!Complete(Plan', build')
<1>1. \/ ReconcileComplete
      \/ SkipPublished /\ Finish("Succeeded") /\ at = Len(order)
      \/ PollSees /\ Finish("Succeeded") /\ at = Len(order)
      \/ Published /\ at = Len(order) /\ UNCHANGED at
  <2>1. ASSUME Step
        PROVE  ReconcileComplete \/ SkipPublished \/ PollSees \/ Published
    BY <2>1 DEF Step, StartRun, ReconcileComplete, ReconcileDiverged, ReconcileAbsent, GuardsPass, GuardsRefuse,
                SkipPublished, RefuseDivergence, CannotVerify, MustPublish, DepsAppear, DepsTimeOut, Unresolved,
                AlreadyUploaded, AnswerLost, SendFails, PollSees, PollTimesOut, RetryOrFail, Bail, Finish, Goto
  <2>2. ~Environment
    BY DEF Environment, IndexCatchesUp, OtherJobUploads, Kill, Rollback, RollbackBreaks, RollbackWithoutScope,
           Withdraw, process
  <2>3. ~UNCHANGED vars
    BY DEF vars
  <2>4. Len(order) \in Nat /\ (pc # "idle" => at \in 1..Len(order))
    BY PlanElements DEF CargoInv, OnOrder
  <2>5. ASSUME SkipPublished \/ PollSees PROVE at = Len(order) /\ Finish("Succeeded")
    BY <2>5 DEF SkipPublished, PollSees, Advance, NextCrate
  <2>6. ASSUME Published PROVE at = Len(order) /\ UNCHANGED at
    BY <2>4, <2>6 DEF Published, NextCrate, Finish
  <2> QED BY <2>1, <2>2, <2>3, <2>5, <2>6 DEF Next
<1>2. \A i \in 1..Len(order) : registry'[order[i]] # NoBuild /\ Source[registry'[order[i]]] = Source[build]
  <2>1. Len(order) \in Nat /\ \A i \in 1..Len(order) : order[i] \in Crate /\ order[i] \in Plan
    BY PlanElements DEF CargoInv
  <2>2. CASE ReconcileComplete
    BY <2>1, <2>2 DEF CargoInv, CargoTypeOK, ReconcileComplete, Equivalent, world
  <2>3. CASE (SkipPublished \/ PollSees) /\ at = Len(order)
    <3>1. Busy /\ Landed(at)
      BY <2>3, ShownIsDone DEF CargoInv, Progress, SkipPublished, PollSees, Busy
    <3>2. \A i \in 1..Len(order) : Landed(i)
      BY <2>1, <2>3, <3>1 DEF CargoInv, Progress
    <3>3. registry' = registry
      BY <2>3 DEF SkipPublished, PollSees, world
    <3> QED BY <3>2, <3>3 DEF Landed, Equivalent
  <2>4. CASE Published /\ at = Len(order)
    <3>1. pc = "send" /\ Upload
      BY <2>4 DEF Published
    <3>2. /\ registry'[Current] = build /\ build # NoBuild
          /\ \A c \in Crate : registry[c] # NoBuild => registry'[c] = registry[c]
      BY <3>1, UploadEffect
    <3>3. \A i \in 1..(at - 1) : Landed(i)
      BY <3>1 DEF CargoInv, Progress, Busy
    <3>4. \A i \in 1..Len(order) : i \in 1..(at - 1) \/ i = at
      BY <2>1, <2>4
    <3> QED BY <2>1, <3>2, <3>3, <3>4 DEF Landed, Equivalent, Current
  <2> QED BY <1>1, <2>2, <2>3, <2>4
<1>3. UNCHANGED <<order, build>>
  BY <1>1 DEF ReconcileComplete, SkipPublished, PollSees, Published, NextCrate, Finish
<1>4. \A c \in Plan : \E i \in 1..Len(order) : c = order[i]
  BY PlanElements DEF CargoInv
<1>5. Plan' = Plan
  BY <1>3 DEF Plan
<1> QED BY <1>2, <1>3, <1>4, <1>5 DEF Door!Complete

\* The cargo publisher implements Submission: nothing on the registry is
\* replaced, and a run that succeeds has every planned crate there with content
\* equivalent to its own build.
THEOREM CargoSubmitsSoundly == Spec => SubmitsSoundly
<1>1. Init => Door!Init
  BY DEF Init, Door!Init
<1>2. CargoInv /\ [Next]_vars => [Door!Next]_<<registry, Plan, build, exit>>
  BY StepFillsAtMostOne, OkIsComplete DEF Door!Next
<1> QED BY <1>1, <1>2, CargoInvariant, PTL DEF Spec, SubmitsSoundly, Door!Spec
=============================================================================
