---------------------------- MODULE TagCutProofs ----------------------------
(***************************************************************************)
(* Theorems about TagCut: any number of checkouts, groups, versions, runs, *)
(* withdrawals and faults.                                                 *)
(***************************************************************************)
EXTENDS TagCut, SequenceTheorems, WellFoundedInduction, TLAPS

-----------------------------------------------------------------------------
(***************************************************************************)
(* The least and the greatest of a set of numbers, and prefixes.           *)
(***************************************************************************)
\* A set of numbers has a least element.
LEMMA MinIn ==
  ASSUME NEW S, S \subseteq Nat, S # {}
  PROVE  Min(S) \in S /\ \A y \in S : Min(S) <= y
<1>1. PICK R : R = {ss \in Nat \X Nat : ss[1] < ss[2]}
  OBVIOUS
<1>2. IsWellFoundedOn(R, Nat)
  BY <1>1, NatLessThanWellFounded DEF OpToRel
<1>3. PICK x \in S : \A y \in S : <<y, x>> \notin R
  BY <1>2, WFMin
<1>4. \A y \in S : x <= y
  <2> TAKE y \in S
  <2>1. <<y, x>> \in Nat \X Nat /\ <<y, x>>[1] = y /\ <<y, x>>[2] = x /\ x \in Nat /\ y \in Nat
    OBVIOUS
  <2>2. ~(y < x)
    BY <1>1, <1>3, <2>1
  <2> QED BY <2>1, <2>2
<1> QED BY <1>4 DEF Min

\* A bounded set of numbers has a greatest element.
LEMMA MaxIn ==
  ASSUME NEW M \in Nat, NEW S, S \subseteq 0..M, S # {}
  PROVE  Max(S) \in S /\ \A y \in S : Max(S) >= y
<1>1. PICK T : T = {M - x : x \in S}
  OBVIOUS
<1>2. T \subseteq Nat /\ T # {}
  <2>1. \A x \in S : x \in 0..M
    OBVIOUS
  <2>2. \A x \in S : M - x \in Nat
    BY <2>1
  <2> QED BY <1>1, <2>2
<1>3. Min(T) \in T /\ \A y \in T : Min(T) <= y
  BY <1>2, MinIn
<1>4. PICK x \in S : Min(T) = M - x
  BY <1>1, <1>3
<1>5. \A y \in S : x >= y
  <2> TAKE y \in S
  <2>1. M - y \in T
    BY <1>1
  <2>2. M - x <= M - y
    BY <1>3, <1>4, <2>1
  <2> QED BY <2>2
<1> QED BY <1>5 DEF Max

\* A prefix, entry by entry.
LEMMA PrefixDef ==
  ASSUME NEW S, NEW s \in Seq(S), NEW t \in Seq(S)
  PROVE  IsPrefix(s, t) <=> /\ Len(s) <= Len(t)
                            /\ \A i \in 1..Len(s) : s[i] = t[i]
<1>1. Len(s) \in Nat /\ Len(t) \in Nat
  BY LenProperties
<1> SUFFICES ASSUME Len(s) <= Len(t)
             PROVE  SubSeq(s, 1, Len(s)) = SubSeq(t, 1, Len(s)) <=> \A i \in 1..Len(s) : s[i] = t[i]
  BY DEF IsPrefix
<1>2. SubSeq(s, 1, Len(s)) = s
  BY SubSeqFull
<1>3. \A i \in 1..Len(s) : t[i] \in S
  BY <1>1, ElementOfSeq
<1>4. /\ SubSeq(t, 1, Len(s)) \in Seq(S)
      /\ Len(SubSeq(t, 1, Len(s))) = Len(s)
      /\ \A i \in 1..Len(s) : SubSeq(t, 1, Len(s))[i] = t[i]
  <2>1. 1 \in Int /\ Len(s) \in Int
    BY <1>1
  <2>2. /\ SubSeq(t, 1, Len(s)) \in Seq(S)
        /\ Len(SubSeq(t, 1, Len(s))) = IF 1 <= Len(s) THEN Len(s) - 1 + 1 ELSE 0
        /\ \A i \in 1..(Len(s) - 1 + 1) : SubSeq(t, 1, Len(s))[i] = t[1 + i - 1]
    BY <1>3, <2>1, SubSeqProperties
  <2> QED BY <1>1, <2>2
<1> QED BY <1>2, <1>4, SeqEqual

\* Ancestry is transitive.
LEMMA PrefixTrans ==
  ASSUME NEW S, NEW s \in Seq(S), NEW t \in Seq(S), NEW u \in Seq(S),
         IsPrefix(s, t), IsPrefix(t, u)
  PROVE  IsPrefix(s, u)
<1>1. Len(s) \in Nat /\ Len(t) \in Nat /\ Len(u) \in Nat
  BY LenProperties
<1>2. Len(s) <= Len(t) /\ \A i \in 1..Len(s) : s[i] = t[i]
  BY PrefixDef
<1>3. Len(t) <= Len(u) /\ \A i \in 1..Len(t) : t[i] = u[i]
  BY PrefixDef
<1>4. Len(s) <= Len(u) /\ \A i \in 1..Len(s) : s[i] = u[i]
  BY <1>1, <1>2, <1>3
<1> QED BY <1>4, PrefixDef

\* A commit is an ancestor of itself and of what is committed on top of it.
LEMMA PrefixAppend ==
  ASSUME NEW S, NEW s \in Seq(S), NEW e \in S
  PROVE  IsPrefix(s, s) /\ IsPrefix(s, Append(s, e))
<1>1. Len(s) \in Nat
  BY LenProperties
<1>2. /\ Append(s, e) \in Seq(S) /\ Len(Append(s, e)) = Len(s) + 1
      /\ \A i \in 1..Len(s) : Append(s, e)[i] = s[i]
  BY AppendProperties
<1>3. IsPrefix(s, s)
  BY <1>1, PrefixDef
<1>4. IsPrefix(s, Append(s, e))
  <2>1. PICK t \in Seq(S) : t = Append(s, e)
    BY <1>2
  <2>2. Len(t) = Len(s) + 1 /\ \A i \in 1..Len(s) : s[i] = t[i]
    BY <1>2, <2>1
  <2>3. Len(s) <= Len(t)
    BY <1>1, <2>2
  <2>4. IsPrefix(s, t)
    BY <2>2, <2>3, PrefixDef
  <2> QED BY <2>1, <2>4
<1> QED BY <1>3, <1>4

-----------------------------------------------------------------------------
(***************************************************************************)
(* The inductive invariant: of the command in each checkout, of its tree   *)
(* and of its tags, and of the remote.                                     *)
(***************************************************************************)
\* A command has something to tag, and pushes when all of it is tagged.
Progress(c) ==
  /\ pc[c] \in {"idle", "done"} => plan[c] = NoPlan
  /\ pc[c] \in {"idle", "write", "commit", "done"} => made[c] = {}
  /\ pc[c] \notin {"idle", "done"} => Planned(c) # {}
  /\ pc[c] \in {"tag", "api"} => made[c] # Planned(c)
  /\ pc[c] = "push" => made[c] = Planned(c)

\* The first version is never cut again.
NewVersions(c) == \A g \in Group : plan[c][g] # 1 /\ <<g, 1>> \notin stale[c]

\* A lockstep tree reads as its commit does, unless a bump was stopped in it,
\* and what is tagged is what the manifests read.
Tree(c) ==
  /\ pc[c] = "commit" => \A g \in Planned(c) : disk[c][g] = plan[c][g]
  /\ shape = "lockstep" /\ c \notin torn =>
       \A g \in Group : \/ disk[c][g] = Manifest(head[c])[g]
                        \/ pc[c] = "commit" /\ g \in Planned(c)
  /\ pc[c] \in {"tag", "push", "api"} /\ c \notin torn =>
       \A g \in Planned(c) : Manifest(head[c])[g] = plan[c][g]

\* The tags of this run are at HEAD and as asked.
TagsMade(c) ==
  \A g \in made[c] : LET tag == ltags[c][g][plan[c][g]]
                     IN tag # NoTag /\ tag.at = head[c] /\ (opts[c].sign => tag.signed)

\* API tagging, and what stands in for it, tag a commit of the remote branch.
ApiPushed(c) ==
  pc[c] = "api" \/ (pc[c] = "push" /\ opts[c].push = "api") => IsPrefix(head[c], origin)

FirstTagged(tags) == \A g \in Group : tags[g][1] # NoTag

Named(tags) ==
  \A g \in Group, v \in Version :
    tags[g][v] # NoTag => Manifest(tags[g][v].at)[g] = v \/ tags[g][v].by \in torn

Local(c) ==
  /\ Progress(c)
  /\ NewVersions(c)
  /\ Tree(c)
  /\ TagsMade(c)
  /\ ApiPushed(c)
  /\ FirstTagged(ltags[c])
  /\ Named(ltags[c])

OnBranch ==
  \A g \in Group, v \in Version :
    rtags[g][v] # NoTag /\ <<g, v>> \notin deferred => IsPrefix(rtags[g][v].at, origin)

Remote == FirstTagged(rtags) /\ Named(rtags) /\ OnBranch

CutInv == CutTypeOK /\ Remote /\ \A c \in Clone : Local(c)

-----------------------------------------------------------------------------
(***************************************************************************)
(* Commits and tags.                                                       *)
(***************************************************************************)
\* A commit is a history that is not empty.
LEMMA CommitFacts ==
  ASSUME NEW k \in Commit
  PROVE  /\ k \in Seq(Entries) /\ Len(k) \in Nat \ {0}
         /\ Manifest(k) \in [Group -> Version]
<1>1. k \in Seq(Entries) /\ k # <<>>
  BY DEF Commit
<1>2. Len(k) \in Nat \ {0}
  BY <1>1, EmptySeq
<1>3. k[Len(k)] \in Entries
  BY <1>1, <1>2, ElementOfSeq
<1>4. Last(k) \in Entries
  BY <1>3 DEF Last
<1> QED BY <1>1, <1>2, <1>4 DEF Manifest, Entries

\* A commit on top of another has its own manifests.
LEMMA CommitOnTop ==
  ASSUME NEW k \in Commit, NEW e \in Entries
  PROVE  /\ Append(k, e) \in Commit
         /\ Manifest(Append(k, e)) = e.man
         /\ IsPrefix(k, Append(k, e))
<1>1. k \in Seq(Entries) /\ Len(k) \in Nat
  BY CommitFacts
<1>2. /\ Append(k, e) \in Seq(Entries) /\ Append(k, e) # <<>>
      /\ Len(Append(k, e)) = Len(k) + 1 /\ Append(k, e)[Len(k) + 1] = e
  BY <1>1, AppendProperties
<1>3. IsPrefix(k, Append(k, e))
  BY <1>1, PrefixAppend
<1>4. Last(Append(k, e)) = e
  BY <1>2 DEF Last
<1> QED BY <1>2, <1>3, <1>4 DEF Commit, Manifest

\* The ancestors of commits.
LEMMA Ancestors ==
  ASSUME NEW k \in Commit, NEW l \in Commit, NEW m \in Commit
  PROVE  IsPrefix(k, k) /\ (IsPrefix(k, l) /\ IsPrefix(l, m) => IsPrefix(k, m))
<1>1. k \in Seq(Entries) /\ l \in Seq(Entries) /\ m \in Seq(Entries)
  BY CommitFacts
<1>2. IsPrefix(k, k)
  <2>1. Len(k) \in Nat
    BY <1>1, LenProperties
  <2> QED BY <1>1, <2>1, PrefixDef
<1> QED BY <1>1, <1>2, PrefixTrans

WithTag(tags, g, v, x) == [tags EXCEPT ![g][v] = x]

\* Setting one tag changes no other.
LEMMA SetTag ==
  ASSUME NEW tags \in Tags, NEW g \in Group, NEW v \in Version, NEW x \in TagObject \cup {NoTag},
         NEW r, r = WithTag(tags, g, v, x)
  PROVE  /\ r \in Tags
         /\ \A h \in Group, w \in Version :
              r[h][w] = IF h = g /\ w = v THEN x ELSE tags[h][w]
<1> DEFINE row == [tags[g] EXCEPT ![v] = x]
<1>1. tags \in [Group -> [Version -> TagObject \cup {NoTag}]]
  BY DEF Tags
<1>2. tags[g] \in [Version -> TagObject \cup {NoTag}]
  BY <1>1
<1>3. row \in [Version -> TagObject \cup {NoTag}] /\ \A w \in Version : row[w] = IF w = v THEN x ELSE tags[g][w]
  BY <1>2
<1>4. r = [tags EXCEPT ![g] = row]
  BY DEF WithTag
<1> HIDE DEF row
<1>5. r \in [Group -> [Version -> TagObject \cup {NoTag}]] /\ r[g] = row /\ \A h \in Group : h # g => r[h] = tags[h]
  BY <1>1, <1>3, <1>4
<1> QED BY <1>3, <1>5 DEF Tags

\* A tag object.
LEMMA TagTypes ==
  ASSUME NEW k \in Commit, NEW signed \in BOOLEAN, NEW who \in Author
  PROVE  /\ Tag(k, signed, who) \in TagObject /\ Tag(k, signed, who) # NoTag
         /\ Tag(k, signed, who).at = k /\ Tag(k, signed, who).by = who
         /\ Tag(k, signed, who).signed = signed
<1>1. Tag(k, signed, who) \in TagObject
  BY DEF Tag, TagObject
<1> QED BY <1>1, TagCutAssumption DEF Tag

\* The newest tag of a family that has its first one.
LEMMA LatestIn ==
  ASSUME NEW tags \in Tags, FirstTagged(tags), NEW g \in Group
  PROVE  Latest(tags, g) \in Version /\ tags[g][Latest(tags, g)] # NoTag
<1>1. 1 \in Version /\ MaxVersion \in Nat
  BY TagCutAssumption DEF Version
<1>2. Tagged(tags, g) \subseteq 0..MaxVersion /\ 1 \in Tagged(tags, g)
  BY <1>1 DEF Tagged, Version, FirstTagged
<1>3. Latest(tags, g) \in Tagged(tags, g)
  BY <1>1, <1>2, MaxIn DEF Latest
<1> QED BY <1>3 DEF Tagged

-----------------------------------------------------------------------------
(***************************************************************************)
(* What a step of one checkout leaves alone.                               *)
(***************************************************************************)
Same(d) ==
  /\ head'[d] = head[d] /\ ltags'[d] = ltags[d] /\ disk'[d] = disk[d]
  /\ pc'[d] = pc[d] /\ opts'[d] = opts[d] /\ plan'[d] = plan[d]
  /\ made'[d] = made[d] /\ stale'[d] = stale[d]

\* The branch only moves forward, and a torn checkout stays so.
Forward == UNCHANGED shape /\ torn \subseteq torn' /\ IsPrefix(origin, origin')

\* A checkout a step leaves alone is as sound as before.
LEMMA SameLocal ==
  ASSUME CutInv, CutTypeOK', Forward, NEW d \in Clone, Same(d)
  PROVE  Local(d)'
<1>1. Local(d)
  BY DEF CutInv
<1>2. Planned(d)' = Planned(d)
  BY DEF Same, Planned
<1>3. Progress(d)' /\ NewVersions(d)' /\ FirstTagged(ltags[d])'
  BY <1>1, <1>2 DEF Local, Progress, NewVersions, FirstTagged, Same
<1>4. Tree(d)'
  BY <1>1, <1>2 DEF Local, Tree, Same, Forward
<1>5. TagsMade(d)'
  BY <1>1 DEF Local, TagsMade, Same
<1>6. Named(ltags[d])'
  BY <1>1 DEF Local, Named, Same, Forward
<1>7. ApiPushed(d)'
  <2> SUFFICES ASSUME pc[d] = "api" \/ (pc[d] = "push" /\ opts[d].push = "api")
               PROVE  IsPrefix(head[d], origin')
    BY DEF ApiPushed, Same
  <2>1. IsPrefix(head[d], origin)
    BY <1>1 DEF Local, ApiPushed
  <2>2. head[d] \in Commit /\ origin \in Commit /\ origin' \in Commit
    BY DEF CutInv, CutTypeOK
  <2> QED BY <2>1, <2>2, Ancestors DEF Forward
<1> QED BY <1>3, <1>4, <1>5, <1>6, <1>7 DEF Local

\* A step of c: the other checkouts need no argument.
LEMMA OneCheckout ==
  ASSUME CutInv, CutTypeOK', Forward, NEW c \in Clone,
         \A d \in Clone : d # c => Same(d), Local(c)', Remote'
  PROVE  CutInv'
<1>1. \A d \in Clone : Local(d)'
  BY SameLocal
<1> QED BY <1>1 DEF CutInv

\* A step that leaves the remote alone.
LEMMA SameRemote ==
  ASSUME CutInv, UNCHANGED <<shape, origin, rtags, deferred>>, torn \subseteq torn'
  PROVE  Remote' /\ Forward
<1>1. IsPrefix(origin, origin)
  BY Ancestors DEF CutInv, CutTypeOK
<1> QED BY <1>1 DEF CutInv, Remote, FirstTagged, Named, OnBranch, Forward

-----------------------------------------------------------------------------
(***************************************************************************)
(* Planning and the bump commit.                                           *)
(***************************************************************************)
\* A planned version is none, or one after the first.
LEMMA PlannedVersion ==
  ASSUME NEW prev \in Version, NEW manifest \in Version, NEW bump \in BOOLEAN
  PROVE  planned_version(prev, bump, manifest) \in Nat \ {1}
<1>1. prev \in Nat /\ manifest \in Nat /\ prev >= 1 /\ manifest >= 1
  BY TagCutAssumption DEF Version
<1>2. CASE bump
  BY <1>1, <1>2 DEF planned_version
<1>3. CASE ~bump
  BY <1>1, <1>3 DEF planned_version
<1> QED BY <1>2, <1>3

\* The plan of a checkout that has every first tag.
LEMMA PlanTypes ==
  ASSUME CutInv, NEW c \in Clone, NEW names, \A g \in Group : 1 \in names[g],
         NEW g \in Group
  PROVE  compute_tags(c, names)[g] \in Nat \ {1}
<1> DEFINE prev == find_previous_tag(c, g, names)
           bump == detect_bump(ltags[c][g][prev], head[c], g)
<1>1. /\ 1 \in Version /\ MaxVersion \in Nat
      /\ ltags[c][g][1] # NoTag /\ disk[c][g] \in Version
  BY TagCutAssumption DEF Version, CutInv, CutTypeOK, Local, FirstTagged
<1>2. prev \in Version
  <2>1. PICK S : S = Tagged(ltags[c], g) \cap names[g]
    OBVIOUS
  <2>2. S \subseteq 0..MaxVersion /\ S # {}
    BY <1>1, <2>1 DEF Tagged, Version
  <2>3. Max(S) \in S
    BY <1>1, <2>2, MaxIn
  <2> QED BY <2>1, <2>3 DEF find_previous_tag, Tagged
<1>3. bump \in BOOLEAN
  BY DEF detect_bump
<1> HIDE DEF prev, bump
<1>4. planned_version(prev, bump, disk[c][g]) \in Nat \ {1}
  BY <1>1, <1>2, <1>3, PlannedVersion
<1>5. compute_tags(c, names)[g] \in {0, planned_version(prev, bump, disk[c][g])}
  BY DEF compute_tags, prev, bump
<1> QED BY <1>4, <1>5

\* A command starts with a plan.
LEMMA StartStep ==
  ASSUME CutInv, NEW c \in Clone, NEW o \in Option, StartTag(c, o)
  PROVE  CutInv'
<1>1. /\ pc[c] = "idle" /\ pc' = [pc EXCEPT ![c] = "write"]
      /\ opts' = [opts EXCEPT ![c] = o] /\ stale' = [stale EXCEPT ![c] = {}]
      /\ UNCHANGED <<shape, origin, rtags, deferred, head, ltags, disk, made, torn, work, withdrawals>>
  BY DEF StartTag, remote, checkout
<1>2. PICK asked \in BOOLEAN :
        LET names == [g \in Group |-> IF asked THEN Tagged(rtags, g) ELSE Version]
            tags == compute_tags(c, names)
        IN /\ IF asked THEN UNCHANGED faults ELSE Fault
           /\ tags # NoPlan /\ \A g \in Group : tags[g] <= MaxVersion
           /\ plan' = [plan EXCEPT ![c] = tags]
           /\ blind' = (blind \/ ~asked)
  BY DEF StartTag
<1>3. PICK names : names = [g \in Group |-> IF asked THEN Tagged(rtags, g) ELSE Version]
  OBVIOUS
<1>4. PICK tags : tags = compute_tags(c, names)
  OBVIOUS
<1>5. /\ tags # NoPlan /\ \A g \in Group : tags[g] <= MaxVersion
      /\ plan' = [plan EXCEPT ![c] = tags]
  BY <1>2, <1>3, <1>4
<1>6. \A g \in Group : 1 \in names[g]
  BY <1>3, TagCutAssumption DEF CutInv, Remote, FirstTagged, Tagged, Version
<1>7. \A g \in Group : tags[g] \in Nat \ {1}
  BY <1>4, <1>6, PlanTypes
<1>8. tags = [g \in Group |-> tags[g]]
  BY <1>4 DEF compute_tags
<1>9. tags \in [Group -> 0..MaxVersion]
  BY <1>5, <1>7, <1>8, TagCutAssumption
<1>10. \E g \in Group : tags[g] # 0
  BY <1>5, <1>8 DEF NoPlan
<1>11. faults' \in 0..MaxFaults
  BY <1>2, TagCutAssumption DEF CutInv, CutTypeOK, Fault
<1>12. blind' \in BOOLEAN
  BY <1>2 DEF CutInv, CutTypeOK
<1>13. CutTypeOK /\ Local(c)
  BY DEF CutInv
<1>14. /\ pc'[c] = "write" /\ plan'[c] = tags /\ opts'[c] = o /\ stale'[c] = {}
       /\ \A d \in Clone : d # c => Same(d)
  BY <1>1, <1>5, <1>13 DEF CutTypeOK, Same
<1>15. made[c] = {}
  BY <1>1, <1>13 DEF Local, Progress
<1>16. \A d \in Clone : made'[d] \subseteq Planned(d)'
  BY <1>1, <1>13, <1>14, <1>15 DEF CutTypeOK, Planned, Same
<1>17. CutTypeOK'
  <2>1. /\ pc' \in [Clone -> {"idle", "write", "commit", "tag", "api", "push", "done"}]
        /\ opts' \in [Clone -> Option]
        /\ plan' \in [Clone -> [Group -> 0..MaxVersion]]
        /\ stale' \in [Clone -> SUBSET (Group \X Version)]
    BY <1>1, <1>5, <1>9, <1>13 DEF CutTypeOK
  <2> QED BY <1>1, <1>11, <1>12, <1>13, <1>16, <2>1 DEF CutTypeOK
<1>18. Planned(c)' # {}
  BY <1>10, <1>14 DEF Planned
<1>19. Local(c)'
  <2>1. Progress(c)' /\ NewVersions(c)'
    BY <1>1, <1>7, <1>14, <1>15, <1>18 DEF Progress, NewVersions
  <2>2. Tree(c)'
    BY <1>1, <1>13, <1>14 DEF Local, Tree
  <2>3. TagsMade(c)' /\ ApiPushed(c)' /\ FirstTagged(ltags[c])' /\ Named(ltags[c])'
    BY <1>1, <1>13, <1>14, <1>15 DEF Local, TagsMade, ApiPushed, FirstTagged, Named
  <2> QED BY <2>1, <2>2, <2>3 DEF Local
<1>20. Remote' /\ Forward
  BY <1>1, SameRemote
<1> QED BY <1>14, <1>17, <1>19, <1>20, OneCheckout

\* A step on to the next place, with the plan as it is.
LEMMA GotoTypes ==
  ASSUME CutTypeOK, NEW c \in Clone, NEW l \in {"commit", "tag", "api", "push"}, Goto(c, l)
  PROVE  /\ pc' \in [Clone -> {"idle", "write", "commit", "tag", "api", "push", "done"}]
         /\ pc'[c] = l /\ \A d \in Clone : d # c => pc'[d] = pc[d]
  BY DEF CutTypeOK, Goto

\* A lockstep tree that reads right already is tagged as it is committed.
LEMMA SkipStep ==
  ASSUME CutInv, NEW c \in Clone, SkipBump(c)
  PROVE  CutInv'
<1>1. /\ pc[c] = "write" /\ shape = "lockstep" /\ Goto(c, "tag")
      /\ \A g \in Planned(c) : disk[c][g] = plan[c][g]
      /\ UNCHANGED <<shape, origin, rtags, deferred, head, ltags, disk, opts, plan, made, stale>>
      /\ UNCHANGED <<torn, blind, work, withdrawals, faults>>
  BY DEF SkipBump, remote, checkout, bounds
<1>2. CutTypeOK /\ Local(c)
  BY DEF CutInv
<1>3. /\ pc' \in [Clone -> {"idle", "write", "commit", "tag", "api", "push", "done"}]
      /\ pc'[c] = "tag" /\ \A d \in Clone : d # c => pc'[d] = pc[d]
  BY <1>1, <1>2, GotoTypes
<1>4. Planned(c)' = Planned(c) /\ Planned(c) \subseteq Group
  BY <1>1 DEF Planned
<1>5. CutTypeOK'
  BY <1>1, <1>2, <1>3 DEF CutTypeOK, Planned
<1>6. \A d \in Clone : d # c => Same(d)
  BY <1>1, <1>3 DEF Same
<1>7. Local(c)'
  <2>1. Progress(c)' /\ NewVersions(c)'
    BY <1>1, <1>2, <1>3, <1>4 DEF Local, Progress, NewVersions
  <2>2. Tree(c)'
    BY <1>1, <1>2, <1>3, <1>4 DEF Local, Tree
  <2>3. TagsMade(c)' /\ ApiPushed(c)' /\ FirstTagged(ltags[c])' /\ Named(ltags[c])'
    BY <1>1, <1>2, <1>3 DEF Local, TagsMade, ApiPushed, FirstTagged, Named
  <2> QED BY <2>1, <2>2, <2>3 DEF Local
<1>8. Remote' /\ Forward
  BY <1>1, SameRemote
<1> QED BY <1>5, <1>6, <1>7, <1>8, OneCheckout

\* The manifests are written where a version is planned.
LEMMA WriteStep ==
  ASSUME CutInv, NEW c \in Clone, WriteManifests(c)
  PROVE  CutInv'
<1>1. /\ pc[c] = "write" /\ Goto(c, "commit")
      /\ disk' = [disk EXCEPT ![c] = [g \in Group |->
                    IF g \in Planned(c) THEN plan[c][g] ELSE disk[c][g]]]
      /\ UNCHANGED <<shape, origin, rtags, deferred, head, ltags, opts, plan, made, stale>>
      /\ UNCHANGED <<torn, blind, work, withdrawals, faults>>
  BY DEF WriteManifests, remote, bounds
<1>2. CutTypeOK /\ Local(c)
  BY DEF CutInv
<1>3. /\ pc' \in [Clone -> {"idle", "write", "commit", "tag", "api", "push", "done"}]
      /\ pc'[c] = "commit" /\ \A d \in Clone : d # c => pc'[d] = pc[d]
  BY <1>1, <1>2, GotoTypes
<1>4. Planned(c)' = Planned(c) /\ Planned(c) \subseteq Group
  BY <1>1 DEF Planned
<1>5. \A g \in Planned(c) : plan[c][g] \in Version
  BY <1>2, TagCutAssumption DEF CutTypeOK, Planned, Version
<1>6. /\ disk' \in [Clone -> [Group -> Version]]
      /\ \A g \in Group : disk'[c][g] = IF g \in Planned(c) THEN plan[c][g] ELSE disk[c][g]
      /\ \A d \in Clone : d # c => disk'[d] = disk[d]
  <2>1. PICK written : written = [g \in Group |-> IF g \in Planned(c) THEN plan[c][g] ELSE disk[c][g]]
    OBVIOUS
  <2>2. disk[c] \in [Group -> Version]
    BY <1>2 DEF CutTypeOK
  <2>3. written \in [Group -> Version]
    BY <1>4, <1>5, <2>1, <2>2
  <2>4. disk' = [disk EXCEPT ![c] = written] /\ disk \in [Clone -> [Group -> Version]]
    BY <1>1, <1>2, <2>1 DEF CutTypeOK
  <2> QED BY <2>1, <2>3, <2>4
<1>7. CutTypeOK'
  BY <1>1, <1>2, <1>3, <1>6 DEF CutTypeOK, Planned
<1>8. \A d \in Clone : d # c => Same(d)
  BY <1>1, <1>3, <1>6 DEF Same
<1>9. Local(c)'
  <2>1. Progress(c)' /\ NewVersions(c)'
    BY <1>1, <1>2, <1>3, <1>4 DEF Local, Progress, NewVersions
  <2>2. Tree(c)'
    BY <1>1, <1>2, <1>3, <1>4, <1>6 DEF Local, Tree
  <2>3. TagsMade(c)' /\ ApiPushed(c)' /\ FirstTagged(ltags[c])' /\ Named(ltags[c])'
    BY <1>1, <1>2, <1>3 DEF Local, TagsMade, ApiPushed, FirstTagged, Named
  <2> QED BY <2>1, <2>2, <2>3 DEF Local
<1>10. Remote' /\ Forward
  BY <1>1, SameRemote
<1> QED BY <1>7, <1>8, <1>9, <1>10, OneCheckout

\* After the commit the manifests of HEAD are those of the plan.
LEMMA CommitStep ==
  ASSUME CutInv, NEW c \in Clone, CommitBump(c)
  PROVE  CutInv'
<1> DEFINE man == [g \in Group |-> IF g \in Planned(c) THEN disk[c][g] ELSE Manifest(head[c])[g]]
           bumped == {g \in Group : man[g] # Manifest(head[c])[g]}
<1>1. /\ pc[c] = "commit" /\ Goto(c, "tag")
      /\ head' = IF bumped = {} THEN head
                 ELSE [head EXCEPT ![c] = Append(head[c], Entry(c, bumped, man))]
      /\ UNCHANGED <<shape, origin, rtags, deferred, ltags, disk, opts, plan, made, stale>>
      /\ UNCHANGED <<torn, blind, work, withdrawals, faults>>
  BY DEF CommitBump, remote, bounds
<1>2. CutTypeOK /\ Local(c)
  BY DEF CutInv
<1>3. /\ pc' \in [Clone -> {"idle", "write", "commit", "tag", "api", "push", "done"}]
      /\ pc'[c] = "tag" /\ \A d \in Clone : d # c => pc'[d] = pc[d]
  BY <1>1, <1>2, GotoTypes
<1>4. Planned(c)' = Planned(c) /\ Planned(c) \subseteq Group
  BY <1>1 DEF Planned
<1>5. head[c] \in Commit /\ disk[c] \in [Group -> Version]
  BY <1>2 DEF CutTypeOK
<1>6. Manifest(head[c]) \in [Group -> Version]
  BY <1>5, CommitFacts
<1>7. man \in [Group -> Version] /\ bumped \subseteq Group
  BY <1>5, <1>6
<1>8. Entry(c, bumped, man) \in Entries /\ Entry(c, bumped, man).man = man
  BY <1>7 DEF Entry, Entries, Author
<1>9. bumped = {} => man = Manifest(head[c])
  BY <1>6, <1>7
<1> HIDE DEF man, bumped
<1>10. /\ head' \in [Clone -> Commit] /\ \A d \in Clone : d # c => head'[d] = head[d]
       /\ Manifest(head'[c]) = man
  <2>1. CASE bumped = {}
    BY <1>1, <1>2, <1>9, <2>1 DEF CutTypeOK
  <2>2. CASE bumped # {}
    <3>1. PICK k : k = Append(head[c], Entry(c, bumped, man))
      OBVIOUS
    <3>2. k \in Commit /\ Manifest(k) = man
      BY <1>5, <1>8, <3>1, CommitOnTop
    <3>3. head' = [head EXCEPT ![c] = k] /\ head \in [Clone -> Commit]
      BY <1>1, <1>2, <2>2, <3>1 DEF CutTypeOK
    <3> QED BY <3>2, <3>3
  <2> QED BY <2>1, <2>2
<1>11. CutTypeOK'
  BY <1>1, <1>2, <1>3, <1>10 DEF CutTypeOK, Planned
<1>12. \A d \in Clone : d # c => Same(d)
  BY <1>1, <1>3, <1>10 DEF Same
<1>13. made[c] = {} /\ Planned(c) # {}
  BY <1>1, <1>2 DEF Local, Progress
<1>14. Local(c)'
  <2>1. Progress(c)' /\ NewVersions(c)'
    BY <1>1, <1>2, <1>3, <1>4, <1>13 DEF Local, Progress, NewVersions
  <2>2. Tree(c)'
    <3>1. \A g \in Planned(c) : disk[c][g] = plan[c][g]
      BY <1>1, <1>2 DEF Local, Tree
    <3>2. \A g \in Group : man[g] = IF g \in Planned(c) THEN disk[c][g] ELSE Manifest(head[c])[g]
      BY DEF man
    <3>3. shape = "lockstep" /\ c \notin torn => \A g \in Group : disk[c][g] = man[g]
      BY <1>1, <1>2, <3>2 DEF Local, Tree
    <3> QED BY <1>1, <1>3, <1>4, <1>10, <3>1, <3>2, <3>3 DEF Tree
  <2>3. TagsMade(c)' /\ ApiPushed(c)' /\ FirstTagged(ltags[c])' /\ Named(ltags[c])'
    BY <1>1, <1>2, <1>3, <1>13 DEF Local, TagsMade, ApiPushed, FirstTagged, Named
  <2> QED BY <2>1, <2>2, <2>3 DEF Local
<1>15. Remote' /\ Forward
  BY <1>1, SameRemote
<1> QED BY <1>11, <1>12, <1>14, <1>15, OneCheckout

-----------------------------------------------------------------------------
(***************************************************************************)
(* The end of a command.                                                   *)
(***************************************************************************)
\* What a command leaves in memory when it returns.
LEMMA ReturnTypes ==
  ASSUME CutTypeOK, NEW c \in Clone, Return(c)
  PROVE  /\ pc' \in [Clone -> {"idle", "write", "commit", "tag", "api", "push", "done"}]
         /\ opts' \in [Clone -> Option]
         /\ plan' \in [Clone -> [Group -> 0..MaxVersion]]
         /\ made' \in [Clone -> SUBSET Group] /\ \A d \in Clone : made'[d] \subseteq Planned(d)'
         /\ pc'[c] \in {"idle", "done"} /\ plan'[c] = NoPlan /\ made'[c] = {}
         /\ \A d \in Clone : d # c =>
              pc'[d] = pc[d] /\ opts'[d] = opts[d] /\ plan'[d] = plan[d] /\ made'[d] = made[d]
<1>1. /\ pc' = [pc EXCEPT ![c] = IF c \in Ci THEN "done" ELSE "idle"]
      /\ opts' = [opts EXCEPT ![c] = NoOption]
      /\ plan' = [plan EXCEPT ![c] = NoPlan]
      /\ made' = [made EXCEPT ![c] = {}]
  BY DEF Return
<1>2. NoOption \in Option /\ NoPlan \in [Group -> 0..MaxVersion]
  BY TagCutAssumption DEF NoOption, Option, NoPlan
<1>3. /\ pc' \in [Clone -> {"idle", "write", "commit", "tag", "api", "push", "done"}]
      /\ pc'[c] \in {"idle", "done"} /\ \A d \in Clone : d # c => pc'[d] = pc[d]
  BY <1>1 DEF CutTypeOK
<1>4. opts' \in [Clone -> Option] /\ \A d \in Clone : d # c => opts'[d] = opts[d]
  BY <1>1, <1>2 DEF CutTypeOK
<1>5. /\ plan' \in [Clone -> [Group -> 0..MaxVersion]]
      /\ plan'[c] = NoPlan /\ \A d \in Clone : d # c => plan'[d] = plan[d]
  BY <1>1, <1>2 DEF CutTypeOK
<1>6. /\ made' \in [Clone -> SUBSET Group]
      /\ made'[c] = {} /\ \A d \in Clone : d # c => made'[d] = made[d]
  BY <1>1 DEF CutTypeOK
<1>7. \A d \in Clone : made'[d] \subseteq Planned(d)'
  BY <1>5, <1>6 DEF CutTypeOK, Planned
<1> QED BY <1>3, <1>4, <1>5, <1>6, <1>7

\* A checkout without a command has its tree and its tags to answer for.
LEMMA IdleLocal ==
  ASSUME NEW c \in Clone, pc[c] \in {"idle", "done"}, plan[c] = NoPlan, made[c] = {},
         \A g \in Group : <<g, 1>> \notin stale[c],
         shape = "lockstep" /\ c \notin torn => \A g \in Group : disk[c][g] = Manifest(head[c])[g],
         FirstTagged(ltags[c]), Named(ltags[c])
  PROVE  Local(c)
<1>1. Progress(c) /\ TagsMade(c) /\ ApiPushed(c)
  BY DEF Progress, TagsMade, ApiPushed
<1>2. NewVersions(c)
  <2>1. \A g \in Group : NoPlan[g] # 1
    BY DEF NoPlan
  <2>2. \A g \in Group : plan[c][g] # 1
    BY <2>1
  <2> QED BY ONLY <2>2, \A g \in Group : <<g, 1>> \notin stale[c] DEF NewVersions
<1>3. Tree(c)
  BY DEF Tree
<1> QED BY <1>1, <1>2, <1>3 DEF Local

\* The same for the state after a step.
LEMMA IdleLocalNext ==
  ASSUME NEW c \in Clone, pc'[c] \in {"idle", "done"}, plan'[c] = NoPlan, made'[c] = {},
         \A g \in Group : <<g, 1>> \notin stale'[c],
         shape' = "lockstep" /\ c \notin torn' =>
           \A g \in Group : disk'[c][g] = Manifest(head'[c])[g],
         FirstTagged(ltags[c])', Named(ltags[c])'
  PROVE  Local(c)'
<1>1. Progress(c)' /\ TagsMade(c)' /\ ApiPushed(c)'
  BY DEF Progress, TagsMade, ApiPushed
<1>2. NewVersions(c)'
  <2>1. \A g \in Group : NoPlan[g] # 1
    BY DEF NoPlan
  <2>2. \A g \in Group : plan'[c][g] # 1
    BY <2>1
  <2> QED BY ONLY <2>2, \A g \in Group : <<g, 1>> \notin stale'[c] DEF NewVersions
<1>3. Tree(c)'
  BY DEF Tree
<1> QED BY <1>1, <1>2, <1>3 DEF Local

\* A command that returns from its tags, with the checkout as it is.
LEMMA ReturnStep ==
  ASSUME CutInv, NEW c \in Clone, pc[c] \in {"tag", "push", "api"}, Return(c),
         UNCHANGED <<shape, head, ltags, disk, torn, blind, work, withdrawals, faults>>,
         stale' \in [Clone -> SUBSET (Group \X Version)],
         \A d \in Clone : d # c => stale'[d] = stale[d],
         \A g \in Group : <<g, 1>> \notin stale'[c],
         origin' \in Commit, IsPrefix(origin, origin'), rtags' \in Tags,
         deferred' \subseteq Group \X Version, Remote'
  PROVE  CutInv'
<1>1. CutTypeOK /\ Local(c)
  BY DEF CutInv
<1>2. /\ pc' \in [Clone -> {"idle", "write", "commit", "tag", "api", "push", "done"}]
      /\ opts' \in [Clone -> Option]
      /\ plan' \in [Clone -> [Group -> 0..MaxVersion]]
      /\ made' \in [Clone -> SUBSET Group] /\ \A d \in Clone : made'[d] \subseteq Planned(d)'
  BY <1>1, ReturnTypes
<1>3. /\ pc'[c] \in {"idle", "done"} /\ plan'[c] = NoPlan /\ made'[c] = {}
      /\ \A d \in Clone : d # c =>
           pc'[d] = pc[d] /\ opts'[d] = opts[d] /\ plan'[d] = plan[d] /\ made'[d] = made[d]
  BY <1>1, ReturnTypes
<1>4. CutTypeOK'
  BY <1>1, <1>2 DEF CutTypeOK
<1>5. \A d \in Clone : d # c => Same(d)
  BY <1>3 DEF Same
<1>6. shape' = "lockstep" /\ c \notin torn' => \A g \in Group : disk'[c][g] = Manifest(head'[c])[g]
  BY <1>1 DEF Local, Tree
<1>7. FirstTagged(ltags[c])' /\ Named(ltags[c])'
  BY <1>1 DEF Local, FirstTagged, Named
<1>8. Local(c)'
  BY <1>3, <1>6, <1>7, IdleLocalNext
<1>9. Forward
  BY DEF Forward
<1> QED BY <1>4, <1>5, <1>8, <1>9, OneCheckout

\* A command that returns and has touched nothing.
LEMMA ReturnQuietly ==
  ASSUME CutInv, NEW c \in Clone, pc[c] \in {"tag", "push", "api"}, Return(c),
         UNCHANGED <<shape, origin, rtags, deferred, head, ltags, disk>>,
         UNCHANGED <<stale, torn, blind, work, withdrawals, faults>>
  PROVE  CutInv'
<1>1. /\ stale' \in [Clone -> SUBSET (Group \X Version)] /\ origin' \in Commit /\ rtags' \in Tags
      /\ deferred' \subseteq Group \X Version
  BY DEF CutInv, CutTypeOK
<1>2. \A g \in Group : <<g, 1>> \notin stale'[c]
  BY DEF CutInv, Local, NewVersions
<1>3. Remote' /\ IsPrefix(origin, origin')
  BY SameRemote DEF Forward
<1> QED BY <1>1, <1>2, <1>3, ReturnStep

-----------------------------------------------------------------------------
(***************************************************************************)
(* The tags.                                                               *)
(***************************************************************************)
\* The next group is a planned one that has no tag yet.
LEMMA NextGroupIn ==
  ASSUME CutInv, NEW c \in Clone, pc[c] \in {"tag", "api"}
  PROVE  /\ NextGroup(c) \in Planned(c) /\ NextGroup(c) \notin made[c]
         /\ NextGroup(c) \in Group /\ plan[c][NextGroup(c)] \in Version
<1>1. made[c] \subseteq Planned(c) /\ made[c] # Planned(c)
  BY DEF CutInv, CutTypeOK, Local, Progress
<1>2. PICK S : S = Planned(c) \ made[c]
  OBVIOUS
<1>3. S # {} /\ S \subseteq Nat
  BY <1>1, <1>2, TagCutAssumption DEF Planned, Group
<1>4. Min(S) \in S
  BY <1>3, MinIn
<1>5. NextGroup(c) \in Planned(c) \ made[c]
  BY <1>2, <1>4 DEF NextGroup
<1> QED BY <1>5, TagCutAssumption DEF Planned, CutInv, CutTypeOK, Version

\* What making a tag at HEAD, or reusing the one there, takes and leaves alone.
MakesTag(c) ==
  LET g == NextGroup(c)
      old == ltags[c][g][plan[c][g]]
      new == Tag(head[c], opts[c].sign, c)
  IN /\ \/ pc[c] = "tag" /\ opts[c].push # "api"
        \/ pc[c] = "api" /\ old = NoTag
     /\ old # NoTag => old.at = head[c]
     /\ ltags' = [ltags EXCEPT ![c][g][plan[c][g]] =
                    IF old # NoTag /\ (old.signed \/ ~opts[c].sign) THEN old ELSE new]
     /\ Made(c, g)
     /\ UNCHANGED <<shape, origin, rtags, deferred, head, disk, stale>>
     /\ UNCHANGED <<torn, blind, work, withdrawals, faults>>

\* A tag is made at HEAD, or the one there is reused.
LEMMA MakeStep ==
  ASSUME CutInv, NEW c \in Clone, MakesTag(c)
  PROVE  CutInv'
<1> DEFINE g == NextGroup(c)
           v == plan[c][g]
           old == ltags[c][g][v]
           new == Tag(head[c], opts[c].sign, c)
           x == IF old # NoTag /\ (old.signed \/ ~opts[c].sign) THEN old ELSE new
<1>1. /\ pc[c] \in {"tag", "api"} /\ (pc[c] = "tag" => opts[c].push # "api")
      /\ old # NoTag => old.at = head[c]
      /\ ltags' = [ltags EXCEPT ![c][g][v] = x]
      /\ Made(c, g)
      /\ UNCHANGED <<shape, origin, rtags, deferred, head, disk, stale>>
      /\ UNCHANGED <<torn, blind, work, withdrawals, faults>>
  BY DEF MakesTag
<1>2. CutTypeOK /\ Local(c)
  BY DEF CutInv
<1>3. g \in Planned(c) /\ g \notin made[c] /\ g \in Group /\ v \in Version
  BY <1>1, NextGroupIn
<1>4. /\ head[c] \in Commit /\ ltags[c] \in Tags /\ opts[c].sign \in BOOLEAN /\ c \in Author
  BY <1>2 DEF CutTypeOK, Option, Author
<1>5. old \in TagObject \cup {NoTag}
  BY <1>3, <1>4 DEF Tags
<1>6. /\ new \in TagObject /\ new # NoTag /\ new.at = head[c] /\ new.by = c
      /\ new.signed = opts[c].sign
  BY <1>4, TagTypes
<1>7. Manifest(head[c])[g] = v \/ c \in torn
  BY <1>1, <1>2, <1>3 DEF Local, Tree
<1>8. old # NoTag => Manifest(old.at)[g] = v \/ old.by \in torn
  BY <1>2, <1>3 DEF Local, Named
<1> HIDE DEF g, v, old, new
<1>9. /\ x \in TagObject /\ x # NoTag /\ x.at = head[c] /\ (opts[c].sign => x.signed)
      /\ Manifest(x.at)[g] = v \/ x.by \in torn
  BY <1>1, <1>4, <1>5, <1>6, <1>7, <1>8
<1> HIDE DEF x
<1>10. PICK r : r = WithTag(ltags[c], g, v, x)
  OBVIOUS
<1>11. /\ r \in Tags
       /\ \A h \in Group, w \in Version : r[h][w] = IF h = g /\ w = v THEN x ELSE ltags[c][h][w]
  BY <1>3, <1>4, <1>9, <1>10, SetTag
<1>12. ltags' = [ltags EXCEPT ![c] = r]
  BY <1>1, <1>10 DEF WithTag
<1>13. ltags' \in [Clone -> Tags] /\ ltags'[c] = r /\ \A d \in Clone : d # c => ltags'[d] = ltags[d]
  BY <1>2, <1>11, <1>12 DEF CutTypeOK
<1>14. FirstTagged(ltags[c])' /\ Named(ltags[c])'
  <2>1. FirstTagged(ltags[c])'
    <3>1. 1 \in Version
      BY TagCutAssumption DEF Version
    <3> QED BY <1>2, <1>9, <1>11, <1>13, <3>1 DEF Local, FirstTagged
  <2>2. Named(ltags[c])'
    BY <1>1, <1>2, <1>9, <1>11, <1>13 DEF Local, Named
  <2> QED BY <2>1, <2>2
<1>15. Remote' /\ Forward
  BY <1>1, SameRemote
<1>16. shape = "lockstep" /\ c \notin torn => \A h \in Group : disk[c][h] = Manifest(head[c])[h]
  BY <1>1, <1>2 DEF Local, Tree
<1>17. \A h \in Group : <<h, 1>> \notin stale[c] /\ plan[c][h] # 1
  BY <1>2 DEF Local, NewVersions
<1>18. CASE Return(c)
  <2>1. /\ pc' \in [Clone -> {"idle", "write", "commit", "tag", "api", "push", "done"}]
        /\ opts' \in [Clone -> Option]
        /\ plan' \in [Clone -> [Group -> 0..MaxVersion]]
        /\ made' \in [Clone -> SUBSET Group] /\ \A d \in Clone : made'[d] \subseteq Planned(d)'
    BY <1>2, <1>18, ReturnTypes
  <2>2. /\ pc'[c] \in {"idle", "done"} /\ plan'[c] = NoPlan /\ made'[c] = {}
        /\ \A d \in Clone : d # c =>
             pc'[d] = pc[d] /\ opts'[d] = opts[d] /\ plan'[d] = plan[d] /\ made'[d] = made[d]
    BY <1>2, <1>18, ReturnTypes
  <2>3. CutTypeOK'
    BY <1>1, <1>2, <1>13, <2>1 DEF CutTypeOK
  <2>4. \A d \in Clone : d # c => Same(d)
    BY <1>1, <1>13, <2>2 DEF Same
  <2>5. Local(c)'
    BY <1>1, <1>14, <1>16, <1>17, <2>2, IdleLocalNext
  <2> QED BY <1>15, <2>3, <2>4, <2>5, OneCheckout
<1>19. CASE /\ made' = [made EXCEPT ![c] = made[c] \cup {g}]
            /\ Goto(c, IF made'[c] = Planned(c) THEN "push" ELSE "tag")
            /\ UNCHANGED <<opts, plan>>
  <2>1. /\ made' \in [Clone -> SUBSET Group] /\ made'[c] = made[c] \cup {g}
        /\ \A d \in Clone : d # c => made'[d] = made[d]
    BY <1>2, <1>3, <1>19 DEF CutTypeOK
  <2>2. \A d \in Clone : Planned(d)' = Planned(d)
    BY <1>19 DEF Planned
  <2>3. \A d \in Clone : made'[d] \subseteq Planned(d)'
    BY <1>2, <1>3, <2>1, <2>2 DEF CutTypeOK
  <2>4. PICK l \in {"push", "tag"} : l = IF made'[c] = Planned(c) THEN "push" ELSE "tag"
    OBVIOUS
  <2>5. Goto(c, l)
    BY <1>19, <2>4
  <2>6. /\ pc' \in [Clone -> {"idle", "write", "commit", "tag", "api", "push", "done"}]
        /\ pc'[c] = l /\ \A d \in Clone : d # c => pc'[d] = pc[d]
    BY <1>2, <2>4, <2>5, GotoTypes
  <2>7. CutTypeOK'
    BY <1>1, <1>2, <1>13, <1>19, <2>1, <2>3, <2>6 DEF CutTypeOK
  <2>8. \A d \in Clone : d # c => Same(d)
    BY <1>1, <1>13, <1>19, <2>1, <2>6 DEF Same
  <2>9. Progress(c)' /\ NewVersions(c)' /\ ApiPushed(c)'
    <3>1. Progress(c)' /\ NewVersions(c)'
      BY <1>1, <1>3, <1>17, <1>19, <2>2, <2>4, <2>6 DEF Progress, NewVersions
    <3>2. ApiPushed(c)'
      BY <1>1, <1>2, <1>19, <2>6 DEF Local, ApiPushed
    <3> QED BY <3>1, <3>2
  <2>10. Tree(c)'
    BY <1>1, <1>2, <1>19, <2>2, <2>4, <2>6 DEF Local, Tree
  <2>11. TagsMade(c)'
    <3> SUFFICES ASSUME NEW h \in made'[c]
                 PROVE  /\ ltags'[c][h][plan[c][h]] # NoTag /\ ltags'[c][h][plan[c][h]].at = head[c]
                        /\ opts[c].sign => ltags'[c][h][plan[c][h]].signed
      BY <1>1, <1>19 DEF TagsMade
    <3>1. CASE h = g
      BY <1>3, <1>9, <1>11, <1>13, <3>1 DEF v
    <3>2. CASE h # g
      <4>1. h \in made[c] /\ h \in Group /\ plan[c][h] \in Version
        BY <1>2, <2>1, <3>2, TagCutAssumption DEF CutTypeOK, Planned, Version
      <4>2. ltags'[c][h][plan[c][h]] = ltags[c][h][plan[c][h]]
        BY <1>11, <1>13, <3>2, <4>1
      <4> QED BY <1>2, <4>1, <4>2 DEF Local, TagsMade
    <3> QED BY <3>1, <3>2
  <2>12. Local(c)'
    BY <1>14, <2>9, <2>10, <2>11 DEF Local
  <2> QED BY <1>15, <2>7, <2>8, <2>12, OneCheckout
<1> QED BY <1>1, <1>18, <1>19 DEF Made

LEMMA CreateStep ==
  ASSUME CutInv, NEW c \in Clone, CreateTag(c)
  PROVE  CutInv'
BY MakeStep DEF CreateTag, MakesTag, remote, bounds

\* A stale tag stops the command.
LEMMA StaleStep ==
  ASSUME CutInv, NEW c \in Clone, StaleTag(c)
  PROVE  CutInv'
<1>1. /\ pc[c] = "tag" /\ Return(c)
      /\ stale' = [stale EXCEPT ![c] = {<<NextGroup(c), plan[c][NextGroup(c)]>>}]
      /\ UNCHANGED <<shape, origin, rtags, deferred, head, ltags, disk>>
      /\ UNCHANGED <<torn, blind, work, withdrawals, faults>>
  BY DEF StaleTag, remote, checkout, bounds
<1>2. NextGroup(c) \in Group /\ plan[c][NextGroup(c)] \in Version
  BY <1>1, NextGroupIn
<1>3. plan[c][NextGroup(c)] # 1
  BY <1>2 DEF CutInv, Local, NewVersions
<1>4. /\ stale' \in [Clone -> SUBSET (Group \X Version)]
      /\ stale'[c] = {<<NextGroup(c), plan[c][NextGroup(c)]>>}
      /\ \A d \in Clone : d # c => stale'[d] = stale[d]
  BY <1>1, <1>2 DEF CutInv, CutTypeOK
<1>5. \A g \in Group : <<g, 1>> \notin stale'[c]
  BY <1>3, <1>4
<1>6. origin' \in Commit /\ rtags' \in Tags /\ deferred' \subseteq Group \X Version
  BY <1>1 DEF CutInv, CutTypeOK
<1>7. Remote' /\ IsPrefix(origin, origin')
  BY <1>1, SameRemote DEF Forward
<1> QED BY <1>1, <1>4, <1>5, <1>6, <1>7, ReturnStep

-----------------------------------------------------------------------------
(***************************************************************************)
(* The push.                                                               *)
(***************************************************************************)
\* All the refs of an accepted push, or none: the branch goes out with its
\* tags, and what it had before is behind it.
LEMMA PushStep ==
  ASSUME CutInv, NEW c \in Clone, Push(c)
  PROVE  CutInv'
<1>1. /\ pc[c] = "push" /\ Accepted(c) /\ Return(c)
      /\ origin' = IF TagsAlone(c) THEN origin ELSE head[c]
      /\ rtags' = [g \in Group |-> [v \in Version |->
                     IF g \in Planned(c) /\ v = plan[c][g] THEN ltags[c][g][v] ELSE rtags[g][v]]]
      /\ deferred' = IF opts[c].push # "tags_only" THEN deferred
                     ELSE deferred \cup {<<g, plan[c][g]>> : g \in Planned(c)}
      /\ UNCHANGED <<shape, head, ltags, disk, stale, torn, blind, work, withdrawals, faults>>
  BY DEF Push, push_branch_and_tags_atomic_in, checkout, bounds
<1>2. CutTypeOK /\ Local(c) /\ Remote
  BY DEF CutInv
<1>3. head[c] \in Commit /\ origin \in Commit /\ ltags[c] \in Tags /\ rtags \in Tags
  BY <1>2 DEF CutTypeOK
<1>4. \A g \in Group, v \in Version :
        rtags'[g][v] = IF g \in Planned(c) /\ v = plan[c][g] THEN ltags[c][g][v] ELSE rtags[g][v]
  BY <1>1
<1>5. rtags' \in Tags
  BY <1>1, <1>3 DEF Tags
<1>6. \A g \in Planned(c) : g \in Group /\ plan[c][g] \in Version
  BY <1>2, TagCutAssumption DEF CutTypeOK, Planned, Version
<1>7. deferred' \subseteq Group \X Version
  BY <1>1, <1>2, <1>6 DEF CutTypeOK
<1>8. origin' \in Commit /\ IsPrefix(origin, origin')
  BY <1>1, <1>3, Ancestors DEF Accepted, FastForward
<1>9. FirstTagged(rtags)'
  <2>1. 1 \in Version
    BY TagCutAssumption DEF Version
  <2>2. \A g \in Group : plan[c][g] # 1
    BY <1>2 DEF Local, NewVersions
  <2> QED BY <1>2, <1>4, <2>1, <2>2 DEF Remote, FirstTagged
<1>10. Named(rtags)'
  BY <1>1, <1>2, <1>4 DEF Local, Remote, Named
<1>11. OnBranch'
  <2> SUFFICES ASSUME NEW g \in Group, NEW v \in Version, rtags'[g][v] # NoTag,
                      <<g, v>> \notin deferred'
               PROVE  IsPrefix(rtags'[g][v].at, origin')
    BY DEF OnBranch
  <2>1. CASE g \in Planned(c) /\ v = plan[c][g]
    <3>1. opts[c].push # "tags_only"
      BY <1>1, <2>1
    <3>2. g \in made[c]
      BY <1>1, <1>2, <2>1 DEF Local, Progress
    <3>3. rtags'[g][v].at = head[c]
      BY <1>2, <1>4, <2>1, <3>2 DEF Local, TagsMade
    <3>4. CASE TagsAlone(c)
      BY <1>1, <1>2, <3>1, <3>3, <3>4 DEF TagsAlone, Local, ApiPushed
    <3>5. CASE ~TagsAlone(c)
      BY <1>1, <1>3, <3>3, <3>5, Ancestors
    <3> QED BY <3>4, <3>5
  <2>2. CASE ~(g \in Planned(c) /\ v = plan[c][g])
    <3>1. rtags'[g][v] = rtags[g][v] /\ <<g, v>> \notin deferred
      BY <1>1, <1>4, <2>2
    <3>2. IsPrefix(rtags[g][v].at, origin)
      BY <1>2, <3>1 DEF Remote, OnBranch
    <3>3. rtags[g][v].at \in Commit
      BY <1>3, <3>1 DEF Tags, TagObject
    <3> QED BY <1>3, <1>8, <3>1, <3>2, <3>3, Ancestors
  <2> QED BY <2>1, <2>2
<1>12. Remote'
  BY <1>9, <1>10, <1>11 DEF Remote
<1>13. stale' \in [Clone -> SUBSET (Group \X Version)] /\ \A g \in Group : <<g, 1>> \notin stale'[c]
  BY <1>1, <1>2 DEF CutTypeOK, Local, NewVersions
<1> QED BY <1>1, <1>5, <1>7, <1>8, <1>12, <1>13, ReturnStep

\* A rejected push ends the command.
LEMMA RejectedStep ==
  ASSUME CutInv, NEW c \in Clone, PushRejected(c) \/ BranchRejected(c)
  PROVE  CutInv'
<1>1. /\ pc[c] \in {"tag", "push"} /\ Return(c)
      /\ UNCHANGED <<shape, origin, rtags, deferred, head, ltags, disk>>
      /\ UNCHANGED <<stale, torn, blind, work, withdrawals, faults>>
  BY DEF PushRejected, BranchRejected, remote, checkout, bounds
<1> QED BY <1>1, ReturnQuietly

\* A branch that moves forward keeps the tags on it.
LEMMA BranchMoves ==
  ASSUME CutInv, origin' \in Commit, IsPrefix(origin, origin'),
         UNCHANGED <<rtags, deferred, torn>>
  PROVE  Remote'
<1>1. Remote /\ CutTypeOK
  BY DEF CutInv
<1>2. OnBranch'
  <2> SUFFICES ASSUME NEW g \in Group, NEW v \in Version, rtags[g][v] # NoTag,
                      <<g, v>> \notin deferred
               PROVE  IsPrefix(rtags[g][v].at, origin')
    BY DEF OnBranch
  <2>1. IsPrefix(rtags[g][v].at, origin)
    BY <1>1 DEF Remote, OnBranch
  <2>2. rtags[g][v].at \in Commit /\ origin \in Commit
    BY <1>1 DEF CutTypeOK, Tags, TagObject
  <2> QED BY <2>1, <2>2, Ancestors
<1> QED BY <1>1, <1>2 DEF Remote, FirstTagged, Named

\* API tagging pushes the branch first.
LEMMA BranchStep ==
  ASSUME CutInv, NEW c \in Clone, PushBranch(c)
  PROVE  CutInv'
<1>1. /\ pc[c] = "tag" /\ FastForward(c) /\ origin' = head[c] /\ Goto(c, "api")
      /\ UNCHANGED <<shape, rtags, deferred, head, ltags, disk, opts, plan, made, stale>>
      /\ UNCHANGED <<torn, blind, work, withdrawals, faults>>
  BY DEF PushBranch, checkout, bounds
<1>2. CutTypeOK /\ Local(c)
  BY DEF CutInv
<1>3. /\ pc' \in [Clone -> {"idle", "write", "commit", "tag", "api", "push", "done"}]
      /\ pc'[c] = "api" /\ \A d \in Clone : d # c => pc'[d] = pc[d]
  BY <1>1, <1>2, GotoTypes
<1>4. head[c] \in Commit /\ origin' \in Commit /\ IsPrefix(origin, origin')
  BY <1>1, <1>2 DEF CutTypeOK, FastForward
<1>5. CutTypeOK'
  BY <1>1, <1>2, <1>3, <1>4 DEF CutTypeOK, Planned
<1>6. \A d \in Clone : d # c => Same(d)
  BY <1>1, <1>3 DEF Same
<1>7. Planned(c)' = Planned(c)
  BY <1>1 DEF Planned
<1>8. Local(c)'
  <2>1. Progress(c)' /\ NewVersions(c)'
    BY <1>1, <1>2, <1>3, <1>7 DEF Local, Progress, NewVersions
  <2>2. Tree(c)'
    BY <1>1, <1>2, <1>3, <1>7 DEF Local, Tree
  <2>3. TagsMade(c)' /\ FirstTagged(ltags[c])' /\ Named(ltags[c])'
    BY <1>1, <1>2, <1>3 DEF Local, TagsMade, FirstTagged, Named
  <2>4. ApiPushed(c)'
    BY <1>1, <1>4, Ancestors DEF ApiPushed
  <2> QED BY <2>1, <2>2, <2>3, <2>4 DEF Local
<1>9. Remote'
  BY <1>1, <1>4, BranchMoves
<1>10. Forward
  BY <1>1, <1>4 DEF Forward
<1> QED BY <1>5, <1>6, <1>8, <1>9, <1>10, OneCheckout

\* Then it creates the tag, on a commit the branch has.
LEMMA ApiStep ==
  ASSUME CutInv, NEW c \in Clone, create_tag_via_github_api(c)
  PROVE  CutInv'
<1> DEFINE v == plan[c][1]
           new == Tag(head[c], FALSE, c)
<1>1. /\ pc[c] = "api" /\ Return(c)
      /\ rtags' = IF rtags[1][v] # NoTag THEN rtags ELSE [rtags EXCEPT ![1][v] = new]
      /\ UNCHANGED <<shape, origin, deferred, head, ltags, disk>>
      /\ UNCHANGED <<stale, torn, blind, work, withdrawals, faults>>
  BY DEF create_tag_via_github_api, checkout, bounds
<1>2. CutTypeOK /\ Local(c) /\ Remote
  BY DEF CutInv
<1>3. /\ head[c] \in Commit /\ origin \in Commit /\ rtags \in Tags /\ c \in Author /\ 1 \in Group
      /\ v \in 0..MaxVersion /\ deferred \subseteq Group \X Version
  BY <1>2, TagCutAssumption DEF CutTypeOK, Author, Group
<1>4. new \in TagObject /\ new # NoTag /\ new.at = head[c] /\ new.by = c
  BY <1>3, TagTypes
<1>5. IsPrefix(head[c], origin)
  BY <1>1, <1>2 DEF Local, ApiPushed
<1>6. stale' \in [Clone -> SUBSET (Group \X Version)] /\ \A g \in Group : <<g, 1>> \notin stale'[c]
  BY <1>1, <1>2 DEF CutTypeOK, Local, NewVersions
<1>7. IsPrefix(origin, origin')
  BY <1>1, <1>3, Ancestors
<1>8. v \in Version => Manifest(head[c])[1] = v \/ c \in torn
  <2>1. v \in Version => 1 \in Planned(c)
    BY <1>3, TagCutAssumption DEF Planned, Version
  <2> QED BY <1>1, <1>2, <2>1 DEF Local, Tree
<1> HIDE DEF v, new
<1>9. CASE rtags' = rtags
  <2>1. Remote'
    BY <1>1, <1>9, SameRemote
  <2> QED BY <1>1, <1>3, <1>6, <1>7, <1>9, <2>1, ReturnStep
<1>10. CASE rtags' = [rtags EXCEPT ![1][v] = new] /\ v \in Version
  <2>1. PICK r : r = WithTag(rtags, 1, v, new)
    OBVIOUS
  <2>2. rtags' = r
    BY <1>10, <2>1 DEF WithTag
  <2>3. /\ r \in Tags
        /\ \A h \in Group, w \in Version : r[h][w] = IF h = 1 /\ w = v THEN new ELSE rtags[h][w]
    BY <1>3, <1>4, <1>10, <2>1, SetTag
  <2>4. FirstTagged(rtags)'
    <3>1. 1 \in Version
      BY TagCutAssumption DEF Version
    <3> QED BY <1>2, <1>4, <2>2, <2>3, <3>1 DEF Remote, FirstTagged
  <2>5. Named(rtags)'
    BY <1>1, <1>2, <1>4, <1>8, <1>10, <2>2, <2>3 DEF Remote, Named
  <2>6. OnBranch'
    BY <1>1, <1>2, <1>4, <1>5, <2>2, <2>3 DEF Remote, OnBranch
  <2>7. Remote'
    BY <2>4, <2>5, <2>6 DEF Remote
  <2> QED BY <1>1, <1>3, <1>6, <1>7, <2>2, <2>3, <2>7, ReturnStep
<1>11. CASE rtags' = [rtags EXCEPT ![1][v] = new] /\ v \notin Version
  <2>1. rtags[1] \in [Version -> TagObject \cup {NoTag}]
    BY <1>3 DEF Tags
  <2>2. [rtags[1] EXCEPT ![v] = new] = rtags[1]
    BY <1>11, <2>1
  <2>3. rtags' = [rtags EXCEPT ![1] = [rtags[1] EXCEPT ![v] = new]]
    BY <1>11
  <2>4. rtags' = rtags
    BY <1>3, <2>2, <2>3 DEF Tags
  <2> QED BY <1>9, <2>4
<1> QED BY <1>1, <1>9, <1>10, <1>11

\* Without `gh` the tag is made in the checkout first.
LEMMA GhMissingStep ==
  ASSUME CutInv, NEW c \in Clone, create_and_push_tag_in(c)
  PROVE  CutInv'
<1>1. /\ pc[c] = "api"
      /\ UNCHANGED <<shape, origin, rtags, deferred, head, disk>>
      /\ UNCHANGED <<stale, torn, blind, work, withdrawals, faults>>
  BY DEF create_and_push_tag_in, remote, bounds
<1>2. CASE Return(c) /\ UNCHANGED ltags
  BY <1>1, <1>2, ReturnQuietly
<1>3. CASE ~(Return(c) /\ UNCHANGED ltags)
  <2>1. MakesTag(c)
    BY <1>1, <1>3 DEF create_and_push_tag_in, MakesTag
  <2> QED BY <2>1, MakeStep
<1> QED BY <1>2, <1>3

-----------------------------------------------------------------------------
(***************************************************************************)
(* What happens around a command.                                          *)
(***************************************************************************)
\* A stopped command: a lockstep tree that does not read as its commit is
\* torn from then on.
LEMMA StopStep ==
  ASSUME CutInv, NEW c \in Clone, Stop(c)
  PROVE  CutInv'
<1>1. /\ Return(c) /\ Fault
      /\ torn' = IF shape = "lockstep" /\ disk'[c] # Manifest(head[c]) THEN torn \cup {c} ELSE torn
      /\ UNCHANGED <<shape, origin, rtags, deferred, head, ltags, stale, blind, work, withdrawals>>
  BY DEF Stop, remote
<1>2. CutTypeOK /\ Local(c)
  BY DEF CutInv
<1>3. disk' \in [Clone -> [Group -> Version]] /\ \A d \in Clone : d # c => disk'[d] = disk[d]
  <2>1. disk \in [Clone -> [Group -> Version]] /\ disk[c] \in [Group -> Version]
    BY <1>2 DEF CutTypeOK
  <2>2. CASE UNCHANGED disk
    BY <2>1, <2>2
  <2>3. CASE \E S \in SUBSET Planned(c) : disk' = [disk EXCEPT ![c] =
               [g \in Group |-> IF g \in S THEN plan[c][g] ELSE disk[c][g]]]
    <3>1. PICK S \in SUBSET Planned(c) : disk' = [disk EXCEPT ![c] =
            [g \in Group |-> IF g \in S THEN plan[c][g] ELSE disk[c][g]]]
      BY <2>3
    <3>2. PICK written : written = [g \in Group |-> IF g \in S THEN plan[c][g] ELSE disk[c][g]]
      OBVIOUS
    <3>3. \A g \in S : plan[c][g] \in Version
      BY <1>2, TagCutAssumption DEF CutTypeOK, Planned, Version
    <3>4. written \in [Group -> Version]
      BY <2>1, <3>2, <3>3
    <3> QED BY <2>1, <3>1, <3>2, <3>4
  <2> QED BY <2>2, <2>3 DEF Stop
<1>4. faults' \in 0..MaxFaults
  BY <1>1, <1>2, TagCutAssumption DEF CutTypeOK, Fault
<1>5. /\ pc' \in [Clone -> {"idle", "write", "commit", "tag", "api", "push", "done"}]
      /\ opts' \in [Clone -> Option]
      /\ plan' \in [Clone -> [Group -> 0..MaxVersion]]
      /\ made' \in [Clone -> SUBSET Group] /\ \A d \in Clone : made'[d] \subseteq Planned(d)'
  BY <1>1, <1>2, ReturnTypes
<1>6. /\ pc'[c] \in {"idle", "done"} /\ plan'[c] = NoPlan /\ made'[c] = {}
      /\ \A d \in Clone : d # c =>
           pc'[d] = pc[d] /\ opts'[d] = opts[d] /\ plan'[d] = plan[d] /\ made'[d] = made[d]
  BY <1>1, <1>2, ReturnTypes
<1>7. torn' \subseteq Clone /\ torn \subseteq torn'
  BY <1>1, <1>2 DEF CutTypeOK
<1>8. CutTypeOK'
  BY <1>1, <1>2, <1>3, <1>4, <1>5, <1>7 DEF CutTypeOK
<1>9. \A d \in Clone : d # c => Same(d)
  BY <1>1, <1>3, <1>6 DEF Same
<1>10. FirstTagged(ltags[c])' /\ Named(ltags[c])' /\ \A g \in Group : <<g, 1>> \notin stale'[c]
  BY <1>1, <1>2, <1>7 DEF Local, FirstTagged, Named, NewVersions
<1>11. shape' = "lockstep" /\ c \notin torn' => \A g \in Group : disk'[c][g] = Manifest(head'[c])[g]
  BY <1>1
<1>12. Local(c)'
  BY <1>6, <1>10, <1>11, IdleLocalNext
<1>13. Remote' /\ Forward
  BY <1>1, <1>7, SameRemote
<1> QED BY <1>8, <1>9, <1>12, <1>13, OneCheckout

\* A checkout without a command that gets a new commit and new tags.
LEMMA RefreshStep ==
  ASSUME CutInv, NEW c \in Clone, pc[c] \in {"idle", "done"}, plan[c] = NoPlan,
         pc' = pc \/ pc' = [pc EXCEPT ![c] = "idle"],
         NEW k \in Commit, head' = [head EXCEPT ![c] = k],
         disk' = [disk EXCEPT ![c] = Manifest(k)],
         NEW t \in Tags, ltags' = [ltags EXCEPT ![c] = t], FirstTagged(t), Named(t),
         stale' = stale \/ stale' = [stale EXCEPT ![c] = {}],
         UNCHANGED <<shape, origin, rtags, deferred, opts, plan, made>>,
         UNCHANGED <<torn, blind, work, withdrawals, faults>>
  PROVE  CutInv'
<1>1. CutTypeOK /\ Local(c)
  BY DEF CutInv
<1>2. /\ pc' \in [Clone -> {"idle", "write", "commit", "tag", "api", "push", "done"}]
      /\ pc'[c] \in {"idle", "done"} /\ \A d \in Clone : d # c => pc'[d] = pc[d]
  BY <1>1 DEF CutTypeOK
<1>3. head' \in [Clone -> Commit] /\ head'[c] = k /\ \A d \in Clone : d # c => head'[d] = head[d]
  BY <1>1 DEF CutTypeOK
<1>4. /\ disk' \in [Clone -> [Group -> Version]] /\ disk'[c] = Manifest(k)
      /\ \A d \in Clone : d # c => disk'[d] = disk[d]
  BY <1>1, CommitFacts DEF CutTypeOK
<1>5. ltags' \in [Clone -> Tags] /\ ltags'[c] = t /\ \A d \in Clone : d # c => ltags'[d] = ltags[d]
  BY <1>1 DEF CutTypeOK
<1>6. /\ stale' \in [Clone -> SUBSET (Group \X Version)]
      /\ stale'[c] \subseteq stale[c] /\ \A d \in Clone : d # c => stale'[d] = stale[d]
  BY <1>1 DEF CutTypeOK
<1>7. CutTypeOK'
  BY <1>1, <1>2, <1>3, <1>4, <1>5, <1>6 DEF CutTypeOK, Planned
<1>8. \A d \in Clone : d # c => Same(d)
  BY <1>2, <1>3, <1>4, <1>5, <1>6 DEF Same
<1>9. FirstTagged(ltags[c])' /\ Named(ltags[c])'
  BY <1>5 DEF FirstTagged, Named
<1>10. made'[c] = {} /\ \A g \in Group : <<g, 1>> \notin stale'[c]
  BY <1>1, <1>6 DEF Local, Progress, NewVersions
<1>11. \A g \in Group : disk'[c][g] = Manifest(head'[c])[g]
  BY <1>3, <1>4
<1>12. Local(c)'
  BY <1>2, <1>9, <1>10, <1>11, IdleLocalNext
<1>13. Remote' /\ Forward
  BY SameRemote
<1> QED BY <1>7, <1>8, <1>12, <1>13, OneCheckout

\* A CI job starts from what the remote has.
LEMMA CheckoutStep ==
  ASSUME CutInv, NEW c \in Clone, Checkout(c)
  PROVE  CutInv'
<1>1. /\ pc[c] \in {"idle", "done"} /\ pc' = [pc EXCEPT ![c] = "idle"]
      /\ head' = [head EXCEPT ![c] = origin] /\ ltags' = [ltags EXCEPT ![c] = rtags]
      /\ disk' = [disk EXCEPT ![c] = Manifest(origin)] /\ stale' = [stale EXCEPT ![c] = {}]
      /\ UNCHANGED <<shape, origin, rtags, deferred, opts, plan, made>>
      /\ UNCHANGED <<torn, blind, work, withdrawals, faults>>
  BY DEF Checkout, Goto, remote, bounds
<1>2. plan[c] = NoPlan
  BY <1>1 DEF CutInv, Local, Progress
<1>3. PICK k \in Commit : k = origin
  BY DEF CutInv, CutTypeOK
<1>4. PICK t \in Tags : t = rtags
  BY DEF CutInv, CutTypeOK
<1>5. FirstTagged(t) /\ Named(t)
  BY <1>4 DEF CutInv, Remote, FirstTagged, Named
<1> QED BY <1>1, <1>2, <1>3, <1>4, <1>5, RefreshStep

\* A rebased history is a commit.
LEMMA RebaseTypes ==
  ASSUME NEW m \in Commit, NEW mine \in Seq(Entries), NEW T, NEW r,
         r = [i \in 1..Len(mine) |-> [mine[i] EXCEPT !.man = [g \in Group |->
                IF g \in T[i] THEN mine[i].man[g] ELSE Manifest(m)[g]]]]
  PROVE  m \o r \in Commit
<1>1. Len(mine) \in Nat
  BY LenProperties
<1>2. Manifest(m) \in [Group -> Version] /\ m \in Seq(Entries) /\ Len(m) \in Nat \ {0}
  BY CommitFacts
<1>3. ASSUME NEW i \in 1..Len(mine) PROVE r[i] \in Entries
  <2>1. mine[i] \in Entries
    BY <1>3, ElementOfSeq
  <2>2. PICK man : man = [g \in Group |-> IF g \in T[i] THEN mine[i].man[g] ELSE Manifest(m)[g]]
    OBVIOUS
  <2>3. man \in [Group -> Version]
    BY <1>2, <2>1, <2>2 DEF Entries
  <2>4. r[i] = [mine[i] EXCEPT !.man = man]
    BY <2>2
  <2> QED BY <2>1, <2>3, <2>4 DEF Entries
<1>4. r \in [1..Len(mine) -> Entries]
  BY <1>3
<1>5. r \in Seq(Entries)
  BY <1>1, <1>4, SeqDef
<1>6. m \o r \in Seq(Entries) /\ Len(m \o r) = Len(m) + Len(r) /\ Len(r) \in Nat
  BY <1>2, <1>5, ConcatProperties, LenProperties
<1>7. m \o r # <<>>
  BY <1>2, <1>6, EmptySeq
<1> QED BY <1>6, <1>7 DEF Commit

\* `git pull --rebase`: the operator's commits go on top of the remote's.
LEMMA PullStep ==
  ASSUME CutInv, NEW c \in Clone, Pull(c)
  PROVE  CutInv'
<1> DEFINE base == Shared(head[c], origin)
           mine == SubSeq(head[c], base + 1, Len(head[c]))
           touched == [i \in 0..Len(mine) |-> UNION {mine[j].touches : j \in 1..i}]
           replayed == [i \in 1..Len(mine) |-> [mine[i] EXCEPT !.man = [g \in Group |->
                          IF g \in touched[i] THEN mine[i].man[g] ELSE Manifest(origin)[g]]]]
           t == [g \in Group |-> [v \in Version |->
                   IF ltags[c][g][v] = NoTag THEN rtags[g][v] ELSE ltags[c][g][v]]]
<1>1. /\ pc[c] = "idle"
      /\ head' = [head EXCEPT ![c] = origin \o replayed]
      /\ disk' = [disk EXCEPT ![c] = Manifest(head'[c])]
      /\ ltags' = [ltags EXCEPT ![c] = t]
      /\ UNCHANGED <<shape, origin, rtags, deferred, pc, opts, plan, made, stale>>
      /\ UNCHANGED <<torn, blind, work, withdrawals, faults>>
  BY DEF Pull, remote, command, bounds
<1>2. CutTypeOK /\ Local(c) /\ Remote
  BY DEF CutInv
<1>3. head[c] \in Commit /\ origin \in Commit /\ ltags[c] \in Tags /\ rtags \in Tags
  BY <1>2 DEF CutTypeOK
<1>4. head[c] \in Seq(Entries) /\ Len(head[c]) \in Nat
  BY <1>3, CommitFacts
<1>5. base \in 0..Len(head[c])
  <2>1. PICK S : S = {n \in 0..Len(head[c]) : IsPrefix(SubSeq(head[c], 1, n), origin)}
    OBVIOUS
  <2>2. 0 \in S
    <3>1. SubSeq(head[c], 1, 0) = <<>>
      BY SubSeqEmpty
    <3>2. origin \in Seq(Entries) /\ <<>> \in Seq(Entries) /\ Len(<<>>) = 0 /\ Len(origin) \in Nat
      BY <1>3, CommitFacts, EmptySeq
    <3>3. PICK e \in Seq(Entries) : e = <<>> /\ Len(e) = 0
      BY <3>2
    <3>4. IsPrefix(e, origin)
      <4>1. Len(e) <= Len(origin) /\ \A i \in 1..Len(e) : e[i] = origin[i]
        BY <3>2, <3>3
      <4> QED BY <3>2, <4>1, PrefixDef
    <3>5. IsPrefix(SubSeq(head[c], 1, 0), origin)
      BY <3>1, <3>3, <3>4
    <3> QED BY <1>4, <2>1, <3>5
  <2>3. Max(S) \in S
    BY <1>4, <2>1, <2>2, MaxIn
  <2> QED BY <2>1, <2>3 DEF Shared
<1> HIDE DEF base
<1>6. mine \in Seq(Entries)
  <2>1. \A i \in (base + 1)..Len(head[c]) : head[c][i] \in Entries
    BY <1>4, <1>5, ElementOfSeq
  <2>2. base + 1 \in Int /\ Len(head[c]) \in Int
    BY <1>4, <1>5
  <2> QED BY <2>1, <2>2, SubSeqProperties
<1> HIDE DEF mine
<1>7. PICK k : k = origin \o replayed
  OBVIOUS
<1>8. k \in Commit
  <2>1. PICK T : T = touched
    OBVIOUS
  <2>2. PICK r : r = replayed
    OBVIOUS
  <2>3. r = [i \in 1..Len(mine) |-> [mine[i] EXCEPT !.man = [g \in Group |->
              IF g \in T[i] THEN mine[i].man[g] ELSE Manifest(origin)[g]]]]
    BY <2>1, <2>2
  <2> HIDE DEF touched, replayed
  <2>4. origin \o r \in Commit
    BY <1>3, <1>6, <2>3, RebaseTypes
  <2> QED BY <1>7, <2>2, <2>4
<1> HIDE DEF touched, replayed
<1>9. head' = [head EXCEPT ![c] = k] /\ head'[c] = k /\ disk' = [disk EXCEPT ![c] = Manifest(k)]
  BY <1>1, <1>2, <1>7 DEF CutTypeOK
<1>10. /\ t \in Tags
       /\ \A g \in Group, v \in Version :
            t[g][v] = IF ltags[c][g][v] = NoTag THEN rtags[g][v] ELSE ltags[c][g][v]
  BY <1>3 DEF Tags
<1> HIDE DEF t
<1>11. FirstTagged(t)
  <2>1. 1 \in Version
    BY TagCutAssumption DEF Version
  <2> QED BY <1>2, <1>10, <2>1 DEF Local, FirstTagged
<1>12. Named(t)
  BY <1>2, <1>10 DEF Local, Remote, Named
<1>13. plan[c] = NoPlan
  BY <1>1, <1>2 DEF Local, Progress
<1>14. PICK u \in Tags : u = t
  BY <1>10
<1>15. FirstTagged(u) /\ Named(u)
  BY <1>11, <1>12, <1>14
<1> QED BY <1>1, <1>8, <1>9, <1>13, <1>14, <1>15, RefreshStep

\* The operator deletes the local tag the command complained about.
LEMMA DropStep ==
  ASSUME CutInv, NEW c \in Clone, DropStale(c)
  PROVE  CutInv'
<1> DEFINE t == [g \in Group |-> [v \in Version |->
                   IF <<g, v>> \in stale[c] THEN NoTag ELSE ltags[c][g][v]]]
<1>1. /\ pc[c] = "idle" /\ ltags' = [ltags EXCEPT ![c] = t] /\ stale' = [stale EXCEPT ![c] = {}]
      /\ UNCHANGED <<shape, origin, rtags, deferred, head, disk, pc, opts, plan, made>>
      /\ UNCHANGED <<torn, blind, work, withdrawals, faults>>
  BY DEF DropStale, remote, bounds
<1>2. CutTypeOK /\ Local(c) /\ ltags[c] \in Tags
  BY DEF CutInv, CutTypeOK
<1>3. /\ t \in Tags
      /\ \A g \in Group, v \in Version :
           t[g][v] = IF <<g, v>> \in stale[c] THEN NoTag ELSE ltags[c][g][v]
  BY <1>2 DEF Tags
<1> HIDE DEF t
<1>4. ltags' \in [Clone -> Tags] /\ ltags'[c] = t /\ \A d \in Clone : d # c => ltags'[d] = ltags[d]
  BY <1>1, <1>2, <1>3 DEF CutTypeOK
<1>5. /\ stale' \in [Clone -> SUBSET (Group \X Version)]
      /\ stale'[c] = {} /\ \A d \in Clone : d # c => stale'[d] = stale[d]
  BY <1>1, <1>2 DEF CutTypeOK
<1>6. CutTypeOK'
  BY <1>1, <1>2, <1>4, <1>5 DEF CutTypeOK, Planned
<1>7. \A d \in Clone : d # c => Same(d)
  BY <1>1, <1>4, <1>5 DEF Same
<1>8. FirstTagged(ltags[c])'
  <2>1. 1 \in Version
    BY TagCutAssumption DEF Version
  <2>2. \A g \in Group : <<g, 1>> \notin stale[c] /\ ltags[c][g][1] # NoTag
    BY <1>2 DEF Local, NewVersions, FirstTagged
  <2> QED BY <1>3, <1>4, <2>1, <2>2 DEF FirstTagged
<1>9. Named(ltags[c])'
  BY <1>1, <1>2, <1>3, <1>4 DEF Local, Named
<1>10. /\ plan'[c] = NoPlan /\ made'[c] = {} /\ pc'[c] \in {"idle", "done"}
       /\ \A g \in Group : <<g, 1>> \notin stale'[c]
  BY <1>1, <1>2, <1>5 DEF Local, Progress
<1>11. shape' = "lockstep" /\ c \notin torn' => \A g \in Group : disk'[c][g] = Manifest(head'[c])[g]
  BY <1>1, <1>2 DEF Local, Tree
<1>12. Local(c)'
  BY <1>8, <1>9, <1>10, <1>11, IdleLocalNext
<1>13. Remote' /\ Forward
  BY <1>1, SameRemote
<1> QED BY <1>6, <1>7, <1>12, <1>13, OneCheckout

\* A step on the remote leaves every checkout alone.
LEMMA RemoteStep ==
  ASSUME CutInv, UNCHANGED <<shape, torn, blind, faults>>,
         UNCHANGED <<head, ltags, disk, pc, opts, plan, made, stale>>,
         origin' \in Commit, rtags' \in Tags, deferred' \subseteq Group \X Version,
         work' \in 0..MaxWork, withdrawals' \in 0..MaxWithdrawals,
         IsPrefix(origin, origin'), Remote'
  PROVE  CutInv'
<1>1. CutTypeOK'
  BY DEF CutInv, CutTypeOK, Planned
<1>2. Forward
  BY DEF Forward
<1>3. \A d \in Clone : Same(d)
  BY DEF Same
<1>4. \A d \in Clone : Local(d)'
  BY <1>1, <1>2, <1>3, SameLocal
<1> QED BY <1>1, <1>4 DEF CutInv

\* Others push work.
LEMMA WorkStep ==
  ASSUME CutInv, NEW S \in SUBSET Group, Work(S)
  PROVE  CutInv'
<1>1. /\ work < MaxWork /\ work' = work + 1
      /\ origin' = Append(origin, Entry("dev", S, Manifest(origin)))
      /\ UNCHANGED <<shape, rtags, deferred, head, ltags, disk, pc, opts, plan, made, stale>>
      /\ UNCHANGED <<torn, blind, withdrawals, faults>>
  BY DEF Work, checkout, command
<1>2. CutTypeOK /\ origin \in Commit
  BY DEF CutInv, CutTypeOK
<1>3. Manifest(origin) \in [Group -> Version]
  BY <1>2, CommitFacts
<1>4. Entry("dev", S, Manifest(origin)) \in Entries
  BY <1>3 DEF Entry, Entries, Author
<1>5. PICK e \in Entries : e = Entry("dev", S, Manifest(origin))
  BY <1>4
<1>6. origin' \in Commit /\ IsPrefix(origin, origin')
  BY <1>1, <1>2, <1>5, CommitOnTop
<1>7. /\ rtags' \in Tags /\ deferred' \subseteq Group \X Version
      /\ work' \in 0..MaxWork /\ withdrawals' \in 0..MaxWithdrawals
  BY <1>1, <1>2, TagCutAssumption DEF CutTypeOK
<1>8. Remote'
  BY <1>1, <1>6, BranchMoves
<1> QED BY <1>1, <1>6, <1>7, <1>8, RemoteStep

\* A withdrawal takes the newest tag and reverts its bump.
LEMMA WithdrawStep ==
  ASSUME CutInv, NEW g \in Group, Withdraw(g)
  PROVE  CutInv'
<1> DEFINE v == Latest(rtags, g)
           man == [Manifest(origin) EXCEPT ![g] = Latest(rtags', g)]
<1>1. /\ v > 1 /\ withdrawals < MaxWithdrawals /\ withdrawals' = withdrawals + 1
      /\ rtags' = [rtags EXCEPT ![g][v] = NoTag] /\ deferred' = deferred \ {<<g, v>>}
      /\ origin' = Append(origin, Entry("rollback", {g}, man))
      /\ UNCHANGED <<shape, head, ltags, disk, pc, opts, plan, made, stale>>
      /\ UNCHANGED <<torn, blind, work, faults>>
  BY DEF Withdraw, checkout, command
<1>2. CutTypeOK /\ Remote /\ origin \in Commit /\ rtags \in Tags
  BY DEF CutInv, CutTypeOK
<1>3. v \in Version
  BY <1>2, LatestIn DEF Remote
<1> HIDE DEF v
<1>4. PICK r : r = WithTag(rtags, g, v, NoTag)
  OBVIOUS
<1>5. /\ r \in Tags
      /\ \A h \in Group, w \in Version : r[h][w] = IF h = g /\ w = v THEN NoTag ELSE rtags[h][w]
  BY <1>2, <1>3, <1>4, SetTag
<1>6. rtags' = r
  BY <1>1, <1>4 DEF WithTag
<1>7. 1 \in Version /\ v # 1
  BY <1>1, <1>3, TagCutAssumption DEF Version
<1>8. FirstTagged(r)
  BY <1>2, <1>5, <1>7 DEF Remote, FirstTagged
<1>9. Latest(r, g) \in Version
  BY <1>5, <1>8, LatestIn
<1>10. Manifest(origin) \in [Group -> Version]
  BY <1>2, CommitFacts
<1>11. Latest(rtags', g) = Latest(r, g)
  BY <1>6
<1>12. man \in [Group -> Version]
  BY <1>9, <1>10, <1>11
<1> HIDE DEF man
<1>13. Entry("rollback", {g}, man) \in Entries
  BY <1>12 DEF Entry, Entries, Author
<1>14. PICK e \in Entries : e = Entry("rollback", {g}, man)
  BY <1>13
<1>15. origin' \in Commit /\ IsPrefix(origin, origin')
  BY <1>1, <1>2, <1>14, CommitOnTop
<1>16. /\ rtags' \in Tags /\ deferred' \subseteq Group \X Version
       /\ work' \in 0..MaxWork /\ withdrawals' \in 0..MaxWithdrawals
  <2>1. rtags' \in Tags /\ deferred' \subseteq Group \X Version /\ work' \in 0..MaxWork
    BY <1>1, <1>2, <1>5, <1>6 DEF CutTypeOK
  <2>2. MaxWithdrawals \in Nat /\ withdrawals \in 0..MaxWithdrawals
    BY <1>2, TagCutAssumption DEF CutTypeOK
  <2>3. withdrawals' \in 0..MaxWithdrawals
    BY <1>1, <2>2
  <2> QED BY <2>1, <2>3
<1>17. Remote'
  <2>1. FirstTagged(rtags)' /\ Named(rtags)'
    BY <1>1, <1>2, <1>5, <1>6, <1>8 DEF Remote, FirstTagged, Named
  <2>2. OnBranch'
    <3> SUFFICES ASSUME NEW h \in Group, NEW w \in Version, r[h][w] # NoTag,
                        <<h, w>> \notin deferred'
                 PROVE  IsPrefix(r[h][w].at, origin')
      BY <1>6 DEF OnBranch
    <3>1. r[h][w] = rtags[h][w] /\ <<h, w>> # <<g, v>>
      BY <1>5
    <3>2. <<h, w>> \notin deferred
      BY <1>1, <3>1
    <3>3. IsPrefix(rtags[h][w].at, origin)
      BY <1>2, <3>1, <3>2 DEF Remote, OnBranch
    <3>4. rtags[h][w].at \in Commit
      BY <1>2, <3>1 DEF Tags, TagObject
    <3> QED BY <1>2, <1>15, <3>1, <3>3, <3>4, Ancestors
  <2> QED BY <2>1, <2>2 DEF Remote
<1> QED BY <1>1, <1>15, <1>16, <1>17, RemoteStep

-----------------------------------------------------------------------------
(***************************************************************************)
(* The theorems.                                                           *)
(***************************************************************************)
\* The commits a repository starts with.
LEMMA FirstCommits ==
  /\ Root \in Commit /\ Bumped \in Commit /\ Reverted \in Commit
  /\ Manifest(Root) = First /\ Manifest(Reverted) = First
  /\ Manifest(Bumped)[1] = 2 /\ IsPrefix(Root, Reverted)
<1>1. 1 \in Version /\ 2 \in Version /\ 1 \in Group
  BY TagCutAssumption DEF Version, Group
<1>2. First \in [Group -> Version] /\ [First EXCEPT ![1] = 2] \in [Group -> Version]
  BY <1>1 DEF First
<1>3. [First EXCEPT ![1] = 2][1] = 2
  BY <1>1, <1>2
<1>4. Entry("dev", Group, First) \in Entries /\ Entry("dev", Group, First).man = First
  BY <1>2 DEF Entry, Entries, Author
<1>5. Root \in Commit /\ Manifest(Root) = First
  <2>1. PICK e \in Entries : e = Entry("dev", Group, First)
    BY <1>4
  <2>2. <<e>> \in Seq(Entries) /\ Len(<<e>>) = 1 /\ <<e>>[1] = e /\ <<e>> # <<>>
    OBVIOUS
  <2> QED BY <1>4, <2>1, <2>2 DEF Root, Commit, Manifest, Last
<1>6. PICK b \in Entries : b = Entry("rollback", {1}, [First EXCEPT ![1] = 2])
  BY <1>1, <1>2 DEF Entry, Entries, Author
<1>7. b.man[1] = 2
  BY <1>3, <1>6 DEF Entry
<1>8. Bumped = Append(Root, b)
  BY <1>6 DEF Bumped
<1>9. Bumped \in Commit /\ Manifest(Bumped)[1] = 2 /\ IsPrefix(Root, Bumped)
  BY <1>5, <1>7, <1>8, CommitOnTop
<1>10. PICK r \in Entries : r = Entry("rollback", {1}, First)
  BY <1>1, <1>2 DEF Entry, Entries, Author
<1>11. r.man = First /\ Reverted = Append(Bumped, r)
  BY <1>10 DEF Entry, Reverted
<1>12. Reverted \in Commit /\ Manifest(Reverted) = First /\ IsPrefix(Bumped, Reverted)
  BY <1>9, <1>11, CommitOnTop
<1>13. IsPrefix(Root, Reverted)
  BY <1>5, <1>9, <1>12, Ancestors
<1> QED BY <1>5, <1>9, <1>12, <1>13

\* At first the only published tags are the first ones.
LEMMA CutStart ==
  ASSUME Init
  PROVE  CutInv
<1>1. 1 \in Version /\ 2 \in Version /\ 1 \in Group
  BY TagCutAssumption DEF Version, Group
<1>2. PICK root : root = Tag(Root, FALSE, "dev")
  OBVIOUS
<1>3. root \in TagObject /\ root # NoTag /\ root.at = Root
  <2>1. Root \in Commit /\ FALSE \in BOOLEAN /\ "dev" \in Author
    BY FirstCommits DEF Author
  <2> QED BY <1>2, <2>1, TagTypes
<1>4. PICK second : second = Tag(Bumped, FALSE, "dev")
  OBVIOUS
<1>5. second \in TagObject /\ second # NoTag /\ second.at = Bumped
  <2>1. Bumped \in Commit /\ FALSE \in BOOLEAN /\ "dev" \in Author
    BY FirstCommits DEF Author
  <2> QED BY <1>4, <2>1, TagTypes
<1>6. rtags = [g \in Group |-> [v \in Version |-> IF v = 1 THEN root ELSE NoTag]]
  BY <1>2 DEF Init
<1>7. rtags \in Tags /\ \A g \in Group, v \in Version : rtags[g][v] = IF v = 1 THEN root ELSE NoTag
  BY <1>3, <1>6 DEF Tags
<1>8. PICK more : more = WithTag(rtags, 1, 2, second)
  OBVIOUS
<1>9. /\ more \in Tags
      /\ \A h \in Group, w \in Version : more[h][w] = IF h = 1 /\ w = 2 THEN second ELSE rtags[h][w]
  BY <1>1, <1>5, <1>7, <1>8, SetTag
<1>10. ltags = [c \in Clone |-> IF withdrawals = 1 /\ c \in Laptop THEN more ELSE rtags]
  BY <1>4, <1>8 DEF Init, WithTag
<1>11. ltags \in [Clone -> Tags] /\ \A c \in Clone : ltags[c] \in {more, rtags}
  BY <1>7, <1>9, <1>10
<1>12. \A g \in Group : Manifest(Root)[g] = 1 /\ First[g] = 1
  BY FirstCommits DEF First
<1>13. FirstTagged(rtags) /\ Named(rtags)
  BY <1>1, <1>3, <1>7, <1>12 DEF FirstTagged, Named
<1>14. FirstTagged(more) /\ Named(more)
  BY <1>1, <1>3, <1>5, <1>7, <1>9, <1>12, FirstCommits DEF FirstTagged, Named
<1>15. /\ origin \in {Root, Reverted} /\ head = [c \in Clone |-> origin] /\ disk = [c \in Clone |-> First]
       /\ pc = [c \in Clone |-> "idle"] /\ opts = [c \in Clone |-> NoOption]
       /\ plan = [c \in Clone |-> NoPlan] /\ made = [c \in Clone |-> {}]
       /\ stale = [c \in Clone |-> {}] /\ torn = {} /\ blind = FALSE /\ deferred = {}
       /\ work = 0 /\ faults = 0 /\ shape \in Shapes
  BY DEF Init
<1>16. origin \in Commit /\ Manifest(origin) = First /\ IsPrefix(Root, origin)
  BY <1>15, FirstCommits, Ancestors
<1>17. withdrawals \in 0..MaxWithdrawals
  <2>1. PICK S : S = {1, MaxWithdrawals}
    OBVIOUS
  <2>2. MaxWithdrawals \in Nat /\ S \subseteq Nat /\ S # {}
    BY <2>1, TagCutAssumption
  <2>3. Min(S) \in Nat /\ Min(S) <= MaxWithdrawals
    BY <2>1, <2>2, MinIn
  <2> QED BY <2>1, <2>2, <2>3 DEF Init
<1>18. First \in [Group -> Version]
  BY <1>1 DEF First
<1>19. NoOption \in Option /\ NoPlan \in [Group -> 0..MaxVersion]
  BY TagCutAssumption DEF NoOption, Option, NoPlan
<1>20. CutTypeOK
  <2>1. head \in [Clone -> Commit] /\ disk \in [Clone -> [Group -> Version]]
    BY <1>15, <1>16, <1>18
  <2>2. opts \in [Clone -> Option] /\ plan \in [Clone -> [Group -> 0..MaxVersion]]
    BY <1>15, <1>19
  <2>3. /\ pc \in [Clone -> {"idle", "write", "commit", "tag", "api", "push", "done"}]
        /\ made \in [Clone -> SUBSET Group] /\ \A c \in Clone : made[c] \subseteq Planned(c)
        /\ stale \in [Clone -> SUBSET (Group \X Version)]
    BY <1>15
  <2>4. work \in 0..MaxWork /\ faults \in 0..MaxFaults
    BY <1>15, TagCutAssumption
  <2> QED BY <1>7, <1>11, <1>15, <1>16, <1>17, <2>1, <2>2, <2>3, <2>4 DEF CutTypeOK
<1>21. Remote
  BY <1>3, <1>7, <1>13, <1>16 DEF Remote, OnBranch
<1>22. ASSUME NEW c \in Clone PROVE Local(c)
  <2>1. /\ pc[c] \in {"idle", "done"} /\ plan[c] = NoPlan /\ made[c] = {}
        /\ \A g \in Group : <<g, 1>> \notin stale[c]
        /\ \A g \in Group : disk[c][g] = Manifest(head[c])[g]
    BY <1>15, <1>16
  <2>2. FirstTagged(ltags[c]) /\ Named(ltags[c])
    BY <1>11, <1>13, <1>14
  <2> QED BY <2>1, <2>2, IdleLocal
<1> QED BY <1>20, <1>21, <1>22 DEF CutInv

\* Every step preserves the invariant.
LEMMA CutStep ==
  ASSUME CutInv, [Next]_vars
  PROVE  CutInv'
<1>1. ASSUME NEW c \in Clone, NEW o \in (IF c \in Ci THEN {CiLine} ELSE Options), StartTag(c, o)
      PROVE  CutInv'
  <2>1. CiLine \in Option /\ Options \subseteq Option
    BY TagCutAssumption DEF CiLine, Option
  <2>2. o \in Option
    BY <2>1
  <2> QED BY <1>1, <2>2, StartStep
<1>2. ASSUME NEW c \in Clone, Step(c) PROVE CutInv'
  BY <1>2, SkipStep, WriteStep, CommitStep, CreateStep, StaleStep, PushStep, RejectedStep,
     BranchStep, ApiStep, GhMissingStep DEF Step
<1>3. ASSUME NEW c \in Clone, Stop(c) \/ Checkout(c) \/ Pull(c) \/ DropStale(c) PROVE CutInv'
  BY <1>3, StopStep, CheckoutStep, PullStep, DropStep
<1>4. ASSUME NEW S \in SUBSET Group, Work(S) PROVE CutInv'
  BY <1>4, WorkStep
<1>5. ASSUME NEW g \in Group, Withdraw(g) PROVE CutInv'
  BY <1>5, WithdrawStep
<1>6. CASE UNCHANGED vars
  <2>1. /\ UNCHANGED <<shape, origin, rtags, deferred, head, ltags, disk, pc, opts, plan, made, stale>>
        /\ UNCHANGED <<torn, blind, work, withdrawals, faults>>
    BY <1>6 DEF vars, remote, checkout, command, bounds
  <2>2. /\ origin' \in Commit /\ rtags' \in Tags /\ deferred' \subseteq Group \X Version
        /\ work' \in 0..MaxWork /\ withdrawals' \in 0..MaxWithdrawals
    BY <2>1 DEF CutInv, CutTypeOK
  <2>3. Remote' /\ IsPrefix(origin, origin')
    BY <2>1, SameRemote DEF Forward
  <2> QED BY <2>1, <2>2, <2>3, RemoteStep
<1> QED BY <1>1, <1>2, <1>3, <1>4, <1>5, <1>6 DEF Next

\* The invariant holds in every behaviour.
LEMMA CutInvariant == Spec => []CutInv
  BY CutStart, CutStep, PTL DEF Spec

\* The variables of the tag command and of the repository keep their types.
THEOREM CutTypes == Spec => []CutTypeOK
<1>1. CutInv => CutTypeOK
  BY DEF CutInv
<1> QED BY <1>1, CutInvariant, PTL

\* A published tag is on the published branch, whichever pushes raced it: the
\* push is atomic and the branch only moves forward (core/src/git/tags/mutate.rs).
THEOREM NoTagIsOrphaned == Spec => []NoOrphanTag
<1>1. CutInv => NoOrphanTag
  <2> SUFFICES ASSUME CutInv, NEW t \in PublishedTags \ deferred
               PROVE  IsPrefix(rtags[t[1]][t[2]].at, origin)
    BY DEF NoOrphanTag
  <2>1. t \in Groups \X Version /\ rtags[t[1]][t[2]] # NoTag /\ t \notin deferred
    BY DEF PublishedTags
  <2>2. t[1] \in Group /\ t[2] \in Version /\ t = <<t[1], t[2]>>
    BY <2>1, TagCutAssumption DEF Groups, Group
  <2>3. <<t[1], t[2]>> \notin deferred
    BY <2>1, <2>2
  <2> QED BY <2>1, <2>2, <2>3 DEF CutInv, Remote, OnBranch
<1> QED BY <1>1, CutInvariant, PTL

\* A published tag names the version of its commit's manifests, in any shape
\* of repository and after any stopped run, but for lockstep checkouts in
\* which a bump was left uncommitted.
THEOREM TagsNameManifests == Spec => []TagNamesManifest
<1>1. CutInv => TagNamesManifest
  <2> SUFFICES ASSUME CutInv, NEW t \in PublishedTags
               PROVE  \/ Manifest(rtags[t[1]][t[2]].at)[t[1]] = t[2]
                      \/ rtags[t[1]][t[2]].by \in torn
    BY DEF TagNamesManifest
  <2>1. t \in Groups \X Version /\ rtags[t[1]][t[2]] # NoTag
    BY DEF PublishedTags
  <2>2. t[1] \in Group /\ t[2] \in Version
    BY <2>1, TagCutAssumption DEF Groups, Group
  <2> QED BY <2>1, <2>2 DEF CutInv, Remote, Named
<1> QED BY <1>1, CutInvariant, PTL

\* What a push of a run that signs may publish.
PublishesSigned ==
  \A c \in Clone, g \in Group, v \in Version :
    opts[c].sign /\ pc[c] = "push" /\ pc'[c] # "push"
      /\ rtags[g][v] = NoTag /\ rtags'[g][v] # NoTag => rtags'[g][v].signed

\* A step of another checkout, or of the remote, is no push of c.
LEMMA OnlyPushes ==
  ASSUME CutInv, Next, NEW c \in Clone, pc[c] = "push", pc'[c] # "push", rtags' # rtags
  PROVE  Push(c)
<1>1. pc \in [Clone -> {"idle", "write", "commit", "tag", "api", "push", "done"}]
  BY DEF CutInv, CutTypeOK
<1>2. ~\E S \in SUBSET Group : Work(S)
  BY DEF Work
<1>3. ~\E g \in Group : Withdraw(g)
  BY DEF Withdraw, command
<1>4. ASSUME NEW d \in Clone, d # c, pc' = pc \/ \E l : pc' = [pc EXCEPT ![d] = l] PROVE FALSE
  BY <1>1, <1>4
<1>5. PICK d \in Clone : \/ \E o \in IF d \in Ci THEN {CiLine} ELSE Options : StartTag(d, o)
                         \/ Step(d) \/ Stop(d) \/ Checkout(d) \/ Pull(d) \/ DropStale(d)
  BY <1>2, <1>3 DEF Next
<1>6. Push(d) \/ create_tag_via_github_api(d)
  BY <1>5 DEF StartTag, Step, SkipBump, WriteManifests, CommitBump, CreateTag, StaleTag,
              PushRejected, PushBranch, BranchRejected, create_and_push_tag_in, Stop, Checkout, Pull, DropStale,
              remote
<1>7. d = c
  BY <1>4, <1>6 DEF Push, create_tag_via_github_api, Return
<1> QED BY <1>6, <1>7 DEF create_tag_via_github_api

\* A run that asks for signatures publishes signed tags only: a leftover
\* without a signature is made again before the push.
THEOREM SignedTagsOnly == Spec => SignedAsAsked
<1>1. CutInv /\ [Next]_vars => [PublishesSigned]_vars
  <2> SUFFICES ASSUME CutInv, Next, NEW c \in Clone, NEW g \in Group, NEW v \in Version,
                      opts[c].sign, pc[c] = "push", pc'[c] # "push",
                      rtags[g][v] = NoTag, rtags'[g][v] # NoTag
               PROVE  rtags'[g][v].signed
    BY DEF PublishesSigned
  <2>1. Push(c)
    BY OnlyPushes
  <2>2. rtags' = [h \in Group |-> [w \in Version |->
          IF h \in Planned(c) /\ w = plan[c][h] THEN ltags[c][h][w] ELSE rtags[h][w]]]
    BY <2>1 DEF Push, push_branch_and_tags_atomic_in
  <2>3. g \in Planned(c) /\ v = plan[c][g] /\ rtags'[g][v] = ltags[c][g][v]
    BY <2>2
  <2>4. g \in made[c]
    BY <2>3 DEF CutInv, Local, Progress
  <2> QED BY <2>3, <2>4 DEF CutInv, Local, TagsMade
<1>2. SignedAsAsked <=> [][PublishesSigned]_vars
  BY PTL DEF SignedAsAsked, PublishesSigned
<1> QED BY <1>1, <1>2, CutInvariant, PTL DEF Spec

=============================================================================
