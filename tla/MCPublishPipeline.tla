-------------------------- MODULE MCPublishPipeline --------------------------
(***************************************************************************)
(* Small instances of PublishPipeline, one publisher per kind.             *)
(***************************************************************************)
EXTENDS PublishPipeline, TLC

CONSTANTS i1, i2, b1, b2

\* 1 blob storage, 2 a tap, 3 a registry, 4 the snap store
FourGroup == <<"Assets", "Manager", "Submitter", "Submitter">>
FourStage == <<"blob", "dispatch", "dispatch", "snapcraft">>
FourRequired == <<TRUE, TRUE, TRUE, TRUE>>
FourProbe == <<"none", "content", "version", "none">>

\* 1 blob storage, 2 a tap, 3 a tap with nothing to publish, 4 a registry,
\* 5 the snap store
FiveGroup == <<"Assets", "Manager", "Manager", "Submitter", "Submitter">>
FiveStage == <<"blob", "dispatch", "dispatch", "dispatch", "snapcraft">>
FiveRequired == <<TRUE, TRUE, TRUE, TRUE, TRUE>>
FiveProbe == <<"none", "content", "none", "version", "none">>

\* 1 blob storage, 2 an optional tap, 3 a gallery that skips nightlies, 4 an
\* inactive registry, 5 a registry, 6 the snap store
SixGroup == <<"Assets", "Manager", "Submitter", "Submitter", "Submitter", "Submitter">>
SixStage == <<"blob", "dispatch", "dispatch", "dispatch", "dispatch", "snapcraft">>
SixRequired == <<TRUE, FALSE, TRUE, TRUE, TRUE, FALSE>>
SixProbe == <<"none", "none", "content", "version", "version", "none">>

Defaults == NoOptions
FailFast == [NoOptions EXCEPT !.fail_fast = TRUE]
NoGate == [NoOptions EXCEPT !.gate_submitter = FALSE]
SkipPublish == [NoOptions EXCEPT !.skip_publish = TRUE]
Deselect(ps) == [NoOptions EXCEPT !.deselected = ps]
Nightly == [NoOptions EXCEPT !.nightly = TRUE]

DefaultOptions == {Defaults}
RecordOptions == {Defaults, Deselect({1})}
GateOptions == {Defaults, NoGate, SkipPublish, [FailFast EXCEPT !.simulated = {3}],
                [Nightly EXCEPT !.deselected = {5, 6}]}

Symmetry == Permutations({i1, i2}) \cup Permutations({b1, b2})
=============================================================================
