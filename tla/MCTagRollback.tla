---------------------------- MODULE MCTagRollback ----------------------------
(***************************************************************************)
(* Small instances of TagRollback.                                         *)
(***************************************************************************)
EXTENDS TagRollback, TLC

CONSTANTS i1, i2, b1, b2

\* 1 a tap, 2 a second tap, 3 a registry
TapsGroup == <<"Manager", "Manager", "Submitter">>
TapsStage == <<"dispatch", "dispatch", "dispatch">>
TapsRequired == <<TRUE, TRUE, TRUE>>
TapsProbe == <<"none", "content", "version">>
OpenGuard == <<"none", "none", "none">>

\* 1 a tap, 2 a registry, 3 a moderated gallery
DoorsGroup == <<"Manager", "Submitter", "Submitter">>
DoorsStage == <<"dispatch", "dispatch", "dispatch">>
DoorsRequired == <<TRUE, TRUE, TRUE>>
DoorsProbe == <<"none", "version", "none">>
DoorsGuard == <<"none", "closed", "advisory">>

\* 1 an artifact repository, 2 a tap
PairGroup == <<"Assets", "Manager">>
PairStage == <<"dispatch", "dispatch">>
PairRequired == <<TRUE, FALSE>>
PairProbe == <<"none", "content">>
PairGuard == <<"none", "none">>

DefaultOptions == {NoOptions}

Plain == NoCommand
PlainCommands == {Plain}
EveryCommand == {Plain, [Plain EXCEPT !.no_push = TRUE], [Plain EXCEPT !.mode = "reset"],
                 [Plain EXCEPT !.force = TRUE]}

Symmetry == Permutations({i1, i2}) \cup Permutations({b1, b2})
=============================================================================
