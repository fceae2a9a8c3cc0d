--------------------------- MODULE MCGithubRelease ---------------------------
(***************************************************************************)
(* Small instances of GithubRelease.                                       *)
(***************************************************************************)
EXTENDS GithubRelease

CONSTANTS archive, package, checksums

Plain == [mode |-> "keep-existing", draft |-> FALSE, skip |-> FALSE, resume |-> FALSE,
          replace |-> FALSE, replace_draft |-> FALSE, use_draft |-> FALSE,
          immutable |-> FALSE]

OnlyPlain == {Plain}

\* One setting at a time, and the pairs that meet each other across runs.
Settings ==
  {Plain,
   [Plain EXCEPT !.resume = TRUE],
   [Plain EXCEPT !.replace = TRUE, !.replace_draft = TRUE],
   [Plain EXCEPT !.draft = TRUE, !.use_draft = TRUE],
   [Plain EXCEPT !.use_draft = TRUE],
   [Plain EXCEPT !.mode = "replace"],
   [Plain EXCEPT !.skip = TRUE],
   [Plain EXCEPT !.immutable = TRUE]}

\* Two builds whose artifacts have the same size
SameSize == [b \in Build |-> 7]
=============================================================================
