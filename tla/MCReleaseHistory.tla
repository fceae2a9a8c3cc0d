-------------------------- MODULE MCReleaseHistory --------------------------
(***************************************************************************)
(* Small instances of ReleaseHistory.                                      *)
(***************************************************************************)
EXTENDS MCTagRollback, ReleaseHistory
=============================================================================
