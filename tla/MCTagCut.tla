------------------------------ MODULE MCTagCut ------------------------------
(***************************************************************************)
(* Small instances of TagCut.                                              *)
(***************************************************************************)
EXTENDS TagCut

CONSTANTS ci, laptop

CommandLines == {[push |-> p, sign |-> FALSE] : p \in {"local", "push", "tags_only", "api"}}
                  \cup {[push |-> "push", sign |-> TRUE]}
JustPush == {[push |-> "push", sign |-> FALSE]}
=============================================================================
