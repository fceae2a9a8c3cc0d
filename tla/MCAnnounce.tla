----------------------------- MODULE MCAnnounce -----------------------------
(***************************************************************************)
(* Small instances of Announce.                                            *)
(***************************************************************************)
EXTENDS Announce

CONSTANTS discord, slack, email

Three == <<discord, slack, email>>
=============================================================================
