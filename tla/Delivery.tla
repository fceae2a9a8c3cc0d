------------------------------ MODULE Delivery ------------------------------
(***************************************************************************)
(* What the announce stage promises the channels of one version, over any  *)
(* number of runs: nothing is posted to a channel on record, and a channel *)
(* is put on record only after a message reached it.  The record is kept   *)
(* as well as it can be: it may be lost, never invented.                   *)
(***************************************************************************)
EXTENDS Naturals

CONSTANT Channel

VARIABLES
  posted,   \* [Channel -> Nat]: messages that reached the channel
  recorded  \* the channels a re-run will leave alone

Init ==
  /\ posted = [c \in Channel |-> 0]
  /\ recorded = {}

Post(c) ==
  /\ c \notin recorded
  /\ posted' = [posted EXCEPT ![c] = @ + 1]
  /\ UNCHANGED recorded

Record(S) ==
  /\ \A c \in S : posted[c] > 0
  /\ recorded' = S
  /\ UNCHANGED posted

Next ==
  \/ \E c \in Channel : Post(c)
  \/ \E S \in SUBSET Channel : Record(S)

Spec == Init /\ [][Next]_<<posted, recorded>>
=============================================================================
