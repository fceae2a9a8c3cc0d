----------------------------- MODULE Submission -----------------------------
(***************************************************************************)
(* A one-way door seen from outside: a registry of immutable slots and the *)
(* verdict of the last command that submitted to it.  A slot is filled     *)
(* once, by whoever comes first.  A submission may only be called complete *)
(* when each of its slots holds content equivalent to its own build.       *)
(***************************************************************************)
CONSTANTS Slot, Build, NoBuild, Source

VARIABLES
  slots,   \* [Slot -> Build \cup {NoBuild}]
  wanted,  \* the slots of the submission under way
  build,   \* what it submits
  verdict

Init ==
  /\ slots = [s \in Slot |-> NoBuild]
  /\ verdict # "ok"

Complete(set, b) ==
  \A s \in set : slots'[s] # NoBuild /\ Source[slots'[s]] = Source[b]

\* Nothing is withdrawn or replaced, and at most one slot fills at a time.
FillsAtMostOne ==
  \/ slots' = slots
  \/ \E s \in Slot, b \in Build :
       slots[s] = NoBuild /\ slots' = [slots EXCEPT ![s] = b]

Next ==
  /\ FillsAtMostOne
  /\ verdict' = "ok" /\ verdict # "ok" => Complete(wanted', build')

Spec == Init /\ [][Next]_<<slots, wanted, build, verdict>>
=============================================================================
