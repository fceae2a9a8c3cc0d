--------------------------- MODULE MCCargoPublish ---------------------------
(***************************************************************************)
(* Small instances of CargoPublish.                                        *)
(***************************************************************************)
EXTENDS CargoPublish, TLC

CONSTANTS core, stage, cli, ext

\* cli needs core and stage, and stage a crate that another job releases
ForkDeps == (core :> {}) @@ (stage :> {ext}) @@ (cli :> {core, stage}) @@ (ext :> {})

\* 1 and 2 are builds of one source, 3 of another
Sources == [b \in {1, 2, 3} |-> IF b = 3 THEN "changed" ELSE "same"]
=============================================================================
