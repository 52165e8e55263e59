---------------------------- MODULE DesignContract ----------------------------
(***************************************************************************)
(* What docs/DDD.md promises of a design file, with no walk, no registry   *)
(* and no order: a file has an artifact exactly when it is a valid design  *)
(* of its imported domains, and then the artifact is the whole of it.      *)
(***************************************************************************)
CONSTANTS
  None,            \* no artifact
  Valid(_),        \* whether an application is valid in its surroundings
  ArtifactOf(_)    \* the artifact of a valid one

VARIABLES input, decided, artifact

vars == <<input, decided, artifact>>

Init == decided = FALSE /\ artifact = None

Decide ==
  /\ ~decided
  /\ decided' = TRUE
  /\ artifact' = IF Valid(input) THEN ArtifactOf(input) ELSE None
  /\ UNCHANGED input

Spec == Init /\ [][Decide]_vars
=============================================================================
