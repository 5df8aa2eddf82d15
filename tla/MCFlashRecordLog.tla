-------------------------- MODULE MCFlashRecordLog --------------------------
(***************************************************************************)
(* The record log on small pages, with two payloads that tell an old       *)
(* record from a new one.                                                  *)
(***************************************************************************)
EXTENDS FlashRecordLog, TLC

CONSTANTS p1, p2

\* No property names a payload.
Symmetry == Permutations({p1, p2})

=============================================================================
