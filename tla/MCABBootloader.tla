--------------------------- MODULE MCABBootloader ---------------------------
(***************************************************************************)
(* The bootloader with packages of every kind the checks tell apart.       *)
(***************************************************************************)
EXTENDS ABBootloader

CONSTANTS
  good,    \* a sound update
  bad,     \* signed, but its application never reaches its confirmation
  old,     \* sound, an older version without permission to downgrade
  older,   \* the same version with that permission, but the application
           \* reports a version other than the manifest's
  broken,  \* signed, but the vectors of its images are invalid
  forged   \* not signed with the trusted key

MCVersion ==
  [p \in Packages |-> CASE p \in {old, older} -> 1 [] p = good -> 2 [] OTHER -> 3]

=============================================================================
