---------------------------- MODULE MCCanOtaLink ----------------------------
(***************************************************************************)
(* Host and board with three packages of the kinds the host can tell       *)
(* apart, in pages of five frames.                                        *)
(***************************************************************************)
EXTENDS CanOtaLink

CONSTANTS
  good,   \* a sound update
  bad,    \* the same version, but its application fails its trial
  old     \* an older version the board refuses once good is confirmed

MCVersion == [p \in Packages |-> IF p = old THEN 1 ELSE 2]

=============================================================================
