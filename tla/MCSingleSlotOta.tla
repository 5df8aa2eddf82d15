--------------------------- MODULE MCSingleSlotOta ---------------------------
(* Six packages: two versions that work, one that crashes, one whose         *)
(* application has another version than its manifest, one without a vector   *)
(* table, and an old one with the downgrade flag, which rescues the board.   *)
EXTENDS SingleSlotOta

CONSTANTS old, new, crashing, mislabelled, raw, flagged

MCPackages == {old, new, crashing, mislabelled, raw, flagged}
MCVersion == [p \in MCPackages |-> IF p = new THEN 2 ELSE IF p \in {crashing, mislabelled, raw}
                                   THEN 3 ELSE 1]
MCTrueVersion == [p \in MCPackages |-> IF p = mislabelled THEN 2 ELSE MCVersion[p]]
MCDowngrade == {flagged}
MCHealthy == MCPackages \ {crashing}
MCWellFormed == MCPackages \ {raw}
=============================================================================
