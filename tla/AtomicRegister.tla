--------------------------- MODULE AtomicRegister ---------------------------
(***************************************************************************)
(* What the bootloader needs from a persistent record: one value that is   *)
(* replaced as a whole or not at all.  A write that returns OK took        *)
(* effect; a write that returns an error, or that a power loss cut short,  *)
(* took effect completely or left the previous value.                      *)
(***************************************************************************)
CONSTANTS
  Values,   \* the values that can be written
  Empty     \* what is read before the first successful write

VARIABLES
  value,    \* what a load returns
  pending,  \* the value being written, Empty when no write is under way
  result    \* the outcome of the last write: "none", "ok", "flash", "lost"

vars == <<value, pending, result>>

Init ==
  /\ value = Empty
  /\ pending = Empty
  /\ result = "none"

Begin(v) ==
  /\ pending = Empty
  /\ pending' = v
  /\ result' = "none"
  /\ UNCHANGED value

Succeed ==
  /\ pending # Empty
  /\ value' = pending
  /\ pending' = Empty
  /\ result' = "ok"

GiveUp ==
  /\ pending # Empty
  /\ value' \in {value, pending}
  /\ pending' = Empty
  /\ result' \in {"flash", "lost"}

Next == (\E v \in Values : Begin(v)) \/ Succeed \/ GiveUp

Spec == Init /\ [][Next]_vars

=============================================================================
