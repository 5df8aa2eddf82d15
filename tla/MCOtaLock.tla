----------------------------- MODULE MCOtaLock -----------------------------
(* Small instances of OtaLock: two updates, three client processes. *)
EXTENDS OtaLock
=============================================================================
