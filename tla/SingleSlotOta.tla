--------------------------- MODULE SingleSlotOta ---------------------------
(***************************************************************************)
(* The v1 update of the STM32: one slot for the application, and a page    *)
(* with one metadata record and two marker halfwords that are programmed   *)
(* at most once after each erase.  The bus may bring any ENTER, manifest   *)
(* and image.  Power may go and the flash may fail at every step; an erase *)
(* that stops half way leaves any part of the page.                        *)
(*                                                                         *)
(* The slot holds the whole image of a package or something else (Other);  *)
(* CRC32 tells images apart.                                               *)
(***************************************************************************)
EXTENDS Naturals

CONSTANTS Packages,
          Version,       \* [Packages -> Nat], of the manifest
          TrueVersion,   \* [Packages -> Nat], compiled into the application
          Downgrade,     \* packages with the flag ALLOW_DOWNGRADE
          Healthy,       \* packages whose application reaches its confirmation
          WellFormed,    \* packages with a valid vector table
          Rescue,        \* what the host sends in the end
          Other, None,
          MaxFaults,     \* bound on power losses, flash errors and timeouts
          MaxSessions    \* bound on the manifests of other packages

ASSUME SlotAssumption ==
    /\ Version \in [Packages -> Nat] /\ TrueVersion \in [Packages -> Nat]
    /\ Downgrade \subseteq Packages
    /\ Healthy \subseteq Packages /\ WellFormed \subseteq Packages
    /\ Rescue \in Downgrade \cap Healthy \cap WellFormed
    /\ TrueVersion[Rescue] = Version[Rescue]
    /\ Other \notin Packages /\ None \notin Packages /\ Other # None
    /\ MaxFaults \in Nat /\ MaxSessions \in Nat

VARIABLES
    app,         \* content of the application slot
    record,      \* the metadata record: a package, Other (torn) or None (erased)
    trial,       \* the two markers: "erased", "set" or "torn"
    confirmed,
    pc,
    pkg,         \* the package of the session
    faults, sessions,
    trials,      \* history: trial boots since the metadata was last erased
    good         \* history: the package confirmed last

page == <<record, trial, confirmed>>
history == <<trials, good>>
slotVars == <<app, page, pc, pkg, faults, sessions, history>>

Markers == {"erased", "set", "torn"}

TypeOK ==
    /\ app \in Packages \cup {Other}
    /\ record \in Packages \cup {Other, None}
    /\ trial \in Markers /\ confirmed \in Markers
    /\ pc \in {"wait", "decide", "mark", "jump", "recovery", "manifest", "info", "erase",
               "receive", "verify", "eraseMeta", "writeMeta", "app", "running"}
    /\ pkg \in Packages \cup {None} /\ good \in Packages \cup {None}
    /\ faults \in 0..MaxFaults /\ sessions \in 0..MaxSessions /\ trials \in Nat

\* A board whose bootloader has just been flashed, with or without an image.
Init ==
    /\ app \in Packages \cup {Other}
    /\ record = None /\ trial = "erased" /\ confirmed = "erased"
    /\ pc = "wait" /\ pkg = None /\ faults = 0 /\ sessions = 0
    /\ trials = 0 /\ good = None

Fault == faults < MaxFaults /\ faults' = faults + 1
NoFault == UNCHANGED faults

\* ota_metadata_is_valid and ota_metadata_current_state
Valid == record \in Packages
CurrentState ==
    CASE Valid /\ confirmed = "set" /\ trial = "set"         -> "confirmed"
      [] Valid /\ confirmed = "erased" /\ trial = "set"      -> "trial"
      [] Valid /\ confirmed = "erased" /\ trial = "erased"   -> "pending"
      [] OTHER                                               -> "none"

\* Mutant: the record alone counts.
MutantImageMatches == Valid /\ record \in WellFormed

\* can_ota_image_matches_metadata
ImageMatches == Valid /\ app = record /\ app \in WellFormed

-----------------------------------------------------------------------------
(* The boot decision *)

Enter ==
    /\ pc \in {"wait", "recovery"} /\ pc' = "manifest"
    /\ UNCHANGED <<app, page, pkg, faults, sessions, history>>

WaitTimeout ==
    /\ pc = "wait" /\ pc' = "decide"
    /\ UNCHANGED <<app, page, pkg, faults, sessions, history>>

\* Mutant: a trial is started again.
MutantDecide ==
    /\ pc = "decide"
    /\ pc' = CASE CurrentState = "pending" /\ ImageMatches -> "mark"
               [] CurrentState \in {"trial", "confirmed"} /\ ImageMatches -> "jump"
               [] OTHER -> "recovery"
    /\ UNCHANGED <<app, page, pkg, faults, sessions, history>>

\* jump_to_app_if_valid: a trial is not started again.
Decide ==
    /\ pc = "decide"
    /\ pc' = CASE CurrentState = "pending" /\ ImageMatches -> "mark"
               [] CurrentState = "confirmed" /\ ImageMatches -> "jump"
               [] OTHER -> "recovery"
    /\ UNCHANGED <<app, page, pkg, faults, sessions, history>>

\* ota_metadata_mark_trial
MarkTrial ==
    /\ pc = "mark"
    /\ \/ trial' = "set" /\ pc' = "jump" /\ NoFault
       \/ trial' \in Markers /\ pc' \in {"recovery", "wait"} /\ Fault
    /\ UNCHANGED <<app, record, confirmed, pkg, sessions, history>>

Jump ==
    /\ pc = "jump" /\ pc' = "app"
    /\ trials' = IF CurrentState = "trial" THEN trials + 1 ELSE trials
    /\ UNCHANGED <<app, page, pkg, faults, sessions, good>>

-----------------------------------------------------------------------------
(* The session, can_ota_run *)

\* Mutant: the flag is ignored.
MutantAcceptedUnflagged(p) == Valid => Version[p] >= Version[record]

\* The version policy of wait_manifest; an unreadable record has no version.
Accepted(p) == Valid /\ Version[p] < Version[record] => p \in Downgrade

\* wait_manifest: a refused manifest ends in recovery mode.
Manifest(p) ==
    /\ pc = "manifest"
    /\ IF p = Rescue THEN UNCHANGED sessions
                     ELSE sessions < MaxSessions /\ sessions' = sessions + 1
    /\ IF Accepted(p) THEN pc' = "info" /\ pkg' = p
                      ELSE pc' = "recovery" /\ UNCHANGED pkg
    /\ UNCHANGED <<app, page, faults, history>>

Info ==
    /\ pc = "info" /\ pc' = "erase"
    /\ UNCHANGED <<app, page, pkg, faults, sessions, history>>

\* Timeouts, a bad size, a frame out of order, a write that does not read back.
SessionFails ==
    /\ pc \in {"manifest", "info", "receive"} /\ pc' = "recovery" /\ Fault
    /\ UNCHANGED <<app, page, pkg, sessions, history>>

\* erase_app_area: an error may come before the first page or after it.
EraseApp ==
    /\ pc = "erase"
    /\ \/ app' = Other /\ pc' = "receive" /\ NoFault
       \/ app' \in {app, Other} /\ pc' = "recovery" /\ Fault
    /\ UNCHANGED <<page, pkg, sessions, history>>

\* All frames in order; what they carried is for the CRC to judge.
Receive ==
    /\ pc = "receive" /\ pc' = "verify"
    /\ \/ app' = pkg /\ NoFault
       \/ app' \in Packages \cup {Other} /\ Fault
    /\ UNCHANGED <<page, pkg, sessions, history>>

Verify ==
    /\ pc = "verify"
    /\ pc' = IF app = pkg /\ app \in WellFormed THEN "eraseMeta" ELSE "recovery"
    /\ UNCHANGED <<app, page, pkg, faults, sessions, history>>

\* Mutant: the erase is taken to concern the record alone.
MutantEraseMetadata ==
    /\ pc = "eraseMeta"
    /\ record' = None /\ UNCHANGED <<trial, confirmed>>
    /\ pc' = "writeMeta" /\ NoFault
    /\ trials' = 0
    /\ UNCHANGED <<app, pkg, sessions, good>>

\* ota_metadata_write_pending, the erase of the page ...
EraseMetadata ==
    /\ pc = "eraseMeta"
    /\ \/ /\ record' = None /\ trial' = "erased" /\ confirmed' = "erased"
          /\ pc' = "writeMeta" /\ NoFault
       \/ /\ record' \in {record, Other, None}
          /\ trial' \in {trial, "erased", "torn"} /\ confirmed' \in {confirmed, "erased", "torn"}
          /\ pc' \in {"recovery", "wait"} /\ Fault
    /\ trials' = 0
    /\ UNCHANGED <<app, pkg, sessions, good>>

\* ... and the record; the session is done and the image may be tried.
WriteMetadata ==
    /\ pc = "writeMeta"
    /\ \/ record' = pkg /\ pc' = "decide" /\ NoFault
       \/ record' \in {None, Other, pkg} /\ pc' \in {"recovery", "wait"} /\ Fault
    /\ UNCHANGED <<app, trial, confirmed, pkg, sessions, history>>

-----------------------------------------------------------------------------
(* The application *)

\* A version that is not the manifest's is not confirmed; a confirmed one is
\* not written again.
Confirm ==
    /\ pc = "app" /\ app \in Healthy /\ TrueVersion[app] = Version[record]
    /\ \/ /\ CurrentState = "trial" /\ NoFault
          /\ confirmed' = "set" /\ pc' = "running" /\ good' = record
       \/ /\ CurrentState = "trial" /\ Fault
          /\ confirmed' \in Markers /\ pc' = "wait"
          /\ good' = IF confirmed' = "set" THEN record ELSE good
       \/ /\ CurrentState = "confirmed" /\ NoFault /\ pc' = "running"
          /\ UNCHANGED <<confirmed, good>>
    /\ UNCHANGED <<app, record, trial, pkg, sessions, trials>>

\* A failed initialisation, or the version mismatch, ends in a reset.
AppResets ==
    /\ pc = "app" /\ (app \notin Healthy \/ TrueVersion[app] # Version[record])
    /\ pc' = "wait"
    /\ UNCHANGED <<app, page, pkg, faults, sessions, history>>

RequestBootloader ==
    /\ pc = "running" /\ pc' = "wait"
    /\ UNCHANGED <<app, page, pkg, faults, sessions, history>>

\* Between two writes; a loss during a write is in its action.
PowerLoss ==
    /\ Fault /\ pc' = "wait" /\ pkg' = None
    /\ UNCHANGED <<app, page, sessions, history>>

PowerLossErasing ==
    /\ pc \in {"erase", "receive"} /\ Fault
    /\ app' = Other /\ pc' = "wait" /\ pkg' = None
    /\ UNCHANGED <<page, sessions, history>>

-----------------------------------------------------------------------------
Board == \/ WaitTimeout \/ Decide \/ MarkTrial \/ Jump \/ Info \/ EraseApp \/ Receive
         \/ Verify \/ EraseMetadata \/ WriteMetadata \/ Confirm \/ AppResets
Host == Enter \/ \E p \in Packages : Manifest(p)
Failure == SessionFails \/ PowerLoss \/ PowerLossErasing

Next == Board \/ Host \/ Failure \/ RequestBootloader

Spec == Init /\ [][Next]_slotVars

(* The board goes on, and the host goes on sending the rescue package. *)
Fairness == WF_slotVars(Board) /\ WF_slotVars(Enter) /\ WF_slotVars(Manifest(Rescue))
FairSpec == Spec /\ Fairness

-----------------------------------------------------------------------------
(* Properties *)

\* Only the complete, well-formed image of the package in the record is
\* started, whatever was interrupted before (main_can_ota.c, jump_to_app_if_valid).
RunsOnlyVerified == pc \in {"app", "running"} => app = record /\ app \in WellFormed

\* A version that does not confirm itself is started once and not again: the
\* trial marker is in flash before the jump (docs/OTA_FLOW.md, section 5).
OneTrial == trials <= 1

\* What counts as confirmed is the package that has confirmed itself, although
\* an interrupted erase may leave any part of the page: a confirmation is
\* never inherited by another image.
ConfirmedIsItsOwn == CurrentState = "confirmed" => record = good /\ pc # "writeMeta"

\* Whatever record and markers the failures leave, a rescue package with the
\* flag brings the board back (docs/OTA_FLOW.md:16-17; the recovery loops of
\* main_can_ota.c).
Recovers == []<>(pc = "running")
=============================================================================
