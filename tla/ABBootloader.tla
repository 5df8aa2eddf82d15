---------------------------- MODULE ABBootloader ----------------------------
(***************************************************************************)
(* One STM32F103 board with the secure A/B bootloader and its A/B          *)
(* application: the OTA session (can_ota.c), the boot decision             *)
(* (main_can_ota.c), the operations on the A/B metadata                    *)
(* (ota_ab_metadata.c) and on the resume journal (ota_resume_journal.c),   *)
(* and the confirmation made by the application (main_dht11_can.c).        *)
(*                                                                         *)
(* The metadata and the journal are atomic registers: a write takes effect *)
(* or leaves the old value (module FlashRecordLog).  An action contains at *)
(* most one such write, so that a power loss falls between any two.        *)
(* Images are handled by flash page ("block").  What the CAN bus delivers  *)
(* is arbitrary: any package, wrong data, silence.  A frame is sent by     *)
(* waiting until another node acknowledges it (can_send), so that whatever *)
(* follows a status frame needs a peer on the bus.                         *)
(***************************************************************************)
EXTENDS Naturals, FiniteSets

CONSTANTS
  Packages,     \* signed .ota3 packages and forgeries of them
  Authentic,    \* header fields, CRC, key id and signature are accepted
  WellFormed,   \* the images match the manifest and have valid vectors
  Healthy,      \* the application reaches its confirmation step
  TrueVersion,  \* the version compiled into the application is the manifest's
  Downgrade,    \* the manifest carries ALLOW_DOWNGRADE
  Version,      \* [Packages -> Nat \ {0}]
  LegacyVersion,
  Legacy,       \* the v1 application found in Slot A
  Other,        \* any other flash content: erased, partly written, foreign
  NBlocks,      \* blocks of an image
  LegacyRoom,   \* journal appends before Resume page 1 is recycled
  MaxFaults,    \* bound on power losses, flash errors and sporadic resets
  MaxEnters     \* bound on ENTER requests

ASSUME BootAssumption ==
  /\ Authentic \subseteq Packages /\ WellFormed \subseteq Packages
  /\ Healthy \subseteq Packages /\ TrueVersion \subseteq Packages
  /\ Downgrade \subseteq Packages
  /\ Version \in [Packages -> Nat] /\ LegacyVersion \in Nat
  /\ Legacy \notin Packages /\ Other \notin Packages /\ Legacy # Other
  /\ NBlocks \in Nat \ {0}
  /\ LegacyRoom \in Nat /\ MaxFaults \in Nat /\ MaxEnters \in Nat

VARIABLES
  meta,        \* the newest metadata record
  journal,     \* the newest resume record
  flash,       \* the content of the blocks of both slots
  legacy,      \* the v1 metadata record, in what is now Resume page 1
  legacyRoom,  \* journal appends left before that page is recycled
  pc,          \* what the processor is doing
  target,      \* g_target_slot
  pkg,         \* the package of the session: g_package_id, g_expected_*
  received,    \* g_received_size, in blocks
  runSlot,     \* the slot of the running application
  peer,        \* another node is on the bus and acknowledges frames
  trialStarts, \* history: starts of the candidate since it was recorded
  faults,      \* power losses, flash errors and resets so far
  enters       \* ENTER requests so far

stored == <<meta, journal, flash, legacy, legacyRoom>>
session == <<target, pkg, received>>
vars == <<meta, journal, flash, legacy, legacyRoom, pc, target, pkg, received,
          runSlot, peer, trialStarts, faults, enters>>

Slots == {"A", "B"}
NoSlot == "none"
OtherSlot(s) == IF s = "A" THEN "B" ELSE "A"
Blocks == 0 .. (NBlocks - 1)
Images == Packages \cup {Legacy}
Contents == Images \cup {Other}

MetaRecords ==
  [valid : BOOLEAN, active : Slots \cup {NoSlot},
   confirmed : Slots \cup {NoSlot}, candidate : Slots \cup {NoSlot},
   trial : BOOLEAN, info : [Slots -> Contents]]
EmptyMeta ==
  [valid |-> FALSE, active |-> NoSlot, confirmed |-> NoSlot,
   candidate |-> NoSlot, trial |-> FALSE, info |-> [s \in Slots |-> Other]]

JournalRecords ==
  [pkg : Packages \cup {Other}, slot : Slots \cup {NoSlot},
   done : 0 .. NBlocks, complete : BOOLEAN]
EmptyJournal ==
  [pkg |-> Other, slot |-> NoSlot, done |-> 0, complete |-> FALSE]

PCs == {"off", "wait", "boot", "run", "auth", "table", "prepare", "eraseArea",
        "begin", "truncate", "eraseBlock", "receive", "mark", "complete",
        "candidate", "done", "rollback", "recovery", "app", "running"}

VersionOf(i) == IF i \in Packages THEN Version[i] ELSE LegacyVersion

HoldsImage(s, i) == \A b \in Blocks : flash[s][b] = i

\* Mutant: the content of the slot is not checked
MutantBootable(s) == meta.info[s] \in WellFormed \cup {Legacy}
(* slot_is_bootable and can_ota_ab_image_matches_slot *)
Bootable(s) ==
  /\ meta.info[s] \in WellFormed \cup {Legacy}
  /\ HoldsImage(s, meta.info[s])

-----------------------------------------------------------------------------
(* Failures, and writes to the two persistent registers. *)

Fault == faults < MaxFaults /\ faults' = faults + 1

(* Append a metadata record: OK, or an error that leaves it open whether   *)
(* the record was committed.                                               *)
WriteMeta(record, afterOk, afterError) ==
  \/ meta' = record /\ pc' = afterOk /\ UNCHANGED faults
  \/ Fault /\ meta' \in {meta, record} /\ pc' = afterError

(* The fate of the v1 record at the start of Resume page 1: untouched      *)
(* while the log has free cells, then erased and overwritten.              *)
UseJournalCell(committed) ==
  IF legacyRoom > 0
    THEN /\ legacyRoom' \in IF committed THEN {legacyRoom - 1}
                            ELSE {legacyRoom, legacyRoom - 1}
         /\ UNCHANGED legacy
    ELSE /\ legacy' \in IF committed THEN {"overwritten"}
                        ELSE {legacy, "blank", "overwritten"}
         /\ UNCHANGED legacyRoom

WriteJournal(record, afterOk, afterError) ==
  \/ /\ journal' = record
     /\ pc' = afterOk
     /\ UseJournalCell(TRUE)
     /\ UNCHANGED faults
  \/ /\ Fault
     /\ journal' \in {journal, record}
     /\ pc' = afterError
     /\ UseJournalCell(journal' # journal)

(* ota_ab_metadata_import_legacy *)
CanImport == ~meta.valid /\ legacy = "confirmed"
ImportedMeta ==
  [meta EXCEPT !.valid = TRUE, !.active = "A", !.confirmed = "A",
               !.info["A"] = Legacy]

(* ota_ab_metadata_choose_update_slot *)
UpdateSlot(m) ==
  IF m.valid /\ m.confirmed # NoSlot THEN OtherSlot(m.confirmed) ELSE "B"

(* refresh_target_slot: an import that fails is ignored, and the metadata  *)
(* read again.                                                             *)
RefreshTarget ==
  /\ \/ ~CanImport /\ UNCHANGED <<meta, faults>>
     \/ CanImport /\ meta' = ImportedMeta /\ UNCHANGED faults
     \/ CanImport /\ Fault /\ meta' \in {meta, ImportedMeta}
  /\ target' = UpdateSlot(meta')

EndSession == pkg' = Other /\ received' = 0

-----------------------------------------------------------------------------
TypeOK ==
  /\ meta \in MetaRecords
  /\ journal \in JournalRecords
  /\ flash \in [Slots -> [Blocks -> Contents]]
  /\ legacy \in {"none", "confirmed", "blank", "overwritten"}
  /\ legacyRoom \in 0 .. LegacyRoom
  /\ pc \in PCs
  /\ target \in Slots
  /\ pkg \in Packages \cup {Other}
  /\ received \in 0 .. NBlocks
  /\ runSlot \in Slots \cup {NoSlot}
  /\ peer \in BOOLEAN
  /\ trialStarts \in 0 .. 2
  /\ faults \in 0 .. MaxFaults
  /\ enters \in 0 .. MaxEnters

(* The bootloader has just been programmed over SWD: blank A/B pages, and  *)
(* in Slot A either nothing of use or a v1 application with its confirmed  *)
(* v1 record.                                                              *)
Init ==
  /\ meta = EmptyMeta
  /\ journal = EmptyJournal
  /\ \/ /\ legacy = "none"
        /\ flash = [s \in Slots |-> [b \in Blocks |-> Other]]
     \/ /\ legacy = "confirmed"
        /\ flash = [s \in Slots |->
                      [b \in Blocks |-> IF s = "A" THEN Legacy ELSE Other]]
  /\ legacyRoom = LegacyRoom
  /\ pc = "off"
  /\ target = "B"
  /\ pkg = Other
  /\ received = 0
  /\ runSlot = NoSlot
  /\ peer = TRUE
  /\ trialStarts = 0
  /\ faults = 0
  /\ enters = 0

-----------------------------------------------------------------------------
(* The bootloader starts: can_ota_ab_init, then a 3 s wait for ENTER. *)
PowerUp ==
  /\ pc = "off"
  /\ RefreshTarget
  /\ pc' = "wait"
  /\ UNCHANGED <<journal, flash, legacy, legacyRoom, pkg, received, runSlot,
                 trialStarts, enters, peer>>

(* can_ota_ab_wait_enter: an ENTER frame arrives *)
Enter ==
  /\ pc \in {"wait", "recovery"}
  /\ enters < MaxEnters
  /\ enters' = enters + 1
  /\ RefreshTarget
  /\ pc' = "run"
  /\ UNCHANGED <<journal, flash, legacy, legacyRoom, pkg, received, runSlot,
                 trialStarts, peer>>

(* no ENTER within 3 s *)
WaitTimeout ==
  /\ pc = "wait"
  /\ pc' = "boot"
  /\ UNCHANGED <<stored, session, runSlot, trialStarts, faults, enters, peer>>

-----------------------------------------------------------------------------
(* The OTA session, can_ota_ab_run. *)

StartRun ==
  /\ pc = "run"
  /\ peer
  /\ RefreshTarget
  /\ pc' = "auth"
  /\ UNCHANGED <<journal, flash, legacy, legacyRoom, pkg, received, runSlot,
                 trialStarts, enters, peer>>

(* validate_auth_header *)
VersionAllowed(p) ==
  meta.valid /\ meta.confirmed # NoSlot =>
    p \in Downgrade \/ Version[p] >= VersionOf(meta.info[meta.confirmed])
\* Mutant: no version policy
MutantManifestAccepted(p) ==
  p \in Authentic /\ ~(meta.valid /\ meta.confirmed = target)
ManifestAccepted(p) ==
  /\ p \in Authentic
  /\ ~(meta.valid /\ meta.confirmed = target)
  /\ VersionAllowed(p)

ReceiveManifest(p) ==
  /\ pc = "auth"
  /\ IF ManifestAccepted(p)
       THEN pc' = "table" /\ pkg' = p /\ UNCHANGED received
       ELSE pc' = "recovery" /\ EndSession
  /\ UNCHANGED <<stored, target, runSlot, trialStarts, faults, enters, peer>>

(* receive_block_hash_table: the signed digest of the table matches *)
ReceiveTable ==
  /\ pc = "table"
  /\ pc' = "prepare"
  /\ UNCHANGED <<stored, session, runSlot, trialStarts, faults, enters, peer>>

(* 5 s of silence, a frame out of sequence, a wrong length, a wrong table *)
SessionFails ==
  /\ pc \in {"auth", "table", "receive"}
  /\ peer
  /\ pc' = "recovery"
  /\ EndSession
  /\ UNCHANGED <<stored, target, runSlot, trialStarts, faults, enters, peer>>

JournalMatches == journal.pkg = pkg /\ journal.slot = target
\* Mutant: the last recorded block is not checked again
MutantWrongBlocks ==
  {b \in Blocks : b + 1 < journal.done /\ flash[target][b] # pkg}
WrongBlocks == {b \in Blocks : b < journal.done /\ flash[target][b] # pkg}

(* prepare_resumable_write: look the package up in the journal and check   *)
(* the blocks it lists against the hash table                              *)
Prepare ==
  /\ pc = "prepare"
  /\ peer
  /\ \/ /\ ~JournalMatches
        /\ received' = 0
        /\ pc' = "eraseArea"
     \/ /\ JournalMatches
        /\ WrongBlocks # {}
        /\ received' \in WrongBlocks
        /\ \A b \in WrongBlocks : received' <= b
        /\ pc' = "truncate"
     \/ /\ JournalMatches
        /\ WrongBlocks = {}
        /\ received' = journal.done
        /\ pc' = IF journal.done < NBlocks THEN "eraseBlock" ELSE "receive"
  /\ UNCHANGED <<stored, target, pkg, runSlot, trialStarts, faults, enters,
                 peer>>

\* Mutant: the other slot is erased
MutantLoseBlocks(lost) ==
  flash' = [flash EXCEPT ![OtherSlot(target)] =
              [b \in Blocks |-> IF b \in lost THEN Other
                                ELSE flash[OtherSlot(target)][b]]]
(* A set of blocks of the target slot loses its content. *)
LoseBlocks(lost) ==
  flash' = [flash EXCEPT ![target] =
              [b \in Blocks |-> IF b \in lost THEN Other ELSE flash[target][b]]]

(* erase_target_area *)
EraseArea ==
  /\ pc = "eraseArea"
  /\ \/ LoseBlocks(Blocks) /\ pc' = "begin" /\ UNCHANGED <<faults, session>>
     \/ /\ Fault
        /\ \E lost \in SUBSET Blocks : LoseBlocks(lost)
        /\ pc' = "recovery"
        /\ EndSession
        /\ UNCHANGED target
  /\ UNCHANGED <<meta, journal, legacy, legacyRoom, runSlot, trialStarts,
                 enters, peer>>

(* What a journal append leaves of the session: it goes on, or it is over. *)
AfterAppend(next) ==
  IF pc' = "recovery" THEN EndSession ELSE received' = next /\ UNCHANGED pkg

(* ota_resume_begin *)
Begin ==
  /\ pc = "begin"
  /\ WriteJournal([pkg |-> pkg, slot |-> target, done |-> 0, complete |-> FALSE],
                  "receive", "recovery")
  /\ AfterAppend(0)
  /\ UNCHANGED <<meta, flash, target, runSlot, trialStarts, enters, peer>>

(* ota_resume_truncate, at the first block that does not match *)
Truncate ==
  /\ pc = "truncate"
  /\ WriteJournal([journal EXCEPT !.done = received, !.complete = FALSE],
                  "eraseBlock", "recovery")
  /\ AfterAppend(received)
  /\ UNCHANGED <<meta, flash, target, runSlot, trialStarts, enters, peer>>

(* erase_target_block, the first missing block *)
EraseBlock ==
  /\ pc = "eraseBlock"
  /\ \/ LoseBlocks({received}) /\ pc' = "receive" /\ UNCHANGED <<faults, session>>
     \/ /\ Fault
        /\ \E lost \in SUBSET {received} : LoseBlocks(lost)
        /\ pc' = "recovery"
        /\ EndSession
        /\ UNCHANGED target
  /\ UNCHANGED <<meta, journal, legacy, legacyRoom, runSlot, trialStarts,
                 enters, peer>>

BlockExpected == received < NBlocks

(* write_image_bytes and flush_write_buf: a whole block has arrived, its   *)
(* page is rewritten, read back and compared with the hash table           *)
ReceiveBlock(content) ==
  /\ pc = "receive"
  /\ BlockExpected
  /\ \/ /\ flash' = [flash EXCEPT ![target][received] = content]
        /\ pc' = IF content = pkg THEN "mark" ELSE "recovery"
        /\ UNCHANGED faults
     \/ /\ Fault
        /\ flash' = [flash EXCEPT ![target][received] = Other]
        /\ pc' = "recovery"
  /\ IF pc' = "mark" THEN UNCHANGED <<pkg, received>> ELSE EndSession
  /\ UNCHANGED <<meta, journal, legacy, legacyRoom, target, runSlot,
                 trialStarts, enters, peer>>

(* ota_resume_mark_block *)
MarkBlock ==
  /\ pc = "mark"
  /\ WriteJournal([journal EXCEPT !.done = received + 1], "receive", "recovery")
  /\ AfterAppend(received + 1)
  /\ UNCHANGED <<meta, flash, target, runSlot, trialStarts, enters, peer>>

(* the whole image is in flash: CRC32, SHA-256 and vector check *)
Verify ==
  /\ pc = "receive"
  /\ peer
  /\ received = NBlocks
  /\ IF HoldsImage(target, pkg) /\ pkg \in WellFormed
       THEN pc' = "complete" /\ UNCHANGED <<pkg, received>>
       ELSE pc' = "recovery" /\ EndSession
  /\ UNCHANGED <<stored, target, runSlot, trialStarts, faults, enters, peer>>

(* ota_resume_mark_complete, unless the record already says so *)
Complete ==
  /\ pc = "complete"
  /\ IF journal.complete
       THEN pc' = "candidate" /\ UNCHANGED <<journal, legacy, legacyRoom, faults>>
       ELSE WriteJournal([journal EXCEPT !.complete = TRUE], "candidate", "recovery")
  /\ AfterAppend(received)
  /\ UNCHANGED <<meta, flash, target, runSlot, trialStarts, enters, peer>>

\* Mutant: the image data of both slots is overwritten
MutantCandidateMeta ==
  [meta EXCEPT !.valid = TRUE, !.active = target, !.candidate = target,
               !.trial = FALSE, !.info = [s \in Slots |-> pkg]]
(* ota_ab_metadata_set_candidate *)
CandidateMeta ==
  [meta EXCEPT !.valid = TRUE, !.active = target, !.candidate = target,
               !.trial = FALSE, !.info[target] = pkg]
SetCandidate ==
  /\ pc = "candidate"
  /\ WriteMeta(CandidateMeta, "done", "recovery")
  /\ trialStarts' = IF meta' = CandidateMeta THEN 0 ELSE trialStarts
  /\ EndSession
  /\ UNCHANGED <<journal, flash, legacy, legacyRoom, target, runSlot, enters,
                 peer>>

(* DONE is sent; then the boot decision *)
ReportDone ==
  /\ pc = "done"
  /\ peer
  /\ pc' = "boot"
  /\ UNCHANGED <<stored, session, runSlot, trialStarts, faults, enters, peer>>

-----------------------------------------------------------------------------
(* The boot decision, jump_to_app_if_valid. *)

(* Metadata is empty: import the v1 record or stay in recovery mode. *)
BootEmpty ==
  /\ pc = "boot"
  /\ ~meta.valid
  /\ \/ CanImport /\ WriteMeta(ImportedMeta, "boot", "recovery")
     \/ ~CanImport /\ pc' = "recovery" /\ UNCHANGED <<meta, faults>>
  /\ UNCHANGED <<journal, flash, legacy, legacyRoom, session, runSlot,
                 trialStarts, enters, peer>>

(* A write that decides to run slot s, and the way to the jump. *)
DecideToRun(record, s, next) ==
  /\ WriteMeta(record, next, "recovery")
  /\ runSlot' = IF pc' = next THEN s ELSE runSlot

HasCandidate == meta.valid /\ meta.candidate # NoSlot
\* Mutant: the trial flag is not looked at
MutantTrialAllowed == Bootable(meta.candidate)
TrialAllowed == ~meta.trial /\ Bootable(meta.candidate)

(* ota_ab_metadata_mark_trial, before the one start of the candidate *)
BootTrial ==
  /\ pc = "boot"
  /\ HasCandidate
  /\ TrialAllowed
  /\ DecideToRun([meta EXCEPT !.trial = TRUE], meta.candidate, "app")
  /\ trialStarts' = IF pc' = "app" THEN trialStarts + 1 ELSE trialStarts
  /\ UNCHANGED <<journal, flash, legacy, legacyRoom, session, enters, peer>>

\* Mutant: the rollback is not recorded
MutantRollbackMeta == meta
(* ota_ab_metadata_rollback *)
RollbackMeta ==
  [meta EXCEPT !.active = meta.confirmed, !.candidate = NoSlot, !.trial = FALSE]

(* rollback_and_jump: to the confirmed slot if it still verifies, *)
BootRollback ==
  /\ pc = "boot"
  /\ HasCandidate
  /\ ~TrialAllowed
  /\ \/ /\ meta.confirmed # NoSlot
        /\ Bootable(meta.confirmed)
        /\ DecideToRun(RollbackMeta, meta.confirmed, "rollback")
     \/ /\ ~(meta.confirmed # NoSlot /\ Bootable(meta.confirmed))
        /\ pc' = "recovery"
        /\ UNCHANGED <<meta, runSlot, faults>>
  /\ UNCHANGED <<journal, flash, legacy, legacyRoom, session, trialStarts,
                 enters, peer>>

(* and after the ROLLBACK status *)
ReportRollback ==
  /\ pc = "rollback"
  /\ peer
  /\ pc' = "app"
  /\ UNCHANGED <<stored, session, runSlot, trialStarts, faults, enters, peer>>

(* No candidate: run the active slot if it verifies. *)
BootActive ==
  /\ pc = "boot"
  /\ meta.valid
  /\ meta.candidate = NoSlot
  /\ IF meta.active # NoSlot /\ Bootable(meta.active)
       THEN pc' = "app" /\ runSlot' = meta.active
       ELSE pc' = "recovery" /\ UNCHANGED runSlot
  /\ UNCHANGED <<stored, session, trialStarts, faults, enters, peer>>

-----------------------------------------------------------------------------
(* The application up to its confirmation, then running. *)

RunningImage == meta.info[runSlot]

(* ota_ab_metadata_confirm accepts: already confirmed, or the trial *)
IsConfirmed ==
  /\ meta.candidate = NoSlot
  /\ meta.active = runSlot
  /\ meta.confirmed = runSlot
IsTrial ==
  /\ meta.candidate = runSlot
  /\ meta.active = runSlot
  /\ meta.trial
\* Mutant: the candidate is not cleared
MutantConfirmedMeta == [meta EXCEPT !.confirmed = runSlot, !.trial = FALSE]
ConfirmedMeta ==
  [meta EXCEPT !.confirmed = runSlot, !.candidate = NoSlot, !.trial = FALSE]

AppConfirm ==
  /\ pc = "app"
  /\ RunningImage \in Healthy
  /\ \/ /\ RunningImage \in TrueVersion
        /\ IsConfirmed
        /\ pc' = "running"
        /\ UNCHANGED <<meta, faults>>
     \/ /\ RunningImage \in TrueVersion
        /\ ~IsConfirmed
        /\ IsTrial
        /\ WriteMeta(ConfirmedMeta, "running", "off")
     \/ /\ ~(RunningImage \in TrueVersion /\ (IsConfirmed \/ IsTrial))
        /\ pc' = "off"
        /\ UNCHANGED <<meta, faults>>
  /\ runSlot' = IF pc' = "off" THEN NoSlot ELSE runSlot
  /\ UNCHANGED <<journal, flash, legacy, legacyRoom, session, trialStarts,
                 enters, peer>>

(* The v1 application confirms against its own record: a blank page is     *)
(* accepted, foreign bytes are not.                                        *)
LegacyConfirm ==
  /\ pc = "app"
  /\ RunningImage = Legacy
  /\ IF legacy \in {"confirmed", "blank"}
       THEN pc' = "running" /\ UNCHANGED runSlot
       ELSE pc' = "off" /\ runSlot' = NoSlot
  /\ UNCHANGED <<stored, session, trialStarts, faults, enters, peer>>

(* A reset before confirmation: always for an unhealthy image, sometimes   *)
(* for a healthy one (CAN initialisation failed).                          *)
AppReset ==
  /\ pc = "app"
  /\ \/ RunningImage \notin Healthy \cup {Legacy} /\ UNCHANGED faults
     \/ RunningImage \in Healthy \cup {Legacy} /\ Fault
  /\ pc' = "off"
  /\ runSlot' = NoSlot
  /\ UNCHANGED <<stored, session, trialStarts, enters, peer>>

(* The host asks the running application for the bootloader. *)
RequestBootloader ==
  /\ pc = "running"
  /\ enters < MaxEnters
  /\ pc' = "off"
  /\ runSlot' = NoSlot
  /\ UNCHANGED <<stored, session, trialStarts, faults, enters, peer>>

-----------------------------------------------------------------------------
(* Power is lost; pages being erased or programmed keep anything. *)
Endangered ==
  CASE pc = "eraseArea" -> Blocks
    [] pc \in {"eraseBlock", "receive"} -> {received} \cap Blocks
    [] OTHER -> {}

PowerLoss ==
  /\ pc # "off"
  /\ Fault
  /\ \E lost \in SUBSET Endangered : LoseBlocks(lost)
  /\ pc' = "off"
  /\ target' = "B"
  /\ EndSession
  /\ runSlot' = NoSlot
  /\ UNCHANGED <<meta, journal, legacy, legacyRoom, trialStarts, enters, peer>>

(* The other node leaves the bus or comes back. *)
PeerChanges ==
  /\ peer' = ~peer
  /\ UNCHANGED <<stored, session, pc, runSlot, trialStarts, faults, enters>>

-----------------------------------------------------------------------------
Bootloader ==
  \/ PowerUp \/ WaitTimeout \/ StartRun \/ Prepare \/ EraseArea \/ Begin
  \/ Truncate \/ EraseBlock \/ MarkBlock \/ Verify \/ Complete \/ SetCandidate
  \/ ReportDone \/ BootEmpty \/ BootTrial \/ BootRollback \/ ReportRollback
  \/ BootActive

Application == AppConfirm \/ LegacyConfirm \/ AppReset

Bus ==
  /\ peer
  /\ \/ Enter
     \/ \E p \in Packages : ReceiveManifest(p)
     \/ ReceiveTable
     \/ \E content \in Packages \cup {Other} : ReceiveBlock(content)
     \/ RequestBootloader

Next ==
  Bootloader \/ Application \/ Bus \/ SessionFails \/ PowerLoss \/ PeerChanges

Spec == Init /\ [][Next]_vars

(* The processor keeps executing, power comes back after a loss, and an    *)
(* application before its confirmation neither hangs nor waits.            *)
Fairness == WF_vars(Bootloader) /\ WF_vars(Application)
FairSpec == Spec /\ Fairness

-----------------------------------------------------------------------------
(* A record without a candidate names one confirmed slot, which is active; *)
(* a candidate is the active slot and never the confirmed one.  The four   *)
(* writers (import, candidate, trial, confirm, rollback) and the stale     *)
(* target slot of a session must keep this together across power losses.   *)
MetaCoherent ==
  /\ ~meta.valid => meta = EmptyMeta
  /\ meta.valid /\ meta.candidate = NoSlot =>
        meta.active \in Slots /\ meta.confirmed = meta.active /\ ~meta.trial
  /\ meta.valid /\ meta.candidate # NoSlot =>
        meta.candidate \in Slots /\ meta.active = meta.candidate
        /\ meta.confirmed # meta.candidate

(* The confirmed slot always holds the complete image its record           *)
(* describes: whatever a session, an error or a power loss does, there is  *)
(* something to roll back to.                                              *)
ConfirmedBootable ==
  meta.valid /\ meta.confirmed # NoSlot => Bootable(meta.confirmed)

(* What runs is a complete image of an authentic package (or the imported  *)
(* v1 application), from the active slot; it runs past its confirmation    *)
(* step only as the confirmed image, and before it only as the confirmed   *)
(* image or as a trial that is already on record.                          *)
RunsOnlyVerified ==
  pc \in {"app", "running"} =>
    /\ meta.valid
    /\ meta.active = runSlot
    /\ HoldsImage(runSlot, RunningImage)
    /\ RunningImage \in (Authentic \cap WellFormed) \cup {Legacy}
    /\ IsConfirmed \/ (pc = "app" /\ IsTrial)

(* A candidate is started at most once between the moment it is recorded   *)
(* and its confirmation, whatever resets, errors or power losses happen.   *)
OneTrial == trialStarts <= 1

(* While blocks arrive, and until the candidate is recorded, the journal   *)
(* describes this session exactly, and every block before the write        *)
(* position is the package's: resuming never skips a block that is not     *)
(* there, although erases, truncations and block writes may all be cut     *)
(* short in earlier sessions.                                              *)
ResumeSound ==
  pc \in {"receive", "mark", "complete", "candidate"} =>
    /\ journal.pkg = pkg /\ journal.slot = target /\ journal.done = received
    /\ \A b \in Blocks : b < received => flash[target][b] = pkg
    /\ pc \in {"complete", "candidate"} => received = NBlocks

(* The image that waits for its trial is no older than the confirmed one,  *)
(* unless its signed manifest allows it: the check is made at the start of *)
(* the session, the candidate is recorded at its end.                      *)
NoSilentDowngrade ==
  HasCandidate /\ meta.confirmed # NoSlot =>
    VersionAllowed(meta.info[meta.candidate])

(* No step erases or writes a block of the confirmed slot, or of Slot A    *)
(* while it holds a v1 application that is still to be imported.           *)
ConfirmedSlotUntouched ==
  [][ /\ meta.valid /\ meta.confirmed # NoSlot =>
           flash'[meta.confirmed] = flash[meta.confirmed]
      /\ CanImport => flash'["A"] = flash["A"] ]_vars

(* A board with a confirmed image has restarted, with no more failures and *)
(* no more ENTER requests to come.                                         *)
Restarted ==
  /\ pc = "off"
  /\ meta.valid /\ meta.confirmed # NoSlot
  /\ faults = MaxFaults /\ enters = MaxEnters

(* The v1 record that an imported application reads at its start is still  *)
(* its own, if there is such an application to go back to.                 *)
LegacyIntact == meta.info[meta.confirmed] = Legacy => legacy # "overwritten"

(* It ends up running a confirmed application: at once, after the trial,   *)
(* or after the rollback of a failed trial, if from some time on another   *)
(* node is on the bus (can_send waits for an acknowledgement).             *)
ReturnsToService == <>[]peer => (Restarted /\ LegacyIntact ~> pc = "running")

(* docs/OTA_AB_SECURE_V3.md: after a reset without confirmation the        *)
(* bootloader switches back to the confirmed slot, an imported v1          *)
(* application included.                                                   *)
RollsBackToLegacy == <>[]peer => (Restarted ~> pc = "running")

=============================================================================
