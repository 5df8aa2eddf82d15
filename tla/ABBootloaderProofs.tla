------------------------- MODULE ABBootloaderProofs -------------------------
(***************************************************************************)
(* For every set of packages, every size of image and any number of        *)
(* failures and sessions: the safety properties of the A/B bootloader.     *)
(***************************************************************************)
EXTENDS ABBootloader, TLAPS

(* Packages an image of which may end up in a metadata record. *)
Sound == Authentic \cap WellFormed

InfoOK ==
  /\ \A s \in Slots : meta.info[s] \in Sound \cup {Legacy, Other}
  /\ HasCandidate => meta.info[meta.candidate] \in Sound

LegacyKept == CanImport => HoldsImage("A", Legacy)

(* From power-up to the jump the session's slot is the one the newest      *)
(* metadata record leaves free.                                            *)
TargetFree == pc \notin {"off", "app", "running"} => target = UpdateSlot(meta)

InSession ==
  pc \in {"table", "prepare", "eraseArea", "begin", "truncate", "eraseBlock",
          "receive", "mark", "complete", "candidate"}

PackageOK ==
  /\ InSession => pkg \in Authentic /\ VersionAllowed(pkg)
  /\ pc \in {"complete", "candidate"} => pkg \in WellFormed

PrefixOK == \A b \in Blocks : b < received => flash[target][b] = pkg

ResumeOK ==
  /\ pc \in {"truncate", "eraseBlock", "receive", "mark", "complete", "candidate"}
       => JournalMatches /\ PrefixOK
  /\ pc \in {"eraseBlock", "receive", "mark", "complete", "candidate"}
       => journal.done = received
  /\ pc \in {"eraseBlock", "truncate", "mark"} => received < NBlocks
  /\ pc = "mark" => flash[target][received] = pkg
  /\ pc \in {"complete", "candidate"} => received = NBlocks

RunOK ==
  pc \in {"rollback", "app", "running"} =>
    /\ meta.valid
    /\ runSlot \in Slots
    /\ Bootable(runSlot)
    /\ IsConfirmed \/ (pc = "app" /\ IsTrial)

TrialOK ==
  /\ trialStarts \in {0, 1}
  /\ HasCandidate /\ ~meta.trial => trialStarts = 0

MetaOK ==
  MetaCoherent /\ InfoOK /\ ConfirmedBootable /\ LegacyKept /\ NoSilentDowngrade

IInv ==
  TypeOK /\ MetaOK /\ TargetFree /\ PackageOK /\ ResumeOK /\ RunOK /\ TrialOK

-----------------------------------------------------------------------------
(* The slot of a session is not the confirmed one, and not Slot A while a  *)
(* v1 application waits there to be imported.                              *)
LEMMA TargetIsFree ==
  ASSUME IInv, pc \notin {"off", "app", "running"}
  PROVE  /\ meta.valid => target # meta.confirmed
         /\ CanImport => target = "B"
BY DEF IInv, TypeOK, TargetFree, UpdateSlot, OtherSlot, Slots, NoSlot, CanImport

(* The metadata invariants survive every step that leaves the metadata and *)
(* all slots but a free target alone.                                      *)
LEMMA MetaKept ==
  ASSUME IInv, meta' = meta,
         legacy' = "confirmed" => legacy = "confirmed",
         \/ flash' = flash
         \/ /\ pc \notin {"off", "app", "running"}
            /\ \A s \in Slots : s # target => flash'[s] = flash[s]
  PROVE  MetaOK'
<1>1. /\ \A s \in Slots : meta.valid /\ s = meta.confirmed => flash'[s] = flash[s]
      /\ CanImport => flash'["A"] = flash["A"]
  BY TargetIsFree DEF Slots
<1>2. MetaCoherent' /\ InfoOK' /\ NoSilentDowngrade'
  BY DEF IInv, MetaOK, MetaCoherent, InfoOK, NoSilentDowngrade, HasCandidate,
         VersionAllowed
<1>3. CanImport' => CanImport
  BY DEF CanImport
<1>4. LegacyKept'
  BY <1>1, <1>3 DEF IInv, MetaOK, LegacyKept, HoldsImage
<1>5. ConfirmedBootable'
  BY <1>1 DEF IInv, MetaOK, MetaCoherent, TypeOK, MetaRecords, ConfirmedBootable,
              Bootable, HoldsImage, EmptyMeta
<1> QED
  BY <1>2, <1>4, <1>5 DEF MetaOK

(* The import of a v1 record. *)
LEMMA ImportKeepsMeta ==
  ASSUME IInv, CanImport, meta' = ImportedMeta, flash' = flash
  PROVE  /\ meta' \in MetaRecords /\ meta'.valid /\ meta'.candidate = NoSlot
         /\ MetaOK'
         /\ UpdateSlot(meta') = "B" /\ UpdateSlot(meta) = "B"
<1>1. meta = EmptyMeta
  BY DEF IInv, MetaOK, MetaCoherent, CanImport
<1>2. /\ meta'.valid /\ meta'.active = "A" /\ meta'.confirmed = "A"
      /\ meta'.candidate = NoSlot /\ meta'.trial = FALSE
      /\ meta'.info["A"] = Legacy /\ meta'.info["B"] = Other
      /\ meta' \in MetaRecords
  BY <1>1 DEF ImportedMeta, EmptyMeta, MetaRecords, Slots, Contents, Images
<1>3. HoldsImage("A", Legacy)'
  BY DEF IInv, MetaOK, LegacyKept, HoldsImage
<1>4. MetaCoherent'
  BY <1>2 DEF MetaCoherent, Slots, NoSlot
<1>5. InfoOK' /\ NoSilentDowngrade' /\ LegacyKept'
  BY <1>2 DEF InfoOK, Slots, NoSilentDowngrade, HasCandidate, LegacyKept, CanImport
<1>6. ConfirmedBootable'
  BY <1>2, <1>3 DEF ConfirmedBootable, Bootable
<1>7. UpdateSlot(meta') = "B" /\ UpdateSlot(meta) = "B"
  BY <1>1, <1>2 DEF UpdateSlot, OtherSlot, EmptyMeta, NoSlot
<1> QED
  BY <1>2, <1>4, <1>5, <1>6, <1>7 DEF MetaOK

(* refresh_target_slot *)
LEMMA RefreshKeeps ==
  ASSUME IInv, RefreshTarget, UNCHANGED <<flash, legacy, trialStarts>>
  PROVE  /\ meta' \in MetaRecords /\ faults' \in 0 .. MaxFaults
         /\ target' \in Slots /\ target' = UpdateSlot(meta')
         /\ MetaOK' /\ TrialOK'
<1>1. CASE meta' = meta
  <2>1. MetaOK'
    BY <1>1, MetaKept
  <2> QED
    BY <1>1, <2>1, BootAssumption
    DEF RefreshTarget, Fault, IInv, TypeOK, UpdateSlot, OtherSlot, Slots, TrialOK,
        HasCandidate
<1>2. CASE CanImport /\ meta' = ImportedMeta
  <2>1. /\ meta' \in MetaRecords /\ meta'.candidate = NoSlot
        /\ MetaOK' /\ UpdateSlot(meta') = "B"
    BY <1>2, ImportKeepsMeta
  <2> QED
    BY <2>1, BootAssumption
    DEF RefreshTarget, Fault, IInv, TypeOK, Slots, TrialOK, HasCandidate
<1> QED
  BY <1>1, <1>2 DEF RefreshTarget

-----------------------------------------------------------------------------
(* One lemma for each group of actions: the inductive step.  First the     *)
(* actions that choose the target slot.                                    *)
LEMMA RefreshActions ==
  ASSUME IInv, PowerUp \/ Enter \/ StartRun
  PROVE  IInv'
<1>1. RefreshTarget /\ UNCHANGED <<flash, legacy, trialStarts>>
  BY DEF PowerUp, Enter, StartRun
<1>2. /\ meta' \in MetaRecords /\ faults' \in 0 .. MaxFaults
      /\ target' \in Slots /\ target' = UpdateSlot(meta')
      /\ MetaOK' /\ TrialOK'
  BY <1>1, RefreshKeeps
<1>3. pc' \in {"wait", "run", "auth"}
  BY DEF PowerUp, Enter, StartRun
<1>4. TypeOK'
  BY <1>2, <1>3, BootAssumption DEF PowerUp, Enter, StartRun, IInv, TypeOK, PCs
<1>5. TargetFree' /\ PackageOK' /\ ResumeOK' /\ RunOK'
  BY <1>2, <1>3 DEF TargetFree, PackageOK, InSession, ResumeOK, RunOK
<1> QED
  BY <1>2, <1>4, <1>5 DEF IInv

(* Actions that change neither what is stored nor the session. *)
LEMMA ControlActions ==
  ASSUME IInv, \/ WaitTimeout \/ ReceiveTable \/ ReportDone \/ ReportRollback
               \/ BootActive \/ LegacyConfirm \/ AppReset \/ RequestBootloader
               \/ PeerChanges
  PROVE  IInv'
<1>1. UNCHANGED <<stored, session, trialStarts>>
  BY DEF WaitTimeout, ReceiveTable, ReportDone, ReportRollback, BootActive,
         LegacyConfirm, AppReset, RequestBootloader, PeerChanges
<1>2. MetaOK'
  BY <1>1, MetaKept DEF stored
<1>3. TrialOK'
  BY <1>1 DEF IInv, TrialOK, HasCandidate, stored
<1>4. TypeOK'
  <2>1. CASE PeerChanges
    <3>1. peer' \in BOOLEAN /\ UNCHANGED <<pc, runSlot, trialStarts, faults, enters>>
      BY <2>1 DEF PeerChanges
    <3> QED
      BY <1>1, <3>1 DEF IInv, TypeOK, stored, session
  <2>2. CASE ~PeerChanges
    <3>1. UNCHANGED <<peer, enters>>
      BY <2>2 DEF WaitTimeout, ReceiveTable, ReportDone, ReportRollback, BootActive,
                  LegacyConfirm, AppReset, RequestBootloader
    <3>2. pc' \in PCs
      BY <2>2 DEF WaitTimeout, ReceiveTable, ReportDone, ReportRollback, BootActive,
                  LegacyConfirm, AppReset, RequestBootloader, PCs
    <3>3. runSlot' \in Slots \cup {NoSlot}
      BY <2>2 DEF WaitTimeout, ReceiveTable, ReportDone, ReportRollback, BootActive,
                  LegacyConfirm, AppReset, RequestBootloader, IInv, TypeOK, MetaRecords
    <3>4. faults' \in 0 .. MaxFaults
      BY <2>2, BootAssumption
      DEF WaitTimeout, ReceiveTable, ReportDone, ReportRollback, BootActive,
          LegacyConfirm, AppReset, RequestBootloader, Fault, IInv, TypeOK
    <3> QED
      BY <1>1, <3>1, <3>2, <3>3, <3>4 DEF IInv, TypeOK, stored, session
  <2> QED
    BY <2>1, <2>2
<1>5. TargetFree' /\ PackageOK' /\ ResumeOK'
  BY <1>1
  DEF WaitTimeout, ReceiveTable, ReportDone, ReportRollback, BootActive,
      LegacyConfirm, AppReset, RequestBootloader, PeerChanges, IInv,
      TargetFree, PackageOK, InSession, VersionAllowed, ResumeOK, JournalMatches,
      PrefixOK, stored, session
<1>6. RunOK'
  <2>1. CASE BootActive
    BY <2>1
    DEF BootActive, IInv, MetaOK, MetaCoherent, RunOK, Bootable, HoldsImage,
        IsConfirmed, stored, Slots, NoSlot
  <2>2. CASE LegacyConfirm
    <3>1. Legacy \notin Sound
      BY BootAssumption DEF Sound
    <3>2. ~IsTrial
      BY <2>2, <3>1
      DEF LegacyConfirm, IInv, MetaOK, InfoOK, RunOK, IsTrial, HasCandidate,
          RunningImage, Slots, NoSlot
    <3> QED
      BY <1>1, <2>2, <3>2
      DEF LegacyConfirm, IInv, RunOK, Bootable, HoldsImage, IsConfirmed, IsTrial,
          stored
  <2>3. CASE ReportRollback \/ PeerChanges
    BY <1>1, <2>3
    DEF ReportRollback, PeerChanges, IInv, RunOK, Bootable, HoldsImage,
        IsConfirmed, IsTrial, stored
  <2>4. CASE \/ WaitTimeout \/ ReceiveTable \/ ReportDone \/ AppReset
             \/ RequestBootloader
    BY <2>4 DEF WaitTimeout, ReceiveTable, ReportDone, AppReset,
                RequestBootloader, RunOK
  <2> QED
    BY <2>1, <2>2, <2>3, <2>4
<1> QED
  BY <1>2, <1>3, <1>4, <1>5, <1>6 DEF IInv

(* Session steps that change nothing that is stored. *)
LEMMA SessionActions ==
  ASSUME IInv, \/ \E p \in Packages : ReceiveManifest(p)
               \/ SessionFails \/ Prepare \/ Verify
  PROVE  IInv'
<1>1. UNCHANGED <<stored, target, runSlot, peer, trialStarts, faults, enters>>
  BY DEF ReceiveManifest, SessionFails, Prepare, Verify
<1>2. MetaOK'
  BY <1>1, MetaKept DEF stored
<1>3. TrialOK'
  BY <1>1 DEF IInv, TrialOK, HasCandidate, stored
<1>4. pc \notin {"off", "app", "running"} /\ pc' \notin {"off", "app", "running", "rollback"}
  BY DEF ReceiveManifest, SessionFails, Prepare, Verify
<1>5. TargetFree' /\ RunOK'
  BY <1>1, <1>4 DEF IInv, TargetFree, RunOK, stored
<1>6. CASE SessionFails
  <2>1. TypeOK'
    BY <1>1, <1>6, BootAssumption
    DEF SessionFails, EndSession, IInv, TypeOK, PCs, stored
  <2> QED
    BY <1>2, <1>3, <1>5, <1>6, <2>1
    DEF SessionFails, IInv, PackageOK, InSession, ResumeOK
<1>7. ASSUME NEW p \in Packages, ReceiveManifest(p) PROVE IInv'
  <2>1. TypeOK'
    BY <1>1, <1>7, BootAssumption
    DEF ReceiveManifest, EndSession, IInv, TypeOK, PCs, stored
  <2>2. PackageOK'
    BY <1>1, <1>7
    DEF ReceiveManifest, ManifestAccepted, PackageOK, InSession, VersionAllowed, stored
  <2>3. ResumeOK'
    BY <1>7 DEF ReceiveManifest, ResumeOK
  <2> QED
    BY <1>2, <1>3, <1>5, <2>1, <2>2, <2>3 DEF IInv
<1>8. CASE Prepare
  <2>1. PackageOK'
    BY <1>1, <1>8
    DEF Prepare, IInv, PackageOK, InSession, VersionAllowed, stored
  <2>2. journal.done \in 0 .. NBlocks /\ NBlocks \in Nat \ {0}
    BY BootAssumption DEF IInv, TypeOK, JournalRecords
  <2>3. CASE ~JournalMatches
    <3>1. TypeOK'
      BY <1>1, <1>8, <2>2, <2>3 DEF Prepare, IInv, TypeOK, PCs, stored
    <3> QED
      BY <1>2, <1>3, <1>5, <1>8, <2>1, <2>3, <3>1 DEF Prepare, IInv, ResumeOK
  <2>4. CASE JournalMatches /\ WrongBlocks # {}
    <3>1. /\ received' \in WrongBlocks /\ pc' = "truncate"
          /\ \A b \in WrongBlocks : received' <= b
          /\ UNCHANGED pkg
      BY <1>8, <2>4 DEF Prepare
    <3>2. received' \in Blocks /\ received' < journal.done
      BY <3>1 DEF WrongBlocks
    <3>3. received' \in 0 .. NBlocks /\ received' < NBlocks
      BY <2>2, <3>2 DEF Blocks
    <3>4. TypeOK'
      BY <1>1, <3>1, <3>3 DEF IInv, TypeOK, PCs, stored
    <3>5. \A b \in Blocks : b < received' => flash[target][b] = pkg
      <4>1. SUFFICES ASSUME NEW b \in Blocks, b < received', flash[target][b] # pkg
                     PROVE  FALSE
        OBVIOUS
      <4>2. b \in WrongBlocks
        BY <2>2, <3>2, <3>3, <4>1 DEF WrongBlocks, Blocks
      <4> QED
        BY <2>2, <3>1, <3>3, <4>1, <4>2 DEF Blocks
    <3>6. ResumeOK'
      BY <1>1, <2>4, <3>1, <3>3, <3>5
      DEF ResumeOK, JournalMatches, PrefixOK, stored
    <3> QED
      BY <1>2, <1>3, <1>5, <2>1, <3>4, <3>6 DEF IInv
  <2>5. CASE JournalMatches /\ WrongBlocks = {}
    <3>1. /\ received' = journal.done /\ UNCHANGED pkg
          /\ pc' = IF journal.done < NBlocks THEN "eraseBlock" ELSE "receive"
      BY <1>8, <2>5 DEF Prepare
    <3>2. TypeOK'
      BY <1>1, <2>2, <3>1 DEF IInv, TypeOK, PCs, stored
    <3>3. \A b \in Blocks : b < received' => flash[target][b] = pkg
      BY <2>5, <3>1 DEF WrongBlocks
    <3>4. ResumeOK'
      BY <1>1, <2>5, <3>1, <3>3 DEF ResumeOK, JournalMatches, PrefixOK, stored
    <3> QED
      BY <1>2, <1>3, <1>5, <2>1, <3>2, <3>4 DEF IInv
  <2> QED
    BY <2>3, <2>4, <2>5
<1>9. CASE Verify
  <2>1. TypeOK'
    BY <1>1, <1>9, BootAssumption
    DEF Verify, EndSession, IInv, TypeOK, PCs, stored
  <2>2. PackageOK'
    BY <1>1, <1>9 DEF Verify, IInv, PackageOK, InSession, VersionAllowed, stored
  <2>3. ResumeOK'
    BY <1>1, <1>9 DEF Verify, IInv, ResumeOK, JournalMatches, PrefixOK, stored
  <2> QED
    BY <1>2, <1>3, <1>5, <2>1, <2>2, <2>3 DEF IInv
<1> QED
  BY <1>6, <1>7, <1>8, <1>9

(* Steps that erase or write the target slot. *)
LEMMA LosingBlocks ==
  ASSUME IInv, NEW lost \in SUBSET Blocks, LoseBlocks(lost)
  PROVE  /\ flash' \in [Slots -> [Blocks -> Contents]]
         /\ \A s \in Slots : s # target => flash'[s] = flash[s]
         /\ \A b \in Blocks : b \notin lost => flash'[target][b] = flash[target][b]
BY DEF LoseBlocks, IInv, TypeOK, Contents

LEMMA EraseActions ==
  ASSUME IInv, EraseArea \/ EraseBlock
  PROVE  IInv'
<1>1. UNCHANGED <<meta, journal, legacy, legacyRoom, target, runSlot, peer,
                  trialStarts, enters>>
  BY DEF EraseArea, EraseBlock, session
<1>2. pc \in {"eraseArea", "eraseBlock"} /\ pc' \in {"begin", "receive", "recovery"}
  BY DEF EraseArea, EraseBlock
<1>3. pc = "eraseBlock" => received \in Blocks
  BY <1>2, BootAssumption DEF IInv, ResumeOK, TypeOK, Blocks
<1>4. PICK lost \in SUBSET Blocks :
        LoseBlocks(lost) /\ (pc = "eraseBlock" => lost \subseteq {received})
  BY <1>2, <1>3 DEF EraseArea, EraseBlock
<1>5. /\ flash' \in [Slots -> [Blocks -> Contents]]
      /\ \A s \in Slots : s # target => flash'[s] = flash[s]
      /\ \A b \in Blocks : b \notin lost => flash'[target][b] = flash[target][b]
  BY <1>4, LosingBlocks
<1>6. MetaOK'
  BY <1>1, <1>2, <1>5, MetaKept
<1>7. \/ UNCHANGED <<pkg, received, faults>> /\ pc' # "recovery"
      \/ pkg' = Other /\ received' = 0 /\ Fault /\ pc' = "recovery"
  BY DEF EraseArea, EraseBlock, EndSession, session
<1>8. TypeOK'
  BY <1>1, <1>2, <1>5, <1>7, BootAssumption DEF Fault, IInv, TypeOK, PCs
<1>9. TargetFree' /\ RunOK' /\ TrialOK'
  BY <1>1, <1>2 DEF IInv, TargetFree, RunOK, TrialOK, HasCandidate
<1>10. PackageOK'
  BY <1>1, <1>2, <1>7 DEF IInv, PackageOK, InSession, VersionAllowed
<1>11. ResumeOK'
  <2>1. CASE pc' = "receive"
    <3>1. pc = "eraseBlock"
      BY <1>2, <2>1 DEF EraseArea, EraseBlock
    <3>2. JournalMatches /\ PrefixOK /\ journal.done = received
      BY <3>1 DEF IInv, ResumeOK
    <3>3. PrefixOK'
      BY <1>1, <1>3, <1>4, <1>5, <1>7, <2>1, <3>1, <3>2, BootAssumption
      DEF PrefixOK, Blocks
    <3> QED
      BY <1>1, <1>7, <2>1, <3>2, <3>3 DEF ResumeOK, JournalMatches
  <2>2. CASE pc' # "receive"
    BY <1>2, <2>2 DEF ResumeOK
  <2> QED
    BY <2>1, <2>2
<1> QED
  BY <1>6, <1>8, <1>9, <1>10, <1>11 DEF IInv

LEMMA ReceiveAction ==
  ASSUME IInv, NEW content \in Packages \cup {Other}, ReceiveBlock(content)
  PROVE  IInv'
<1>1. UNCHANGED <<meta, journal, legacy, legacyRoom, target, runSlot, peer,
                  trialStarts, enters>>
  BY DEF ReceiveBlock
<1>2. pc = "receive" /\ pc' \in {"mark", "recovery"}
  BY DEF ReceiveBlock
<1>3. received \in Blocks /\ received < NBlocks
  BY <1>2, BootAssumption DEF ReceiveBlock, BlockExpected, IInv, TypeOK, Blocks
<1>4. PICK new \in Contents :
        /\ flash' = [flash EXCEPT ![target][received] = new]
        /\ pc' = "mark" => new = pkg
  BY DEF ReceiveBlock, Contents, Images
<1>5. /\ flash' \in [Slots -> [Blocks -> Contents]]
      /\ \A s \in Slots : s # target => flash'[s] = flash[s]
      /\ \A b \in Blocks : b # received => flash'[target][b] = flash[target][b]
      /\ flash'[target][received] = new
  BY <1>3, <1>4 DEF IInv, TypeOK
<1>6. MetaOK'
  BY <1>1, <1>2, <1>5, MetaKept
<1>7. \/ UNCHANGED <<pkg, received>> /\ pc' = "mark"
      \/ pkg' = Other /\ received' = 0 /\ pc' = "recovery"
  BY <1>2 DEF ReceiveBlock, EndSession
<1>8. faults' \in 0 .. MaxFaults
  BY BootAssumption DEF ReceiveBlock, Fault, IInv, TypeOK
<1>9. TypeOK'
  BY <1>1, <1>2, <1>5, <1>7, <1>8, BootAssumption DEF IInv, TypeOK, PCs
<1>10. TargetFree' /\ RunOK' /\ TrialOK'
  BY <1>1, <1>2 DEF IInv, TargetFree, RunOK, TrialOK, HasCandidate
<1>11. PackageOK'
  BY <1>1, <1>2, <1>7 DEF IInv, PackageOK, InSession, VersionAllowed
<1>12. ResumeOK'
  <2>1. CASE pc' = "mark"
    <3>1. JournalMatches /\ PrefixOK /\ journal.done = received
      BY <1>2 DEF IInv, ResumeOK
    <3>2. PrefixOK'
      BY <1>1, <1>3, <1>5, <1>7, <2>1, <3>1, BootAssumption DEF PrefixOK, Blocks
    <3> QED
      BY <1>1, <1>3, <1>4, <1>5, <1>7, <2>1, <3>1, <3>2 DEF ResumeOK, JournalMatches
  <2>2. CASE pc' # "mark"
    BY <1>2, <2>2 DEF ResumeOK
  <2> QED
    BY <2>1, <2>2
<1> QED
  BY <1>6, <1>9, <1>10, <1>11, <1>12 DEF IInv

LEMMA PowerLossAction ==
  ASSUME IInv, PowerLoss
  PROVE  IInv'
<1>1. /\ UNCHANGED <<meta, journal, legacy, legacyRoom, peer, trialStarts, enters>>
      /\ pc' = "off" /\ target' = "B" /\ pkg' = Other /\ received' = 0
      /\ runSlot' = NoSlot /\ Fault
  BY DEF PowerLoss, EndSession
<1>2. PICK lost \in SUBSET Endangered : LoseBlocks(lost)
  BY DEF PowerLoss
<1>3. /\ lost \in SUBSET Blocks
      /\ pc \in {"off", "app", "running"} => lost = {}
  BY <1>2 DEF Endangered
<1>4. /\ flash' \in [Slots -> [Blocks -> Contents]]
      /\ \A s \in Slots : s # target => flash'[s] = flash[s]
      /\ \A b \in Blocks : b \notin lost => flash'[target][b] = flash[target][b]
  BY <1>2, <1>3, LosingBlocks
<1>5. pc \in {"off", "app", "running"} => flash' = flash
  BY <1>2, <1>3 DEF LoseBlocks, IInv, TypeOK
<1>6. MetaOK'
  BY <1>1, <1>4, <1>5, MetaKept
<1>7. TypeOK'
  BY <1>1, <1>4, BootAssumption DEF Fault, IInv, TypeOK, PCs, Slots
<1> QED
  BY <1>1, <1>6, <1>7
  DEF IInv, TargetFree, PackageOK, InSession, ResumeOK, RunOK, TrialOK, HasCandidate

-----------------------------------------------------------------------------
(* What an append to the journal leaves behind. *)
LEMMA JournalWrite ==
  ASSUME IInv, NEW record \in JournalRecords, NEW next \in {"receive", "eraseBlock", "candidate"},
         WriteJournal(record, next, "recovery")
  PROVE  /\ journal' \in JournalRecords
         /\ legacyRoom' \in 0 .. LegacyRoom /\ faults' \in 0 .. MaxFaults
         /\ legacy' \in {"none", "confirmed", "blank", "overwritten"}
         /\ legacy' = "confirmed" => legacy = "confirmed"
         /\ \/ journal' = record /\ pc' = next
            \/ pc' = "recovery"
<1>1. legacyRoom \in 0 .. LegacyRoom /\ LegacyRoom \in Nat /\ MaxFaults \in Nat
      /\ faults \in 0 .. MaxFaults
  BY BootAssumption DEF IInv, TypeOK
<1>2. legacyRoom' \in 0 .. LegacyRoom
  BY <1>1 DEF WriteJournal, UseJournalCell
<1>3. /\ legacy' \in {"none", "confirmed", "blank", "overwritten"}
      /\ legacy' = "confirmed" => legacy = "confirmed"
  BY DEF WriteJournal, UseJournalCell, IInv, TypeOK
<1>4. faults' \in 0 .. MaxFaults
  <2>1. faults' = faults \/ Fault
    BY ZenonT(20) DEF WriteJournal
  <2> QED
    BY <1>1, <2>1 DEF Fault
<1> QED
  BY <1>2, <1>3, <1>4 DEF WriteJournal, IInv, TypeOK

(* The invariant after an append that ends the session or goes on. *)
LEMMA JournalStep ==
  ASSUME IInv, NEW record \in JournalRecords,
         NEW next \in {"receive", "eraseBlock", "candidate"},
         NEW n \in 0 .. NBlocks,
         WriteJournal(record, next, "recovery"), AfterAppend(n),
         UNCHANGED <<meta, flash, target, runSlot, trialStarts, enters, peer>>,
         InSession,
         next = "candidate" => pkg \in WellFormed /\ n = NBlocks,
         next = "eraseBlock" => n < NBlocks,
         record.pkg = pkg /\ record.slot = target /\ record.done = n,
         \A b \in Blocks : b < n => flash[target][b] = pkg
  PROVE  IInv'
<1>1. /\ journal' \in JournalRecords
      /\ legacyRoom' \in 0 .. LegacyRoom /\ faults' \in 0 .. MaxFaults
      /\ legacy' \in {"none", "confirmed", "blank", "overwritten"}
      /\ legacy' = "confirmed" => legacy = "confirmed"
      /\ \/ journal' = record /\ pc' = next
         \/ pc' = "recovery"
  BY JournalWrite
<1>2. IF pc' = "recovery" THEN pkg' = Other /\ received' = 0
                          ELSE pkg' = pkg /\ received' = n
  BY DEF AfterAppend, EndSession
<1>3. MetaOK'
  BY <1>1, MetaKept
<1>4. TypeOK'
  BY <1>1, <1>2, BootAssumption DEF IInv, TypeOK, PCs
<1>5. TargetFree' /\ RunOK' /\ TrialOK'
  BY <1>1 DEF InSession, IInv, TargetFree, RunOK, TrialOK, HasCandidate
<1>6. PackageOK'
  BY <1>1, <1>2 DEF IInv, PackageOK, InSession, VersionAllowed
<1>7. ResumeOK'
  BY <1>1, <1>2 DEF ResumeOK, JournalMatches, PrefixOK
<1> QED
  BY <1>3, <1>4, <1>5, <1>6, <1>7 DEF IInv

LEMMA JournalActions ==
  ASSUME IInv, Begin \/ Truncate \/ MarkBlock \/ Complete
  PROVE  IInv'
<1>1. InSession /\ pkg \in Packages /\ target \in Slots /\ NBlocks \in Nat \ {0}
      /\ journal \in JournalRecords /\ received \in 0 .. NBlocks
  BY BootAssumption
  DEF Begin, Truncate, MarkBlock, Complete, InSession, IInv, TypeOK, PackageOK
<1>2. CASE Begin
  <2> DEFINE r == [pkg |-> pkg, slot |-> target, done |-> 0, complete |-> FALSE]
  <2>1. r \in JournalRecords
    BY <1>1 DEF JournalRecords
  <2>2. \A b \in Blocks : b < 0 => flash[target][b] = pkg
    BY <1>1 DEF Blocks
  <2>3. WriteJournal(r, "receive", "recovery") /\ AfterAppend(0)
        /\ UNCHANGED <<meta, flash, target, runSlot, trialStarts, enters, peer>>
    BY <1>2 DEF Begin
  <2> QED
    BY <1>1, <2>1, <2>2, <2>3, JournalStep
<1>3. CASE Truncate
  <2> DEFINE r == [journal EXCEPT !.done = received, !.complete = FALSE]
  <2>1. r \in JournalRecords
    BY <1>1 DEF JournalRecords
  <2>2. JournalMatches /\ PrefixOK /\ received < NBlocks
    BY <1>3 DEF Truncate, IInv, ResumeOK
  <2>3. r.pkg = pkg /\ r.slot = target /\ r.done = received
    BY <1>1, <2>2 DEF JournalMatches, JournalRecords
  <2>4. WriteJournal(r, "eraseBlock", "recovery") /\ AfterAppend(received)
        /\ UNCHANGED <<meta, flash, target, runSlot, trialStarts, enters, peer>>
    BY <1>3 DEF Truncate
  <2> QED
    BY <1>1, <2>1, <2>2, <2>3, <2>4, JournalStep DEF PrefixOK
<1>4. CASE MarkBlock
  <2> DEFINE r == [journal EXCEPT !.done = received + 1]
  <2>1. JournalMatches /\ PrefixOK /\ received < NBlocks
        /\ flash[target][received] = pkg
    BY <1>4 DEF MarkBlock, IInv, ResumeOK
  <2>2. received + 1 \in 0 .. NBlocks
    BY <1>1, <2>1
  <2>3. r \in JournalRecords
    BY <1>1, <2>2 DEF JournalRecords
  <2>4. r.pkg = pkg /\ r.slot = target /\ r.done = received + 1
    BY <1>1, <2>1 DEF JournalMatches, JournalRecords
  <2>5. \A b \in Blocks : b < received + 1 => flash[target][b] = pkg
    BY <1>1, <2>1 DEF Blocks, PrefixOK
  <2>6. WriteJournal(r, "receive", "recovery") /\ AfterAppend(received + 1)
        /\ UNCHANGED <<meta, flash, target, runSlot, trialStarts, enters, peer>>
    BY <1>4 DEF MarkBlock
  <2> QED
    BY <1>1, <2>2, <2>3, <2>4, <2>5, <2>6, JournalStep
<1>5. CASE Complete
  <2> DEFINE r == [journal EXCEPT !.complete = TRUE]
  <2>1. JournalMatches /\ PrefixOK /\ journal.done = received
        /\ received = NBlocks /\ pkg \in WellFormed
    BY <1>5 DEF Complete, IInv, ResumeOK, PackageOK
  <2>2. CASE journal.complete
    <3>1. UNCHANGED <<stored, target, pkg, received, runSlot, trialStarts, faults,
                      enters, peer>> /\ pc = "complete" /\ pc' = "candidate"
      BY <1>5, <2>2 DEF Complete, AfterAppend, stored
    <3>2. MetaOK'
      BY <3>1, MetaKept DEF stored
    <3>3. TypeOK'
      BY <3>1 DEF IInv, TypeOK, PCs, stored
    <3> QED
      BY <2>1, <3>1, <3>2, <3>3
      DEF IInv, TargetFree, PackageOK, InSession, VersionAllowed, ResumeOK,
          JournalMatches, PrefixOK, RunOK, TrialOK, HasCandidate, stored
  <2>3. CASE ~journal.complete
    <3>1. r \in JournalRecords
      BY <1>1 DEF JournalRecords
    <3>2. r.pkg = pkg /\ r.slot = target /\ r.done = received
      BY <1>1, <2>1 DEF JournalMatches, JournalRecords
    <3>3. WriteJournal(r, "candidate", "recovery") /\ AfterAppend(received)
          /\ UNCHANGED <<meta, flash, target, runSlot, trialStarts, enters, peer>>
      BY <1>5, <2>3 DEF Complete
    <3> QED
      BY <1>1, <2>1, <3>1, <3>2, <3>3, JournalStep DEF PrefixOK
  <2> QED
    BY <2>2, <2>3
<1> QED
  BY <1>2, <1>3, <1>4, <1>5

-----------------------------------------------------------------------------
(* Writes to the metadata. *)
LEMMA WriteMetaCases ==
  ASSUME IInv, NEW record, NEW afterOk, NEW afterError,
         WriteMeta(record, afterOk, afterError)
  PROVE  /\ \/ meta' = record /\ pc' \in {afterOk, afterError}
            \/ meta' = meta /\ pc' = afterError
         /\ faults' \in 0 .. MaxFaults
BY BootAssumption DEF WriteMeta, Fault, IInv, TypeOK

LEMMA CandidateAction ==
  ASSUME IInv, SetCandidate
  PROVE  IInv'
<1>1. /\ pc = "candidate"
      /\ UNCHANGED <<journal, flash, legacy, legacyRoom, target, runSlot, enters, peer>>
      /\ pkg' = Other /\ received' = 0
      /\ faults' \in 0 .. MaxFaults
      /\ \/ meta' = CandidateMeta /\ pc' \in {"done", "recovery"}
         \/ meta' = meta /\ pc' = "recovery"
      /\ trialStarts' = IF meta' = CandidateMeta THEN 0 ELSE trialStarts
  BY WriteMetaCases DEF SetCandidate, EndSession
<1>2. /\ pkg \in Sound /\ pkg \in Packages /\ VersionAllowed(pkg)
      /\ HoldsImage(target, pkg) /\ target \in Slots /\ target = UpdateSlot(meta)
      /\ meta \in MetaRecords
  <2>1. JournalMatches /\ PrefixOK /\ received = NBlocks
    BY <1>1 DEF IInv, ResumeOK
  <2>2. HoldsImage(target, pkg)
    BY <2>1, BootAssumption DEF PrefixOK, HoldsImage, Blocks
  <2> QED
    BY <1>1, <2>2, BootAssumption
    DEF IInv, PackageOK, InSession, Sound, TypeOK, TargetFree
<1>3. CASE meta' = meta /\ pc' = "recovery"
  <2>1. MetaOK'
    BY <1>1, <1>3, MetaKept
  <2>2. TypeOK'
    BY <1>1, <1>3, BootAssumption DEF IInv, TypeOK, PCs
  <2>3. TrialOK'
    BY <1>1, <1>3 DEF IInv, TrialOK, HasCandidate
  <2> QED
    BY <1>1, <1>2, <1>3, <2>1, <2>2, <2>3
    DEF IInv, TargetFree, PackageOK, InSession, ResumeOK, RunOK
<1>4. CASE meta' = CandidateMeta /\ pc' \in {"done", "recovery"}
  <2>1. /\ meta'.valid /\ meta'.active = target /\ meta'.candidate = target
        /\ meta'.trial = FALSE /\ meta'.confirmed = meta.confirmed
        /\ meta'.info = [meta.info EXCEPT ![target] = pkg]
        /\ meta' \in MetaRecords
    BY <1>2, <1>4 DEF CandidateMeta, MetaRecords, Contents, Images
  <2>2. meta'.info[target] = pkg /\ \A s \in Slots : s # target => meta'.info[s] = meta.info[s]
    BY <1>2, <2>1 DEF MetaRecords
  <2>3. meta.confirmed # target /\ (~meta.valid => meta.confirmed = NoSlot)
    BY <1>1, <1>2, TargetIsFree DEF IInv, MetaOK, MetaCoherent, EmptyMeta, Slots, NoSlot
  <2>4. meta.confirmed \in Slots \cup {NoSlot}
    BY <1>2 DEF MetaRecords
  <2>5. MetaCoherent'
    BY <1>2, <2>1, <2>3 DEF MetaCoherent, Slots, NoSlot
  <2>6. InfoOK'
    BY <1>2, <2>1, <2>2 DEF IInv, MetaOK, InfoOK
  <2>7. ConfirmedBootable'
    BY <1>1, <2>1, <2>2, <2>3, <2>4
    DEF IInv, MetaOK, ConfirmedBootable, Bootable, HoldsImage, NoSlot
  <2>8. LegacyKept'
    BY <2>1 DEF LegacyKept, CanImport
  <2>9. NoSilentDowngrade'
    BY <1>2, <2>1, <2>2, <2>3, <2>4 DEF NoSilentDowngrade, HasCandidate, VersionAllowed
  <2>10. TargetFree'
    BY <1>1, <1>2, <2>1, <2>3 DEF TargetFree, UpdateSlot
  <2>11. TypeOK'
    BY <1>1, <1>4, <2>1, BootAssumption DEF IInv, TypeOK, PCs
  <2> QED
    BY <1>1, <1>4, <2>5, <2>6, <2>7, <2>8, <2>9, <2>10, <2>11
    DEF IInv, MetaOK, PackageOK, InSession, ResumeOK, RunOK, TrialOK
<1> QED
  BY <1>1, <1>3, <1>4

LEMMA ImportAction ==
  ASSUME IInv, BootEmpty
  PROVE  IInv'
<1>1. /\ pc = "boot" /\ pc' \in {"boot", "recovery"}
      /\ UNCHANGED <<journal, flash, legacy, legacyRoom, session, runSlot,
                     trialStarts, enters, peer>>
      /\ faults' \in 0 .. MaxFaults
      /\ meta' = meta \/ (CanImport /\ meta' = ImportedMeta)
  BY WriteMetaCases DEF BootEmpty, IInv, TypeOK
<1>2. meta' \in MetaRecords /\ MetaOK' /\ UpdateSlot(meta') = UpdateSlot(meta)
  BY <1>1, MetaKept, ImportKeepsMeta DEF IInv, TypeOK
<1>3. TrialOK'
  <2>1. meta' = meta \/ meta'.candidate = NoSlot
    BY <1>1, ImportKeepsMeta
  <2> QED
    BY <1>1, <2>1 DEF IInv, TrialOK, HasCandidate
<1>4. TypeOK'
  BY <1>1, <1>2 DEF IInv, TypeOK, PCs, session
<1> QED
  BY <1>1, <1>2, <1>3, <1>4
  DEF IInv, TargetFree, PackageOK, InSession, ResumeOK, RunOK, session

(* A metadata record that changes only the state of the slots. *)
LEMMA StateWrite ==
  ASSUME IInv, meta' \in MetaRecords, UNCHANGED <<flash, legacy>>,
         meta.valid, meta'.valid, meta'.info = meta.info,
         meta'.confirmed # NoSlot => Bootable(meta'.confirmed),
         \/ meta'.candidate = NoSlot
         \/ meta'.candidate = meta.candidate /\ meta'.confirmed = meta.confirmed,
         MetaCoherent'
  PROVE  MetaOK'
<1>1. InfoOK'
  BY DEF IInv, MetaOK, InfoOK, HasCandidate
<1>2. ConfirmedBootable'
  BY DEF ConfirmedBootable, Bootable, HoldsImage
<1>3. LegacyKept'
  BY DEF LegacyKept, CanImport
<1>4. NoSilentDowngrade'
  BY DEF IInv, MetaOK, NoSilentDowngrade, HasCandidate, VersionAllowed
<1> QED
  BY <1>1, <1>2, <1>3, <1>4 DEF MetaOK

LEMMA TrialAction ==
  ASSUME IInv, BootTrial
  PROVE  IInv'
<1> DEFINE r == [meta EXCEPT !.trial = TRUE]
<1>1. /\ pc = "boot" /\ HasCandidate /\ TrialAllowed
      /\ UNCHANGED <<journal, flash, legacy, legacyRoom, session, enters, peer>>
      /\ faults' \in 0 .. MaxFaults
      /\ \/ meta' = r /\ pc' \in {"app", "recovery"}
         \/ meta' = meta /\ pc' = "recovery"
      /\ runSlot' = IF pc' = "app" THEN meta.candidate ELSE runSlot
      /\ trialStarts' = IF pc' = "app" THEN trialStarts + 1 ELSE trialStarts
  BY WriteMetaCases DEF BootTrial, DecideToRun
<1>2. /\ meta \in MetaRecords /\ meta.valid /\ meta.candidate \in Slots
      /\ meta.active = meta.candidate /\ meta.confirmed # meta.candidate
      /\ Bootable(meta.candidate) /\ trialStarts = 0
      /\ meta.confirmed # NoSlot => Bootable(meta.confirmed)
  BY <1>1 DEF IInv, TypeOK, HasCandidate, TrialAllowed, MetaOK, MetaCoherent,
              ConfirmedBootable, TrialOK
<1>3. /\ r \in MetaRecords /\ r.valid /\ r.info = meta.info /\ r.trial = TRUE
      /\ r.candidate = meta.candidate /\ r.confirmed = meta.confirmed
      /\ r.active = meta.active
  BY <1>2 DEF MetaRecords
<1> HIDE DEF r
<1>4. MetaOK'
  <2>1. CASE meta' = r
    <3>1. MetaCoherent'
      BY <1>2, <1>3, <2>1 DEF MetaCoherent, Slots, NoSlot
    <3> QED
      BY <1>1, <1>2, <1>3, <2>1, <3>1, StateWrite
  <2>2. CASE meta' = meta
    BY <1>1, <2>2, MetaKept
  <2> QED
    BY <1>1, <2>1, <2>2
<1>5. /\ meta' \in MetaRecords /\ UpdateSlot(meta') = UpdateSlot(meta)
      /\ meta'.candidate = meta.candidate /\ meta'.active = meta.active /\ meta'.valid
      /\ meta'.info = meta.info
      /\ pc' = "app" => meta'.trial
  BY <1>1, <1>2, <1>3 DEF UpdateSlot
<1>6. TypeOK'
  BY <1>1, <1>2, <1>5, BootAssumption DEF IInv, TypeOK, PCs, session
<1>7. TrialOK'
  BY <1>1, <1>2, <1>5 DEF IInv, TrialOK
<1>8. RunOK'
  <2>1. CASE pc' = "app"
    <3>1. runSlot' = meta.candidate /\ Bootable(runSlot')
      BY <1>1, <1>2, <2>1
    <3> QED
      BY <1>1, <1>2, <1>5, <2>1, <3>1 DEF RunOK, Bootable, HoldsImage, IsTrial
  <2>2. CASE pc' # "app"
    BY <1>1, <2>2 DEF RunOK
  <2> QED
    BY <2>1, <2>2
<1> QED
  BY <1>1, <1>4, <1>5, <1>6, <1>7, <1>8
  DEF IInv, TargetFree, PackageOK, InSession, ResumeOK, session

LEMMA RollbackAction ==
  ASSUME IInv, BootRollback
  PROVE  IInv'
<1>1. /\ pc = "boot" /\ HasCandidate
      /\ UNCHANGED <<journal, flash, legacy, legacyRoom, session, trialStarts,
                     enters, peer>>
  BY DEF BootRollback
<1>2. CASE UNCHANGED <<meta, runSlot, faults>> /\ pc' = "recovery"
  <2>1. MetaOK'
    BY <1>1, <1>2, MetaKept
  <2> QED
    BY <1>1, <1>2, <2>1
    DEF IInv, TypeOK, PCs, TargetFree, PackageOK, InSession, ResumeOK, RunOK,
        TrialOK, HasCandidate, session
<1>3. CASE /\ meta.confirmed # NoSlot /\ Bootable(meta.confirmed)
           /\ DecideToRun(RollbackMeta, meta.confirmed, "rollback")
  <2>1. /\ faults' \in 0 .. MaxFaults
        /\ \/ meta' = RollbackMeta /\ pc' \in {"rollback", "recovery"}
           \/ meta' = meta /\ pc' = "recovery"
        /\ runSlot' = IF pc' = "rollback" THEN meta.confirmed ELSE runSlot
    BY <1>3, WriteMetaCases DEF DecideToRun
  <2>2. meta \in MetaRecords /\ meta.valid /\ meta.confirmed \in Slots
    BY <1>1, <1>3 DEF IInv, TypeOK, HasCandidate, MetaRecords
  <2>3. /\ RollbackMeta \in MetaRecords /\ RollbackMeta.valid
        /\ RollbackMeta.info = meta.info /\ RollbackMeta.trial = FALSE
        /\ RollbackMeta.candidate = NoSlot
        /\ RollbackMeta.confirmed = meta.confirmed
        /\ RollbackMeta.active = meta.confirmed
    BY <2>2 DEF RollbackMeta, MetaRecords
  <2>4. MetaOK'
    <3>1. CASE meta' = RollbackMeta
      <4>1. MetaCoherent'
        BY <2>2, <2>3, <3>1 DEF MetaCoherent
      <4> QED
        BY <1>1, <1>3, <2>2, <2>3, <3>1, <4>1, StateWrite
    <3>2. CASE meta' = meta
      BY <1>1, <3>2, MetaKept
    <3> QED
      BY <2>1, <3>1, <3>2
  <2>5. /\ meta' \in MetaRecords /\ UpdateSlot(meta') = UpdateSlot(meta)
        /\ meta' = meta \/ meta'.candidate = NoSlot
    BY <2>1, <2>2, <2>3 DEF UpdateSlot
  <2>6. TypeOK'
    BY <1>1, <2>1, <2>2, <2>5 DEF IInv, TypeOK, PCs, session
  <2>7. TrialOK'
    BY <1>1, <2>5 DEF IInv, TrialOK, HasCandidate
  <2>8. RunOK'
    BY <1>1, <1>3, <2>1, <2>2, <2>3 DEF RunOK, Bootable, HoldsImage, IsConfirmed
  <2> QED
    BY <1>1, <2>1, <2>4, <2>5, <2>6, <2>7, <2>8
    DEF IInv, TargetFree, PackageOK, InSession, ResumeOK, session
<1> QED
  BY <1>2, <1>3 DEF BootRollback

LEMMA ConfirmAction ==
  ASSUME IInv, AppConfirm
  PROVE  IInv'
<1>1. /\ pc = "app"
      /\ UNCHANGED <<journal, flash, legacy, legacyRoom, session, trialStarts,
                     enters, peer>>
      /\ runSlot' = IF pc' = "off" THEN NoSlot ELSE runSlot
      /\ pc' \in {"running", "off"}
  BY DEF AppConfirm, WriteMeta
<1>2. meta \in MetaRecords /\ meta.valid /\ runSlot \in Slots /\ Bootable(runSlot)
  BY <1>1 DEF IInv, TypeOK, RunOK
<1>3. TargetFree' /\ PackageOK' /\ ResumeOK'
  BY <1>1 DEF TargetFree, PackageOK, InSession, ResumeOK
<1>4. CASE IsTrial /\ WriteMeta(ConfirmedMeta, "running", "off")
  <2>1. /\ faults' \in 0 .. MaxFaults
        /\ \/ meta' = ConfirmedMeta /\ pc' \in {"running", "off"}
           \/ meta' = meta /\ pc' = "off"
    BY <1>4, WriteMetaCases
  <2>2. /\ ConfirmedMeta \in MetaRecords /\ ConfirmedMeta.valid
        /\ ConfirmedMeta.info = meta.info /\ ConfirmedMeta.trial = FALSE
        /\ ConfirmedMeta.candidate = NoSlot
        /\ ConfirmedMeta.confirmed = runSlot
        /\ ConfirmedMeta.active = runSlot
    BY <1>2, <1>4 DEF ConfirmedMeta, MetaRecords, IsTrial
  <2>3. MetaOK'
    <3>1. CASE meta' = ConfirmedMeta
      <4>1. MetaCoherent'
        BY <1>2, <2>2, <3>1 DEF MetaCoherent
      <4> QED
        BY <1>1, <1>2, <2>2, <3>1, <4>1, StateWrite
    <3>2. CASE meta' = meta
      BY <1>1, <3>2, MetaKept
    <3> QED
      BY <2>1, <3>1, <3>2
  <2>4. /\ meta' \in MetaRecords
        /\ meta' = meta \/ meta'.candidate = NoSlot
    BY <1>2, <2>1, <2>2
  <2>5. TypeOK'
    BY <1>1, <2>1, <2>4 DEF IInv, TypeOK, PCs, session
  <2>6. TrialOK'
    BY <1>1, <2>4 DEF IInv, TrialOK, HasCandidate
  <2>7. RunOK'
    BY <1>1, <1>2, <2>1, <2>2 DEF RunOK, Bootable, HoldsImage, IsConfirmed
  <2> QED
    BY <1>3, <2>3, <2>5, <2>6, <2>7 DEF IInv
<1>5. CASE UNCHANGED <<meta, faults>> /\ (pc' = "running" => IsConfirmed)
  <2>1. MetaOK'
    BY <1>1, <1>5, MetaKept
  <2>2. TypeOK'
    BY <1>1, <1>5 DEF IInv, TypeOK, PCs, session
  <2>3. TrialOK'
    BY <1>1, <1>5 DEF IInv, TrialOK, HasCandidate
  <2>4. RunOK'
    BY <1>1, <1>2, <1>5 DEF RunOK, Bootable, HoldsImage, IsConfirmed
  <2> QED
    BY <1>3, <2>1, <2>2, <2>3, <2>4 DEF IInv
<1> QED
  BY <1>4, <1>5 DEF AppConfirm

-----------------------------------------------------------------------------
LEMMA InitIInv == Init => IInv
<1> SUFFICES ASSUME Init PROVE IInv
  OBVIOUS
<1>1. meta = EmptyMeta /\ meta.valid = FALSE /\ meta.confirmed = NoSlot
      /\ meta.candidate = NoSlot /\ meta.info = [s \in Slots |-> Other]
  BY DEF Init, EmptyMeta
<1>2. TypeOK
  <2>1. meta \in MetaRecords /\ journal \in JournalRecords
    BY BootAssumption
    DEF Init, EmptyMeta, MetaRecords, EmptyJournal, JournalRecords, Contents
  <2>2. flash \in [Slots -> [Blocks -> Contents]]
    BY DEF Init, Contents, Images
  <2> QED
    BY <2>1, <2>2, BootAssumption DEF Init, TypeOK, PCs, Slots
<1>3. MetaOK
  <2>1. LegacyKept
    BY <1>1 DEF Init, LegacyKept, CanImport, HoldsImage, Slots
  <2> QED
    BY <1>1, <2>1
    DEF MetaOK, MetaCoherent, InfoOK, HasCandidate, ConfirmedBootable,
        NoSilentDowngrade
<1> QED
  BY <1>1, <1>2, <1>3
  DEF Init, IInv, TargetFree, PackageOK, InSession, ResumeOK, RunOK, TrialOK,
      HasCandidate

LEMMA NextIInv == IInv /\ [Next]_vars => IInv'
<1> SUFFICES ASSUME IInv, [Next]_vars PROVE IInv'
  OBVIOUS
<1>1. CASE UNCHANGED vars
  <2>1. MetaOK'
    BY <1>1, MetaKept DEF vars
  <2>2. TypeOK'
    BY <1>1 DEF vars, IInv, TypeOK
  <2> QED
    BY <1>1, <2>1, <2>2
    DEF vars, IInv, TargetFree, PackageOK, InSession, VersionAllowed, ResumeOK,
        JournalMatches, PrefixOK, RunOK, Bootable, HoldsImage, IsConfirmed,
        IsTrial, TrialOK, HasCandidate
<1>2. CASE Bootloader
  BY <1>2, RefreshActions, ControlActions, SessionActions, EraseActions,
     JournalActions, CandidateAction, ImportAction, TrialAction, RollbackAction
  DEF Bootloader
<1>3. CASE Application
  BY <1>3, ConfirmAction, ControlActions DEF Application
<1>4. CASE Bus
  BY <1>4, RefreshActions, ControlActions, SessionActions, ReceiveAction DEF Bus
<1>5. CASE SessionFails \/ PowerLoss \/ PeerChanges
  BY <1>5, SessionActions, PowerLossAction, ControlActions
<1> QED
  BY <1>1, <1>2, <1>3, <1>4, <1>5 DEF Next

(* The inductive invariant holds in every reachable state. *)
THEOREM BootInvariant == Spec => []IInv
  BY InitIInv, NextIInv, PTL DEF Spec

(* The variables keep their types. *)
THEOREM BootTypeCorrect == Spec => []TypeOK
<1>1. IInv => TypeOK
  BY DEF IInv
<1> QED
  BY <1>1, BootInvariant, PTL

(* Active, confirmed and candidate slot stay together. *)
THEOREM BootMetaCoherent == Spec => []MetaCoherent
<1>1. IInv => MetaCoherent
  BY DEF IInv, MetaOK
<1> QED
  BY <1>1, BootInvariant, PTL

(* There is always a complete confirmed image to go back to. *)
THEOREM BootConfirmedBootable == Spec => []ConfirmedBootable
<1>1. IInv => ConfirmedBootable
  BY DEF IInv, MetaOK
<1> QED
  BY <1>1, BootInvariant, PTL

(* Only complete images of authentic packages run, and past the            *)
(* confirmation step only the confirmed one.                               *)
THEOREM BootRunsOnlyVerified == Spec => []RunsOnlyVerified
<1>1. IInv => RunsOnlyVerified
  <2> SUFFICES ASSUME IInv, pc \in {"app", "running"}
               PROVE  RunsOnlyVerified
    BY DEF RunsOnlyVerified
  <2>1. /\ meta.valid /\ runSlot \in Slots /\ Bootable(runSlot)
        /\ IsConfirmed \/ (pc = "app" /\ IsTrial)
    BY DEF IInv, RunOK
  <2>2. RunningImage \in Sound \cup {Legacy}
    BY <2>1, BootAssumption DEF IInv, MetaOK, InfoOK, Bootable, RunningImage
  <2> QED
    BY <2>1, <2>2
    DEF RunsOnlyVerified, Bootable, RunningImage, Sound, IsConfirmed, IsTrial
<1> QED
  BY <1>1, BootInvariant, PTL

(* A candidate is started at most once. *)
THEOREM BootOneTrial == Spec => []OneTrial
<1>1. IInv => OneTrial
  BY DEF IInv, TrialOK, OneTrial
<1> QED
  BY <1>1, BootInvariant, PTL

(* A resumed session never skips a block that is not there. *)
THEOREM BootResumeSound == Spec => []ResumeSound
<1>1. IInv => ResumeSound
  BY DEF IInv, ResumeOK, ResumeSound, JournalMatches, PrefixOK
<1> QED
  BY <1>1, BootInvariant, PTL

(* The image that waits for its trial is not older than the confirmed one. *)
THEOREM BootNoSilentDowngrade == Spec => []NoSilentDowngrade
<1>1. IInv => NoSilentDowngrade
  BY DEF IInv, MetaOK
<1> QED
  BY <1>1, BootInvariant, PTL

(* Only EraseArea, EraseBlock, ReceiveBlock and PowerLoss change flash, and *)
(* only in the target slot.                                                *)
LEMMA FlashSteps ==
  ASSUME IInv, [Next]_vars
  PROVE  \/ flash' = flash
         \/ /\ pc \notin {"off", "app", "running"}
            /\ \A s \in Slots : s # target => flash'[s] = flash[s]
<1>1. CASE EraseArea \/ EraseBlock
  <2>1. pc \in {"eraseArea", "eraseBlock"}
    BY <1>1 DEF EraseArea, EraseBlock
  <2>2. pc = "eraseBlock" => received \in Blocks
    BY <2>1, BootAssumption DEF IInv, ResumeOK, TypeOK, Blocks
  <2>3. PICK lost \in SUBSET Blocks : LoseBlocks(lost)
    BY <1>1, <2>1, <2>2 DEF EraseArea, EraseBlock
  <2> QED
    BY <2>1, <2>3, LosingBlocks
<1>2. ASSUME NEW content \in Packages \cup {Other}, ReceiveBlock(content)
      PROVE  /\ pc = "receive"
             /\ \A s \in Slots : s # target => flash'[s] = flash[s]
  BY <1>2 DEF ReceiveBlock, IInv, TypeOK
<1>3. CASE PowerLoss
  <2>1. PICK lost \in SUBSET Endangered : LoseBlocks(lost)
    BY <1>3 DEF PowerLoss
  <2>2. /\ lost \in SUBSET Blocks
        /\ pc \in {"off", "app", "running"} => lost = {}
    BY <2>1 DEF Endangered
  <2>3. pc \in {"off", "app", "running"} => flash' = flash
    BY <2>1, <2>2 DEF LoseBlocks, IInv, TypeOK
  <2> QED
    BY <2>1, <2>2, <2>3, LosingBlocks
<1>4. CASE UNCHANGED flash
  BY <1>4
<1>5. \/ EraseArea \/ EraseBlock \/ PowerLoss \/ UNCHANGED flash
      \/ \E content \in Packages \cup {Other} : ReceiveBlock(content)
  BY DEF Next, Bootloader, Application, Bus, vars, stored, PowerUp, Enter,
         WaitTimeout, StartRun, ReceiveManifest, ReceiveTable, SessionFails,
         Prepare, Begin, Truncate, MarkBlock, Verify, Complete, SetCandidate,
         ReportDone, BootEmpty, BootTrial, BootRollback, ReportRollback,
         BootActive, AppConfirm, LegacyConfirm, AppReset, RequestBootloader,
         PeerChanges
<1> QED
  BY <1>1, <1>2, <1>3, <1>4, <1>5

(* No step touches the confirmed slot, or a v1 application that is still   *)
(* to be imported.                                                         *)
THEOREM BootConfirmedSlotUntouched == Spec => ConfirmedSlotUntouched
<1>1. IInv /\ [Next]_vars =>
        [ /\ meta.valid /\ meta.confirmed # NoSlot =>
                flash'[meta.confirmed] = flash[meta.confirmed]
          /\ CanImport => flash'["A"] = flash["A"] ]_vars
  <2> SUFFICES ASSUME IInv, [Next]_vars
               PROVE  /\ meta.valid /\ meta.confirmed # NoSlot =>
                           flash'[meta.confirmed] = flash[meta.confirmed]
                      /\ CanImport => flash'["A"] = flash["A"]
    OBVIOUS
  <2>1. meta.confirmed \in Slots \cup {NoSlot}
    BY DEF IInv, TypeOK, MetaRecords
  <2> QED
    BY <2>1, FlashSteps, TargetIsFree DEF Slots
<1> QED
  BY <1>1, BootInvariant, PTL DEF Spec, ConfirmedSlotUntouched

=============================================================================
