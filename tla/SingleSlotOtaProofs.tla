------------------------ MODULE SingleSlotOtaProofs ------------------------
(***************************************************************************)
(* Proofs about SingleSlotOta: its types, and what one slot, one record    *)
(* and two markers promise when power and flash may fail at every step.    *)
(***************************************************************************)
EXTENDS SingleSlotOta, TLAPS

\* From the manifest on, the session has a package ...
Session == pc \in {"info", "erase", "receive", "verify", "eraseMeta", "writeMeta"}
               => pkg \in Packages

\* ... whose image is in the slot, complete, when the metadata is touched ...
Verified == pc \in {"eraseMeta", "writeMeta"} => app = pkg /\ app \in WellFormed

\* ... and the record is written to a page that is erased as a whole.
Blank == pc = "writeMeta" => record = None /\ trial = "erased" /\ confirmed = "erased"

\* What the bootloader has decided still holds when it acts on it, and when
\* the application reads the page.
Decided ==
    /\ pc = "mark" => CurrentState = "pending" /\ ImageMatches
    /\ pc \in {"jump", "app"} => CurrentState \in {"trial", "confirmed"} /\ ImageMatches
    /\ pc = "running" => ImageMatches

\* A trial is counted only when its marker is in flash; the count restarts
\* with the erase of the marker.
Counted ==
    /\ trials \in {0, 1}
    /\ trial = "erased" => trials = 0
    /\ pc = "jump" /\ CurrentState = "trial" => trials = 0

\* A readable record beside the confirmed marker is that of the package that
\* has set the marker.
Owned == confirmed = "set" /\ Valid => record = good

SlotInv == TypeOK /\ Session /\ Verified /\ Blank /\ Decided /\ Counted /\ Owned

\* The disjuncts of Next in one place, for the case splits below.
LEMMA NextCases ==
    ASSUME Next
    PROVE  \/ WaitTimeout \/ Decide \/ MarkTrial \/ Jump \/ Info \/ EraseApp \/ Receive
           \/ Verify \/ EraseMetadata \/ WriteMetadata \/ Confirm \/ AppResets
           \/ Enter \/ (\E p \in Packages : Manifest(p))
           \/ SessionFails \/ PowerLoss \/ PowerLossErasing \/ RequestBootloader
BY DEF Next, Board, Host, Failure

\* What the three marks say when the record is readable.
LEMMA States ==
    /\ CurrentState = "pending"   <=> Valid /\ confirmed = "erased" /\ trial = "erased"
    /\ CurrentState = "trial"     <=> Valid /\ confirmed = "erased" /\ trial = "set"
    /\ CurrentState = "confirmed" <=> Valid /\ confirmed = "set" /\ trial = "set"
<1>1. CASE Valid /\ confirmed = "set" /\ trial = "set" BY <1>1, Zenon DEF CurrentState
<1>2. CASE Valid /\ confirmed = "erased" /\ trial = "set" BY <1>2, Zenon DEF CurrentState
<1>3. CASE Valid /\ confirmed = "erased" /\ trial = "erased" BY <1>3, Zenon DEF CurrentState
<1>4. CASE /\ ~(Valid /\ confirmed = "set" /\ trial = "set")
           /\ ~(Valid /\ confirmed = "erased" /\ trial = "set")
           /\ ~(Valid /\ confirmed = "erased" /\ trial = "erased")
  BY <1>4, Zenon DEF CurrentState
<1> QED BY <1>1, <1>2, <1>3, <1>4, Zenon

LEMMA Faulty == ASSUME faults \in 0..MaxFaults, Fault PROVE faults' \in 0..MaxFaults
BY SlotAssumption DEF Fault

-----------------------------------------------------------------------------
(* Every step keeps the invariant, part by part *)

LEMMA TypeNext == ASSUME TypeOK, Session, [Next]_slotVars PROVE TypeOK'
<1> USE SlotAssumption DEF TypeOK, page, history, NoFault, Markers
<1>f. Fault => faults' \in 0..MaxFaults BY Faulty
<1>1. CASE UNCHANGED slotVars BY <1>1 DEF slotVars
<1>2. CASE WaitTimeout BY <1>2 DEF WaitTimeout
<1>3. CASE Decide BY <1>3 DEF Decide
<1>4. CASE MarkTrial BY <1>4, <1>f DEF MarkTrial
<1>5. CASE Jump BY <1>5 DEF Jump
<1>6. CASE Info BY <1>6 DEF Info
<1>7. CASE EraseApp BY <1>7, <1>f DEF EraseApp
<1>8. CASE Receive BY <1>8, <1>f DEF Receive, Session
<1>9. CASE Verify BY <1>9 DEF Verify
<1>10. CASE EraseMetadata BY <1>10, <1>f DEF EraseMetadata
<1>11. CASE WriteMetadata BY <1>11, <1>f DEF WriteMetadata, Session
<1>12. CASE Confirm
  <2>1. CurrentState \in {"trial", "confirmed"} BY <1>12 DEF Confirm
  <2>2. record \in Packages BY <2>1, States DEF Valid
  <2> QED BY <1>12, <1>f, <2>2 DEF Confirm
<1>13. CASE AppResets BY <1>13 DEF AppResets
<1>14. CASE Enter BY <1>14 DEF Enter
<1>15. ASSUME NEW p \in Packages, Manifest(p) PROVE TypeOK' BY <1>15 DEF Manifest
<1>16. CASE SessionFails BY <1>16, <1>f DEF SessionFails
<1>17. CASE PowerLoss BY <1>17, <1>f DEF PowerLoss
<1>18. CASE PowerLossErasing BY <1>18, <1>f DEF PowerLossErasing
<1>19. CASE RequestBootloader BY <1>19 DEF RequestBootloader
<1> QED
  BY NextCases, <1>1, <1>2, <1>3, <1>4, <1>5, <1>6, <1>7, <1>8, <1>9, <1>10, <1>11, <1>12,
     <1>13, <1>14, <1>15, <1>16, <1>17, <1>18, <1>19

LEMMA SessionNext == ASSUME Session, [Next]_slotVars PROVE Session'
<1> USE DEF Session
<1>1. CASE UNCHANGED slotVars BY <1>1 DEF slotVars
<1>2. ASSUME NEW p \in Packages, Manifest(p) PROVE Session' BY <1>2 DEF Manifest
<1>3. CASE WaitTimeout \/ Decide \/ MarkTrial \/ Jump \/ Confirm \/ AppResets \/ Enter
           \/ SessionFails \/ PowerLoss \/ PowerLossErasing \/ RequestBootloader
  BY <1>3 DEF WaitTimeout, Decide, MarkTrial, Jump, Confirm, AppResets, Enter, SessionFails,
     PowerLoss, PowerLossErasing, RequestBootloader
<1>4. CASE Info \/ EraseApp \/ Receive \/ Verify \/ EraseMetadata \/ WriteMetadata
  BY <1>4 DEF Info, EraseApp, Receive, Verify, EraseMetadata, WriteMetadata
<1> QED BY NextCases, <1>1, <1>2, <1>3, <1>4

LEMMA VerifiedNext == ASSUME Verified, [Next]_slotVars PROVE Verified'
<1> USE DEF Verified
<1>1. CASE UNCHANGED slotVars BY <1>1 DEF slotVars
<1>2. ASSUME NEW p \in Packages, Manifest(p) PROVE Verified' BY <1>2 DEF Manifest
<1>3. CASE WaitTimeout \/ Decide \/ MarkTrial \/ Jump \/ Confirm \/ AppResets \/ Enter
           \/ SessionFails \/ PowerLoss \/ PowerLossErasing \/ RequestBootloader
           \/ Info \/ EraseApp \/ Receive \/ WriteMetadata
  BY <1>3 DEF WaitTimeout, Decide, MarkTrial, Jump, Confirm, AppResets, Enter, SessionFails,
     PowerLoss, PowerLossErasing, RequestBootloader, Info, EraseApp, Receive, WriteMetadata
<1>4. CASE Verify BY <1>4 DEF Verify
<1>5. CASE EraseMetadata BY <1>5 DEF EraseMetadata
<1> QED BY NextCases, <1>1, <1>2, <1>3, <1>4, <1>5

LEMMA BlankNext == ASSUME Blank, [Next]_slotVars PROVE Blank'
<1> USE DEF Blank
<1>1. CASE UNCHANGED slotVars BY <1>1 DEF slotVars, page
<1>2. ASSUME NEW p \in Packages, Manifest(p) PROVE Blank' BY <1>2 DEF Manifest
<1>3. CASE WaitTimeout \/ Decide \/ MarkTrial \/ Jump \/ Confirm \/ AppResets \/ Enter
           \/ SessionFails \/ PowerLoss \/ PowerLossErasing \/ RequestBootloader
           \/ Info \/ EraseApp \/ Receive \/ Verify \/ WriteMetadata
  BY <1>3 DEF WaitTimeout, Decide, MarkTrial, Jump, Confirm, AppResets, Enter, SessionFails,
     PowerLoss, PowerLossErasing, RequestBootloader, Info, EraseApp, Receive, Verify,
     WriteMetadata
<1>4. CASE EraseMetadata BY <1>4 DEF EraseMetadata
<1> QED BY NextCases, <1>1, <1>2, <1>3, <1>4

\* The conditions of the decision concern the image and the page alone.
LEMMA SameDecision ==
    ASSUME UNCHANGED <<app, page>>
    PROVE  CurrentState' = CurrentState /\ ImageMatches' = ImageMatches
BY DEF page, CurrentState, ImageMatches, Valid

LEMMA DecidedNext == ASSUME Decided, [Next]_slotVars PROVE Decided'
<1> USE DEF Decided
<1>1. CASE UNCHANGED slotVars BY <1>1, SameDecision DEF slotVars
<1>2. CASE Decide BY <1>2, SameDecision DEF Decide
<1>3. CASE MarkTrial
  <2>1. CASE pc' \in {"recovery", "wait"} BY <2>1
  <2>2. CASE pc' = "jump" /\ trial' = "set"
    <3>1. Valid /\ confirmed = "erased" /\ ImageMatches BY <1>3, States DEF MarkTrial
    <3>2. UNCHANGED <<app, record, confirmed>> BY <1>3 DEF MarkTrial
    <3>3. CurrentState' = "trial" BY <2>2, <3>1, <3>2 DEF CurrentState, Valid
    <3>4. ImageMatches' BY <3>1, <3>2 DEF ImageMatches, Valid
    <3> QED BY <2>2, <3>3, <3>4
  <2> QED BY <1>3, <2>1, <2>2 DEF MarkTrial
<1>4. CASE Jump BY <1>4, SameDecision DEF Jump
<1>5. CASE Confirm
  <2>1. ImageMatches' BY <1>5 DEF Confirm, ImageMatches, Valid
  <2>2. pc' \in {"running", "wait"} BY <1>5 DEF Confirm
  <2> QED BY <2>1, <2>2
<1>6. ASSUME NEW p \in Packages, Manifest(p) PROVE Decided' BY <1>6 DEF Manifest
<1>7. CASE WaitTimeout \/ AppResets \/ Enter \/ SessionFails \/ PowerLoss
           \/ PowerLossErasing \/ RequestBootloader \/ Info \/ EraseApp \/ Receive
           \/ Verify \/ EraseMetadata \/ WriteMetadata
  <2>1. pc' \notin {"mark", "jump", "app", "running"}
    BY <1>7 DEF WaitTimeout, AppResets, Enter, SessionFails, PowerLoss, PowerLossErasing,
       RequestBootloader, Info, EraseApp, Receive, Verify, EraseMetadata, WriteMetadata
  <2> QED BY <2>1
<1> QED BY NextCases, <1>1, <1>2, <1>3, <1>4, <1>5, <1>6, <1>7

LEMMA CountedNext == ASSUME Counted, Decided, [Next]_slotVars PROVE Counted'
<1> USE DEF Counted
<1>1. CASE UNCHANGED slotVars BY <1>1, SameDecision DEF slotVars, page, history
<1>2. CASE Decide
  <2>1. UNCHANGED <<app, page, trials>> BY <1>2 DEF Decide, history
  <2>2. pc' = "jump" => CurrentState = "confirmed" BY <1>2 DEF Decide
  <2> QED BY <2>1, <2>2, SameDecision DEF page
<1>3. CASE MarkTrial
  <2>1. trials = 0 BY <1>3, States DEF MarkTrial, Decided
  <2> QED BY <1>3, <2>1 DEF MarkTrial, history
<1>4. CASE Jump
  <2>1. trial = "set" BY <1>4, States DEF Jump, Decided
  <2>2. trial' = "set" /\ pc' = "app" BY <1>4, <2>1 DEF Jump, page
  <2>3. trials' \in {0, 1} BY <1>4 DEF Jump
  <2> QED BY <2>2, <2>3
<1>5. CASE EraseMetadata BY <1>5 DEF EraseMetadata
<1>6. ASSUME NEW p \in Packages, Manifest(p) PROVE Counted'
  BY <1>6 DEF Manifest, page, history
<1>7. CASE WaitTimeout \/ Confirm \/ AppResets \/ Enter \/ SessionFails \/ PowerLoss
           \/ PowerLossErasing \/ RequestBootloader \/ Info \/ EraseApp \/ Receive
           \/ Verify \/ WriteMetadata
  <2>1. pc' # "jump" /\ UNCHANGED <<trial, trials>>
    BY <1>7 DEF WaitTimeout, Confirm, AppResets, Enter, SessionFails, PowerLoss,
       PowerLossErasing, RequestBootloader, Info, EraseApp, Receive, Verify, WriteMetadata,
       page, history
  <2> QED BY <2>1
<1> QED BY NextCases, <1>1, <1>2, <1>3, <1>4, <1>5, <1>6, <1>7

LEMMA OwnedNext == ASSUME SlotInv, [Next]_slotVars PROVE Owned'
<1> USE SlotAssumption DEF Owned, Valid
<1>o. Owned BY DEF SlotInv
<1>1. CASE UNCHANGED slotVars BY <1>1, <1>o DEF slotVars, page, history
<1>2. CASE EraseMetadata BY <1>2, <1>o DEF EraseMetadata
<1>3. CASE WriteMetadata BY <1>3 DEF WriteMetadata, SlotInv, Blank
<1>4. CASE Confirm BY <1>4, <1>o DEF Confirm
<1>5. ASSUME NEW p \in Packages, Manifest(p) PROVE Owned'
  BY <1>5, <1>o DEF Manifest, page, history
<1>6. CASE WaitTimeout \/ Decide \/ MarkTrial \/ Jump \/ AppResets \/ Enter
           \/ SessionFails \/ PowerLoss \/ PowerLossErasing \/ RequestBootloader \/ Info
           \/ EraseApp \/ Receive \/ Verify
  <2>1. UNCHANGED <<record, confirmed, good>>
    BY <1>6 DEF WaitTimeout, Decide, MarkTrial, Jump, AppResets, Enter, SessionFails,
       PowerLoss, PowerLossErasing, RequestBootloader, Info, EraseApp, Receive, Verify,
       page, history
  <2> QED BY <2>1, <1>o
<1> QED BY NextCases, <1>1, <1>2, <1>3, <1>4, <1>5, <1>6

LEMMA SlotInvNext == ASSUME SlotInv, [Next]_slotVars PROVE SlotInv'
BY TypeNext, SessionNext, VerifiedNext, BlankNext, DecidedNext, CountedNext, OwnedNext
   DEF SlotInv

LEMMA SlotInvInit == ASSUME Init PROVE SlotInv
<1>1. TypeOK BY SlotAssumption DEF Init, TypeOK, Markers
<1>2. Session /\ Verified /\ Blank /\ Decided
  BY DEF Init, Session, Verified, Blank, Decided
<1>3. Counted /\ Owned BY DEF Init, Counted, Owned
<1> QED BY <1>1, <1>2, <1>3 DEF SlotInv

LEMMA SlotInvariant == Spec => []SlotInv
<1>1. Init => SlotInv BY SlotInvInit
<1>2. SlotInv /\ [Next]_slotVars => SlotInv' BY SlotInvNext
<1> QED BY <1>1, <1>2, PTL DEF Spec

-----------------------------------------------------------------------------

\* The variables keep their types: no session works on a package that no
\* manifest has named.
THEOREM SlotTypes == Spec => []TypeOK
<1>1. SlotInv => TypeOK BY DEF SlotInv
<1> QED BY <1>1, SlotInvariant, PTL

\* Whatever was interrupted before, what jump_to_app_if_valid starts is the
\* complete, well-formed image of the package in the record.
THEOREM StartedIsVerified == Spec => []RunsOnlyVerified
<1>1. SlotInv => RunsOnlyVerified
  BY DEF SlotInv, Decided, ImageMatches, RunsOnlyVerified
<1> QED BY <1>1, SlotInvariant, PTL

\* Between two erases of the metadata there is at most one trial boot.
THEOREM TriedOnce == Spec => []OneTrial
<1>1. SlotInv => OneTrial BY DEF SlotInv, Counted, OneTrial
<1> QED BY <1>1, SlotInvariant, PTL

\* A record that counts as confirmed is that of the package that has
\* confirmed itself, whatever an interrupted erase has left of the page.
THEOREM ConfirmationNotInherited == Spec => []ConfirmedIsItsOwn
<1>1. SlotInv => ConfirmedIsItsOwn
  BY States, SlotAssumption DEF SlotInv, Owned, Blank, Valid, ConfirmedIsItsOwn
<1> QED BY <1>1, SlotInvariant, PTL
=============================================================================
