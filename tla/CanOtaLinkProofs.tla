--------------------------- MODULE CanOtaLinkProofs ---------------------------
(***************************************************************************)
(* For every depth of the FIFO, every length of manifest, table and page   *)
(* and any number of host runs, lost frames and killed hosts:              *)
(*                                                                         *)
(* - what the host makes the board do is what ABBootloader allows, so that *)
(*   the theorems about the board hold for it on this bus (LinkInv);       *)
(* - host and board never lose step: no frame waits while a board does not *)
(*   read, both count from the same place, whatever is lost never reaches  *)
(*   the flash, and a host's success means a confirmed image (SyncInv).    *)
(***************************************************************************)
EXTENDS CanOtaLink, ABBootloaderProofs, SequenceTheorems, FiniteSetTheorems

Positions == 0 .. (ImageFrames - 1)

(* A frame of the host: an AUTH frame carries a package, and the numbers   *)
(* of a transmission start at the block it is resumed at.                  *)
Frames ==
  {f \in [id : FrameIds, pkg : Packages \cup {Other}, seq : Nat, pos : Positions] :
     /\ f.id = "AUTH" => f.pkg \in Packages
     /\ f.id = "DATA" => f.seq <= f.pos}

(* A frame of the board *)
Answers == {m \in Messages : m.kind = "WRITING" => m.n <= NBlocks}

QueuesOK ==
  /\ fifo \in Seq(Frames) /\ Len(fifo) <= FifoDepth
  /\ inbox \in Seq(Answers)

BoardOK ==
  /\ dseq \in 0 .. (ImageFrames + ManifestFrames + TableFrames)
  /\ pc = "mark" => dseq < ImageFrames
  /\ wbuf \in Seq(Positions)

HostPCs ==
  Idle \cup Waiting \cup
    {"control", "enter", "probe", "auth", "table", "data", "confirm"}

HostOK ==
  /\ hpc \in HostPCs
  /\ hpkg \in Packages \cup {Other}
  /\ hpc \notin Idle => hpkg \in Packages
  /\ hslot \in Slots \cup {NoSlot}
  /\ count \in Nat
  /\ hpos \in 0 .. ImageFrames
  /\ hpc \in {"tableWait", "authWait"} => count = 0
  /\ hpc = "data" => hpos < ImageFrames
  /\ hpc \in {"data", "dataWait"} => count <= hpos
  /\ runs \in 0 .. MaxRuns
  /\ upsets \in 0 .. MaxUpsets /\ losses \in 0 .. MaxLosses

LinkInv == IInv /\ peer = TRUE /\ QueuesOK /\ BoardOK /\ HostOK

-----------------------------------------------------------------------------
LEMMA ImageFramesPositive == ImageFrames \in Nat \ {0}
<1>1. NBlocks \in Nat \ {0} /\ FramesPerBlock \in Nat \ {0}
  BY BootAssumption, LinkAssumption
<1>2. \A m, n \in Nat \ {0} : m * n \in Nat \ {0}
  OBVIOUS
<1> QED
  BY <1>1, <1>2 DEF ImageFrames

(* The head of the FIFO is a frame, and the rest a FIFO. *)
LEMMA FifoHead ==
  ASSUME QueuesOK, fifo # <<>>
  PROVE  /\ Head(fifo) \in Frames
         /\ Tail(fifo) \in Seq(Frames)
         /\ Len(Tail(fifo)) <= FifoDepth
<1>1. /\ Head(fifo) \in Frames /\ Tail(fifo) \in Seq(Frames)
      /\ Len(Tail(fifo)) = Len(fifo) - 1 /\ Len(fifo) \in Nat
  BY HeadTailProperties, LenProperties DEF QueuesOK
<1> QED
  BY <1>1, LinkAssumption DEF QueuesOK

(* Only PeerChanges changes peer. *)
LEMMA PeerKept ==
  ASSUME \/ Bootloader \/ Application \/ SessionFails \/ PowerLoss
         \/ Enter \/ ReceiveTable \/ RequestBootloader \/ UNCHANGED vars
         \/ \E p : ReceiveManifest(p)
         \/ \E c : ReceiveBlock(c)
  PROVE  peer' = peer
BY DEF Bootloader, Application, vars, PowerUp, Enter,
         WaitTimeout, StartRun, ReceiveManifest, ReceiveTable, SessionFails,
         Prepare, Begin, Truncate, MarkBlock, Verify, Complete, SetCandidate,
         ReportDone, BootEmpty, BootTrial, BootRollback, ReportRollback,
         BootActive, AppConfirm, LegacyConfirm, AppReset, RequestBootloader,
         EraseArea, EraseBlock, ReceiveBlock, PowerLoss

(* A page received over CAN is the package's or it is not. *)
LEMMA PageContentType ==
  ASSUME IInv, NEW buffer
  PROVE  PageContent(buffer) \in Packages \cup {Other}
BY DEF IInv, TypeOK, PageContent

(* Every step of host and board is a step of the board, or none of its     *)
(* variables changes.                                                      *)
LEMMA BoardRefines ==
  ASSUME LinkInv, [LinkNext]_linkVars
  PROVE  [Next]_vars /\ peer' = peer
<1> USE DEF LinkInv
<1>1. CASE Silent
  <2>1. Bootloader \/ Application
    BY <1>1 DEF Silent, Bootloader, Application
  <2> QED
    BY <2>1, PeerKept DEF Next
<1>2. CASE PrepareWrite \/ PageDone \/ Finalise
  <2>1. Bootloader
    BY <1>2 DEF PrepareWrite, PageDone, Finalise, Bootloader
  <2> QED
    BY <2>1, PeerKept DEF Next
<1>3. CASE SessionTimeout
  BY <1>3, PeerKept DEF SessionTimeout, Next
<1>4. CASE TakeEnter \/ TakeControl
  BY <1>4, PeerKept DEF TakeEnter, TakeControl, Bus, Next
<1>5. CASE TakeAuth
  <2>1. CASE OutOfSequence("AUTH") \/ Store("AUTH", ManifestFrames, wbuf)
    BY <2>1, PeerKept DEF OutOfSequence, Store, Next
  <2>2. CASE Head(fifo).id = "AUTH" /\ ReceiveManifest(Head(fifo).pkg)
    <3>1. Head(fifo).pkg \in Packages
      BY <1>5, <2>2, FifoHead DEF TakeAuth, Frames
    <3> QED
      BY <2>2, <3>1, PeerKept DEF Bus, Next
  <2> QED
    BY <1>5, <2>1, <2>2 DEF TakeAuth
<1>6. CASE TakeHash
  <2>1. SessionFails \/ UNCHANGED vars \/ ReceiveTable
    BY <1>6 DEF TakeHash, OutOfSequence, Store
  <2> QED
    BY <2>1, PeerKept DEF Bus, Next
<1>7. CASE TakeData
  <2>1. \/ SessionFails \/ UNCHANGED vars
        \/ ReceiveBlock(PageContent(Append(wbuf, Head(fifo).pos)))
    BY <1>7 DEF TakeData, OutOfSequence, Store
  <2> QED
    BY <2>1, PageContentType, PeerKept DEF Bus, Next
<1>8. CASE DropFrame \/ Heartbeat
  BY <1>8, PeerKept DEF DropFrame, Heartbeat
<1>9. CASE StartApp \/ LosePower
  BY <1>9, PeerKept DEF StartApp, LosePower, Application, Next
<1>10. CASE HostStart \/ HostStep \/ ConfirmTimeout \/ HostKilled
  <2>1. UNCHANGED vars
    BY <1>10
    DEF HostStart, HostStep, ConfirmTimeout, HostKilled, HostEnds, SendControl,
        SendEnter, EnterFails, ProbeTimeout, SendManifest, SendTable, SendData,
        ReadProbe, ReadStatus, SkipHeartbeat, StatusTimeout, ReadConfirmation
  <2> QED
    BY <2>1, PeerKept
<1>11. CASE UNCHANGED linkVars
  BY <1>11 DEF linkVars, vars
<1> QED
  BY <1>1, <1>2, <1>3, <1>4, <1>5, <1>6, <1>7, <1>8, <1>9, <1>10, <1>11
  DEF LinkNext, BoardStep

-----------------------------------------------------------------------------
(* What the board sends is a sequence of answers. *)

LEMMA HeardOK ==
  ASSUME QueuesOK, NEW messages \in Seq(Answers), Heard(messages)
  PROVE  inbox' \in Seq(Answers)
<1>1. <<>> \in Seq(Answers) /\ inbox \o messages \in Seq(Answers)
  BY EmptySeq, ConcatProperties DEF QueuesOK
<1> QED
  BY <1>1 DEF Heard, QueuesOK

LEMMA ReportOK ==
  ASSUME QueuesOK, IInv', NEW statuses \in Seq(Statuses), Report(statuses)
  PROVE  inbox' \in Seq(Answers)
<1> DEFINE messages == [i \in 1 .. Len(statuses) |-> Status(statuses[i])]
<1>1. Len(statuses) \in Nat /\ \A i \in 1 .. Len(statuses) : statuses[i] \in Statuses
  BY LenProperties
<1>2. ASSUME NEW s \in Statuses
      PROVE  Status(s) \in Answers
  <2>1. target' \in Slots /\ received' \in 0 .. NBlocks
    BY DEF IInv, TypeOK
  <2>2. NBlocks \in Nat
    BY BootAssumption
  <2> QED
    BY <2>1, <2>2 DEF Status, Answers, Messages
<1>3. messages \in Seq(Answers)
  BY <1>1, <1>2
<1> QED
  BY <1>3, HeardOK DEF Report

LEMMA StatusSeqs ==
  /\ <<>> \in Seq(Statuses)
  /\ \A s \in Statuses : <<s>> \in Seq(Statuses)
  /\ \A s, t \in Seq(Statuses) : s \o t \in Seq(Statuses)
  /\ \A s \in Seq(Statuses) : ErrorOr(s) \in Seq(Statuses)
<1>1. \A s \in Statuses : <<s>> \in Seq(Statuses)
  OBVIOUS
<1>2. "ERROR" \in Statuses
  BY DEF Statuses
<1> QED
  BY <1>1, <1>2, EmptySeq, ConcatProperties DEF ErrorOr

(* What a step without a frame leaves. *)
LEMMA NoFrameOK ==
  ASSUME QueuesOK, BoardOK, NoFrame, pc' # "mark", inbox' \in Seq(Answers)
  PROVE  QueuesOK' /\ BoardOK'
<1>1. ImageFrames \in Nat \ {0} /\ ManifestFrames \in Nat /\ TableFrames \in Nat
      /\ FifoDepth \in Nat
  BY ImageFramesPositive, LinkAssumption
<1>2. fifo' \in Seq(Frames) /\ Len(fifo') <= FifoDepth
  BY <1>1, EmptySeq DEF NoFrame, QueuesOK
<1>3. wbuf' \in Seq(Positions)
  BY EmptySeq DEF NoFrame, BoardOK
<1>4. dseq' \in 0 .. (ImageFrames + ManifestFrames + TableFrames)
  BY <1>1 DEF NoFrame, BoardOK
<1> QED
  BY <1>2, <1>3, <1>4 DEF QueuesOK, BoardOK

(* What a step that takes a frame leaves. *)
LEMMA TookOK ==
  ASSUME QueuesOK, BoardOK, fifo # <<>>, inbox' \in Seq(Answers),
         NEW seq, NEW buffer \in Seq(Positions), Took(seq, buffer),
         seq \in 0 .. (ImageFrames + ManifestFrames + TableFrames),
         pc' = "mark" => seq < ImageFrames
  PROVE  QueuesOK' /\ BoardOK'
BY FifoHead DEF Took, QueuesOK, BoardOK

(* The board's steps keep the types of queues and buffers. *)
LEMMA BoardStepOK ==
  ASSUME LinkInv, IInv', BoardStep \/ Heartbeat \/ LosePower
  PROVE  QueuesOK' /\ BoardOK'
<1> USE DEF LinkInv
<1> DEFINE max == ImageFrames + ManifestFrames + TableFrames
<1>0. /\ ImageFrames \in Nat \ {0} /\ ManifestFrames \in Nat \ {0}
      /\ TableFrames \in Nat \ {0} /\ max \in Nat /\ 0 \in 0 .. max
      /\ <<>> \in Seq(Positions)
  BY ImageFramesPositive, LinkAssumption, EmptySeq
<1>1. CASE Silent
  <2>1. pc' # "mark"
    BY <1>1
    DEF Silent, PowerUp, WaitTimeout, StartRun, BootEmpty, BootTrial,
        BootRollback, BootActive, AppReset, DecideToRun, WriteMeta
  <2> QED
    BY <1>1, <2>1, NoFrameOK DEF Silent, NoReport, QueuesOK
<1>2. CASE PrepareWrite
  <2>1. pc' # "mark"
    BY <1>2
    DEF PrepareWrite, Prepare, EraseArea, Begin, Truncate, EraseBlock,
        WriteJournal
  <2>2. inbox' \in Seq(Answers)
    BY <1>2, ReportOK, StatusSeqs DEF PrepareWrite, Statuses
  <2> QED
    BY <1>0, <1>2, <2>1, <2>2 DEF PrepareWrite, QueuesOK, BoardOK
<1>3. CASE PageDone
  <2>1. pc = "mark" /\ pc' # "mark"
    BY <1>3 DEF PageDone, MarkBlock, WriteJournal
  <2>2. inbox' \in Seq(Answers)
    BY <1>3, ReportOK, StatusSeqs DEF PageDone, Statuses
  <2>3. dseq' \in 0 .. max
    BY <1>0, <1>3, <2>1 DEF PageDone, BoardOK
  <2> QED
    BY <1>3, <2>1, <2>2, <2>3 DEF PageDone, QueuesOK, BoardOK
<1>4. CASE Finalise \/ SessionTimeout
  <2>1. pc' # "mark"
    BY <1>4
    DEF Finalise, Verify, Complete, SetCandidate, ReportDone, ReportRollback,
        WriteMeta, WriteJournal, SessionTimeout, SessionFails
  <2>2. inbox' \in Seq(Answers)
    BY <1>4, ReportOK, StatusSeqs DEF Finalise, SessionTimeout, Statuses
  <2> QED
    BY <1>4, <2>1, <2>2, NoFrameOK DEF Finalise, SessionTimeout
<1>5. CASE TakeEnter
  <2>1. pc' # "mark"
    BY <1>5 DEF TakeEnter, Enter
  <2>2. inbox' \in Seq(Answers)
    BY <1>5, ReportOK, StatusSeqs DEF TakeEnter, Statuses
  <2> QED
    BY <1>0, <1>5, <2>1, <2>2, TookOK DEF TakeEnter
<1>6. CASE TakeAuth
  <2>1. pc = "auth" /\ pc' # "mark"
    BY <1>6
    DEF TakeAuth, OutOfSequence, Store, SessionFails, ReceiveManifest, vars
  <2>2. inbox' \in Seq(Answers)
    BY <1>6, ReportOK, StatusSeqs
    DEF TakeAuth, OutOfSequence, NoReport, Statuses, QueuesOK
  <2>3. PICK seq \in 0 .. max : Took(seq, <<>>) \/ Took(seq, wbuf)
    BY <1>0, <1>6 DEF TakeAuth, OutOfSequence, Store, BoardOK
  <2> QED
    BY <1>0, <1>6, <2>1, <2>2, <2>3, TookOK DEF TakeAuth, BoardOK
<1>7. CASE TakeHash
  <2>1. pc = "table" /\ pc' # "mark"
    BY <1>7
    DEF TakeHash, OutOfSequence, Store, SessionFails, ReceiveTable, vars
  <2>2. inbox' \in Seq(Answers)
    BY <1>7, ReportOK, StatusSeqs
    DEF TakeHash, OutOfSequence, NoReport, Statuses, QueuesOK
  <2>3. PICK seq \in 0 .. max : Took(seq, <<>>) \/ Took(seq, wbuf)
    BY <1>0, <1>7 DEF TakeHash, OutOfSequence, Store, BoardOK
  <2> QED
    BY <1>0, <1>7, <2>1, <2>2, <2>3, TookOK DEF TakeHash, BoardOK
<1>8. CASE TakeData
  <2> DEFINE buffer == Append(wbuf, Head(fifo).pos)
  <2>1. /\ fifo # <<>> /\ pc = "receive"
        /\ Head(fifo) \in Frames
    BY <1>8, FifoHead DEF TakeData
  <2>2. buffer \in Seq(Positions)
    BY <2>1, AppendProperties DEF Frames, BoardOK
  <2>3. inbox' \in Seq(Answers)
    <3>1. /\ <<"ERROR">> \in Seq(Statuses) /\ <<"WRITING">> \in Seq(Statuses)
          /\ <<>> \in Seq(Statuses)
      BY StatusSeqs DEF Statuses
    <3>2. PICK s \in Seq(Statuses) : Report(s)
      BY <1>8, <3>1, StatusSeqs DEF TakeData, OutOfSequence
    <3> QED
      BY <3>2, ReportOK
  <2>4. CASE OutOfSequence("DATA")
    <3>1. pc' # "mark"
      BY <2>4 DEF OutOfSequence, SessionFails
    <3> QED
      BY <1>0, <2>1, <2>3, <2>4, <3>1, TookOK DEF OutOfSequence
  <2>5. CASE Store("DATA", ImageFrames, buffer)
    <3>1. pc' # "mark"
      BY <2>1, <2>5 DEF Store, vars
    <3>2. dseq + 1 \in 0 .. max
      BY <1>0, <2>5 DEF Store, BoardOK
    <3> QED
      BY <2>1, <2>2, <2>3, <2>5, <3>1, <3>2, TookOK DEF Store
  <2>6. CASE /\ Head(fifo).id = "DATA" /\ InSequence(Head(fifo))
             /\ Took(IF pc' = "mark" THEN dseq ELSE 0, <<>>)
    <3>1. dseq < ImageFrames
      BY <1>0, <2>1, <2>6 DEF InSequence, Frames, Positions
    <3>2. dseq \in 0 .. max
      BY DEF BoardOK
    <3> QED
      BY <1>0, <2>1, <2>3, <2>6, <3>1, <3>2, TookOK
  <2> QED
    BY <1>8, <2>4, <2>5, <2>6 DEF TakeData
<1>9. CASE TakeControl
  BY <1>0, <1>9, LinkAssumption, EmptySeq
  DEF TakeControl, RequestBootloader, NoReport, QueuesOK, BoardOK
<1>10. CASE DropFrame
  BY <1>10, TookOK DEF DropFrame, Polling, vars, NoReport, QueuesOK, BoardOK
<1>11. ASSUME pc \in {"app", "running"}
       PROVE  <<Beat>> \in Seq(Answers)
  <2>1. runSlot \in Slots /\ RunningImage \in Contents
    BY <1>11 DEF IInv, RunOK, TypeOK, MetaRecords, RunningImage
  <2>2. VersionOf(RunningImage) \in Nat
    BY <2>1, BootAssumption DEF VersionOf
  <2> QED
    BY <2>1, <2>2 DEF Beat, Answers, Messages
<1>12. CASE StartApp
  <2>1. pc = "app" /\ pc' \in {"running", "off"}
    BY <1>12 DEF StartApp, AppConfirm, WriteMeta
  <2>2. inbox' \in Seq(Answers)
    BY <1>11, <1>12, <2>1, HeardOK DEF StartApp, NoReport, QueuesOK
  <2> QED
    BY <1>12, <2>1, <2>2, NoFrameOK DEF StartApp
<1>13. CASE Heartbeat
  BY <1>11, <1>13, HeardOK DEF Heartbeat, board, vars, QueuesOK, BoardOK
<1>14. CASE LosePower
  BY <1>14, NoFrameOK DEF LosePower, PowerLoss, NoReport, QueuesOK
<1> QED
  BY <1>1, <1>2, <1>3, <1>4, <1>5, <1>6, <1>7, <1>8, <1>9, <1>10, <1>12, <1>13,
     <1>14
  DEF BoardStep

-----------------------------------------------------------------------------
(* The host's steps keep the types, and what is known of its numbers. *)

LEMMA DeliverOK ==
  ASSUME QueuesOK, HostOK, NEW f \in Frames, Deliver(f), UNCHANGED inbox
  PROVE  QueuesOK' /\ upsets' \in 0 .. MaxUpsets /\ losses' \in 0 .. MaxLosses
<1>1. FifoDepth \in Nat \ {0} /\ MaxUpsets \in Nat /\ MaxLosses \in Nat
  BY LinkAssumption
<1>2. upsets' \in 0 .. MaxUpsets /\ losses' \in 0 .. MaxLosses
  BY <1>1 DEF Deliver, spent, HostOK
<1> SUFFICES QueuesOK'
  BY <1>2
<1>3. CASE fifo' = Append(fifo, f) /\ Len(fifo) < FifoDepth
  BY <1>1, <1>3, AppendProperties DEF QueuesOK
<1>4. CASE fifo' = [fifo EXCEPT ![FifoDepth] = f] /\ ~(Len(fifo) < FifoDepth)
  <2>1. Len(fifo) = FifoDepth
    BY <1>1, <1>4, LenProperties DEF QueuesOK
  <2>2. FifoDepth \in 1 .. Len(fifo)
    BY <1>1, <2>1
  <2> QED
    BY <1>4, <2>1, <2>2, ExceptSeq DEF QueuesOK
<1>5. CASE fifo' = fifo
  BY <1>5 DEF QueuesOK
<1> QED
  BY <1>3, <1>4, <1>5 DEF Deliver

(* The head of the socket queue is an answer, and the rest a queue. *)
LEMMA InboxHead ==
  ASSUME QueuesOK, inbox # <<>>
  PROVE  Head(inbox) \in Answers /\ Tail(inbox) \in Seq(Answers)
BY HeadTailProperties DEF QueuesOK

LEMMA HostEndsOK ==
  ASSUME QueuesOK, HostOK, NEW outcome \in {"success", "failed"},
         HostEnds(outcome)
  PROVE  QueuesOK' /\ HostOK'
<1>1. 0 \in 0 .. ImageFrames
  BY ImageFramesPositive
<1> QED
  BY <1>1, EmptySeq
  DEF HostEnds, spent, QueuesOK, HostOK, HostPCs, Idle, Waiting, board

(* The resume offset of a WRITING status lies in the image. *)
LEMMA ResumeInImage ==
  ASSUME NEW m \in Answers, m.kind = "WRITING"
  PROVE  ResumeAt(m) \in 0 .. ImageFrames
<1>1. NBlocks \in Nat /\ FramesPerBlock \in Nat /\ m.n \in Nat /\ m.n <= NBlocks
  BY BootAssumption, LinkAssumption DEF Answers, Messages
<1>2. \A i, j, k \in Nat : i <= j => i * k \in Nat /\ i * k <= j * k
  OBVIOUS
<1> QED
  BY <1>1, <1>2 DEF ResumeAt, ImageFrames

LEMMA HostStepOK ==
  ASSUME LinkInv, HostStart \/ HostStep \/ ConfirmTimeout \/ HostKilled
  PROVE  QueuesOK' /\ BoardOK' /\ HostOK'
<1> USE DEF LinkInv, spent
<1>0. /\ ImageFrames \in Nat \ {0} /\ 0 \in Positions
      /\ ManifestFrames \in Nat \ {0} /\ TableFrames \in Nat \ {0}
      /\ MaxRuns \in Nat /\ MaxUpsets \in Nat /\ MaxLosses \in Nat
  BY ImageFramesPositive, LinkAssumption DEF Positions
<1>1. BoardOK'
  <2>1. pc' = pc /\ dseq' = dseq /\ wbuf' = wbuf
    BY DEF HostStart, HostStep, ConfirmTimeout, HostKilled, HostEnds, SendControl,
         SendEnter, EnterFails, ProbeTimeout, SendManifest, SendTable, SendData,
         ReadProbe, ReadStatus, SkipHeartbeat, StatusTimeout, ReadConfirmation,
         vars, board
  <2> QED
    BY <2>1 DEF BoardOK
<1> SUFFICES QueuesOK' /\ HostOK'
  BY <1>1
<1>2. CASE HostStart
  BY <1>0, <1>2 DEF HostStart, QueuesOK, HostOK, HostPCs, Idle, Waiting, board
<1>3. CASE SendControl
  <2>1. Frame("CONTROL", Other, 0, 0) \in Frames
    BY <1>0 DEF Frame, Frames, FrameIds
  <2> QED
    BY <1>3, <2>1, DeliverOK
    DEF SendControl, HostOK, HostPCs, Idle, Waiting
<1>4. CASE SendEnter
  <2>1. Frame("ENTER", Other, 0, 0) \in Frames
    BY <1>0 DEF Frame, Frames, FrameIds
  <2> QED
    BY <1>4, <2>1, DeliverOK
    DEF SendEnter, HostOK, HostPCs, Idle, Waiting
<1>5. CASE EnterFails \/ StatusTimeout \/ ConfirmTimeout
  BY <1>5, HostEndsOK DEF EnterFails, StatusTimeout, ConfirmTimeout
<1>6. CASE ProbeTimeout
  BY <1>6 DEF ProbeTimeout, QueuesOK, HostOK, HostPCs, Idle, Waiting, board
<1>7. CASE SendManifest
  <2>1. Frame("AUTH", hpkg, count, 0) \in Frames
    BY <1>0, <1>7 DEF SendManifest, HostOK, Idle, Frame, Frames, FrameIds
  <2>2. count' \in Nat /\ hpc' \in {"auth", "authWait"}
        /\ hpc' = "authWait" => count' = 0
    BY <1>0, <1>7 DEF SendManifest, HostOK
  <2> QED
    BY <1>7, <2>1, <2>2, DeliverOK
    DEF SendManifest, HostOK, HostPCs, Idle, Waiting
<1>8. CASE SendTable
  <2>1. Frame("HASH", hpkg, count, 0) \in Frames
    BY <1>0, <1>8 DEF SendTable, HostOK, Idle, Frame, Frames, FrameIds
  <2>2. count' \in Nat /\ hpc' \in {"table", "tableWait"}
        /\ hpc' = "tableWait" => count' = 0
    BY <1>0, <1>8 DEF SendTable, HostOK
  <2> QED
    BY <1>8, <2>1, <2>2, DeliverOK
    DEF SendTable, HostOK, HostPCs, Idle, Waiting
<1>9. CASE SendData
  <2>1. /\ hpc = "data" /\ hpos \in Positions /\ count \in Nat /\ count <= hpos
        /\ hpkg \in Packages
    BY <1>0, <1>9 DEF SendData, HostOK, Idle, Positions
  <2>2. Frame("DATA", hpkg, count, hpos) \in Frames
    BY <2>1 DEF Frame, Frames, FrameIds
  <2>3. /\ count' \in Nat /\ hpos' \in 0 .. ImageFrames /\ count' <= hpos'
        /\ hpc' \in {"data", "dataWait"}
        /\ hpc' = "data" => hpos' < ImageFrames
    BY <1>0, <1>9, <2>1 DEF SendData, WaitHere, Positions
  <2> QED
    BY <1>9, <2>1, <2>2, <2>3, DeliverOK
    DEF SendData, HostOK, HostPCs, Idle, Waiting
<1>10. CASE ReadProbe
  <2>1. Head(inbox) \in Answers /\ Tail(inbox) \in Seq(Answers)
    BY <1>10, InboxHead DEF ReadProbe
  <2>2. hslot' \in Slots \cup {NoSlot} /\ count' \in Nat /\ hpc' \in {"auth", "enter"}
    BY <1>10, <2>1 DEF ReadProbe, HostOK, Answers, Messages
  <2> QED
    BY <1>10, <2>1, <2>2
    DEF ReadProbe, QueuesOK, HostOK, HostPCs, Idle, Waiting, board
<1>11. CASE ReadStatus
  <2>1. /\ hpc \in Waiting /\ hpkg \in Packages
        /\ Head(inbox) \in Answers /\ Tail(inbox) \in Seq(Answers)
    BY <1>11, InboxHead DEF ReadStatus, HostOK, Waiting, Idle
  <2>2. CASE HostEnds("failed")
    BY <2>2, HostEndsOK
  <2>3. CASE /\ inbox' = Tail(inbox)
             /\ UNCHANGED <<vars, board, host, spent>>
    BY <2>1, <2>3 DEF QueuesOK, HostOK, board, host
  <2>4. CASE /\ Head(inbox).kind \in Accepted[hpc]
             /\ Accept(Head(inbox))
             /\ inbox' = Tail(inbox)
             /\ UNCHANGED <<vars, board, hpkg, hslot, runs, spent>>
    <3>1. QueuesOK'
      BY <2>1, <2>4 DEF QueuesOK, board
    <3>2. CASE hpc = "authWait"
      BY <2>1, <2>4, <3>1, <3>2
      DEF Accept, HostOK, HostPCs, Idle, Waiting
    <3>3. CASE hpc = "tableWait"
      <4>1. Head(inbox).kind = "WRITING"
        BY <2>4, <3>3 DEF Accepted
      <4>2. ResumeAt(Head(inbox)) \in 0 .. ImageFrames
        BY <2>1, <4>1, ResumeInImage
      <4>3. /\ count' = 0 /\ hpos' \in 0 .. ImageFrames
            /\ hpc' \in {"data", "doneWait"}
            /\ hpc' = "data" => hpos' < ImageFrames
        BY <2>4, <3>3, <4>2 DEF Accept, Transmit, HostOK
      <4> QED
        BY <1>0, <2>1, <2>4, <3>1, <4>3
        DEF HostOK, HostPCs, Idle, Waiting
    <3>4. CASE hpc = "dataWait"
      <4>1. /\ count' = count /\ hpos' = hpos
            /\ hpc' \in {"data", "doneWait"}
            /\ hpc' = "data" => hpos' < ImageFrames
        BY <2>4, <3>4 DEF Accept, Transmit
      <4> QED
        BY <2>1, <2>4, <3>1, <3>4, <4>1
        DEF HostOK, HostPCs, Idle, Waiting
    <3>5. CASE hpc = "doneWait"
      BY <2>1, <2>4, <3>1, <3>5
      DEF Accept, HostOK, HostPCs, Idle, Waiting
    <3> QED
      BY <2>1, <3>2, <3>3, <3>4, <3>5 DEF Waiting
  <2> QED
    BY <1>11, <2>2, <2>3, <2>4 DEF ReadStatus
<1>12. CASE SkipHeartbeat
  BY <1>12, InboxHead DEF SkipHeartbeat, QueuesOK, HostOK, board, host
<1>13. CASE ReadConfirmation
  <2>1. CASE HostEnds("success")
    BY <2>1, HostEndsOK
  <2>2. CASE inbox' = Tail(inbox) /\ UNCHANGED <<vars, board, host, spent>>
    BY <1>13, <2>2, InboxHead
    DEF ReadConfirmation, QueuesOK, HostOK, board, host
  <2> QED
    BY <1>13, <2>1, <2>2 DEF ReadConfirmation
<1>14. CASE HostKilled
  BY <1>0, <1>14, EmptySeq
  DEF HostKilled, QueuesOK, HostOK, HostPCs, Idle, Waiting, board
<1> QED
  BY <1>2, <1>3, <1>4, <1>5, <1>6, <1>7, <1>8, <1>9, <1>10, <1>11, <1>12, <1>13,
     <1>14
  DEF HostStep

-----------------------------------------------------------------------------
LEMMA LinkInitInv == LinkInit => LinkInv
<1> SUFFICES ASSUME LinkInit PROVE LinkInv
  OBVIOUS
<1>1. IInv /\ peer = TRUE
  BY InitIInv DEF LinkInit, Init
<1>2. /\ ImageFrames \in Nat \ {0} /\ ManifestFrames \in Nat /\ TableFrames \in Nat
      /\ FifoDepth \in Nat /\ MaxRuns \in Nat /\ MaxUpsets \in Nat /\ MaxLosses \in Nat
  BY ImageFramesPositive, LinkAssumption
<1> QED
  BY <1>1, <1>2, EmptySeq
  DEF LinkInit, LinkInv, QueuesOK, BoardOK, HostOK, HostPCs, Idle, Waiting, Init

LEMMA LinkNextInv == LinkInv /\ [LinkNext]_linkVars => LinkInv'
<1> SUFFICES ASSUME LinkInv, [LinkNext]_linkVars PROVE LinkInv'
  OBVIOUS
<1> USE DEF spent
<1>1. IInv' /\ peer' = TRUE
  BY BoardRefines, NextIInv DEF LinkInv
<1>2. CASE BoardStep \/ Heartbeat \/ LosePower
  <2>1. HostOK'
    BY <1>2 DEF BoardStep, Heartbeat, LosePower, host, LinkInv, HostOK
  <2> QED
    BY <1>1, <1>2, <2>1, BoardStepOK DEF LinkInv
<1>3. CASE HostStart \/ HostStep \/ ConfirmTimeout \/ HostKilled
  BY <1>1, <1>3, HostStepOK DEF LinkInv
<1>4. CASE UNCHANGED linkVars
  BY <1>1, <1>4
  DEF linkVars, vars, board, host, LinkInv, QueuesOK, BoardOK, HostOK
<1> QED
  BY <1>2, <1>3, <1>4 DEF LinkNext

(* The types of host, board, FIFO and socket queue. *)
THEOREM LinkTypeCorrect == LinkSpec => []LinkTypeOK
<1>1. LinkInv => LinkTypeOK
  <2> SUFFICES ASSUME LinkInv PROVE LinkTypeOK
    OBVIOUS
  <2>1. \A i \in DOMAIN fifo : fifo[i] \in Frames
    BY LenProperties, ElementOfSeq DEF LinkInv, QueuesOK
  <2>2. \A i \in DOMAIN wbuf : wbuf[i] \in Positions
    BY LenProperties, ElementOfSeq DEF LinkInv, BoardOK
  <2>3. \A i \in DOMAIN inbox : inbox[i] \in Messages
    BY LenProperties, ElementOfSeq DEF LinkInv, QueuesOK, Answers
  <2> QED
    BY <2>1, <2>2, <2>3
    DEF LinkInv, QueuesOK, BoardOK, HostOK, HostPCs, LinkTypeOK, Frames,
        Positions
<1> QED
  BY <1>1, LinkInitInv, LinkNextInv, PTL DEF LinkSpec

(* Whatever hosts send, lose and leave unfinished, the board takes only    *)
(* steps of ABBootloader.                                                  *)
THEOREM LinkImplementsBoard == LinkSpec => ImplementsBoard
<1>1. LinkInit => Init
  BY DEF LinkInit
<1>2. LinkInv /\ [LinkNext]_linkVars => [Next]_vars
  BY BoardRefines
<1> QED
  BY <1>1, <1>2, LinkInitInv, LinkNextInv, PTL
  DEF LinkSpec, ImplementsBoard, Spec

(* On this bus too, there is always a complete confirmed image to go back  *)
(* to, and no step touches it.                                             *)
THEOREM LinkConfirmedKept ==
  LinkSpec => []ConfirmedBootable /\ ConfirmedSlotUntouched
BY LinkImplementsBoard, BootConfirmedBootable, BootConfirmedSlotUntouched
DEF ImplementsBoard

-----------------------------------------------------------------------------
(* The session and its host.  The board is in a session from the READY that *)
(* opens it, and the host has its part in it from when it reads that READY. *)
SessionIds == {"AUTH", "HASH", "DATA"}
Preparing == {"prepare", "eraseArea", "begin", "truncate", "eraseBlock"}
Final == {"complete", "candidate", "done"}
Joined ==
  {"run", "auth", "table", "receive", "mark"} \cup Preparing \cup Final
Early == {"control", "enter", "probe"}
Imaging == {"data", "dataWait", "doneWait"}
Sharing == {"auth", "authWait", "table", "tableWait"} \cup Imaging
Engaged == Sharing \cup {"confirm"}

(* No frame of a session, no ENTER in the FIFO; the board reads frames of a *)
(* session. *)
Quiet == \A i \in 1 .. Len(fifo) : fifo[i].id \notin SessionIds
NoEnter == \A i \in 1 .. Len(fifo) : fifo[i].id # "ENTER"
Listening == pc \in {"auth", "table"} \/ (pc = "receive" /\ BlockExpected)

(* A host that reads the READY of a session which a power loss has ended    *)
(* may have sent another ENTER.                                             *)
Again ==
  /\ pc = "wait" /\ hpc = "auth" /\ count = 0
  /\ hslot = UpdateSlot(meta)
  /\ \A i \in 1 .. Len(inbox) : inbox[i].kind = "READY"

(* The FIFO: frames of a session come before the ENTER of a later one; a    *)
(* board in a session holds at most one, and none while it does not read;   *)
(* a host in its part of a session has no ENTER under way that could start  *)
(* another.                                                                 *)
InOrder ==
  \A i, j \in 1 .. Len(fifo) :
    i < j /\ fifo[i].id = "ENTER" => fifo[j].id \notin SessionIds
FifoOK ==
  /\ pc = "off" => fifo = <<>>
  /\ InOrder
  /\ pc \in Joined => Quiet \/ (Listening /\ Len(fifo) = 1)
  /\ pc \in Joined /\ hpc \in Early => Quiet
  /\ hpc \in Engaged /\ pc \notin {"run", "auth"} => NoEnter \/ Again

(* A READY not yet read is from the session that is open, or from one that  *)
(* a power loss ended, and names the slot of both.                          *)
ReadyOK ==
  /\ hpc \in Idle => inbox = <<>>
  /\ hpc \in Early =>
       \A i \in 1 .. Len(inbox) : inbox[i].kind = "READY" =>
          /\ pc \in {"off", "wait", "run", "auth"}
          /\ pc = "auth" => dseq = 0
          /\ inbox[i].slot = UpdateSlot(meta)
          /\ \A j \in 1 .. Len(inbox) : i < j => inbox[j].kind = "READY"

(* Where the board can be while the host is in its part of the session, and *)
(* that both mean the same slot and package.                                *)
PhaseOK ==
  /\ pc = "run" => dseq = 0
  /\ hpc = "auth" => count < ManifestFrames
  /\ hpc = "table" => count < TableFrames
  /\ pc = "table" /\ hpc = "authWait" => dseq = 0
  /\ pc \in Joined =>
       /\ hpc = "auth" => pc \in {"run", "auth"} /\ (pc = "run" => count = 0)
       /\ hpc \in {"authWait", "table"} => pc \in {"auth", "table"}
       /\ hpc = "tableWait" => pc \notin {"run", "mark"}
       /\ hpc = "data" => pc = "receive" /\ BlockExpected
       /\ hpc \in Imaging => pc \in {"receive", "mark"} \cup Final
       /\ hpc = "dataWait" /\ pc \in Final => hpos = ImageFrames
       /\ hpc # "confirm"
SameSession ==
  pc \in Joined /\ hpc \in Sharing =>
    /\ hslot = target
    /\ pc \notin {"run", "auth", "done"} => pkg = hpkg

(* The answers still to be read: a status opens the transmission, and then  *)
(* there is at most one, for the last frame sent.                           *)
AnswersOK ==
  /\ pc \in Joined /\ hpc \in Sharing =>
       \A i \in 1 .. Len(inbox) : inbox[i].kind \notin {"HEARTBEAT", "DONE"}
  /\ pc \in Joined /\ hpc \in Sharing \ Imaging =>
       \A i \in 1 .. Len(inbox) : inbox[i].kind = "WRITING" =>
         \/ /\ pc = "receive" /\ inbox[i].n = received
            /\ dseq = 0 /\ wbuf = <<>> /\ i = Len(inbox)
         \/ pc \in Final /\ inbox[i].n = NBlocks
  /\ hpc \in {"tableWait", "doneWait"} /\ pc = "receive" => Quiet
  /\ hpc = "data" /\ pc = "receive" => Len(inbox) = 0
  /\ hpc = "dataWait" /\ pc = "receive" =>
       Len(inbox) = 0 \/ (Len(inbox) = 1 /\ Quiet)
  /\ hpc = "dataWait" /\ pc = "mark" =>
       Len(inbox) = 0 \/ (Len(inbox) = 1 /\ LastInPage)

(* The page buffer, and the place in the image up to which the board has    *)
(* taken frames, and how many.                                              *)
Start == received * FramesPerBlock
BufferOK ==
  /\ pc # "receive" => wbuf = <<>>
  /\ pc = "receive" =>
       Len(wbuf) < FramesPerBlock /\ (~BlockExpected => wbuf = <<>>)
  /\ \A i \in 1 .. Len(wbuf) : wbuf[i] = Start + i - 1
Place == Start + (IF pc = "mark" THEN FramesPerBlock ELSE Len(wbuf))
Taken == IF pc = "mark" THEN dseq + 1 ELSE dseq

(* Host and board count from the same place, the host ahead of the board.   *)
PlaceOK ==
  pc \in {"receive", "mark"} /\ hpc \in Imaging =>
    /\ hpos + Taken = count + Place
    /\ hpos >= Place
    /\ ~Quiet => hpos > Place

(* The frame of the session in the FIFO is the last one its host has sent.  *)
FrameOK ==
  ~Quiet =>
    /\ pc = "auth" /\ hpc \in {"auth", "authWait", "table", "tableWait"} =>
         /\ fifo[1].id = "AUTH" =>
              /\ fifo[1].pkg = hpkg
              /\ fifo[1].seq + 1 = IF hpc = "auth" THEN count ELSE ManifestFrames
         /\ hpc \in {"auth", "authWait"} => fifo[1].id = "AUTH"
    /\ pc = "table" => hpc # "authWait"
    /\ pc = "table" /\ hpc = "table" => fifo[1].id = "HASH" /\ fifo[1].seq + 1 = count
    /\ pc = "receive" => fifo[1].id = "DATA" /\ fifo[1].pos + dseq = fifo[1].seq + Place
    /\ pc = "receive" /\ hpc \in Imaging =>
         /\ fifo[1].seq + 1 = count /\ fifo[1].pos + 1 = hpos
         /\ hpc = "data" => ~WaitHere(fifo[1].seq, hpos)

(* On a bus that has lost no frame nothing but the FIFO is between them.    *)
Underway == IF Quiet THEN 0 ELSE 1
LosslessOK ==
  losses = 0 =>
    /\ hpc = "auth" /\ pc \in {"run", "auth"} => count = dseq + Underway
    /\ hpc \in {"authWait", "table"} /\ pc = "auth" =>
         count = 0 /\ ~Quiet /\ fifo[1].id = "AUTH" /\ fifo[1].seq = dseq
    /\ ~(hpc = "tableWait" /\ pc = "auth")
    /\ hpc = "table" /\ pc = "table" => count = dseq + Underway
    /\ hpc \in Imaging /\ pc \in {"receive", "mark"} => hpos = Place + Underway

(* What is known once the candidate is recorded.                            *)
Recorded == meta.valid /\ meta.info[hslot] = hpkg
Finished ==
  hpc = "confirm"
  \/ (hpc \in Sharing /\ \E i \in 1 .. Len(inbox) : inbox[i].kind = "DONE")
OutcomeOK ==
  /\ pc = "done" /\ hpc \in Sharing => Recorded
  /\ Finished =>
       /\ pc \notin Joined
       /\ Recorded
       /\ \A i \in 1 .. Len(inbox) :
            inbox[i].kind = "HEARTBEAT" /\ inbox[i].slot = hslot =>
              meta.candidate = NoSlot /\ meta.confirmed = hslot

SyncInv ==
  /\ FifoOK /\ ReadyOK /\ PhaseOK /\ SameSession /\ AnswersOK
  /\ BufferOK /\ PlaceOK /\ FrameOK /\ LosslessOK /\ OutcomeOK
  /\ legacy # "confirmed"

-----------------------------------------------------------------------------
(* Queues by their positions. *)

(* A frame is taken. *)
LEMMA Pop ==
  ASSUME QueuesOK, fifo # <<>>, fifo' = Tail(fifo)
  PROVE  /\ Len(fifo) \in Nat \ {0} /\ Head(fifo) = fifo[1]
         /\ Len(fifo') = Len(fifo) - 1
         /\ \A i \in 1 .. Len(fifo') : fifo'[i] = fifo[i + 1]
BY HeadTailProperties, LenProperties, EmptySeq DEF QueuesOK

LEMMA PopOrder ==
  ASSUME QueuesOK, fifo # <<>>, fifo' = Tail(fifo), InOrder
  PROVE  /\ InOrder'
         /\ Quiet => Quiet'
         /\ NoEnter => NoEnter'
         /\ Len(fifo) = 1 => Quiet' /\ fifo' = <<>>
         /\ fifo[1].id = "ENTER" => Quiet'
<1>1. /\ Len(fifo) \in Nat \ {0} /\ Len(fifo') = Len(fifo) - 1
      /\ \A i \in 1 .. Len(fifo') : fifo'[i] = fifo[i + 1] /\ i + 1 \in 1 .. Len(fifo)
  BY Pop
<1>2. Len(fifo) = 1 => fifo' = <<>>
  BY HeadTailProperties, EmptySeq, <1>1 DEF QueuesOK
<1>3. InOrder'
  BY <1>1 DEF InOrder
<1>4. fifo[1].id = "ENTER" => Quiet'
  BY <1>1 DEF InOrder, Quiet
<1>5. (Quiet => Quiet') /\ (NoEnter => NoEnter') /\ (Len(fifo) = 1 => Quiet')
  BY <1>1 DEF Quiet, NoEnter
<1> QED
  BY <1>2, <1>3, <1>4, <1>5

LEMMA Emptied ==
  ASSUME fifo' = <<>>
  PROVE  InOrder' /\ Quiet' /\ NoEnter' /\ Len(fifo') = 0
BY DEF InOrder, Quiet, NoEnter

(* A frame is sent: it is appended, replaces the newest one, or is lost. *)
LEMMA Push ==
  ASSUME QueuesOK, NEW f \in Frames, Deliver(f)
  PROVE  \/ fifo' = fifo /\ (pc # "off" => losses' = losses + 1)
         \/ /\ pc # "off" /\ losses' = losses
            /\ Len(fifo') \in Nat \ {0}
            /\ fifo'[Len(fifo')] = f
            /\ \A i \in 1 .. Len(fifo') : i < Len(fifo') =>
                 fifo'[i] = fifo[i] /\ i \in 1 .. Len(fifo)
            /\ fifo = <<>> => Len(fifo') = 1
<1>1. FifoDepth \in Nat \ {0} /\ Len(fifo) \in Nat
  BY LinkAssumption, LenProperties DEF QueuesOK
<1>2. CASE pc # "off" /\ Len(fifo) < FifoDepth /\ fifo' = Append(fifo, f) /\ losses' = losses
  BY <1>1, <1>2, AppendProperties, EmptySeq DEF QueuesOK
<1>3. CASE pc # "off" /\ ~(Len(fifo) < FifoDepth) /\ fifo' = [fifo EXCEPT ![FifoDepth] = f]
           /\ losses' = losses
  <2>1. Len(fifo) = FifoDepth /\ FifoDepth \in 1 .. Len(fifo)
    BY <1>1, <1>3 DEF QueuesOK
  <2>2. Len(fifo') = Len(fifo)
        /\ \A j \in 1 .. Len(fifo) : fifo'[j] = IF j = FifoDepth THEN f ELSE fifo[j]
    BY <1>3, <2>1, ExceptSeq DEF QueuesOK
  <2>3. fifo # <<>>
    BY <1>1, <2>1, EmptySeq
  <2> QED
    BY <1>1, <1>3, <2>1, <2>2, <2>3
<1>4. CASE pc = "off" /\ fifo' = fifo
  BY <1>4
<1>5. CASE losses' = losses + 1 /\ fifo' = fifo
  BY <1>5
<1> QED
  BY <1>2, <1>3, <1>4, <1>5 DEF Deliver, spent

LEMMA PushOrder ==
  ASSUME QueuesOK, NEW f \in Frames, Deliver(f), InOrder,
         f.id \in SessionIds => NoEnter
  PROVE  /\ InOrder'
         /\ NoEnter /\ f.id # "ENTER" => NoEnter'
         /\ Quiet /\ f.id \notin SessionIds => Quiet'
         /\ Len(fifo) = 0 => Len(fifo') <= 1
         /\ pc = "off" => fifo' = fifo
<1>1. CASE fifo' = fifo
  BY <1>1 DEF InOrder, NoEnter, Quiet
<1>2. CASE /\ pc # "off"
           /\ Len(fifo') \in Nat \ {0} /\ fifo'[Len(fifo')] = f
           /\ \A i \in 1 .. Len(fifo') : i < Len(fifo') =>
                fifo'[i] = fifo[i] /\ i \in 1 .. Len(fifo)
           /\ fifo = <<>> => Len(fifo') = 1
  <2>1. Len(fifo) \in Nat /\ (Len(fifo) = 0 => fifo = <<>>)
    BY LenProperties, EmptySeq DEF QueuesOK
  <2>2. InOrder'
    BY <1>2, <2>1 DEF InOrder, NoEnter
  <2>3. NoEnter /\ f.id # "ENTER" => NoEnter'
    BY <1>2, <2>1 DEF NoEnter
  <2>4. Quiet /\ f.id \notin SessionIds => Quiet'
    BY <1>2, <2>1 DEF Quiet
  <2> QED
    BY <1>2, <2>1, <2>2, <2>3, <2>4
<1> QED
  BY <1>1, <1>2, Push

(* Statuses are appended to the socket queue of a host that runs. *)
Grown ==
  /\ Len(inbox) \in Nat /\ Len(inbox') \in Nat /\ Len(inbox) <= Len(inbox')
  /\ \A i \in 1 .. Len(inbox) : inbox'[i] = inbox[i]

LEMMA HeardAdds ==
  ASSUME QueuesOK, NEW messages \in Seq(Answers), Heard(messages), hpc \notin Idle
  PROVE  /\ Grown
         /\ Len(inbox') = Len(inbox) + Len(messages)
         /\ \A i \in 1 .. Len(messages) : inbox'[Len(inbox) + i] = messages[i]
         /\ \A i \in 1 .. Len(inbox') : i > Len(inbox) =>
              inbox'[i] = messages[i - Len(inbox)] /\ i - Len(inbox) \in 1 .. Len(messages)
<1>1. Len(inbox) \in Nat /\ Len(messages) \in Nat
  BY LenProperties DEF QueuesOK
<1>2. inbox' = inbox \o messages
  BY DEF Heard
<1>3. /\ Len(inbox') = Len(inbox) + Len(messages)
      /\ \A i \in 1 .. Len(inbox) + Len(messages) : inbox'[i] =
                     IF i <= Len(inbox) THEN inbox[i] ELSE messages[i - Len(inbox)]
  BY <1>2, ConcatProperties DEF QueuesOK
<1> QED
  BY <1>1, <1>3 DEF Grown

LEMMA ReportAdds ==
  ASSUME QueuesOK, IInv', NEW statuses \in Seq(Statuses), Report(statuses)
  PROVE  /\ Len(statuses) \in Nat
         /\ Grown
         /\ hpc \in Idle => inbox' = inbox
         /\ hpc \notin Idle =>
              /\ Len(inbox') = Len(inbox) + Len(statuses)
              /\ \A i \in 1 .. Len(statuses) : inbox'[Len(inbox) + i] = Status(statuses[i])
              /\ \A i \in 1 .. Len(inbox') : i > Len(inbox) =>
                    \E j \in 1 .. Len(statuses) :
                      i = Len(inbox) + j /\ inbox'[i] = Status(statuses[j])
<1> DEFINE messages == [i \in 1 .. Len(statuses) |-> Status(statuses[i])]
<1>1. Len(statuses) \in Nat /\ \A i \in 1 .. Len(statuses) : statuses[i] \in Statuses
  BY LenProperties
<1>2. ASSUME NEW s \in Statuses
      PROVE  Status(s) \in Answers
  <2>1. target' \in Slots /\ received' \in 0 .. NBlocks
    BY DEF IInv, TypeOK
  <2>2. NBlocks \in Nat
    BY BootAssumption
  <2> QED
    BY <2>1, <2>2 DEF Status, Answers, Messages
<1>3. messages \in Seq(Answers) /\ Len(messages) = Len(statuses)
  BY <1>1, <1>2
<1>4. Heard(messages)
  BY DEF Report
<1>5. CASE hpc \in Idle
  BY <1>1, <1>4, <1>5, LenProperties DEF Heard, Grown, QueuesOK
<1>6. CASE hpc \notin Idle
  <2> HIDE DEF messages
  <2>1. /\ Grown
        /\ Len(inbox') = Len(inbox) + Len(messages)
        /\ \A i \in 1 .. Len(messages) : inbox'[Len(inbox) + i] = messages[i]
        /\ \A i \in 1 .. Len(inbox') : i > Len(inbox) =>
             inbox'[i] = messages[i - Len(inbox)] /\ i - Len(inbox) \in 1 .. Len(messages)
    BY <1>3, <1>4, <1>6, HeardAdds
  <2>2. \A i \in 1 .. Len(statuses) : messages[i] = Status(statuses[i])
    BY <1>1 DEF messages
  <2>3. Len(inbox) \in Nat /\ Len(inbox') \in Nat
    BY <2>1 DEF Grown
  <2>4. \A i \in 1 .. Len(inbox') : i > Len(inbox) =>
          \E j \in 1 .. Len(statuses) : i = Len(inbox) + j /\ inbox'[i] = Status(statuses[j])
    <3> SUFFICES ASSUME NEW i \in 1 .. Len(inbox'), i > Len(inbox)
                 PROVE  \E j \in 1 .. Len(statuses) :
                          i = Len(inbox) + j /\ inbox'[i] = Status(statuses[j])
      OBVIOUS
    <3>1. i - Len(inbox) \in 1 .. Len(statuses) /\ inbox'[i] = messages[i - Len(inbox)]
      BY <1>3, <2>1
    <3>2. i = Len(inbox) + (i - Len(inbox))
      BY <2>3
    <3> QED
      BY <3>1, <3>2, <2>2
  <2> QED
    BY <1>1, <1>3, <1>6, <2>1, <2>2, <2>4
<1> QED
  BY <1>5, <1>6

-----------------------------------------------------------------------------
(* The metadata outside a session: an image, once recorded, stays; without  *)
(* a candidate nothing is written.                                          *)
LEMMA MetaSteady ==
  ASSUME IInv, legacy # "confirmed", [Next]_vars
  PROVE  /\ legacy' # "confirmed"
         /\ pc \in {"off", "wait", "recovery", "run", "auth", "done"} => meta' = meta
         /\ pc \notin Joined /\ meta.valid =>
              /\ meta'.valid /\ meta'.info = meta.info
              /\ meta.candidate = NoSlot => meta' = meta
<1>1. ~CanImport
  BY DEF CanImport
<1>2. RefreshTarget => meta' = meta
  BY <1>1 DEF RefreshTarget
<1> DEFINE Goal ==
         /\ legacy' # "confirmed"
         /\ pc \in {"off", "wait", "recovery", "run", "auth", "done"} => meta' = meta
         /\ pc \notin Joined /\ meta.valid =>
              /\ meta'.valid /\ meta'.info = meta.info
              /\ meta.candidate = NoSlot => meta' = meta
<1> USE DEF Joined, Preparing, Final
<1>3. CASE PowerUp \/ Enter \/ StartRun
  BY <1>2, <1>3 DEF PowerUp, Enter, StartRun
<1>4. CASE WaitTimeout \/ ReceiveTable \/ SessionFails \/ Prepare \/ Verify
           \/ ReportDone \/ ReportRollback \/ BootActive \/ LegacyConfirm
           \/ AppReset \/ RequestBootloader \/ PeerChanges \/ UNCHANGED vars
           \/ \E p \in Packages : ReceiveManifest(p)
  BY <1>4 DEF WaitTimeout, ReceiveTable, SessionFails, Prepare, Verify,
       ReportDone, ReportRollback, BootActive, LegacyConfirm, AppReset,
       RequestBootloader, PeerChanges, vars, ReceiveManifest, stored
<1>5. CASE EraseArea \/ EraseBlock \/ PowerLoss
           \/ \E c \in Packages \cup {Other} : ReceiveBlock(c)
  BY <1>5 DEF EraseArea, EraseBlock, PowerLoss, ReceiveBlock
<1>6. CASE Begin \/ Truncate \/ MarkBlock \/ Complete
  BY <1>6 DEF Begin, Truncate, MarkBlock, Complete, WriteJournal, UseJournalCell
<1>7. CASE SetCandidate
  BY <1>7 DEF SetCandidate
<1>8. CASE BootEmpty
  BY <1>8 DEF BootEmpty
<1>9. CASE BootTrial
  <2>1. pc = "boot" /\ legacy' = legacy /\ meta.candidate # NoSlot
        /\ meta' \in {meta, [meta EXCEPT !.trial = TRUE]}
    BY <1>9 DEF BootTrial, DecideToRun, WriteMeta, HasCandidate
  <2> QED
    BY <2>1 DEF IInv, TypeOK, MetaRecords
<1>10. CASE BootRollback
  <2>1. pc = "boot" /\ legacy' = legacy /\ meta.candidate # NoSlot
        /\ meta' \in {meta, RollbackMeta}
    BY <1>10 DEF BootRollback, DecideToRun, WriteMeta, HasCandidate
  <2> QED
    BY <2>1 DEF RollbackMeta, IInv, TypeOK, MetaRecords
<1>11. CASE AppConfirm
  <2>1. pc = "app" /\ legacy' = legacy
        /\ \/ meta' = meta
           \/ IsTrial /\ meta' \in {meta, ConfirmedMeta}
    BY <1>11 DEF AppConfirm, WriteMeta
  <2>2. IsTrial => meta.candidate # NoSlot
    BY <2>1 DEF IsTrial, IInv, RunOK, Slots, NoSlot
  <2> QED
    BY <2>1, <2>2 DEF ConfirmedMeta, IInv, TypeOK, MetaRecords
<1> QED
  BY <1>3, <1>4, <1>5, <1>6, <1>7, <1>8, <1>9, <1>10, <1>11
  DEF Next, Bootloader, Application, Bus

Away == {"off", "wait", "boot", "rollback", "recovery", "app", "running"}

(* What all steps of the board have in common that end a session or happen  *)
(* outside one.                                                             *)
Leaving ==
  /\ UNCHANGED <<hpc, hpkg, hslot, count, hpos, losses>>
  /\ pc' \in Away
  /\ fifo' = fifo \/ fifo' = <<>> \/ (fifo # <<>> /\ fifo' = Tail(fifo))
  /\ pc' = "off" \/ pc \in {"run", "auth"} => fifo' = <<>>
  /\ wbuf' = <<>>
  /\ hpc \in Idle => inbox' = inbox
  /\ Grown
  /\ \A i \in 1 .. Len(inbox') : i > Len(inbox) =>
       /\ inbox'[i].kind # "READY"
       /\ inbox'[i].kind = "DONE" => pc = "done"
       /\ inbox'[i].kind = "HEARTBEAT" => pc' = "running" /\ inbox'[i].slot = runSlot'
  /\ hpc \in Early /\ pc \in {"off", "wait", "run", "auth"}
       /\ (\E i \in 1 .. Len(inbox) : inbox[i].kind = "READY") =>
       pc' \in {"off", "wait"} /\ inbox' = inbox
  /\ pc = "wait" => fifo' = <<>> \/ (pc' = "wait" /\ inbox' = inbox)

(* A step without a report. *)
LEMMA Unheard ==
  ASSUME QueuesOK, inbox' = inbox
  PROVE  Grown /\ \A i \in 1 .. Len(inbox') : ~(i > Len(inbox))
BY LenProperties DEF QueuesOK, Grown

(* A report that is no READY. *)
LEMMA NewsOK ==
  ASSUME QueuesOK, IInv', NEW statuses \in Seq(Statuses), Report(statuses),
         \A i \in 1 .. Len(statuses) :
           statuses[i] # "READY" /\ (statuses[i] = "DONE" => pc = "done")
  PROVE  /\ Grown
         /\ hpc \in Idle => inbox' = inbox
         /\ \A i \in 1 .. Len(inbox') : i > Len(inbox) =>
              /\ inbox'[i].kind # "READY"
              /\ inbox'[i].kind = "DONE" => pc = "done"
              /\ inbox'[i].kind # "HEARTBEAT"
<1>1. \A i \in 1 .. Len(statuses) : statuses[i] # "HEARTBEAT"
  BY LenProperties DEF Statuses
<1>2. CASE hpc \in Idle
  BY <1>2, ReportAdds, Unheard
<1>3. CASE hpc \notin Idle
  <2>1. Grown
    BY ReportAdds
  <2> SUFFICES ASSUME NEW i \in 1 .. Len(inbox'), i > Len(inbox)
               PROVE  /\ inbox'[i].kind # "READY"
                      /\ inbox'[i].kind = "DONE" => pc = "done"
                      /\ inbox'[i].kind # "HEARTBEAT"
    BY <1>3, <2>1
  <2>2. PICK j \in 1 .. Len(statuses) : inbox'[i] = Status(statuses[j])
    BY <1>3, ReportAdds
  <2>3. inbox'[i].kind = statuses[j]
    BY <2>2 DEF Status
  <2> QED
    BY <1>1, <2>3
<1> QED
  BY <1>2, <1>3

(* The short reports. *)
LEMMA Shorts ==
  /\ \A s \in Statuses : <<s>> \in Seq(Statuses) /\ Len(<<s>>) = 1 /\ <<s>>[1] = s
  /\ \A s, t \in Statuses : <<s>> \o <<t>> \in Seq(Statuses) /\ Len(<<s>> \o <<t>>) = 2
       /\ (<<s>> \o <<t>>)[1] = s /\ (<<s>> \o <<t>>)[2] = t
  /\ \A s \in Statuses : <<s>> \o <<>> = <<s>> /\ <<>> \o <<s>> = <<s>>
  /\ <<>> \o <<>> = <<>> /\ <<>> \in Seq(Statuses) /\ Len(<<>>) = 0
<1>1. \A s \in Statuses : <<s>> \in Seq(Statuses) /\ Len(<<s>>) = 1 /\ <<s>>[1] = s
  OBVIOUS
<1>2. <<>> \in Seq(Statuses) /\ Len(<<>>) = 0
  BY EmptySeq
<1>3. \A s, t \in Statuses : <<s>> \o <<t>> \in Seq(Statuses) /\ Len(<<s>> \o <<t>>) = 2
       /\ (<<s>> \o <<t>>)[1] = s /\ (<<s>> \o <<t>>)[2] = t
  BY <1>1, ConcatProperties
<1>4. \A s \in Statuses : <<s>> \o <<>> = <<s>> /\ <<>> \o <<s>> = <<s>>
  BY <1>1, ConcatEmptySeq
<1>5. <<>> \o <<>> = <<>>
  BY <1>2, ConcatEmptySeq
<1> QED
  BY <1>1, <1>2, <1>3, <1>4, <1>5

(* One status, two, none. *)
LEMMA ReportOne ==
  ASSUME QueuesOK, IInv', NEW s \in Statuses, Report(<<s>>)
  PROVE  /\ Grown
         /\ hpc \in Idle => inbox' = inbox
         /\ hpc \notin Idle => Len(inbox') = Len(inbox) + 1
         /\ \A i \in 1 .. Len(inbox') : i > Len(inbox) =>
              i = Len(inbox') /\ inbox'[i] = Status(s)
<1> DEFINE t == <<s>>
<1>1. t \in Seq(Statuses) /\ Len(t) = 1 /\ t[1] = s
  BY Shorts
<1>2. Report(t)
  OBVIOUS
<1> HIDE DEF t
<1>3. /\ Grown
      /\ hpc \in Idle => inbox' = inbox
      /\ hpc \notin Idle =>
           /\ Len(inbox') = Len(inbox) + Len(t)
           /\ \A i \in 1 .. Len(inbox') : i > Len(inbox) =>
                 \E j \in 1 .. Len(t) : i = Len(inbox) + j /\ inbox'[i] = Status(t[j])
  BY <1>1, <1>2, ReportAdds
<1>4. CASE hpc \in Idle
  BY <1>3, <1>4, Unheard
<1>5. CASE hpc \notin Idle
  <2>1. Len(inbox') = Len(inbox) + 1
    BY <1>1, <1>3, <1>5
  <2>2. \A i \in 1 .. Len(inbox') : i > Len(inbox) =>
          \E j \in 1 .. 1 : i = Len(inbox) + j /\ inbox'[i] = Status(t[j])
    BY <1>1, <1>3, <1>5
  <2>3. \A i \in 1 .. Len(inbox') : i > Len(inbox) =>
          i = Len(inbox) + 1 /\ inbox'[i] = Status(t[1])
    <3>1. \A j \in 1 .. 1 : j = 1
      OBVIOUS
    <3> QED
      BY <2>2, <3>1
  <2> QED
    BY <1>1, <1>3, <1>5, <2>1, <2>3
<1> QED
  BY <1>4, <1>5

LEMMA ReportTwo ==
  ASSUME QueuesOK, IInv', NEW s \in Statuses, NEW r \in Statuses, Report(<<s>> \o <<r>>)
  PROVE  /\ Grown
         /\ hpc \in Idle => inbox' = inbox
         /\ \A i \in 1 .. Len(inbox') : i > Len(inbox) =>
              inbox'[i] = Status(s) \/ (i = Len(inbox') /\ inbox'[i] = Status(r))
<1> DEFINE t == <<s>> \o <<r>>
<1>1. t \in Seq(Statuses) /\ Len(t) = 2 /\ t[1] = s /\ t[2] = r
  BY Shorts
<1>2. Report(t)
  OBVIOUS
<1> HIDE DEF t
<1>3. /\ Grown
      /\ hpc \in Idle => inbox' = inbox
      /\ hpc \notin Idle =>
           /\ Len(inbox') = Len(inbox) + Len(t)
           /\ \A i \in 1 .. Len(inbox') : i > Len(inbox) =>
                 \E j \in 1 .. Len(t) : i = Len(inbox) + j /\ inbox'[i] = Status(t[j])
  BY <1>1, <1>2, ReportAdds
<1>4. CASE hpc \in Idle
  BY <1>3, <1>4, Unheard
<1>5. CASE hpc \notin Idle
  <2>1. Len(inbox') = Len(inbox) + 2
    BY <1>1, <1>3, <1>5
  <2>2. \A i \in 1 .. Len(inbox') : i > Len(inbox) =>
          \E j \in 1 .. 2 : i = Len(inbox) + j /\ inbox'[i] = Status(t[j])
    BY <1>1, <1>3, <1>5
  <2>3. \A j \in 1 .. 2 : j = 1 \/ j = 2
    OBVIOUS
  <2>4. \A i \in 1 .. Len(inbox') : i > Len(inbox) =>
          \/ i = Len(inbox) + 1 /\ inbox'[i] = Status(t[1])
          \/ i = Len(inbox) + 2 /\ inbox'[i] = Status(t[2])
    BY <2>2, <2>3
  <2> QED
    BY <1>1, <1>3, <2>1, <2>4
<1> QED
  BY <1>4, <1>5

LEMMA ReportNone ==
  ASSUME QueuesOK, Report(<<>>)
  PROVE  inbox' = inbox
<1>1. Len(<<>>) = 0 /\ inbox \in Seq(Answers)
  BY EmptySeq DEF QueuesOK
<1>2. [i \in 1 .. Len(<<>>) |-> Status(<<>>[i])] = <<>>
  BY <1>1
<1>3. inbox \o <<>> = inbox
  BY <1>1, ConcatEmptySeq
<1> QED
  BY <1>2, <1>3 DEF Report, Heard

-----------------------------------------------------------------------------
(* A heartbeat is appended. *)
LEMMA BeatAdds ==
  ASSUME LinkInv, pc \in {"app", "running"}, Heard(<<Beat>>)
  PROVE  /\ Grown
         /\ hpc \in Idle => inbox' = inbox
         /\ \A i \in 1 .. Len(inbox') : i > Len(inbox) =>
              inbox'[i].kind = "HEARTBEAT" /\ inbox'[i].slot = runSlot
<1>1. <<Beat>> \in Seq(Answers)
  <2>1. runSlot \in Slots /\ RunningImage \in Contents
    BY DEF LinkInv, IInv, RunOK, TypeOK, MetaRecords, RunningImage
  <2>2. VersionOf(RunningImage) \in Nat
    BY <2>1, BootAssumption DEF VersionOf
  <2> QED
    BY <2>1, <2>2 DEF Beat, Answers, Messages
<1>2. Len(<<Beat>>) = 1 /\ <<Beat>>[1] = Beat /\ Beat.kind = "HEARTBEAT" /\ Beat.slot = runSlot
  BY DEF Beat
<1>3. CASE hpc \in Idle
  BY <1>3, Unheard DEF Heard, LinkInv
<1>4. CASE hpc \notin Idle
  <2>1. /\ Grown
        /\ \A i \in 1 .. Len(inbox') : i > Len(inbox) =>
             inbox'[i] = <<Beat>>[i - Len(inbox)] /\ i - Len(inbox) \in 1 .. 1
    BY <1>1, <1>2, <1>4, HeardAdds DEF LinkInv
  <2>2. \A i \in 1 .. Len(inbox') : i > Len(inbox) => inbox'[i] = Beat
    BY <1>2, <2>1
  <2> QED
    BY <1>2, <1>4, <2>1, <2>2
<1> QED
  BY <1>3, <1>4

LEMMA LeavingSteps ==
  ASSUME LinkInv, IInv', SyncInv, BoardStep \/ Heartbeat \/ LosePower, pc' \in Away
  PROVE  Leaving
<1> USE DEF Away
<1>0. QueuesOK /\ (pc # "receive" => wbuf = <<>>)
  BY DEF LinkInv, SyncInv, BufferOK
<1>1. UNCHANGED <<hpc, hpkg, hslot, count, hpos, losses>>
  BY DEF BoardStep, Heartbeat, LosePower, host, spent
<1>2. /\ <<"ERROR">> \in Seq(Statuses) /\ <<"DONE">> \in Seq(Statuses)
      /\ <<"ROLLBACK">> \in Seq(Statuses) /\ <<"VERIFY">> \o <<"ERROR">> \in Seq(Statuses)
      /\ <<"WRITING">> \o <<"ERROR">> \in Seq(Statuses) /\ <<>> \o <<"ERROR">> = <<"ERROR">>
      /\ \A i \in 1 .. Len(<<"ERROR">>) : <<"ERROR">>[i] = "ERROR"
      /\ \A i \in 1 .. Len(<<"DONE">>) : <<"DONE">>[i] = "DONE"
      /\ \A i \in 1 .. Len(<<"ROLLBACK">>) : <<"ROLLBACK">>[i] = "ROLLBACK"
      /\ \A i \in 1 .. Len(<<"VERIFY">> \o <<"ERROR">>) :
            (<<"VERIFY">> \o <<"ERROR">>)[i] \in {"VERIFY", "ERROR"}
      /\ \A i \in 1 .. Len(<<"WRITING">> \o <<"ERROR">>) :
            (<<"WRITING">> \o <<"ERROR">>)[i] \in {"WRITING", "ERROR"}
  <2>1. {"ERROR", "DONE", "ROLLBACK", "VERIFY", "WRITING"} \subseteq Statuses
    BY DEF Statuses
  <2>2. \A i \in 1 .. 2 : i = 1 \/ i = 2
    OBVIOUS
  <2> QED
    BY <2>1, <2>2, Shorts
<1> DEFINE News ==
      /\ Grown
      /\ hpc \in Idle => inbox' = inbox
      /\ \A i \in 1 .. Len(inbox') : i > Len(inbox) =>
           /\ inbox'[i].kind # "READY"
           /\ inbox'[i].kind = "DONE" => pc = "done"
           /\ inbox'[i].kind = "HEARTBEAT" => pc' = "running" /\ inbox'[i].slot = runSlot'
<1>3. ASSUME inbox' = inbox PROVE News
  BY <1>0, <1>3, Unheard
<1>4. ASSUME NEW s \in Seq(Statuses), Report(s),
             \A i \in 1 .. Len(s) : s[i] # "READY" /\ (s[i] = "DONE" => pc = "done")
      PROVE  News
  BY <1>0, <1>4, NewsOK
<1>5. ASSUME Report(<<"ERROR">>) \/ Report(<<"VERIFY">> \o <<"ERROR">>)
             \/ Report(<<"WRITING">> \o <<"ERROR">>) \/ Report(<<"ROLLBACK">>)
             \/ (Report(<<"DONE">>) /\ pc = "done")
      PROVE  News
  BY <1>2, <1>4, <1>5
<1> HIDE DEF News
<1>6. CASE Silent
  <2>1. /\ pc \in {"off", "wait", "boot", "app"}
        /\ pc = "wait" => fifo = <<>> /\ inbox = <<>>
        /\ pc = "off" => pc' = "wait"
    BY <1>6 DEF Silent, PowerUp, WaitTimeout, StartRun, BootEmpty, BootTrial,
        BootRollback, BootActive, AppReset, HostBlocked, WriteMeta, DecideToRun
  <2>2. News /\ inbox' = inbox
    BY <1>3, <1>6 DEF Silent, NoReport
  <2>3. wbuf' = <<>> /\ (fifo' = fifo \/ fifo' = <<>>) /\ (pc' = "off" => fifo' = <<>>)
    BY <1>0, <1>6, <2>1 DEF Silent, NoFrame
  <2>4. inbox = <<>> => \A i \in 1 .. Len(inbox) : FALSE
    BY EmptySeq
  <2> QED
    BY <1>1, <2>1, <2>2, <2>3, <2>4 DEF Leaving, News
<1>7. CASE PrepareWrite
  <2>1. pc \in Preparing /\ pc' = "recovery" /\ Report(<<"ERROR">>)
    BY <1>7 DEF PrepareWrite, Prepare, EraseArea, Begin, Truncate, EraseBlock,
        WriteJournal, ErrorOr, Preparing
  <2>2. fifo' = fifo /\ wbuf' = <<>>
    BY <1>7 DEF PrepareWrite
  <2> QED
    BY <1>1, <1>5, <2>1, <2>2 DEF Leaving, News, Preparing
<1>8. CASE PageDone
  <2>1. pc = "mark" /\ pc' = "recovery" /\ Report(<<"ERROR">>)
        /\ fifo' = fifo /\ wbuf' = wbuf
    BY <1>8 DEF PageDone, MarkBlock, WriteJournal, ErrorOr
  <2> QED
    BY <1>0, <1>1, <1>5, <2>1 DEF Leaving, News
<1>9. CASE Finalise
  <2>1. /\ pc \in {"receive", "complete", "candidate", "done", "rollback"}
        /\ pc' # "off"
        /\ \/ pc' = "recovery" /\ (Report(<<"ERROR">>) \/ Report(<<"VERIFY">> \o <<"ERROR">>))
           \/ pc = "done" /\ Report(<<"DONE">>)
           \/ pc = "rollback" /\ Report(<<"ROLLBACK">>)
    BY <1>9 DEF Finalise, Verify, Complete, SetCandidate, ReportDone,
        ReportRollback, WriteMeta, WriteJournal, ErrorOr
  <2>2. fifo' = fifo /\ wbuf' = <<>>
    BY <1>0, <1>9, <2>1 DEF Finalise, NoFrame
  <2> QED
    BY <1>1, <1>5, <2>1, <2>2 DEF Leaving, News
<1>10. CASE SessionTimeout
  <2>1. /\ pc \in {"auth", "table", "receive"} /\ pc' = "recovery"
        /\ fifo = <<>> /\ fifo' = fifo /\ wbuf' = <<>>
        /\ Report(<<"ERROR">>)
    BY <1>10 DEF SessionTimeout, SessionFails, NoFrame
  <2>2. hpc \in Early => inbox = <<>>
    BY <1>10 DEF SessionTimeout, HostBlocked, Early
  <2>3. inbox = <<>> => \A i \in 1 .. Len(inbox) : FALSE
    BY EmptySeq
  <2> QED
    BY <1>1, <1>5, <2>1, <2>2, <2>3 DEF Leaving, News
<1>11. CASE TakeEnter
  BY <1>11 DEF TakeEnter, Enter
<1>12. CASE TakeAuth
  <2>1. /\ pc = "auth" /\ pc' = "recovery" /\ fifo # <<>> /\ fifo' = Tail(fifo)
        /\ Head(fifo).id = "AUTH" /\ wbuf' = <<>>
        /\ Report(<<"ERROR">>)
    BY <1>12 DEF TakeAuth, OutOfSequence, Store, SessionFails, ReceiveManifest,
        ErrorOr, Took, vars
  <2>2. ~Quiet
    BY <1>0, <2>1, Pop DEF Quiet, SessionIds
  <2>3. Len(fifo) = 1 /\ hpc \notin Early
    BY <2>1, <2>2 DEF SyncInv, FifoOK, Joined
  <2>4. fifo' = <<>>
    BY <1>0, <2>1, <2>3, PopOrder DEF SyncInv, FifoOK
  <2> QED
    BY <1>1, <1>5, <2>1, <2>3, <2>4 DEF Leaving, News
<1>13. CASE TakeHash \/ TakeData
  <2>1. /\ pc \in {"table", "receive"} /\ pc' = "recovery"
        /\ fifo # <<>> /\ fifo' = Tail(fifo) /\ wbuf' = <<>>
    BY <1>13 DEF TakeHash, TakeData, OutOfSequence, Store, SessionFails,
        ReceiveTable, ReceiveBlock, Took, vars
  <2>2. Report(<<"ERROR">>) \/ Report(<<"WRITING">> \o <<"ERROR">>)
    BY <1>2, <1>13, <2>1 DEF TakeHash, TakeData, OutOfSequence, Store, ErrorOr, vars
  <2> QED
    BY <1>1, <1>5, <2>1, <2>2 DEF Leaving, News
<1>14. CASE TakeControl
  <2>1. pc = "running" /\ fifo' = <<>> /\ wbuf' = <<>> /\ inbox' = inbox
    BY <1>14 DEF TakeControl, RequestBootloader, NoReport
  <2> QED
    BY <1>1, <1>3, <2>1 DEF Leaving, News
<1>15. CASE DropFrame
  <2>1. /\ pc' = pc /\ inbox' = inbox /\ wbuf' = wbuf
        /\ fifo # <<>> /\ fifo' = Tail(fifo)
        /\ pc \in {"wait", "recovery", "running"}
    BY <1>15 DEF DropFrame, Polling, Took, NoReport, vars
  <2> QED
    BY <1>0, <1>1, <1>3, <2>1 DEF Leaving, News
<1>16. CASE StartApp
  <2>1. /\ pc = "app" /\ pc' \in {"running", "off"}
        /\ pc' = "running" => runSlot' = runSlot /\ Heard(<<Beat>>)
        /\ pc' = "off" => inbox' = inbox
    BY <1>16 DEF StartApp, AppConfirm, WriteMeta, NoReport
  <2>2. wbuf' = <<>> /\ (fifo' = fifo \/ fifo' = <<>>) /\ (pc' = "off" => fifo' = <<>>)
    BY <1>0, <1>16, <2>1 DEF StartApp, NoFrame
  <2>3. News
    BY <1>3, <2>1, BeatAdds DEF News
  <2> QED
    BY <1>1, <2>1, <2>2, <2>3 DEF Leaving, News
<1>17. CASE Heartbeat
  <2>1. /\ pc = "running" /\ pc' = pc /\ runSlot' = runSlot /\ Heard(<<Beat>>)
        /\ fifo' = fifo /\ wbuf' = wbuf
    BY <1>17 DEF Heartbeat, vars, board
  <2>2. News
    BY <2>1, BeatAdds DEF News
  <2> QED
    BY <1>0, <1>1, <2>1, <2>2 DEF Leaving, News
<1>18. CASE LosePower
  <2>1. pc' = "off" /\ fifo' = <<>> /\ wbuf' = <<>> /\ inbox' = inbox
    BY <1>18 DEF LosePower, PowerLoss, NoFrame, NoReport
  <2> QED
    BY <1>1, <1>3, <2>1 DEF Leaving, News
<1> QED
  BY <1>6, <1>7, <1>8, <1>9, <1>10, <1>11, <1>12, <1>13, <1>14, <1>15, <1>16,
     <1>17, <1>18
  DEF BoardStep

-----------------------------------------------------------------------------
(* Outside a session there is little to keep. *)
LEMMA LeavingSync ==
  ASSUME LinkInv, IInv', [Next]_vars, SyncInv, Leaving
  PROVE  SyncInv'
<1> USE DEF Leaving
<1>0. /\ pc' \notin Joined /\ pc' \notin {"run", "auth", "receive", "table", "mark"}
      /\ hpc' = hpc /\ count' = count /\ hslot' = hslot /\ hpkg' = hpkg
      /\ QueuesOK
  BY DEF Away, Joined, Preparing, Final, LinkInv
<1>1. /\ legacy' # "confirmed"
      /\ pc \in {"off", "wait", "recovery", "run", "auth", "done"} => meta' = meta
      /\ pc \notin Joined /\ meta.valid =>
           /\ meta'.valid /\ meta'.info = meta.info
           /\ meta.candidate = NoSlot => meta' = meta
  BY MetaSteady DEF LinkInv, SyncInv
<1>2. InOrder' /\ (NoEnter => NoEnter')
  <2>1. CASE fifo' = fifo
    BY <2>1 DEF SyncInv, FifoOK, InOrder, NoEnter
  <2>2. CASE fifo' = <<>>
    BY <2>2, Emptied
  <2>3. CASE fifo # <<>> /\ fifo' = Tail(fifo)
    BY <1>0, <2>3, PopOrder DEF SyncInv, FifoOK
  <2> QED
    BY <2>1, <2>2, <2>3
<1>3. FifoOK'
  <2>1. hpc \in Engaged => NoEnter' \/ Again'
    <3> SUFFICES ASSUME hpc \in Engaged PROVE NoEnter' \/ Again'
      OBVIOUS
    <3>1. CASE fifo' = <<>>
      BY <3>1, Emptied
    <3>2. CASE fifo' # <<>>
      <4>1. pc \notin {"run", "auth"}
        BY <3>2
      <4>2. CASE NoEnter
        BY <1>2, <4>2
      <4>3. CASE Again
        <5>1. pc = "wait" /\ pc' = "wait" /\ inbox' = inbox /\ meta' = meta
          BY <1>1, <3>2, <4>3 DEF Again
        <5> QED
          BY <1>0, <4>3, <5>1 DEF Again
      <4> QED
        BY <4>1, <4>2, <4>3 DEF SyncInv, FifoOK
    <3> QED
      BY <3>1, <3>2
  <2> QED
    BY <1>0, <1>2, <2>1 DEF FifoOK
<1>4. ReadyOK'
  <2>1. hpc \in Idle => inbox' = <<>>
    BY DEF SyncInv, ReadyOK
  <2> SUFFICES ASSUME hpc \in Early, NEW i \in 1 .. Len(inbox'), inbox'[i].kind = "READY"
               PROVE  /\ pc' \in {"off", "wait", "run", "auth"}
                      /\ pc' = "auth" => dseq' = 0
                      /\ inbox'[i].slot = UpdateSlot(meta')
                      /\ \A j \in 1 .. Len(inbox') : i < j => inbox'[j].kind = "READY"
    BY <1>0, <2>1 DEF ReadyOK
  <2>2. i \in 1 .. Len(inbox) /\ inbox[i] = inbox'[i]
    BY DEF Grown
  <2>3. pc \in {"off", "wait", "run", "auth"} /\ inbox[i].slot = UpdateSlot(meta)
        /\ \A j \in 1 .. Len(inbox) : i < j => inbox[j].kind = "READY"
    BY <2>2 DEF SyncInv, ReadyOK
  <2>4. pc' \in {"off", "wait"} /\ inbox' = inbox /\ meta' = meta
    BY <1>1, <2>2, <2>3
  <2> QED
    BY <2>2, <2>3, <2>4
<1>5. PhaseOK'
  BY <1>0 DEF SyncInv, PhaseOK
<1>6. SameSession' /\ AnswersOK' /\ PlaceOK' /\ LosslessOK'
  BY <1>0 DEF SameSession, AnswersOK, PlaceOK, LosslessOK, Imaging
<1>7. BufferOK'
  <2>1. Len(wbuf') = 0
    BY EmptySeq
  <2> QED
    BY <1>0, <2>1 DEF BufferOK
<1>8. FrameOK'
  BY <1>0 DEF FrameOK
<1>9. OutcomeOK'
  <2> SUFFICES ASSUME Finished'
               PROVE  /\ Recorded'
                      /\ \A i \in 1 .. Len(inbox') :
                           inbox'[i].kind = "HEARTBEAT" /\ inbox'[i].slot = hslot =>
                             meta'.candidate = NoSlot /\ meta'.confirmed = hslot
    BY <1>0 DEF OutcomeOK, Joined, Final
  <2>1. hpc \in Engaged
    BY <1>0 DEF Finished, Engaged
  <2>2. pc' = "running" => meta'.candidate = NoSlot /\ meta'.confirmed = runSlot'
    BY DEF IInv, RunOK, IsConfirmed
  <2>3. CASE Finished
    <3>1. /\ pc \notin Joined /\ Recorded
          /\ \A i \in 1 .. Len(inbox) :
               inbox[i].kind = "HEARTBEAT" /\ inbox[i].slot = hslot =>
                 meta.candidate = NoSlot /\ meta.confirmed = hslot
      BY <2>3 DEF SyncInv, OutcomeOK
    <3>2. /\ meta'.valid /\ meta'.info = meta.info
          /\ meta.candidate = NoSlot => meta' = meta
      BY <1>1, <3>1 DEF Recorded
    <3>3. Recorded'
      BY <1>0, <3>1, <3>2 DEF Recorded
    <3>4. ASSUME NEW i \in 1 .. Len(inbox'), inbox'[i].kind = "HEARTBEAT",
                 inbox'[i].slot = hslot
          PROVE  meta'.candidate = NoSlot /\ meta'.confirmed = hslot
      <4>1. CASE i > Len(inbox)
        BY <2>2, <3>4, <4>1
      <4>2. CASE ~(i > Len(inbox))
        <5>1. i \in 1 .. Len(inbox) /\ inbox'[i] = inbox[i]
          BY <4>2 DEF Grown
        <5> QED
          BY <3>1, <3>2, <3>4, <5>1
      <4> QED
        BY <4>1, <4>2
    <3> QED
      BY <3>3, <3>4
  <2>4. CASE ~Finished
    <3>1. PICK i \in 1 .. Len(inbox') : inbox'[i].kind = "DONE"
      BY <1>0, <2>4 DEF Finished
    <3>2. hpc \in Sharing
      BY <1>0, <2>4 DEF Finished
    <3>3. i > Len(inbox)
      BY <2>4, <3>1, <3>2 DEF Finished, Grown
    <3>4. pc = "done"
      BY <3>1, <3>3
    <3>5. Recorded /\ \A j \in 1 .. Len(inbox) : inbox[j].kind # "HEARTBEAT"
      BY <3>2, <3>4 DEF SyncInv, OutcomeOK, AnswersOK, Joined, Final
    <3>6. meta' = meta
      BY <1>1, <3>4
    <3>7. Recorded'
      BY <1>0, <3>5, <3>6 DEF Recorded
    <3>8. ASSUME NEW j \in 1 .. Len(inbox'), inbox'[j].kind = "HEARTBEAT",
                 inbox'[j].slot = hslot
          PROVE  meta'.candidate = NoSlot /\ meta'.confirmed = hslot
      <4>1. j > Len(inbox)
        BY <3>5, <3>8 DEF Grown
      <4> QED
        BY <2>2, <3>8, <4>1
    <3> QED
      BY <3>7, <3>8
  <2> QED
    BY <2>3, <2>4
<1> QED
  BY <1>1, <1>3, <1>4, <1>5, <1>6, <1>7, <1>8, <1>9 DEF SyncInv

-----------------------------------------------------------------------------
(* The steps of a session, one lemma each. *)

(* ENTER opens a session; a host already past its READY sent it before.     *)
LEMMA EnterSync ==
  ASSUME LinkInv, IInv', [Next]_vars, SyncInv, TakeEnter, UNCHANGED <<host, spent>>
  PROVE  SyncInv'
<1> USE DEF Joined, Preparing, Final, Early, Sharing, Engaged, Imaging
<1>0. QueuesOK /\ InOrder /\ IInv
  BY DEF LinkInv, SyncInv, FifoOK
<1>1. /\ pc \in {"wait", "recovery"} /\ pc' = "run"
      /\ fifo # <<>> /\ Head(fifo).id = "ENTER" /\ fifo' = Tail(fifo)
      /\ dseq' = 0 /\ wbuf' = <<>> /\ Report(<<"READY">>)
      /\ target' = UpdateSlot(meta')
  BY DEF TakeEnter, Enter, Took, RefreshTarget
<1>2. /\ hpc' = hpc /\ hpkg' = hpkg /\ hslot' = hslot /\ count' = count /\ hpos' = hpos
      /\ losses' = losses
  BY DEF host, spent
<1>3. meta' = meta /\ legacy' # "confirmed"
  BY <1>0, <1>1, MetaSteady DEF SyncInv
<1>4. Quiet' /\ InOrder' /\ ~NoEnter
  <2>1. Len(fifo) \in Nat \ {0} /\ fifo[1].id = "ENTER"
    BY <1>0, <1>1, Pop
  <2> QED
    BY <1>0, <1>1, <2>1, PopOrder DEF NoEnter
<1>5. hpc \in Engaged => Again
  BY <1>1, <1>4 DEF SyncInv, FifoOK
<1>6. hpc \in Engaged =>
        /\ hpc = "auth" /\ count = 0 /\ hslot = target'
        /\ \A i \in 1 .. Len(inbox) : inbox[i].kind = "READY"
  BY <1>1, <1>3, <1>5 DEF Again
<1>7. /\ Grown
      /\ hpc \in Idle => inbox' = inbox
      /\ \A i \in 1 .. Len(inbox') : i > Len(inbox) =>
            i = Len(inbox') /\ inbox'[i].kind = "READY" /\ inbox'[i].slot = target'
  <2>1. "READY" \in Statuses
    BY DEF Statuses
  <2>2. Report(<<"READY">>)
    BY <1>1
  <2>3. /\ Grown
        /\ hpc \in Idle => inbox' = inbox
        /\ \A i \in 1 .. Len(inbox') : i > Len(inbox) =>
              i = Len(inbox') /\ inbox'[i] = Status("READY")
    BY <1>0, <2>1, <2>2, ReportOne
  <2>4. Status("READY").kind = "READY" /\ Status("READY").slot = target'
    BY DEF Status
  <2> QED
    BY <2>3, <2>4
<1>8. \A i \in 1 .. Len(inbox') :
        i > Len(inbox) \/ (i \in 1 .. Len(inbox) /\ inbox'[i] = inbox[i])
  BY <1>7 DEF Grown
<1>9. FifoOK'
  BY <1>1, <1>4 DEF FifoOK
<1>10. ReadyOK'
  <2>1. hpc \in Idle => inbox' = <<>>
    BY <1>7 DEF SyncInv, ReadyOK
  <2>2. ASSUME hpc \in Early, NEW i \in 1 .. Len(inbox'), inbox'[i].kind = "READY"
        PROVE  /\ inbox'[i].slot = UpdateSlot(meta')
               /\ \A j \in 1 .. Len(inbox') : i < j => inbox'[j].kind = "READY"
    <3>1. CASE i > Len(inbox)
      BY <1>1, <1>7, <3>1 DEF Grown
    <3>2. CASE i \in 1 .. Len(inbox) /\ inbox'[i] = inbox[i]
      <4>1. inbox[i].slot = UpdateSlot(meta)
            /\ \A j \in 1 .. Len(inbox) : i < j => inbox[j].kind = "READY"
        BY <2>2, <3>2 DEF SyncInv, ReadyOK
      <4> QED
        BY <1>3, <1>7, <1>8, <3>2, <4>1
    <3> QED
      BY <1>8, <3>1, <3>2
  <2> QED
    BY <1>1, <1>2, <2>1, <2>2 DEF ReadyOK
<1>11. PhaseOK'
  BY <1>1, <1>2, <1>6 DEF SyncInv, PhaseOK
<1>12. SameSession'
  BY <1>1, <1>2, <1>6 DEF SameSession
<1>13. AnswersOK'
  BY <1>1, <1>2, <1>6, <1>7, <1>8 DEF AnswersOK
<1>14. BufferOK'
  BY <1>1, EmptySeq DEF BufferOK
<1>15. PlaceOK' /\ FrameOK'
  BY <1>1, <1>4 DEF PlaceOK, FrameOK
<1>16. LosslessOK'
  BY <1>1, <1>2, <1>4, <1>6 DEF LosslessOK, Underway
<1>17. OutcomeOK'
  <2>1. ~Finished'
    BY <1>2, <1>6, <1>7, <1>8 DEF Finished
  <2> QED
    BY <1>1, <2>1 DEF OutcomeOK
<1> QED
  BY <1>3, <1>9, <1>10, <1>11, <1>12, <1>13, <1>14, <1>15, <1>16, <1>17 DEF SyncInv

(* can_ota_ab_run begins. *)
LEMMA StartSync ==
  ASSUME LinkInv, IInv', [Next]_vars, SyncInv, StartRun, NoFrame, NoReport,
         UNCHANGED <<host, spent>>
  PROVE  SyncInv'
<1> USE DEF Joined, Preparing, Final, Early, Sharing, Engaged, Imaging
<1>0. QueuesOK /\ InOrder /\ IInv
  BY DEF LinkInv, SyncInv, FifoOK
<1>1. /\ pc = "run" /\ pc' = "auth"
      /\ fifo' = fifo /\ dseq' = dseq /\ wbuf' = wbuf /\ inbox' = inbox
      /\ target' = UpdateSlot(meta') /\ pkg' = pkg /\ received' = received
  BY DEF StartRun, NoFrame, NoReport, RefreshTarget
<1>2. /\ hpc' = hpc /\ hpkg' = hpkg /\ hslot' = hslot /\ count' = count /\ hpos' = hpos
      /\ losses' = losses
  BY DEF host, spent
<1>3. meta' = meta /\ legacy' # "confirmed" /\ target' = target
  BY <1>0, <1>1, MetaSteady DEF SyncInv, IInv, TargetFree
<1>4. Quiet /\ Quiet' /\ dseq = 0
  BY <1>1 DEF SyncInv, FifoOK, Listening, Quiet, PhaseOK
<1>5. FifoOK'
  BY <1>0, <1>1, <1>2, <1>4 DEF FifoOK, InOrder
<1>6. ReadyOK'
  BY <1>1, <1>2, <1>3, <1>4 DEF SyncInv, ReadyOK
<1>7. PhaseOK' /\ SameSession'
  BY <1>1, <1>2, <1>3, <1>4 DEF SyncInv, PhaseOK, SameSession
<1>8. AnswersOK' /\ BufferOK'
  BY <1>1, <1>2 DEF SyncInv, PhaseOK, AnswersOK, BufferOK, Start
<1>9. PlaceOK' /\ FrameOK'
  BY <1>1, <1>4 DEF PlaceOK, FrameOK
<1>10. LosslessOK'
  BY <1>1, <1>2, <1>4 DEF SyncInv, PhaseOK, LosslessOK, Underway
<1>11. OutcomeOK'
  <2>1. ~Finished
    BY <1>1 DEF SyncInv, OutcomeOK
  <2> QED
    BY <1>1, <1>2, <2>1 DEF OutcomeOK, Finished
<1> QED
  BY <1>3, <1>5, <1>6, <1>7, <1>8, <1>9, <1>10, <1>11 DEF SyncInv

(* A board in a session takes a frame: none of the session is left.         *)
LEMMA TakenQuiet ==
  ASSUME LinkInv, SyncInv, pc \in Joined, fifo # <<>>, fifo' = Tail(fifo)
  PROVE  /\ Quiet' /\ InOrder' /\ (NoEnter => NoEnter')
         /\ Head(fifo) = fifo[1] /\ Head(fifo) \in Frames
         /\ Head(fifo).id \in SessionIds => ~Quiet
         /\ ~Quiet => hpc \notin Early /\ NoEnter'
<1>1. QueuesOK /\ InOrder /\ (Quiet \/ Len(fifo) = 1) /\ (hpc \in Early => Quiet)
  BY DEF LinkInv, SyncInv, FifoOK
<1>2. Len(fifo) \in Nat \ {0} /\ Head(fifo) = fifo[1] /\ Head(fifo) \in Frames
  BY <1>1, Pop, FifoHead
<1>3. Head(fifo).id \in SessionIds => ~Quiet
  BY <1>2 DEF Quiet
<1>4. /\ InOrder' /\ (Quiet => Quiet') /\ (NoEnter => NoEnter')
      /\ Len(fifo) = 1 => Quiet' /\ fifo' = <<>>
  BY <1>1, PopOrder
<1>5. fifo' = <<>> => NoEnter'
  BY Emptied
<1> QED
  BY <1>1, <1>2, <1>3, <1>4, <1>5

(* What the steps inside a session have in common. *)
LEMMA InSync ==
  ASSUME LinkInv, IInv', [Next]_vars, SyncInv, UNCHANGED <<host, spent>>,
         pc \in Joined \ {"run"}, pc' \in Joined \ {"run"},
         Quiet', InOrder', NoEnter => NoEnter',
         pc = "auth" /\ pc' # "auth" => NoEnter' /\ hpc \notin Early,
         pc # "auth" => pc' # "auth",
         Grown, hpc \in Idle => inbox' = inbox,
         hpc \in Early /\ pc = "auth" => inbox' = inbox /\ dseq' = dseq,
         \A i \in 1 .. Len(inbox') : i > Len(inbox) =>
            /\ inbox'[i].kind \notin {"HEARTBEAT", "DONE"}
            /\ hpc \in Early => inbox'[i].kind # "READY",
         pc' = "done" /\ hpc \in Sharing => Recorded'
  PROVE  /\ FifoOK' /\ ReadyOK' /\ OutcomeOK' /\ legacy' # "confirmed"
         /\ hpc' = hpc /\ hpkg' = hpkg /\ hslot' = hslot /\ count' = count
         /\ hpos' = hpos /\ losses' = losses
         /\ hpc \in Sharing =>
              \A i \in 1 .. Len(inbox') : inbox'[i].kind \notin {"HEARTBEAT", "DONE"}
         /\ \A i \in 1 .. Len(inbox') :
              i > Len(inbox) \/ (i \in 1 .. Len(inbox) /\ inbox'[i] = inbox[i])
<1> USE DEF Joined, Preparing, Final, Early, Sharing, Engaged, Imaging
<1>1. /\ hpc' = hpc /\ hpkg' = hpkg /\ hslot' = hslot /\ count' = count
      /\ hpos' = hpos /\ losses' = losses
  BY DEF host, spent
<1>2. legacy' # "confirmed" /\ (pc = "auth" => meta' = meta)
  BY MetaSteady DEF LinkInv, SyncInv
<1>3. \A i \in 1 .. Len(inbox') :
        i > Len(inbox) \/ (i \in 1 .. Len(inbox) /\ inbox'[i] = inbox[i])
  BY DEF Grown
<1>4. hpc \in Sharing =>
        \A i \in 1 .. Len(inbox') : inbox'[i].kind \notin {"HEARTBEAT", "DONE"}
  BY <1>3 DEF SyncInv, AnswersOK
<1>5. FifoOK'
  BY <1>1 DEF SyncInv, FifoOK, Again
<1>6. ReadyOK'
  <2>1. hpc \in Idle => inbox' = <<>>
    BY DEF SyncInv, ReadyOK
  <2>2. ASSUME hpc \in Early, NEW i \in 1 .. Len(inbox'), inbox'[i].kind = "READY"
        PROVE  /\ pc' = "auth" /\ dseq' = 0
               /\ inbox'[i].slot = UpdateSlot(meta')
               /\ \A j \in 1 .. Len(inbox') : i < j => inbox'[j].kind = "READY"
    <3>1. i \in 1 .. Len(inbox) /\ inbox'[i] = inbox[i]
      BY <1>3, <2>2
    <3>2. /\ pc = "auth" /\ dseq = 0 /\ inbox[i].slot = UpdateSlot(meta)
          /\ \A j \in 1 .. Len(inbox) : i < j => inbox[j].kind = "READY"
      BY <2>2, <3>1 DEF SyncInv, ReadyOK
    <3>3. inbox' = inbox /\ dseq' = dseq /\ pc' = "auth" /\ meta' = meta
      BY <1>2, <2>2, <3>2
    <3> QED
      BY <3>1, <3>2, <3>3
  <2> QED
    BY <1>1, <2>1, <2>2 DEF ReadyOK
<1>7. OutcomeOK'
  <2>1. hpc # "confirm"
    BY DEF SyncInv, PhaseOK
  <2>2. ~Finished'
    BY <1>1, <1>4, <2>1 DEF Finished
  <2> QED
    BY <1>1, <2>2 DEF OutcomeOK
<1> QED
  BY <1>1, <1>2, <1>3, <1>4, <1>5, <1>6, <1>7

(* A frame of the manifest or of the table is stored. *)
LEMMA StoreSync ==
  ASSUME LinkInv, IInv', [Next]_vars, SyncInv, UNCHANGED <<host, spent>>, NoReport,
         \/ pc = "auth" /\ Store("AUTH", ManifestFrames, wbuf)
         \/ pc = "table" /\ Store("HASH", TableFrames, wbuf),
         fifo # <<>>
  PROVE  SyncInv'
<1> USE DEF Joined, Preparing, Final, Early, Sharing, Engaged, Imaging
<1>1. /\ pc \in {"auth", "table"} /\ pc' = pc /\ target' = target /\ pkg' = pkg
      /\ received' = received
      /\ fifo' = Tail(fifo) /\ dseq' = dseq + 1 /\ wbuf' = wbuf /\ inbox' = inbox
      /\ Head(fifo).id \in SessionIds
      /\ Head(fifo).seq = dseq
      /\ pc = "auth" => Head(fifo).id = "AUTH" /\ dseq + 1 < ManifestFrames
      /\ pc = "table" => Head(fifo).id = "HASH"
  BY DEF Store, NoReport, Took, vars, SessionIds, InSequence
<1>2. /\ Quiet' /\ InOrder' /\ (NoEnter => NoEnter') /\ Head(fifo) = fifo[1]
      /\ ~Quiet /\ hpc \notin Early /\ NoEnter'
  BY <1>1, TakenQuiet
<1>3. /\ FifoOK' /\ ReadyOK' /\ OutcomeOK' /\ legacy' # "confirmed"
      /\ hpc' = hpc /\ hpkg' = hpkg /\ hslot' = hslot /\ count' = count
      /\ hpos' = hpos /\ losses' = losses
  <2>1. Grown /\ \A i \in 1 .. Len(inbox') : ~(i > Len(inbox))
    BY <1>1, Unheard DEF LinkInv
  <2> QED
    BY <1>1, <1>2, <2>1, InSync
<1>4. dseq \in Nat /\ count \in Nat /\ ManifestFrames \in Nat
  BY LinkAssumption DEF LinkInv, BoardOK, HostOK
<1>5. /\ pc = "table" => hpc # "authWait"
      /\ pc = "auth" /\ hpc = "auth" => count = dseq + 1
      /\ pc = "auth" => hpc \notin {"authWait", "table", "tableWait"}
      /\ pc = "table" /\ hpc = "table" => count = dseq + 1
  <2>1. pc = "auth" /\ hpc \in {"auth", "authWait", "table", "tableWait"} =>
          dseq + 1 = IF hpc = "auth" THEN count ELSE ManifestFrames
    BY <1>1, <1>2 DEF SyncInv, FrameOK
  <2>2. /\ pc = "table" => hpc # "authWait"
        /\ pc = "table" /\ hpc = "table" => dseq + 1 = count
    BY <1>1, <1>2 DEF SyncInv, FrameOK
  <2> QED
    BY <1>1, <1>4, <2>1, <2>2
<1>6. PhaseOK' /\ SameSession'
  BY <1>1, <1>3, <1>5 DEF SyncInv, PhaseOK, SameSession
<1>7. AnswersOK' /\ BufferOK'
  BY <1>1, <1>2, <1>3 DEF SyncInv, AnswersOK, BufferOK, Start
<1>8. PlaceOK' /\ FrameOK'
  BY <1>1, <1>2 DEF PlaceOK, FrameOK
<1>9. LosslessOK'
  BY <1>1, <1>2, <1>3, <1>5 DEF LosslessOK, Underway
<1> QED
  BY <1>3, <1>6, <1>7, <1>8, <1>9 DEF SyncInv

(* The manifest is complete and accepted. *)
LEMMA ManifestSync ==
  ASSUME LinkInv, IInv', [Next]_vars, SyncInv, UNCHANGED <<host, spent>>,
         fifo # <<>>, Head(fifo).id = "AUTH", InSequence(Head(fifo)),
         dseq + 1 = ManifestFrames, ReceiveManifest(Head(fifo).pkg), pc' = "table",
         Report(<<"READY">>), Took(0, <<>>)
  PROVE  SyncInv'
<1> USE DEF Joined, Preparing, Final, Early, Sharing, Engaged, Imaging
<1>1. /\ pc = "auth" /\ target' = target /\ pkg' = Head(fifo).pkg
      /\ fifo' = Tail(fifo) /\ dseq' = 0 /\ wbuf' = <<>>
      /\ Head(fifo).seq = dseq
  BY DEF ReceiveManifest, Took, InSequence
<1>2. /\ Quiet' /\ InOrder' /\ (NoEnter => NoEnter') /\ Head(fifo) = fifo[1]
      /\ ~Quiet /\ hpc \notin Early /\ NoEnter'
  BY <1>1, TakenQuiet DEF SessionIds
<1>3. /\ Grown /\ (hpc \in Idle => inbox' = inbox)
      /\ \A i \in 1 .. Len(inbox') : i > Len(inbox) => inbox'[i].kind = "READY"
  <2>1. "READY" \in Statuses
    BY DEF Statuses
  <2>2. /\ Grown /\ (hpc \in Idle => inbox' = inbox)
        /\ \A i \in 1 .. Len(inbox') : i > Len(inbox) => inbox'[i] = Status("READY")
    BY <2>1, ReportOne DEF LinkInv
  <2>3. Status("READY").kind = "READY"
    BY DEF Status
  <2> QED
    BY <2>2, <2>3
<1>4. /\ FifoOK' /\ ReadyOK' /\ OutcomeOK' /\ legacy' # "confirmed"
      /\ hpc' = hpc /\ hpkg' = hpkg /\ hslot' = hslot /\ count' = count
      /\ hpos' = hpos /\ losses' = losses
      /\ hpc \in Sharing =>
           \A i \in 1 .. Len(inbox') : inbox'[i].kind \notin {"HEARTBEAT", "DONE"}
      /\ \A i \in 1 .. Len(inbox') :
           i > Len(inbox) \/ (i \in 1 .. Len(inbox) /\ inbox'[i] = inbox[i])
  BY <1>1, <1>2, <1>3, InSync
<1>5. hpc # "auth" /\ (hpc \in {"authWait", "table", "tableWait"} => pkg' = hpkg)
  <2>1. dseq \in Nat /\ count \in Nat /\ ManifestFrames \in Nat
    BY LinkAssumption DEF LinkInv, BoardOK, HostOK
  <2>2. hpc \in {"auth", "authWait", "table", "tableWait"} =>
          /\ fifo[1].pkg = hpkg
          /\ dseq + 1 = IF hpc = "auth" THEN count ELSE ManifestFrames
    BY <1>1, <1>2 DEF SyncInv, FrameOK
  <2>3. hpc = "auth" => count < ManifestFrames
    BY DEF SyncInv, PhaseOK
  <2> QED
    BY <1>1, <1>2, <2>1, <2>2, <2>3
<1>6. PhaseOK' /\ SameSession'
  BY <1>1, <1>4, <1>5 DEF SyncInv, PhaseOK, SameSession
<1>7. AnswersOK'
  BY <1>1, <1>2, <1>3, <1>4 DEF SyncInv, AnswersOK
<1>8. PlaceOK' /\ FrameOK' /\ BufferOK'
  BY <1>1, <1>2, EmptySeq DEF PlaceOK, FrameOK, BufferOK
<1>9. LosslessOK'
  <2>1. losses = 0 /\ hpc = "table" => count = 0
    BY <1>1 DEF SyncInv, LosslessOK
  <2> QED
    BY <1>1, <1>2, <1>4, <2>1 DEF LosslessOK, Underway
<1> QED
  BY <1>4, <1>6, <1>7, <1>8, <1>9 DEF SyncInv

(* The table is complete and right. *)
LEMMA TableSync ==
  ASSUME LinkInv, IInv', [Next]_vars, SyncInv, UNCHANGED <<host, spent>>,
         fifo # <<>>, Head(fifo).id = "HASH", InSequence(Head(fifo)),
         dseq + 1 = TableFrames, ReceiveTable, Report(<<>>), Took(0, <<>>)
  PROVE  SyncInv'
<1> USE DEF Joined, Preparing, Final, Early, Sharing, Engaged, Imaging
<1>1. /\ pc = "table" /\ pc' = "prepare" /\ target' = target /\ pkg' = pkg
      /\ fifo' = Tail(fifo) /\ dseq' = 0 /\ wbuf' = <<>>
      /\ Head(fifo).seq = dseq
  BY DEF ReceiveTable, Took, InSequence, session
<1>2. /\ Quiet' /\ InOrder' /\ (NoEnter => NoEnter') /\ Head(fifo) = fifo[1]
      /\ ~Quiet /\ hpc \notin Early /\ NoEnter'
  BY <1>1, TakenQuiet DEF SessionIds
<1>3. inbox' = inbox /\ Grown /\ \A i \in 1 .. Len(inbox') : ~(i > Len(inbox))
  BY ReportNone, Unheard DEF LinkInv
<1>4. /\ FifoOK' /\ ReadyOK' /\ OutcomeOK' /\ legacy' # "confirmed"
      /\ hpc' = hpc /\ hpkg' = hpkg /\ hslot' = hslot /\ count' = count
      /\ hpos' = hpos /\ losses' = losses
  BY <1>1, <1>2, <1>3, InSync
<1>5. hpc \notin {"authWait", "table"}
  <2>1. dseq \in Nat /\ count \in Nat /\ TableFrames \in Nat
    BY LinkAssumption DEF LinkInv, BoardOK, HostOK
  <2>2. hpc # "authWait" /\ (hpc = "table" => dseq + 1 = count /\ count < TableFrames)
    BY <1>1, <1>2 DEF SyncInv, FrameOK, PhaseOK
  <2> QED
    BY <2>1, <2>2
<1>6. PhaseOK' /\ SameSession'
  BY <1>1, <1>4, <1>5 DEF SyncInv, PhaseOK, SameSession
<1>7. AnswersOK'
  BY <1>1, <1>2, <1>3, <1>4 DEF SyncInv, AnswersOK
<1>8. PlaceOK' /\ FrameOK' /\ BufferOK'
  BY <1>1, <1>2, EmptySeq DEF PlaceOK, FrameOK, BufferOK
<1>9. LosslessOK'
  BY <1>1, <1>2, <1>4 DEF LosslessOK
<1> QED
  BY <1>4, <1>6, <1>7, <1>8, <1>9 DEF SyncInv

(* prepare_resumable_write. *)
LEMMA PrepareSync ==
  ASSUME LinkInv, IInv', [Next]_vars, SyncInv, UNCHANGED <<host, spent>>,
         PrepareWrite, pc' \in Joined
  PROVE  SyncInv'
<1> USE DEF Joined, Preparing, Final, Early, Sharing, Engaged, Imaging
<1>1. /\ pc \in Preparing /\ pc' \in Preparing \cup {"receive"}
      /\ target' = target /\ pkg' = pkg
      /\ fifo' = fifo /\ dseq' = 0 /\ wbuf' = <<>>
  <2>1. pc \in Preparing /\ pc' \in Preparing \cup {"receive"} /\ target' = target /\ pkg' = pkg
    BY DEF PrepareWrite, Prepare, EraseArea, Begin, Truncate, EraseBlock,
           WriteJournal, AfterAppend, session
  <2> QED
    BY <2>1 DEF PrepareWrite
<1>2. /\ Quiet /\ Quiet' /\ InOrder' /\ (NoEnter => NoEnter')
      /\ hpc \notin Imaging \cup {"auth", "authWait", "table", "confirm"}
  <2>1. Quiet /\ InOrder
    BY <1>1 DEF SyncInv, FifoOK, Listening
  <2>2. hpc \notin Imaging \cup {"auth", "authWait", "table", "confirm"}
    BY <1>1 DEF SyncInv, PhaseOK
  <2> QED
    BY <1>1, <2>1, <2>2 DEF Quiet, InOrder, NoEnter
<1>3. /\ Grown /\ (hpc \in Idle => inbox' = inbox)
      /\ \A i \in 1 .. Len(inbox') : i > Len(inbox) =>
           \/ inbox'[i].kind = "ERASING"
           \/ /\ inbox'[i].kind = "WRITING" /\ inbox'[i].n = received'
              /\ pc' = "receive" /\ i = Len(inbox')
  <2>1. {"ERASING", "WRITING"} \subseteq Statuses
    BY DEF Statuses
  <2>2. /\ Status("ERASING").kind = "ERASING"
        /\ Status("WRITING").kind = "WRITING" /\ Status("WRITING").n = received'
    BY DEF Status
  <2>3. QueuesOK
    BY DEF LinkInv
  <2>4. CASE pc' = "receive" /\ Report(<<"ERASING">> \o <<"WRITING">>)
    <3>1. /\ Grown /\ (hpc \in Idle => inbox' = inbox)
          /\ \A i \in 1 .. Len(inbox') : i > Len(inbox) =>
               \/ inbox'[i] = Status("ERASING")
               \/ i = Len(inbox') /\ inbox'[i] = Status("WRITING")
      BY <2>1, <2>3, <2>4, ReportTwo
    <3> QED
      BY <2>2, <2>4, <3>1
  <2>5. CASE pc' = "receive" /\ Report(<<"WRITING">>)
    <3>1. /\ Grown /\ (hpc \in Idle => inbox' = inbox)
          /\ \A i \in 1 .. Len(inbox') : i > Len(inbox) =>
               i = Len(inbox') /\ inbox'[i] = Status("WRITING")
      BY <2>1, <2>3, <2>5, ReportOne
    <3> QED
      BY <2>2, <2>5, <3>1
  <2>6. CASE Report(<<"ERASING">>)
    <3>1. /\ Grown /\ (hpc \in Idle => inbox' = inbox)
          /\ \A i \in 1 .. Len(inbox') : i > Len(inbox) =>
               i = Len(inbox') /\ inbox'[i] = Status("ERASING")
      BY <2>1, <2>3, <2>6, ReportOne
    <3> QED
      BY <2>2, <3>1
  <2>7. CASE Report(<<>>)
    BY <2>3, <2>7, ReportNone, Unheard
  <2>8. <<"ERASING">> \o <<>> = <<"ERASING">>
    BY <2>1, Shorts
  <2> QED
    BY <1>1, <2>4, <2>5, <2>6, <2>7, <2>8 DEF PrepareWrite, ErrorOr
<1>4. /\ FifoOK' /\ ReadyOK' /\ OutcomeOK' /\ legacy' # "confirmed"
      /\ hpc' = hpc /\ hpkg' = hpkg /\ hslot' = hslot /\ count' = count
      /\ hpos' = hpos /\ losses' = losses
      /\ hpc \in Sharing =>
           \A i \in 1 .. Len(inbox') : inbox'[i].kind \notin {"HEARTBEAT", "DONE"}
      /\ \A i \in 1 .. Len(inbox') :
           i > Len(inbox) \/ (i \in 1 .. Len(inbox) /\ inbox'[i] = inbox[i])
  BY <1>1, <1>2, <1>3, InSync
<1>5. PhaseOK' /\ SameSession'
  BY <1>1, <1>2, <1>4 DEF SyncInv, PhaseOK, SameSession
<1>6. AnswersOK'
  <2>1. hpc = "tableWait" => \A i \in 1 .. Len(inbox) : inbox[i].kind # "WRITING"
    BY <1>1 DEF SyncInv, AnswersOK
  <2> QED
    BY <1>1, <1>2, <1>3, <1>4, <2>1 DEF AnswersOK
<1>7. BufferOK'
  <2>1. FramesPerBlock \in Nat \ {0} /\ Len(<<>>) = 0
    BY LinkAssumption, EmptySeq
  <2> QED
    BY <1>1, <2>1 DEF BufferOK
<1>8. PlaceOK' /\ FrameOK' /\ LosslessOK'
  BY <1>1, <1>2, <1>4 DEF PlaceOK, FrameOK, LosslessOK
<1> QED
  BY <1>4, <1>5, <1>6, <1>7, <1>8 DEF SyncInv

(* Positions of pages. *)
LEMMA StartNat ==
  ASSUME IInv
  PROVE  Start \in Nat
<1>1. received \in Nat /\ FramesPerBlock \in Nat
  BY BootAssumption, LinkAssumption DEF IInv, TypeOK
<1>2. \A m, n \in Nat : m * n \in Nat
  OBVIOUS
<1> QED
  BY <1>1, <1>2 DEF Start

(* The frame of the session a board takes during the transmission is in its *)
(* place.                                                                   *)
LEMMA DataTaken ==
  ASSUME LinkInv, SyncInv, pc = "receive", BlockExpected,
         fifo # <<>>, fifo' = Tail(fifo), Head(fifo).id = "DATA", InSequence(Head(fifo))
  PROVE  /\ Head(fifo) = fifo[1] /\ Head(fifo) \in Frames /\ ~Quiet
         /\ Quiet' /\ InOrder' /\ (NoEnter => NoEnter')
         /\ Len(wbuf) \in Nat /\ Start \in Nat /\ dseq \in Nat /\ count \in Nat /\ hpos \in Nat
         /\ fifo[1].pos = Start + Len(wbuf)
         /\ hpc \in Idle \cup {"data", "dataWait"}
         /\ hpc \in Imaging => count = dseq + 1 /\ hpos = Start + Len(wbuf) + 1
         /\ hpc = "data" => ~WaitHere(dseq, hpos)
         /\ hpc \in Imaging => Len(inbox) = 0
<1> USE DEF Joined, Preparing, Final, Early, Sharing, Engaged, Imaging
<1>1. /\ Quiet' /\ InOrder' /\ (NoEnter => NoEnter') /\ Head(fifo) = fifo[1]
      /\ Head(fifo) \in Frames /\ ~Quiet /\ hpc \notin Early
  BY TakenQuiet DEF SessionIds
<1>2. /\ Len(wbuf) \in Nat /\ Start \in Nat /\ dseq \in Nat /\ count \in Nat /\ hpos \in Nat
      /\ fifo[1].pos \in Nat /\ fifo[1].seq = dseq /\ hpc \in HostPCs
  BY <1>1, StartNat, ImageFramesPositive, LinkAssumption, LenProperties
  DEF LinkInv, BoardOK, HostOK, Frames, Positions, InSequence
<1>3. fifo[1].pos = Start + Len(wbuf)
  BY <1>1, <1>2 DEF SyncInv, FrameOK, Place
<1>4. hpc \in Idle \cup {"data", "dataWait"}
  BY <1>1, <1>2 DEF SyncInv, PhaseOK, AnswersOK, HostPCs, Waiting
<1>5. hpc \in Imaging =>
        /\ dseq + 1 = count /\ fifo[1].pos + 1 = hpos
        /\ hpc = "data" => ~WaitHere(dseq, hpos)
  BY <1>1, <1>2 DEF SyncInv, FrameOK
<1>6. hpc \in Imaging => Len(inbox) = 0
  BY <1>1, <1>4 DEF SyncInv, AnswersOK, Idle
<1> QED
  BY <1>1, <1>2, <1>3, <1>4, <1>5, <1>6 DEF Idle

(* A frame of a page is stored. *)
LEMMA DataSync ==
  ASSUME LinkInv, IInv', [Next]_vars, SyncInv, UNCHANGED <<host, spent>>,
         pc = "receive", BlockExpected, fifo # <<>>,
         NEW buffer, buffer = Append(wbuf, Head(fifo).pos),
         Len(buffer) < FramesPerBlock,
         Store("DATA", ImageFrames, buffer),
         Report(IF ReportHere(dseq, received * FramesPerBlock + Len(buffer))
                  THEN <<"WRITING">> ELSE <<>>)
  PROVE  SyncInv'
<1> USE DEF Joined, Preparing, Final, Early, Sharing, Engaged, Imaging
<1>1. /\ pc' = "receive" /\ target' = target /\ pkg' = pkg /\ received' = received
      /\ fifo' = Tail(fifo) /\ dseq' = dseq + 1 /\ wbuf' = buffer
      /\ Head(fifo).id = "DATA" /\ InSequence(Head(fifo))
  BY DEF Store, Took, vars
<1>2. /\ Quiet' /\ InOrder' /\ (NoEnter => NoEnter') /\ ~Quiet
      /\ Head(fifo) \in Frames /\ Head(fifo) = fifo[1]
      /\ Len(wbuf) \in Nat /\ Start \in Nat /\ dseq \in Nat /\ count \in Nat /\ hpos \in Nat
      /\ fifo[1].pos = Start + Len(wbuf)
      /\ hpc \in Idle \cup {"data", "dataWait"}
      /\ hpc \in Imaging => count = dseq + 1 /\ hpos = Start + Len(wbuf) + 1
      /\ hpc = "data" => ~WaitHere(dseq, hpos)
      /\ hpc \in Imaging => Len(inbox) = 0
  BY <1>1, DataTaken
<1>3. /\ Len(buffer) = Len(wbuf) + 1
      /\ \A i \in 1 .. Len(buffer) : buffer[i] = Start + i - 1
  <2>1. wbuf \in Seq(Positions) /\ Head(fifo).pos \in Positions
    BY <1>2 DEF LinkInv, BoardOK, Frames
  <2>2. /\ Len(buffer) = Len(wbuf) + 1
        /\ \A i \in 1 .. Len(wbuf) : buffer[i] = wbuf[i]
        /\ buffer[Len(wbuf) + 1] = Head(fifo).pos
    BY <2>1, AppendProperties
  <2>3. \A i \in 1 .. Len(wbuf) : wbuf[i] = Start + i - 1
    BY DEF SyncInv, BufferOK
  <2>4. \A i \in 1 .. Len(wbuf) + 1 : i \in 1 .. Len(wbuf) \/ i = Len(wbuf) + 1
    BY <1>2
  <2>5. fifo[1].pos = Start + (Len(wbuf) + 1) - 1
    BY <1>2
  <2> QED
    BY <1>2, <2>2, <2>3, <2>4, <2>5
<1>4. /\ Grown /\ (hpc \in Idle => inbox' = inbox)
      /\ \A i \in 1 .. Len(inbox') : i > Len(inbox) => inbox'[i].kind = "WRITING"
      /\ hpc = "data" => inbox' = inbox
      /\ hpc = "dataWait" => Len(inbox') \in {0, 1}
  <2>1. "WRITING" \in Statuses /\ Status("WRITING").kind = "WRITING" /\ QueuesOK
    BY DEF Statuses, Status, LinkInv
  <2>2. hpc = "data" => ~ReportHere(dseq, received * FramesPerBlock + Len(buffer))
    <3>1. hpc = "data" => hpos = received * FramesPerBlock + Len(buffer)
      BY <1>2, <1>3 DEF Start
    <3> QED
      BY <1>2, <3>1 DEF WaitHere, ReportHere
  <2>3. CASE ReportHere(dseq, received * FramesPerBlock + Len(buffer)) /\ Report(<<"WRITING">>)
    <3>1. /\ Grown /\ (hpc \in Idle => inbox' = inbox)
          /\ hpc \notin Idle => Len(inbox') = Len(inbox) + 1
          /\ \A i \in 1 .. Len(inbox') : i > Len(inbox) => inbox'[i] = Status("WRITING")
      BY <2>1, <2>3, ReportOne
    <3>2. \A i \in 1 .. Len(inbox') : i > Len(inbox) => inbox'[i].kind = "WRITING"
      BY <2>1, <3>1
    <3>3. hpc # "data"
      BY <2>2, <2>3
    <3>4. hpc = "dataWait" => Len(inbox') = 1
      BY <1>2, <3>1 DEF Idle
    <3> QED
      BY <3>1, <3>2, <3>3, <3>4
  <2>4. CASE Report(<<>>)
    BY <1>2, <2>1, <2>4, ReportNone, Unheard DEF Idle
  <2> QED
    BY <2>3, <2>4
<1>5. /\ FifoOK' /\ ReadyOK' /\ OutcomeOK' /\ legacy' # "confirmed"
      /\ hpc' = hpc /\ hpkg' = hpkg /\ hslot' = hslot /\ count' = count
      /\ hpos' = hpos /\ losses' = losses
      /\ hpc \in Sharing =>
           \A i \in 1 .. Len(inbox') : inbox'[i].kind \notin {"HEARTBEAT", "DONE"}
  BY <1>1, <1>2, <1>4, InSync DEF Idle
<1>6. PhaseOK' /\ SameSession'
  BY <1>1, <1>2, <1>5 DEF SyncInv, PhaseOK, SameSession, BlockExpected, Idle
<1>7. AnswersOK'
  BY <1>1, <1>2, <1>4, <1>5 DEF AnswersOK, Idle
<1>8. BufferOK'
  BY <1>1, <1>3 DEF BufferOK, Start, BlockExpected
<1>9. PlaceOK' /\ LosslessOK'
  <2>1. Place' = Start + Len(wbuf) + 1 /\ Taken' = dseq + 1
    BY <1>1, <1>2, <1>3 DEF Place, Taken, Start
  <2>2. PlaceOK'
    <3>1. hpc \in Imaging => hpos + (dseq + 1) = count + (Start + Len(wbuf) + 1)
                             /\ hpos >= Start + Len(wbuf) + 1
      BY <1>2
    <3>2. hpc \in Imaging => hpos + Taken' = count + Place' /\ hpos >= Place'
      BY <2>1, <3>1
    <3> QED
      BY <1>2, <1>5, <3>2 DEF PlaceOK
  <2> QED
    BY <1>1, <1>2, <1>5, <2>1, <2>2 DEF LosslessOK, Underway, Idle
<1>10. FrameOK'
  BY <1>2 DEF FrameOK
<1> QED
  BY <1>5, <1>6, <1>7, <1>8, <1>9, <1>10 DEF SyncInv

(* The end of a page is a multiple of its length. *)
LEMMA PageEnd ==
  ASSUME NEW m \in Nat, NEW f \in Nat \ {0}
  PROVE  /\ (m + 1) * f = m * f + f
         /\ (m * f + f) % f = 0
<1>1. (m + 1) * f = m * f + f
  OBVIOUS
<1> DEFINE x == m * f + f
           q == x \div f
           r == x % f
<1>2. x \in Nat /\ q \in Int /\ r \in 0 .. (f - 1) /\ x = f * q + r
  OBVIOUS
<1> HIDE DEF q, r
<1> DEFINE k == m + 1 - q
<1>3. k \in Int /\ r = k * f
  BY <1>1, <1>2
<1> HIDE DEF k, x
<1>4. k >= 1 => k * f >= f
  BY <1>3
<1>5. k <= -1 => k * f <= -f
  BY <1>3
<1>6. k = 0
  BY <1>2, <1>3, <1>4, <1>5
<1>7. r = 0
  BY <1>3, <1>6
<1> QED
  BY <1>1, <1>7 DEF r, x

(* A page is full and its content is right. *)
LEMMA BlockSync ==
  ASSUME LinkInv, IInv', [Next]_vars, SyncInv, UNCHANGED <<host, spent>>,
         pc = "receive", BlockExpected, fifo # <<>>, pc' = "mark",
         NEW buffer, buffer = Append(wbuf, Head(fifo).pos),
         Len(buffer) = FramesPerBlock,
         Head(fifo).id = "DATA", InSequence(Head(fifo)),
         ReceiveBlock(PageContent(buffer)),
         Report((IF LastInPage THEN <<"WRITING">> ELSE <<>>) \o ErrorOr(<<>>)),
         Took(dseq, <<>>)
  PROVE  SyncInv'
<1> USE DEF Joined, Preparing, Final, Early, Sharing, Engaged, Imaging
<1>1. /\ target' = target /\ pkg' = pkg /\ received' = received
      /\ fifo' = Tail(fifo) /\ dseq' = dseq /\ wbuf' = <<>>
  BY DEF ReceiveBlock, Took
<1>2. /\ Quiet' /\ InOrder' /\ (NoEnter => NoEnter') /\ ~Quiet
      /\ Head(fifo) \in Frames
      /\ Len(wbuf) \in Nat /\ Start \in Nat /\ dseq \in Nat /\ count \in Nat /\ hpos \in Nat
      /\ hpc \in Idle \cup {"data", "dataWait"}
      /\ hpc \in Imaging => count = dseq + 1 /\ hpos = Start + Len(wbuf) + 1
      /\ hpc = "data" => ~WaitHere(dseq, hpos)
      /\ hpc \in Imaging => Len(inbox) = 0
  BY <1>1, DataTaken
<1>3. Len(wbuf) + 1 = FramesPerBlock
  <2>1. wbuf \in Seq(Positions) /\ Head(fifo).pos \in Positions
    BY <1>2 DEF LinkInv, BoardOK, Frames
  <2> QED
    BY <2>1, AppendProperties
<1>4. hpc # "data"
  <2>1. received \in Nat /\ FramesPerBlock \in Nat \ {0}
    BY LinkAssumption, BootAssumption DEF LinkInv, IInv, TypeOK
  <2>2. (received * FramesPerBlock + FramesPerBlock) % FramesPerBlock = 0
    BY <2>1, PageEnd
  <2>3. hpc = "data" => hpos = received * FramesPerBlock + FramesPerBlock
    BY <1>2, <1>3, <2>1 DEF Start
  <2> QED
    BY <1>2, <2>2, <2>3 DEF WaitHere
<1>5. /\ Grown /\ (hpc \in Idle => inbox' = inbox)
      /\ \A i \in 1 .. Len(inbox') : i > Len(inbox) => inbox'[i].kind = "WRITING"
      /\ hpc = "dataWait" => Len(inbox') = 0 \/ (Len(inbox') = 1 /\ LastInPage')
  <2>1. "WRITING" \in Statuses /\ Status("WRITING").kind = "WRITING" /\ QueuesOK
    BY DEF Statuses, Status, LinkInv
  <2>2. <<"WRITING">> \o <<>> = <<"WRITING">> /\ <<>> \o <<>> = <<>>
    BY <2>1, Shorts
  <2>3. LastInPage' = LastInPage
    BY <1>1 DEF LastInPage
  <2>4. CASE LastInPage /\ Report(<<"WRITING">>)
    <3>1. /\ Grown /\ (hpc \in Idle => inbox' = inbox)
          /\ hpc \notin Idle => Len(inbox') = Len(inbox) + 1
          /\ \A i \in 1 .. Len(inbox') : i > Len(inbox) => inbox'[i] = Status("WRITING")
      BY <2>1, <2>4, ReportOne
    <3>2. \A i \in 1 .. Len(inbox') : i > Len(inbox) => inbox'[i].kind = "WRITING"
      BY <2>1, <3>1
    <3>3. hpc = "dataWait" => Len(inbox') = 1
      BY <1>2, <3>1 DEF Idle
    <3> QED
      BY <2>3, <2>4, <3>1, <3>2, <3>3
  <2>5. CASE Report(<<>>)
    BY <1>2, <2>1, <2>5, ReportNone, Unheard
  <2> QED
    BY <2>2, <2>4, <2>5 DEF ErrorOr
<1>6. /\ FifoOK' /\ ReadyOK' /\ OutcomeOK' /\ legacy' # "confirmed"
      /\ hpc' = hpc /\ hpkg' = hpkg /\ hslot' = hslot /\ count' = count
      /\ hpos' = hpos /\ losses' = losses
      /\ hpc \in Sharing =>
           \A i \in 1 .. Len(inbox') : inbox'[i].kind \notin {"HEARTBEAT", "DONE"}
  BY <1>1, <1>2, <1>5, InSync DEF Idle
<1>7. PhaseOK' /\ SameSession'
  BY <1>1, <1>2, <1>4, <1>6 DEF SyncInv, PhaseOK, SameSession, Idle
<1>8. AnswersOK'
  BY <1>1, <1>2, <1>4, <1>5, <1>6 DEF AnswersOK, Idle
<1>9. BufferOK'
  BY <1>1, EmptySeq DEF BufferOK
<1>10. PlaceOK' /\ LosslessOK'
  <2>1. FramesPerBlock \in Nat /\ Place' = Start + FramesPerBlock /\ Taken' = dseq + 1
    BY <1>1, LinkAssumption DEF Place, Taken, Start
  <2>2. hpc \in Imaging => hpos + Taken' = count + Place' /\ hpos = Place'
    BY <1>2, <1>3, <2>1
  <2>3. Place' \in Nat
    BY <1>2, <2>1
  <2>4. PlaceOK'
    BY <1>2, <1>6, <2>2, <2>3 DEF PlaceOK
  <2> QED
    BY <1>1, <1>2, <1>6, <2>2, <2>3, <2>4 DEF LosslessOK, Underway, Idle
<1>11. FrameOK'
  BY <1>2 DEF FrameOK
<1> QED
  BY <1>6, <1>7, <1>8, <1>9, <1>10, <1>11 DEF SyncInv

(* The page is recorded. *)
LEMMA PageSync ==
  ASSUME LinkInv, IInv', [Next]_vars, SyncInv, UNCHANGED <<host, spent>>,
         PageDone, pc' \in Joined
  PROVE  SyncInv'
<1> USE DEF Joined, Preparing, Final, Early, Sharing, Engaged, Imaging
<1>1. /\ pc = "mark" /\ pc' = "receive" /\ target' = target /\ pkg' = pkg
      /\ received' = received + 1
      /\ fifo' = fifo /\ dseq' = dseq + 1 /\ wbuf' = wbuf
  BY DEF PageDone, MarkBlock, WriteJournal, AfterAppend
<1>2. /\ Quiet /\ Quiet' /\ InOrder' /\ (NoEnter => NoEnter') /\ wbuf = <<>>
      /\ hpc \notin {"auth", "authWait", "table", "tableWait", "data", "confirm"}
  <2>1. Quiet /\ InOrder /\ wbuf = <<>>
    BY <1>1 DEF SyncInv, FifoOK, Listening, BufferOK
  <2>2. hpc \notin {"auth", "authWait", "table", "tableWait", "data", "confirm"}
    BY <1>1 DEF SyncInv, PhaseOK
  <2> QED
    BY <1>1, <2>1, <2>2 DEF Quiet, InOrder, NoEnter
<1>3. /\ Grown /\ (hpc \in Idle => inbox' = inbox)
      /\ \A i \in 1 .. Len(inbox') : i > Len(inbox) => inbox'[i].kind = "WRITING"
      /\ hpc = "dataWait" => Len(inbox') \in {0, 1}
  <2>1. "WRITING" \in Statuses /\ Status("WRITING").kind = "WRITING" /\ QueuesOK
    BY DEF Statuses, Status, LinkInv
  <2>2. hpc = "dataWait" => Len(inbox) = 0 \/ (Len(inbox) = 1 /\ LastInPage)
    BY <1>1 DEF SyncInv, AnswersOK
  <2>3. CASE ~LastInPage /\ Report(<<"WRITING">>)
    <3>1. /\ Grown /\ (hpc \in Idle => inbox' = inbox)
          /\ hpc \notin Idle => Len(inbox') = Len(inbox) + 1
          /\ \A i \in 1 .. Len(inbox') : i > Len(inbox) => inbox'[i] = Status("WRITING")
      BY <2>1, <2>3, ReportOne
    <3>2. \A i \in 1 .. Len(inbox') : i > Len(inbox) => inbox'[i].kind = "WRITING"
      BY <2>1, <3>1
    <3>3. hpc = "dataWait" => Len(inbox') = 1
      BY <2>2, <2>3, <3>1 DEF Idle
    <3> QED
      BY <3>1, <3>2, <3>3
  <2>4. CASE Report(<<>>)
    BY <2>1, <2>2, <2>4, ReportNone, Unheard
  <2> QED
    BY <1>1, <2>3, <2>4 DEF PageDone, ErrorOr
<1>4. /\ FifoOK' /\ ReadyOK' /\ OutcomeOK' /\ legacy' # "confirmed"
      /\ hpc' = hpc /\ hpkg' = hpkg /\ hslot' = hslot /\ count' = count
      /\ hpos' = hpos /\ losses' = losses
      /\ hpc \in Sharing =>
           \A i \in 1 .. Len(inbox') : inbox'[i].kind \notin {"HEARTBEAT", "DONE"}
  BY <1>1, <1>2, <1>3, InSync
<1>5. PhaseOK' /\ SameSession'
  BY <1>1, <1>2, <1>4 DEF SyncInv, PhaseOK, SameSession
<1>6. AnswersOK'
  BY <1>1, <1>2, <1>3, <1>4 DEF AnswersOK
<1>7. BufferOK'
  <2>1. FramesPerBlock \in Nat \ {0} /\ Len(<<>>) = 0
    BY LinkAssumption, EmptySeq
  <2> QED
    BY <1>1, <1>2, <2>1 DEF BufferOK
<1>8. PlaceOK' /\ LosslessOK'
  <2>1. received \in Nat /\ FramesPerBlock \in Nat \ {0} /\ Start \in Nat
    BY LinkAssumption, BootAssumption, StartNat DEF LinkInv, IInv, TypeOK
  <2>2. Start' = Start + FramesPerBlock
    BY <1>1, <2>1, PageEnd DEF Start
  <2>3. Place' = Place /\ Place \in Nat /\ Taken' = Taken
    BY <1>1, <1>2, <2>1, <2>2, EmptySeq DEF Place, Taken
  <2>4. PlaceOK'
    BY <1>1, <1>2, <1>4, <2>3 DEF SyncInv, PlaceOK
  <2> QED
    BY <1>1, <1>2, <1>4, <2>3, <2>4 DEF SyncInv, LosslessOK, Underway
<1>9. FrameOK'
  BY <1>2 DEF FrameOK
<1> QED
  BY <1>4, <1>5, <1>6, <1>7, <1>8, <1>9 DEF SyncInv

(* The image is verified, the resume record completed, the candidate set. *)
LEMMA FinalSync ==
  ASSUME LinkInv, IInv', [Next]_vars, SyncInv, UNCHANGED <<host, spent>>,
         Finalise, pc' \in Joined
  PROVE  SyncInv'
<1> USE DEF Joined, Preparing, Final, Early, Sharing, Engaged, Imaging
<1>1. /\ \/ pc = "receive" /\ ~BlockExpected /\ received = NBlocks
         \/ pc \in {"complete", "candidate"}
      /\ pc' \in Final /\ (pc' # "done" => pkg' = pkg /\ received' = received)
      /\ target' = target
      /\ pc' = "done" => pc = "candidate" /\ meta' = CandidateMeta
      /\ fifo' = fifo /\ dseq' = dseq /\ wbuf' = wbuf
  <2>1. pc' \notin {"off", "recovery", "boot"}
    OBVIOUS
  <2>2. /\ fifo' = fifo /\ dseq' = dseq /\ wbuf' = wbuf
    BY <2>1 DEF Finalise, NoFrame
  <2>3. ~ReportDone /\ ~ReportRollback
    BY DEF ReportDone, ReportRollback
  <2>4. CASE Verify
    <3>1. NBlocks \in Nat
      BY BootAssumption
    <3> QED
      BY <2>2, <2>4, <3>1 DEF Verify, BlockExpected
  <2>5. CASE Complete
    BY <2>2, <2>5 DEF Complete, WriteJournal, AfterAppend
  <2>6. CASE SetCandidate
    BY <2>2, <2>6 DEF SetCandidate, WriteMeta
  <2> QED
    BY <2>3, <2>4, <2>5, <2>6 DEF Finalise
<1>2. /\ Quiet /\ Quiet' /\ InOrder' /\ (NoEnter => NoEnter') /\ wbuf = <<>>
      /\ hpc \notin {"auth", "authWait", "table", "data", "confirm"}
  <2>1. Quiet /\ InOrder /\ wbuf = <<>>
    BY <1>1 DEF SyncInv, FifoOK, Listening, BufferOK
  <2>2. hpc \notin {"auth", "authWait", "table", "data", "confirm"}
    BY <1>1 DEF SyncInv, PhaseOK
  <2> QED
    BY <1>1, <2>1, <2>2 DEF Quiet, InOrder, NoEnter
<1>3. /\ Grown /\ (hpc \in Idle => inbox' = inbox)
      /\ \A i \in 1 .. Len(inbox') : i > Len(inbox) => inbox'[i].kind = "VERIFY"
  <2>1. "VERIFY" \in Statuses /\ Status("VERIFY").kind = "VERIFY" /\ QueuesOK
    BY DEF Statuses, Status, LinkInv
  <2>2. <<"VERIFY">> \o <<>> = <<"VERIFY">>
    BY <2>1, Shorts
  <2>3. CASE Report(<<"VERIFY">>)
    <3>1. /\ Grown /\ (hpc \in Idle => inbox' = inbox)
          /\ \A i \in 1 .. Len(inbox') : i > Len(inbox) => inbox'[i] = Status("VERIFY")
      BY <2>1, <2>3, ReportOne
    <3> QED
      BY <2>1, <3>1
  <2>4. CASE Report(<<>>)
    BY <2>1, <2>4, ReportNone, Unheard
  <2> QED
    BY <2>2, <2>3, <2>4 DEF Finalise, ErrorOr, ReportDone, ReportRollback
<1>4. pc' = "done" /\ hpc \in Sharing => Recorded'
  <2>1. pc' = "done" /\ hpc \in Sharing => hslot = target /\ pkg = hpkg
    BY <1>1 DEF SyncInv, SameSession
  <2>2. meta \in MetaRecords /\ target \in Slots
    BY DEF LinkInv, IInv, TypeOK
  <2>3. pc' = "done" => meta'.valid /\ meta'.info[target] = pkg
    <3>1. CandidateMeta.valid /\ CandidateMeta.info[target] = pkg
      BY <2>2 DEF CandidateMeta, MetaRecords
    <3> QED
      BY <1>1, <3>1
  <2>4. hslot' = hslot /\ hpkg' = hpkg
    BY DEF host
  <2> QED
    BY <2>1, <2>3, <2>4 DEF Recorded
<1>5. /\ FifoOK' /\ ReadyOK' /\ OutcomeOK' /\ legacy' # "confirmed"
      /\ hpc' = hpc /\ hpkg' = hpkg /\ hslot' = hslot /\ count' = count
      /\ hpos' = hpos /\ losses' = losses
      /\ hpc \in Sharing =>
           \A i \in 1 .. Len(inbox') : inbox'[i].kind \notin {"HEARTBEAT", "DONE"}
      /\ \A i \in 1 .. Len(inbox') :
           i > Len(inbox) \/ (i \in 1 .. Len(inbox) /\ inbox'[i] = inbox[i])
  BY <1>1, <1>2, <1>3, <1>4, InSync
<1>6. hpc = "dataWait" => hpos = ImageFrames
  <2>1. CASE pc = "receive" /\ received = NBlocks
    <3>1. Place = ImageFrames
      <4>1. ImageFrames \in Nat /\ Len(<<>>) = 0
        BY ImageFramesPositive, EmptySeq
      <4>2. Start = ImageFrames
        BY <2>1 DEF Start, ImageFrames
      <4> QED
        BY <1>2, <2>1, <4>1, <4>2 DEF Place
    <3>2. hpos \in 0 .. ImageFrames /\ ImageFrames \in Nat
      BY ImageFramesPositive DEF LinkInv, HostOK
    <3>3. hpc = "dataWait" => hpos >= Place
      BY <2>1 DEF SyncInv, PlaceOK
    <3> QED
      BY <3>1, <3>2, <3>3
  <2>2. CASE pc \in {"complete", "candidate"}
    BY <2>2 DEF SyncInv, PhaseOK
  <2> QED
    BY <1>1, <2>1, <2>2
<1>7. PhaseOK' /\ SameSession'
  BY <1>1, <1>2, <1>5, <1>6 DEF SyncInv, PhaseOK, SameSession
<1>8. AnswersOK'
  <2>1. hpc = "tableWait" => \A i \in 1 .. Len(inbox) :
          inbox[i].kind = "WRITING" => inbox[i].n = NBlocks
    BY <1>1 DEF SyncInv, AnswersOK
  <2> QED
    BY <1>1, <1>2, <1>3, <1>5, <2>1 DEF AnswersOK
<1>9. BufferOK' /\ PlaceOK' /\ FrameOK' /\ LosslessOK'
  <2>1. BufferOK'
    BY <1>1, <1>2, EmptySeq DEF BufferOK
  <2> QED
    BY <1>1, <1>2, <1>5, <2>1 DEF PlaceOK, FrameOK, LosslessOK
<1> QED
  BY <1>5, <1>7, <1>8, <1>9 DEF SyncInv

(* A frame that the board does not expect is dropped: within a session it   *)
(* is none of the session.                                                  *)
LEMMA ExpectedIs ==
  /\ pc = "auth" => Expected = "AUTH"
  /\ pc = "table" => Expected = "HASH"
  /\ pc = "receive" => Expected = "DATA"
<1>1. ASSUME pc = "auth" PROVE Expected = "AUTH"
  BY <1>1, Zenon DEF Expected
<1>2. ASSUME pc = "table" PROVE Expected = "HASH"
  BY <1>2, Zenon DEF Expected
<1>3. ASSUME pc = "receive" PROVE Expected = "DATA"
  BY <1>3, Zenon DEF Expected
<1> QED
  BY <1>1, <1>2, <1>3

LEMMA DropSync ==
  ASSUME LinkInv, IInv', [Next]_vars, SyncInv, UNCHANGED <<host, spent>>,
         DropFrame, pc' \in Joined
  PROVE  SyncInv'
<1> USE DEF Joined, Preparing, Final, Early, Sharing, Engaged, Imaging
<1>1. /\ pc \in {"auth", "table"} \/ (pc = "receive" /\ BlockExpected)
      /\ pc' = pc /\ target' = target /\ pkg' = pkg /\ received' = received
      /\ fifo # <<>> /\ fifo' = Tail(fifo) /\ dseq' = dseq /\ wbuf' = wbuf /\ inbox' = inbox
      /\ Head(fifo).id # Expected
  BY DEF DropFrame, Took, NoReport, Polling, vars
<1>2. /\ Quiet' /\ InOrder' /\ (NoEnter => NoEnter') /\ Head(fifo) = fifo[1]
  BY <1>1, TakenQuiet
<1>3. /\ FifoOK' /\ ReadyOK' /\ OutcomeOK' /\ legacy' # "confirmed"
      /\ hpc' = hpc /\ hpkg' = hpkg /\ hslot' = hslot /\ count' = count
      /\ hpos' = hpos /\ losses' = losses
  <2>1. Grown /\ \A i \in 1 .. Len(inbox') : ~(i > Len(inbox))
    BY <1>1, Unheard DEF LinkInv
  <2> QED
    BY <1>1, <1>2, <2>1, InSync
<1>4. ~Quiet =>
        /\ pc = "auth" => hpc \notin {"auth", "authWait"} /\ fifo[1].id # "AUTH"
        /\ pc = "table" => hpc # "table"
        /\ pc # "receive"
  BY <1>1, <1>2, ExpectedIs DEF SyncInv, FrameOK
<1>5. PhaseOK' /\ SameSession'
  BY <1>1, <1>3 DEF SyncInv, PhaseOK, SameSession, BlockExpected
<1>6. AnswersOK' /\ BufferOK'
  BY <1>1, <1>2, <1>3 DEF SyncInv, AnswersOK, BufferOK, Start, BlockExpected
<1>7. PlaceOK' /\ FrameOK'
  BY <1>1, <1>2, <1>3 DEF SyncInv, PlaceOK, Place, Taken, Start, FrameOK
<1>8. LosslessOK'
  BY <1>1, <1>2, <1>3, <1>4 DEF SyncInv, LosslessOK, Underway, Place, Start
<1> QED
  BY <1>3, <1>5, <1>6, <1>7, <1>8 DEF SyncInv

(* Every step of the board. *)
LEMMA BoardSync ==
  ASSUME LinkInv, IInv', [Next]_vars, SyncInv, BoardStep \/ Heartbeat \/ LosePower
  PROVE  SyncInv'
<1> USE DEF Joined, Preparing, Final
<1>1. CASE pc' \in Away
  <2>1. Leaving
    BY <1>1, LeavingSteps DEF LinkInv
  <2> QED
    BY <2>1, LeavingSync
<1>2. CASE pc' \notin Away
  <2>1. pc' \in Joined
    BY <1>2 DEF IInv, TypeOK, PCs, Away
  <2>2. BoardStep /\ UNCHANGED <<host, spent>>
    BY <1>2 DEF Heartbeat, LosePower, PowerLoss, BoardStep, vars, Away
  <2>3. CASE Silent
    <3>1. StartRun
      BY <1>2, <2>3 DEF Silent, PowerUp, WaitTimeout, BootEmpty, BootTrial,
        BootRollback, BootActive, AppReset, DecideToRun, WriteMeta, Away
    <3> QED
      BY <2>2, <2>3, <3>1, StartSync DEF Silent
  <2>4. CASE PrepareWrite
    BY <2>1, <2>2, <2>4, PrepareSync
  <2>5. CASE PageDone
    BY <2>1, <2>2, <2>5, PageSync
  <2>6. CASE Finalise
    BY <2>1, <2>2, <2>6, FinalSync
  <2>7. CASE SessionTimeout \/ TakeControl \/ StartApp
    BY <1>2, <2>7 DEF SessionTimeout, SessionFails, TakeControl, RequestBootloader,
      StartApp, AppConfirm, WriteMeta, Away
  <2>8. CASE TakeEnter
    BY <2>2, <2>8, EnterSync
  <2>9. CASE TakeAuth
    <3>1. ~OutOfSequence("AUTH")
      BY <1>2 DEF OutOfSequence, SessionFails, Away
    <3>2. CASE Store("AUTH", ManifestFrames, wbuf) /\ NoReport
      BY <2>2, <2>9, <3>2, StoreSync DEF TakeAuth
    <3>3. CASE /\ Head(fifo).id = "AUTH"
               /\ InSequence(Head(fifo)) /\ dseq + 1 = ManifestFrames
               /\ ReceiveManifest(Head(fifo).pkg)
               /\ Report(ErrorOr(<<"READY">>))
               /\ Took(0, <<>>)
      <4>1. pc' = "table"
        BY <1>2, <3>3 DEF ReceiveManifest, Away
      <4>2. Report(<<"READY">>)
        BY <3>3, <4>1 DEF ErrorOr
      <4> QED
        BY <2>2, <2>9, <3>3, <4>1, <4>2, ManifestSync DEF TakeAuth
    <3> QED
      BY <2>9, <3>1, <3>2, <3>3 DEF TakeAuth
  <2>10. CASE TakeHash
    <3>1. ~OutOfSequence("HASH") /\ ~SessionFails
      BY <1>2 DEF OutOfSequence, SessionFails, Away
    <3>2. CASE Store("HASH", TableFrames, wbuf) /\ NoReport
      BY <2>2, <2>10, <3>2, StoreSync DEF TakeHash
    <3>3. CASE /\ Head(fifo).id = "HASH"
               /\ InSequence(Head(fifo)) /\ dseq + 1 = TableFrames
               /\ ReceiveTable
               /\ Report(ErrorOr(<<>>))
               /\ Took(0, <<>>)
      <4>1. Report(<<>>)
        BY <3>3 DEF ErrorOr, ReceiveTable
      <4> QED
        BY <2>2, <2>10, <3>3, <4>1, TableSync DEF TakeHash
    <3> QED
      BY <2>10, <3>1, <3>2, <3>3 DEF TakeHash
  <2>11. CASE TakeData
    <3> DEFINE buffer == Append(wbuf, Head(fifo).pos)
    <3>1. ~OutOfSequence("DATA")
      BY <1>2 DEF OutOfSequence, SessionFails, Away
    <3>2. fifo # <<>> /\ pc = "receive" /\ BlockExpected
      BY <2>11 DEF TakeData
    <3>3. CASE /\ Len(buffer) < FramesPerBlock
               /\ Store("DATA", ImageFrames, buffer)
               /\ Report(IF ReportHere(dseq, received * FramesPerBlock + Len(buffer))
                           THEN <<"WRITING">> ELSE <<>>)
      BY <2>2, <3>2, <3>3, DataSync
    <3>4. CASE /\ Head(fifo).id = "DATA" /\ InSequence(Head(fifo))
               /\ Len(buffer) = FramesPerBlock
               /\ ReceiveBlock(PageContent(buffer))
               /\ Report((IF LastInPage THEN <<"WRITING">> ELSE <<>>) \o ErrorOr(<<>>))
               /\ Took(IF pc' = "mark" THEN dseq ELSE 0, <<>>)
      <4>1. pc' = "mark"
        BY <1>2, <3>4 DEF ReceiveBlock, Away
      <4>2. Took(dseq, <<>>)
        BY <3>4, <4>1
      <4> HIDE DEF buffer
      <4> QED
        BY <2>2, <3>2, <3>4, <4>1, <4>2, BlockSync DEF buffer
    <3> QED
      BY <2>11, <3>1, <3>3, <3>4 DEF TakeData
  <2>12. CASE DropFrame
    BY <2>1, <2>2, <2>12, DropSync
  <2> QED
    BY <2>2, <2>3, <2>4, <2>5, <2>6, <2>7, <2>8, <2>9, <2>10, <2>11, <2>12 DEF BoardStep
<1> QED
  BY <1>1, <1>2

-----------------------------------------------------------------------------
(* The steps of the host: of the board only the FIFO changes. *)
BoardStays == UNCHANGED vars /\ dseq' = dseq /\ wbuf' = wbuf

LEMMA Stays ==
  ASSUME LinkInv, SyncInv, BoardStays
  PROVE  /\ pc' = pc /\ meta' = meta /\ received' = received
         /\ target' = target /\ pkg' = pkg /\ dseq' = dseq /\ wbuf' = wbuf
         /\ legacy' # "confirmed" /\ BufferOK' /\ Start' = Start
         /\ Place' = Place /\ Taken' = Taken
<1>1. /\ pc' = pc /\ meta' = meta /\ received' = received /\ legacy' = legacy
      /\ target' = target /\ pkg' = pkg /\ dseq' = dseq /\ wbuf' = wbuf
  BY DEF BoardStays, vars
<1> QED
  BY <1>1 DEF SyncInv, BufferOK, Start, Place, Taken, BlockExpected

(* A status is read. *)
LEMMA Shift ==
  ASSUME QueuesOK, inbox # <<>>, inbox' = Tail(inbox)
  PROVE  /\ Len(inbox) \in Nat \ {0} /\ Head(inbox) = inbox[1] /\ inbox[1] \in Answers
         /\ Len(inbox') = Len(inbox) - 1
         /\ \A i \in 1 .. Len(inbox') : inbox'[i] = inbox[i + 1] /\ i + 1 \in 1 .. Len(inbox)
         /\ Len(inbox) = 1 => Len(inbox') = 0
         /\ \A i \in 1 .. Len(inbox') : i + 1 = Len(inbox) => i = Len(inbox')
<1>1. /\ Len(inbox) \in Nat \ {0} /\ Head(inbox) = inbox[1] /\ inbox[1] \in Answers
      /\ Len(inbox') = Len(inbox) - 1
      /\ \A i \in 1 .. Len(inbox') : inbox'[i] = inbox[i + 1] /\ i + 1 \in 1 .. Len(inbox)
  BY HeadTailProperties, LenProperties, EmptySeq DEF QueuesOK
<1>2. \A n \in Nat \ {0} : \A m :
        m = n - 1 => (n = 1 => m = 0) /\ \A i \in 1 .. m : i + 1 = n => i = m
  OBVIOUS
<1>3. (Len(inbox) = 1 => Len(inbox') = 0)
      /\ \A i \in 1 .. Len(inbox') : i + 1 = Len(inbox) => i = Len(inbox')
  BY <1>1, <1>2, Zenon
<1> QED
  BY <1>1, <1>3

(* The end of a run. *)
LEMMA IdleSync ==
  ASSUME LinkInv, SyncInv, BoardStays, fifo' = fifo, hpc' \in Idle, inbox' = <<>>
  PROVE  SyncInv'
<1> USE DEF Joined, Preparing, Final, Early, Sharing, Engaged, Imaging, Idle
<1>1. /\ pc' = pc /\ received' = received
      /\ dseq' = dseq /\ wbuf' = wbuf
      /\ legacy' # "confirmed" /\ BufferOK' /\ Place' = Place
  BY Stays
<1>2. FifoOK'
  BY <1>1 DEF SyncInv, FifoOK, InOrder, Quiet, Listening, BlockExpected
<1>3. ReadyOK' /\ PhaseOK'
  BY <1>1 DEF SyncInv, ReadyOK, PhaseOK
<1>4. SameSession' /\ AnswersOK' /\ PlaceOK' /\ LosslessOK'
  BY <1>1 DEF SameSession, AnswersOK, PlaceOK, LosslessOK
<1>5. FrameOK'
  BY <1>1 DEF SyncInv, FrameOK, Quiet
<1>6. OutcomeOK'
  BY DEF OutcomeOK, Finished
<1> QED
  BY <1>1, <1>2, <1>3, <1>4, <1>5, <1>6 DEF SyncInv

(* A run begins, with a FIFO that a polling board has emptied. *)
LEMMA HostStartSync ==
  ASSUME LinkInv, SyncInv, HostStart
  PROVE  SyncInv'
<1> USE DEF Joined, Preparing, Final, Early, Sharing, Engaged, Imaging, Idle
<1>0. /\ hpc \in Idle /\ hpc' = "control" /\ fifo' = fifo /\ inbox' = inbox /\ BoardStays
      /\ Paced
  BY DEF HostStart, board, BoardStays
<1>1. /\ pc' = pc /\ received' = received
      /\ dseq' = dseq /\ wbuf' = wbuf
      /\ legacy' # "confirmed" /\ BufferOK'
  BY <1>0, Stays
<1>2. inbox' = <<>> /\ Len(<<>>) = 0
  BY <1>0, EmptySeq DEF SyncInv, ReadyOK
<1>3. pc \in Joined => Quiet
  <2>1. pc \in Joined => Quiet \/ Listening
    BY DEF SyncInv, FifoOK
  <2>2. Listening => fifo = <<>>
    BY <1>0 DEF Listening, Paced, Polling
  <2>3. fifo = <<>> => Quiet
    BY EmptySeq DEF Quiet
  <2> QED
    BY <2>1, <2>2, <2>3
<1>4. FifoOK'
  BY <1>0, <1>1, <1>3 DEF SyncInv, FifoOK, InOrder, Quiet
<1>5. ReadyOK' /\ PhaseOK'
  BY <1>0, <1>1, <1>2 DEF SyncInv, ReadyOK, PhaseOK
<1>6. SameSession' /\ AnswersOK' /\ PlaceOK' /\ LosslessOK'
  BY <1>0, <1>1 DEF SameSession, AnswersOK, PlaceOK, LosslessOK
<1>7. FrameOK'
  BY <1>0, <1>1, <1>3 DEF FrameOK, Quiet
<1>8. OutcomeOK'
  BY <1>0 DEF OutcomeOK, Finished
<1> QED
  BY <1>1, <1>4, <1>5, <1>6, <1>7, <1>8 DEF SyncInv

(* Before the session: CONTROL or ENTER is sent, an answer that is no READY *)
(* is read, or none comes.                                                  *)
LEMMA EarlySync ==
  ASSUME LinkInv, SyncInv, BoardStays, hpc \in Early, hpc' \in Early,
         \/ fifo' = fifo
         \/ \E f \in Frames : f.id \notin SessionIds /\ Deliver(f),
         inbox' = inbox \/ (inbox # <<>> /\ inbox' = Tail(inbox))
  PROVE  SyncInv'
<1> USE DEF Joined, Preparing, Final, Early, Sharing, Engaged, Imaging, Idle
<1>0. QueuesOK /\ InOrder
  BY DEF LinkInv, SyncInv, FifoOK
<1>1. /\ pc' = pc /\ received' = received /\ meta' = meta
      /\ dseq' = dseq /\ wbuf' = wbuf
      /\ legacy' # "confirmed" /\ BufferOK'
  BY Stays
<1>2. InOrder' /\ (Quiet => Quiet') /\ (pc = "off" => fifo' = fifo)
  <2>1. CASE fifo' = fifo
    BY <1>0, <2>1 DEF InOrder, Quiet
  <2>2. CASE \E f \in Frames : f.id \notin SessionIds /\ Deliver(f)
    BY <1>0, <2>2, PushOrder
  <2> QED
    BY <2>1, <2>2
<1>3. FifoOK'
  BY <1>1, <1>2 DEF SyncInv, FifoOK
<1>4. ReadyOK'
  <2>1. CASE inbox' = inbox
    BY <1>1, <2>1 DEF SyncInv, ReadyOK
  <2>2. CASE inbox # <<>> /\ inbox' = Tail(inbox)
    <3>1. \A i \in 1 .. Len(inbox') : inbox'[i] = inbox[i + 1] /\ i + 1 \in 1 .. Len(inbox)
      BY <1>0, <2>2, Shift
    <3> SUFFICES ASSUME NEW i \in 1 .. Len(inbox'), inbox'[i].kind = "READY"
                 PROVE  /\ pc \in {"off", "wait", "run", "auth"}
                        /\ pc = "auth" => dseq = 0
                        /\ inbox'[i].slot = UpdateSlot(meta)
                        /\ \A j \in 1 .. Len(inbox') : i < j => inbox'[j].kind = "READY"
      BY <1>1 DEF ReadyOK
    <3>2. /\ pc \in {"off", "wait", "run", "auth"}
          /\ pc = "auth" => dseq = 0
          /\ inbox[i + 1].slot = UpdateSlot(meta)
          /\ \A j \in 1 .. Len(inbox) : i + 1 < j => inbox[j].kind = "READY"
      BY <3>1 DEF SyncInv, ReadyOK
    <3>3. ASSUME NEW j \in 1 .. Len(inbox'), i < j
          PROVE  inbox'[j].kind = "READY"
      <4>1. inbox'[j] = inbox[j + 1] /\ j + 1 \in 1 .. Len(inbox) /\ i + 1 < j + 1
        BY <3>1, <3>3
      <4> QED
        BY <3>2, <4>1
    <3> QED
      BY <3>1, <3>2, <3>3
  <2> QED
    BY <2>1, <2>2
<1>5. PhaseOK'
  BY <1>1 DEF SyncInv, PhaseOK
<1>6. SameSession' /\ AnswersOK' /\ PlaceOK' /\ LosslessOK'
  BY <1>1 DEF SameSession, AnswersOK, PlaceOK, LosslessOK
<1>7. FrameOK'
  BY <1>1, <1>2 DEF SyncInv, FifoOK, FrameOK
<1>8. OutcomeOK'
  BY <1>1 DEF OutcomeOK, Finished
<1> QED
  BY <1>1, <1>3, <1>4, <1>5, <1>6, <1>7, <1>8 DEF SyncInv

(* The READY of a session. *)
LEMMA ReadySync ==
  ASSUME LinkInv, SyncInv, BoardStays, hpc = "probe", hpc' = "auth", fifo' = fifo,
         inbox # <<>>, inbox' = Tail(inbox), Head(inbox).kind = "READY",
         hslot' = Head(inbox).slot, count' = 0
  PROVE  SyncInv'
<1> USE DEF Joined, Preparing, Final, Early, Sharing, Engaged, Imaging, Idle
<1>0. QueuesOK /\ InOrder
  BY DEF LinkInv, SyncInv, FifoOK
<1>1. /\ pc' = pc /\ received' = received /\ meta' = meta /\ target' = target
      /\ dseq' = dseq /\ wbuf' = wbuf
      /\ legacy' # "confirmed" /\ BufferOK'
  BY Stays
<1>2. /\ Len(inbox) \in Nat \ {0} /\ Head(inbox) = inbox[1]
      /\ \A i \in 1 .. Len(inbox') : inbox'[i] = inbox[i + 1] /\ i + 1 \in 1 .. Len(inbox)
  BY <1>0, Shift
<1>3. /\ pc \in {"off", "wait", "run", "auth"} /\ (pc = "auth" => dseq = 0)
      /\ hslot' = UpdateSlot(meta)
      /\ \A i \in 1 .. Len(inbox') : inbox'[i].kind = "READY"
  <2>1. 1 \in 1 .. Len(inbox) /\ inbox[1].kind = "READY"
    BY <1>2
  <2>2. /\ pc \in {"off", "wait", "run", "auth"} /\ (pc = "auth" => dseq = 0)
        /\ inbox[1].slot = UpdateSlot(meta)
        /\ \A j \in 1 .. Len(inbox) : 1 < j => inbox[j].kind = "READY"
    BY <2>1 DEF SyncInv, ReadyOK
  <2> QED
    BY <1>2, <2>2
<1>4. Quiet' = Quiet /\ InOrder' /\ (pc \in Joined => Quiet)
  BY <1>0 DEF SyncInv, FifoOK, Quiet, InOrder
<1>5. FifoOK'
  <2>1. pc = "off" => fifo' = <<>> /\ NoEnter'
    <3>1. pc = "off" => fifo' = <<>>
      BY DEF SyncInv, FifoOK
    <3> QED
      BY <3>1, Emptied
  <2>2. pc = "wait" => Again'
    BY <1>1, <1>3 DEF Again
  <2> QED
    BY <1>1, <1>3, <1>4, <2>1, <2>2 DEF FifoOK
<1>6. ReadyOK' /\ PhaseOK'
  BY <1>1, <1>3, LinkAssumption DEF SyncInv, ReadyOK, PhaseOK
<1>7. SameSession'
  <2>1. pc \in {"run", "auth"} => target = UpdateSlot(meta)
    BY DEF LinkInv, IInv, TargetFree
  <2> QED
    BY <1>1, <1>3, <2>1 DEF SameSession
<1>8. AnswersOK' /\ PlaceOK'
  BY <1>1, <1>3 DEF AnswersOK, PlaceOK
<1>9. FrameOK'
  BY <1>1, <1>3, <1>4 DEF FrameOK
<1>10. LosslessOK'
  BY <1>1, <1>3, <1>4 DEF SyncInv, PhaseOK, LosslessOK, Underway
<1>11. OutcomeOK'
  BY <1>1, <1>3 DEF OutcomeOK, Finished
<1> QED
  BY <1>1, <1>5, <1>6, <1>7, <1>8, <1>9, <1>10, <1>11 DEF SyncInv

(* A frame of the session is sent: it is the only one, or it is lost. *)
LEMMA FrameSent ==
  ASSUME LinkInv, SyncInv, BoardStays, NEW f \in Frames, f.id \in SessionIds, Deliver(f),
         Paced, hpc \in {"auth", "table", "data"}, pc # "run",
         hpc' \in Sharing, hslot' = hslot, hpkg' = hpkg, inbox' = inbox
  PROVE  /\ FifoOK' /\ ReadyOK' /\ OutcomeOK'
         /\ pc' = pc /\ target' = target /\ pkg' = pkg /\ dseq' = dseq
         /\ Place' = Place /\ Taken' = Taken
         /\ legacy' # "confirmed" /\ BufferOK'
         /\ pc \in Joined =>
              /\ Quiet
              /\ \/ Quiet' /\ losses' # 0
                 \/ ~Quiet' /\ fifo'[1] = f /\ losses' = losses
<1> USE DEF Joined, Preparing, Final, Early, Sharing, Engaged, Imaging, Idle
<1>0. QueuesOK /\ InOrder /\ losses \in Nat
  BY DEF LinkInv, SyncInv, FifoOK, HostOK
<1>1. /\ pc' = pc /\ received' = received /\ meta' = meta /\ target' = target
      /\ pkg' = pkg /\ dseq' = dseq /\ Place' = Place /\ Taken' = Taken
      /\ legacy' # "confirmed" /\ BufferOK'
  BY Stays
<1>2. pc \in Joined => Listening
  <2>1. pc \in Joined =>
          /\ hpc = "auth" => pc = "auth"
          /\ hpc = "table" => pc \in {"auth", "table"}
          /\ hpc = "data" => pc = "receive" /\ BlockExpected
    BY DEF SyncInv, PhaseOK
  <2> QED
    BY <2>1 DEF Listening
<1>3. pc \in Joined \cup {"wait"} => fifo = <<>>
  BY <1>2 DEF Listening, Paced, Polling
<1>4. fifo = <<>> => Len(fifo) = 0 /\ NoEnter /\ Quiet
  BY EmptySeq DEF NoEnter, Quiet
<1>5. NoEnter
  <2>1. CASE pc \in Joined \cup {"wait"}
    BY <1>3, <1>4, <2>1
  <2>2. CASE pc \notin Joined \cup {"wait"}
    BY <2>2 DEF SyncInv, FifoOK, Again
  <2> QED
    BY <2>1, <2>2
<1>6. InOrder' /\ NoEnter' /\ (pc = "off" => fifo' = fifo) /\ (Len(fifo) = 0 => Len(fifo') <= 1)
  <2>1. f.id # "ENTER"
    BY DEF SessionIds
  <2> QED
    BY <1>0, <1>5, <2>1, PushOrder
<1>7. pc \in Joined =>
        /\ Quiet
        /\ \/ Quiet' /\ losses' # 0 /\ Len(fifo') = 0
           \/ ~Quiet' /\ fifo'[1] = f /\ losses' = losses /\ Len(fifo') = 1
  <2> SUFFICES ASSUME pc \in Joined
               PROVE  \/ Quiet' /\ losses' # 0 /\ Len(fifo') = 0
                      \/ ~Quiet' /\ fifo'[1] = f /\ losses' = losses /\ Len(fifo') = 1
    BY <1>3, <1>4
  <2>1. fifo = <<>> /\ pc # "off"
    BY <1>3
  <2>2. CASE fifo' = fifo /\ losses' = losses + 1
    BY <1>0, <2>1, <2>2, EmptySeq DEF Quiet
  <2>3. CASE Len(fifo') = 1 /\ fifo'[Len(fifo')] = f /\ losses' = losses
    BY <2>3 DEF Quiet
  <2> QED
    BY <1>0, <2>1, <2>2, <2>3, Push
<1>8. FifoOK'
  <2>1. pc = "off" => fifo' = <<>>
    BY <1>6 DEF SyncInv, FifoOK
  <2>2. pc \in Joined => Quiet' \/ (Listening' /\ Len(fifo') = 1)
    BY <1>1, <1>2, <1>7 DEF Listening, BlockExpected
  <2> QED
    BY <1>1, <1>6, <2>1, <2>2 DEF FifoOK
<1>9. ReadyOK'
  BY DEF ReadyOK
<1>10. OutcomeOK'
  <2>1. Finished' => Finished
    BY DEF Finished
  <2> QED
    BY <1>1, <2>1 DEF SyncInv, OutcomeOK, Recorded
<1> QED
  BY <1>1, <1>7, <1>8, <1>9, <1>10

LEMMA SendManifestSync ==
  ASSUME LinkInv, SyncInv, SendManifest
  PROVE  SyncInv'
<1> USE DEF Joined, Preparing, Final, Early, Sharing, Engaged, Imaging, Idle
<1> DEFINE f == Frame("AUTH", hpkg, count, 0)
<1>0. count \in Nat /\ dseq \in Nat /\ hpkg \in Packages /\ ManifestFrames \in Nat \ {0}
  BY LinkAssumption, ImageFramesPositive DEF LinkInv, HostOK, BoardOK, SendManifest
<1>1. /\ hpc = "auth" /\ Paced /\ pc # "run" /\ Deliver(f) /\ BoardStays
      /\ count' = IF count + 1 < ManifestFrames THEN count + 1 ELSE 0
      /\ hpc' = IF count + 1 < ManifestFrames THEN "auth" ELSE "authWait"
      /\ inbox' = inbox /\ hpkg' = hpkg /\ hslot' = hslot
  BY DEF SendManifest, Settled, BoardStays
<1>2. f \in Frames /\ f.id = "AUTH" /\ f.pkg = hpkg /\ f.seq = count
  <2>1. 0 \in Positions
    BY ImageFramesPositive DEF Positions
  <2> QED
    BY <1>0, <2>1 DEF Frame, Frames, FrameIds
<1>3. f.id \in SessionIds /\ hpc' \in Sharing
  BY <1>1, <1>2 DEF SessionIds
<1> HIDE DEF f
<1>4. /\ FifoOK' /\ ReadyOK' /\ OutcomeOK'
      /\ pc' = pc /\ target' = target /\ pkg' = pkg /\ dseq' = dseq
      /\ Place' = Place /\ Taken' = Taken
      /\ legacy' # "confirmed" /\ BufferOK'
      /\ pc \in Joined =>
           /\ Quiet
           /\ \/ Quiet' /\ losses' # 0
              \/ ~Quiet' /\ fifo'[1] = f /\ losses' = losses
  BY <1>1, <1>2, <1>3, FrameSent
<1>5. count < ManifestFrames /\ (pc \in Joined => pc = "auth")
  BY <1>1 DEF SyncInv, PhaseOK
<1>6. count + 1 < ManifestFrames \/ count + 1 = ManifestFrames
  BY <1>0, <1>5
<1>7. PhaseOK' /\ SameSession'
  BY <1>0, <1>1, <1>4, <1>5 DEF SyncInv, PhaseOK, SameSession
<1>8. AnswersOK'
  BY <1>1, <1>4, <1>5 DEF SyncInv, AnswersOK
<1>9. PlaceOK'
  BY <1>1 DEF PlaceOK
<1>10. FrameOK'
  BY <1>0, <1>1, <1>2, <1>4, <1>5, <1>6 DEF FrameOK
<1>11. LosslessOK'
  <2>1. pc = "auth" /\ losses' = 0 => losses = 0 /\ ~Quiet' /\ fifo'[1] = f /\ count = dseq
    BY <1>0, <1>1, <1>4 DEF SyncInv, LosslessOK, Underway
  <2> QED
    BY <1>0, <1>1, <1>2, <1>4, <1>5, <2>1 DEF LosslessOK, Underway
<1> QED
  BY <1>4, <1>7, <1>8, <1>9, <1>10, <1>11 DEF SyncInv

LEMMA SendTableSync ==
  ASSUME LinkInv, SyncInv, SendTable
  PROVE  SyncInv'
<1> USE DEF Joined, Preparing, Final, Early, Sharing, Engaged, Imaging, Idle
<1> DEFINE f == Frame("HASH", hpkg, count, 0)
<1>0. count \in Nat /\ hpkg \in Packages /\ TableFrames \in Nat \ {0}
  BY LinkAssumption DEF LinkInv, HostOK, SendTable
<1>1. /\ hpc = "table" /\ Paced /\ Deliver(f) /\ BoardStays
      /\ count' = IF count + 1 < TableFrames THEN count + 1 ELSE 0
      /\ hpc' = IF count + 1 < TableFrames THEN "table" ELSE "tableWait"
      /\ inbox' = inbox /\ hpkg' = hpkg /\ hslot' = hslot
  BY DEF SendTable, BoardStays
<1>2. f \in Frames /\ f.id = "HASH" /\ f.pkg = hpkg /\ f.seq = count
  <2>1. 0 \in Positions
    BY ImageFramesPositive DEF Positions
  <2> QED
    BY <1>0, <2>1 DEF Frame, Frames, FrameIds
<1>3. f.id \in SessionIds /\ hpc' \in Sharing
  BY <1>1, <1>2 DEF SessionIds
<1>4. count < TableFrames /\ (pc \in Joined => pc \in {"auth", "table"}) /\ pc # "run"
  BY <1>1 DEF SyncInv, PhaseOK
<1> HIDE DEF f
<1>5. /\ FifoOK' /\ ReadyOK' /\ OutcomeOK'
      /\ pc' = pc /\ target' = target /\ pkg' = pkg /\ dseq' = dseq
      /\ Place' = Place /\ Taken' = Taken
      /\ legacy' # "confirmed" /\ BufferOK'
      /\ pc \in Joined =>
           /\ Quiet
           /\ \/ Quiet' /\ losses' # 0
              \/ ~Quiet' /\ fifo'[1] = f /\ losses' = losses
  BY <1>1, <1>2, <1>3, <1>4, FrameSent
<1>7. PhaseOK' /\ SameSession'
  BY <1>0, <1>1, <1>4, <1>5 DEF SyncInv, PhaseOK, SameSession
<1>8. AnswersOK'
  BY <1>1, <1>4, <1>5 DEF SyncInv, AnswersOK
<1>9. PlaceOK'
  BY <1>1 DEF PlaceOK
<1>10. FrameOK'
  BY <1>0, <1>1, <1>2, <1>4, <1>5 DEF FrameOK
<1>11. LosslessOK'
  <2>1. losses' = 0 /\ pc \in {"auth", "table"} => losses = 0 /\ ~Quiet' /\ fifo'[1] = f
    BY <1>5
  <2>2. losses' = 0 => pc # "auth"
    BY <1>1, <1>5, <2>1 DEF SyncInv, LosslessOK
  <2>3. losses' = 0 /\ pc = "table" => count = dseq
    BY <1>0, <1>1, <1>5, <2>1 DEF SyncInv, LosslessOK, Underway, LinkInv, BoardOK
  <2> QED
    BY <1>0, <1>1, <1>4, <1>5, <2>1, <2>2, <2>3 DEF LosslessOK, Underway
<1> QED
  BY <1>5, <1>7, <1>8, <1>9, <1>10, <1>11 DEF SyncInv

LEMMA SendDataSync ==
  ASSUME LinkInv, SyncInv, SendData
  PROVE  SyncInv'
<1> USE DEF Joined, Preparing, Final, Early, Sharing, Engaged, Imaging, Idle
<1> DEFINE f == Frame("DATA", hpkg, count, hpos)
<1>0. /\ count \in Nat /\ hpkg \in Packages /\ hpos \in Positions
      /\ count <= hpos /\ hpos \in Nat
      /\ dseq \in Nat
  BY ImageFramesPositive, LinkAssumption DEF LinkInv, HostOK, BoardOK, SendData, Positions
<1>1. /\ hpc = "data" /\ Paced /\ Deliver(f) /\ BoardStays
      /\ hpos' = hpos + 1 /\ count' = count + 1
      /\ hpc' = IF WaitHere(count, hpos + 1) THEN "dataWait" ELSE "data"
      /\ inbox' = inbox /\ hpkg' = hpkg /\ hslot' = hslot
  BY DEF SendData, BoardStays
<1>2. f \in Frames /\ f.id = "DATA" /\ f.pos = hpos /\ f.seq = count
  BY <1>0 DEF Frame, Frames, FrameIds
<1>3. f.id \in SessionIds /\ hpc' \in Sharing
  BY <1>1, <1>2 DEF SessionIds
<1>4. (pc \in Joined => pc = "receive" /\ BlockExpected) /\ pc # "run"
  BY <1>1 DEF SyncInv, PhaseOK
<1> HIDE DEF f
<1>5. /\ FifoOK' /\ ReadyOK' /\ OutcomeOK'
      /\ pc' = pc /\ target' = target /\ pkg' = pkg /\ dseq' = dseq
      /\ Place' = Place /\ Taken' = Taken
      /\ legacy' # "confirmed" /\ BufferOK'
      /\ pc \in Joined =>
           /\ Quiet
           /\ \/ Quiet' /\ losses' # 0
              \/ ~Quiet' /\ fifo'[1] = f /\ losses' = losses
  BY <1>1, <1>2, <1>3, <1>4, FrameSent
<1>6. BlockExpected' = BlockExpected
  BY <1>1, Stays DEF BlockExpected
<1>7. PhaseOK' /\ SameSession'
  BY <1>0, <1>1, <1>4, <1>5, <1>6 DEF SyncInv, PhaseOK, SameSession
<1>8. AnswersOK'
  BY <1>1, <1>4, <1>5 DEF SyncInv, AnswersOK
<1>9. pc = "receive" => Place \in Nat /\ hpos + dseq = count + Place /\ hpos >= Place
  <2>1. Start \in Nat /\ Len(wbuf) \in Nat
    BY StartNat, LenProperties DEF LinkInv, BoardOK
  <2> QED
    BY <1>1, <2>1 DEF SyncInv, PlaceOK, Place, Taken
<1>10. PlaceOK'
  <2>1. pc = "receive" => Taken = dseq
    BY DEF Taken
  <2>2. pc = "receive" =>
          hpos + 1 + dseq = count + 1 + Place /\ hpos + 1 >= Place /\ hpos + 1 > Place
    BY <1>0, <1>9
  <2> QED
    BY <1>1, <1>4, <1>5, <2>1, <2>2 DEF PlaceOK
<1>11. FrameOK'
  <2>1. pc = "receive" /\ ~Quiet' =>
          /\ fifo'[1].id = "DATA" /\ fifo'[1].pos + dseq = fifo'[1].seq + Place
          /\ fifo'[1].seq + 1 = count' /\ fifo'[1].pos + 1 = hpos'
          /\ hpc' = "data" => ~WaitHere(fifo'[1].seq, hpos')
    BY <1>1, <1>2, <1>4, <1>5, <1>9
  <2>2. hpc' = "data" => (WaitHere(fifo[1].seq, hpos))' = WaitHere(fifo'[1].seq, hpos')
    BY DEF WaitHere
  <2> QED
    BY <1>1, <1>4, <1>5, <2>1, <2>2 DEF FrameOK
<1>12. LosslessOK'
  <2>1. losses' = 0 /\ pc \in {"receive", "mark"} => losses = 0 /\ ~Quiet' /\ hpos = Place
    BY <1>0, <1>1, <1>4, <1>5, <1>9 DEF SyncInv, LosslessOK, Underway
  <2> QED
    BY <1>0, <1>1, <1>4, <1>5, <2>1 DEF LosslessOK, Underway
<1> QED
  BY <1>5, <1>7, <1>8, <1>10, <1>11, <1>12 DEF SyncInv

(* What reading a status leaves: the FIFO, and of the answers those read    *)
(* later.                                                                   *)
LEMMA ReadLeaves ==
  ASSUME LinkInv, SyncInv, BoardStays, fifo' = fifo, inbox # <<>>, inbox' = Tail(inbox),
         hpc \in Waiting \cup {"confirm"}, hpc' \in Waiting \cup {"table", "data", "confirm"},
         hpc' = "confirm" => Finished,
         hslot' = hslot, hpkg' = hpkg
  PROVE  /\ pc' = pc /\ target' = target /\ pkg' = pkg /\ dseq' = dseq /\ wbuf' = wbuf
         /\ received' = received
         /\ Place' = Place /\ Taken' = Taken /\ BlockExpected' = BlockExpected
         /\ legacy' # "confirmed" /\ BufferOK'
         /\ Quiet' = Quiet /\ FifoOK' /\ ReadyOK' /\ SameSession' /\ OutcomeOK'
         /\ Len(inbox) \in Nat \ {0} /\ Head(inbox) = inbox[1] /\ inbox[1] \in Answers
         /\ Len(inbox) = 1 => Len(inbox') = 0
         /\ \A i \in 1 .. Len(inbox') : inbox'[i] = inbox[i + 1] /\ i + 1 \in 1 .. Len(inbox)
         /\ \A i \in 1 .. Len(inbox') : i + 1 = Len(inbox) => i = Len(inbox')
<1> USE DEF Joined, Preparing, Final, Early, Sharing, Engaged, Imaging, Idle, Waiting
<1>0. QueuesOK
  BY DEF LinkInv
<1>1. /\ pc' = pc /\ target' = target /\ pkg' = pkg /\ dseq' = dseq /\ wbuf' = wbuf
      /\ received' = received /\ meta' = meta
      /\ Place' = Place /\ Taken' = Taken
      /\ legacy' # "confirmed" /\ BufferOK'
  BY Stays
<1>2. /\ Len(inbox) \in Nat \ {0} /\ Head(inbox) = inbox[1] /\ inbox[1] \in Answers
      /\ Len(inbox) = 1 => Len(inbox') = 0
      /\ \A i \in 1 .. Len(inbox') : inbox'[i] = inbox[i + 1] /\ i + 1 \in 1 .. Len(inbox)
      /\ \A i \in 1 .. Len(inbox') : i + 1 = Len(inbox) => i = Len(inbox')
  BY <1>0, Shift
<1>3. /\ Quiet' = Quiet /\ BlockExpected' = BlockExpected
      /\ NoEnter' = NoEnter /\ InOrder' = InOrder
  BY <1>1 DEF Quiet, BlockExpected, NoEnter, InOrder
<1>4. FifoOK'
  BY <1>1, <1>3 DEF SyncInv, FifoOK, Listening, Again
<1>5. ReadyOK'
  BY DEF ReadyOK
<1>6. SameSession'
  BY <1>1 DEF SyncInv, SameSession, PhaseOK
<1>7. OutcomeOK'
  <2>1. Finished' => Finished
    BY <1>2 DEF Finished
  <2>2. pc # "done" \/ hpc \in Sharing
    BY DEF SyncInv, PhaseOK
  <2> QED
    BY <1>1, <1>2, <2>1, <2>2 DEF SyncInv, OutcomeOK, Recorded
<1> QED
  BY <1>1, <1>2, <1>3, <1>4, <1>5, <1>6, <1>7

(* A status is read and skipped. *)
LEMMA SkipSync ==
  ASSUME LinkInv, SyncInv, BoardStays, fifo' = fifo, inbox # <<>>, inbox' = Tail(inbox),
         hpc \in Waiting \cup {"confirm"}, UNCHANGED <<host, spent>>
  PROVE  SyncInv'
<1> USE DEF Joined, Preparing, Final, Early, Sharing, Engaged, Imaging, Idle
<1>1. /\ hpc' = hpc /\ hpkg' = hpkg /\ hslot' = hslot /\ count' = count
      /\ hpos' = hpos /\ losses' = losses
  BY DEF host, spent
<1>2. /\ pc' = pc /\ target' = target /\ pkg' = pkg /\ dseq' = dseq /\ wbuf' = wbuf
      /\ received' = received
      /\ Place' = Place /\ Taken' = Taken /\ BlockExpected' = BlockExpected
      /\ legacy' # "confirmed" /\ BufferOK'
      /\ Quiet' = Quiet /\ FifoOK' /\ ReadyOK' /\ SameSession' /\ OutcomeOK'
      /\ Len(inbox) \in Nat \ {0}
      /\ Len(inbox) = 1 => Len(inbox') = 0
      /\ \A i \in 1 .. Len(inbox') : inbox'[i] = inbox[i + 1] /\ i + 1 \in 1 .. Len(inbox)
      /\ \A i \in 1 .. Len(inbox') : i + 1 = Len(inbox) => i = Len(inbox')
  BY <1>1, ReadLeaves DEF Finished
<1>3. PhaseOK'
  BY <1>1, <1>2 DEF SyncInv, PhaseOK
<1>4. AnswersOK'
  <2>1. ASSUME pc \in Joined, hpc \in Sharing
        PROVE  \A i \in 1 .. Len(inbox') : inbox'[i].kind \notin {"HEARTBEAT", "DONE"}
    BY <1>2, <2>1 DEF SyncInv, AnswersOK
  <2>2. ASSUME pc \in Joined, hpc \in Sharing \ Imaging,
               NEW i \in 1 .. Len(inbox'), inbox'[i].kind = "WRITING"
        PROVE  \/ /\ pc = "receive" /\ inbox'[i].n = received
                  /\ dseq = 0 /\ wbuf = <<>> /\ i = Len(inbox')
               \/ pc \in Final /\ inbox'[i].n = NBlocks
    <3>1. inbox'[i] = inbox[i + 1] /\ i + 1 \in 1 .. Len(inbox)
      BY <1>2
    <3>2. \/ /\ pc = "receive" /\ inbox[i + 1].n = received
             /\ dseq = 0 /\ wbuf = <<>> /\ i + 1 = Len(inbox)
          \/ pc \in Final /\ inbox[i + 1].n = NBlocks
      BY <2>2, <3>1 DEF SyncInv, AnswersOK
    <3>3. i + 1 = Len(inbox) => i = Len(inbox')
      BY <1>2
    <3> QED
      BY <3>1, <3>2, <3>3
  <2>3. hpc \in {"tableWait", "doneWait"} /\ pc = "receive" => Quiet
    BY DEF SyncInv, AnswersOK
  <2>4. hpc # "data"
    BY DEF Waiting
  <2>5. hpc = "dataWait" /\ pc \in {"receive", "mark"} => Len(inbox') = 0
    <3>1. hpc = "dataWait" /\ pc \in {"receive", "mark"} => Len(inbox) \in {0, 1}
      BY DEF SyncInv, AnswersOK
    <3> QED
      BY <1>2, <3>1
  <2> QED
    BY <1>1, <1>2, <2>1, <2>2, <2>3, <2>4, <2>5 DEF AnswersOK
<1>5. PlaceOK' /\ LosslessOK'
  BY <1>1, <1>2 DEF SyncInv, PlaceOK, LosslessOK, Underway
<1>6. FrameOK'
  BY <1>1, <1>2 DEF SyncInv, FrameOK, Waiting
<1> QED
  BY <1>2, <1>3, <1>4, <1>5, <1>6 DEF SyncInv

(* READY: the manifest is accepted. *)
LEMMA AcceptedSync ==
  ASSUME LinkInv, SyncInv, BoardStays, fifo' = fifo, inbox # <<>>, inbox' = Tail(inbox),
         hpc = "authWait", hpc' = "table", hslot' = hslot, hpkg' = hpkg,
         count' = count, losses' = losses
  PROVE  SyncInv'
<1> USE DEF Joined, Preparing, Final, Early, Sharing, Engaged, Imaging, Idle
<1>1. /\ pc' = pc /\ dseq' = dseq
      /\ legacy' # "confirmed" /\ BufferOK'
      /\ Quiet' = Quiet /\ FifoOK' /\ ReadyOK' /\ SameSession' /\ OutcomeOK'
      /\ Len(inbox) \in Nat \ {0}
      /\ Len(inbox) = 1 => Len(inbox') = 0
      /\ \A i \in 1 .. Len(inbox') : inbox'[i] = inbox[i + 1] /\ i + 1 \in 1 .. Len(inbox)
      /\ \A i \in 1 .. Len(inbox') : i + 1 = Len(inbox) => i = Len(inbox')
  BY ReadLeaves DEF Waiting
<1>2. count = 0 /\ TableFrames \in Nat \ {0} /\ dseq \in Nat
  BY LinkAssumption, ImageFramesPositive DEF LinkInv, HostOK, BoardOK
<1>3. (pc \in Joined => pc \in {"auth", "table"}) /\ (pc = "table" => Quiet /\ dseq = 0)
  BY DEF SyncInv, PhaseOK, FrameOK
<1>4. PhaseOK'
  BY <1>1, <1>2, <1>3 DEF SyncInv, PhaseOK
<1>5. AnswersOK'
  BY <1>1, <1>3 DEF SyncInv, AnswersOK
<1>6. PlaceOK'
  BY DEF PlaceOK
<1>7. FrameOK'
  BY <1>1, <1>3 DEF SyncInv, FrameOK
<1>8. LosslessOK'
  <2>1. losses = 0 /\ pc = "auth" => ~Quiet /\ fifo[1].id = "AUTH" /\ fifo[1].seq = dseq
    BY DEF SyncInv, LosslessOK
  <2> QED
    BY <1>1, <1>2, <1>3, <2>1 DEF LosslessOK, Underway
<1> QED
  BY <1>1, <1>4, <1>5, <1>6, <1>7, <1>8 DEF SyncInv

(* WRITING: the transmission begins, at the block the board wants. *)
LEMMA OpenSync ==
  ASSUME LinkInv, SyncInv, BoardStays, fifo' = fifo, inbox # <<>>, inbox' = Tail(inbox),
         hpc = "tableWait", hslot' = hslot, hpkg' = hpkg, count' = count, losses' = losses,
         Head(inbox).kind = "WRITING", Transmit(ResumeAt(Head(inbox)))
  PROVE  SyncInv'
<1> USE DEF Joined, Preparing, Final, Early, Sharing, Engaged, Imaging, Idle
<1>0. hpos' = ResumeAt(Head(inbox)) /\ hpc' = IF hpos' < ImageFrames THEN "data" ELSE "doneWait"
  BY DEF Transmit
<1>1. /\ pc' = pc /\ dseq' = dseq /\ Place' = Place /\ Taken' = Taken
      /\ BlockExpected' = BlockExpected
      /\ legacy' # "confirmed" /\ BufferOK'
      /\ Quiet' = Quiet /\ FifoOK' /\ ReadyOK' /\ SameSession' /\ OutcomeOK'
      /\ Len(inbox) \in Nat \ {0} /\ Head(inbox) = inbox[1]
      /\ Len(inbox) = 1 => Len(inbox') = 0
      /\ \A i \in 1 .. Len(inbox') : inbox'[i] = inbox[i + 1] /\ i + 1 \in 1 .. Len(inbox)
      /\ \A i \in 1 .. Len(inbox') : i + 1 = Len(inbox) => i = Len(inbox')
  BY <1>0, ReadLeaves DEF Waiting
<1>2. /\ count = 0 /\ ImageFrames \in Nat \ {0} /\ Start \in Nat
  BY ImageFramesPositive, StartNat DEF LinkInv, HostOK
<1>3. pc \in Joined =>
        \/ /\ pc = "receive" /\ inbox[1].n = received
           /\ dseq = 0 /\ wbuf = <<>> /\ Len(inbox) = 1 /\ Quiet
        \/ pc \in Final /\ inbox[1].n = NBlocks
  <2>1. 1 \in 1 .. Len(inbox) /\ inbox[1].kind = "WRITING"
    BY <1>1
  <2> QED
    BY <2>1 DEF SyncInv, AnswersOK
<1>4. /\ pc = "receive" => hpos' = Start /\ Place = Start /\ Taken = 0
      /\ pc \in Final => hpos' = ImageFrames
  <2>1. pc = "receive" => hpos' = Start
    BY <1>0, <1>1, <1>3 DEF ResumeAt, Start
  <2>2. pc = "receive" => Place = Start /\ Taken = 0
    BY <1>2, <1>3, EmptySeq DEF Place, Taken
  <2>3. pc \in Final => hpos' = ImageFrames
    BY <1>0, <1>1, <1>3 DEF ResumeAt, ImageFrames
  <2> QED
    BY <2>1, <2>2, <2>3
<1>5. pc = "receive" /\ hpc' = "data" => BlockExpected
  <2>1. received \in 0 .. NBlocks /\ NBlocks \in Nat
    BY BootAssumption DEF LinkInv, IInv, TypeOK
  <2>2. received = NBlocks => Start = ImageFrames
    BY DEF Start, ImageFrames
  <2> QED
    BY <1>0, <1>2, <1>4, <2>1, <2>2 DEF BlockExpected
<1>6. hpc' \in {"data", "doneWait"} /\ (pc \in Final => hpc' = "doneWait")
  BY <1>0, <1>2, <1>4
<1>7. PhaseOK'
  BY <1>1, <1>3, <1>5, <1>6 DEF SyncInv, PhaseOK
<1>8. AnswersOK'
  <2>1. pc \in Joined => \A i \in 1 .. Len(inbox') : inbox'[i].kind \notin {"HEARTBEAT", "DONE"}
    BY <1>1 DEF SyncInv, AnswersOK
  <2>2. pc = "receive" => Len(inbox') = 0 /\ Quiet
    BY <1>1, <1>3
  <2> QED
    BY <1>1, <1>6, <2>1, <2>2 DEF AnswersOK
<1>9. PlaceOK' /\ LosslessOK'
  BY <1>1, <1>2, <1>3, <1>4, <1>6 DEF PlaceOK, LosslessOK, Underway
<1>10. FrameOK'
  BY <1>1, <1>3, <1>6 DEF FrameOK
<1> QED
  BY <1>1, <1>7, <1>8, <1>9, <1>10 DEF SyncInv

(* A status of the transmission. *)
LEMMA GoOnSync ==
  ASSUME LinkInv, SyncInv, BoardStays, fifo' = fifo, inbox # <<>>, inbox' = Tail(inbox),
         hpc = "dataWait", hslot' = hslot, hpkg' = hpkg, count' = count, losses' = losses,
         Transmit(hpos)
  PROVE  SyncInv'
<1> USE DEF Joined, Preparing, Final, Early, Sharing, Engaged, Imaging, Idle
<1>0. hpos' = hpos /\ hpc' = IF hpos < ImageFrames THEN "data" ELSE "doneWait"
  BY DEF Transmit
<1>1. /\ pc' = pc /\ dseq' = dseq /\ Place' = Place /\ Taken' = Taken
      /\ BlockExpected' = BlockExpected
      /\ legacy' # "confirmed" /\ BufferOK'
      /\ Quiet' = Quiet /\ FifoOK' /\ ReadyOK' /\ SameSession' /\ OutcomeOK'
      /\ Len(inbox) \in Nat \ {0}
      /\ Len(inbox) = 1 => Len(inbox') = 0
      /\ \A i \in 1 .. Len(inbox') : inbox'[i] = inbox[i + 1] /\ i + 1 \in 1 .. Len(inbox)
      /\ \A i \in 1 .. Len(inbox') : i + 1 = Len(inbox) => i = Len(inbox')
  BY <1>0, ReadLeaves DEF Waiting
<1>2. /\ ImageFrames \in Nat \ {0} /\ Start \in Nat /\ hpos \in Nat /\ Len(wbuf) \in Nat
      /\ FramesPerBlock \in Nat \ {0} /\ received \in 0 .. NBlocks /\ NBlocks \in Nat
  BY ImageFramesPositive, StartNat, LinkAssumption, BootAssumption, LenProperties
  DEF LinkInv, HostOK, BoardOK, IInv, TypeOK
<1>3. pc \in Joined => pc \in {"receive", "mark"} \cup Final
  BY DEF SyncInv, PhaseOK
<1>4. /\ pc = "receive" => Len(inbox) = 1 /\ Quiet
      /\ pc = "mark" => LastInPage /\ Quiet
  BY <1>1 DEF SyncInv, AnswersOK, FifoOK, Listening
<1>5. pc = "receive" /\ hpc' = "data" => BlockExpected
  <2>1. received = NBlocks => Start = ImageFrames
    BY DEF Start, ImageFrames
  <2>2. pc = "receive" => hpos >= Start
    BY <1>2 DEF SyncInv, PlaceOK, Place
  <2> QED
    BY <1>0, <1>2, <2>1, <2>2 DEF BlockExpected
<1>6. pc = "mark" \/ pc \in Final => hpc' = "doneWait"
  <2>1. ASSUME pc = "mark"
        PROVE  ~(hpos < ImageFrames)
    <3>1. received = NBlocks - 1
      BY <1>4, <2>1 DEF LastInPage
    <3>2. Start + FramesPerBlock = (received + 1) * FramesPerBlock
      BY <1>2, PageEnd DEF Start
    <3>3. received + 1 = NBlocks
      BY <1>2, <3>1
    <3>4. Start + FramesPerBlock = ImageFrames
      BY <3>2, <3>3 DEF ImageFrames
    <3>5. hpos >= Start + FramesPerBlock
      BY <2>1 DEF SyncInv, PlaceOK, Place
    <3> QED
      BY <1>2, <3>4, <3>5
  <2>2. pc \in Final => hpos = ImageFrames
    BY DEF SyncInv, PhaseOK
  <2> QED
    BY <1>0, <1>2, <2>1, <2>2
<1>7. hpc' \in {"data", "doneWait"}
  BY <1>0
<1>8. PhaseOK'
  BY <1>1, <1>3, <1>5, <1>6, <1>7 DEF SyncInv, PhaseOK
<1>9. AnswersOK'
  <2>1. pc \in Joined => \A i \in 1 .. Len(inbox') : inbox'[i].kind \notin {"HEARTBEAT", "DONE"}
    BY <1>1 DEF SyncInv, AnswersOK
  <2>2. pc = "receive" => Len(inbox') = 0 /\ Quiet
    BY <1>1, <1>4
  <2> QED
    BY <1>1, <1>6, <1>7, <2>1, <2>2 DEF AnswersOK
<1>10. PlaceOK' /\ LosslessOK'
  BY <1>0, <1>1, <1>7 DEF SyncInv, PlaceOK, LosslessOK, Underway
<1>11. FrameOK'
  BY <1>1, <1>3, <1>4, <1>7 DEF SyncInv, FrameOK
<1> QED
  BY <1>1, <1>8, <1>9, <1>10, <1>11 DEF SyncInv

(* DONE. *)
LEMMA DoneSync ==
  ASSUME LinkInv, SyncInv, BoardStays, fifo' = fifo, inbox # <<>>, inbox' = Tail(inbox),
         hpc = "doneWait", hpc' = "confirm", Head(inbox).kind = "DONE",
         hslot' = hslot, hpkg' = hpkg
  PROVE  SyncInv'
<1> USE DEF Joined, Preparing, Final, Early, Sharing, Engaged, Imaging, Idle
<1>0. QueuesOK
  BY DEF LinkInv
<1>1. Finished
  <2>1. Len(inbox) \in Nat \ {0} /\ inbox[1].kind = "DONE"
    BY <1>0, Shift
  <2>2. \A n \in Nat \ {0} : 1 \in 1 .. n
    OBVIOUS
  <2>3. 1 \in 1 .. Len(inbox)
    BY <2>1, <2>2, Zenon
  <2> QED
    BY <2>1, <2>3 DEF Finished
<1>2. pc \notin Joined
  BY <1>1 DEF SyncInv, OutcomeOK
<1>3. /\ pc' = pc /\ dseq' = dseq
      /\ legacy' # "confirmed" /\ BufferOK'
      /\ FifoOK' /\ ReadyOK' /\ SameSession' /\ OutcomeOK'
  BY <1>1, ReadLeaves DEF Waiting
<1>4. PhaseOK' /\ AnswersOK' /\ PlaceOK' /\ LosslessOK' /\ FrameOK'
  BY <1>2, <1>3 DEF PhaseOK, AnswersOK, PlaceOK, LosslessOK, FrameOK
<1> QED
  BY <1>3, <1>4 DEF SyncInv

(* Every step of the host. *)
LEMMA HostSync ==
  ASSUME LinkInv, SyncInv, HostStart \/ HostStep \/ ConfirmTimeout \/ HostKilled
  PROVE  SyncInv'
<1>1. CASE HostStart
  BY <1>1, HostStartSync
<1>2. CASE \E outcome \in Idle : HostEnds(outcome)
  <2>1. BoardStays /\ fifo' = fifo /\ hpc' \in Idle /\ inbox' = <<>>
    BY <1>2 DEF HostEnds, BoardStays, board
  <2> QED
    BY <2>1, IdleSync
<1>3. CASE HostKilled
  <2>1. BoardStays /\ fifo' = fifo /\ hpc' \in Idle /\ inbox' = <<>>
    BY <1>3 DEF HostKilled, BoardStays, board, Idle
  <2> QED
    BY <2>1, IdleSync
<1>4. CASE SendControl
  <2> DEFINE f == Frame("CONTROL", Other, 0, 0)
  <2>1. f \in Frames /\ f.id \notin SessionIds
    BY ImageFramesPositive DEF Frame, Frames, FrameIds, Positions, SessionIds
  <2>2. BoardStays /\ hpc \in Early /\ hpc' \in Early /\ Deliver(f) /\ inbox' = inbox
    BY <1>4 DEF SendControl, BoardStays, Early
  <2> HIDE DEF f
  <2> QED
    BY <2>1, <2>2, EarlySync
<1>5. CASE SendEnter
  <2> DEFINE f == Frame("ENTER", Other, 0, 0)
  <2>1. f \in Frames /\ f.id \notin SessionIds
    BY ImageFramesPositive DEF Frame, Frames, FrameIds, Positions, SessionIds
  <2>2. BoardStays /\ hpc \in Early /\ hpc' \in Early /\ Deliver(f) /\ inbox' = inbox
    BY <1>5 DEF SendEnter, BoardStays, Early
  <2> HIDE DEF f
  <2> QED
    BY <2>1, <2>2, EarlySync
<1>6. CASE ProbeTimeout
  <2>1. BoardStays /\ hpc \in Early /\ hpc' \in Early /\ fifo' = fifo /\ inbox' = inbox
    BY <1>6 DEF ProbeTimeout, BoardStays, board, Early
  <2> QED
    BY <2>1, EarlySync
<1>7. CASE SendManifest \/ SendTable \/ SendData
  BY <1>7, SendManifestSync, SendTableSync, SendDataSync
<1>8. CASE ReadProbe
  <2>1. /\ hpc = "probe" /\ inbox # <<>> /\ inbox' = Tail(inbox) /\ fifo' = fifo /\ BoardStays
        /\ IF Head(inbox).kind = "READY"
             THEN hpc' = "auth" /\ hslot' = Head(inbox).slot /\ count' = 0
             ELSE hpc' = "enter"
    BY <1>8 DEF ReadProbe, BoardStays, board
  <2>2. CASE Head(inbox).kind = "READY"
    BY <2>1, <2>2, ReadySync
  <2>3. CASE Head(inbox).kind # "READY"
    <3>1. hpc \in Early /\ hpc' \in Early
      BY <2>1, <2>3 DEF Early
    <3> QED
      BY <2>1, <3>1, EarlySync
  <2> QED
    BY <2>2, <2>3
<1>9. CASE ReadStatus
  <2> DEFINE m == Head(inbox)
  <2>1. hpc \in Waiting /\ inbox # <<>>
    BY <1>9 DEF ReadStatus
  <2>2. CASE /\ m.kind \in Accepted[hpc] /\ Accept(m) /\ inbox' = Tail(inbox)
             /\ UNCHANGED <<vars, board, hpkg, hslot, runs, spent>>
    <3>1. BoardStays /\ fifo' = fifo /\ hpkg' = hpkg /\ hslot' = hslot /\ losses' = losses
      BY <2>2 DEF BoardStays, board, spent
    <3>2. CASE hpc = "authWait"
      <4>1. hpc' = "table" /\ count' = count
        BY <2>2, <3>2, Zenon DEF Accept
      <4> QED
        BY <2>1, <2>2, <3>1, <3>2, <4>1, AcceptedSync
    <3>3. CASE hpc = "tableWait"
      <4>1. Transmit(ResumeAt(m)) /\ count' = count
        BY <2>2, <3>3, Zenon DEF Accept
      <4>2. m.kind = "WRITING"
        BY <2>2, <3>3 DEF Accepted
      <4> QED
        BY <2>1, <2>2, <3>1, <3>3, <4>1, <4>2, OpenSync
    <3>4. CASE hpc = "dataWait"
      <4>1. Transmit(hpos) /\ count' = count
        BY <2>2, <3>4, Zenon DEF Accept
      <4> QED
        BY <2>1, <2>2, <3>1, <3>4, <4>1, GoOnSync
    <3>5. CASE hpc = "doneWait"
      <4>1. hpc' = "confirm"
        BY <2>2, <3>5, Zenon DEF Accept
      <4>2. m.kind = "DONE"
        BY <2>2, <3>5 DEF Accepted
      <4> QED
        BY <2>1, <2>2, <3>1, <3>5, <4>1, <4>2, DoneSync
    <3> QED
      BY <2>1, <3>2, <3>3, <3>4, <3>5 DEF Waiting
  <2>3. CASE inbox' = Tail(inbox) /\ UNCHANGED <<vars, board, host, spent>>
    <3>1. BoardStays /\ fifo' = fifo /\ UNCHANGED <<host, spent>>
      BY <2>3 DEF BoardStays, board
    <3> QED
      BY <2>1, <2>3, <3>1, SkipSync
  <2>4. CASE HostEnds("failed")
    BY <1>2, <2>4 DEF Idle
  <2> QED
    BY <1>9, <2>2, <2>3, <2>4 DEF ReadStatus
<1>10. CASE SkipHeartbeat
  <2>1. /\ hpc \in Waiting \cup {"probe"} /\ inbox # <<>> /\ inbox' = Tail(inbox)
        /\ BoardStays /\ fifo' = fifo /\ UNCHANGED <<host, spent>> /\ hpc' = hpc
    BY <1>10 DEF SkipHeartbeat, BoardStays, board, host
  <2>2. CASE hpc = "probe"
    <3>1. hpc \in Early /\ hpc' \in Early
      BY <2>1, <2>2 DEF Early
    <3> QED
      BY <2>1, <3>1, EarlySync
  <2>3. CASE hpc \in Waiting
    BY <2>1, <2>3, SkipSync
  <2> QED
    BY <2>1, <2>2, <2>3
<1>11. CASE ReadConfirmation
  <2>1. CASE HostEnds("success")
    BY <1>2, <2>1 DEF Idle
  <2>2. CASE inbox' = Tail(inbox) /\ UNCHANGED <<vars, board, host, spent>>
    <3>1. /\ BoardStays /\ fifo' = fifo /\ UNCHANGED <<host, spent>>
          /\ hpc \in Waiting \cup {"confirm"} /\ inbox # <<>>
      BY <1>11, <2>2 DEF ReadConfirmation, BoardStays, board
    <3> QED
      BY <2>2, <3>1, SkipSync
  <2> QED
    BY <1>11, <2>1, <2>2 DEF ReadConfirmation
<1>12. CASE EnterFails \/ StatusTimeout \/ ConfirmTimeout
  BY <1>2, <1>12 DEF EnterFails, StatusTimeout, ConfirmTimeout, Idle
<1> QED
  BY <1>1, <1>3, <1>4, <1>5, <1>6, <1>7, <1>8, <1>9, <1>10, <1>11, <1>12 DEF HostStep

-----------------------------------------------------------------------------
LEMMA SyncInit ==
  ASSUME LinkInit
  PROVE  SyncInv
<1>1. /\ pc = "off" /\ hpc = "off" /\ legacy = "none" /\ fifo = <<>> /\ inbox = <<>>
      /\ wbuf = <<>> /\ Len(<<>>) = 0
  BY EmptySeq DEF LinkInit, Init
<1> USE DEF Joined, Preparing, Final, Early, Sharing, Engaged, Imaging, Idle
<1>2. InOrder /\ Quiet
  BY <1>1 DEF InOrder, Quiet
<1> QED
  BY <1>1, <1>2
  DEF SyncInv, FifoOK, ReadyOK, PhaseOK, SameSession, AnswersOK, BufferOK, PlaceOK,
      FrameOK, LosslessOK, OutcomeOK, Finished

LEMMA SyncNext ==
  ASSUME LinkInv, LinkInv', SyncInv, [LinkNext]_linkVars
  PROVE  SyncInv'
<1>1. IInv' /\ [Next]_vars
  BY BoardRefines DEF LinkInv
<1>2. CASE BoardStep \/ Heartbeat \/ LosePower
  BY <1>1, <1>2, BoardSync
<1>3. CASE HostStart \/ HostStep \/ ConfirmTimeout \/ HostKilled
  BY <1>3, HostSync
<1>4. CASE UNCHANGED linkVars
  BY <1>4
  DEF linkVars, vars, board, host, spent, SyncInv, FifoOK, InOrder, NoEnter, Quiet,
      Listening, Again,
      ReadyOK, PhaseOK, SameSession, AnswersOK, BufferOK, PlaceOK, Place, Taken, Start,
      FrameOK, LosslessOK, Underway, OutcomeOK, Finished, Recorded, WaitHere, BlockExpected,
      LastInPage
<1> QED
  BY <1>2, <1>3, <1>4 DEF LinkNext

(* A quiet FIFO has no frame of the session queued; else it has one.       *)
LEMMA QueuedQuiet ==
  ASSUME Quiet, NEW id \in SessionIds, QueuesOK
  PROVE  Queued(id) = 0
<1>1. {i \in DOMAIN fifo : fifo[i].id = id} = {}
  BY LenProperties DEF Quiet, QueuesOK
<1> QED
  BY <1>1, FS_EmptySet DEF Queued

LEMMA QueuedOne ==
  ASSUME QueuesOK, Len(fifo) = 1, fifo[1].id \in SessionIds
  PROVE  Queued(fifo[1].id) = 1
<1>1. {i \in DOMAIN fifo : fifo[i].id = fifo[1].id} = {1}
  <2>1. DOMAIN fifo = 1 .. 1
    BY LenProperties DEF QueuesOK
  <2>2. \A i \in 1 .. 1 : i = 1
    OBVIOUS
  <2>3. 1 \in 1 .. 1
    OBVIOUS
  <2> QED
    BY <2>1, <2>2, <2>3
<1> QED
  BY <1>1, FS_Singleton DEF Queued

(* A success is reported on the heartbeat that confirms it. *)
LEMMA SuccessStep ==
  ASSUME [LinkNext]_linkVars, hpc # "success", hpc' = "success"
  PROVE  hpc = "confirm" /\ inbox # <<>> /\ Confirms(Head(inbox))
<1>1. LinkNext
  BY DEF linkVars, host
<1>2. ~(BoardStep \/ Heartbeat \/ LosePower)
  BY DEF BoardStep, Heartbeat, LosePower, host
<1>3. ~(HostStart \/ ConfirmTimeout \/ HostKilled)
  BY DEF HostStart, ConfirmTimeout, HostKilled, HostEnds
<1>4. ~(SendControl \/ SendEnter \/ EnterFails \/ ProbeTimeout \/ SendManifest \/ SendTable
        \/ SendData \/ ReadProbe \/ StatusTimeout)
  BY DEF SendControl, SendEnter, EnterFails, ProbeTimeout, SendManifest, SendTable,
         SendData, ReadProbe, StatusTimeout, HostEnds
<1>5. ~SkipHeartbeat
  BY DEF SkipHeartbeat, host
<1>6. ~ReadStatus
  <2> SUFFICES ASSUME ReadStatus PROVE FALSE
    OBVIOUS
  <2>1. hpc \in Waiting /\ Accept(Head(inbox))
    BY DEF ReadStatus, host, HostEnds
  <2>2. \A p : Transmit(p) => hpc' # "success"
    BY DEF Transmit
  <2>3. CASE hpc = "authWait"
    <3>1. hpc' = "table"
      BY <2>1, <2>3, Zenon DEF Accept
    <3> QED
      BY <3>1
  <2>4. CASE hpc = "tableWait"
    <3>1. Transmit(ResumeAt(Head(inbox)))
      BY <2>1, <2>4, Zenon DEF Accept
    <3> QED
      BY <2>2, <3>1
  <2>5. CASE hpc = "dataWait"
    <3>1. Transmit(hpos)
      BY <2>1, <2>5, Zenon DEF Accept
    <3> QED
      BY <2>2, <3>1
  <2>6. CASE hpc = "doneWait"
    <3>1. hpc' = "confirm"
      BY <2>1, <2>6, Zenon DEF Accept
    <3> QED
      BY <3>1
  <2> QED
    BY <2>1, <2>3, <2>4, <2>5, <2>6 DEF Waiting
<1>7. ReadConfirmation
  BY <1>1, <1>2, <1>3, <1>4, <1>5, <1>6 DEF LinkNext, HostStep
<1> QED
  BY <1>7 DEF ReadConfirmation, host

LEMMA SyncQuiet ==
  ASSUME LinkInv, SyncInv
  PROVE  QuietWhileBusy
<1> USE DEF Joined, Preparing, Final
<1> SUFFICES ASSUME pc \in Preparing \cup {"mark", "complete", "candidate"}
             PROVE  Queued("AUTH") + Queued("HASH") + Queued("DATA") = 0
  BY DEF QuietWhileBusy
<1>1. Quiet
  BY DEF SyncInv, FifoOK, Listening
<1>2. Queued("AUTH") = 0 /\ Queued("HASH") = 0 /\ Queued("DATA") = 0
  BY <1>1, QueuedQuiet DEF SessionIds, LinkInv
<1> QED
  BY <1>2

LEMMA SyncBuffer ==
  ASSUME LinkInv, SyncInv
  PROVE  BufferInPlace
<1>1. DOMAIN wbuf = 1 .. Len(wbuf)
  BY LenProperties DEF LinkInv, BoardOK
<1> QED
  BY <1>1 DEF SyncInv, BufferOK, BufferInPlace, Start

LEMMA SyncInStep ==
  ASSUME LinkInv, SyncInv
  PROVE  InStep
<1> USE DEF Joined, Preparing, Final, Sharing, Imaging
<1>0. /\ QueuesOK /\ dseq \in Nat /\ count \in Nat /\ hpos \in Nat
  BY ImageFramesPositive, LinkAssumption DEF LinkInv, BoardOK, HostOK
<1>1. hpc = "data" /\ pc = "receive" => \A i \in DOMAIN inbox : inbox[i].kind = "HEARTBEAT"
  <2>1. DOMAIN inbox = 1 .. Len(inbox)
    BY <1>0, LenProperties DEF QueuesOK
  <2>2. hpc = "data" /\ pc = "receive" => Len(inbox) = 0
    BY DEF SyncInv, AnswersOK
  <2>3. \A i \in 1 .. 0 : FALSE
    OBVIOUS
  <2> QED
    BY <2>1, <2>2, <2>3
<1>2. ASSUME NEW id \in SessionIds, pc \in Joined, ~Quiet => fifo[1].id = id
      PROVE  Queued(id) = Underway
  <2>1. CASE Quiet
    BY <1>0, <2>1, QueuedQuiet DEF Underway
  <2>2. CASE ~Quiet
    <3>1. Len(fifo) = 1
      BY <1>2, <2>2 DEF SyncInv, FifoOK
    <3> QED
      BY <1>0, <1>2, <2>2, <3>1, QueuedOne DEF Underway
  <2> QED
    BY <2>1, <2>2
<1>3. "AUTH" \in SessionIds /\ "HASH" \in SessionIds /\ "DATA" \in SessionIds
  BY DEF SessionIds
<1>4. ASSUME losses = 0, hpc = "auth", pc \in {"run", "auth"}
      PROVE  hslot = target /\ count = dseq + Queued("AUTH")
  <2>1. hslot = target /\ count = dseq + Underway
    BY <1>4 DEF SyncInv, SameSession, LosslessOK
  <2>2. ~Quiet => fifo[1].id = "AUTH"
    BY <1>4 DEF SyncInv, FrameOK, FifoOK, Listening
  <2> QED
    BY <1>2, <1>3, <1>4, <2>1, <2>2
<1>5. ASSUME losses = 0, hpc = "table", pc = "table"
      PROVE  hslot = target /\ hpkg = pkg /\ count = dseq + Queued("HASH")
  <2>1. hslot = target /\ hpkg = pkg /\ count = dseq + Underway
    BY <1>5 DEF SyncInv, SameSession, LosslessOK
  <2>2. ~Quiet => fifo[1].id = "HASH"
    BY <1>5 DEF SyncInv, FrameOK
  <2> QED
    BY <1>2, <1>3, <1>5, <2>1, <2>2
<1>6. ASSUME losses = 0, hpc \in {"data", "dataWait", "doneWait"}, pc \in {"receive", "mark"}
      PROVE  LET taken == IF pc = "mark" THEN FramesPerBlock ELSE Len(wbuf)
             IN /\ hslot = target /\ hpkg = pkg
                /\ count = dseq + Queued("DATA") + (IF pc = "mark" THEN 1 ELSE 0)
                /\ hpos = received * FramesPerBlock + taken + Queued("DATA")
  <2>1. hslot = target /\ hpkg = pkg /\ hpos = Place + Underway /\ hpos + Taken = count + Place
    BY <1>6 DEF SyncInv, SameSession, LosslessOK, PlaceOK
  <2>2. ~Quiet => fifo[1].id = "DATA"
    BY <1>6 DEF SyncInv, FrameOK, FifoOK, Listening
  <2>3. Queued("DATA") = Underway
    BY <1>2, <1>3, <1>6, <2>2
  <2>4. /\ Start \in Nat /\ FramesPerBlock \in Nat /\ Len(wbuf) \in Nat /\ Underway \in Nat
        /\ Place = Start + (IF pc = "mark" THEN FramesPerBlock ELSE Len(wbuf))
    BY StartNat, LinkAssumption, LenProperties DEF LinkInv, BoardOK, Place, Underway
  <2>5. count = dseq + Underway + (IF pc = "mark" THEN 1 ELSE 0)
    BY <1>0, <2>1, <2>4 DEF Taken
  <2> QED
    BY <2>1, <2>3, <2>4, <2>5 DEF Start
<1> QED
  BY <1>1, <1>4, <1>5, <1>6 DEF InStep

LEMMA SyncSuccess ==
  ASSUME LinkInv, SyncInv, [LinkNext]_linkVars, hpc # "success", hpc' = "success"
  PROVE  /\ meta.valid /\ meta.candidate = NoSlot
         /\ meta.confirmed = hslot
         /\ meta.info[hslot] = hpkg
<1>1. /\ hpc = "confirm" /\ inbox # <<>>
      /\ Head(inbox).kind = "HEARTBEAT" /\ Head(inbox).slot = hslot
  BY SuccessStep DEF Confirms
<1>2. Len(inbox) \in Nat \ {0} /\ Head(inbox) = inbox[1]
  BY <1>1, HeadTailProperties, LenProperties, EmptySeq DEF LinkInv, QueuesOK
<1>3. 1 \in 1 .. Len(inbox)
  BY <1>2
<1>4. Recorded /\ \A i \in 1 .. Len(inbox) :
            inbox[i].kind = "HEARTBEAT" /\ inbox[i].slot = hslot =>
              meta.candidate = NoSlot /\ meta.confirmed = hslot
  BY <1>1 DEF SyncInv, OutcomeOK, Finished
<1> QED
  BY <1>1, <1>2, <1>3, <1>4 DEF Recorded

(* The types of the queues, and what host and board know of each other. *)
LEMMA LinkSync == LinkSpec => [](LinkInv /\ SyncInv)
<1>1. LinkInit => SyncInv
  BY SyncInit
<1>2. LinkInv /\ LinkInv' /\ SyncInv /\ [LinkNext]_linkVars => SyncInv'
  BY SyncNext
<1> QED
  BY <1>1, <1>2, LinkInitInv, LinkNextInv, PTL DEF LinkSpec

(* While the board programs flash and polls nothing, no frame of the       *)
(* session is under way to its FIFO: QuietWhileBusy.                       *)
THEOREM LinkQuietWhileBusy == LinkSpec => []QuietWhileBusy
<1>1. LinkInv /\ SyncInv => QuietWhileBusy
  BY SyncQuiet
<1> QED
  BY <1>1, LinkSync, PTL

(* Whatever frames are lost, the page buffer holds the frames of one page  *)
(* in their places: BufferInPlace.                                         *)
THEOREM LinkBufferInPlace == LinkSpec => []BufferInPlace
<1>1. LinkInv /\ SyncInv => BufferInPlace
  BY SyncBuffer
<1> QED
  BY <1>1, LinkSync, PTL

(* Host and board agree on the slot, the package, the sequence number and  *)
(* the place in the image while no frame has been lost, and the host has   *)
(* read every answer when it sends data: InStep.                           *)
THEOREM LinkInStep == LinkSpec => []InStep
<1>1. LinkInv /\ SyncInv => InStep
  BY SyncInStep
<1> QED
  BY <1>1, LinkSync, PTL

(* The host reports success only when its package is the confirmed image,  *)
(* in the slot it was sent to: SuccessMeansConfirmed.                      *)
THEOREM LinkSuccessMeansConfirmed == LinkSpec => SuccessMeansConfirmed
<1> DEFINE Step ==
      hpc # "success" /\ hpc' = "success" =>
        /\ meta.valid /\ meta.candidate = NoSlot
        /\ meta.confirmed = hslot
        /\ meta.info[hslot] = hpkg
<1>1. LinkInv /\ SyncInv /\ [LinkNext]_linkVars => [Step]_linkVars
  BY SyncSuccess
<1> QED
  BY <1>1, LinkSync, PTL DEF LinkSpec, SuccessMeansConfirmed

=============================================================================
