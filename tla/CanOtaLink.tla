----------------------------- MODULE CanOtaLink -----------------------------
(***************************************************************************)
(* An OTA run on the CAN bus: the Linux host (stm32_can_ota_host.c) and    *)
(* the board (ABBootloader), frame by frame.  Every step of the board is   *)
(* an action of ABBootloader, driven by the frames in its receive FIFO and *)
(* joined to the status frames it sends, or takes a frame that leaves the  *)
(* session where it is.                                                    *)
(*                                                                         *)
(* The host paces its frames with sleeps and waits for a status at agreed  *)
(* places, because the board polls a FIFO of three frames and does not     *)
(* poll it while it programs flash.  Time is left out: a timeout may fire  *)
(* whenever the other side is in a state in which it can stay silent that  *)
(* long.  The gateway's CAN controller acknowledges the board's frames     *)
(* whether or not a host process runs.                                     *)
(***************************************************************************)
EXTENDS ABBootloader, Sequences

CONSTANTS
  FifoDepth,        \* receive FIFO of the bxCAN controller (3)
  ManifestFrames,   \* AUTH frames of a manifest (42)
  TableFrames,      \* HASH frames of a block hash table
  FramesPerBlock,   \* DATA frames of a flash page (342)
  StatusEvery,      \* a status every so many DATA frames (32)
  FullTail,         \* packages whose images fill their last page
  Attempts,         \* ENTER_ATTEMPTS (12)
  MaxRuns,          \* bound on host runs
  MaxUpsets,        \* bound on hosts killed
  MaxLosses         \* bound on frames lost in a bus-off of the host

ASSUME LinkAssumption ==
  /\ FifoDepth \in Nat \ {0}
  /\ ManifestFrames \in Nat \ {0} /\ TableFrames \in Nat \ {0}
  /\ FramesPerBlock \in Nat \ {0} /\ StatusEvery \in Nat \ {0}
  /\ FullTail \subseteq Packages
  /\ Attempts \in Nat
  /\ MaxRuns \in Nat /\ MaxUpsets \in Nat /\ MaxLosses \in Nat

VARIABLES
  fifo,    \* the board's receive FIFO
  dseq,    \* expected_seq, g_expected_seq
  wbuf,    \* g_write_buf: the image positions in it
  inbox,   \* the host's socket queue: status and heartbeat frames
  hpc,     \* what the host is doing
  hpkg,    \* its package
  hslot,   \* its target slot
  count,   \* its ENTER attempts, or the sequence number of its next frame
  hpos,    \* the image position of its next DATA frame
  runs,    \* host runs so far
  upsets,  \* hosts killed so far
  losses   \* frames lost so far

board == <<fifo, dseq, wbuf>>
host == <<hpc, hpkg, hslot, count, hpos, runs>>
spent == <<upsets, losses>>
linkVars == <<vars, board, inbox, host, spent>>

Idle == {"off", "success", "failed"}
ImageFrames == NBlocks * FramesPerBlock

Frame(id, p, seq, pos) == [id |-> id, pkg |-> p, seq |-> seq, pos |-> pos]
FrameIds == {"CONTROL", "ENTER", "AUTH", "HASH", "DATA"}
Statuses == {"READY", "ERASING", "WRITING", "VERIFY", "DONE", "ROLLBACK", "ERROR"}

Queued(id) == Cardinality({i \in DOMAIN fifo : fifo[i].id = id})

\* Mutant: no wait at the end of a page
MutantWaitHere(seq, pos) == seq % StatusEvery = 0 \/ pos = ImageFrames
(* After DATA frame seq, with the image sent up to pos, send_image waits   *)
(* for a status,                                                           *)
WaitHere(seq, pos) ==
  seq % StatusEvery = 0 \/ pos % FramesPerBlock = 0 \/ pos = ImageFrames
(* and there can_ota_ab_run sends one.                                     *)
ReportHere(seq, pos) ==
  seq % StatusEvery = 0 \/ pos % FramesPerBlock = 0 \/ pos = ImageFrames

-----------------------------------------------------------------------------
(* The board. *)

(* ReceiveFifoLocked is disabled: a frame that finds the FIFO full replaces *)
(* the newest one.  A board without power hears nothing.  setup_can.sh     *)
(* restarts the host's controller after a bus-off, without its last frame. *)
Deliver(f) ==
  \/ /\ fifo' = IF pc = "off" THEN fifo
                ELSE IF Len(fifo) < FifoDepth THEN Append(fifo, f)
                ELSE [fifo EXCEPT ![FifoDepth] = f]
     /\ UNCHANGED spent
  \/ losses < MaxLosses /\ losses' = losses + 1 /\ UNCHANGED <<fifo, upsets>>

(* can_ota_ab_send_status, of what the step made of the session *)
Status(s) == [kind |-> s, slot |-> target', n |-> IF s = "WRITING" THEN received' ELSE 0]
Heard(messages) == inbox' = IF hpc \in Idle THEN inbox ELSE inbox \o messages
Report(statuses) == Heard([i \in 1 .. Len(statuses) |-> Status(statuses[i])])
NoReport == inbox' = inbox

(* an error ends can_ota_ab_run with an ERROR status *)
ErrorOr(statuses) == IF pc' = "recovery" THEN <<"ERROR">> ELSE statuses

(* A step without a frame: what a reset leaves of FIFO and RAM.  The jump  *)
(* to the application keeps the FIFO.                                      *)
NoFrame ==
  /\ fifo' = IF pc' = "off" THEN <<>> ELSE fifo
  /\ IF pc' \in {"off", "recovery"} THEN dseq' = 0 /\ wbuf' = <<>>
     ELSE UNCHANGED <<dseq, wbuf>>

Took(seq, buffer) == fifo' = Tail(fifo) /\ dseq' = seq /\ wbuf' = buffer

(* Seconds pass only while the host is blocked: its sleeps and the gaps    *)
(* between its ENTER frames are shorter than the board's timeouts.         *)
HostBlocked ==
  /\ inbox = <<>>
  /\ hpc \in Idle \cup {"control", "authWait", "tableWait", "dataWait",
                        "doneWait", "confirm"}

Silent ==
  /\ \/ PowerUp \/ (WaitTimeout /\ HostBlocked /\ fifo = <<>>) \/ StartRun
     \/ BootEmpty \/ BootTrial \/ BootRollback \/ BootActive
     \/ AppReset
  /\ NoFrame
  /\ NoReport

(* prepare_resumable_write: ERASING first, WRITING or ERROR at its end *)
PrepareWrite ==
  /\ \/ /\ Prepare
        /\ Report(<<"ERASING">> \o IF pc' = "receive" THEN <<"WRITING">> ELSE <<>>)
     \/ /\ EraseArea \/ Begin \/ Truncate \/ EraseBlock
        /\ Report(ErrorOr(IF pc' = "receive" THEN <<"WRITING">> ELSE <<>>))
  /\ UNCHANGED fifo
  /\ dseq' = 0
  /\ wbuf' = <<>>

(* the page is programmed and recorded: now the status of its last frame,  *)
(* unless that frame ended the image inside the page                       *)
LastInPage == received = NBlocks - 1 /\ pkg \notin FullTail
PageDone ==
  /\ MarkBlock
  /\ Report(ErrorOr(IF LastInPage THEN <<>> ELSE <<"WRITING">>))
  /\ UNCHANGED <<fifo, wbuf>>
  /\ dseq' = IF pc' = "receive" THEN dseq + 1 ELSE 0

Finalise ==
  /\ \/ Verify /\ Report(<<"VERIFY">> \o ErrorOr(<<>>))
     \/ Complete /\ Report(ErrorOr(<<>>))
     \/ SetCandidate /\ Report(ErrorOr(<<>>))
     \/ ReportDone /\ Report(<<"DONE">>)
     \/ ReportRollback /\ Report(<<"ROLLBACK">>)
  /\ NoFrame

(* 5 s without a frame of the session: the host has stopped sending, or a  *)
(* new one sends ENTER *)
SessionTimeout ==
  /\ fifo = <<>>
  /\ HostBlocked \/ (hpc \in {"enter", "probe"} /\ inbox = <<>>)
  /\ pc = "receive" => BlockExpected
  /\ SessionFails
  /\ Report(<<"ERROR">>)
  /\ NoFrame

\* Mutant: ENTER starts a new session in the middle of a transmission
MutantTakeEnter ==
  /\ fifo # <<>>
  /\ Head(fifo).id = "ENTER"
  /\ \/ Enter
     \/ /\ pc = "receive"
        /\ pc' = "run"
        /\ UNCHANGED <<stored, session, runSlot, peer, trialStarts, faults, enters>>
  /\ Report(<<"READY">>)
  /\ Took(0, <<>>)
TakeEnter ==
  /\ fifo # <<>>
  /\ Head(fifo).id = "ENTER"
  /\ Enter
  /\ Report(<<"READY">>)
  /\ Took(0, <<>>)

\* Mutant: the sequence number is not looked at
MutantInSequence(f) == TRUE
InSequence(f) == f.seq = dseq

(* A frame of the session out of sequence ends it. *)
OutOfSequence(id) ==
  /\ Head(fifo).id = id
  /\ ~InSequence(Head(fifo))
  /\ SessionFails
  /\ Report(<<"ERROR">>)
  /\ Took(0, <<>>)

(* A frame that is stored and does not end its message *)
Store(id, last, buffer) ==
  /\ Head(fifo).id = id
  /\ InSequence(Head(fifo))
  /\ dseq + 1 < last
  /\ UNCHANGED vars
  /\ Took(dseq + 1, buffer)

(* receive_auth_header *)
TakeAuth ==
  /\ fifo # <<>>
  /\ pc = "auth"
  /\ \/ OutOfSequence("AUTH")
     \/ Store("AUTH", ManifestFrames, wbuf) /\ NoReport
     \/ /\ Head(fifo).id = "AUTH"
        /\ InSequence(Head(fifo)) /\ dseq + 1 = ManifestFrames
        /\ ReceiveManifest(Head(fifo).pkg)
        /\ Report(ErrorOr(<<"READY">>))
        /\ Took(0, <<>>)

(* receive_block_hash_table *)
TakeHash ==
  /\ fifo # <<>>
  /\ pc = "table"
  /\ \/ OutOfSequence("HASH")
     \/ Store("HASH", TableFrames, wbuf) /\ NoReport
     \/ /\ Head(fifo).id = "HASH"
        /\ InSequence(Head(fifo)) /\ dseq + 1 = TableFrames
        /\ IF Head(fifo).pkg = pkg THEN ReceiveTable ELSE SessionFails
        /\ Report(ErrorOr(<<>>))
        /\ Took(0, <<>>)

(* The page in the buffer is the package's if its frames are in place. *)
PageContent(buffer) ==
  IF buffer = [i \in 1 .. FramesPerBlock |-> received * FramesPerBlock + i - 1]
    THEN pkg ELSE Other

(* can_ota_ab_run, a DATA frame: into the page buffer, and a full buffer   *)
(* into the flash                                                          *)
TakeData ==
  /\ fifo # <<>>
  /\ pc = "receive"
  /\ BlockExpected
  /\ LET buffer == Append(wbuf, Head(fifo).pos)
         pos == received * FramesPerBlock + Len(buffer)
     IN \/ OutOfSequence("DATA")
        \/ /\ Len(buffer) < FramesPerBlock
           /\ Store("DATA", ImageFrames, buffer)
           /\ Report(IF ReportHere(dseq, pos) THEN <<"WRITING">> ELSE <<>>)
        \/ /\ Head(fifo).id = "DATA" /\ InSequence(Head(fifo))
           /\ Len(buffer) = FramesPerBlock
           /\ ReceiveBlock(PageContent(buffer))
           /\ Report((IF LastInPage THEN <<"WRITING">> ELSE <<>>) \o ErrorOr(<<>>))
           /\ Took(IF pc' = "mark" THEN dseq ELSE 0, <<>>)

(* the application: CONTROL with the command to enter the bootloader *)
TakeControl ==
  /\ fifo # <<>>
  /\ Head(fifo).id = "CONTROL"
  /\ RequestBootloader
  /\ NoReport
  /\ fifo' = <<>> /\ dseq' = 0 /\ wbuf' = <<>>

(* every polling loop reads and drops the frames it does not expect *)
Expected ==
  CASE pc \in {"wait", "recovery"} -> "ENTER"
    [] pc = "auth" -> "AUTH"
    [] pc = "table" -> "HASH"
    [] pc = "receive" -> "DATA"
    [] pc = "running" -> "CONTROL"
Polling ==
  \/ pc \in {"wait", "recovery", "auth", "table", "running"}
  \/ pc = "receive" /\ BlockExpected
DropFrame ==
  /\ Polling
  /\ fifo # <<>>
  /\ Head(fifo).id # Expected
  /\ Took(dseq, wbuf)
  /\ NoReport
  /\ UNCHANGED vars

Beat ==
  [kind |-> "HEARTBEAT", slot |-> runSlot, n |-> VersionOf(RunningImage)]

(* the confirmation, then the first heartbeat *)
StartApp ==
  /\ AppConfirm
  /\ IF pc' = "running" THEN Heard(<<Beat>>) ELSE NoReport
  /\ NoFrame

(* a heartbeat every 2 s, read by the host before the next one *)
Heartbeat ==
  /\ pc = "running"
  /\ \A i \in DOMAIN inbox : inbox[i].kind # "HEARTBEAT"
  /\ Heard(<<Beat>>)
  /\ UNCHANGED <<vars, board, host, spent>>

LosePower == PowerLoss /\ NoReport /\ NoFrame /\ UNCHANGED <<host, spent>>

BoardStep ==
  /\ \/ Silent \/ PrepareWrite \/ PageDone \/ Finalise \/ SessionTimeout
     \/ TakeEnter \/ TakeAuth \/ TakeHash \/ TakeData \/ TakeControl
     \/ DropFrame \/ StartApp
  /\ UNCHANGED <<host, spent>>

-----------------------------------------------------------------------------
(* The host. *)

(* The host sleeps after each frame: a polling board has read the last one *)
(* when the next is sent, and 100 ms after READY it polls.                 *)
Paced == Polling => fifo = <<>>
\* Mutant: no sleep after READY
MutantSettled == TRUE
Settled == pc # "run"

HostStart ==
  /\ hpc \in Idle
  /\ Paced
  /\ runs < MaxRuns
  /\ runs' = runs + 1
  /\ hpc' = "control"
  /\ hpkg' \in Packages
  /\ hslot' = NoSlot
  /\ count' = 0
  /\ hpos' = 0
  /\ UNCHANGED <<vars, board, inbox, spent>>

HostEnds(outcome) ==
  /\ hpc' = outcome
  /\ hslot' = NoSlot /\ count' = 0 /\ hpos' = 0
  /\ inbox' = <<>>
  /\ UNCHANGED <<vars, board, hpkg, runs, spent>>

(* enter_bootloader: one command for the application, *)
SendControl ==
  /\ hpc = "control"
  /\ Paced
  /\ Deliver(Frame("CONTROL", Other, 0, 0))
  /\ hpc' = "enter"
  /\ UNCHANGED <<vars, dseq, wbuf, inbox, hpkg, hslot, count, hpos, runs>>

(* then ENTER until the bootloader is READY *)
SendEnter ==
  /\ hpc = "enter"
  /\ count < Attempts
  /\ Paced
  /\ Deliver(Frame("ENTER", Other, 0, 0))
  /\ count' = count + 1
  /\ hpc' = "probe"
  /\ UNCHANGED <<vars, dseq, wbuf, inbox, hpkg, hslot, hpos, runs>>
EnterFails ==
  /\ hpc = "enter"
  /\ count = Attempts
  /\ HostEnds("failed")
(* 1 s is enough for a reset and for the answer of a polling bootloader *)
ProbeTimeout ==
  /\ hpc = "probe"
  /\ inbox = <<>>
  /\ pc # "off"
  /\ ~(pc = "running" /\ Queued("CONTROL") > 0)
  /\ ~(pc \in {"wait", "recovery"} /\ Queued("ENTER") > 0)
  /\ hpc' = "enter"
  /\ UNCHANGED <<vars, board, inbox, hpkg, hslot, count, hpos, runs, spent>>

SendManifest ==
  /\ hpc = "auth"
  /\ Paced
  /\ Settled
  /\ Deliver(Frame("AUTH", hpkg, count, 0))
  /\ count' = IF count + 1 < ManifestFrames THEN count + 1 ELSE 0
  /\ hpc' = IF count + 1 < ManifestFrames THEN "auth" ELSE "authWait"
  /\ UNCHANGED <<vars, dseq, wbuf, inbox, hpkg, hslot, hpos, runs>>

SendTable ==
  /\ hpc = "table"
  /\ Paced
  /\ Deliver(Frame("HASH", hpkg, count, 0))
  /\ count' = IF count + 1 < TableFrames THEN count + 1 ELSE 0
  /\ hpc' = IF count + 1 < TableFrames THEN "table" ELSE "tableWait"
  /\ UNCHANGED <<vars, dseq, wbuf, inbox, hpkg, hslot, hpos, runs>>

(* send_image *)
SendData ==
  /\ hpc = "data"
  /\ Paced
  /\ Deliver(Frame("DATA", hpkg, count, hpos))
  /\ hpos' = hpos + 1
  /\ count' = count + 1
  /\ hpc' = IF WaitHere(count, hpos + 1) THEN "dataWait" ELSE "data"
  /\ UNCHANGED <<vars, dseq, wbuf, inbox, hpkg, hslot, runs>>

(* The transmission goes on, or only DONE is still to come. *)
Transmit(pos) == hpos' = pos /\ hpc' = IF pos < ImageFrames THEN "data" ELSE "doneWait"

(* A status is read.  probe: any but READY costs an attempt; the others:   *)
(* skipped, accepted or the end of the run, as the loop they arrive in     *)
(* decides.                                                                *)
Skipped ==
  [authWait |-> Statuses \ {"READY", "ERROR"}, tableWait |-> {"ERASING", "READY"},
   doneWait |-> {"WRITING", "VERIFY"}]
Accepted ==
  [authWait |-> {"READY"}, tableWait |-> {"WRITING"}, doneWait |-> {"DONE"},
   dataWait |-> Statuses \ {"ERROR"}]
Waiting == {"authWait", "tableWait", "dataWait", "doneWait"}

\* Mutant: the resume offset is ignored
MutantResumeAt(m) == 0
(* resume_offset, from the WRITING status that opens the transmission *)
ResumeAt(m) == m.n * FramesPerBlock

Accept(m) ==
  CASE hpc = "authWait" -> hpc' = "table" /\ UNCHANGED <<count, hpos>>
    [] hpc = "tableWait" -> Transmit(ResumeAt(m)) /\ UNCHANGED count
    [] hpc = "dataWait" -> Transmit(hpos) /\ UNCHANGED count
    [] hpc = "doneWait" -> hpc' = "confirm" /\ UNCHANGED <<count, hpos>>

ReadProbe ==
  /\ hpc = "probe"
  /\ inbox # <<>>
  /\ Head(inbox).kind # "HEARTBEAT"
  /\ IF Head(inbox).kind = "READY"
       THEN hpc' = "auth" /\ hslot' = Head(inbox).slot /\ count' = 0
       ELSE hpc' = "enter" /\ UNCHANGED <<hslot, count>>
  /\ inbox' = Tail(inbox)
  /\ UNCHANGED <<vars, board, hpkg, hpos, runs, spent>>

ReadStatus ==
  /\ hpc \in Waiting
  /\ inbox # <<>>
  /\ LET m == Head(inbox)
     IN \/ /\ m.kind \in Accepted[hpc]
           /\ Accept(m)
           /\ inbox' = Tail(inbox)
           /\ UNCHANGED <<vars, board, hpkg, hslot, runs, spent>>
        \/ /\ hpc # "dataWait" /\ m.kind \in Skipped[hpc]
           /\ inbox' = Tail(inbox)
           /\ UNCHANGED <<vars, board, host, spent>>
        \/ /\ m.kind \notin Accepted[hpc] \cup {"HEARTBEAT"}
           /\ hpc # "dataWait" => m.kind \notin Skipped[hpc]
           /\ HostEnds("failed")

(* receive_status reads past a heartbeat and starts its timeout again *)
SkipHeartbeat ==
  /\ hpc \in Waiting \cup {"probe"}
  /\ inbox # <<>>
  /\ Head(inbox).kind = "HEARTBEAT"
  /\ inbox' = Tail(inbox)
  /\ UNCHANGED <<vars, board, host, spent>>

(* 15 s in which no frame arrives: the board is in no session, and no      *)
(* application sends heartbeats                                            *)
StatusTimeout ==
  /\ hpc \in Waiting
  /\ inbox = <<>>
  /\ pc \in {"off", "wait", "boot", "app", "recovery"}
  /\ HostEnds("failed")

\* Mutant: the heartbeat's slot is not looked at
MutantConfirms(m) == m.kind = "HEARTBEAT" /\ m.n = Version[hpkg]
(* wait_app_confirmation *)
Confirms(m) == m.kind = "HEARTBEAT" /\ m.n = Version[hpkg] /\ m.slot = hslot
ReadConfirmation ==
  /\ hpc = "confirm"
  /\ inbox # <<>>
  /\ IF Confirms(Head(inbox)) THEN HostEnds("success")
     ELSE inbox' = Tail(inbox) /\ UNCHANGED <<vars, board, host, spent>>
(* its deadline, 15 s after DONE, which the boot of a sound trial meets *)
ConfirmTimeout ==
  /\ hpc = "confirm"
  /\ pc \notin {"boot", "app"}
  /\ \A i \in DOMAIN inbox : ~Confirms(inbox[i])
  /\ HostEnds("failed")

(* the operator interrupts the host, it dies, or a write fails *)
HostKilled ==
  /\ hpc \notin Idle
  /\ upsets < MaxUpsets /\ upsets' = upsets + 1
  /\ hpc' = "failed"
  /\ hslot' = NoSlot /\ count' = 0 /\ hpos' = 0
  /\ inbox' = <<>>
  /\ UNCHANGED <<vars, board, hpkg, runs, losses>>

HostStep ==
  \/ SendControl \/ SendEnter \/ EnterFails \/ ProbeTimeout \/ SendManifest
  \/ SendTable \/ SendData \/ ReadProbe \/ ReadStatus \/ SkipHeartbeat
  \/ StatusTimeout \/ ReadConfirmation

-----------------------------------------------------------------------------
(* A board without a v1 application. *)
LinkInit ==
  /\ Init
  /\ legacy = "none"
  /\ fifo = <<>> /\ dseq = 0 /\ wbuf = <<>>
  /\ inbox = <<>>
  /\ hpc = "off" /\ hpkg = Other /\ hslot = NoSlot /\ count = 0 /\ hpos = 0
  /\ runs = 0
  /\ upsets = 0 /\ losses = 0

LinkNext ==
  \/ BoardStep
  \/ Heartbeat
  \/ LosePower
  \/ HostStart \/ HostStep \/ ConfirmTimeout \/ HostKilled

LinkSpec == LinkInit /\ [][LinkNext]_linkVars

(* Board and host keep executing; a running application keeps sending      *)
(* heartbeats; the confirmation deadline is absolute.                      *)
LinkFairSpec ==
  /\ LinkSpec
  /\ WF_linkVars(BoardStep)
  /\ WF_linkVars(Heartbeat)
  /\ WF_linkVars(HostStep)
  /\ WF_linkVars(ConfirmTimeout)

-----------------------------------------------------------------------------
Messages ==
  [kind : Statuses \cup {"HEARTBEAT"}, slot : Slots, n : Nat]
LinkTypeOK ==
  /\ Len(fifo) <= FifoDepth
  /\ \A i \in DOMAIN fifo :
        /\ fifo[i].id \in FrameIds
        /\ fifo[i].seq \in Nat
        /\ fifo[i].pos \in 0 .. (ImageFrames - 1)
        /\ fifo[i].pkg \in Packages \cup {Other}
  /\ dseq \in 0 .. (ImageFrames + ManifestFrames + TableFrames)
  /\ \A i \in DOMAIN wbuf : wbuf[i] \in 0 .. (ImageFrames - 1)
  /\ \A i \in DOMAIN inbox : inbox[i] \in Messages
  /\ hpc \in Idle \cup Waiting \cup
             {"control", "enter", "probe", "auth", "table", "data", "confirm"}
  /\ hpkg \in Packages \cup {Other}
  /\ hslot \in Slots \cup {NoSlot}
  /\ hpos \in 0 .. ImageFrames
  /\ runs \in 0 .. MaxRuns
  /\ upsets \in 0 .. MaxUpsets /\ losses \in 0 .. MaxLosses

(* The frames of any host, lost ones and killed hosts included, drive the  *)
(* board through steps of ABBootloader only, so that what holds for it     *)
(* with an arbitrary bus holds here.                                       *)
ImplementsBoard == Spec

(* Host and board agree on the session they share: the slot, the number of *)
(* the next frame and, for image data, its place in the image, counting    *)
(* what is still in the FIFO.  A frame lost to a full FIFO, a session      *)
(* resumed at another page by one side only, or an old READY would break   *)
(* it.  On a bus that loses no frame of the host.  And always: when the    *)
(* host goes on sending data it has read every status there is, so that it *)
(* never takes the answer to an earlier frame for the end of a page.       *)
InStep ==
  /\ hpc = "data" /\ pc = "receive" =>
       \A i \in DOMAIN inbox : inbox[i].kind = "HEARTBEAT"
  /\ losses = 0 =>
       /\ hpc = "auth" /\ pc \in {"run", "auth"} =>
             hslot = target /\ count = dseq + Queued("AUTH")
       /\ hpc = "table" /\ pc = "table" =>
             hslot = target /\ hpkg = pkg /\ count = dseq + Queued("HASH")
       /\ hpc \in {"data", "dataWait", "doneWait"} /\ pc \in {"receive", "mark"} =>
             LET taken == IF pc = "mark" THEN FramesPerBlock ELSE Len(wbuf)
             IN /\ hslot = target /\ hpkg = pkg
                /\ count = dseq + Queued("DATA") + (IF pc = "mark" THEN 1 ELSE 0)
                /\ hpos = received * FramesPerBlock + taken + Queued("DATA")

(* Whatever frames are lost, the page buffer holds the frames of one page  *)
(* in their places: a gap ends the session, and a resumed session starts   *)
(* on both sides at the same page.                                         *)
BufferInPlace ==
  \A i \in DOMAIN wbuf : wbuf[i] = received * FramesPerBlock + i - 1

(* While the board erases, programs or verifies, and polls nothing, no     *)
(* frame of the session is under way to its FIFO.                          *)
QuietWhileBusy ==
  pc \in {"prepare", "eraseArea", "begin", "truncate", "eraseBlock", "mark",
          "complete", "candidate"} =>
    Queued("AUTH") + Queued("HASH") + Queued("DATA") = 0

(* The host reports success only when its own package is the confirmed     *)
(* image, in the slot it was sent to.                                      *)
SuccessMeansConfirmed ==
  [][ hpc # "success" /\ hpc' = "success" =>
        /\ meta.valid /\ meta.candidate = NoSlot
        /\ meta.confirmed = hslot
        /\ meta.info[hslot] = hpkg ]_linkVars

(* A run that finds the application running or the bootloader in recovery, *)
(* with a sound package and no more failures, succeeds.                    *)
GoodRun(p) ==
  /\ hpc = "control" /\ hpkg = p
  /\ pc \in {"running", "recovery"}
  /\ \A i \in DOMAIN inbox : inbox[i].kind = "HEARTBEAT"
  /\ faults = MaxFaults /\ upsets = MaxUpsets /\ losses = MaxLosses
  /\ VersionAllowed(p)
UpdateSucceeds ==
  \A p \in Authentic \cap WellFormed \cap Healthy \cap TrueVersion :
    GoodRun(p) ~> hpc = "success"

(* stm32_can_ota_host.c, -t timeout_ms: a host that hears no OTA status    *)
(* gives up.                                                               *)
HostRunEnds == hpc = "control" ~> hpc \in Idle

=============================================================================
