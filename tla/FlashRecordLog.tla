--------------------------- MODULE FlashRecordLog ---------------------------
(***************************************************************************)
(* The two-page append-only record log that keeps the A/B metadata         *)
(* (ota_ab_metadata.c) and the resume journal (ota_resume_journal.c).      *)
(* Both files hold the same algorithm over 128-byte records, 16 to a page. *)
(*                                                                         *)
(* A record cell is erased, torn (anything a validity check rejects) or    *)
(* holds a valid record.  An append scans the log, picks an erased cell,   *)
(* or erases the page that does not hold the newest record, writes the     *)
(* body, then the magic number that makes the record valid.  Power may be  *)
(* lost, and the flash driver may report an error, at every step.          *)
(***************************************************************************)
EXTENDS Integers

CONSTANTS
  RecordsPerPage,    \* records in one flash page (16 in the code)
  Payloads,          \* the record contents other than the sequence number
  Nothing,           \* the content of a cell with no valid record
  SeqModulus,        \* sequence numbers are unsigned, modulo this (2^32)
  MaxSeq             \* bound: no append is made beyond this number

ASSUME LogAssumption ==
  /\ RecordsPerPage \in Nat \ {0}
  /\ SeqModulus \in Nat \ {0}
  /\ MaxSeq \in Nat \ {0}
  /\ MaxSeq < SeqModulus
  /\ Nothing \notin Payloads

VARIABLES
  cell,     \* the flash content, by record index
  pc,       \* the step of the append under way
  request,  \* the payload being appended
  target,   \* the cell chosen for it
  nextSeq,  \* the sequence number chosen for it
  result    \* the outcome of the last append

vars == <<cell, pc, request, target, nextSeq, result>>

Cells == 0 .. (2 * RecordsPerPage - 1)
Pages == {0, 1}
PageOf(i) == IF i < RecordsPerPage THEN 0 ELSE 1
FirstCell(page) == IF page = 0 THEN 0 ELSE RecordsPerPage

Erased == [state |-> "erased", seq |-> 0, data |-> Nothing]
Torn == [state |-> "torn", seq |-> 0, data |-> Nothing]
Record(s, p) == [state |-> "valid", seq |-> s, data |-> p]
CellValues ==
  {Erased, Torn} \cup {Record(s, p) : s \in 0 .. (SeqModulus - 1), p \in Payloads}

IsValid(c, i) == c[i].state = "valid"
ValidCells(c) == {i \in Cells : IsValid(c, i)}
ErasedCells(c) == {i \in Cells : c[i].state = "erased"}

-----------------------------------------------------------------------------
(* (int32_t)(a - b) > 0 for numbers modulo SeqModulus *)
SeqDiff(a, b) == IF a >= b THEN a - b ELSE a - b + SeqModulus
SequenceIsNewer(a, b) == 0 < SeqDiff(a, b) /\ 2 * SeqDiff(a, b) < SeqModulus
NextSequence(a) == IF a + 1 = SeqModulus THEN 0 ELSE a + 1

(* The cell of the record a load returns: no valid record is newer. *)
IsLatest(c, i) ==
  /\ IsValid(c, i)
  /\ \A j \in ValidCells(c) : j # i => SequenceIsNewer(c[i].seq, c[j].seq)
Latest(c) == CHOOSE i \in Cells : IsLatest(c, i)

Load(c) == IF ValidCells(c) = {} THEN Nothing ELSE c[Latest(c)].data

\* Mutant: the last valid record wins
MutantBetterOf(c, best, i) == IF IsValid(c, i) THEN i ELSE best
(* The body of the scan loop: a valid record replaces the best one so far  *)
(* (none is -1) if it is newer.                                            *)
BetterOf(c, best, i) ==
  IF IsValid(c, i) /\ (best = -1 \/ SequenceIsNewer(c[i].seq, c[best].seq))
    THEN i
    ELSE best

(* The scan: the best of the first n cells, for all of them. *)
ScanLatest(c) ==
  LET best[n \in 0 .. 2 * RecordsPerPage] ==
        IF n = 0 THEN -1 ELSE BetterOf(c, best[n - 1], n - 1)
  IN best[2 * RecordsPerPage]

\* Mutant: the pages are swapped
MutantVictimPage(c) ==
  IF ValidCells(c) # {} /\ PageOf(Latest(c)) = 0 THEN 0 ELSE 1
(* The page to recycle: the one without the newest record; page 1 of an    *)
(* empty log (latest_address stays 0).                                     *)
VictimPage(c) ==
  IF ValidCells(c) # {} /\ PageOf(Latest(c)) = 1 THEN 0 ELSE 1

IsFirstErased(c, i) ==
  /\ i \in ErasedCells(c)
  /\ \A j \in ErasedCells(c) : i <= j

-----------------------------------------------------------------------------
TypeOK ==
  /\ cell \in [Cells -> CellValues]
  /\ pc \in {"idle", "erase", "body", "magic"}
  /\ request \in Payloads \cup {Nothing}
  /\ target \in Cells
  /\ nextSeq \in 0 .. (SeqModulus - 1)
  /\ result \in {"none", "ok", "flash", "lost"}

(* Nothing written yet; a page may hold bytes of an earlier program. *)
Init ==
  /\ cell \in [Cells -> {Erased, Torn}]
  /\ pc = "idle"
  /\ request = Nothing
  /\ target = 0
  /\ nextSeq = 0
  /\ result = "none"

(* append: scan, choose the cell and the sequence number *)
BeginAppend(p) ==
  /\ pc = "idle"
  /\ nextSeq' = IF ValidCells(cell) = {} THEN 1
                ELSE NextSequence(cell[Latest(cell)].seq)
  /\ nextSeq' <= MaxSeq
  /\ request' = p
  /\ result' = "none"
  /\ IF ErasedCells(cell) # {}
       THEN /\ \E i \in Cells : IsFirstErased(cell, i) /\ target' = i
            /\ pc' = "body"
       ELSE /\ target' = FirstCell(VictimPage(cell))
            /\ pc' = "erase"
  /\ UNCHANGED cell

(* the append is over: it returned r, or a power loss ended it *)
Finish(r) ==
  /\ pc' = "idle"
  /\ request' = Nothing
  /\ target' = 0
  /\ nextSeq' = 0
  /\ result' = r

InPage(i) == PageOf(i) = PageOf(target)

(* HAL_FLASHEx_Erase reports success: every cell of the page is erased *)
ErasePage ==
  /\ pc = "erase"
  /\ cell' = [i \in Cells |-> IF InPage(i) THEN Erased ELSE cell[i]]
  /\ pc' = "body"
  /\ UNCHANGED <<request, target, nextSeq, result>>

(* A record that erases have spared again and again is left out once it is *)
(* half the range of sequence numbers old: after 2^31 appends.             *)
Survives(i) ==
  IsValid(cell, i) =>
    2 * (SeqDiff(nextSeq, cell[i].seq) + 2 * RecordsPerPage) < SeqModulus

(* the erase fails or power is lost: each cell of the page keeps its       *)
(* content, is damaged or is erased                                        *)
EraseStops ==
  /\ pc = "erase"
  /\ \E kept, damaged \in SUBSET Cells :
       /\ \A i \in kept : InPage(i) => Survives(i)
       /\ damaged \cap kept = {}
       /\ cell' = [i \in Cells |->
                     IF i \in kept \/ ~InPage(i) THEN cell[i]
                     ELSE IF i \in damaged THEN Torn ELSE Erased]
  /\ \E r \in {"flash", "lost"} : Finish(r)

\* Mutant: the magic number is written with the body
MutantProgramBody ==
  /\ pc = "body"
  /\ cell' = [cell EXCEPT ![target] = Record(nextSeq, request)]
  /\ pc' = "magic"
  /\ UNCHANGED <<request, target, nextSeq, result>>
(* every halfword but the two of the magic number is written *)
ProgramBody ==
  /\ pc = "body"
  /\ cell' = [cell EXCEPT ![target] = Torn]
  /\ pc' = "magic"
  /\ UNCHANGED <<request, target, nextSeq, result>>

(* a failure before the first halfword, or after some of them *)
BodyStops ==
  /\ pc = "body"
  /\ \E left \in {Erased, Torn} : cell' = [cell EXCEPT ![target] = left]
  /\ \E r \in {"flash", "lost"} : Finish(r)

(* the magic number is written: the record counts from here on.  The       *)
(* append returns OK, or the driver times out, or power is lost after it.  *)
ProgramMagic ==
  /\ pc = "magic"
  /\ cell' = [cell EXCEPT ![target] = Record(nextSeq, request)]
  /\ \E r \in {"ok", "flash", "lost"} : Finish(r)

MagicStops ==
  /\ pc = "magic"
  /\ \E r \in {"flash", "lost"} : Finish(r)
  /\ UNCHANGED cell

Next ==
  \/ \E p \in Payloads : BeginAppend(p)
  \/ ErasePage
  \/ EraseStops
  \/ ProgramBody
  \/ BodyStops
  \/ ProgramMagic
  \/ MagicStops

Spec == Init /\ [][Next]_vars

-----------------------------------------------------------------------------
(* The log is an atomic register.  Whatever step a power loss or a flash   *)
(* error hits, and however the two pages are recycled, a load returns the  *)
(* last committed payload or, once, the one whose write was cut short      *)
(* after its magic number; an append that returned OK is what a load       *)
(* returns.                                                                *)
Register == INSTANCE AtomicRegister WITH
  Values <- Payloads,
  Empty <- Nothing,
  value <- Load(cell),
  pending <- request

ImplementsRegister == Register!Spec

(* No two valid records carry the same sequence number, and one of them is *)
(* newer than all others: interrupted erases leave old records behind, and *)
(* the append looks its newest record up again by sequence number.         *)
SequencesOrdered ==
  /\ \A i, j \in ValidCells(cell) :
        cell[i].seq = cell[j].seq => i = j
  /\ ValidCells(cell) # {} => \E i \in Cells : IsLatest(cell, i)

(* The scan loop of ota_ab_metadata_load and ota_resume_load, which only   *)
(* compares each record with the best one so far, ends on the record that  *)
(* is newer than all others.                                               *)
ScanFindsLatest ==
  IF ValidCells(cell) = {} THEN ScanLatest(cell) = -1
                           ELSE ScanLatest(cell) \in Cells
                                  /\ IsLatest(cell, ScanLatest(cell))

(* Flash is programmed only where it is erased, and the page that is       *)
(* erased or the cell that is programmed never holds the newest record.    *)
WritesAreSafe ==
  /\ pc = "body" => cell[target].state = "erased"
  /\ pc = "magic" => cell[target].state = "torn"
  /\ pc = "erase" /\ ValidCells(cell) # {} => ~InPage(Latest(cell))

=============================================================================
