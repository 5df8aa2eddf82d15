------------------------ MODULE FlashRecordLogProofs ------------------------
(***************************************************************************)
(* For every page size, every set of payloads and any number of appends,   *)
(* the two-page log implements an atomic register, with power losses and   *)
(* flash errors at every step and sequence numbers that wrap; and the scan *)
(* loop finds the newest record.                                           *)
(***************************************************************************)
EXTENDS FlashRecordLog, FiniteSetTheorems, TLAPS

(* The pages are small against the range of sequence numbers: 64 against   *)
(* 2^32 in the code.                                                       *)
SmallPages == 4 * RecordsPerPage < SeqModulus

HasLatest(c) == ValidCells(c) # {} => \E i \in Cells : IsLatest(c, i)

Distinct(c) == \A i, j \in ValidCells(c) : c[i].seq = c[j].seq => i = j

(* How many appends ago a record was written *)
Age(c, i) == SeqDiff(c[Latest(c)].seq, c[i].seq)

(* The cells that the appends up to the next erase may still fill *)
Free == ErasedCells(cell) \cup {t \in {target} : pc \in {"body", "magic"}}

(* The records that fit from cell j to the end of its page *)
Before(j) == IF j < RecordsPerPage THEN RecordsPerPage - j ELSE 2 * RecordsPerPage - j

(* A record stays less than half the range of numbers old until its page   *)
(* is erased.  While its page has free cells these come first, and then    *)
(* the other page is erased and filled; while the newest record is in its  *)
(* page, the other page is erased and filled; otherwise the free cells of  *)
(* the other page are all that is left.                                    *)
Young(c, free) ==
  \A i \in ValidCells(c) :
    /\ 2 * (Age(c, i) + 1) < SeqModulus
    /\ \A j \in free : PageOf(j) = PageOf(i) =>
         2 * (Age(c, i) + Before(j) + RecordsPerPage + 1) < SeqModulus
    /\ PageOf(Latest(c)) = PageOf(i) =>
         2 * (Age(c, i) + RecordsPerPage + 1) < SeqModulus
    /\ PageOf(Latest(c)) # PageOf(i) => \A j \in free :
         PageOf(j) # PageOf(i) => 2 * (Age(c, i) + Before(j) + 1) < SeqModulus

(* Both pages have free cells only at first, while page 0 is filled. *)
FilledInOrder(c, free) ==
  \A i, j \in free : PageOf(i) = 0 /\ PageOf(j) = 1 =>
    \A k \in ValidCells(c) : PageOf(k) = 0

RequestOK ==
  IF pc = "idle"
    THEN request = Nothing
    ELSE /\ request \in Payloads
         /\ ValidCells(cell) # {} => nextSeq = NextSequence(cell[Latest(cell)].seq)

TargetOK ==
  /\ pc = "body" => cell[target] = Erased
  /\ pc = "magic" => cell[target] = Torn
  /\ pc = "erase" => ErasedCells(cell) = {} /\ target = FirstCell(VictimPage(cell))
  /\ pc \in {"body", "magic"} => \A j \in Free : target <= j

IInv ==
  /\ TypeOK
  /\ HasLatest(cell)
  /\ Distinct(cell)
  /\ RequestOK
  /\ TargetOK
  /\ Young(cell, Free)
  /\ FilledInOrder(cell, Free)

-----------------------------------------------------------------------------
(* Differences of sequence numbers, modulo their range. *)
LEMMA SeqDiffRange ==
  ASSUME NEW a \in 0 .. (SeqModulus - 1), NEW b \in 0 .. (SeqModulus - 1)
  PROVE  /\ SeqDiff(a, b) \in 0 .. (SeqModulus - 1)
         /\ SeqDiff(a, b) = 0 <=> a = b
         /\ SequenceIsNewer(a, b) => a # b /\ ~SequenceIsNewer(b, a)
BY LogAssumption DEF SeqDiff, SequenceIsNewer

(* Of two numbers less than half the range behind a third, the one less    *)
(* far behind is newer.                                                    *)
LEMMA NewerIsLessBehind ==
  ASSUME NEW t \in 0 .. (SeqModulus - 1),
         NEW a \in 0 .. (SeqModulus - 1), NEW b \in 0 .. (SeqModulus - 1),
         2 * SeqDiff(t, a) < SeqModulus, 2 * SeqDiff(t, b) < SeqModulus
  PROVE  SequenceIsNewer(a, b) <=> SeqDiff(t, a) < SeqDiff(t, b)
BY LogAssumption DEF SeqDiff, SequenceIsNewer

(* The next number is one further ahead, and still newer. *)
LEMMA NextIsNewer ==
  ASSUME NEW t \in 0 .. (SeqModulus - 1), NEW a \in 0 .. (SeqModulus - 1),
         2 * (SeqDiff(t, a) + 1) < SeqModulus
  PROVE  /\ NextSequence(t) \in 0 .. (SeqModulus - 1)
         /\ SeqDiff(NextSequence(t), a) = SeqDiff(t, a) + 1
         /\ SequenceIsNewer(NextSequence(t), a)
BY LogAssumption DEF SeqDiff, SequenceIsNewer, NextSequence

(* The content of a cell that holds a valid record. *)
LEMMA ValidCellType ==
  ASSUME NEW c \in [Cells -> CellValues], NEW i \in ValidCells(c)
  PROVE  /\ i \in Cells
         /\ c[i].seq \in 0 .. (SeqModulus - 1)
         /\ c[i].data \in Payloads
         /\ c[i] = Record(c[i].seq, c[i].data)
BY DEF ValidCells, IsValid, CellValues, Erased, Torn, Record

(* There is at most one latest record, and it is the one CHOOSE picks. *)
LEMMA LatestUnique ==
  ASSUME NEW c \in [Cells -> CellValues], NEW i \in Cells, IsLatest(c, i)
  PROVE  Latest(c) = i /\ i \in ValidCells(c)
<1> DEFINE k == Latest(c)
<1>1. k \in Cells /\ IsLatest(c, k)
  BY DEF Latest
<1>2. i \in ValidCells(c) /\ k \in ValidCells(c)
  BY <1>1 DEF IsLatest, ValidCells
<1>3. ASSUME k # i PROVE FALSE
  <2>1. SequenceIsNewer(c[i].seq, c[k].seq) /\ SequenceIsNewer(c[k].seq, c[i].seq)
    BY <1>1, <1>2, <1>3 DEF IsLatest
  <2>2. c[i].seq \in 0 .. (SeqModulus - 1) /\ c[k].seq \in 0 .. (SeqModulus - 1)
    BY <1>2, ValidCellType
  <2> QED
    BY <2>1, <2>2, SeqDiffRange
<1> QED
  BY <1>2, <1>3

(* What CHOOSE picks is a latest record, if there is one. *)
LEMMA LatestIs ==
  ASSUME NEW c \in [Cells -> CellValues], HasLatest(c), ValidCells(c) # {}
  PROVE  /\ Latest(c) \in ValidCells(c) /\ Latest(c) \in Cells
         /\ IsLatest(c, Latest(c))
         /\ c[Latest(c)].seq \in 0 .. (SeqModulus - 1)
<1>1. PICK i \in Cells : IsLatest(c, i)
  BY DEF HasLatest
<1>2. Latest(c) = i /\ i \in ValidCells(c)
  BY <1>1, LatestUnique
<1> QED
  BY <1>1, <1>2, ValidCellType

(* Ages are less than half the range, and the latest record's is 0. *)
LEMMA AgeRange ==
  ASSUME NEW c \in [Cells -> CellValues], HasLatest(c), NEW i \in ValidCells(c)
  PROVE  /\ Age(c, i) \in 0 .. (SeqModulus - 1)
         /\ 2 * Age(c, i) < SeqModulus
         /\ Age(c, i) = 0 <=> c[i].seq = c[Latest(c)].seq
<1>1. c[i].seq \in 0 .. (SeqModulus - 1)
  BY ValidCellType
<1>2. /\ c[Latest(c)].seq \in 0 .. (SeqModulus - 1)
      /\ IsLatest(c, Latest(c))
  BY LatestIs
<1>3. Age(c, i) \in 0 .. (SeqModulus - 1)
      /\ (Age(c, i) = 0 <=> c[i].seq = c[Latest(c)].seq)
  BY <1>1, <1>2, SeqDiffRange DEF Age
<1>4. CASE i = Latest(c)
  BY <1>3, <1>4, LogAssumption
<1>5. CASE i # Latest(c)
  BY <1>2, <1>3, <1>5 DEF IsLatest, SequenceIsNewer, Age
<1> QED
  BY <1>3, <1>4, <1>5

(* The older a record, the larger its age. *)
LEMMA NewerIsYounger ==
  ASSUME NEW c \in [Cells -> CellValues], HasLatest(c),
         NEW i \in ValidCells(c), NEW j \in ValidCells(c)
  PROVE  SequenceIsNewer(c[i].seq, c[j].seq) <=> Age(c, i) < Age(c, j)
<1>1. c[i].seq \in 0 .. (SeqModulus - 1) /\ c[j].seq \in 0 .. (SeqModulus - 1)
  BY ValidCellType
<1>2. c[Latest(c)].seq \in 0 .. (SeqModulus - 1)
  BY LatestIs
<1>3. 2 * Age(c, i) < SeqModulus /\ 2 * Age(c, j) < SeqModulus
  BY AgeRange
<1> QED
  BY <1>1, <1>2, <1>3, NewerIsLessBehind DEF Age

(* Taking records away, but not the latest one, leaves what a load returns. *)
LEMMA LoadKept ==
  ASSUME NEW c \in [Cells -> CellValues], NEW d \in [Cells -> CellValues],
         HasLatest(c), Distinct(c),
         \A j \in Cells : d[j] = c[j] \/ ~IsValid(d, j),
         ValidCells(c) # {} => d[Latest(c)] = c[Latest(c)]
  PROVE  /\ ValidCells(d) \subseteq ValidCells(c)
         /\ \A j \in ValidCells(d) : d[j] = c[j]
         /\ ValidCells(c) # {} => ValidCells(d) # {} /\ Latest(d) = Latest(c)
         /\ Load(d) = Load(c)
         /\ HasLatest(d) /\ Distinct(d)
<1>1. \A j \in ValidCells(d) : j \in ValidCells(c) /\ d[j] = c[j]
  BY DEF ValidCells, IsValid
<1>2. Distinct(d)
  BY <1>1 DEF Distinct
<1>3. CASE ValidCells(c) = {}
  <2>1. ValidCells(d) = {}
    BY <1>1, <1>3
  <2> QED
    BY <1>2, <1>3, <2>1 DEF Load, HasLatest
<1>4. CASE ValidCells(c) # {}
  <2> DEFINE i == Latest(c)
  <2>1. i \in Cells /\ i \in ValidCells(c) /\ IsLatest(c, i) /\ d[i] = c[i]
    BY <1>4, LatestIs
  <2> HIDE DEF i
  <2>2. IsValid(d, i)
    BY <2>1 DEF IsLatest, IsValid
  <2>3. ASSUME NEW j \in ValidCells(d), j # i
        PROVE  SequenceIsNewer(d[i].seq, d[j].seq)
    BY <1>1, <2>1, <2>3 DEF IsLatest
  <2>4. IsLatest(d, i)
    BY <2>2, <2>3 DEF IsLatest
  <2>5. Latest(d) = i /\ i \in ValidCells(d)
    BY <2>1, <2>4, LatestUnique
  <2>6. Load(d) = Load(c)
    BY <1>4, <2>1, <2>5 DEF Load, i
  <2>7. HasLatest(d)
    BY <2>1, <2>4 DEF HasLatest
  <2> QED
    BY <1>1, <1>2, <2>5, <2>6, <2>7 DEF i
<1> QED
  BY <1>3, <1>4

(* ... and makes no record older. *)
LEMMA YoungKept ==
  ASSUME NEW c, NEW d, NEW F, NEW G \in SUBSET F,
         ValidCells(d) \subseteq ValidCells(c),
         \A j \in ValidCells(d) : d[j] = c[j],
         ValidCells(c) # {} => Latest(d) = Latest(c) /\ d[Latest(c)] = c[Latest(c)],
         Young(c, F), FilledInOrder(c, F)
  PROVE  Young(d, G) /\ FilledInOrder(d, G)
<1>1. \A i \in ValidCells(d) : i \in ValidCells(c) /\ Age(d, i) = Age(c, i)
                               /\ Latest(d) = Latest(c)
  BY DEF Age
<1>2. Young(d, G)
  BY <1>1 DEF Young
<1>3. FilledInOrder(d, G)
  BY DEF FilledInOrder
<1> QED
  BY <1>2, <1>3

(* The log with a record in one more cell *)
Commit(c, t, s, p) == [c EXCEPT ![t] = Record(s, p)]

(* A record newer than all others, put where no record is, is the latest,  *)
(* and a load returns its payload.                                         *)
LEMMA CommitIsLatest ==
  ASSUME NEW c \in [Cells -> CellValues], Distinct(c),
         NEW t \in Cells, ~IsValid(c, t),
         NEW s \in 0 .. (SeqModulus - 1), NEW p \in Payloads,
         \A i \in ValidCells(c) : SequenceIsNewer(s, c[i].seq),
         NEW d, d = Commit(c, t, s, p)
  PROVE  /\ d \in [Cells -> CellValues]
         /\ d[t] = Record(s, p) /\ \A j \in Cells : j # t => d[j] = c[j]
         /\ ValidCells(d) = ValidCells(c) \cup {t}
         /\ IsLatest(d, t) /\ Latest(d) = t
         /\ Distinct(d)
         /\ Load(d) = p
<1>1. d \in [Cells -> CellValues]
  <2>1. Record(s, p) \in CellValues
    BY DEF CellValues
  <2> QED
    BY <2>1 DEF Commit
<1>2. d[t] = Record(s, p) /\ \A j \in Cells : j # t => d[j] = c[j]
  BY DEF Commit
<1>3. IsValid(d, t) /\ d[t].seq = s /\ d[t].data = p
  BY <1>2 DEF IsValid, Record
<1>4. ValidCells(d) = ValidCells(c) \cup {t}
  BY <1>2, <1>3 DEF ValidCells, IsValid
<1>5. \A j \in ValidCells(d) : j # t => j \in ValidCells(c) /\ d[j] = c[j]
  BY <1>2, <1>4 DEF ValidCells
<1>6. \A j \in ValidCells(d) : j # t => SequenceIsNewer(s, d[j].seq) /\ d[j].seq # s
  <2> SUFFICES ASSUME NEW j \in ValidCells(d), j # t
               PROVE  SequenceIsNewer(s, c[j].seq) /\ c[j].seq # s
    BY <1>5
  <2>1. SequenceIsNewer(s, c[j].seq) /\ c[j].seq \in 0 .. (SeqModulus - 1)
    BY <1>5, ValidCellType
  <2> QED
    BY <2>1, SeqDiffRange
<1>7. Distinct(d)
  BY <1>3, <1>5, <1>6 DEF Distinct
<1>8. IsLatest(d, t)
  BY <1>3, <1>6 DEF IsLatest
<1>9. Latest(d) = t /\ t \in ValidCells(d)
  BY <1>1, <1>8, LatestUnique
<1>10. Load(d) = p
  BY <1>3, <1>9 DEF Load
<1> QED
  BY <1>1, <1>2, <1>4, <1>7, <1>8, <1>9, <1>10

(* The next number of a log is newer than all its records. *)
LEMMA NextIsNewest ==
  ASSUME NEW c \in [Cells -> CellValues], HasLatest(c), NEW F, Young(c, F),
         NEW i \in ValidCells(c)
  PROVE  LET n == NextSequence(c[Latest(c)].seq)
         IN  /\ n \in 0 .. (SeqModulus - 1)
             /\ SequenceIsNewer(n, c[i].seq)
             /\ SeqDiff(n, c[i].seq) = Age(c, i) + 1
<1>1. c[i].seq \in 0 .. (SeqModulus - 1) /\ c[Latest(c)].seq \in 0 .. (SeqModulus - 1)
  BY ValidCellType, LatestIs
<1>2. 2 * (SeqDiff(c[Latest(c)].seq, c[i].seq) + 1) < SeqModulus
  BY DEF Young, Age
<1> QED
  BY <1>1, <1>2, NextIsNewer DEF Age

(* The places of cells in their pages. *)
LEMMA CellPlaces ==
  ASSUME NEW i \in Cells, NEW j \in Cells, i < j
  PROVE  /\ Before(i) \in 1 .. RecordsPerPage /\ Before(j) \in 1 .. RecordsPerPage
         /\ PageOf(i) \in Pages /\ PageOf(j) \in Pages
         /\ PageOf(i) = PageOf(j) => Before(j) < Before(i)
         /\ PageOf(i) # PageOf(j) => PageOf(i) = 0 /\ PageOf(j) = 1
BY LogAssumption DEF Cells, PageOf, Before, Pages

LEMMA CellPlace ==
  ASSUME NEW i \in Cells
  PROVE  /\ Before(i) \in 1 .. RecordsPerPage /\ PageOf(i) \in Pages
BY LogAssumption DEF Cells, PageOf, Before, Pages

(* The record written by a commit, at the first of the free cells, leaves  *)
(* every record young enough for the cells that are free after it.         *)
LEMMA CommitStaysYoung ==
  ASSUME SmallPages,
         NEW c \in [Cells -> CellValues], HasLatest(c), Distinct(c),
         NEW F \in SUBSET Cells, NEW t \in F, \A j \in F : t <= j, ~IsValid(c, t),
         Young(c, F), FilledInOrder(c, F),
         NEW s \in 0 .. (SeqModulus - 1), NEW p \in Payloads,
         ValidCells(c) # {} => s = NextSequence(c[Latest(c)].seq),
         NEW d, d = Commit(c, t, s, p)
  PROVE  Young(d, F \ {t}) /\ FilledInOrder(d, F \ {t})
<1> DEFINE G == F \ {t}
<1> USE LogAssumption
<1>1. \A i \in ValidCells(c) :
        SequenceIsNewer(s, c[i].seq) /\ SeqDiff(s, c[i].seq) = Age(c, i) + 1
  BY NextIsNewest
<1>2. /\ d \in [Cells -> CellValues]
      /\ d[t] = Record(s, p) /\ \A j \in Cells : j # t => d[j] = c[j]
      /\ ValidCells(d) = ValidCells(c) \cup {t}
      /\ Latest(d) = t
  <2>1. \A i \in ValidCells(c) : SequenceIsNewer(s, c[i].seq)
    BY <1>1
  <2>2. t \in Cells
    OBVIOUS
  <2> QED
    BY <2>1, <2>2, CommitIsLatest
<1>3. t \in Cells /\ d[t].seq = s
  BY <1>2 DEF Record
<1>4. Age(d, t) = 0
  BY <1>2, <1>3, SeqDiffRange DEF Age
<1>5. ASSUME NEW i \in ValidCells(c)
      PROVE  /\ i \in Cells /\ i # t /\ Age(d, i) = Age(c, i) + 1 /\ Age(c, i) \in Nat
             /\ PageOf(i) \in Pages
  <2>1. i \in Cells /\ i # t
    BY DEF ValidCells
  <2>2. Age(d, i) = Age(c, i) + 1
    BY <1>1, <1>2, <1>3, <2>1 DEF Age
  <2>3. Age(c, i) \in Nat
    BY AgeRange
  <2> QED
    BY <2>1, <2>2, <2>3, CellPlace
<1>6. ASSUME NEW j \in G
      PROVE  /\ j \in F /\ j \in Cells /\ t < j
             /\ Before(j) \in 1 .. RecordsPerPage /\ Before(t) \in 1 .. RecordsPerPage
             /\ PageOf(j) \in Pages /\ PageOf(t) \in Pages
             /\ PageOf(t) = PageOf(j) => Before(j) < Before(t)
             /\ PageOf(t) # PageOf(j) => PageOf(t) = 0 /\ PageOf(j) = 1
  <2>1. j \in F /\ j \in Cells /\ t < j
    BY <1>3 DEF Cells
  <2> QED
    BY <1>3, <2>1, CellPlaces
<1> HIDE DEF G
<1>7. ASSUME NEW i \in ValidCells(d)
      PROVE  /\ 2 * (Age(d, i) + 1) < SeqModulus
             /\ \A j \in G : PageOf(j) = PageOf(i) =>
                  2 * (Age(d, i) + Before(j) + RecordsPerPage + 1) < SeqModulus
             /\ PageOf(Latest(d)) = PageOf(i) =>
                  2 * (Age(d, i) + RecordsPerPage + 1) < SeqModulus
             /\ PageOf(Latest(d)) # PageOf(i) => \A j \in G :
                  PageOf(j) # PageOf(i) => 2 * (Age(d, i) + Before(j) + 1) < SeqModulus
  <2>1. CASE i = t
    <3>1. 2 * (0 + 1) < SeqModulus /\ 2 * (0 + RecordsPerPage + 1) < SeqModulus
      BY DEF SmallPages
    <3>2. ASSUME NEW j \in G, PageOf(j) = PageOf(t)
          PROVE  2 * (0 + Before(j) + RecordsPerPage + 1) < SeqModulus
      <4>1. /\ Before(j) < Before(t) /\ Before(j) \in 1 .. RecordsPerPage
            /\ Before(t) \in 1 .. RecordsPerPage
        BY <1>6, <3>2
      <4> QED
        BY <4>1 DEF SmallPages
    <3> QED
      BY <1>2, <1>4, <2>1, <3>1, <3>2, Zenon
  <2>2. CASE i \in ValidCells(c)
    <3> DEFINE a == Age(c, i)
    <3>1. /\ a \in Nat /\ Age(d, i) = a + 1 /\ i \in Cells
          /\ PageOf(i) \in Pages /\ PageOf(t) \in Pages
          /\ Before(t) \in 1 .. RecordsPerPage
      BY <1>3, <1>5, <2>2, CellPlace
    <3>2. /\ PageOf(t) = PageOf(i) => 2 * (a + Before(t) + RecordsPerPage + 1) < SeqModulus
          /\ PageOf(Latest(c)) = PageOf(i) => 2 * (a + RecordsPerPage + 1) < SeqModulus
          /\ PageOf(Latest(c)) # PageOf(i) =>
               (PageOf(t) # PageOf(i) => 2 * (a + Before(t) + 1) < SeqModulus)
      BY <2>2 DEF Young
    <3> HIDE DEF a
    <3>3. CASE PageOf(t) = PageOf(i)
      <4>1. 2 * (a + Before(t) + RecordsPerPage + 1) < SeqModulus
        BY <3>2, <3>3
      <4>2. 2 * (a + 1 + RecordsPerPage + 1) < SeqModulus /\ 2 * (a + 1 + 1) < SeqModulus
        BY <3>1, <4>1
      <4>3. ASSUME NEW j \in G, PageOf(j) = PageOf(i)
            PROVE  2 * (a + 1 + Before(j) + RecordsPerPage + 1) < SeqModulus
        <5>1. Before(j) < Before(t) /\ Before(j) \in 1 .. RecordsPerPage
          BY <1>6, <3>3, <4>3
        <5> QED
          BY <3>1, <4>1, <5>1
      <4> QED
        BY <1>2, <3>1, <3>3, <4>2, <4>3, Zenon
    <3>4. CASE PageOf(t) # PageOf(i)
      <4>1. ASSUME NEW j \in G PROVE PageOf(j) # PageOf(i)
        <5>1. SUFFICES ASSUME PageOf(j) = PageOf(i) PROVE FALSE
          OBVIOUS
        <5>2. PageOf(t) = 0 /\ PageOf(j) = 1 /\ j \in F
          BY <1>6, <3>4, <5>1
        <5>3. PageOf(i) = 0
          BY <2>2, <5>2 DEF FilledInOrder
        <5>4. 0 # 1
          OBVIOUS
        <5> QED
          BY <5>1, <5>2, <5>3, <5>4, Zenon
      <4>2. ASSUME NEW j \in G PROVE Before(j) < Before(t)
        BY <1>6, <3>1, <3>4, <4>1 DEF Pages
      <4>3. \/ 2 * (a + RecordsPerPage + 1) < SeqModulus
            \/ 2 * (a + Before(t) + 1) < SeqModulus
        BY <3>2, <3>4
      <4>4. 2 * (a + 1 + 1) < SeqModulus
        BY <3>1, <4>3
      <4>5. ASSUME NEW j \in G
            PROVE  2 * (a + 1 + Before(j) + 1) < SeqModulus
        <5>1. Before(j) < Before(t) /\ Before(j) \in 1 .. RecordsPerPage
          BY <1>6, <4>2
        <5> QED
          BY <3>1, <4>3, <5>1
      <4> QED
        BY <1>2, <3>1, <3>4, <4>1, <4>4, <4>5, Zenon
    <3> QED
      BY <3>3, <3>4
  <2> QED
    BY <1>2, <2>1, <2>2
<1>8. Young(d, G)
  BY <1>7 DEF Young
<1>9. FilledInOrder(d, G)
  <2> SUFFICES ASSUME NEW i \in G, NEW j \in G, PageOf(i) = 0, PageOf(j) = 1,
                      NEW k \in ValidCells(d)
               PROVE  PageOf(k) = 0
    BY DEF FilledInOrder
  <2>1. CASE k = t
    BY <1>6, <2>1
  <2>2. CASE k \in ValidCells(c)
    BY <1>6, <2>2 DEF FilledInOrder
  <2> QED
    BY <1>2, <2>1, <2>2
<1> QED
  BY <1>8, <1>9 DEF G

-----------------------------------------------------------------------------
LEMMA InitIInv == SmallPages /\ Init => IInv
<1> SUFFICES ASSUME SmallPages, Init PROVE IInv
  OBVIOUS
<1>1. \A i \in Cells : ~IsValid(cell, i)
  BY DEF Init, IsValid, Erased, Torn
<1>2. ValidCells(cell) = {}
  BY <1>1 DEF ValidCells
<1>3. TypeOK
  <2>1. 0 \in Cells /\ 0 \in 0 .. (SeqModulus - 1)
    BY LogAssumption DEF Cells
  <2>2. cell \in [Cells -> CellValues]
    BY DEF Init, CellValues
  <2> QED
    BY <2>1, <2>2 DEF Init, TypeOK
<1>4. Young(cell, Free) /\ FilledInOrder(cell, Free)
  BY <1>2 DEF Young, FilledInOrder
<1> QED
  BY <1>2, <1>3, <1>4 DEF Init, IInv, HasLatest, Distinct, RequestOK, TargetOK

(* The cell written to is never the one a load reads. *)
LEMMA TargetNotLatest ==
  ASSUME IInv, pc \in {"body", "magic"}
  PROVE  /\ target \in Cells /\ ~IsValid(cell, target) /\ target \in Free
         /\ ValidCells(cell) # {} => Latest(cell) \in Cells /\ Latest(cell) # target
<1>1. target \in Cells /\ ~IsValid(cell, target) /\ target \in Free
  BY DEF IInv, TypeOK, TargetOK, IsValid, Erased, Torn, Free
<1>2. ValidCells(cell) # {} => Latest(cell) \in ValidCells(cell) /\ Latest(cell) \in Cells
  BY LatestIs DEF IInv, TypeOK
<1> QED
  BY <1>1, <1>2 DEF ValidCells

(* The page to be erased is not the one of the newest record. *)
LEMMA VictimNotLatest ==
  ASSUME IInv, pc = "erase"
  PROVE  /\ ErasedCells(cell) = {}
         /\ PageOf(target) = VictimPage(cell)
         /\ ValidCells(cell) # {} => /\ Latest(cell) \in Cells
                                     /\ ~InPage(Latest(cell))
<1>1. ErasedCells(cell) = {} /\ target = FirstCell(VictimPage(cell))
  BY DEF IInv, TargetOK
<1>2. PageOf(target) = VictimPage(cell)
  BY <1>1, LogAssumption DEF FirstCell, VictimPage, PageOf
<1>3. ValidCells(cell) # {} => Latest(cell) \in Cells
  BY LatestIs DEF IInv, TypeOK
<1>4. ValidCells(cell) # {} => PageOf(Latest(cell)) # VictimPage(cell)
  BY DEF VictimPage, PageOf
<1> QED
  BY <1>1, <1>2, <1>3, <1>4 DEF InPage

(* Erasing and writing a body only take records away, never the latest. *)
LEMMA OldRecordsStay ==
  ASSUME IInv, ErasePage \/ EraseStops \/ ProgramBody \/ BodyStops
  PROVE  /\ cell' \in [Cells -> CellValues]
         /\ ValidCells(cell') \subseteq ValidCells(cell)
         /\ \A j \in ValidCells(cell') : cell'[j] = cell[j]
         /\ ValidCells(cell) # {} => /\ Latest(cell') = Latest(cell)
                                     /\ cell'[Latest(cell)] = cell[Latest(cell)]
         /\ Load(cell') = Load(cell)
         /\ HasLatest(cell') /\ Distinct(cell')
<1>1. /\ cell' \in [Cells -> CellValues]
      /\ \A j \in Cells : cell'[j] \in {cell[j], Torn, Erased}
  BY DEF ErasePage, EraseStops, ProgramBody, BodyStops, IInv, TypeOK, CellValues
<1>2. \A j \in Cells : cell'[j] = cell[j] \/ ~IsValid(cell', j)
  BY <1>1 DEF IsValid, Erased, Torn
<1>3. ValidCells(cell) # {} => cell'[Latest(cell)] = cell[Latest(cell)]
  <2>1. CASE ErasePage \/ EraseStops
    <3>1. \A j \in Cells : ~InPage(j) => cell'[j] = cell[j]
      BY <2>1 DEF ErasePage, EraseStops
    <3> QED
      BY <2>1, <3>1, VictimNotLatest DEF ErasePage, EraseStops
  <2>2. CASE ProgramBody \/ BodyStops
    <3>1. \A j \in Cells : j # target => cell'[j] = cell[j]
      BY <2>2 DEF ProgramBody, BodyStops, IInv, TypeOK
    <3> QED
      BY <2>2, <3>1, TargetNotLatest DEF ProgramBody, BodyStops
  <2> QED
    BY <2>1, <2>2
<1>4. cell \in [Cells -> CellValues] /\ HasLatest(cell) /\ Distinct(cell)
  BY DEF IInv, TypeOK
<1> QED
  BY <1>1, <1>2, <1>3, <1>4, LoadKept

(* A step that takes records away and frees no cell leaves what is known   *)
(* of the ages of the others.                                              *)
LEMMA AgesStay ==
  ASSUME IInv, ProgramBody \/ BodyStops, Free' \subseteq Free
  PROVE  Young(cell', Free') /\ FilledInOrder(cell', Free')
<1>1. Young(cell, Free) /\ FilledInOrder(cell, Free)
  BY DEF IInv
<1> QED
  BY <1>1, OldRecordsStay, YoungKept

(* An erase frees cells of one page only.  A record that it spares is as   *)
(* young as Survives says, the others have the newest record in their page.*)
LEMMA EraseAges ==
  ASSUME IInv, pc = "erase", NEW G \in SUBSET Cells,
         \A j \in G : InPage(j),
         cell' \in [Cells -> CellValues],
         ValidCells(cell') \subseteq ValidCells(cell),
         \A j \in ValidCells(cell') : cell'[j] = cell[j],
         ValidCells(cell) # {} => /\ Latest(cell') = Latest(cell)
                                  /\ cell'[Latest(cell)] = cell[Latest(cell)],
         \A i \in ValidCells(cell') : InPage(i) => Survives(i)
  PROVE  Young(cell', G) /\ FilledInOrder(cell', G)
<1>1. Young(cell, Free) /\ cell \in [Cells -> CellValues] /\ HasLatest(cell)
  BY DEF IInv, TypeOK
<1>2. target \in Cells
  BY DEF IInv, TypeOK
<1>3. ASSUME NEW i \in ValidCells(cell')
      PROVE  /\ 2 * (Age(cell', i) + 1) < SeqModulus
             /\ \A j \in G : PageOf(j) = PageOf(i) =>
                  2 * (Age(cell', i) + Before(j) + RecordsPerPage + 1) < SeqModulus
             /\ PageOf(Latest(cell')) = PageOf(i) =>
                  2 * (Age(cell', i) + RecordsPerPage + 1) < SeqModulus
             /\ PageOf(Latest(cell')) # PageOf(i) => \A j \in G :
                  PageOf(j) # PageOf(i) => 2 * (Age(cell', i) + Before(j) + 1) < SeqModulus
  <2> DEFINE a == Age(cell, i)
  <2>1. /\ i \in ValidCells(cell) /\ ValidCells(cell) # {}
        /\ Latest(cell') = Latest(cell) /\ Age(cell', i) = a
    BY DEF Age
  <2>2. a \in Nat
    BY <1>1, <2>1, AgeRange
  <2>3. /\ 2 * (a + 1) < SeqModulus
        /\ PageOf(Latest(cell)) = PageOf(i) => 2 * (a + RecordsPerPage + 1) < SeqModulus
    BY <1>1, <2>1 DEF Young
  <2>4. i \in Cells /\ Latest(cell) \in Cells /\ ~InPage(Latest(cell))
    BY <2>1, VictimNotLatest DEF ValidCells
  <2>5. /\ PageOf(i) \in Pages /\ PageOf(target) \in Pages /\ PageOf(Latest(cell)) \in Pages
        /\ PageOf(Latest(cell)) # PageOf(target)
    BY <1>2, <2>4, CellPlace DEF InPage
  <2>6. \A j \in G : PageOf(j) = PageOf(target) /\ Before(j) \in 1 .. RecordsPerPage
    BY CellPlace DEF InPage
  <2>7. CASE InPage(i)
    <3>1. PageOf(i) = PageOf(target) /\ PageOf(Latest(cell)) # PageOf(i)
      BY <2>5, <2>7 DEF InPage
    <3>2. SeqDiff(nextSeq, cell[i].seq) = a + 1
      <4>1. nextSeq = NextSequence(cell[Latest(cell)].seq)
        BY <2>1 DEF IInv, RequestOK
      <4> QED
        BY <1>1, <2>1, <4>1, NextIsNewest
    <3>3. 2 * (a + 1 + 2 * RecordsPerPage) < SeqModulus
      <4>1. IsValid(cell, i)
        BY <2>1 DEF ValidCells
      <4> QED
        BY <2>7, <3>2, <4>1 DEF Survives
    <3> HIDE DEF a
    <3>4. ASSUME NEW j \in G
          PROVE  PageOf(j) = PageOf(i)
                 /\ 2 * (a + Before(j) + RecordsPerPage + 1) < SeqModulus
      <4>1. PageOf(j) = PageOf(i) /\ Before(j) \in 1 .. RecordsPerPage
        BY <2>6, <3>1
      <4> QED
        BY <2>2, <3>3, <4>1, LogAssumption
    <3> QED
      BY <2>1, <2>3, <3>1, <3>4, Zenon
  <2>8. CASE ~InPage(i)
    <3>1. PageOf(Latest(cell)) = PageOf(i) /\ PageOf(i) # PageOf(target)
      BY <2>5, <2>8 DEF InPage, Pages
    <3> HIDE DEF a
    <3> QED
      BY <2>1, <2>3, <2>6, <3>1, Zenon
  <2> QED
    BY <2>7, <2>8
<1>4. Young(cell', G)
  BY <1>3 DEF Young
<1>5. FilledInOrder(cell', G)
  <2> SUFFICES ASSUME NEW i \in G, NEW j \in G, PageOf(i) = 0, PageOf(j) = 1 PROVE FALSE
    BY DEF FilledInOrder
  <2>1. PageOf(i) = PageOf(j)
    BY DEF InPage
  <2>2. 0 # 1
    OBVIOUS
  <2> QED
    BY <2>1, <2>2, Zenon
<1> QED
  BY <1>4, <1>5

LEMMA BeginKeepsInv ==
  ASSUME SmallPages, IInv, NEW p \in Payloads, BeginAppend(p)
  PROVE  IInv'
<1> USE LogAssumption
<1>1. cell' = cell /\ pc = "idle" /\ request' = p /\ p # Nothing
  BY DEF BeginAppend
<1>2. cell \in [Cells -> CellValues] /\ HasLatest(cell) /\ Young(cell, Free)
  BY DEF IInv, TypeOK
<1>3. nextSeq' \in 0 .. (SeqModulus - 1)
  <2>1. CASE ValidCells(cell) = {}
    BY <2>1 DEF BeginAppend, SmallPages
  <2>2. CASE ValidCells(cell) # {}
    BY <1>2, <2>2, LatestIs, NextIsNewest DEF BeginAppend
  <2> QED
    BY <2>1, <2>2
<1>4. ValidCells(cell) # {} => nextSeq' = NextSequence(cell[Latest(cell)].seq)
  BY DEF BeginAppend
<1>5. RequestOK' /\ HasLatest(cell') /\ Distinct(cell')
  <2>1. pc' # "idle"
    BY DEF BeginAppend
  <2> QED
    BY <1>1, <1>4, <2>1 DEF RequestOK, IInv, HasLatest, Distinct
<1>6. Free = ErasedCells(cell)
  BY <1>1 DEF Free
<1>7. TypeOK' /\ TargetOK' /\ Free' = Free
  <2>1. CASE ErasedCells(cell) # {}
    <3>1. pc' = "body" /\ IsFirstErased(cell, target')
      BY <2>1 DEF BeginAppend
    <3>2. /\ target' \in Cells /\ target' \in ErasedCells(cell)
          /\ \A j \in ErasedCells(cell) : target' <= j
      BY <3>1 DEF IsFirstErased, ErasedCells
    <3>3. cell[target'] = Erased
      BY <1>2, <3>2 DEF ErasedCells, CellValues, Torn, Erased, Record
    <3>4. Free' = ErasedCells(cell)
      BY <1>1, <3>1, <3>2 DEF Free
    <3>5. TypeOK'
      BY <1>1, <1>3, <3>1, <3>2 DEF BeginAppend, IInv, TypeOK
    <3>6. TargetOK'
      BY <1>1, <3>1, <3>2, <3>3, <3>4 DEF TargetOK
    <3> QED
      BY <1>6, <3>4, <3>5, <3>6
  <2>2. CASE ErasedCells(cell) = {}
    <3>1. pc' = "erase" /\ target' = FirstCell(VictimPage(cell))
      BY <2>2 DEF BeginAppend
    <3>2. target' \in Cells
      BY <3>1 DEF FirstCell, VictimPage, Cells
    <3>3. Free' = ErasedCells(cell)
      BY <1>1, <3>1 DEF Free
    <3>4. TypeOK'
      BY <1>1, <1>3, <3>1, <3>2 DEF BeginAppend, IInv, TypeOK
    <3>5. TargetOK'
      BY <1>1, <2>2, <3>1 DEF TargetOK
    <3> QED
      BY <1>6, <3>3, <3>4, <3>5
  <2> QED
    BY <2>1, <2>2
<1>8. Young(cell', Free') /\ FilledInOrder(cell', Free')
  BY <1>1, <1>7 DEF IInv
<1> QED
  BY <1>5, <1>7, <1>8 DEF IInv

LEMMA EraseKeepsInv ==
  ASSUME IInv, ErasePage PROVE IInv'
<1> USE LogAssumption
<1>1. /\ pc = "erase" /\ pc' = "body" /\ target' = target
      /\ request' = request /\ nextSeq' = nextSeq /\ result' = result
      /\ target \in Cells
      /\ ErasedCells(cell) = {} /\ target = FirstCell(VictimPage(cell))
  BY DEF ErasePage, IInv, TypeOK, TargetOK
<1>2. \A i \in Cells : cell'[i] = IF InPage(i) THEN Erased ELSE cell[i]
  BY DEF ErasePage
<1>3. ErasedCells(cell') = {i \in Cells : InPage(i)}
  BY <1>1, <1>2 DEF ErasedCells, Erased
<1>4. Free' = {i \in Cells : InPage(i)}
  BY <1>1, <1>3 DEF Free, InPage
<1>5. \A j \in Free' : target <= j
  BY <1>1, <1>4 DEF InPage, PageOf, FirstCell, VictimPage, Cells
<1>6. cell'[target] = Erased
  BY <1>1, <1>2 DEF InPage
<1>7. TypeOK'
  BY <1>1, OldRecordsStay DEF IInv, TypeOK
<1>8. RequestOK'
  BY <1>1, OldRecordsStay DEF IInv, RequestOK
<1>9. TargetOK'
  BY <1>1, <1>5, <1>6 DEF TargetOK
<1>10. Young(cell', Free') /\ FilledInOrder(cell', Free')
  <2>1. \A i \in ValidCells(cell') : ~InPage(i)
    BY <1>2 DEF ValidCells, IsValid, Erased
  <2> QED
    BY <1>1, <1>4, <2>1, OldRecordsStay, EraseAges
<1> QED
  BY <1>7, <1>8, <1>9, <1>10, OldRecordsStay DEF IInv

LEMMA EraseStopsKeepsInv ==
  ASSUME IInv, EraseStops PROVE IInv'
<1> USE LogAssumption
<1>1. pc = "erase" /\ target \in Cells /\ ErasedCells(cell) = {}
  BY DEF EraseStops, IInv, TypeOK, TargetOK
<1>2. PICK kept \in SUBSET Cells, damaged \in SUBSET Cells :
        /\ \A i \in kept : InPage(i) => Survives(i)
        /\ cell' = [i \in Cells |->
                      IF i \in kept \/ ~InPage(i) THEN cell[i]
                      ELSE IF i \in damaged THEN Torn ELSE Erased]
  BY DEF EraseStops
<1>3. PICK r \in {"flash", "lost"} : Finish(r)
  BY DEF EraseStops
<1>4. pc' = "idle" /\ request' = Nothing /\ TypeOK'
  BY <1>3, OldRecordsStay DEF Finish, TypeOK, Cells
<1>5. Free' = ErasedCells(cell')
  BY <1>4 DEF Free
<1>6. \A j \in Free' : InPage(j) /\ j \in Cells
  BY <1>1, <1>2, <1>5 DEF ErasedCells
<1>7. \A i \in ValidCells(cell') : InPage(i) => Survives(i)
  BY <1>2 DEF ValidCells, IsValid, Torn, Erased
<1>8. Young(cell', Free') /\ FilledInOrder(cell', Free')
  BY <1>1, <1>6, <1>7, OldRecordsStay, EraseAges
<1>9. RequestOK' /\ TargetOK'
  BY <1>4 DEF RequestOK, TargetOK
<1> QED
  BY <1>4, <1>8, <1>9, OldRecordsStay DEF IInv

LEMMA BodyKeepsInv ==
  ASSUME IInv, ProgramBody PROVE IInv'
<1>1. /\ pc = "body" /\ pc' = "magic" /\ target' = target /\ target \in Cells
      /\ request' = request /\ nextSeq' = nextSeq /\ result' = result
      /\ cell \in [Cells -> CellValues] /\ cell[target] = Erased
      /\ \A j \in Free : target <= j
  BY DEF ProgramBody, IInv, TypeOK, TargetOK
<1>2. cell'[target] = Torn /\ \A j \in Cells : j # target => cell'[j] = cell[j]
  BY <1>1 DEF ProgramBody
<1>3. Free' = Free
  BY <1>1, <1>2 DEF Free, ErasedCells, Erased, Torn
<1>4. Young(cell', Free') /\ FilledInOrder(cell', Free')
  BY <1>3, AgesStay
<1>5. TypeOK'
  BY <1>1, OldRecordsStay DEF IInv, TypeOK
<1>6. RequestOK'
  BY <1>1, OldRecordsStay DEF IInv, RequestOK
<1>7. TargetOK'
  BY <1>1, <1>2, <1>3 DEF TargetOK
<1> QED
  BY <1>4, <1>5, <1>6, <1>7, OldRecordsStay DEF IInv

LEMMA BodyStopsKeepsInv ==
  ASSUME IInv, BodyStops PROVE IInv'
<1>1. PICK r \in {"flash", "lost"} : Finish(r)
  BY DEF BodyStops
<1>2. pc' = "idle" /\ request' = Nothing /\ TypeOK'
  BY <1>1, OldRecordsStay, LogAssumption DEF Finish, TypeOK, Cells
<1>3. Free' \subseteq Free
  <2>1. pc = "body" /\ \A j \in Cells : j # target => cell'[j] = cell[j]
    BY DEF BodyStops, IInv, TypeOK
  <2> QED
    BY <1>2, <2>1 DEF Free, ErasedCells
<1>4. Young(cell', Free') /\ FilledInOrder(cell', Free')
  BY <1>3, AgesStay
<1>5. RequestOK' /\ TargetOK'
  BY <1>2 DEF RequestOK, TargetOK
<1> QED
  BY <1>2, <1>4, <1>5, OldRecordsStay DEF IInv

(* What a commit does to the log, as an invariant and to a load *)
LEMMA MagicCommits ==
  ASSUME IInv, ProgramMagic
  PROVE  /\ cell' = Commit(cell, target, nextSeq, request)
         /\ request \in Payloads /\ nextSeq \in 0 .. (SeqModulus - 1)
         /\ target \in Cells /\ ~IsValid(cell, target)
         /\ cell' \in [Cells -> CellValues]
         /\ HasLatest(cell') /\ Distinct(cell') /\ Load(cell') = request
<1>1. cell' = Commit(cell, target, nextSeq, request)
  BY DEF ProgramMagic, Commit
<1>2. /\ request \in Payloads /\ nextSeq \in 0 .. (SeqModulus - 1)
      /\ ValidCells(cell) # {} => nextSeq = NextSequence(cell[Latest(cell)].seq)
  BY DEF ProgramMagic, IInv, RequestOK, TypeOK
<1>3. target \in Cells /\ ~IsValid(cell, target)
  BY TargetNotLatest DEF ProgramMagic
<1>4. /\ cell \in [Cells -> CellValues] /\ HasLatest(cell) /\ Distinct(cell)
      /\ Young(cell, Free)
  BY DEF IInv, TypeOK
<1>5. \A i \in ValidCells(cell) : SequenceIsNewer(nextSeq, cell[i].seq)
  BY <1>2, <1>4, NextIsNewest
<1>6. /\ cell' \in [Cells -> CellValues] /\ IsLatest(cell', target)
      /\ Distinct(cell') /\ Load(cell') = request
  BY <1>1, <1>2, <1>3, <1>4, <1>5, CommitIsLatest
<1>7. HasLatest(cell')
  BY <1>3, <1>6 DEF HasLatest
<1> QED
  BY <1>1, <1>2, <1>3, <1>6, <1>7

LEMMA MagicKeepsInv ==
  ASSUME SmallPages, IInv, ProgramMagic PROVE IInv'
<1> USE LogAssumption
<1>1. /\ pc = "magic" /\ pc' = "idle" /\ request' = Nothing
      /\ target' = 0 /\ nextSeq' = 0 /\ result' \in {"ok", "flash", "lost"}
  BY DEF ProgramMagic, Finish
<1>2. TypeOK'
  BY <1>1, MagicCommits DEF TypeOK, Cells
<1>3. /\ Free \in SUBSET Cells /\ target \in Free /\ \A j \in Free : target <= j
      /\ cell \in [Cells -> CellValues] /\ HasLatest(cell) /\ Distinct(cell)
      /\ Young(cell, Free) /\ FilledInOrder(cell, Free)
      /\ ValidCells(cell) # {} => nextSeq = NextSequence(cell[Latest(cell)].seq)
  BY <1>1 DEF IInv, TypeOK, TargetOK, RequestOK, Free, ErasedCells
<1>4. Young(cell', Free \ {target}) /\ FilledInOrder(cell', Free \ {target})
  BY <1>3, MagicCommits, CommitStaysYoung
<1>5. Free' = Free \ {target}
  <2>1. cell[target] = Torn
    BY <1>1 DEF IInv, TargetOK
  <2>2. cell' = [cell EXCEPT ![target] = Record(nextSeq, request)]
    BY DEF ProgramMagic
  <2>3. ErasedCells(cell') = ErasedCells(cell)
    BY <1>3, <2>1, <2>2, MagicCommits DEF ErasedCells, Torn, Record
  <2>4. target \notin ErasedCells(cell)
    BY <2>1 DEF ErasedCells, Torn
  <2> QED
    BY <1>1, <2>3, <2>4 DEF Free
<1>6. RequestOK' /\ TargetOK'
  BY <1>1 DEF RequestOK, TargetOK
<1> QED
  BY <1>2, <1>4, <1>5, <1>6, MagicCommits DEF IInv

LEMMA NextIInv == SmallPages /\ IInv /\ [Next]_vars => IInv'
<1> SUFFICES ASSUME SmallPages, IInv, [Next]_vars PROVE IInv'
  OBVIOUS
<1>1. ASSUME MagicStops PROVE IInv'
  <2>1. pc' = "idle" /\ request' = Nothing /\ cell' = cell /\ TypeOK'
    BY <1>1, LogAssumption DEF MagicStops, Finish, IInv, TypeOK, Cells
  <2>2. Free' \subseteq Free
    BY <2>1 DEF Free
  <2>3. Young(cell', Free') /\ FilledInOrder(cell', Free')
    BY <2>1, <2>2, YoungKept DEF IInv
  <2> QED
    BY <2>1, <2>3 DEF IInv, HasLatest, Distinct, RequestOK, TargetOK
<1>2. CASE UNCHANGED vars
  BY <1>2 DEF vars, IInv, TypeOK, HasLatest, Distinct, RequestOK, TargetOK, Free,
              Young, FilledInOrder
<1> QED
  BY <1>1, <1>2, BeginKeepsInv, EraseKeepsInv, EraseStopsKeepsInv, BodyKeepsInv,
     BodyStopsKeepsInv, MagicKeepsInv DEF Next

-----------------------------------------------------------------------------
(* Every step of the log is a step of the register or leaves it unchanged. *)
LEMMA NextRefines ==
  ASSUME IInv, [Next]_vars
  PROVE  [Register!Next]_(Register!vars)
<1>1. ASSUME NEW p \in Payloads, BeginAppend(p) PROVE Register!Begin(p)
  BY <1>1, LogAssumption DEF BeginAppend, Register!Begin, IInv, RequestOK, Load,
     ValidCells, IsValid, Latest, IsLatest
<1>2. CASE ErasePage \/ ProgramBody
  BY <1>2, OldRecordsStay DEF ErasePage, ProgramBody, Register!vars
<1>3. CASE EraseStops \/ BodyStops
  <2>1. Register!GiveUp
    BY <1>3, LogAssumption, OldRecordsStay
    DEF EraseStops, BodyStops, Finish, Register!GiveUp, IInv, RequestOK
  <2> QED
    BY <2>1 DEF Register!Next
<1>4. CASE ProgramMagic
  <2>1. Load(cell') = request /\ request \in Payloads
    BY <1>4, MagicCommits
  <2>2. Register!Succeed \/ Register!GiveUp
    BY <1>4, <2>1, LogAssumption
    DEF ProgramMagic, Finish, Register!Succeed, Register!GiveUp
  <2> QED
    BY <2>2 DEF Register!Next
<1>5. CASE MagicStops
  <2>1. Load(cell') = Load(cell)
    BY <1>5 DEF MagicStops
  <2>2. Register!GiveUp
    BY <1>5, <2>1, LogAssumption
    DEF MagicStops, Finish, Register!GiveUp, IInv, RequestOK
  <2> QED
    BY <2>2 DEF Register!Next
<1>6. CASE UNCHANGED vars
  BY <1>6 DEF vars, Register!vars
<1> QED
  BY <1>1, <1>2, <1>3, <1>4, <1>5, <1>6 DEF Next, Register!Next

LEMMA InitRefines == Init => Register!Init
<1> SUFFICES ASSUME Init PROVE Register!Init
  OBVIOUS
<1>1. \A i \in Cells : ~IsValid(cell, i)
  BY DEF Init, IsValid, Erased, Torn
<1>2. ValidCells(cell) = {}
  BY <1>1 DEF ValidCells
<1> QED
  BY <1>2 DEF Init, Register!Init, Load

-----------------------------------------------------------------------------
(* Induction, for a set of numbers: where n was the least number missing,  *)
(* taking one away would map the missing numbers up to n one to one into   *)
(* themselves and still miss n.                                            *)
LEMMA SetInduction ==
  ASSUME NEW S, 0 \in S, \A n \in Nat : n \in S => n + 1 \in S
  PROVE  \A n \in Nat : n \in S
<1> SUFFICES ASSUME NEW n \in Nat, n \notin S PROVE FALSE
  OBVIOUS
<1> DEFINE T == {m \in 0 .. n : m \notin S}
           f == [m \in T |-> m - 1]
<1>1. \A m \in T : m - 1 \in T
  <2> SUFFICES ASSUME NEW m \in T PROVE m - 1 \in T
    OBVIOUS
  <2>1. m # 0
    OBVIOUS
  <2>2. m - 1 \in Nat /\ (m - 1) + 1 = m /\ m - 1 \in 0 .. n
    BY <2>1
  <2>3. m - 1 \notin S
    BY <2>2
  <2> QED
    BY <2>2, <2>3
<1>2. IsFiniteSet(T)
  <2>1. IsFiniteSet(0 .. n)
    BY FS_Interval
  <2> QED
    BY <2>1, FS_Subset
<1>3. f \in Injection(T, T)
  <2>1. f \in [T -> T]
    BY <1>1
  <2>2. ASSUME NEW a \in T, NEW b \in T, f[a] = f[b] PROVE a = b
    BY <2>2
  <2> QED
    BY <2>1, <2>2 DEF Injection, IsInjective
<1>4. f \in Surjection(T, T)
  BY <1>2, <1>3, FS_Injection
<1>5. n \in T
  OBVIOUS
<1>6. PICK m \in T : f[m] = n
  BY <1>4, <1>5 DEF Surjection
<1> QED
  BY <1>6

(* The bests of the first 0, 1, ..., m cells *)
Bests(c, f, m) ==
  f = [n \in 0 .. m |-> IF n = 0 THEN -1 ELSE BetterOf(c, f[n - 1], n - 1)]

(* The recursion of the scan has a solution. *)
LEMMA BestsExist ==
  ASSUME NEW c PROVE \A m \in Nat : \E f : Bests(c, f, m)
<1> DEFINE S == {m \in Nat : \E f : Bests(c, f, m)}
<1>1. 0 \in S
  <2> DEFINE f == [n \in 0 .. 0 |-> -1]
  <2>1. Bests(c, f, 0)
    BY DEF Bests
  <2> QED
    BY <2>1
<1>2. ASSUME NEW m \in Nat, m \in S PROVE m + 1 \in S
  <2>1. PICK f : Bests(c, f, m)
    BY <1>2
  <2>2. /\ DOMAIN f = 0 .. m
        /\ \A n \in 0 .. m : f[n] = IF n = 0 THEN -1 ELSE BetterOf(c, f[n - 1], n - 1)
    BY <2>1 DEF Bests
  <2> DEFINE g == [n \in 0 .. (m + 1) |->
                     IF n = m + 1 THEN BetterOf(c, f[m], m) ELSE f[n]]
  <2>3. \A n \in 0 .. m : g[n] = f[n]
    OBVIOUS
  <2>4. g[m + 1] = BetterOf(c, g[m], m)
    BY <2>3
  <2>5. \A n \in 0 .. (m + 1) :
          g[n] = IF n = 0 THEN -1 ELSE BetterOf(c, g[n - 1], n - 1)
    <3> SUFFICES ASSUME NEW n \in 0 .. (m + 1)
                 PROVE  g[n] = IF n = 0 THEN -1 ELSE BetterOf(c, g[n - 1], n - 1)
      OBVIOUS
    <3>1. CASE n = m + 1
      <4>1. n # 0 /\ n - 1 = m
        BY <3>1
      <4> QED
        BY <2>4, <3>1, <4>1
    <3>2. CASE n # m + 1
      <4>1. n \in 0 .. m /\ (n # 0 => n - 1 \in 0 .. m)
        BY <3>2
      <4> QED
        BY <2>2, <2>3, <4>1
    <3> QED
      BY <3>1, <3>2
  <2>6. DOMAIN g = 0 .. (m + 1)
    OBVIOUS
  <2>7. Bests(c, g, m + 1)
    <3>1. g = [n \in 0 .. (m + 1) |-> g[n]]
      OBVIOUS
    <3> HIDE DEF g
    <3> QED
      BY <2>5, <3>1 DEF Bests
  <2> QED
    BY <2>7
<1> HIDE DEF S
<1>3. \A m \in Nat : m \in S
  BY <1>1, <1>2, SetInduction
<1> QED
  BY <1>3 DEF S

(* ... and the scan takes the last value of one. *)
LEMMA ScanIsBest ==
  ASSUME NEW c
  PROVE  \E f : Bests(c, f, 2 * RecordsPerPage) /\ ScanLatest(c) = f[2 * RecordsPerPage]
<1> DEFINE best[n \in 0 .. 2 * RecordsPerPage] ==
             IF n = 0 THEN -1 ELSE BetterOf(c, best[n - 1], n - 1)
<1>1. 2 * RecordsPerPage \in Nat
  BY LogAssumption
<1>2. PICK f : Bests(c, f, 2 * RecordsPerPage)
  BY <1>1, BestsExist
<1>3. Bests(c, best, 2 * RecordsPerPage)
  BY <1>2 DEF Bests
<1>4. ScanLatest(c) = best[2 * RecordsPerPage]
  BY DEF ScanLatest
<1> QED
  BY <1>3, <1>4

(* b is the newest of the first n cells, or none of them is valid. *)
BestOf(c, n, b) ==
  IF \E i \in ValidCells(c) : i < n
    THEN /\ b \in ValidCells(c) /\ b < n
         /\ \A j \in ValidCells(c) : j < n /\ j # b => SequenceIsNewer(c[b].seq, c[j].seq)
    ELSE b = -1

(* One pass of the scan loop keeps it so. *)
LEMMA ScanPass ==
  ASSUME NEW c \in [Cells -> CellValues], HasLatest(c), Distinct(c),
         NEW n \in Cells, NEW b, BestOf(c, n, b)
  PROVE  BestOf(c, n + 1, BetterOf(c, b, n))
<1>1. \A j \in ValidCells(c) : /\ j \in Cells /\ j \in Int /\ j # -1
                               /\ j < n + 1 <=> j < n \/ j = n
                               /\ Age(c, j) \in Nat
  BY ValidCellType, AgeRange, LogAssumption DEF Cells
<1>2. IsValid(c, n) <=> n \in ValidCells(c)
  BY DEF ValidCells
<1>3. ASSUME NEW i \in ValidCells(c), NEW j \in ValidCells(c), i # j
      PROVE  /\ SequenceIsNewer(c[i].seq, c[j].seq) <=> Age(c, i) < Age(c, j)
             /\ Age(c, i) # Age(c, j)
  <2>1. SequenceIsNewer(c[i].seq, c[j].seq) <=> Age(c, i) < Age(c, j)
    BY NewerIsYounger
  <2>2. c[i].seq # c[j].seq
    BY <1>3 DEF Distinct
  <2>3. /\ c[i].seq \in 0 .. (SeqModulus - 1) /\ c[j].seq \in 0 .. (SeqModulus - 1)
        /\ c[Latest(c)].seq \in 0 .. (SeqModulus - 1)
    BY ValidCellType, LatestIs
  <2>4. Age(c, i) # Age(c, j)
    BY <2>2, <2>3, LogAssumption DEF Age, SeqDiff
  <2> QED
    BY <2>1, <2>4
<1>4. CASE n \notin ValidCells(c)
  <2>1. BetterOf(c, b, n) = b
    BY <1>2, <1>4 DEF BetterOf
  <2>2. \A j \in ValidCells(c) : j < n + 1 <=> j < n
    BY <1>1, <1>4
  <2> QED
    BY <2>1, <2>2, Zenon DEF BestOf
<1>5. CASE n \in ValidCells(c) /\ \A i \in ValidCells(c) : ~(i < n)
  <2>1. b = -1
    BY <1>5, Zenon DEF BestOf
  <2>2. BetterOf(c, b, n) = n
    BY <1>2, <1>5, <2>1 DEF BetterOf
  <2>3. n < n + 1 /\ \A j \in ValidCells(c) : j < n + 1 => j = n
    BY <1>1, <1>5
  <2> QED
    BY <1>5, <2>2, <2>3, Zenon DEF BestOf
<1>6. CASE n \in ValidCells(c) /\ \E i \in ValidCells(c) : i < n
  <2>1. /\ b \in ValidCells(c) /\ b < n
        /\ \A j \in ValidCells(c) : j < n /\ j # b => SequenceIsNewer(c[b].seq, c[j].seq)
    BY <1>6, Zenon DEF BestOf
  <2>2. b # -1 /\ b # n /\ b < n + 1 /\ n < n + 1
    BY <1>1, <1>6, <2>1
  <2>3. \A j \in ValidCells(c) : j < n + 1 => j < n \/ j = n
    BY <1>1
  <2>4. CASE SequenceIsNewer(c[n].seq, c[b].seq)
    <3>1. BetterOf(c, b, n) = n
      BY <1>2, <1>6, <2>2, <2>4, Zenon DEF BetterOf
    <3>2. ASSUME NEW j \in ValidCells(c), j < n + 1, j # n
          PROVE  SequenceIsNewer(c[n].seq, c[j].seq)
      <4>1. j < n
        BY <2>3, <3>2
      <4>2. CASE j = b
        BY <2>4, <4>2
      <4>3. CASE j # b
        <5>1. Age(c, n) < Age(c, b) /\ Age(c, b) < Age(c, j)
          BY <1>3, <1>6, <2>1, <2>2, <2>4, <4>1, <4>3
        <5>2. Age(c, n) < Age(c, j)
          BY <1>1, <1>6, <2>1, <5>1
        <5> QED
          BY <1>3, <1>6, <3>2, <5>2
      <4> QED
        BY <4>2, <4>3
    <3> QED
      BY <1>6, <2>2, <3>1, <3>2, Zenon DEF BestOf
  <2>5. CASE ~SequenceIsNewer(c[n].seq, c[b].seq)
    <3>1. BetterOf(c, b, n) = b
      BY <1>2, <1>6, <2>2, <2>5, Zenon DEF BetterOf
    <3>2. SequenceIsNewer(c[b].seq, c[n].seq)
      <4>1. ~(Age(c, n) < Age(c, b)) /\ Age(c, n) # Age(c, b)
        BY <1>3, <1>6, <2>1, <2>2, <2>5
      <4>2. Age(c, b) < Age(c, n)
        BY <1>1, <1>6, <2>1, <4>1
      <4> QED
        BY <1>3, <1>6, <2>1, <2>2, <4>2
    <3>3. ASSUME NEW j \in ValidCells(c), j < n + 1, j # b
          PROVE  SequenceIsNewer(c[b].seq, c[j].seq)
      BY <2>1, <2>3, <3>2, <3>3, Zenon
    <3> QED
      BY <2>1, <2>2, <3>1, <3>3, Zenon DEF BestOf
  <2> QED
    BY <2>4, <2>5
<1> QED
  BY <1>4, <1>5, <1>6

(* The scan ends on the newest record. *)
LEMMA ScanIsRight ==
  ASSUME NEW c \in [Cells -> CellValues], HasLatest(c), Distinct(c)
  PROVE  IF ValidCells(c) = {}
           THEN ScanLatest(c) = -1
           ELSE ScanLatest(c) \in Cells /\ IsLatest(c, ScanLatest(c))
<1> DEFINE N == 2 * RecordsPerPage
<1>1. N \in Nat
  BY LogAssumption
<1>2. PICK f : Bests(c, f, N) /\ ScanLatest(c) = f[N]
  BY ScanIsBest
<1>3. \A n \in 0 .. N : f[n] = IF n = 0 THEN -1 ELSE BetterOf(c, f[n - 1], n - 1)
  BY <1>2 DEF Bests
<1> DEFINE S == {n \in Nat : n <= N => BestOf(c, n, f[n])}
<1>4. 0 \in S
  <2>1. f[0] = -1
    BY <1>1, <1>3
  <2>2. \A i \in ValidCells(c) : ~(i < 0)
    BY ValidCellType, LogAssumption DEF Cells
  <2>3. BestOf(c, 0, f[0])
    BY <2>1, <2>2, Zenon DEF BestOf
  <2> QED
    BY <2>3
<1>5. ASSUME NEW n \in Nat, n \in S PROVE n + 1 \in S
  <2> SUFFICES ASSUME n + 1 <= N PROVE BestOf(c, n + 1, f[n + 1])
    OBVIOUS
  <2>1. n <= N /\ n \in Cells /\ n + 1 \in 0 .. N /\ n + 1 # 0 /\ (n + 1) - 1 = n
    BY <1>1 DEF Cells
  <2>2. f[n + 1] = BetterOf(c, f[n], n)
    BY <1>3, <2>1
  <2>3. BestOf(c, n, f[n])
    BY <1>5, <2>1
  <2> QED
    BY <2>1, <2>2, <2>3, ScanPass
<1> HIDE DEF S
<1>6. N \in S
  BY <1>1, <1>4, <1>5, SetInduction
<1>7. BestOf(c, N, ScanLatest(c))
  BY <1>1, <1>2, <1>6 DEF S
<1>8. \A i \in ValidCells(c) : i < N /\ i \in Cells
  BY ValidCellType, LogAssumption DEF Cells
<1>9. CASE ValidCells(c) = {}
  BY <1>7, <1>9, Zenon DEF BestOf
<1>10. CASE ValidCells(c) # {}
  <2>1. \E i \in ValidCells(c) : i < N
    BY <1>8, <1>10
  <2>2. /\ ScanLatest(c) \in ValidCells(c)
        /\ \A j \in ValidCells(c) : j < N /\ j # ScanLatest(c) =>
             SequenceIsNewer(c[ScanLatest(c)].seq, c[j].seq)
    BY <1>7, <2>1, Zenon DEF BestOf
  <2> QED
    BY <1>8, <1>10, <2>2, Zenon DEF IsLatest, ValidCells
<1> QED
  BY <1>9, <1>10

-----------------------------------------------------------------------------
(* The inductive invariant holds in every reachable state. *)
THEOREM LogInvariant == SmallPages => (Spec => []IInv)
<1>1. SmallPages /\ Init => IInv
  BY InitIInv
<1>2. SmallPages /\ IInv /\ [Next]_vars => IInv'
  BY NextIInv
<1>3. SUFFICES ASSUME SmallPages PROVE Spec => []IInv
  OBVIOUS
<1> QED
  BY <1>1, <1>2, <1>3, PTL DEF Spec

(* The variables keep their types. *)
THEOREM LogTypeCorrect == SmallPages => (Spec => []TypeOK)
<1>1. IInv => TypeOK
  BY DEF IInv
<1> QED
  BY <1>1, LogInvariant, PTL

(* Sequence numbers of the valid records are distinct and one record is    *)
(* newer than all others, whatever interrupted erases leave behind.        *)
THEOREM LogSequencesOrdered == SmallPages => (Spec => []SequencesOrdered)
<1>1. IInv => SequencesOrdered
  BY DEF IInv, SequencesOrdered, Distinct, HasLatest
<1> QED
  BY <1>1, LogInvariant, PTL

(* The scan loop of a load, which compares each record only with the best  *)
(* one so far, ends on the record that is newer than all others.           *)
THEOREM LogScanFindsLatest == SmallPages => (Spec => []ScanFindsLatest)
<1>1. IInv => ScanFindsLatest
  BY ScanIsRight DEF IInv, TypeOK, ScanFindsLatest
<1> QED
  BY <1>1, LogInvariant, PTL

(* No write touches the newest record or a cell that is not erased. *)
THEOREM LogWritesAreSafe == SmallPages => (Spec => []WritesAreSafe)
<1>1. IInv => WritesAreSafe
  BY VictimNotLatest DEF IInv, WritesAreSafe, TargetOK, Erased, Torn
<1> QED
  BY <1>1, LogInvariant, PTL

(* The two-page log implements the atomic register. *)
THEOREM LogImplementsRegister == SmallPages => (Spec => ImplementsRegister)
<1>1. SUFFICES ASSUME SmallPages PROVE Spec => ImplementsRegister
  OBVIOUS
<1>2. Init => Register!Init
  BY InitRefines
<1>3. IInv /\ [Next]_vars => [Register!Next]_(Register!vars)
  BY NextRefines
<1>4. Spec => []IInv
  BY <1>1, LogInvariant
<1> QED
  BY <1>2, <1>3, <1>4, PTL DEF Spec, ImplementsRegister, Register!Spec

=============================================================================
