\* Two records a page, every failure; sequence numbers wrap for ever.
CONSTANTS
  p1 = p1
  p2 = p2
  Payloads = {p1, p2}
  Nothing = Nothing
  RecordsPerPage = 2
  SeqModulus = 18
  MaxSeq = 17
SYMMETRY Symmetry
SPECIFICATION Spec
INVARIANTS
  ScanFindsLatest
  WritesAreSafe
PROPERTY ImplementsRegister
