SPECIFICATION Spec
CONSTANTS
  g1 = g1
  g2 = g2
  t1 = t1
  sha1a = sha1a
  sha1b = sha1b
  NoOne = NoOne
  GrobidWorkers <- MCTwoGrobid
  PdfTextWorkers <- MCNoWorkers
  Keys <- MCOneKey
  GrobidOutcomes <- MCOutcomes
  PdfTextOutcomes <- MCText
  LogLen = 3
  BatchSize = 2
  MaxDisturbances = 2
INVARIANTS TypeOK RowHasBlob CommittedIsCurrent
PROPERTIES ImplementsQueue
CHECK_DEADLOCK FALSE
