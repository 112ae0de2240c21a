SPECIFICATION FairSpec
CONSTANTS
  g1 = g1
  g2 = g2
  t1 = t1
  sha1a = sha1a
  sha1b = sha1b
  NoOne = NoOne
  GrobidWorkers <- MCOneGrobid
  PdfTextWorkers <- MCOnePdfText
  Keys <- MCKeys
  GrobidOutcomes <- MCSuccess
  PdfTextOutcomes <- MCText
  LogLen = 2
  BatchSize = 2
  MaxDisturbances = 0
PROPERTIES EveryRecordPersisted
CHECK_DEADLOCK FALSE
