SPECIFICATION FairSpec
CONSTANTS
  p1 = p1
  p2 = p2
  paper = paper
  page = page
  sha1a = sha1a
  sha1b = sha1b
  doi = doi
  spn = spn
  NoLink = NoLink
  NoFile = NoFile
  Partitions <- MCPartitions
  Results <- MCDatasets
  Requests <- MCNone
  CdxImport <- MCNone
  LogLen = 2
  BatchSize = 2
  MaxCrashes = 0
PROPERTIES EveryResultPersisted
CHECK_DEADLOCK FALSE
