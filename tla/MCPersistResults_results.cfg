SPECIFICATION FairSpec
CONSTANTS
  p1 = p1
  p2 = p2
  paper = paper
  page = page
  sha1a = sha1a
  sha1b = sha1b
  doi = doi
  spn = spn
  NoLink = NoLink
  NoFile = NoFile
  Partitions <- MCPartitions
  Results <- MCResults
  Requests <- MCRequests
  CdxImport <- MCImport
  LogLen = 2
  BatchSize = 2
  MaxCrashes = 1
INVARIANTS RowsAreCurrent CommittedHasRow HitsAreComplete
PROPERTIES EveryResultPersisted
CHECK_DEADLOCK FALSE
