SPECIFICATION FairSpec
CONSTANTS
  NoUrl = NoUrl
  http = http
  https = https
  elsevier = elsevier
  cookie = cookie
  ftp = ftp
  article = article
  page = page
  Urls <- MCUrls
  SurtOf <- MCSurt
  FuzzyOf <- MCFuzzy
  Digests <- MCDigests
  KindOf <- MCKind
  Rows <- MCRows
  OldRows <- MCOldRows
  RowLimit = 3
  StartUrls <- MCStart
  FtpUrls <- MCFtp
  SciencedirectUrls <- MCElsevier
  NotFetched <- MCNotFetched
  Paths <- MCPaths
  Join <- MCJoin
  Slots = 3
  MaxJobs = 2
  PollCount = 2
  CdxRetrySec = 4
INVARIANTS HitIsOfThisCrawl NoJobLeftBehind
PROPERTIES CallEnds
CHECK_DEADLOCK FALSE
