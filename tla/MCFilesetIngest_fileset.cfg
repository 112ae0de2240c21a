SPECIFICATION FairSpec
CONSTANTS
  FileLimit = 3
  WebLimit = 18
  BaseUrls <- MCBaseUrls
  TerminalUrls <- MCTerminalUrls
  BlockedUrls <- MCBlocked
  Records <- MCRecords
  Paths <- MCPaths
  FileUrls <- MCFileUrls
  Contents <- MCContents
  OldItems <- MCOldItems
  OldCaptures <- MCOldCaptures
  Failures <- MCFailures
  MaxTotalSize = 9
  MaxFileCount = 3
  MaxSpnManifest = 2
  MaxRequests = 2
INVARIANTS TypeOK SuccessIsArchived
PROPERTIES UploadsAreVerified NoNeedlessDownload RequestEnds
CHECK_DEADLOCK FALSE
