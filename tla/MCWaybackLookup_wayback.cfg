SPECIFICATION Spec
CONSTANTS
  NoUrl = NoUrl
  http = http
  https = https
  www = www
  other = other
  path = path
  article = article
  preprint = preprint
  errorPage = errorPage
  Urls <- MCUrls
  SurtOf <- MCSurt
  FuzzyOf <- MCFuzzy
  Digests <- MCDigests
  KindOf <- MCKind
  Rows <- MCRows
  RowLimit = 3
  Paths <- MCPaths
  Join <- MCJoin
  StartUrls <- MCStart
  Closest <- MCClosest
  BestMimetypes <- MCBest
  MaxRedirects = 1
  OldYear = 19
INVARIANTS ChainUnbroken HitEndsTheChain WalkBounded GoodCaptureIsUsed
PROPERTIES ImplementsClient
CHECK_DEADLOCK FALSE
