SPECIFICATION Spec
CONSTANTS
  arxivPdf = arxivPdf
  arxiv = arxiv
  wall = wall
  blocked = blocked
  paper = paper
  NoUrl = NoUrl
  Urls <- MCUrls
  BaseBlocked <- MCBlocked
  WallBlocked <- MCWall
  CookieBlocked <- MCNone
  ArxivStripped <- MCStripped
  IngestTypes <- MCAllTypes
  MaxHops = 3
  TryWayback = TRUE
  TrySpn2 <- MCSpn2
INVARIANTS TypeOK HitIsTheDocument PublishedIsOfDocument FetchBudget
PROPERTIES EveryRequestEnds
CHECK_DEADLOCK FALSE
