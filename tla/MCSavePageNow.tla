---------------------------- MODULE MCSavePageNow ----------------------------
\* An instance of SavePageNow for TLC: a paper crawled through a self-redirect of the same
\* second, its recapture as a revisit, a sciencedirect PDF with an old capture, a cookie block.
EXTENDS SavePageNow, TLC

CONSTANTS http, https, elsevier, cookie, ftp, article, page

MCUrls == {http, https, elsevier, cookie, ftp}
MCSurt == (http :> 1 @@ https :> 1 @@ elsevier :> 2 @@ cookie :> 3 @@ ftp :> 4)
MCFuzzy == (http :> 1 @@ https :> 2 @@ elsevier :> 3 @@ cookie :> 4 @@ ftp :> 5)
MCDigests == {article, page}
MCKind == (article :> "pdf" @@ page :> "html")

Row(u, dt, status, digest) ==
  [url |-> u, dt |-> dt, status |-> status, mimetype |-> MCKind[digest], digest |-> digest,
   usable |-> TRUE, location |-> NoUrl, refersUrl |-> u, refersDt |-> 0]

MCOldRows == {Row(elsevier, 191, 200, article)}
MCRows ==
  MCOldRows \cup
  { Row(http, 201, 301, page), Row(http, 201, 200, article),
    [Row(http, 202, NoStatus, article) EXCEPT !.mimetype = "warc/revisit", !.refersDt = 201],
    Row(https, 201, 404, page), Row(cookie, 203, 200, page) }

MCStart == {http, elsevier, ftp}
MCFtp == {ftp}
MCElsevier == {elsevier}
MCNotFetched == {cookie}

\* The crawl is not followed redirect by redirect.
MCPaths == {}
MCJoin == [p \in {} |-> NoUrl]
=============================================================================
