--------------------------- MODULE MCWaybackLookup ---------------------------
\* An instance of WaybackLookup for TLC: two spellings of one URL and a third that only shares
\* their SURT, with redirects, one of them relative, a revisit and two documents captured
\* in the same second, and another URL that is part of a redirect cycle.
EXTENDS WaybackLookup, TLC

CONSTANTS http, https, www, other, path, article, preprint, errorPage

MCUrls == {http, https, www, other}
MCSurt == (http :> 1 @@ https :> 1 @@ www :> 1 @@ other :> 2)
MCFuzzy == (http :> 1 @@ https :> 1 @@ www :> 2 @@ other :> 3)
MCDigests == {article, preprint, errorPage}
MCKind == (article :> "pdf" @@ preprint :> "jats" @@ errorPage :> "html")

Row(url, dt, status, digest) ==
  [url |-> url, dt |-> dt, status |-> status, mimetype |-> MCKind[digest], digest |-> digest,
   usable |-> TRUE, location |-> NoUrl, refersUrl |-> url, refersDt |-> 0]
Moved(url, dt, status, location) ==
  [Row(url, dt, status, errorPage) EXCEPT !.location = location]
Revisit(url, dt, status, refersUrl, refersDt) ==
  [Row(url, dt, status, article) EXCEPT
     !.mimetype = "warc/revisit", !.refersUrl = refersUrl, !.refersDt = refersDt]

MCRows ==
  { Moved(www, 191, 301, https), Row(https, 191, 200, article),
    Row(http, 191, 200, preprint), Revisit(https, 201, 200, https, 191),
    Revisit(http, 191, NoStatus, https, 191),
    Moved(http, 191, 302, path), Moved(other, 181, 302, https) }

MCPaths == {path}
MCJoin == [<<url, p>> \in MCUrls \X MCPaths |->
             IF url = other THEN http ELSE IF url = www THEN https ELSE other]

MCStart == {www, other}
MCClosest == {0}
MCBest == {"pdf"}
=============================================================================
