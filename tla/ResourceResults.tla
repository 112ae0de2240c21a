-------------------------- MODULE ResourceResults --------------------------
(***************************************************************************)
(* What the wayback client (lookup_resource) and the Save Page Now client  *)
(* (crawl_resource) of ia.py may return or raise.  IngestFile assumes it;  *)
(* WaybackLookup and SavePageNow are shown to keep to it.                  *)
(*                                                                         *)
(* A body is its mimetype, or the reason it is of no use.                  *)
(***************************************************************************)
CONSTANTS Urls, NoUrl

Mimetype == {"pdf", "html", "xml", "jats", "gzip", "png"}
BadBody == {"empty", "too-large", "bad-gzip"}

Resource ==
  [hit : BOOLEAN, status : {"none", "success", "no-capture", "lookup-failed", "crawl-failed"},
   terminal : Urls \cup {NoUrl}, old : BOOLEAN, body : Mimetype \cup BadBody \cup {"none"}]

WaybackResults ==
  [hit : {TRUE}, status : {"success"}, terminal : Urls, old : {FALSE},
   body : Mimetype \cup BadBody]
  \cup [hit : {FALSE}, status : {"no-capture"}, terminal : Urls, old : {FALSE}, body : {"none"}]
  \cup [hit : {FALSE}, status : {"lookup-failed"}, terminal : Urls, old : BOOLEAN,
        body : {"none"}]

CrawlResults ==
  [hit : {TRUE}, status : {"success"}, terminal : Urls, old : {FALSE},
   body : Mimetype \cup BadBody]
  \cup [hit : {FALSE}, status : {"crawl-failed"}, terminal : Urls \cup {NoUrl}, old : {FALSE},
        body : {"none"}]

LookupError == {"petabox-error", "cdx-error", "wayback-error", "wayback-content-error"}
CrawlError == LookupError \cup {"spn2-error", "spn2-backoff"}
=============================================================================
