----------------------------- MODULE IngestFile -----------------------------
(***************************************************************************)
(* One request as IngestFileWorker handles it (ingest_file.py):            *)
(* process_file follows links from the base URL until it holds the         *)
(* document asked for, find_resource fetches each hop from wayback or with *)
(* Save Page Now, and process_file_hit derives and publishes what the      *)
(* document contains.  The SIGALRM of push_record_timeout (workers.py) may *)
(* go off anywhere.                                                        *)
(*                                                                         *)
(* The services answer anything lookup_resource and crawl_resource can     *)
(* return or raise (ResourceResults), at any time, or never.               *)
(***************************************************************************)
EXTENDS Integers, Sequences, ResourceResults

CONSTANTS
  BaseBlocked,      \* URLs matching base_url_blocklist
  WallBlocked,      \* URLs matching wall_blocklist: loginwalls
  CookieBlocked,    \* URLs matching cookie_blocklist
  ArxivStripped,    \* [arxiv .pdf URL -> the same URL without .pdf]
  IngestTypes,      \* the ingest_type values to try
  MaxHops,          \* max_hops
  TryWayback,
  TrySpn2           \* the values of try_spn2 to try: FALSE with --bulk or --skip-spn

Types == {"pdf", "xml", "html", "src", "component"}

ASSUME IngestAssumption ==
  /\ NoUrl \notin Urls
  /\ BaseBlocked \subseteq Urls /\ WallBlocked \subseteq Urls /\ CookieBlocked \subseteq Urls
  /\ DOMAIN ArxivStripped \subseteq Urls
  /\ ArxivStripped \in [DOMAIN ArxivStripped -> Urls \ DOMAIN ArxivStripped]
  /\ \A u, v \in DOMAIN ArxivStripped : ArxivStripped[u] = ArxivStripped[v] => u = v
  /\ IngestTypes \subseteq Types
  /\ MaxHops \in Nat \ {0}
  /\ TryWayback \in BOOLEAN /\ TrySpn2 \subseteq BOOLEAN

Stopped(t) == t \in {"answered", "raised"}

VARIABLES
  trySpn2,                    \* of the worker
  ingestType, forceRecrawl,   \* of the request
  armed,        \* the alarm is set and has not gone off
  pc,           \* where process_file is
  nextUrl, hops,
  target,       \* the URL find_resource is fetching
  inHack,       \* inside the try block of the arxiv hack
  resource,     \* what find_resource has found
  result        \* the dict process_file is filling in

\* History variables.
VARIABLES
  fetched,      \* calls of find_resource in order: the URL asked for, and of which hop
  crawls,       \* Save Page Now requests made
  published     \* derivatives given to the side sinks: <<kind, document>>

requestVars == <<trySpn2, ingestType, forceRecrawl>>
vars == <<requestVars, armed, pc, nextUrl, hops, target, inHack, resource, result,
          fetched, crawls, published>>

PC == {"start", "hop", "lookup", "crawl", "fetched", "parse", "document", "grobid",
       "pdfextract", "pdftext", "xmldoc", "html", "resources", "succeed", "answered", "raised"}

NoResource ==
  [hit |-> FALSE, status |-> "none", terminal |-> NoUrl, old |-> FALSE, body |-> "none"]

\* A document is known by the capture it was read from.
Document == [url : Urls \cup {NoUrl}, mimetype : Mimetype \cup BadBody \cup {"none"}]
NoDocument == [url |-> NoUrl, mimetype |-> "none"]
Current == [url |-> resource.terminal, mimetype |-> resource.body]

Status ==
  CrawlError \cup {"none", "success", "no-capture", "lookup-failed", "crawl-failed", "blocked",
    "bad-body", "no-pdf-link", "link-loop", "max-hops-exceeded", "wrong-mimetype",
    "derive-error", "timeout"}

Call == [url : Urls, hop : Urls]
Derivative == {"grobid", "thumbnail", "pdftext", "xmldoc", "teixml"}

NoResult == [status |-> "none", hit |-> FALSE, terminal |-> NoUrl, fileMeta |-> NoDocument]

TypeOK ==
  /\ trySpn2 \in TrySpn2 /\ ingestType \in IngestTypes /\ forceRecrawl \in BOOLEAN
  /\ armed \in BOOLEAN
  /\ pc \in PC
  /\ nextUrl \in Urls /\ hops \in Seq(Urls) /\ target \in Urls
  /\ inHack \in BOOLEAN
  /\ resource \in Resource
  /\ result \in [status : Status, hit : BOOLEAN, terminal : Urls \cup {NoUrl},
                 fileMeta : Document]
  /\ fetched \in Seq(Call) /\ crawls \in Nat
  /\ published \in SUBSET (Derivative \X Document)

\* Requests come from Kafka with the alarm set, or from the HTTP handler without it.
Init ==
  /\ trySpn2 \in TrySpn2 /\ ingestType \in IngestTypes /\ forceRecrawl \in BOOLEAN
  /\ armed \in BOOLEAN
  /\ pc = "start"
  /\ nextUrl \in Urls
  /\ hops = <<nextUrl>>
  /\ target = nextUrl
  /\ inHack = FALSE
  /\ resource = NoResource
  /\ result = NoResult
  /\ fetched = <<>> /\ crawls = 0 /\ published = {}

historyVars == <<fetched, crawls, published>>
fetchVars == <<target, inHack, resource>>
linkVars == <<nextUrl, hops>>

\* return result, with a status.
Answer(status) ==
  /\ pc' = "answered"
  /\ result' = [result EXCEPT !.status = status]

-----------------------------------------------------------------------------
(* The top of the hop loop, and find_resource.                             *)

Blocked(url) == url \in BaseBlocked \cup WallBlocked \cup CookieBlocked

SkipRequest ==
  /\ pc = "start"
  /\ nextUrl \in BaseBlocked
  /\ Answer("blocked")
  /\ UNCHANGED <<requestVars, armed, linkVars, fetchVars, historyVars>>

BeginHops ==
  /\ pc = "start"
  /\ nextUrl \notin BaseBlocked
  /\ pc' = "hop"
  /\ UNCHANGED <<requestVars, armed, linkVars, fetchVars, result, historyVars>>

TooManyHops ==
  /\ pc = "hop"
  /\ Len(hops) > MaxHops
  /\ Answer("max-hops-exceeded")
  /\ UNCHANGED <<requestVars, armed, linkVars, fetchVars, historyVars>>

SkipHop ==
  /\ pc = "hop"
  /\ Len(hops) <= MaxHops
  /\ Blocked(nextUrl)
  /\ Answer("blocked")
  /\ UNCHANGED <<requestVars, armed, linkVars, fetchVars, historyVars>>

\* Crawl what wayback was not asked for, does not have, or failed to capture before 2019.
NeedsCrawl(r) == trySpn2 /\ (r = NoResource \/ r.status = "no-capture" \/ (~r.hit /\ r.old))

AfterLookupAgain(r) == IF NeedsCrawl(r) THEN "lookup" ELSE "fetched"
AfterLookup(r) == IF NeedsCrawl(r) THEN "crawl" ELSE "fetched"
FindResource == IF TryWayback /\ ~forceRecrawl THEN "lookup" ELSE AfterLookup(NoResource)

\* A call of find_resource for this URL, on behalf of the hop at hand.
CallFor(url) == Append(fetched, [url |-> url, hop |-> nextUrl])

\* Call find_resource; the arxiv hack calls it again for the stripped URL first.
FetchHop ==
  /\ pc = "hop"
  /\ Len(hops) <= MaxHops
  /\ ~Blocked(nextUrl)
  /\ inHack' = (nextUrl \in DOMAIN ArxivStripped /\ FindResource # "fetched")
  /\ target' = IF nextUrl \in DOMAIN ArxivStripped THEN ArxivStripped[nextUrl] ELSE nextUrl
  /\ fetched' = CallFor(target')
  /\ resource' = NoResource
  /\ pc' = FindResource
  /\ UNCHANGED <<requestVars, armed, linkVars, result, crawls, published>>

\* wayback_client.lookup_resource returns.
LookupResource ==
  /\ pc = "lookup"
  /\ \E r \in WaybackResults :
       /\ resource' = r
       /\ pc' = AfterLookup(r)
       /\ inHack' = (inHack /\ NeedsCrawl(r))
  /\ UNCHANGED <<requestVars, armed, linkVars, target, result, historyVars>>

\* spn_client.crawl_resource returns.
CrawlResource ==
  /\ pc = "crawl"
  /\ \E r \in CrawlResults : resource' = r
  /\ pc' = "fetched"
  /\ inHack' = FALSE
  /\ crawls' = crawls + 1
  /\ UNCHANGED <<requestVars, armed, linkVars, target, result, fetched, published>>

\* If it was a crawl that failed, it was attempted all the same.
CrawlAttempt ==
  /\ crawls' = IF pc = "crawl" THEN crawls + 1 ELSE crawls
  /\ UNCHANGED published

\* process_file turns the exceptions of ia.py into statuses.
FetchFails ==
  /\ pc \in {"lookup", "crawl"}
  /\ ~inHack
  /\ \E e \in IF pc = "lookup" THEN LookupError ELSE CrawlError : Answer(e)
  /\ CrawlAttempt
  /\ UNCHANGED <<requestVars, armed, linkVars, fetchVars, fetched>>

\* Any other exception ends the process: a requests error, a failed assert.
FetchRaises ==
  /\ pc \in {"lookup", "crawl"}
  /\ ~inHack
  /\ pc' = "raised"
  /\ CrawlAttempt
  /\ UNCHANGED <<requestVars, armed, linkVars, fetchVars, result, fetched>>

HackGoesOn(url) == /\ target' = url /\ inHack' = TRUE /\ fetched' = CallFor(url)
\* "ARXIV HACK FAILED": carry on with the URL as it was.
LeaveHack(url) == /\ target' = url /\ inHack' = FALSE /\ fetched' = CallFor(url)

\* The except Exception of the hack, for any exception, the request for backoff included.
HackFails ==
  /\ pc \in {"lookup", "crawl"}
  /\ inHack
  /\ LeaveHack(nextUrl)
  /\ resource' = NoResource
  /\ pc' = FindResource
  /\ CrawlAttempt
  /\ UNCHANGED <<requestVars, armed, linkVars, result>>

-----------------------------------------------------------------------------
(* What the hop turned up.                                                 *)

\* assert resource: nothing was tried, so there is nothing.
NoResourceFound ==
  /\ pc = "fetched"
  /\ resource = NoResource
  /\ pc' = "raised"
  /\ UNCHANGED <<requestVars, armed, linkVars, fetchVars, result, historyVars>>

AppendAlways(url) == Append(hops, url)
\* The terminal URL of the redirects counts as a hop.
HopsWith(url) ==
  IF url = NoUrl \/ \E i \in DOMAIN hops : hops[i] = url THEN hops ELSE Append(hops, url)

Terminal(r) == IF r.terminal = NoUrl THEN result.terminal ELSE r.terminal

TerminalBlocked == resource.terminal \in BaseBlocked \cup CookieBlocked

RejectionStatus ==
  IF ~resource.hit THEN resource.status ELSE IF TerminalBlocked THEN "blocked" ELSE "bad-body"

\* Not a hit, a blocked terminal URL, or a body that is empty, too large or not decodable.
RejectResource ==
  /\ pc = "fetched"
  /\ resource # NoResource
  /\ ~resource.hit \/ TerminalBlocked \/ resource.body \in BadBody
  /\ hops' = HopsWith(resource.terminal)
  /\ pc' = "answered"
  /\ result' = [result EXCEPT !.status = RejectionStatus, !.terminal = Terminal(resource)]
  /\ UNCHANGED <<requestVars, armed, nextUrl, fetchVars, historyVars>>

TakeResource ==
  /\ pc = "fetched"
  /\ resource.hit /\ ~TerminalBlocked /\ resource.body \notin BadBody
  /\ hops' = HopsWith(resource.terminal)
  /\ pc' = "parse"
  /\ result' = [result EXCEPT !.terminal = Terminal(resource)]
  /\ UNCHANGED <<requestVars, armed, nextUrl, fetchVars, historyVars>>

HtmlIsh == resource.body \in {"html", "xml"}

\* A landing page for a PDF must have a link; other types may have one.
MustFollow == HtmlIsh /\ ingestType = "pdf"
MayFollow == HtmlIsh /\ ingestType # "src"

Seen(url) == \E i \in DOMAIN hops : hops[i] = url
IsHop(url) == Seen(url)

FollowLink ==
  /\ pc = "parse"
  /\ MayFollow
  /\ \E url \in Urls :
       /\ ~IsHop(url)
       /\ nextUrl' = url
       /\ hops' = Append(hops, url)
  /\ pc' = "hop"
  /\ UNCHANGED <<requestVars, armed, fetchVars, result, historyVars>>

LinkLoop ==
  /\ pc = "parse"
  /\ MayFollow
  /\ ingestType # "html"
  /\ Answer("link-loop")
  /\ UNCHANGED <<requestVars, armed, linkVars, fetchVars, historyVars>>

\* No link: a loginwall, or just none found.
NoPdfLink ==
  /\ pc = "parse"
  /\ MustFollow
  /\ Answer(IF resource.terminal \in WallBlocked THEN "blocked" ELSE "no-pdf-link")
  /\ UNCHANGED <<requestVars, armed, linkVars, fetchVars, historyVars>>

\* "default is to NOT keep hopping": break, then the limit once more.
StopHopping ==
  /\ pc = "parse"
  /\ ~MustFollow
  /\ IF Len(hops) >= MaxHops THEN Answer("max-hops-exceeded")
                             ELSE pc' = "document" /\ UNCHANGED result
  /\ UNCHANGED <<requestVars, armed, linkVars, fetchVars, historyVars>>

-----------------------------------------------------------------------------
(* The document: process_file_hit.                                         *)

AcceptedMimetypes(type) ==
  CASE type = "pdf" -> {"pdf"}
    [] type = "xml" -> {"xml", "jats"}
    [] type = "html" -> {"html"}
    [] type = "src" -> {"gzip"}
    [] type = "component" -> {"png", "pdf", "xml", "gzip"}

NotWalledUnchecked(url) == TRUE
NotWalled(url) == url \notin WallBlocked

Acceptable == NotWalled(resource.terminal) /\ resource.body \in AcceptedMimetypes(ingestType)

\* Which processing a document gets: a PDF component is processed like a PDF.
Processing ==
  IF resource.body = "pdf" THEN "grobid"
  ELSE IF ingestType = "xml" THEN "xmldoc"
  ELSE IF ingestType = "html" THEN "html" ELSE "succeed"

AcceptDocument ==
  /\ pc = "document"
  /\ Acceptable
  /\ result' = [result EXCEPT !.fileMeta = Current]
  /\ pc' = Processing
  /\ UNCHANGED <<requestVars, armed, linkVars, fetchVars, historyVars>>

RejectDocument ==
  /\ pc = "document"
  /\ ~Acceptable
  /\ pc' = "answered"
  /\ result' = [result EXCEPT !.fileMeta = Current, !.status =
                  IF NotWalled(resource.terminal) THEN "wrong-mimetype" ELSE "blocked"]
  /\ UNCHANGED <<requestVars, armed, linkVars, fetchVars, historyVars>>

Publish(kind) == published' = published \cup {<<kind, Current>>}

\* process_grobid: an existing result is used, else GROBID's goes to its sink, error or not.
ProcessGrobid ==
  /\ pc = "grobid"
  /\ pc' = "pdfextract"
  /\ UNCHANGED published \/ Publish("grobid")
  /\ UNCHANGED <<requestVars, armed, linkVars, fetchVars, result, fetched, crawls>>

\* process_pdfextract, likewise; the thumbnail, if there is one, goes out before the text.
PushThumbnail ==
  /\ pc = "pdfextract"
  /\ pc' = "pdftext"
  /\ Publish("thumbnail")
  /\ UNCHANGED <<requestVars, armed, linkVars, fetchVars, result, fetched, crawls>>

ProcessPdfextract ==
  /\ \/ pc = "pdfextract" /\ UNCHANGED published
     \/ pc \in {"pdfextract", "pdftext"} /\ Publish("pdftext")
  /\ pc' = "succeed"
  /\ UNCHANGED <<requestVars, armed, linkVars, fetchVars, result, fetched, crawls>>

\* process_xml: JATS goes to its sink unless it cannot be parsed.
ProcessXml ==
  /\ pc = "xmldoc"
  /\ \/ /\ pc' = "succeed"
        /\ IF resource.body = "jats" THEN Publish("xmldoc") ELSE UNCHANGED published
        /\ UNCHANGED result
     \/ /\ resource.body = "jats"
        /\ Answer("derive-error")
        /\ UNCHANGED published
  /\ UNCHANGED <<requestVars, armed, linkVars, fetchVars, fetched, crawls>>

\* process_html before its sub-resources: wrong scope and the like, or TEI-XML goes out.
ProcessHtml ==
  /\ pc = "html"
  /\ \/ Answer("derive-error") /\ UNCHANGED published
     \/ /\ pc' = "resources"
        /\ UNCHANGED published \/ Publish("teixml")
        /\ UNCHANGED result
  /\ UNCHANGED <<requestVars, armed, linkVars, fetchVars, fetched, crawls>>

\* fetch_html_resources, and the scope once more.
FetchHtmlResources ==
  /\ pc = "resources"
  /\ \/ pc' = "succeed" /\ UNCHANGED result
     \/ Answer("derive-error")
     \/ \E e \in LookupError : Answer(e)
  /\ UNCHANGED <<requestVars, armed, linkVars, fetchVars, historyVars>>

\* postgrest, GROBID or a library raises what nobody catches.
ProcessingRaises ==
  /\ pc \in {"grobid", "pdfextract", "html", "resources"}
  /\ pc' = "raised"
  /\ UNCHANGED <<requestVars, armed, linkVars, fetchVars, result, historyVars>>

Succeed ==
  /\ pc = "succeed"
  /\ pc' = "answered"
  /\ result' = [result EXCEPT !.status = "success", !.hit = TRUE]
  /\ UNCHANGED <<requestVars, armed, linkVars, fetchVars, historyVars>>

-----------------------------------------------------------------------------
(* The alarm of push_record_timeout.                                       *)

\* TimeoutError reaches push_record_timeout: the answer is the timeout response.
TimeOut ==
  /\ armed
  /\ ~Stopped(pc)
  /\ ~inHack
  /\ armed' = FALSE
  /\ pc' = "answered"
  /\ result' = [NoResult EXCEPT !.status = "timeout"]
  /\ UNCHANGED <<requestVars, linkVars, fetchVars, historyVars>>

\* TimeoutError is an Exception too: the arxiv hack takes it for a failed lookup.
TimeOutInHack ==
  /\ armed
  /\ pc \in {"lookup", "crawl"}
  /\ inHack
  /\ armed' = FALSE
  /\ LeaveHack(nextUrl)
  /\ resource' = NoResource
  /\ pc' = FindResource
  /\ CrawlAttempt
  /\ UNCHANGED <<requestVars, linkVars, result>>

\* process_pdf swallows it while it renders the thumbnail, and goes on to the text.  An HTTP
\* session takes it, an OSError, for a broken connection: it tries once more, or raises an
\* exception of its own, which is one of those that the steps above allow for.
TimeOutSwallowed ==
  /\ armed
  /\ pc \in {"lookup", "crawl", "grobid", "pdfextract", "html", "resources"}
  /\ armed' = FALSE
  /\ UNCHANGED <<requestVars, pc, linkVars, fetchVars, result, historyVars>>

-----------------------------------------------------------------------------
\* Steps that wait for no one.
Local ==
  \/ SkipRequest \/ BeginHops \/ TooManyHops \/ SkipHop \/ FetchHop
  \/ NoResourceFound \/ RejectResource \/ TakeResource
  \/ FollowLink \/ LinkLoop \/ NoPdfLink \/ StopHopping
  \/ AcceptDocument \/ RejectDocument \/ ProcessXml \/ PushThumbnail \/ Succeed

\* Steps that wait for a service, or for a library.
Remote ==
  \/ LookupResource \/ CrawlResource \/ FetchFails \/ FetchRaises \/ HackFails
  \/ ProcessGrobid \/ ProcessPdfextract \/ ProcessHtml \/ FetchHtmlResources
  \/ ProcessingRaises

Alarm == TimeOut \/ TimeOutInHack \/ TimeOutSwallowed

Next == Local \/ Remote \/ Alarm

Spec == Init /\ [][Next]_vars

-----------------------------------------------------------------------------
(* Properties.                                                             *)

\* A hit is a document of an accepted type whose URL no blocklist refuses, its file_meta
\* and its terminal describe the same capture, and that capture is one of the hops: nothing
\* of an earlier hop is left in the answer.
HitIsTheDocument ==
  pc = "answered" /\ result.hit =>
    /\ result.status = "success"
    /\ result.fileMeta = Current
    /\ result.terminal = result.fileMeta.url
    /\ result.fileMeta.mimetype \in AcceptedMimetypes(ingestType)
    /\ ~Blocked(result.terminal)
    /\ Seen(result.terminal)

\* The side sinks only get derivatives of the document the request has come to, never of a
\* landing page or of a page behind a wall, even when the request then times out or fails.
PublishedIsOfDocument ==
  \A d \in published :
    /\ d[2] = Current
    /\ ~Blocked(d[2].url)
    /\ d[2].mimetype \in AcceptedMimetypes(ingestType)

\* The list of hops never repeats a URL, and outgrows max_hops by two at most: the terminal
\* URL and the link of the last page fetched.
HopsDistinct ==
  /\ Len(hops) <= MaxHops + 2
  /\ \A i, j \in DOMAIN hops : hops[i] = hops[j] => i = j

\* One request costs at most two calls of find_resource per hop and one Save Page Now crawl
\* per call, and asks for no URL more than twice (as a hop, and for the arxiv hack of
\* another hop), whatever links and redirects the pages contain and wherever the hack fails.
FetchBudget ==
  /\ Len(fetched) <= 2 * MaxHops
  /\ crawls <= Len(fetched)
  /\ \A i, j, k \in DOMAIN fetched :
       fetched[i].url = fetched[j].url /\ fetched[j].url = fetched[k].url
         => i = j \/ j = k \/ i = k

\* The inductive strengthening: a link or a redirect is a new hop while the hop is fetched,
\* a document is only processed when it is acceptable, and nothing is published before that.
Fetching == pc \in {"lookup", "crawl"}
Processes == pc \in {"grobid", "pdfextract", "pdftext", "xmldoc", "html", "resources",
                    "succeed"}
Holds == Processes \/ pc \in {"parse", "document"}

HopsInv ==
  /\ HopsDistinct
  /\ Len(hops) >= 1
  /\ pc = "start" => Len(hops) = 1
  /\ Fetching \/ pc = "fetched" => Len(hops) <= MaxHops
  /\ pc = "parse" => Len(hops) <= MaxHops + 1

CallsOfHops ==
  /\ \A i \in DOMAIN fetched :
       /\ Seen(fetched[i].hop)
       /\ \/ fetched[i].url = fetched[i].hop
          \/ /\ fetched[i].hop \in DOMAIN ArxivStripped
             /\ fetched[i].url = ArxivStripped[fetched[i].hop]
  /\ \A i, j \in DOMAIN fetched : fetched[i] = fetched[j] => i = j

FetchInv ==
  /\ FetchBudget
  /\ CallsOfHops
  /\ Len(fetched) <= 2 * Len(hops)
  /\ pc \in {"start", "hop"} =>
       /\ Seen(nextUrl) /\ Len(fetched) <= 2 * Len(hops) - 2
       /\ \A i \in DOMAIN fetched : fetched[i].hop # nextUrl
  /\ Fetching => Seen(nextUrl) /\ crawls < Len(fetched)
  /\ inHack => /\ Fetching
               /\ Len(fetched) < 2 * Len(hops)
               /\ \A i \in DOMAIN fetched : fetched[i] # [url |-> nextUrl, hop |-> nextUrl]

DocumentInv ==
  /\ HitIsTheDocument
  /\ PublishedIsOfDocument
  /\ published # {} => Processes \/ Stopped(pc)
  /\ result.hit => pc = "answered"
  /\ resource.hit => resource.terminal # NoUrl
  /\ Holds =>
       /\ resource.hit /\ ~TerminalBlocked /\ resource.body \notin BadBody
       /\ result.terminal = resource.terminal /\ Seen(resource.terminal)
  /\ Processes => Acceptable /\ result.fileMeta = Current

\* With services that answer, every request comes to an end, alarm or no alarm: chains of
\* links and redirects cannot keep the worker going.  (If one does not answer, the alarm may
\* end the request, but TimeOutSwallowed may leave it waiting for ever.)
EveryRequestEnds == WF_vars(Local \/ Remote) => <>Stopped(pc)

\* find_resource finds some result, however often the hack fails, when Save Page Now may be
\* used ("assert resource"); without it, force_recrawl leaves nothing to try.
ResourceFound == pc = "fetched" /\ resource = NoResource => ~trySpn2 /\ (forceRecrawl \/ ~TryWayback)

IInv == TypeOK /\ HopsInv /\ FetchInv /\ DocumentInv /\ ResourceFound
=============================================================================
