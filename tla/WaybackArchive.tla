--------------------------- MODULE WaybackArchive ---------------------------
(***************************************************************************)
(* The CDX index of wayback as CdxApiClient (ia.py) queries it, and the    *)
(* preference order of lookup_best.                                        *)
(*                                                                         *)
(* A row describes one capture.  Its digest stands for the content of the  *)
(* capture, its mimetype for the one the crawler declared.  A revisit has  *)
(* no content of its own but refers to an earlier capture.                 *)
(***************************************************************************)
EXTENDS Integers, FiniteSets, ResourceResults

CONSTANTS
  SurtOf,     \* [Urls -> the key under which the index holds a URL]
  FuzzyOf,    \* [Urls -> the URL up to what fuzzy_match_url ignores]
  Digests,
  KindOf,     \* [Digests -> mimetype of the content, or why it is of no use]
  Rows,       \* the captures there may be
  RowLimit,   \* limit=40
  Paths,      \* relative Locations
  Join        \* urljoin, [Urls \X Paths -> Urls]

\* What the status of a row without one counts as when rows are sorted.
NoStatus == 999
Good == {200, 226}
Redirect == 300 .. 399

CdxRow ==
  [url : Urls, dt : Nat, status : Nat, mimetype : Mimetype \cup {"warc/revisit"},
   digest : Digests, usable : BOOLEAN, location : Urls \cup Paths \cup {NoUrl},
   refersUrl : Urls, refersDt : Nat]

ASSUME ArchiveAssumption ==
  /\ NoUrl \notin Urls
  /\ DOMAIN SurtOf = Urls /\ DOMAIN FuzzyOf = Urls
  /\ KindOf \in [Digests -> Mimetype \cup BadBody]
  /\ Rows \subseteq CdxRow
  /\ RowLimit \in Nat \ {0}
  /\ Paths \cap (Urls \cup {NoUrl}) = {}
  /\ Join \in [Urls \X Paths -> Urls]

IsRevisit(r) == r.mimetype = "warc/revisit"
Year(dt) == dt \div 10

Matching(index, url) == {r \in index : SurtOf[r.url] = SurtOf[url]}

Distance(dt, closest) == IF closest = 0 THEN dt
                         ELSE IF dt >= closest THEN dt - closest ELSE closest - dt

\* The API sends the first rows by date, or the closest ones; rows without a WARC record,
\* with another kind of digest or none are dropped from what it sent.
QueryApi(index, url, closest) ==
  LET rows == Matching(index, url)
      before(s, r) == Distance(s.dt, closest) < Distance(r.dt, closest)
  IN  {r \in rows : r.usable /\ Cardinality({s \in rows : before(s, r)}) < RowLimit}

\* Without sorting by status first, the most recent row would do.
NewerOnly(r, s, url, best, closest, uploaded) == r.dt > s.dt

Bit(b) == IF b THEN 1 ELSE 0

SortKey(r, url, best, closest, uploaded) ==
  << Bit(r.url = url), Bit(r.status \in Good), 0 - r.status, Bit(r.mimetype = best),
     Bit(~IsRevisit(r)), Bit(Year(r.dt) = Year(closest)), r.dt, Bit(r \in uploaded) >>

Above(r, s, url, best, closest, uploaded) ==
  LET k == SortKey(r, url, best, closest, uploaded)
      l == SortKey(s, url, best, closest, uploaded)
  IN  \E i \in 1 .. 8 : k[i] > l[i] /\ \A j \in 1 .. i - 1 : k[j] = l[j]

\* The rows lookup_best may settle on, of those the API has sent.
BestOf(shown, url, best, closest, uploaded) ==
  {r \in shown : \A s \in shown : ~Above(s, r, url, best, closest, uploaded)}

\* CdxApiClient.fetch: the API sends one row of that second (limit=1), which must be of the
\* URL up to http or https.
FetchRows(index, url, dt, status) ==
  {r \in Matching(index, url) : r.usable /\ r.dt = dt /\ status \in {NoStatus, r.status}}

FuzzyMatch(r, url) == FuzzyOf[r.url] = FuzzyOf[url]

\* Where a Location leads when it is resolved against a URL.
Target(base, location) == IF location \in Paths THEN Join[base, location] ELSE location

\* The captures that may be served as the content of a row: the record of the row; for a
\* revisit, a document of the URL and the second that it refers to; by replay, whatever was
\* captured of the URL in that second.  Nothing compares digests.
SameSecond(r) == {s \in Rows : SurtOf[s.url] = SurtOf[r.url] /\ s.dt = r.dt}
Referred(r) ==
  {s \in FetchRows(Rows, r.refersUrl, r.refersDt, NoStatus) :
     FuzzyMatch(s, r.refersUrl) /\ s.status \in Good /\ ~IsRevisit(s)}
Contents(r, direct) ==
  IF ~direct THEN SameSecond(r) ELSE IF IsRevisit(r) THEN Referred(r) ELSE {r}
=============================================================================
