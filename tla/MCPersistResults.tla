-------------------------- MODULE MCPersistResults --------------------------
\* Instances of PersistResults for TLC: a paper that fails, is then found in petabox and
\* liveweb, or existed already; an HTML page; a dataset.
EXTENDS PersistResults, TLC

CONSTANTS p1, p2, paper, page, sha1a, sha1b, doi, spn

MCPartitions == {p1, p2}

Req(type, url, link, implied) ==
  [type |-> type, url |-> url, link |-> link, implied |-> implied, long |-> FALSE]
Result(request, hit, status, file) ==
  [request |-> request, hit |-> hit, status |-> status, terminal |-> "url", cdx |-> {},
   file |-> file, html |-> FALSE, platform |-> FALSE]

Petabox(dt) == [key |-> dt, warc |-> TRUE]
Liveweb(dt) == [key |-> dt, warc |-> FALSE]

PaperRequest == Req("pdf", paper, doi, NoLink)
Found == [Result(PaperRequest, TRUE, "success", sha1a) EXCEPT !.cdx = {Petabox(1), Liveweb(2)}]
Missed == [Result(Req("file", paper, NoLink, doi), FALSE, "failure", NoFile) EXCEPT !.terminal = "none"]
Existed == Result(PaperRequest, TRUE, "existing", sha1a)
Page == [Result(Req("html", page, spn, NoLink), TRUE, "success", sha1b) EXCEPT
           !.cdx = {Liveweb(2)}, !.html = TRUE]
Dataset == [Result(Req("dataset", page, doi, NoLink), FALSE, "failure", NoFile) EXCEPT
              !.platform = TRUE]

MCResults == {Found, Missed, Page}
MCDatasets == {Existed, Dataset}
MCRequests == {PaperRequest, [PaperRequest EXCEPT !.long = TRUE]}
MCImport == {Petabox(1), Liveweb(2)}
MCNone == {}
=============================================================================
