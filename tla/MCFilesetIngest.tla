--------------------------- MODULE MCFilesetIngest ---------------------------
\* An instance of FilesetIngest for TLC.  Sizes: a small file 1, a big one 4, the limit of
\* web-file and web-fileset 3, the limit of a dataset 9, and of its files 3.
EXTENDS FilesetIngest

Url(domain, path, pid) == [domain |-> domain, path |-> path, pid |-> pid]
Dataverse(type, six) == Url("dataverse", "other", [type |-> type, six |-> six])

Zenodo == Url("zenodo", "record", NoPid)
ArchiveOrgItem == Url("archiveorg", "details", NoPid)
MCBaseUrls == {Zenodo, ArchiveOrgItem, Url("localhost", "other", NoPid)}
MCTerminalUrls ==
  { Zenodo, ArchiveOrgItem, Url("zenodo", "record-name", NoPid),
    Dataverse("doi", <<FALSE, TRUE>>), Dataverse("hdl", <<TRUE, TRUE>>),
    Url("figshare", "id", NoPid) }
MCBlocked == {ArchiveOrgItem, Url("localhost", "other", NoPid)}

Content(size, sum) == [size |-> size, sum |-> sum]
MCContents == {Content(4, "data"), Content(4, "other"), Content(1, "text"), Content(0, "empty")}

File(path, url, size, sum) ==
  [path |-> path, url |-> url, size |-> size, sum |-> sum, checksum |-> "md5", safe |-> TRUE]
Data == File("data", "u1", 4, "data")
Revised == File("data", "u1", 4, "other")
Text == File("text", "u2", 1, "text")
Readme == File("readme", "u1", 1, "text")
Blank == File("readme", "u1", 0, "empty")

MCRecords ==
  { <<>>, <<Data, Text>>, <<Revised, Text>>, <<Text>>, <<Blank, Text>>,
    <<Readme, Text, [Text EXCEPT !.path = "data"]>>,
    <<[Data EXCEPT !.checksum = "other"], Text>>, <<[Text EXCEPT !.checksum = "sha1"]>>,
    <<[Data EXCEPT !.safe = FALSE], [Text EXCEPT !.safe = FALSE]>>, <<Data, Data>>,
    <<[Data EXCEPT !.path = "name"], Text>>, <<Data>>, <<Data, Revised, Data>>, <<Text, Text, Text, Text>> }
MCPaths == {"data", "text", "readme", "name"}
MCFileUrls == {"u1", "u2"}
MCOldItems ==
  { [p \in MCPaths |-> Nothing],
    [p \in MCPaths |-> CASE p = "data" -> Content(4, "data") [] p = "text" -> Content(1, "text")
                         [] OTHER -> Nothing] }
MCOldCaptures ==
  { [u \in MCFileUrls |-> IF u = "u1" THEN first ELSE second] :
    first \in {Nothing, Content(4, "other"), Content(0, "empty")},
    second \in {Nothing, Content(1, "text")} }
MCFailures == {"cdx-error", "terminal-bad-status"}
=============================================================================
