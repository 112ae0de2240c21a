-------------------------- MODULE FilesetPlatforms --------------------------
(***************************************************************************)
(* The platform helpers of fileset_platforms.py: which platform a URL is   *)
(* of, what a helper makes of the answer of the platform's API, and the    *)
(* strategy it chooses for a manifest (fileset_types.py).                  *)
(*                                                                         *)
(* A URL is what the helpers look at: [domain, path, pid].  A path is the  *)
(* kind of path it is; a pid, the persistentId of dataverse, is its type   *)
(* and for each part after the authority whether it has six characters.    *)
(***************************************************************************)
EXTENDS Integers, Sequences, SequencesExt

CONSTANTS
  FileLimit,      \* 64 MiB
  WebLimit        \* 128 GiB

Platforms == {"dataverse", "figshare", "zenodo", "archiveorg"}
PathKind == {"id-version", "id", "record", "record-name", "details", "details-file", "other"}
NoPid == [type |-> "none", six |-> <<>>]

\* A file of a manifest: sum stands for its bytes, checksum is the kind of digest that the
\* platform tells, safe whether sanitize_fs_path leaves the path as it is.
ManifestFile ==
  [path : STRING, url : STRING, size : Nat, sum : STRING,
   checksum : {"md5", "sha1", "other"}, safe : BOOLEAN]

\* parse_dataverse_persistentid: what it identifies.
ParsePid(pid) ==
  LET parts == Len(pid.six)
      shoulder == IF parts > 0 /\ ~pid.six[1] THEN 1 ELSE 0
      wellFormed == /\ pid.type \in {"doi", "hdl"}
                    /\ parts - shoulder \in {1, 2}
                    /\ \A i \in shoulder + 1 .. parts : pid.six[i]
  IN  IF ~wellFormed THEN "error" ELSE IF parts - shoulder = 1 THEN "dataset" ELSE "file"

\* match_request of the four helpers.
MatchesDataverse(url) == ParsePid(url.pid) # "error"
MatchesFigshare(url) == url.domain = "figshare" /\ url.path = "id-version"
MatchesZenodo(url) == url.domain = "zenodo" /\ url.path \in {"record", "record-name"}
MatchesArchiveOrg(url) == url.domain = "archiveorg" /\ url.path \in {"details", "details-file"}

Matches(platform, url) ==
  \/ platform = "dataverse" /\ MatchesDataverse(url)
  \/ platform = "figshare" /\ MatchesFigshare(url)
  \/ platform = "zenodo" /\ MatchesZenodo(url)
  \/ platform = "archiveorg" /\ MatchesArchiveOrg(url)

Helpers == <<"dataverse", "figshare", "zenodo", "archiveorg">>

\* The first helper in the order of the dict, or "none".
PlatformOf(url) ==
  LET I == {i \in DOMAIN Helpers : Matches(Helpers[i], url)}
  IN  IF I = {} THEN "none" ELSE Helpers[CHOOSE i \in I : \A j \in I : i <= j]

\* What the API of a platform may say of a dataset, and the status process() gives to what a
\* helper raises for it; "exception" is what it does not catch (KeyError, AssertionError).
ApiStatus ==
  [record |-> "item", unexpected |-> "exception", unreachable |-> "platform-error",
   notFound |-> "platform-404", httpError |-> "platform-http-error",
   noVersion |-> "platform-scope", linkOnly |-> "platform-scope",
   workLevel |-> "platform-scope",
   private |-> "platform-restricted", deleted |-> "platform-restricted"]
AnyApi == {"record", "unexpected", "unreachable", "notFound", "httpError"}

\* process_request of the helpers: what may come of a URL.
DataverseRequest(url) ==
  IF ParsePid(url.pid) = "file" THEN {"platform-scope"}
  ELSE {ApiStatus[api] : api \in AnyApi \cup {"noVersion"}}

FigshareRequest(url) == {ApiStatus[api] : api \in AnyApi \cup {"private", "linkOnly"}}

ZenodoRequest(url) ==
  IF url.path = "record-name" THEN {"exception"}   \* assert platform_id.isdigit()
  ELSE {ApiStatus[api] : api \in AnyApi \cup {"private", "deleted", "workLevel"}}

\* Looks at the base URL of the request, not at the terminal one.
ArchiveOrgRequest(baseUrl) ==
  CASE ~MatchesArchiveOrg(baseUrl) -> {"exception"}
    [] baseUrl.path = "details-file" -> {"platform-scope"}
    [] OTHER -> {ApiStatus[api] : api \in AnyApi}

ProcessRequest(platform, url, baseUrl) ==
  CASE platform = "dataverse"  -> DataverseRequest(url)
    [] platform = "figshare"   -> FigshareRequest(url)
    [] platform = "zenodo"     -> ZenodoRequest(url)
    [] platform = "archiveorg" -> ArchiveOrgRequest(baseUrl)

\* The digest that the helper puts into the manifest: zenodo cuts a sha1 at the wrong place
\* (IndexError), and keeps nothing of another kind.
Digest(platform, file) ==
  IF platform # "zenodo" THEN "md5"
  ELSE CASE file.checksum = "md5" -> "md5" [] file.checksum = "sha1" -> "exception"
         [] OTHER -> "none"

TotalSize(manifest) == FoldLeft(LAMBDA sum, f : sum + f.size, 0, manifest)

ArchiveOrg == {"archiveorg-file", "archiveorg-fileset"}

\* chose_strategy.
ChoseStrategy(platform, manifest) ==
  LET web == /\ platform # "archiveorg"
             /\ \A i \in DOMAIN manifest : manifest[i].size < FileLimit
             /\ Len(manifest) > 1 => TotalSize(manifest) < WebLimit
  IN  IF Len(manifest) = 1
      THEN IF web THEN "web-file" ELSE "archiveorg-file"
      ELSE IF web THEN "web-fileset" ELSE "archiveorg-fileset"
=============================================================================
