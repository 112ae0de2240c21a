---------------------------- MODULE FilesetIngest ----------------------------
(***************************************************************************)
(* IngestFilesetWorker.process (ingest_fileset.py) with the strategies of  *)
(* fileset_strategies.py: a request for a dataset is resolved to a         *)
(* platform, its manifest is asked for and archived file by file, into an  *)
(* archive.org item or into the Wayback Machine.                           *)
(*                                                                         *)
(* One process works on requests for one dataset again and again.  The     *)
(* working directory, the item and the captures outlive requests, crashes  *)
(* and the record itself, whose files the platform may change meanwhile.   *)
(* What is behind a URL is any content: a download may be cut short or be  *)
(* something else than the platform promises.                              *)
(***************************************************************************)
EXTENDS FilesetPlatforms, FiniteSets

CONSTANTS
  BaseUrls, TerminalUrls,  \* of requests, and of where they lead
  BlockedUrls,    \* those with a pattern of base_url_blocklist, archive.org included
  Records,        \* the lists of files that the API may tell
  Paths, FileUrls,
  Contents,       \* what may be behind the URL of a file: [size, sum]
  OldItems, OldCaptures,   \* what other machines and crawls may have archived before
  Failures,       \* the failures of the clients to try
  MaxTotalSize,   \* max_total_size
  MaxFileCount,   \* max_file_count
  MaxSpnManifest, \* max_spn_manifest
  MaxRequests     \* bound

Nothing == [size |-> 0, sum |-> "none"]

ASSUME FilesetAssumption ==
  /\ \A u \in BaseUrls \cup TerminalUrls : u.path \in PathKind
  /\ Records \subseteq Seq(ManifestFile)
  /\ \A r \in Records : \A i \in DOMAIN r : r[i].path \in Paths /\ r[i].url \in FileUrls
  /\ Nothing \notin Contents
  /\ OldItems \subseteq [Paths -> Contents \cup {Nothing}]
  /\ OldCaptures \subseteq [FileUrls -> Contents \cup {Nothing}]
  /\ MaxRequests \in Nat

VARIABLES
  local,     \* local_dir of the working directory
  item,      \* the archive.org item
  captures,  \* what the Wayback Machine has behind each URL
  trySpn2,   \* try_spn2, an option of the process

  pc, requests,
  baseUrl, terminal,
  platform, manifest, digests, strategy,
  next,      \* the file of the loop over the manifest
  found,     \* the status of each file
  status     \* status of the result

stores == <<local, item, captures, trySpn2>>
dataset == <<platform, manifest, digests, strategy>>
request == <<requests, baseUrl, terminal>>
vars == <<stores, pc, request, dataset, next, found, status>>

NoStatus == ""

LandingFailure ==
  {"spn2-error", "petabox-error", "cdx-error", "wayback-error", "wayback-content-error",
   "no-capture", "blocked-cookie", "empty-blob", "body-too-large", "bad-gzip-encoding"}
FetchError == {"spn2-error", "petabox-error", "cdx-error", "wayback-error",
               "wayback-content-error"}
FetchMiss == {"terminal-bad-status", "transfer-encoding-error"}

Success == {"success", "success-file", "success-existing"}
hit == status \in Success

\* Does a content have the size and the digests of file i of the manifest?
SizeMatches(content, i) == content # Nothing /\ content.size = manifest[i].size
DigestMatches(content, i) == digests[i] # "none" => content.sum = manifest[i].sum
Matching(content, i) == SizeMatches(content, i) /\ DigestMatches(content, i)

PC == {"idle", "landing", "platform", "api", "existing", "download", "upload", "web", "dead"}

Init ==
  /\ local = [p \in Paths |-> Nothing]
  /\ item \in OldItems /\ captures \in OldCaptures
  /\ trySpn2 \in BOOLEAN /\ pc = "idle" /\ requests = 0
  /\ baseUrl = [domain |-> "", path |-> "other", pid |-> NoPid] /\ terminal = baseUrl
  /\ platform = "none" /\ manifest = <<>> /\ digests = <<>> /\ strategy = "none"
  /\ next = 0 /\ found = <<>> /\ status = NoStatus

\* The result: what ends a request, and what ends the process.
Finish(s) == pc' = "idle" /\ status' = s
Raise == pc' = "dead" /\ status' = "exception"

Request ==
  /\ pc = "idle" /\ requests < MaxRequests
  /\ requests' = requests + 1
  /\ baseUrl' \in BaseUrls /\ terminal' = baseUrl'
  /\ pc' = "landing" /\ status' = NoStatus
  /\ platform' = "none" /\ manifest' = <<>> /\ digests' = <<>> /\ strategy' = "none"
  /\ next' = 0 /\ found' = <<>>
  /\ UNCHANGED stores

\* fetch_resource_iteratively.  The first test of the blocklist lets archive.org pass, but
\* find_resource of the file worker refuses its URLs.
SkipRequest ==
  /\ pc = "landing" /\ baseUrl \in BlockedUrls
  /\ Finish(IF baseUrl.domain = "archiveorg" THEN "not-implemented" ELSE "skip-url-blocklist")
  /\ UNCHANGED <<stores, request, dataset, next, found>>

\* No landing page; SavePageNowBackoffError and failed assertions are not caught.
LandingFails ==
  /\ pc = "landing" /\ baseUrl \notin BlockedUrls
  /\ Raise \/ \E s \in Failures \cap LandingFailure : Finish(s)
  /\ UNCHANGED <<stores, request, dataset, next, found>>

\* Without Save Page Now, no capture means no resource, and the base URL stands for it.
LandingPage ==
  /\ pc = "landing" /\ baseUrl \notin BlockedUrls
  /\ terminal' \in TerminalUrls \cup (IF trySpn2 THEN {} ELSE {baseUrl})
  /\ IF terminal' \in BlockedUrls THEN Finish("skip-url-blocklist")
     ELSE pc' = "platform" /\ UNCHANGED status
  /\ UNCHANGED <<stores, requests, baseUrl, dataset, next, found>>

FindPlatform ==
  /\ pc = "platform"
  /\ platform' = PlatformOf(terminal)
  /\ IF platform' = "none" THEN Finish("no-platform-match")
     ELSE pc' = "api" /\ UNCHANGED status
  /\ UNCHANGED <<stores, request, manifest, digests, strategy, next, found>>

\* process_request of the helper does not give a manifest.
NoManifest ==
  /\ pc = "api"
  /\ \E s \in ProcessRequest(platform, terminal, baseUrl) \ {"item"} :
       IF s = "exception" THEN Raise ELSE Finish(s)
  /\ UNCHANGED <<stores, request, dataset, next, found>>

\* A manifest: the limits of process(), then the strategy.
TakeManifest ==
  /\ pc = "api" /\ "item" \in ProcessRequest(platform, terminal, baseUrl)
  /\ manifest' \in Records
  /\ digests' = [i \in DOMAIN manifest' |-> Digest(platform, manifest'[i])]
  /\ IF "exception" \in {digests'[i] : i \in DOMAIN digests'} THEN Raise /\ UNCHANGED strategy
     ELSE IF manifest' = <<>> THEN Finish("empty-manifest") /\ UNCHANGED strategy
     ELSE IF TotalSize(manifest') > MaxTotalSize THEN Finish("too-large-size") /\ UNCHANGED strategy
     ELSE IF Len(manifest') > MaxFileCount THEN Finish("too-many-files") /\ UNCHANGED strategy
     ELSE /\ strategy' = ChoseStrategy(platform, manifest')
          /\ pc' = IF strategy' \in ArchiveOrg THEN "existing" ELSE "web"
          /\ UNCHANGED status
  /\ next' = 1
  /\ UNCHANGED <<stores, request, platform, found>>

\* Mutant: all digests of the item have to be those of the manifest, which never has a sha1.
ExistsByAll(i) ==
  /\ SizeMatches(item[manifest[i].path], i)
  /\ digests[i] \notin {"md5", "none"} /\ item[manifest[i].path].sum = manifest[i].sum

\* ArchiveorgFilesetStrategy.check_existing: one digest in common is enough, but one it must be.
Exists(i) ==
  LET existing == item[manifest[i].path]
  IN  SizeMatches(existing, i) /\ digests[i] # "none" /\ existing.sum = manifest[i].sum

CheckExisting ==
  /\ pc = "existing"
  /\ IF \A i \in DOMAIN manifest : Exists(i) THEN Finish("success-existing")
     ELSE IF platform = "archiveorg" THEN Raise   \* nothing there is downloaded
     ELSE pc' = "download" /\ UNCHANGED status
  /\ UNCHANGED <<stores, request, dataset, next, found>>

\* Mutant: only the size of a downloaded file is compared.
VerdictBySize(content, i) ==
  IF content.size # manifest[i].size THEN "mismatch-size" ELSE "verified-local"

\* Verification of a local file: where there is a digest to compare, it is an md5.
Verdict(content, i) ==
  IF content.size # manifest[i].size THEN "mismatch-size"
  ELSE IF ~DigestMatches(content, i) THEN "mismatch-md5"
  ELSE "verified-local"

\* Mutant: the status of the last file counts.
LastOf(statuses, good) == statuses[Len(statuses)]

FirstOf(statuses, good) ==
  LET I == {i \in DOMAIN statuses : statuses[i] # good}
  IN  IF I = {} THEN good ELSE statuses[CHOOSE i \in I : \A j \in I : i <= j]

\* Mutant: the loop ends one file late.
AfterDownloadLate ==
  IF Len(found') <= Len(manifest) THEN next' = next + 1 /\ UNCHANGED <<pc, status>>
  ELSE next' = 1 /\ Finish(FirstOf(found', "verified-local"))

\* The end of the loop: bail out, or go on to the upload, which refuses the path "name" and
\* paths that are repeated.
AfterDownload ==
  IF Len(found') < Len(manifest) THEN next' = next + 1 /\ UNCHANGED <<pc, status>>
  ELSE /\ next' = 1
       /\ IF FirstOf(found', "verified-local") # "verified-local"
          THEN Finish(FirstOf(found', "verified-local"))
          ELSE IF \/ \E i \in DOMAIN manifest : manifest[i].path = "name"
                  \/ Cardinality({manifest[i].path : i \in DOMAIN manifest}) # Len(manifest)
          THEN Raise
          ELSE pc' = "upload" /\ UNCHANGED status

UnsafePath ==
  /\ pc = "download" /\ ~manifest[next].safe
  /\ found' = Append(found, "unsafe-path")
  /\ AfterDownload
  /\ UNCHANGED <<stores, request, dataset>>

\* A file that is there, from whatever request, is verified and never downloaded again.
VerifyLocal ==
  /\ pc = "download" /\ manifest[next].safe
  /\ LET path == manifest[next].path
     IN  /\ local[path] # Nothing
         /\ found' = Append(found, Verdict(local[path], next))
         /\ AfterDownload
  /\ UNCHANGED <<stores, request, dataset>>

\* Written to .partial and renamed when the body ends, where it should or not.
Download ==
  /\ pc = "download" /\ manifest[next].safe
  /\ LET path == manifest[next].path
     IN  /\ local[path] = Nothing
         /\ \E content \in Contents :
              /\ local' = [local EXCEPT ![path] = content]
              /\ found' = Append(found, Verdict(content, next))
         /\ AfterDownload
  /\ UNCHANGED <<item, captures, trySpn2, request, dataset>>

DownloadFails ==
  /\ pc = "download" /\ manifest[next].safe /\ local[manifest[next].path] = Nothing
  /\ Finish("error-platform-download")
  /\ UNCHANGED <<stores, request, dataset, next, found>>

\* internetarchive.upload puts file by file what the working directory has now.
Upload ==
  /\ pc = "upload"
  /\ LET path == manifest[next].path IN item' = [item EXCEPT ![path] = local[path]]
  /\ IF next < Len(manifest) THEN next' = next + 1 /\ UNCHANGED <<pc, status>>
     ELSE /\ Finish(IF strategy = "archiveorg-file" THEN "success-file" ELSE "success")
          /\ UNCHANGED next
  /\ UNCHANGED <<local, captures, trySpn2, request, dataset, found>>

\* Mutant: a failed upload starts over.
UploadStartsOver ==
  /\ pc = "upload"
  /\ next' = 1
  /\ UNCHANGED <<stores, request, dataset, pc, found, status>>

UploadFails ==
  /\ pc = "upload"
  /\ Finish("error-archiveorg-upload")
  /\ UNCHANGED <<stores, request, dataset, next, found>>

\* WebFilesetStrategy.process, the check of a fetched file.
WebVerdict(content, i) ==
  IF content.size = 0 THEN "empty-blob" ELSE IF Matching(content, i) THEN "success"
  ELSE "mismatch"

WebFile(s) ==
  /\ found' = Append(found, s)
  /\ IF Len(found') < Len(manifest) THEN next' = next + 1 /\ UNCHANGED <<pc, status>>
     ELSE /\ LET overall == FirstOf(found', "success")
             IN  Finish(IF overall = "success" /\ strategy = "web-file" THEN "success-file"
                        ELSE overall)
          /\ UNCHANGED next

\* A single file goes through process_file_hit of the file worker, which may raise.
WebContent(content) ==
  \/ WebFile(WebVerdict(content, next))
  \/ /\ strategy = "web-file" /\ WebVerdict(content, next) = "success"
     /\ Raise /\ UNCHANGED <<next, found>>

\* lookup_resource and crawl_resource: a miss, an error, an exception that is not caught.
WebMiss ==
  /\ pc = "web"
  /\ \E s \in Failures \cap FetchMiss : WebFile(s)
  /\ UNCHANGED <<stores, request, dataset>>

WebError ==
  /\ pc = "web"
  /\ Raise \/ \E s \in Failures \cap FetchError : Finish(s)
  /\ UNCHANGED <<stores, request, dataset, next, found>>

WebCaptured ==
  /\ pc = "web"
  /\ LET capture == captures[manifest[next].url]
     IN  capture # Nothing /\ WebContent(capture)
  /\ UNCHANGED <<stores, request, dataset>>

WebNotCaptured ==
  /\ pc = "web" /\ captures[manifest[next].url] = Nothing
  /\ \/ ~trySpn2 /\ WebFile("no-capture")
     \/ trySpn2 /\ Len(manifest) > MaxSpnManifest /\ WebFile("too-much-spn")
  /\ UNCHANGED <<stores, request, dataset>>

WebCrawl ==
  /\ pc = "web" /\ trySpn2 /\ Len(manifest) <= MaxSpnManifest
  /\ LET url == manifest[next].url
     IN  /\ captures[url] = Nothing
         /\ \E content \in Contents : /\ captures' = [captures EXCEPT ![url] = content]
                                      /\ WebContent(content)
  /\ UNCHANGED <<local, item, trySpn2, request, dataset>>

\* The process ends anywhere; whoever runs it starts it again with the requests that are left.
Crash ==
  /\ pc \notin {"idle", "dead"}
  /\ pc' = "dead" /\ status' = "exception"
  /\ UNCHANGED <<stores, request, dataset, next, found>>

Restart ==
  /\ pc = "dead"
  /\ pc' = "idle"
  /\ UNCHANGED <<stores, request, dataset, next, found, status>>

Process ==
  \/ SkipRequest \/ LandingFails \/ LandingPage \/ FindPlatform \/ NoManifest \/ TakeManifest
  \/ CheckExisting \/ UnsafePath \/ VerifyLocal \/ Download \/ DownloadFails \/ Upload
  \/ UploadFails \/ WebMiss \/ WebError \/ WebCaptured \/ WebNotCaptured \/ WebCrawl
Next == Request \/ Process \/ Crash \/ Restart
Spec == Init /\ [][Next]_vars

\* Each call of a service is assumed to end, if only with an error: the platform APIs and the
\* downloads have timeouts (of 60 s, and of 2 h without a byte); for the Wayback Machine, Save
\* Page Now and the items of archive.org the code sets none.
FairSpec == Spec /\ WF_vars(Process)

-----------------------------------------------------------------------------
Status ==
  Success \cup LandingFailure \cup FetchError \cup FetchMiss \cup
  {NoStatus, "exception", "not-implemented", "skip-url-blocklist", "no-platform-match",
   "platform-404", "platform-http-error", "platform-error", "platform-scope",
   "platform-restricted", "empty-manifest", "too-large-size", "too-many-files",
   "mismatch-size", "mismatch-md5", "unsafe-path", "error-platform-download",
   "error-archiveorg-upload", "mismatch", "too-much-spn"}
FileStatus == {"unsafe-path", "mismatch-size", "mismatch-md5", "verified-local", "empty-blob",
               "success", "mismatch", "no-capture", "too-much-spn"} \cup FetchMiss

\* Each variable has its values; the loop over the manifest stays within it, and a success is
\* only claimed for a request that came to a strategy.
TypeOK ==
  /\ local \in [Paths -> Contents \cup {Nothing}] /\ item \in [Paths -> Contents \cup {Nothing}]
  /\ captures \in [FileUrls -> Contents \cup {Nothing}]
  /\ trySpn2 \in BOOLEAN /\ pc \in PC /\ requests \in 0 .. MaxRequests
  /\ platform \in Platforms \cup {"none"}
  /\ manifest \in Records \cup {<<>>} /\ DOMAIN digests = DOMAIN manifest
  /\ found \in Seq(FileStatus) /\ Len(found) <= Len(manifest)
  /\ pc \in {"download", "upload", "web"} => next \in DOMAIN manifest
  /\ status \in Status
  /\ hit => strategy # "none"

\* A dataset that is reported as archived has all its files in the item or in the Wayback
\* Machine, each of the size and with the digest that this request's manifest tells, whatever
\* earlier requests, crashes and interrupted transfers left behind.
SuccessIsArchived ==
  hit => \A i \in DOMAIN manifest :
           Matching(IF strategy \in ArchiveOrg THEN item[manifest[i].path]
                    ELSE captures[manifest[i].url], i)

\* Their inductive strengthening.  What holds of a request while the process is at work on it ...
LoopInv ==
  /\ pc \notin {"idle", "dead"} => status = NoStatus
  /\ pc = "api" => platform \in Platforms
  /\ \A i \in DOMAIN digests : digests[i] \in {"md5", "none", "exception"}
  /\ pc \in {"existing", "download", "upload"} => strategy \in ArchiveOrg
  /\ pc = "web" => strategy \in {"web-file", "web-fileset"}
  /\ pc \in {"landing", "platform", "api", "existing"} => found = <<>>
  /\ pc = "existing" => next = 1 /\ manifest # <<>>
  /\ pc \in {"download", "web"} => Len(found) = next - 1

\* ... what the verdicts so far say of the files in the working directory, some of which the
\* item does not have ...
DownloadInv == pc = "download" =>
  /\ \E i \in DOMAIN manifest : ~Exists(i)
  /\ \A i \in DOMAIN found :
       /\ found[i] \in {"unsafe-path", "mismatch-size", "mismatch-md5", "verified-local"}
       /\ found[i] = "verified-local" => Matching(local[manifest[i].path], i)

\* ... that all of them are verified before the first is uploaded, and the item has them one
\* after the other ...
UploadInv == pc = "upload" =>
  \A i \in DOMAIN manifest :
    /\ Matching(local[manifest[i].path], i)
    /\ i < next => item[manifest[i].path] = local[manifest[i].path]

\* ... and what a fetched file says of its capture.
WebInv == pc = "web" =>
  \A i \in DOMAIN found :
    /\ found[i] # "verified-local"
    /\ found[i] = "success" => Matching(captures[manifest[i].url], i)

IInv == TypeOK /\ LoopInv /\ DownloadInv /\ UploadInv /\ WebInv /\ SuccessIsArchived

\* What is put into the item was compared with the manifest of the request: nothing that a cut
\* download or an earlier state of the record left in the working directory is uploaded.
UploadsAreVerified ==
  [][\A p \in Paths : item'[p] # item[p] =>
       \E i \in DOMAIN manifest : manifest[i].path = p /\ Matching(item'[p], i)]_vars

\* Nothing is downloaded for a manifest that the item has already, as far as there are digests.
NoNeedlessDownload ==
  [][local' # local =>
       \E i \in DOMAIN manifest :
         digests[i] = "none" \/ ~Matching(item[manifest[i].path], i)]_vars

\* A request ends, whatever the services do: the loops over the manifest make progress.
RequestEnds == pc # "idle" ~> pc \in {"idle", "dead"}
=============================================================================
