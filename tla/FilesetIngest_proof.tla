------------------------ MODULE FilesetIngest_proof ------------------------
(***************************************************************************)
(* For every set of records, of contents that may be behind a URL and of   *)
(* states in which earlier requests and crashes left the working           *)
(* directory, the item and the captures: a dataset that is reported as     *)
(* archived is archived as its manifest says (SuccessIsArchived), only     *)
(* verified files are uploaded (UploadsAreVerified), and what the item has *)
(* is not downloaded (NoNeedlessDownload).                                 *)
(***************************************************************************)
EXTENDS FilesetIngest, SequenceTheorems, NaturalsInduction, WellFoundedInduction, TLAPS

-----------------------------------------------------------------------------
(* Manifests, platforms and verdicts.                                      *)

LEMMA LeastExists ==
  ASSUME NEW S \in SUBSET Nat, S # {}
  PROVE  \E m \in S : \A i \in S : m <= i
<1>1. S \subseteq Nat
  OBVIOUS
<1>2. PICK m \in S : \A i \in S : ~(<<i, m>> \in OpToRel(<, Nat))
  BY <1>1, NatLessThanWellFounded, WFMin
<1>3. \A i \in S : ~(i < m)
  BY <1>1, <1>2 DEF OpToRel
<1>4. QED
  BY <1>1, <1>3

\* The status of a dataset is good if that of each file is, and is the status of a file that is
\* not if there is one.
LEMMA FirstOfIs ==
  ASSUME NEW S, NEW statuses \in Seq(S), NEW good
  PROVE  \/ FirstOf(statuses, good) = good /\ \A i \in DOMAIN statuses : statuses[i] = good
         \/ \E i \in DOMAIN statuses : /\ statuses[i] # good
                                       /\ FirstOf(statuses, good) = statuses[i]
<1> DEFINE I == {i \in DOMAIN statuses : statuses[i] # good}
<1>1. CASE I = {}
  BY <1>1 DEF FirstOf
<1>2. CASE I # {}
  <2>1. I \subseteq Nat
    OBVIOUS
  <2>2. \E i \in I : \A j \in I : i <= j
    BY <1>2, <2>1, LeastExists
  <2> DEFINE first == CHOOSE i \in I : \A j \in I : i <= j
  <2>3. first \in I
    BY <2>2
  <2>4. FirstOf(statuses, good) = statuses[first]
    BY <1>2 DEF FirstOf
  <2>5. QED
    BY <2>3, <2>4
<1>3. QED
  BY <1>1, <1>2

\* The same for the statuses of the files so far.
LEMMA OverallIs ==
  ASSUME NEW good, found' \in Seq(FileStatus)
  PROVE  \/ FirstOf(found', good) = good /\ \A i \in DOMAIN found' : found'[i] = good
         \/ \E i \in DOMAIN found' : found'[i] # good /\ FirstOf(found', good) = found'[i]
<1> DEFINE statuses == found'
<1>1. statuses \in Seq(FileStatus)
  OBVIOUS
<1> HIDE DEF statuses
<1>2. \/ FirstOf(statuses, good) = good /\ \A i \in DOMAIN statuses : statuses[i] = good
      \/ \E i \in DOMAIN statuses : /\ statuses[i] # good
                                    /\ FirstOf(statuses, good) = statuses[i]
  BY <1>1, FirstOfIs
<1>3. QED
  BY <1>2 DEF statuses

\* The manifest of a request is a list of files with paths and URLs of the model.
LEMMA ManifestIs ==
  ASSUME TypeOK
  PROVE  /\ manifest \in Seq(ManifestFile) /\ Len(manifest) \in Nat
         /\ DOMAIN manifest = 1 .. Len(manifest)
         /\ \A i \in DOMAIN manifest : manifest[i].path \in Paths /\ manifest[i].url \in FileUrls
<1>1. manifest \in Records \cup {<<>>}
  BY DEF TypeOK
<1>2. Records \subseteq Seq(ManifestFile)
  BY FilesetAssumption
<1>3. manifest \in Seq(ManifestFile)
  <2>1. <<>> \in Seq(ManifestFile)
    OBVIOUS
  <2>2. QED
    BY <1>1, <1>2, <2>1, Zenon
<1>4. Len(manifest) \in Nat /\ DOMAIN manifest = 1 .. Len(manifest)
  BY <1>3
<1>5. \A i \in DOMAIN manifest : manifest[i].path \in Paths /\ manifest[i].url \in FileUrls
  <2>1. CASE manifest = <<>>
    BY <1>4, <2>1
  <2>2. CASE manifest \in Records
    BY <2>2, FilesetAssumption
  <2>3. QED
    BY <1>1, <2>1, <2>2
<1>6. QED
  BY <1>3, <1>4, <1>5

LEMMA PlatformIs ==
  ASSUME NEW url
  PROVE  PlatformOf(url) \in Platforms \cup {"none"}
<1> DEFINE I == {i \in DOMAIN Helpers : Matches(Helpers[i], url)}
<1>1. CASE I = {}
  BY <1>1 DEF PlatformOf
<1>2. CASE I # {}
  <2>1. DOMAIN Helpers = 1 .. 4 /\ \A i \in 1 .. 4 : Helpers[i] \in Platforms
    BY DEF Helpers, Platforms
  <2>2. I \subseteq Nat
    BY <2>1
  <2>3. \E i \in I : \A j \in I : i <= j
    BY <1>2, <2>2, LeastExists
  <2> DEFINE first == CHOOSE i \in I : \A j \in I : i <= j
  <2>4. first \in I
    BY <2>3
  <2>5. PlatformOf(url) = Helpers[first]
    BY <1>2 DEF PlatformOf
  <2>6. QED
    BY <2>1, <2>4, <2>5
<1>3. QED
  BY <1>1, <1>2

\* What comes of asking a platform, if not a manifest, is no success.
RequestFailure ==
  {"exception", "platform-error", "platform-404", "platform-http-error", "platform-scope",
   "platform-restricted"}

LEMMA RequestsFail ==
  ASSUME platform \in Platforms,
         NEW s \in ProcessRequest(platform, terminal, baseUrl) \ {"item"}
  PROVE  s \in RequestFailure
<1> DEFINE apis == AnyApi \cup {"noVersion", "private", "linkOnly", "deleted", "workLevel"}
<1>1. \A api \in apis : ApiStatus[api] \in RequestFailure \cup {"item"}
  BY DEF AnyApi, ApiStatus, RequestFailure
<1>2. CASE platform = "dataverse"
  BY <1>1, <1>2 DEF ProcessRequest, DataverseRequest, RequestFailure
<1>3. CASE platform = "figshare"
  BY <1>1, <1>3 DEF ProcessRequest, FigshareRequest, RequestFailure
<1>4. CASE platform = "zenodo"
  BY <1>1, <1>4 DEF ProcessRequest, ZenodoRequest, RequestFailure
<1>5. CASE platform = "archiveorg"
  BY <1>1, <1>5 DEF ProcessRequest, ArchiveOrgRequest, RequestFailure
<1>6. QED
  BY <1>2, <1>3, <1>4, <1>5 DEF Platforms

LEMMA DigestIs ==
  ASSUME NEW p, NEW file \in ManifestFile
  PROVE  Digest(p, file) \in {"md5", "none", "exception"}
<1>1. file.checksum \in {"md5", "sha1", "other"}
  BY DEF ManifestFile
<1>2. QED
  BY <1>1 DEF Digest

LEMMA StrategyIs ==
  ASSUME NEW p, NEW files
  PROVE  ChoseStrategy(p, files) \in ArchiveOrg \cup {"web-file", "web-fileset"}
BY DEF ChoseStrategy, ArchiveOrg

\* A file of the working directory or a download that is verified is one the manifest tells of.
LEMMA VerdictIs ==
  ASSUME NEW content, NEW i
  PROVE  /\ Verdict(content, i) \in {"mismatch-size", "mismatch-md5", "verified-local"}
         /\ Verdict(content, i) = "verified-local" /\ content # Nothing => Matching(content, i)
BY DEF Verdict, Matching, SizeMatches

LEMMA WebVerdictIs ==
  ASSUME NEW content, NEW i
  PROVE  /\ WebVerdict(content, i) \in {"empty-blob", "success", "mismatch"}
         /\ WebVerdict(content, i) = "success" => Matching(content, i)
BY DEF WebVerdict

\* A file that the item has is one the manifest tells of; the converse needs a digest.
LEMMA ExistsIs ==
  ASSUME NEW i
  PROVE  /\ Exists(i) => Matching(item[manifest[i].path], i)
         /\ ~Exists(i) => digests[i] = "none" \/ ~Matching(item[manifest[i].path], i)
BY DEF Exists, Matching, SizeMatches, DigestMatches

-----------------------------------------------------------------------------
(* The end of a request.                                                   *)

\* What a request keeps and what the machines keep, as far as their type goes.
DataOK ==
  /\ local \in [Paths -> Contents \cup {Nothing}] /\ item \in [Paths -> Contents \cup {Nothing}]
  /\ captures \in [FileUrls -> Contents \cup {Nothing}]
  /\ trySpn2 \in BOOLEAN /\ requests \in 0 .. MaxRequests
  /\ platform \in Platforms \cup {"none"}
  /\ manifest \in Records \cup {<<>>} /\ DOMAIN digests = DOMAIN manifest
  /\ \A i \in DOMAIN digests : digests[i] \in {"md5", "none", "exception"}

FoundOK == found \in Seq(FileStatus) /\ Len(found) <= Len(manifest)

LEMMA DataIsOK ==
  ASSUME IInv
  PROVE  DataOK /\ FoundOK
BY DEF IInv, TypeOK, LoopInv, DataOK, FoundOK

LEMMA DataStaysOK ==
  ASSUME DataOK, UNCHANGED <<stores, request, dataset>>
  PROVE  DataOK'
BY DEF DataOK, stores, request, dataset

LEMMA FoundStaysOK ==
  ASSUME FoundOK, UNCHANGED <<dataset, found>>
  PROVE  FoundOK'
BY DEF FoundOK, dataset

\* A request that ends without success claims nothing.
LEMMA EndsBadly ==
  ASSUME DataOK', FoundOK', pc' \in {"idle", "dead"}, status' \in Status, status' \notin Success
  PROVE  IInv'
<1>1. TypeOK'
  BY DEF TypeOK, DataOK, FoundOK, PC, hit
<1>2. LoopInv'
  BY DEF LoopInv, DataOK
<1>3. DownloadInv' /\ UploadInv' /\ WebInv' /\ SuccessIsArchived'
  BY DEF DownloadInv, UploadInv, WebInv, SuccessIsArchived, hit
<1>4. QED
  BY <1>1, <1>2, <1>3 DEF IInv

\* A request that ends with success has archived its files.
LEMMA EndsWell ==
  ASSUME DataOK', FoundOK', pc' = "idle", status' \in Success, strategy' # "none",
         SuccessIsArchived'
  PROVE  IInv'
<1>1. TypeOK'
  BY DEF TypeOK, DataOK, FoundOK, PC, Status
<1>2. LoopInv'
  BY DEF LoopInv, DataOK
<1>3. DownloadInv' /\ UploadInv' /\ WebInv'
  BY DEF DownloadInv, UploadInv, WebInv
<1>4. QED
  BY <1>1, <1>2, <1>3 DEF IInv

\* Statuses that end a request without success.
LEMMA Failing ==
  /\ LandingFailure \cup FetchError \cup FetchMiss \cup RequestFailure \subseteq Status \ Success
  /\ {"exception", "not-implemented", "skip-url-blocklist", "no-platform-match",
      "empty-manifest", "too-large-size", "too-many-files", "mismatch-size", "mismatch-md5",
      "unsafe-path", "error-platform-download", "error-archiveorg-upload"}
     \subseteq Status \ Success
BY DEF Status, Success, LandingFailure, FetchError, FetchMiss, RequestFailure

\* So is that of a file, but for those that say it is as it should be.
LEMMA FileFailing == FileStatus \ {"verified-local", "success"} \subseteq Status \ Success
<1> DEFINE good == {"verified-local", "success"}
<1>1. {"unsafe-path", "mismatch-size", "mismatch-md5", "empty-blob", "mismatch"}
      \subseteq Status \ Success
  BY DEF Status, Success, LandingFailure
<1>2. {"no-capture", "too-much-spn"} \subseteq Status \ Success
  BY DEF Status, Success, LandingFailure
<1>3. FetchMiss \subseteq Status \ Success
  BY Failing
<1>4. FileStatus \ good \subseteq
        {"unsafe-path", "mismatch-size", "mismatch-md5", "empty-blob", "mismatch"}
        \cup {"no-capture", "too-much-spn"} \cup FetchMiss
  BY DEF FileStatus
<1>5. QED
  BY <1>1, <1>2, <1>3, <1>4

-----------------------------------------------------------------------------
(* Up to the strategy.                                                     *)

\* What all steps on the way to the manifest leave as it is.
LEMMA EarlySteps ==
  ASSUME IInv, pc \in {"landing", "platform", "api"},
         pc' \in {"landing", "platform", "api"}, pc' = "api" => platform' \in Platforms,
         platform' \in Platforms \cup {"none"},
         UNCHANGED <<stores, requests, manifest, digests, strategy, found, status>>
  PROVE  IInv'
<1>1. DataOK' /\ FoundOK'
  BY DataIsOK DEF DataOK, FoundOK, stores
<1>2. status' = NoStatus /\ found' = <<>>
  BY DEF IInv, LoopInv
<1>3. status' \in Status /\ status' \notin Success
  BY <1>2 DEF NoStatus, Status, Success
<1>4. TypeOK'
  BY <1>1, <1>3 DEF TypeOK, DataOK, FoundOK, PC, hit
<1>5. LoopInv'
  BY <1>1, <1>2 DEF LoopInv, DataOK
<1>6. DownloadInv' /\ UploadInv' /\ WebInv' /\ SuccessIsArchived'
  BY <1>3 DEF DownloadInv, UploadInv, WebInv, SuccessIsArchived, hit
<1>7. QED
  BY <1>4, <1>5, <1>6 DEF IInv

LEMMA RequestStep ==
  ASSUME IInv, Request
  PROVE  IInv'
<1>1. /\ pc' = "landing" /\ status' = NoStatus /\ platform' = "none" /\ manifest' = <<>>
      /\ digests' = <<>> /\ found' = <<>> /\ UNCHANGED stores
  BY DEF Request
<1>2. requests' \in 0 .. MaxRequests
  BY FilesetAssumption DEF IInv, TypeOK, Request
<1>3. status' \in Status /\ status' \notin Success
  BY <1>1 DEF NoStatus, Status, Success
<1>4. TypeOK'
  <2>1. found' \in Seq(FileStatus) /\ Len(found') <= Len(manifest')
    BY <1>1
  <2>2. /\ local' \in [Paths -> Contents \cup {Nothing}]
        /\ item' \in [Paths -> Contents \cup {Nothing}]
        /\ captures' \in [FileUrls -> Contents \cup {Nothing}] /\ trySpn2' \in BOOLEAN
    BY <1>1 DEF IInv, TypeOK, stores
  <2>3. QED
    BY <1>1, <1>2, <1>3, <2>1, <2>2 DEF TypeOK, PC, hit
<1>5. LoopInv'
  BY <1>1 DEF LoopInv
<1>6. DownloadInv' /\ UploadInv' /\ WebInv' /\ SuccessIsArchived'
  BY <1>1, <1>3 DEF DownloadInv, UploadInv, WebInv, SuccessIsArchived, hit
<1>7. QED
  BY <1>4, <1>5, <1>6 DEF IInv

\* A step that ends the request and touches nothing else.
LEMMA JustEnds ==
  ASSUME IInv, UNCHANGED <<stores, request, dataset, found>>,
         pc' \in {"idle", "dead"}, status' \in Status, status' \notin Success
  PROVE  IInv'
BY DataIsOK, DataStaysOK, FoundStaysOK, EndsBadly

LEMMA LandingStep ==
  ASSUME IInv, SkipRequest \/ LandingFails \/ LandingPage \/ FindPlatform \/ NoManifest
  PROVE  IInv'
<1>1. CASE SkipRequest
  BY <1>1, JustEnds, Failing DEF SkipRequest, Finish
<1>2. CASE LandingFails
  BY <1>2, JustEnds, Failing DEF LandingFails, Finish, Raise
<1>3. CASE LandingPage
  <2>1. UNCHANGED <<stores, requests, dataset, next, found>> /\ pc = "landing"
    BY <1>3 DEF LandingPage
  <2>2. DataOK' /\ FoundOK'
    BY <2>1, DataIsOK DEF DataOK, FoundOK, stores, dataset
  <2>3. CASE terminal' \in BlockedUrls
    BY <1>3, <2>2, <2>3, EndsBadly, Failing DEF LandingPage, Finish
  <2>4. CASE terminal' \notin BlockedUrls
    BY <1>3, <2>1, <2>4, EarlySteps DEF LandingPage, dataset, IInv, TypeOK
  <2>5. QED
    BY <2>3, <2>4
<1>4. CASE FindPlatform
  <2>1. platform' \in Platforms \cup {"none"}
    BY <1>4, PlatformIs DEF FindPlatform
  <2>2. UNCHANGED <<stores, request, manifest, digests, strategy, next, found>> /\ pc = "platform"
    BY <1>4 DEF FindPlatform
  <2>3. DataOK' /\ FoundOK'
    BY <2>1, <2>2, DataIsOK DEF DataOK, FoundOK, stores, request
  <2>4. CASE platform' = "none"
    BY <1>4, <2>3, <2>4, EndsBadly, Failing DEF FindPlatform, Finish
  <2>5. CASE platform' # "none"
    BY <1>4, <2>1, <2>2, <2>5, EarlySteps DEF FindPlatform, request
  <2>6. QED
    BY <2>4, <2>5
<1>5. CASE NoManifest
  <2>1. platform \in Platforms
    BY <1>5 DEF NoManifest, IInv, LoopInv
  <2>2. PICK s \in ProcessRequest(platform, terminal, baseUrl) \ {"item"} :
          IF s = "exception" THEN Raise ELSE Finish(s)
    BY <1>5 DEF NoManifest
  <2>3. s \in Status /\ s \notin Success
    BY <2>1, RequestsFail, Failing
  <2>4. pc' \in {"idle", "dead"} /\ status' = s
    BY <2>2 DEF Raise, Finish
  <2>5. QED
    BY <1>5, <2>3, <2>4, JustEnds DEF NoManifest
<1>6. QED
  BY <1>1, <1>2, <1>3, <1>4, <1>5

\* A manifest within the limits is gone through from its first file.
LEMMA TakeManifestStep ==
  ASSUME IInv, TakeManifest
  PROVE  IInv'
<1>1. /\ pc = "api" /\ manifest' \in Records /\ next' = 1
      /\ digests' = [i \in DOMAIN manifest' |-> Digest(platform, manifest'[i])]
      /\ UNCHANGED <<stores, request, platform, found>>
  BY DEF TakeManifest
<1>2. found' = <<>> /\ status = NoStatus
  BY <1>1 DEF IInv, LoopInv
<1>3. manifest' \in Seq(ManifestFile)
  BY <1>1, FilesetAssumption
<1>4. \A i \in DOMAIN digests' : digests'[i] \in {"md5", "none", "exception"}
  <2>1. ASSUME NEW i \in DOMAIN manifest'
        PROVE  digests'[i] \in {"md5", "none", "exception"}
    <3>1. manifest'[i] \in ManifestFile
      BY <1>3
    <3>2. QED
      BY <1>1, <3>1, DigestIs
  <2>2. QED
    BY <1>1, <2>1
<1>5. DataOK' /\ FoundOK'
  <2>1. DOMAIN digests' = DOMAIN manifest'
    BY <1>1
  <2>2. DataOK'
    BY <1>1, <1>4, <2>1, DataIsOK DEF DataOK, stores, request
  <2>3. found' \in Seq(FileStatus) /\ Len(found') = 0 /\ Len(manifest') \in Nat
    BY <1>2, <1>3
  <2>4. QED
    BY <2>2, <2>3 DEF FoundOK
<1> DEFINE taken == /\ strategy' = ChoseStrategy(platform, manifest')
                    /\ pc' = IF strategy' \in ArchiveOrg THEN "existing" ELSE "web"
                    /\ UNCHANGED status
<1>6. \/ Raise \/ Finish("empty-manifest") \/ Finish("too-large-size") \/ Finish("too-many-files")
      \/ manifest' # <<>> /\ taken
  BY DEF TakeManifest
<1>7. CASE \/ Raise \/ Finish("empty-manifest") \/ Finish("too-large-size")
           \/ Finish("too-many-files")
  BY <1>5, <1>7, EndsBadly, Failing DEF Raise, Finish
<1>8. CASE manifest' # <<>> /\ taken
  <2>1. strategy' \in ArchiveOrg \cup {"web-file", "web-fileset"} /\ UNCHANGED status
    BY <1>8, StrategyIs
  <2>2. \/ pc' = "existing" /\ strategy' \in ArchiveOrg
        \/ pc' = "web" /\ strategy' \in {"web-file", "web-fileset"}
    <3>1. pc' = IF strategy' \in ArchiveOrg THEN "existing" ELSE "web"
      BY <1>8
    <3>2. CASE strategy' \in ArchiveOrg
      BY <3>1, <3>2
    <3>3. CASE strategy' \notin ArchiveOrg
      BY <2>1, <3>1, <3>3
    <3>4. QED
      BY <3>2, <3>3
  <2>3. status' \in Status /\ status' \notin Success
    BY <1>2, <2>1 DEF NoStatus, Status, Success
  <2>4. Len(manifest') \in Nat \ {0} /\ DOMAIN manifest' = 1 .. Len(manifest')
    BY <1>3, <1>8
  <2>5. TypeOK'
    BY <1>1, <1>5, <2>2, <2>3, <2>4 DEF TypeOK, DataOK, FoundOK, PC, hit
  <2>6. LoopInv'
    BY <1>1, <1>2, <1>4, <1>8, <2>1, <2>2 DEF LoopInv
  <2>7. DownloadInv' /\ UploadInv' /\ WebInv' /\ SuccessIsArchived'
    BY <1>2, <2>2, <2>3 DEF DownloadInv, UploadInv, WebInv, SuccessIsArchived, hit
  <2>8. QED
    BY <2>5, <2>6, <2>7 DEF IInv
<1>9. QED
  BY <1>6, <1>7, <1>8

\* Either the item has all files, or some are missing and the loop begins.
LEMMA ExistingStep ==
  ASSUME IInv, CheckExisting
  PROVE  IInv'
<1>1. pc = "existing" /\ UNCHANGED <<stores, request, dataset, next, found>>
  BY DEF CheckExisting
<1>2. DataOK' /\ FoundOK'
  BY <1>1, DataIsOK, DataStaysOK, FoundStaysOK
<1>3. /\ strategy \in ArchiveOrg /\ found = <<>> /\ next = 1 /\ manifest # <<>>
      /\ status = NoStatus
  BY <1>1 DEF IInv, LoopInv
<1>4. CASE (\A i \in DOMAIN manifest : Exists(i)) /\ Finish("success-existing")
  <2>1. \A i \in DOMAIN manifest : Matching(item[manifest[i].path], i)
    BY <1>4, ExistsIs
  <2>2. SuccessIsArchived'
    BY <1>1, <1>3, <2>1 DEF SuccessIsArchived, Matching, SizeMatches, DigestMatches, stores,
                            dataset
  <2>3. strategy' # "none"
    BY <1>1, <1>3 DEF ArchiveOrg, dataset
  <2>4. QED
    BY <1>2, <1>4, <2>2, <2>3, EndsWell DEF Finish, Success
<1>5. CASE Raise
  BY <1>1, <1>5, JustEnds, Failing DEF Raise
<1>6. CASE ~(\A i \in DOMAIN manifest : Exists(i)) /\ pc' = "download" /\ UNCHANGED status
  <2>1. status' \in Status /\ status' \notin Success /\ status' = NoStatus
    BY <1>3, <1>6 DEF NoStatus, Status, Success
  <2>2. next' \in DOMAIN manifest'
    <3>1. manifest \in Seq(ManifestFile) /\ DOMAIN manifest = 1 .. Len(manifest)
      BY ManifestIs DEF IInv
    <3>2. Len(manifest) \in Nat \ {0}
      BY <1>3, <3>1
    <3>3. QED
      BY <1>1, <1>3, <3>1, <3>2 DEF dataset
  <2>3. TypeOK'
    BY <1>2, <1>6, <2>1, <2>2 DEF TypeOK, DataOK, FoundOK, PC, hit
  <2>4. LoopInv'
    BY <1>1, <1>2, <1>3, <1>6, <2>1 DEF LoopInv, DataOK, dataset
  <2>5. DownloadInv'
    BY <1>1, <1>3, <1>6 DEF DownloadInv, Exists, SizeMatches, stores, dataset
  <2>6. UploadInv' /\ WebInv' /\ SuccessIsArchived'
    BY <1>6, <2>1 DEF UploadInv, WebInv, SuccessIsArchived, hit
  <2>7. QED
    BY <2>3, <2>4, <2>5, <2>6 DEF IInv
<1>7. QED
  BY <1>4, <1>5, <1>6 DEF CheckExisting

-----------------------------------------------------------------------------
(* The loop over the files: download, upload.                              *)

\* One more status.
LEMMA FoundGrows ==
  ASSUME IInv, pc \in {"download", "web"}, NEW s \in FileStatus, found' = Append(found, s),
         UNCHANGED manifest
  PROVE  /\ FoundOK' /\ Len(found') = next /\ next \in 1 .. Len(manifest)
         /\ next \in Nat /\ Len(manifest) \in Nat
         /\ DOMAIN found = 1 .. next - 1 /\ DOMAIN found' = 1 .. next /\ found'[next] = s
         /\ \A i \in 1 .. next - 1 : found'[i] = found[i]
<1>1. found \in Seq(FileStatus) /\ Len(found) = next - 1 /\ next \in DOMAIN manifest
  BY DEF IInv, TypeOK, LoopInv
<1>2. DOMAIN manifest = 1 .. Len(manifest) /\ Len(manifest) \in Nat
  BY ManifestIs DEF IInv
<1>3. next \in Nat /\ next \in 1 .. Len(manifest)
  BY <1>1, <1>2
<1>4. found' \in Seq(FileStatus) /\ Len(found') = Len(found) + 1
  BY <1>1
<1>5. DOMAIN found = 1 .. Len(found) /\ DOMAIN found' = 1 .. Len(found')
  BY <1>1, <1>4
<1>6. found'[Len(found) + 1] = s /\ \A i \in 1 .. Len(found) : found'[i] = found[i]
  BY <1>1
<1>7. Len(found') = next
  BY <1>1, <1>3, <1>4
<1>8. Len(found) + 1 = next
  BY <1>1, <1>3
<1>9. FoundOK'
  BY <1>3, <1>4, <1>7 DEF FoundOK
<1>10. QED
  BY <1>1, <1>2, <1>3, <1>5, <1>6, <1>7, <1>8, <1>9

\* A file more has been looked at: what is verified stays verified, as a file that is there is
\* not replaced.
LEMMA DownloadStep ==
  ASSUME IInv, pc = "download",
         NEW v \in {"unsafe-path", "mismatch-size", "mismatch-md5", "verified-local"},
         found' = Append(found, v), AfterDownload,
         UNCHANGED <<item, captures, trySpn2, request, dataset>>,
         local' \in [Paths -> Contents \cup {Nothing}],
         \A p \in Paths : local[p] # Nothing => local'[p] = local[p],
         v = "verified-local" => Matching(local'[manifest[next].path], next)
  PROVE  IInv'
<1>1. UNCHANGED <<manifest, digests, strategy, platform>>
  BY DEF dataset
<1>2. v \in FileStatus
  BY DEF FileStatus
<1>3. /\ FoundOK' /\ Len(found') = next /\ next \in 1 .. Len(manifest)
      /\ next \in Nat /\ Len(manifest) \in Nat
      /\ DOMAIN found = 1 .. next - 1 /\ DOMAIN found' = 1 .. next /\ found'[next] = v
      /\ \A i \in 1 .. next - 1 : found'[i] = found[i]
  BY <1>1, <1>2, FoundGrows
<1>4. DOMAIN manifest = 1 .. Len(manifest)
      /\ \A i \in DOMAIN manifest : manifest[i].path \in Paths
  BY ManifestIs DEF IInv
<1>5. DataOK'
  BY <1>1, DataIsOK DEF DataOK, request
<1>6. status = NoStatus /\ strategy \in ArchiveOrg
  BY DEF IInv, LoopInv
<1>7. ASSUME NEW i \in 1 .. next
      PROVE  /\ found'[i] \in {"unsafe-path", "mismatch-size", "mismatch-md5", "verified-local"}
             /\ found'[i] = "verified-local" => Matching(local'[manifest[i].path], i)
  <2>1. CASE i = next
    BY <1>3, <2>1
  <2>2. CASE i # next
    <3>1. i \in 1 .. next - 1 /\ i \in DOMAIN manifest
      BY <1>3, <1>4, <2>2
    <3>2. found'[i] = found[i] /\ i \in DOMAIN found
      BY <1>3, <3>1
    <3>3. /\ found[i] \in {"unsafe-path", "mismatch-size", "mismatch-md5", "verified-local"}
          /\ found[i] = "verified-local" => Matching(local[manifest[i].path], i)
      BY <3>2 DEF IInv, DownloadInv
    <3>4. Matching(local[manifest[i].path], i) => local[manifest[i].path] # Nothing
      BY DEF Matching, SizeMatches
    <3>5. QED
      BY <1>4, <3>1, <3>2, <3>3, <3>4
  <2>3. QED
    BY <2>1, <2>2
<1>8. CASE Len(found') < Len(manifest)
  <2>1. next' = next + 1 /\ pc' = "download" /\ status' = NoStatus
    BY <1>6, <1>8 DEF AfterDownload
  <2>2. next' \in DOMAIN manifest'
    BY <1>1, <1>3, <1>4, <1>8, <2>1
  <2>3. status' \in Status /\ status' \notin Success
    BY <2>1 DEF NoStatus, Status, Success
  <2>4. TypeOK'
    BY <1>3, <1>5, <2>1, <2>2, <2>3 DEF TypeOK, DataOK, FoundOK, PC, hit
  <2>5. LoopInv'
    BY <1>1, <1>3, <1>5, <1>6, <2>1 DEF LoopInv, DataOK
  <2>6. DownloadInv'
    <3>1. (\E i \in DOMAIN manifest : ~Exists(i))'
      BY <1>1 DEF IInv, DownloadInv, Exists, SizeMatches
    <3>2. QED
      BY <1>1, <1>3, <1>7, <3>1 DEF DownloadInv, Matching, SizeMatches, DigestMatches
  <2>7. UploadInv' /\ WebInv' /\ SuccessIsArchived'
    BY <2>1, <2>3 DEF UploadInv, WebInv, SuccessIsArchived, hit
  <2>8. QED
    BY <2>4, <2>5, <2>6, <2>7 DEF IInv
<1>9. CASE ~(Len(found') < Len(manifest))
  <2>1. DOMAIN manifest = 1 .. next /\ Len(manifest) = next
    BY <1>3, <1>4, <1>9
  <2> DEFINE overall == FirstOf(found', "verified-local")
  <2>2. next' = 1 /\ \/ overall # "verified-local" /\ Finish(overall)
                     \/ Raise
                     \/ overall = "verified-local" /\ pc' = "upload" /\ UNCHANGED status
    BY <1>9 DEF AfterDownload
  <2>3. \/ overall = "verified-local" /\ \A i \in DOMAIN found' : found'[i] = "verified-local"
        \/ \E i \in DOMAIN found' : found'[i] # "verified-local" /\ overall = found'[i]
    <3>1. found' \in Seq(FileStatus)
      BY <1>3 DEF FoundOK
    <3>2. QED
      BY <3>1, OverallIs
  <2>4. CASE Raise
    BY <1>3, <1>5, <2>4, EndsBadly, Failing DEF Raise
  <2>5. CASE overall # "verified-local" /\ Finish(overall)
    <3>1. overall \in {"unsafe-path", "mismatch-size", "mismatch-md5"}
      BY <1>3, <1>7, <2>3, <2>5
    <3>2. QED
      BY <1>3, <1>5, <2>5, <3>1, EndsBadly, Failing DEF Finish
  <2>6. CASE overall = "verified-local" /\ pc' = "upload" /\ UNCHANGED status
    <3>1. \A i \in DOMAIN found' : found'[i] = "verified-local"
      BY <2>3, <2>6
    <3>2. \A i \in DOMAIN manifest : Matching(local'[manifest[i].path], i)
      BY <1>3, <1>7, <2>1, <3>1
    <3>3. status' \in Status /\ status' \notin Success /\ status' = NoStatus
      BY <1>6, <2>6 DEF NoStatus, Status, Success
    <3>4. next' \in DOMAIN manifest'
      BY <1>1, <1>3, <2>1, <2>2
    <3>5. TypeOK'
      BY <1>3, <1>5, <2>6, <3>3, <3>4 DEF TypeOK, DataOK, FoundOK, PC, hit
    <3>6. LoopInv'
      BY <1>1, <1>5, <1>6, <2>6, <3>3 DEF LoopInv, DataOK
    <3>7. UploadInv'
      <4>1. \A i \in DOMAIN manifest : ~(i < 1)
        BY <1>4
      <4>2. QED
        BY <1>1, <2>2, <3>2, <4>1 DEF UploadInv, Matching, SizeMatches, DigestMatches
    <3>8. DownloadInv' /\ WebInv' /\ SuccessIsArchived'
      BY <2>6, <3>3 DEF DownloadInv, WebInv, SuccessIsArchived, hit
    <3>9. QED
      BY <3>5, <3>6, <3>7, <3>8 DEF IInv
  <2>7. QED
    BY <2>2, <2>4, <2>5, <2>6
<1>10. QED
  BY <1>8, <1>9

LEMMA FileStep ==
  ASSUME IInv, UnsafePath \/ VerifyLocal \/ Download \/ DownloadFails
  PROVE  IInv'
<1>1. local \in [Paths -> Contents \cup {Nothing}] /\ Nothing \notin Contents
  BY FilesetAssumption DEF IInv, TypeOK
<1>2. pc = "download" => manifest[next].path \in Paths
  BY ManifestIs DEF IInv, TypeOK
<1>3. CASE UnsafePath
  BY <1>1, <1>3, DownloadStep DEF UnsafePath, stores
<1>4. CASE VerifyLocal
  <2> DEFINE content == local[manifest[next].path]
  <2>1. /\ pc = "download" /\ content # Nothing /\ AfterDownload
        /\ found' = Append(found, Verdict(content, next))
        /\ UNCHANGED <<local, item, captures, trySpn2, request, dataset>>
    BY <1>4 DEF VerifyLocal, stores
  <2>2. /\ Verdict(content, next) \in {"mismatch-size", "mismatch-md5", "verified-local"}
        /\ Verdict(content, next) = "verified-local" => Matching(content, next)
    BY <2>1, VerdictIs
  <2>3. local'[manifest[next].path] = content
    BY <2>1
  <2> HIDE DEF content
  <2>4. QED
    BY <1>1, <2>1, <2>2, <2>3, DownloadStep
<1>5. CASE Download
  <2>1. PICK content \in Contents :
          /\ local' = [local EXCEPT ![manifest[next].path] = content]
          /\ found' = Append(found, Verdict(content, next))
    BY <1>5 DEF Download
  <2>2. /\ pc = "download" /\ local[manifest[next].path] = Nothing /\ AfterDownload
        /\ UNCHANGED <<item, captures, trySpn2, request, dataset>>
    BY <1>5 DEF Download
  <2>3. content # Nothing
    BY <1>1
  <2>4. /\ Verdict(content, next) \in {"mismatch-size", "mismatch-md5", "verified-local"}
        /\ Verdict(content, next) = "verified-local" => Matching(content, next)
    BY <2>3, VerdictIs
  <2>5. /\ local' \in [Paths -> Contents \cup {Nothing}]
        /\ local'[manifest[next].path] = content
        /\ \A p \in Paths : local[p] # Nothing => local'[p] = local[p]
    BY <1>1, <1>2, <2>1, <2>2
  <2>6. QED
    BY <2>1, <2>2, <2>4, <2>5, DownloadStep
<1>6. CASE DownloadFails
  BY <1>6, JustEnds, Failing DEF DownloadFails, Finish
<1>7. QED
  BY <1>3, <1>4, <1>5, <1>6

\* The item gets one verified file after the other; with the last of them it has them all.
LEMMA UploadStep ==
  ASSUME IInv, Upload
  PROVE  IInv'
<1>1. /\ pc = "upload" /\ item' = [item EXCEPT ![manifest[next].path] = local[manifest[next].path]]
      /\ UNCHANGED <<local, captures, trySpn2, request, dataset, found>>
  BY DEF Upload
<1>2. UNCHANGED <<manifest, digests, strategy, platform>>
  BY <1>1 DEF dataset
<1>3. /\ DOMAIN manifest = 1 .. Len(manifest) /\ Len(manifest) \in Nat
      /\ \A i \in DOMAIN manifest : manifest[i].path \in Paths
  BY ManifestIs DEF IInv
<1>4. next \in DOMAIN manifest /\ strategy \in ArchiveOrg /\ status = NoStatus
  BY <1>1 DEF IInv, TypeOK, LoopInv
<1>5. item' \in [Paths -> Contents \cup {Nothing}]
      /\ \A p \in Paths : item'[p] = IF p = manifest[next].path THEN local[p] ELSE item[p]
  BY <1>1, <1>3, <1>4 DEF IInv, TypeOK
<1>6. DataOK'
  BY <1>1, <1>2, <1>5, DataIsOK DEF DataOK, request
<1>7. FoundOK'
  BY <1>1, DataIsOK, FoundStaysOK
<1>8. ASSUME NEW i \in DOMAIN manifest
      PROVE  /\ Matching(local[manifest[i].path], i)
             /\ i <= next => item'[manifest[i].path] = local[manifest[i].path]
  <2>1. /\ Matching(local[manifest[i].path], i)
        /\ i < next => item[manifest[i].path] = local[manifest[i].path]
    BY <1>1 DEF IInv, UploadInv
  <2>2. i <= next => i = next \/ i < next
    BY <1>3, <1>4
  <2>3. QED
    BY <1>3, <1>5, <2>1, <2>2
<1>9. CASE next < Len(manifest)
  <2>1. next' = next + 1 /\ pc' = "upload" /\ status' = NoStatus
    BY <1>1, <1>4, <1>9 DEF Upload
  <2>2. next' \in DOMAIN manifest'
    BY <1>2, <1>3, <1>4, <1>9, <2>1
  <2>3. status' \in Status /\ status' \notin Success
    BY <2>1 DEF NoStatus, Status, Success
  <2>4. TypeOK'
    BY <1>6, <1>7, <2>1, <2>2, <2>3 DEF TypeOK, DataOK, FoundOK, PC, hit
  <2>5. LoopInv'
    BY <1>2, <1>4, <1>6, <2>1 DEF LoopInv, DataOK
  <2>6. UploadInv'
    <3>1. \A i \in DOMAIN manifest : i < next + 1 => i <= next
      BY <1>3, <1>4
    <3>2. QED
      BY <1>1, <1>2, <1>8, <2>1, <3>1 DEF UploadInv, Matching, SizeMatches, DigestMatches
  <2>7. DownloadInv' /\ WebInv' /\ SuccessIsArchived'
    BY <2>1, <2>3 DEF DownloadInv, WebInv, SuccessIsArchived, hit
  <2>8. QED
    BY <2>4, <2>5, <2>6, <2>7 DEF IInv
<1>10. CASE ~(next < Len(manifest))
  <2>1. pc' = "idle" /\ status' \in Success
    BY <1>10 DEF Upload, Finish, Success
  <2>2. \A i \in DOMAIN manifest : i <= next
    BY <1>3, <1>4, <1>10
  <2>3. \A i \in DOMAIN manifest : Matching(item'[manifest[i].path], i)
    BY <1>8, <2>2
  <2>4. SuccessIsArchived'
    BY <1>2, <1>4, <2>3 DEF SuccessIsArchived, Matching, SizeMatches, DigestMatches
  <2>5. strategy' # "none"
    BY <1>2, <1>4 DEF ArchiveOrg
  <2>6. QED
    BY <1>6, <1>7, <2>1, <2>4, <2>5, EndsWell
<1>11. QED
  BY <1>9, <1>10

-----------------------------------------------------------------------------
(* The loop over the files: the Wayback Machine.                           *)

\* A capture more has been compared; the captures of the files before it have not changed.
LEMMA WebFileStep ==
  ASSUME IInv, pc = "web", NEW s \in FileStatus \ {"verified-local"}, WebFile(s),
         UNCHANGED <<local, item, trySpn2, request, dataset>>,
         captures' \in [FileUrls -> Contents \cup {Nothing}],
         \A u \in FileUrls : captures[u] # Nothing => captures'[u] = captures[u],
         s = "success" => Matching(captures'[manifest[next].url], next)
  PROVE  IInv'
<1>1. UNCHANGED <<manifest, digests, strategy, platform>> /\ found' = Append(found, s)
  BY DEF dataset, WebFile
<1>2. s \in FileStatus
  OBVIOUS
<1>3. /\ FoundOK' /\ Len(found') = next /\ next \in 1 .. Len(manifest)
      /\ next \in Nat /\ Len(manifest) \in Nat
      /\ DOMAIN found = 1 .. next - 1 /\ DOMAIN found' = 1 .. next /\ found'[next] = s
      /\ \A i \in 1 .. next - 1 : found'[i] = found[i]
  BY <1>1, <1>2, FoundGrows
<1>4. DOMAIN manifest = 1 .. Len(manifest)
      /\ \A i \in DOMAIN manifest : manifest[i].url \in FileUrls
  BY ManifestIs DEF IInv
<1>5. DataOK'
  BY <1>1, DataIsOK DEF DataOK, request
<1>6. status = NoStatus /\ strategy \in {"web-file", "web-fileset"}
  BY DEF IInv, LoopInv
<1>7. ASSUME NEW i \in 1 .. next
      PROVE  /\ found'[i] \in FileStatus \ {"verified-local"}
             /\ found'[i] = "success" => Matching(captures'[manifest[i].url], i)
  <2>1. CASE i = next
    BY <1>3, <2>1
  <2>2. CASE i # next
    <3>1. i \in 1 .. next - 1 /\ i \in DOMAIN manifest
      BY <1>3, <1>4, <2>2
    <3>2. found'[i] = found[i] /\ i \in DOMAIN found /\ found[i] \in FileStatus
      BY <1>3, <3>1 DEF IInv, TypeOK
    <3>3. /\ found[i] # "verified-local"
          /\ found[i] = "success" => Matching(captures[manifest[i].url], i)
      BY <3>2 DEF IInv, WebInv
    <3>4. Matching(captures[manifest[i].url], i) => captures[manifest[i].url] # Nothing
      BY DEF Matching, SizeMatches
    <3>5. QED
      BY <1>4, <3>1, <3>2, <3>3, <3>4
  <2>3. QED
    BY <2>1, <2>2
<1>8. CASE Len(found') < Len(manifest)
  <2>1. next' = next + 1 /\ pc' = "web" /\ status' = NoStatus
    BY <1>6, <1>8 DEF WebFile
  <2>2. next' \in DOMAIN manifest'
    BY <1>1, <1>3, <1>4, <1>8, <2>1
  <2>3. status' \in Status /\ status' \notin Success
    BY <2>1 DEF NoStatus, Status, Success
  <2>4. TypeOK'
    BY <1>3, <1>5, <2>1, <2>2, <2>3 DEF TypeOK, DataOK, FoundOK, PC, hit
  <2>5. LoopInv'
    BY <1>1, <1>3, <1>5, <1>6, <2>1 DEF LoopInv, DataOK
  <2>6. WebInv'
    BY <1>1, <1>3, <1>7 DEF WebInv, Matching, SizeMatches, DigestMatches
  <2>7. DownloadInv' /\ UploadInv' /\ SuccessIsArchived'
    BY <2>1, <2>3 DEF DownloadInv, UploadInv, SuccessIsArchived, hit
  <2>8. QED
    BY <2>4, <2>5, <2>6, <2>7 DEF IInv
<1>9. CASE ~(Len(found') < Len(manifest))
  <2>1. DOMAIN manifest = 1 .. next
    <3>1. Len(manifest) = next
      BY <1>3, <1>9
    <3>2. QED
      BY <1>4, <3>1
  <2> DEFINE overall == FirstOf(found', "success")
  <2>2. /\ pc' = "idle"
        /\ status' = IF overall = "success" /\ strategy = "web-file" THEN "success-file"
                     ELSE overall
    BY <1>9 DEF WebFile, Finish
  <2>3. \/ overall = "success" /\ \A i \in DOMAIN found' : found'[i] = "success"
        \/ \E i \in DOMAIN found' : found'[i] # "success" /\ overall = found'[i]
    <3>1. found' \in Seq(FileStatus)
      BY <1>3 DEF FoundOK
    <3>2. QED
      BY <3>1, OverallIs
  <2>4. CASE overall = "success" /\ \A i \in DOMAIN found' : found'[i] = "success"
    <3>1. \A i \in DOMAIN manifest : Matching(captures'[manifest[i].url], i)
      BY <1>3, <1>7, <2>1, <2>4
    <3>2. strategy' \notin ArchiveOrg /\ strategy' # "none"
      BY <1>1, <1>6 DEF ArchiveOrg
    <3>3. SuccessIsArchived'
      BY <1>1, <3>1, <3>2 DEF SuccessIsArchived, Matching, SizeMatches, DigestMatches
    <3>4. status' \in Success
      BY <2>2, <2>4 DEF Success
    <3>5. QED
      BY <1>3, <1>5, <2>2, <3>2, <3>3, <3>4, EndsWell
  <2>5. CASE \E i \in DOMAIN found' : found'[i] # "success" /\ overall = found'[i]
    <3>1. overall \in FileStatus \ {"verified-local", "success"}
      BY <1>3, <1>7, <2>5
    <3>2. status' = overall
      BY <2>2, <3>1
    <3>3. status' \in Status /\ status' \notin Success
      BY <3>1, <3>2, FileFailing
    <3>4. QED
      BY <1>3, <1>5, <2>2, <3>3, EndsBadly
  <2>6. QED
    BY <2>3, <2>4, <2>5
<1>10. QED
  BY <1>8, <1>9

\* A capture is there, from before or from a crawl: its verdict is what counts, or the file
\* worker raises.
LEMMA WebContentStep ==
  ASSUME IInv, pc = "web", NEW content, WebContent(content),
         UNCHANGED <<local, item, trySpn2, request, dataset>>,
         captures' \in [FileUrls -> Contents \cup {Nothing}],
         \A u \in FileUrls : captures[u] # Nothing => captures'[u] = captures[u],
         captures'[manifest[next].url] = content
  PROVE  IInv'
<1>1. CASE WebFile(WebVerdict(content, next))
  <2>1. /\ WebVerdict(content, next) \in FileStatus \ {"verified-local"}
        /\ WebVerdict(content, next) = "success" => Matching(content, next)
    BY WebVerdictIs DEF FileStatus
  <2>2. QED
    BY <1>1, <2>1, WebFileStep
<1>2. CASE Raise /\ UNCHANGED <<next, found>>
  <2>1. DataOK' /\ FoundOK'
    BY <1>2, DataIsOK, FoundStaysOK DEF DataOK, request, dataset
  <2>2. QED
    BY <1>2, <2>1, EndsBadly, Failing DEF Raise
<1>3. QED
  BY <1>1, <1>2 DEF WebContent

LEMMA WebStep ==
  ASSUME IInv, WebMiss \/ WebError \/ WebCaptured \/ WebNotCaptured \/ WebCrawl
  PROVE  IInv'
<1>1. captures \in [FileUrls -> Contents \cup {Nothing}]
  BY DEF IInv, TypeOK
<1>2. pc = "web" => manifest[next].url \in FileUrls
  BY ManifestIs DEF IInv, TypeOK
<1>3. CASE WebMiss
  <2>1. PICK s \in FetchMiss : WebFile(s)
    BY <1>3 DEF WebMiss
  <2>2. s \in FileStatus \ {"verified-local"} /\ s # "success"
    BY DEF FileStatus, FetchMiss
  <2>3. QED
    BY <1>1, <1>3, <2>1, <2>2, WebFileStep DEF WebMiss, stores
<1>4. CASE WebError
  BY <1>4, JustEnds, Failing DEF WebError, Raise, Finish
<1>5. CASE WebCaptured
  BY <1>1, <1>5, WebContentStep DEF WebCaptured, stores
<1>6. CASE WebNotCaptured
  <2>1. "no-capture" \in FileStatus \ {"verified-local"}
        /\ "too-much-spn" \in FileStatus \ {"verified-local"}
    BY DEF FileStatus
  <2>2. WebFile("no-capture") \/ WebFile("too-much-spn")
    BY <1>6 DEF WebNotCaptured
  <2>3. pc = "web" /\ UNCHANGED <<stores, request, dataset>>
    BY <1>6 DEF WebNotCaptured
  <2>4. QED
    BY <1>1, <2>1, <2>2, <2>3, WebFileStep DEF stores
<1>7. CASE WebCrawl
  <2>1. /\ pc = "web" /\ captures[manifest[next].url] = Nothing
        /\ UNCHANGED <<local, item, trySpn2, request, dataset>>
    BY <1>7 DEF WebCrawl
  <2>2. PICK content \in Contents :
          /\ captures' = [captures EXCEPT ![manifest[next].url] = content]
          /\ WebContent(content)
    BY <1>7 DEF WebCrawl
  <2>3. /\ captures' \in [FileUrls -> Contents \cup {Nothing}]
        /\ captures'[manifest[next].url] = content
        /\ \A u \in FileUrls : captures[u] # Nothing => captures'[u] = captures[u]
    BY <1>1, <1>2, <2>1, <2>2
  <2>4. QED
    BY <2>1, <2>2, <2>3, WebContentStep
<1>8. QED
  BY <1>3, <1>4, <1>5, <1>6, <1>7

-----------------------------------------------------------------------------
(* The theorems.                                                           *)

LEMMA InitIInv == Init => IInv
<1> SUFFICES ASSUME Init PROVE IInv
  OBVIOUS
<1>1. /\ OldItems \subseteq [Paths -> Contents \cup {Nothing}]
      /\ OldCaptures \subseteq [FileUrls -> Contents \cup {Nothing}] /\ MaxRequests \in Nat
  BY FilesetAssumption
<1>2. /\ local \in [Paths -> Contents \cup {Nothing}]
      /\ item \in [Paths -> Contents \cup {Nothing}]
      /\ captures \in [FileUrls -> Contents \cup {Nothing}] /\ requests \in 0 .. MaxRequests
  <2>1. local \in [Paths -> Contents \cup {Nothing}]
    BY DEF Init
  <2>2. item \in OldItems /\ captures \in OldCaptures /\ requests = 0
    BY DEF Init
  <2>3. QED
    BY <1>1, <2>1, <2>2
<1>3. found \in Seq(FileStatus) /\ Len(found) <= Len(manifest)
  <2>1. found = <<>> /\ manifest = <<>>
    BY DEF Init
  <2>2. QED
    BY <2>1
<1>4. status = NoStatus /\ status \in Status /\ status \notin Success
  BY DEF Init, NoStatus, Status, Success
<1>5. TypeOK
  <2>1. /\ trySpn2 \in BOOLEAN /\ pc = "idle" /\ platform = "none" /\ manifest = <<>>
        /\ digests = <<>>
    BY DEF Init
  <2>2. DOMAIN digests = DOMAIN manifest
    BY <2>1
  <2>3. QED
    BY <1>2, <1>3, <1>4, <2>1, <2>2 DEF TypeOK, PC, hit
<1>6. pc = "idle" /\ digests = <<>>
  BY DEF Init
<1>7. LoopInv
  BY <1>6 DEF LoopInv
<1>8. DownloadInv /\ UploadInv /\ WebInv /\ SuccessIsArchived
  BY <1>4, <1>6 DEF DownloadInv, UploadInv, WebInv, SuccessIsArchived, hit
<1>9. QED
  BY <1>5, <1>7, <1>8 DEF IInv

LEMMA RestartStep ==
  ASSUME IInv, Restart
  PROVE  IInv'
<1>1. pc = "dead" /\ pc' = "idle" /\ UNCHANGED <<stores, request, dataset, next, found, status>>
  BY DEF Restart
<1>2. TypeOK'
  BY <1>1 DEF IInv, TypeOK, PC, hit, stores, request, dataset
<1>3. LoopInv'
  BY <1>1 DEF IInv, LoopInv, dataset
<1>4. DownloadInv' /\ UploadInv' /\ WebInv'
  BY <1>1 DEF DownloadInv, UploadInv, WebInv
<1>5. SuccessIsArchived'
  BY <1>1 DEF IInv, SuccessIsArchived, hit, Matching, SizeMatches, DigestMatches, stores,
              dataset
<1>6. QED
  BY <1>2, <1>3, <1>4, <1>5 DEF IInv

LEMMA StutterStep ==
  ASSUME IInv, UNCHANGED vars
  PROVE  IInv'
<1>1. UNCHANGED <<stores, pc, request, dataset, next, found, status>>
  BY DEF vars
<1>2. TypeOK' /\ LoopInv'
  BY <1>1 DEF IInv, TypeOK, LoopInv, hit, stores, request, dataset
<1>3. DownloadInv' /\ UploadInv' /\ WebInv' /\ SuccessIsArchived'
  BY <1>1 DEF IInv, DownloadInv, UploadInv, WebInv, SuccessIsArchived, Exists, Matching,
              SizeMatches, DigestMatches, hit, stores, dataset
<1>4. QED
  BY <1>2, <1>3 DEF IInv

THEOREM Inductive == Spec => []IInv
<1>1. IInv /\ [Next]_vars => IInv'
  <2> SUFFICES ASSUME IInv, Next PROVE IInv'
    BY StutterStep
  <2>1. CASE Crash
    BY <2>1, JustEnds, Failing DEF Crash
  <2>2. CASE UploadFails
    BY <2>2, JustEnds, Failing DEF UploadFails, Finish
  <2>3. CASE Process
    BY <2>2, <2>3, LandingStep, TakeManifestStep, ExistingStep, FileStep, UploadStep, WebStep
       DEF Process
  <2>4. QED
    BY <2>1, <2>3, RequestStep, RestartStep DEF Next
<1>2. QED
  BY <1>1, InitIInv, PTL DEF Spec

\* Every variable keeps its type, and the loops over the manifest stay within it.
THEOREM TypeCorrect == Spec => []TypeOK
<1>1. IInv => TypeOK
  BY DEF IInv
<1>2. QED
  BY <1>1, Inductive, PTL

\* A dataset that is reported as archived is archived as this request's manifest says.
THEOREM ReportedIsArchived == Spec => []SuccessIsArchived
<1>1. IInv => SuccessIsArchived
  BY DEF IInv
<1>2. QED
  BY <1>1, Inductive, PTL

\* Only the upload writes to the item.
LEMMA OnlyUploadWrites ==
  ASSUME Next, item' # item
  PROVE  Upload
BY DEF Next, Process, Request, SkipRequest, LandingFails, LandingPage, FindPlatform, NoManifest,
       TakeManifest, CheckExisting, UnsafePath, VerifyLocal, Download, DownloadFails,
       UploadFails, WebMiss, WebError, WebCaptured, WebNotCaptured, WebCrawl, Crash, Restart,
       stores

\* Nothing is put into the item that was not compared with the manifest of the request.
THEOREM OnlyVerifiedUploads == Spec => UploadsAreVerified
<1> DEFINE Verified == \A p \in Paths : item'[p] # item[p] =>
             \E i \in DOMAIN manifest : manifest[i].path = p /\ Matching(item'[p], i)
<1>1. ASSUME IInv, Next PROVE Verified
  <2> SUFFICES ASSUME NEW p \in Paths, item'[p] # item[p]
               PROVE  \E i \in DOMAIN manifest : manifest[i].path = p /\ Matching(item'[p], i)
    OBVIOUS
  <2>1. Upload
    BY <1>1, OnlyUploadWrites
  <2>2. pc = "upload" /\ item' = [item EXCEPT ![manifest[next].path] = local[manifest[next].path]]
    BY <2>1 DEF Upload
  <2>3. item \in [Paths -> Contents \cup {Nothing}] /\ next \in DOMAIN manifest
    BY <1>1, <2>2 DEF IInv, TypeOK
  <2>4. p = manifest[next].path /\ item'[p] = local[p]
    BY <2>2, <2>3
  <2>5. Matching(local[manifest[next].path], next)
    BY <1>1, <2>2, <2>3 DEF IInv, UploadInv
  <2>6. QED
    BY <2>3, <2>4, <2>5
<1>2. IInv /\ [Next]_vars => [Verified]_vars
  BY <1>1
<1>3. QED
  BY <1>2, Inductive, PTL DEF Spec, UploadsAreVerified

\* Only a download writes to the working directory.
LEMMA OnlyDownloadWrites ==
  ASSUME Next, local' # local
  PROVE  Download
BY DEF Next, Process, Request, SkipRequest, LandingFails, LandingPage, FindPlatform, NoManifest,
       TakeManifest, CheckExisting, UnsafePath, VerifyLocal, Upload, DownloadFails,
       UploadFails, WebMiss, WebError, WebCaptured, WebNotCaptured, WebCrawl, Crash, Restart,
       stores

\* What the item has is not downloaded again, as far as there are digests to tell.
THEOREM DownloadsAreNeeded == Spec => NoNeedlessDownload
<1> DEFINE Needed == local' # local =>
             \E i \in DOMAIN manifest :
               digests[i] = "none" \/ ~Matching(item[manifest[i].path], i)
<1>1. ASSUME IInv, Next PROVE Needed
  <2> SUFFICES ASSUME local' # local
               PROVE  \E i \in DOMAIN manifest :
                        digests[i] = "none" \/ ~Matching(item[manifest[i].path], i)
    OBVIOUS
  <2>1. pc = "download"
    BY <1>1, OnlyDownloadWrites DEF Download
  <2>2. PICK i \in DOMAIN manifest : ~Exists(i)
    BY <1>1, <2>1 DEF IInv, DownloadInv
  <2>3. QED
    BY <2>2, ExistsIs
<1>2. IInv /\ [Next]_vars => [Needed]_vars
  BY <1>1
<1>3. QED
  BY <1>2, Inductive, PTL DEF Spec, NoNeedlessDownload
=============================================================================
