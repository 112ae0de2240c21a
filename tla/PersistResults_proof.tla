------------------------ MODULE PersistResults_proof ------------------------
(***************************************************************************)
(* For any results in any number of partitions, batches and redeliveries:  *)
(* no committed result is without its row, no row falls behind its own     *)
(* partition, and the row of a hit is never without those it is joined     *)
(* with.                                                                   *)
(***************************************************************************)
EXTENDS PersistResults, NaturalsInduction, WellFoundedInduction, TLAPS

-----------------------------------------------------------------------------
(* Sequences, sources and the last index of a set.                         *)

LEMMA LastExists ==
  ASSUME NEW n \in Nat, NEW I \in SUBSET (1 .. n), I # {}
  PROVE  LastOf(I) \in I /\ \A j \in I : j <= LastOf(I)
<1> DEFINE T == {n - i : i \in I}
<1>1. T \subseteq Nat /\ T # {}
  <2>1. \A i \in I : n - i \in Nat
    BY SMT
  <2>2. PICK i \in I : TRUE
    OBVIOUS
  <2>3. n - i \in T
    BY <2>2
  <2>4. QED
    BY <2>1, <2>3
<1>2. PICK x \in T : \A y \in T : ~(<<y, x>> \in OpToRel(<, Nat))
  BY <1>1, NatLessThanWellFounded, WFMin
<1>3. \A y \in T : ~(y < x)
  BY <1>1, <1>2 DEF OpToRel
<1>4. n - x \in I /\ \A j \in I : j <= n - x
  BY <1>3
<1>5. QED
  BY <1>4 DEF LastOf

LEMMA LastOfBatch ==
  ASSUME NEW n \in Nat, NEW B \in SUBSET (1 .. n), NEW I \in SUBSET B, I # {}
  PROVE  LastOf(I) \in B /\ LastOf(I) \in I /\ \A j \in B : j > LastOf(I) => j \notin I
<1>1. I \in SUBSET (1 .. n)
  OBVIOUS
<1>2. LastOf(I) \in I /\ \A j \in I : j <= LastOf(I)
  BY <1>1, LastExists
<1> DEFINE l == LastOf(I)
<1>3. l \in 1 .. n /\ \A j \in I : j <= l
  BY <1>1, <1>2
<1> HIDE DEF l
<1>4. \A j \in B : j > l => j \notin I
  BY <1>3
<1>5. QED
  BY <1>2, <1>4 DEF l

LEMMA LogsAre ==
  ASSUME TypeOK, NEW p \in Partitions
  PROVE  /\ position[p] \in Nat /\ committed[p] \in Nat /\ Len(log[p]) \in Nat /\ LogLen \in Nat
         /\ committed[p] <= position[p] /\ position[p] <= Len(log[p]) /\ Len(log[p]) <= LogLen
         /\ log[p] \in Seq(Results) /\ 1 .. Len(log[p]) = DOMAIN log[p]
         /\ \A i \in 1 .. Len(log[p]) : log[p][i] \in Results
<1>1. /\ log[p] \in Seq(Results) /\ position[p] \in 0 .. LogLen /\ committed[p] \in 0 .. LogLen
      /\ committed[p] <= position[p] /\ position[p] <= Len(log[p]) /\ Len(log[p]) <= LogLen
  BY DEF TypeOK
<1>2. /\ Len(log[p]) \in Nat /\ 1 .. Len(log[p]) = DOMAIN log[p]
      /\ \A i \in 1 .. Len(log[p]) : log[p][i] \in Results
  BY <1>1
<1>3. QED
  BY <1>1, <1>2, ResultsAssumption

LEMMA BatchIndices ==
  ASSUME TypeOK, NEW p \in Partitions, NEW n \in BatchSizes, position[p] + n <= Len(log[p])
  PROVE  /\ n \in Nat /\ n > 0 /\ position[p] + n \in 1 .. LogLen
         /\ position[p] + 1 \in 1 .. LogLen
         /\ position[p] + 1 .. position[p] + n \subseteq 1 .. Len(log[p])
BY LogsAre, ResultsAssumption DEF BatchSizes

LEMMA SourceIs ==
  ASSUME TypeOK, NEW s \in Source, s # NoRow
  PROVE  /\ s[1] \in Partitions /\ s[2] \in 1 .. LogLen /\ s[2] \in Nat
BY DEF Source

\* A source is never no row.
LEMMA SourceIsRow == \A p, i : <<p, i>> # NoRow
BY DEF NoRow

-----------------------------------------------------------------------------
(* What a batch makes of one row.                                          *)

LEMMA ResultUpserted ==
  ASSUME TypeOK, NEW p \in Partitions, NEW B \in SUBSET (1 .. Len(log[p])),
         InsertIngestFileResult(p, B), NEW k \in ResultKeys
  PROVE  \/ results'[k] = results[k] /\ \A i \in B : k \notin ResultRow(log[p][i])
         \/ \E i \in B :
              /\ results'[k] = <<p, i>> /\ k \in ResultRow(log[p][i])
              /\ \A j \in B : j > i => k \notin ResultRow(log[p][j])
<1> DEFINE I == {i \in B : k \in ResultRow(log[p][i])}
<1>1. k \in DOMAIN results
  BY DEF TypeOK
<1>2. results'[k] = IF I = {} THEN results[k] ELSE <<p, LastOf(I)>>
  BY <1>1 DEF InsertIngestFileResult, Upsert
<1>3. CASE I = {}
  BY <1>2, <1>3
<1>4. CASE I # {}
  <2>1. Len(log[p]) \in Nat
    BY LogsAre
  <2>2. /\ LastOf(I) \in B /\ LastOf(I) \in I
        /\ \A j \in B : j > LastOf(I) => j \notin I
    <3>1. I \in SUBSET B
      OBVIOUS
    <3> HIDE DEF I
    <3>2. QED
      BY <1>4, <2>1, <3>1, LastOfBatch
  <2>3. results'[k] = <<p, LastOf(I)>>
    BY <1>2, <1>4
  <2> DEFINE l == LastOf(I)
  <2>4. l \in B /\ k \in ResultRow(log[p][l])
    BY <2>2
  <2>5. \A j \in B : j > l => k \notin ResultRow(log[p][j])
    BY <2>2
  <2> HIDE DEF l
  <2>6. QED
    BY <2>3, <2>4, <2>5 DEF l
<1>5. QED
  BY <1>3, <1>4

LEMMA HtmlUpserted ==
  ASSUME TypeOK, NEW p \in Partitions, NEW B \in SUBSET (1 .. Len(log[p])),
         InsertHtmlMeta(p, B), NEW k \in Files
  PROVE  \/ htmlMeta'[k] = htmlMeta[k] /\ \A i \in B : k \notin HtmlRow(log[p][i])
         \/ \E i \in B :
              /\ htmlMeta'[k] = <<p, i>> /\ k \in HtmlRow(log[p][i])
              /\ \A j \in B : j > i => k \notin HtmlRow(log[p][j])
<1> DEFINE I == {i \in B : k \in HtmlRow(log[p][i])}
<1>1. k \in DOMAIN htmlMeta
  BY DEF TypeOK
<1>2. htmlMeta'[k] = IF I = {} THEN htmlMeta[k] ELSE <<p, LastOf(I)>>
  BY <1>1 DEF InsertHtmlMeta, Upsert
<1>3. CASE I = {}
  BY <1>2, <1>3
<1>4. CASE I # {}
  <2>1. Len(log[p]) \in Nat
    BY LogsAre
  <2>2. /\ LastOf(I) \in B /\ LastOf(I) \in I
        /\ \A j \in B : j > LastOf(I) => j \notin I
    <3>1. I \in SUBSET B
      OBVIOUS
    <3> HIDE DEF I
    <3>2. QED
      BY <1>4, <2>1, <3>1, LastOfBatch
  <2>3. htmlMeta'[k] = <<p, LastOf(I)>>
    BY <1>2, <1>4
  <2> DEFINE l == LastOf(I)
  <2>4. l \in B /\ k \in HtmlRow(log[p][l])
    BY <2>2
  <2>5. \A j \in B : j > l => k \notin HtmlRow(log[p][j])
    BY <2>2
  <2> HIDE DEF l
  <2>6. QED
    BY <2>3, <2>4, <2>5 DEF l
<1>5. QED
  BY <1>3, <1>4

-----------------------------------------------------------------------------
(* Steps that change no row.                                               *)

\* The tables whose rows are only inserted grow; a partition may fall back.
Grows ==
  /\ UNCHANGED <<log, results, htmlMeta>> /\ TypeOK'
  /\ evicted \subseteq evicted' /\ \A b \in late' : b[1] \in evicted'
  /\ requests \subseteq requests' /\ cdx \subseteq cdx' /\ fileMeta \subseteq fileMeta'
  /\ \A p \in Partitions : position'[p] <= position[p]

LEMMA GrowsPreserves ==
  ASSUME IInv, Grows
  PROVE  IInv'
<1> USE DEF IInv
<1>1. ASSUME NEW p \in Partitions
      PROVE  /\ 1 .. position'[p] \subseteq 1 .. position[p]
             /\ \A n \in Nat : n .. position'[p] \subseteq n .. position[p]
  <2>1. position[p] \in Nat /\ position'[p] \in Nat /\ position'[p] <= position[p]
    BY DEF Grows, TypeOK
  <2>2. QED
    BY <2>1
<1>2. Follows(results, ResultRow)'
  <2> SUFFICES ASSUME NEW k \in ResultKeys, results[k] # NoRow, results[k][1] \notin evicted
               PROVE  \A j \in results[k][2] + 1 .. position'[results[k][1]] :
                        k \notin ResultRow(log[results[k][1]][j])
    BY DEF Follows, Grows, TypeOK
  <2>1. results[k] \in Source
    BY DEF TypeOK
  <2>2. results[k][1] \in Partitions /\ results[k][2] + 1 \in Nat
    BY <2>1, SourceIs
  <2>3. QED
    BY <1>1, <2>2 DEF Follows, TypeOK
<1>3. Follows(htmlMeta, HtmlRow)'
  <2> SUFFICES ASSUME NEW k \in Files, htmlMeta[k] # NoRow, htmlMeta[k][1] \notin evicted
               PROVE  \A j \in htmlMeta[k][2] + 1 .. position'[htmlMeta[k][1]] :
                        k \notin HtmlRow(log[htmlMeta[k][1]][j])
    BY DEF Follows, Grows, TypeOK
  <2>1. htmlMeta[k] \in Source
    BY DEF TypeOK
  <2>2. htmlMeta[k][1] \in Partitions /\ htmlMeta[k][2] + 1 \in Nat
    BY <2>1, SourceIs
  <2>3. QED
    BY <1>1, <2>2 DEF Follows, TypeOK
<1>4. PushedHasRow'
  BY <1>1 DEF PushedHasRow, Grows
<1>5. HitsAreComplete'
  BY DEF HitsAreComplete, Grows, Of
<1>6. IsOfItsKey(results, ResultRow)' /\ IsOfItsKey(htmlMeta, HtmlRow)'
  BY DEF IsOfItsKey, Grows, Of
<1>7. QED
  BY <1>2, <1>3, <1>4, <1>5, <1>6 DEF Grows

LEMMA RequestRowTyped ==
  ASSUME NEW q \in AllRequests
  PROVE  RequestRow(q) \subseteq UNION {RequestRow(r) : r \in AllRequests}
OBVIOUS

LEMMA QuietGrows ==
  ASSUME IInv,
         \/ \E p \in Partitions : CommitOffset(p) \/ Crash(p) \/ Evict(p)
         \/ PushRequest \/ PushCdx \/ UNCHANGED vars
  PROVE  Grows
<1> USE DEF IInv
<1>0. \A p \in Partitions : position[p] <= position[p] /\ position[p] \in 0 .. LogLen
                            /\ committed[p] \in 0 .. LogLen
                            /\ committed[p] <= committed[p]
                            /\ committed[p] <= position[p] /\ position[p] <= Len(log[p])
                            /\ committed[p] <= Len(log[p])
  BY LogsAre DEF TypeOK
<1>1. ASSUME NEW p \in Partitions, CommitOffset(p) PROVE Grows
  <2>1. /\ committed' = [committed EXCEPT ![p] = position[p]]
        /\ UNCHANGED <<log, position, requests, cdx, fileMeta, results, htmlMeta, crashes,
                       late, evicted>>
    BY <1>1 DEF CommitOffset, tables, evictionVars
  <2>2. TypeOK'
    BY <1>0, <2>1 DEF TypeOK
  <2>3. QED
    BY <1>0, <2>1, <2>2 DEF Grows
<1>2. ASSUME NEW p \in Partitions, Crash(p) PROVE Grows
  <2>1. /\ position' = [position EXCEPT ![p] = committed[p]]
        /\ UNCHANGED <<log, committed, requests, cdx, fileMeta, results, htmlMeta, late, evicted>>
        /\ crashes' \in 0 .. MaxCrashes
    BY <1>2, ResultsAssumption DEF Crash, tables, evictionVars, TypeOK
  <2>2. TypeOK'
    BY <1>0, <2>1 DEF TypeOK
  <2>3. \A q \in Partitions : position'[q] <= position[q]
    BY <1>0, <2>1 DEF TypeOK
  <2>4. QED
    BY <2>1, <2>2, <2>3 DEF Grows
<1>3. CASE PushRequest
  <2>1. PICK q \in Requests : requests' = requests \cup RequestRow(q)
    BY <1>3 DEF PushRequest
  <2>2. requests' \subseteq UNION {RequestRow(r) : r \in AllRequests}
    BY <2>1, RequestRowTyped DEF TypeOK, AllRequests
  <2>3. TypeOK'
    BY <1>3, <2>2 DEF TypeOK, PushRequest, evictionVars
  <2>4. QED
    BY <1>0, <1>3, <2>1, <2>3 DEF Grows, PushRequest, evictionVars
<1>4. CASE PushCdx
  <2>1. cdx \subseteq cdx' /\ cdx' \subseteq {c.key : c \in CdxRows}
    BY <1>4 DEF PushCdx, TypeOK, CdxRows
  <2>2. TypeOK'
    BY <1>4, <2>1 DEF TypeOK, PushCdx, evictionVars
  <2>3. QED
    BY <1>0, <1>4, <2>1, <2>2 DEF Grows, PushCdx, evictionVars
<1>5. CASE UNCHANGED vars
  <2>1. UNCHANGED <<log, position, committed, requests, cdx, fileMeta, results, htmlMeta, crashes,
                    late, evicted>>
    BY <1>5 DEF vars, tables, evictionVars
  <2>2. TypeOK'
    BY <2>1 DEF TypeOK
  <2>3. QED
    BY <1>0, <2>1, <2>2 DEF Grows
<1>6. ASSUME NEW p \in Partitions, Evict(p) PROVE Grows
  <2>1. PICK n \in BatchSizes :
          /\ position[p] + n <= Len(log[p])
          /\ late' = late \cup {<<p, position[p] + 1, position[p] + n>>}
    BY <1>6 DEF Evict
  <2>2. /\ position' = [position EXCEPT ![p] = committed[p]]
        /\ UNCHANGED <<log, committed, requests, cdx, fileMeta, results, htmlMeta>>
        /\ crashes' \in 0 .. MaxCrashes /\ evicted' = evicted \cup {p}
    BY <1>6, ResultsAssumption DEF Evict, tables, TypeOK
  <2>3. position[p] + 1 \in 1 .. LogLen /\ position[p] + n \in 1 .. LogLen
    BY <2>1, BatchIndices
  <2>4. \A b \in late' : /\ b \in Partitions \X (1 .. LogLen) \X (1 .. LogLen)
                         /\ b[3] <= Len(log[b[1]]) /\ b[1] \in evicted'
    <3> SUFFICES ASSUME NEW b \in late'
                 PROVE  /\ b \in Partitions \X (1 .. LogLen) \X (1 .. LogLen)
                        /\ b[3] <= Len(log[b[1]]) /\ b[1] \in evicted'
      OBVIOUS
    <3>1. CASE b \in late
      BY <2>2, <3>1 DEF TypeOK
    <3>2. CASE b = <<p, position[p] + 1, position[p] + n>>
      BY <2>1, <2>2, <2>3, <3>2
    <3>3. QED
      BY <2>1, <3>1, <3>2
  <2>5. TypeOK'
    BY <1>0, <2>2, <2>4 DEF TypeOK
  <2>6. \A q \in Partitions : position'[q] <= position[q]
    BY <1>0, <2>2 DEF TypeOK
  <2>7. QED
    BY <2>2, <2>4, <2>5, <2>6 DEF Grows
<1>7. QED
  BY <1>1, <1>2, <1>3, <1>4, <1>5, <1>6

LEMMA PublishPreserves ==
  ASSUME IInv, NEW p \in Partitions, Publish(p)
  PROVE  IInv'
<1> USE DEF IInv
<1>1. PICK r \in Results : log' = [log EXCEPT ![p] = Append(@, r)]
  BY DEF Publish
<1>2. UNCHANGED <<position, committed, requests, cdx, fileMeta, results, htmlMeta, crashes,
                  late, evicted>>
      /\ Len(log[p]) < LogLen
  BY DEF Publish, tables, evictionVars
<1>3. ASSUME NEW q \in Partitions
      PROVE  /\ log'[q] \in Seq(Results) /\ Len(log[q]) <= Len(log'[q]) /\ Len(log'[q]) <= LogLen
             /\ \A i \in 1 .. Len(log[q]) : log'[q][i] = log[q][i]
  <2>1. log[q] \in Seq(Results) /\ log[p] \in Seq(Results) /\ log \in [Partitions -> Seq(Results)]
    BY DEF TypeOK
  <2>2. CASE q = p
    <3>1. log'[q] = Append(log[q], r)
      BY <1>1, <2>1, <2>2
    <3>2. QED
      BY <1>2, <2>1, <2>2, <3>1, ResultsAssumption
  <2>3. CASE q # p
    <3>1. log'[q] = log[q]
      BY <1>1, <2>1, <2>3
    <3>2. QED
      BY <2>1, <3>1, LogsAre
  <2>4. QED
    BY <2>2, <2>3
<1>4. TypeOK'
  <2>1. log' \in [Partitions -> Seq(Results)]
    BY <1>1, <1>3 DEF TypeOK
  <2>2. \A q \in Partitions : position[q] <= Len(log'[q]) /\ Len(log'[q]) <= LogLen
    <3> SUFFICES ASSUME NEW q \in Partitions PROVE position[q] <= Len(log'[q])
      BY <1>3
    <3>1. Len(log'[q]) \in Nat
      BY <1>3
    <3>2. QED
      BY <1>3, <3>1, LogsAre
  <2>3. \A b \in late : b[3] <= Len(log'[b[1]])
    <3> SUFFICES ASSUME NEW b \in late PROVE b[3] <= Len(log'[b[1]])
      OBVIOUS
    <3>1. b[1] \in Partitions /\ b[3] \in Nat /\ b[3] <= Len(log[b[1]])
      BY DEF TypeOK
    <3>2. Len(log[b[1]]) \in Nat /\ Len(log'[b[1]]) \in Nat
      BY <1>3, <3>1, LogsAre
    <3>3. QED
      BY <1>3, <3>1, <3>2
  <2>4. QED
    BY <1>2, <2>1, <2>2, <2>3 DEF TypeOK
<1>5. ASSUME NEW s \in Source, s # NoRow, s[2] <= Len(log[s[1]])
      PROVE  /\ Of(s)' = Of(s) /\ s[2] <= Len(log'[s[1]])
             /\ \A j \in s[2] + 1 .. position[s[1]] : log'[s[1]][j] = log[s[1]][j]
  <2>1. s[1] \in Partitions /\ s[2] \in 1 .. LogLen /\ s[2] \in Nat
    BY <1>5, SourceIs
  <2>2. s[2] \in 1 .. Len(log[s[1]]) /\ Len(log'[s[1]]) \in Nat
    BY <1>3, <1>5, <2>1, LogsAre
  <2>3. s[2] + 1 .. position[s[1]] \subseteq 1 .. Len(log[s[1]])
    BY <2>1, LogsAre
  <2>4. s[2] <= Len(log'[s[1]])
    BY <1>3, <1>5, <2>1, <2>2, LogsAre
  <2>5. QED
    BY <1>3, <2>1, <2>2, <2>3, <2>4 DEF Of
<1>6. IsOfItsKey(results, ResultRow)' /\ Follows(results, ResultRow)'
  <2> SUFFICES ASSUME NEW k \in ResultKeys, results[k] # NoRow
               PROVE  /\ results[k][2] <= Len(log'[results[k][1]])
                      /\ k \in ResultRow(Of(results[k])')
                      /\ results[k][1] \notin evicted =>
                           \A j \in results[k][2] + 1 .. position[results[k][1]] :
                             k \notin ResultRow(log'[results[k][1]][j])
    BY <1>2 DEF IsOfItsKey, Follows, TypeOK, Of
  <2>1. /\ results[k] \in Source /\ results[k][2] <= Len(log[results[k][1]])
        /\ k \in ResultRow(Of(results[k]))
        /\ results[k][1] \notin evicted =>
             \A j \in results[k][2] + 1 .. position[results[k][1]] : k \notin ResultRow(log[results[k][1]][j])
    BY DEF TypeOK, IsOfItsKey, Follows
  <2>2. /\ Of(results[k])' = Of(results[k]) /\ results[k][2] <= Len(log'[results[k][1]])
        /\ \A j \in results[k][2] + 1 .. position[results[k][1]] :
             log'[results[k][1]][j] = log[results[k][1]][j]
    BY <1>2, <1>5, <2>1 DEF Of
  <2>3. QED
    BY <2>1, <2>2
<1>7. IsOfItsKey(htmlMeta, HtmlRow)' /\ Follows(htmlMeta, HtmlRow)'
  <2> SUFFICES ASSUME NEW k \in Files, htmlMeta[k] # NoRow
               PROVE  /\ htmlMeta[k][2] <= Len(log'[htmlMeta[k][1]])
                      /\ k \in HtmlRow(Of(htmlMeta[k])')
                      /\ htmlMeta[k][1] \notin evicted =>
                           \A j \in htmlMeta[k][2] + 1 .. position[htmlMeta[k][1]] :
                             k \notin HtmlRow(log'[htmlMeta[k][1]][j])
    BY <1>2 DEF IsOfItsKey, Follows, TypeOK, Of
  <2>1. /\ htmlMeta[k] \in Source /\ htmlMeta[k][2] <= Len(log[htmlMeta[k][1]])
        /\ k \in HtmlRow(Of(htmlMeta[k]))
        /\ htmlMeta[k][1] \notin evicted =>
             \A j \in htmlMeta[k][2] + 1 .. position[htmlMeta[k][1]] : k \notin HtmlRow(log[htmlMeta[k][1]][j])
    BY DEF TypeOK, IsOfItsKey, Follows
  <2>2. /\ Of(htmlMeta[k])' = Of(htmlMeta[k]) /\ htmlMeta[k][2] <= Len(log'[htmlMeta[k][1]])
        /\ \A j \in htmlMeta[k][2] + 1 .. position[htmlMeta[k][1]] :
             log'[htmlMeta[k][1]][j] = log[htmlMeta[k][1]][j]
    BY <1>2, <1>5, <2>1 DEF Of
  <2>3. QED
    BY <2>1, <2>2
<1>8. HitsAreComplete'
  <2>1. ASSUME NEW k \in ResultKeys, results[k] # NoRow
        PROVE  log'[results[k][1]][results[k][2]] = log[results[k][1]][results[k][2]]
    <3>1. results[k] \in Source /\ results[k][2] <= Len(log[results[k][1]])
      BY <2>1 DEF TypeOK, IsOfItsKey
    <3>2. QED
      BY <1>2, <1>5, <2>1, <3>1 DEF Of
  <2>2. QED
    BY <1>2, <2>1 DEF HitsAreComplete, Of
<1>9. PushedHasRow'
  <2>1. \A q \in Partitions : 1 .. position[q] \subseteq 1 .. Len(log[q])
    BY LogsAre
  <2>2. \A q \in Partitions : \A i \in 1 .. position[q] : log'[q][i] = log[q][i]
    BY <1>3, <2>1
  <2>3. QED
    BY <1>2, <2>2 DEF PushedHasRow
<1>10. QED
  BY <1>2, <1>4, <1>6, <1>7, <1>8, <1>9

-----------------------------------------------------------------------------
(* A batch.                                                                *)

LEMMA RowsTyped ==
  ASSUME NEW r \in Results
  PROVE  /\ RequestRow(r.request) \subseteq UNION {RequestRow(q) : q \in AllRequests}
         /\ CdxRow(r) \subseteq {c.key : c \in CdxRows} /\ FileRow(r) \subseteq Files
         /\ ResultRow(r) \subseteq ResultKeys
         /\ r.html => r.file \in Files
<1>1. RequestRow(r.request) \subseteq UNION {RequestRow(q) : q \in AllRequests}
  BY DEF AllRequests
<1>2. CdxRow(r) \subseteq {c.key : c \in CdxRows}
  BY DEF CdxRow, CdxRows
<1>3. FileRow(r) \subseteq Files
  BY DEF FileRow, Files
<1>4. ResultRow(r) \subseteq ResultKeys
  BY DEF ResultKeys
<1>5. r.html => r.file \in Files
  BY ResultsAssumption DEF Files
<1>6. QED
  BY <1>1, <1>2, <1>3, <1>4, <1>5

\* A transaction with records B of a partition, all those its position passes.  A batch of a
\* partition no worker of which was evicted is the last one up to the new position.
Pushes(p, B) ==
  /\ B \subseteq 1 .. Len(log[p]) /\ Transaction(p, B)
  /\ position' \in [Partitions -> 0 .. LogLen]
  /\ \A q \in Partitions : committed[q] <= position'[q] /\ position'[q] <= Len(log[q])
  /\ \A q \in Partitions \ {p} : position'[q] = position[q]
  /\ position[p] + 1 .. position'[p] \subseteq B
  /\ p \notin evicted => \A i \in B : i + 1 .. position'[p] \subseteq B
  /\ late' \subseteq late /\ UNCHANGED <<log, committed, crashes, evicted>>

LEMMA PushesPreserves ==
  ASSUME IInv, NEW p \in Partitions, NEW B, Pushes(p, B)
  PROVE  IInv'
<1> USE DEF IInv
<1>1. /\ UNCHANGED <<log, committed, crashes, evicted>> /\ late' \subseteq late
      /\ requests' = requests \cup UNION {RequestRow(log[p][i].request) : i \in B}
      /\ cdx' = cdx \cup UNION {CdxRow(log[p][i]) : i \in B}
      /\ fileMeta' = fileMeta \cup UNION {FileRow(log[p][i]) : i \in B}
      /\ InsertIngestFileResult(p, B) /\ InsertHtmlMeta(p, B)
  BY DEF Pushes, Transaction, InsertIngestRequest, InsertCdx, InsertFileMeta, RowsOf
<1>2. /\ B \in SUBSET (1 .. Len(log[p])) /\ Len(log[p]) \in Nat /\ Len(log[p]) <= LogLen
      /\ \A i \in B : log[p][i] \in Results /\ i \in 1 .. LogLen
  <2>1. B \in SUBSET (1 .. Len(log[p]))
    BY DEF Pushes
  <2>2. /\ Len(log[p]) \in Nat /\ Len(log[p]) <= LogLen /\ LogLen \in Nat
        /\ \A i \in 1 .. Len(log[p]) : log[p][i] \in Results
    BY LogsAre
  <2>3. QED
    BY <2>1, <2>2
<1>3. /\ position' \in [Partitions -> 0 .. LogLen]
      /\ \A q \in Partitions : committed[q] <= position'[q] /\ position'[q] <= Len(log[q])
      /\ \A q \in Partitions : q # p => position'[q] = position[q]
      /\ position[p] \in Nat /\ position'[p] \in Nat
      /\ \A j \in position[p] + 1 .. position'[p] : j \in B
      /\ p \notin evicted => \A i \in B : \A j \in i + 1 .. position'[p] : j \in B
  <2>1. /\ position' \in [Partitions -> 0 .. LogLen]
        /\ \A q \in Partitions : committed[q] <= position'[q] /\ position'[q] <= Len(log[q])
        /\ \A q \in Partitions \ {p} : position'[q] = position[q]
        /\ position[p] + 1 .. position'[p] \subseteq B
        /\ p \notin evicted => \A i \in B : i + 1 .. position'[p] \subseteq B
    BY DEF Pushes
  <2>2. position[p] \in Nat
    BY LogsAre
  <2>3. position'[p] \in Nat
    BY <2>1, ResultsAssumption
  <2>4. \A q \in Partitions : q # p => position'[q] = position[q]
    BY <2>1
  <2>5. \A j \in position[p] + 1 .. position'[p] : j \in B
    BY <2>1
  <2>6. p \notin evicted => \A i \in B : \A j \in i + 1 .. position'[p] : j \in B
    BY <2>1
  <2>7. QED
    BY <2>1, <2>2, <2>3, <2>4, <2>5, <2>6
<1>4. requests \subseteq requests' /\ cdx \subseteq cdx' /\ fileMeta \subseteq fileMeta'
  BY <1>1
<1>5. ASSUME NEW k \in ResultKeys
       PROVE  \/ results'[k] = results[k] /\ \A i \in B : k \notin ResultRow(log[p][i])
              \/ \E i \in B : /\ results'[k] = <<p, i>> /\ k \in ResultRow(log[p][i])
                              /\ \A j \in B : j > i => k \notin ResultRow(log[p][j])
  BY <1>1, <1>2, ResultUpserted
<1>6. ASSUME NEW k \in Files
       PROVE  \/ htmlMeta'[k] = htmlMeta[k] /\ \A i \in B : k \notin HtmlRow(log[p][i])
              \/ \E i \in B : /\ htmlMeta'[k] = <<p, i>> /\ k \in HtmlRow(log[p][i])
                              /\ \A j \in B : j > i => k \notin HtmlRow(log[p][j])
  BY <1>1, <1>2, HtmlUpserted
<1>7. TypeOK'
  <2>1. requests' \subseteq UNION {RequestRow(q) : q \in AllRequests}
    BY <1>1, <1>2, RowsTyped DEF TypeOK
  <2>2. cdx' \subseteq {c.key : c \in CdxRows} /\ fileMeta' \subseteq Files
    BY <1>1, <1>2, RowsTyped DEF TypeOK
  <2>3. results' \in [ResultKeys -> Source]
    <3>1. ASSUME NEW k \in ResultKeys PROVE results'[k] \in Source
      <4>1. results[k] \in Source /\ \A i \in B : <<p, i>> \in Source
        BY <1>2 DEF TypeOK, Source
      <4>2. QED
        BY <4>1, <1>5
    <3>2. results' = [k \in ResultKeys |-> results'[k]]
      BY <1>1 DEF InsertIngestFileResult, Upsert, TypeOK
    <3>3. QED
      BY <3>1, <3>2
  <2>4. htmlMeta' \in [Files -> Source]
    <3>1. ASSUME NEW k \in Files PROVE htmlMeta'[k] \in Source
      <4>1. htmlMeta[k] \in Source /\ \A i \in B : <<p, i>> \in Source
        BY <1>2 DEF TypeOK, Source
      <4>2. QED
        BY <4>1, <1>6
    <3>2. htmlMeta' = [k \in Files |-> htmlMeta'[k]]
      BY <1>1 DEF InsertHtmlMeta, Upsert, TypeOK
    <3>3. QED
      BY <3>1, <3>2
  <2>5. QED
    BY <1>1, <1>3, <2>1, <2>2, <2>3, <2>4 DEF TypeOK
<1>8. IsOfItsKey(results, ResultRow)' /\ Follows(results, ResultRow)'
  <2> SUFFICES ASSUME NEW k \in ResultKeys, results'[k] # NoRow
               PROVE  /\ results'[k][2] <= Len(log[results'[k][1]])
                      /\ k \in ResultRow(log[results'[k][1]][results'[k][2]])
                      /\ results'[k][1] \notin evicted =>
                           \A j \in results'[k][2] + 1 .. position'[results'[k][1]] :
                             k \notin ResultRow(log[results'[k][1]][j])
    BY <1>1, <1>7 DEF IsOfItsKey, Follows, TypeOK, Of
  <2>1. CASE results'[k] = results[k] /\ \A i \in B : k \notin ResultRow(log[p][i])
    <3>1. /\ results[k] \in Source /\ results[k][2] <= Len(log[results[k][1]])
          /\ k \in ResultRow(log[results[k][1]][results[k][2]])
          /\ results[k][1] \notin evicted =>
               \A j \in results[k][2] + 1 .. position[results[k][1]] : k \notin ResultRow(log[results[k][1]][j])
      BY <2>1 DEF TypeOK, IsOfItsKey, Follows, Of
    <3>2. results[k][1] \in Partitions /\ results[k][2] \in Nat
      BY <2>1, <3>1, SourceIs
    <3>3. CASE results[k][1] = p
      <4>1. \A j \in results[k][2] + 1 .. position'[p] :
              j \in results[k][2] + 1 .. position[p] \/ j \in B
        BY <1>3, <3>2
      <4>2. QED
        BY <2>1, <3>1, <3>3, <4>1
    <3>4. CASE results[k][1] # p
      BY <1>3, <2>1, <3>1, <3>2, <3>4
    <3>5. QED
      BY <3>3, <3>4
  <2>2. ASSUME NEW i \in B, results'[k] = <<p, i>>, k \in ResultRow(log[p][i]),
               \A j \in B : j > i => k \notin ResultRow(log[p][j])
        PROVE  /\ results'[k][2] <= Len(log[results'[k][1]])
               /\ k \in ResultRow(log[results'[k][1]][results'[k][2]])
               /\ results'[k][1] \notin evicted =>
                    \A j \in results'[k][2] + 1 .. position'[results'[k][1]] :
                      k \notin ResultRow(log[results'[k][1]][j])
    <3>1. /\ i \in Nat /\ i <= Len(log[p])
          /\ p \notin evicted => \A j \in i + 1 .. position'[p] : j \in B /\ j > i
      BY <1>2, <1>3
    <3>2. QED
      BY <2>2, <3>1
  <2>3. QED
    BY <1>5, <2>1, <2>2
<1>9. IsOfItsKey(htmlMeta, HtmlRow)' /\ Follows(htmlMeta, HtmlRow)'
  <2> SUFFICES ASSUME NEW k \in Files, htmlMeta'[k] # NoRow
               PROVE  /\ htmlMeta'[k][2] <= Len(log[htmlMeta'[k][1]])
                      /\ k \in HtmlRow(log[htmlMeta'[k][1]][htmlMeta'[k][2]])
                      /\ htmlMeta'[k][1] \notin evicted =>
                           \A j \in htmlMeta'[k][2] + 1 .. position'[htmlMeta'[k][1]] :
                             k \notin HtmlRow(log[htmlMeta'[k][1]][j])
    BY <1>1, <1>7 DEF IsOfItsKey, Follows, TypeOK, Of
  <2>1. CASE htmlMeta'[k] = htmlMeta[k] /\ \A i \in B : k \notin HtmlRow(log[p][i])
    <3>1. /\ htmlMeta[k] \in Source /\ htmlMeta[k][2] <= Len(log[htmlMeta[k][1]])
          /\ k \in HtmlRow(log[htmlMeta[k][1]][htmlMeta[k][2]])
          /\ htmlMeta[k][1] \notin evicted =>
               \A j \in htmlMeta[k][2] + 1 .. position[htmlMeta[k][1]] : k \notin HtmlRow(log[htmlMeta[k][1]][j])
      BY <2>1 DEF TypeOK, IsOfItsKey, Follows, Of
    <3>2. htmlMeta[k][1] \in Partitions /\ htmlMeta[k][2] \in Nat
      BY <2>1, <3>1, SourceIs
    <3>3. CASE htmlMeta[k][1] = p
      <4>1. \A j \in htmlMeta[k][2] + 1 .. position'[p] :
              j \in htmlMeta[k][2] + 1 .. position[p] \/ j \in B
        BY <1>3, <3>2
      <4>2. QED
        BY <2>1, <3>1, <3>3, <4>1
    <3>4. CASE htmlMeta[k][1] # p
      BY <1>3, <2>1, <3>1, <3>2, <3>4
    <3>5. QED
      BY <3>3, <3>4
  <2>2. ASSUME NEW i \in B, htmlMeta'[k] = <<p, i>>, k \in HtmlRow(log[p][i]),
               \A j \in B : j > i => k \notin HtmlRow(log[p][j])
        PROVE  /\ htmlMeta'[k][2] <= Len(log[htmlMeta'[k][1]])
               /\ k \in HtmlRow(log[htmlMeta'[k][1]][htmlMeta'[k][2]])
               /\ htmlMeta'[k][1] \notin evicted =>
                    \A j \in htmlMeta'[k][2] + 1 .. position'[htmlMeta'[k][1]] :
                      k \notin HtmlRow(log[htmlMeta'[k][1]][j])
    <3>1. /\ i \in Nat /\ i <= Len(log[p])
          /\ p \notin evicted => \A j \in i + 1 .. position'[p] : j \in B /\ j > i
      BY <1>2, <1>3
    <3>2. QED
      BY <2>2, <3>1
  <2>3. QED
    BY <1>6, <2>1, <2>2
<1>10. \A k \in ResultKeys :
        /\ results[k] # NoRow => results'[k] # NoRow
        /\ \A i \in B : k \in ResultRow(log[p][i]) => results'[k] # NoRow
  BY <1>5, SourceIsRow
<1>11. \A k \in Files :
        /\ htmlMeta[k] # NoRow => htmlMeta'[k] # NoRow
        /\ \A i \in B : k \in HtmlRow(log[p][i]) => htmlMeta'[k] # NoRow
  BY <1>6, SourceIsRow
<1>12. PushedHasRow'
  <2> SUFFICES ASSUME NEW q \in Partitions, NEW i \in 1 .. position'[q]
               PROVE  /\ \A k \in ResultRow(log[q][i]) : results'[k] # NoRow
                      /\ RequestRow(log[q][i].request) \subseteq requests'
    BY <1>1 DEF PushedHasRow
  <2>1. CASE i \in 1 .. position[q]
    <3>1. log[q][i] \in Results
      BY <2>1, LogsAre
    <3>2. ResultRow(log[q][i]) \subseteq ResultKeys
      BY <3>1, RowsTyped
    <3>3. QED
      BY <1>4, <1>10, <2>1, <3>2 DEF PushedHasRow
  <2>2. CASE q = p /\ i \in B
    <3>1. ResultRow(log[q][i]) \subseteq ResultKeys
      BY <1>2, <2>2, RowsTyped
    <3>2. QED
      BY <1>1, <1>10, <2>2, <3>1
  <2>3. i \in 1 .. position[q] \/ (q = p /\ i \in B)
    BY <1>3
  <2>4. QED
    BY <2>1, <2>2, <2>3
<1>13. HitsAreComplete'
  <2> SUFFICES ASSUME NEW k \in ResultKeys, results'[k] # NoRow,
                      NEW r, r = log[results'[k][1]][results'[k][2]], r.hit
               PROVE  /\ r.file # NoFile => r.file \in fileMeta'
                      /\ r.html => htmlMeta'[r.file] # NoRow
                      /\ \A c \in r.cdx : c.warc => c.key \in cdx'
                      /\ RequestRow(r.request) \subseteq requests'
    BY <1>1 DEF HitsAreComplete, Of
  <2>1. CASE results'[k] = results[k]
    <3>1. results[k] \in Source /\ results[k][2] <= Len(log[results[k][1]])
      BY <2>1 DEF TypeOK, IsOfItsKey
    <3>2. r \in Results
      BY <2>1, <3>1, SourceIs, LogsAre
    <3>3. /\ r.file # NoFile => r.file \in fileMeta
          /\ r.html => htmlMeta[r.file] # NoRow
          /\ \A c \in r.cdx : c.warc => c.key \in cdx
          /\ RequestRow(r.request) \subseteq requests
      BY <2>1 DEF HitsAreComplete, Of
    <3>4. r.html => r.file \in Files
      BY <3>2, RowsTyped
    <3>5. QED
      BY <1>4, <1>11, <3>3, <3>4
  <2>2. ASSUME NEW i \in B, results'[k] = <<p, i>>
        PROVE  /\ r.file # NoFile => r.file \in fileMeta'
               /\ r.html => htmlMeta'[r.file] # NoRow
               /\ \A c \in r.cdx : c.warc => c.key \in cdx'
               /\ RequestRow(r.request) \subseteq requests'
    <3>1. r = log[p][i] /\ r \in Results
      BY <1>2, <2>2
    <3>2. FileRow(r) \subseteq fileMeta' /\ CdxRow(r) \subseteq cdx'
          /\ RequestRow(r.request) \subseteq requests'
      BY <1>1, <3>1
    <3>3. r.file # NoFile => r.file \in fileMeta'
      BY <3>2 DEF FileRow
    <3>4. r.html => htmlMeta'[r.file] # NoRow
      BY <1>11, <3>1, RowsTyped DEF HtmlRow
    <3>5. \A c \in r.cdx : c.warc => c.key \in cdx'
      BY <3>2 DEF CdxRow
    <3>6. QED
      BY <3>2, <3>3, <3>4, <3>5
  <2>3. QED
    BY <1>5, <2>1, <2>2
<1>14. \A b \in late' : b[1] \in evicted'
  BY <1>1
<1>15. QED
  BY <1>7, <1>8, <1>9, <1>12, <1>13, <1>14

LEMMA StepPreserves ==
  ASSUME IInv, [Next]_vars
  PROVE  IInv'
<1>1. ASSUME NEW p \in Partitions, PushBatch(p) PROVE IInv'
  <2>1. PICK n \in BatchSizes :
          /\ position[p] + n <= Len(log[p])
          /\ Transaction(p, position[p] + 1 .. position[p] + n)
          /\ position' = [position EXCEPT ![p] = @ + n]
    BY <1>1 DEF PushBatch
  <2> DEFINE B == position[p] + 1 .. position[p] + n
  <2>2. TypeOK /\ UNCHANGED <<log, committed, crashes, late, evicted>>
    BY <1>1 DEF PushBatch, IInv, evictionVars
  <2>3. /\ B \subseteq 1 .. Len(log[p]) /\ n \in Nat /\ position[p] \in Nat
        /\ position[p] + n \in 1 .. LogLen /\ committed[p] <= position[p] /\ committed[p] \in Nat
        /\ \A q \in Partitions : committed[q] <= position[q] /\ position[q] <= Len(log[q])
    BY <2>1, <2>2, BatchIndices, LogsAre
  <2>4. /\ position' \in [Partitions -> 0 .. LogLen] /\ position'[p] = position[p] + n
        /\ \A q \in Partitions \ {p} : position'[q] = position[q]
    BY <2>1, <2>2, <2>3 DEF TypeOK
  <2>5. \A q \in Partitions : committed[q] <= position'[q] /\ position'[q] <= Len(log[q])
    <3> SUFFICES ASSUME NEW q \in Partitions
                 PROVE  committed[q] <= position'[q] /\ position'[q] <= Len(log[q])
      OBVIOUS
    <3>1. CASE q = p
      BY <2>1, <2>3, <2>4, <3>1
    <3>2. CASE q # p
      BY <2>3, <2>4, <3>2
    <3>3. QED
      BY <3>1, <3>2
  <2>6. position[p] + 1 .. position'[p] \subseteq B /\ \A i \in B : i + 1 .. position'[p] \subseteq B
    BY <2>3, <2>4
  <2>7. Pushes(p, B)
    BY <2>1, <2>2, <2>3, <2>4, <2>5, <2>6 DEF Pushes
  <2>8. QED
    BY <2>7, PushesPreserves
<1>2. CASE PushLate
  <2>1. PICK b \in late : Transaction(b[1], b[2] .. b[3]) /\ late' = late \ {b}
    BY <1>2 DEF PushLate
  <2>2. TypeOK /\ UNCHANGED <<log, position, committed, crashes, evicted>>
    BY <1>2 DEF PushLate, IInv
  <2> DEFINE p == b[1]
             B == b[2] .. b[3]
  <2>3. /\ p \in Partitions /\ p \in evicted
        /\ b[2] \in 1 .. LogLen /\ b[3] \in 1 .. LogLen /\ b[3] <= Len(log[p])
    BY DEF IInv, TypeOK
  <2>4. /\ B \subseteq 1 .. Len(log[p]) /\ position \in [Partitions -> 0 .. LogLen]
        /\ \A q \in Partitions : committed[q] <= position[q] /\ position[q] <= Len(log[q])
    <3>1. Len(log[p]) \in Nat
      BY <2>2, <2>3, LogsAre
    <3> HIDE DEF p
    <3>2. B \subseteq 1 .. Len(log[p])
      BY <2>3, <3>1
    <3>3. QED
      BY <2>2, <3>2, LogsAre DEF TypeOK
  <2> HIDE DEF p, B
  <2>5. position[p] + 1 .. position[p] \subseteq B
    <3>1. position[p] \in Nat
      BY <2>2, <2>3, LogsAre
    <3>2. position[p] + 1 .. position[p] = {}
      BY <3>1
    <3>3. QED
      BY <3>2
  <2>6. Transaction(p, B) /\ late' \subseteq late
    BY <2>1 DEF p, B
  <2>7. Pushes(p, B)
    BY <2>2, <2>3, <2>4, <2>5, <2>6 DEF Pushes
  <2>8. QED
    BY <2>3, <2>7, PushesPreserves
<1>3. ASSUME NEW p \in Partitions, Publish(p) PROVE IInv'
  BY <1>3, PublishPreserves
<1>4. CASE \/ \E p \in Partitions : CommitOffset(p) \/ Crash(p) \/ Evict(p)
           \/ PushRequest \/ PushCdx \/ UNCHANGED vars
  BY <1>4, QuietGrows, GrowsPreserves
<1>5. QED
  BY <1>1, <1>2, <1>3, <1>4 DEF Next

LEMMA InitEstablishes ==
  ASSUME Init
  PROVE  IInv
<1>1. \A p \in Partitions : log[p] = <<>> /\ position[p] = 0 /\ committed[p] = 0
  BY DEF Init
<1>2. \A k \in ResultKeys : results[k] = NoRow
  BY DEF Init
<1>3. \A k \in Files : htmlMeta[k] = NoRow
  BY DEF Init
<1>4. TypeOK
  <2>1. log \in [Partitions -> Seq(Results)] /\ \A p \in Partitions : Len(log[p]) = 0
    BY DEF Init
  <2>2. /\ position \in [Partitions -> 0 .. LogLen] /\ committed \in [Partitions -> 0 .. LogLen]
        /\ crashes \in 0 .. MaxCrashes /\ late = {} /\ evicted = {}
    BY ResultsAssumption DEF Init
  <2>3. results \in [ResultKeys -> Source] /\ htmlMeta \in [Files -> Source]
    BY DEF Init, Source
  <2>4. requests = {} /\ cdx = {} /\ fileMeta = {}
    BY DEF Init
  <2>5. \A p \in Partitions : committed[p] <= position[p] /\ position[p] <= Len(log[p])
                              /\ Len(log[p]) <= LogLen
    <3> SUFFICES ASSUME NEW p \in Partitions
                 PROVE  /\ committed[p] <= position[p] /\ position[p] <= Len(log[p])
                        /\ Len(log[p]) <= LogLen
      OBVIOUS
    <3>1. committed[p] = 0 /\ position[p] = 0 /\ Len(log[p]) = 0
      BY <1>1, <2>1
    <3>2. QED
      BY <3>1, ResultsAssumption
  <2>6. QED
    BY <2>1, <2>2, <2>3, <2>4, <2>5 DEF TypeOK
<1>5. DOMAIN results = ResultKeys /\ DOMAIN htmlMeta = Files
  BY DEF Init
<1>6. /\ Follows(results, ResultRow) /\ Follows(htmlMeta, HtmlRow)
      /\ IsOfItsKey(results, ResultRow) /\ IsOfItsKey(htmlMeta, HtmlRow)
  BY <1>2, <1>3, <1>5 DEF Follows, IsOfItsKey
<1>7. PushedHasRow
  BY <1>1 DEF PushedHasRow
<1>8. HitsAreComplete
  BY <1>2 DEF HitsAreComplete
<1>9. late = {}
  BY DEF Init
<1>10. QED
  BY <1>4, <1>6, <1>7, <1>8, <1>9 DEF IInv

\* The inductive invariant of push_batch and the offsets: what is pushed has its rows, and no
\* row of a partition without evictions is older than what the partition has pushed since.
THEOREM ResultsInductive == Spec => []IInv
<1>1. Init => IInv
  BY InitEstablishes
<1>2. IInv /\ [Next]_vars => IInv'
  BY StepPreserves
<1>3. QED
  BY <1>1, <1>2, PTL DEF Spec

-----------------------------------------------------------------------------
(* The properties.                                                         *)

\* The tables that push_batch writes keep their types.
THEOREM TablesTypeCorrect == Spec => []TypeOK
<1>1. IInv => TypeOK
  BY DEF IInv
<1>2. QED
  BY <1>1, ResultsInductive, PTL

\* A row of ingest_file_result or html_meta never falls behind its own partition, unless a
\* worker of that partition was evicted inside push_batch.
THEOREM RowsStayCurrent == Spec => []RowsAreCurrent
<1>1. IInv => RowsAreCurrent
  <2> SUFFICES ASSUME IInv PROVE RowsAreCurrent
    OBVIOUS
  <2> USE DEF IInv
  <2>1. ASSUME NEW s \in Source, s # NoRow
        PROVE  s[2] + 1 .. committed[s[1]] \subseteq s[2] + 1 .. position[s[1]]
    <3>1. s[1] \in Partitions /\ s[2] \in Nat
      BY <2>1, SourceIs
    <3>2. QED
      BY <3>1, LogsAre
  <2>2. Current(results, ResultRow)
    <3> SUFFICES ASSUME NEW k \in ResultKeys, results[k] # NoRow
                 PROVE  /\ k \in ResultRow(Of(results[k]))
                        /\ results[k][1] \notin evicted =>
                             \A j \in results[k][2] + 1 .. committed[results[k][1]] :
                               k \notin ResultRow(log[results[k][1]][j])
      BY DEF Current, TypeOK
    <3>1. results[k] \in Source
      BY DEF TypeOK
    <3>2. QED
      BY <2>1, <3>1 DEF IsOfItsKey, Follows, TypeOK
  <2>3. Current(htmlMeta, HtmlRow)
    <3> SUFFICES ASSUME NEW k \in Files, htmlMeta[k] # NoRow
                 PROVE  /\ k \in HtmlRow(Of(htmlMeta[k]))
                        /\ htmlMeta[k][1] \notin evicted =>
                             \A j \in htmlMeta[k][2] + 1 .. committed[htmlMeta[k][1]] :
                               k \notin HtmlRow(log[htmlMeta[k][1]][j])
      BY DEF Current, TypeOK
    <3>1. htmlMeta[k] \in Source
      BY DEF TypeOK
    <3>2. QED
      BY <2>1, <3>1 DEF IsOfItsKey, Follows, TypeOK
  <2>4. QED
    BY <2>2, <2>3 DEF RowsAreCurrent
<1>2. QED
  BY <1>1, ResultsInductive, PTL

\* What is committed in Kafka has its rows in the database.
THEOREM CommittedHaveRows == Spec => []CommittedHasRow
<1>1. IInv => CommittedHasRow
  <2> SUFFICES ASSUME IInv, NEW p \in Partitions, NEW i \in DOMAIN log[p], i <= committed[p]
               PROVE  /\ \A k \in ResultRow(log[p][i]) : results[k] # NoRow
                      /\ RequestRow(log[p][i].request) \subseteq requests
    BY DEF CommittedHasRow
  <2>1. i \in 1 .. position[p]
    BY LogsAre DEF IInv
  <2>2. QED
    BY <2>1 DEF IInv, PushedHasRow
<1>2. QED
  BY <1>1, ResultsInductive, PTL

\* The inserts of one push_batch, in its one transaction, keep the tables joinable.
THEOREM HitsStayComplete == Spec => []HitsAreComplete
<1>1. IInv => HitsAreComplete
  BY DEF IInv
<1>2. QED
  BY <1>1, ResultsInductive, PTL
=============================================================================
