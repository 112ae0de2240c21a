------------------------- MODULE BatchTools_proof -------------------------
(***************************************************************************)
(* For every file, every --jobs, every size of the pool and every order in *)
(* which its processes finish: a run that ends normally has delivered what *)
(* DoneIsDelivered says.  The argument follows the batches: where each of  *)
(* them starts (BatchInv) and what of it has been pushed (PushedInv).      *)
(***************************************************************************)
EXTENDS BatchTools, FiniteSetTheorems, TLAPS

-----------------------------------------------------------------------------
(* Numbers.                                                                *)

LEMMA TimesMonotone ==
  ASSUME NEW a \in Nat, NEW b \in Nat, NEW n \in Nat, a <= b
  PROVE  a * n <= b * n /\ a * n \in Nat /\ b * n \in Nat
OBVIOUS

\* n goes q times into what lies between q * n and the next multiple.
LEMMA DivIs ==
  ASSUME NEW q \in Nat, NEW n \in Nat \ {0}, NEW x \in Nat, q * n <= x, x < q * n + n
  PROVE  x \div n = q
<1> DEFINE d == x \div n
<1>1. d \in Nat /\ d * n <= x /\ x < d * n + n
  OBVIOUS
<1> HIDE DEF d
<1>2. (d + 1) * n = d * n + n /\ (q + 1) * n = q * n + n
  BY <1>1
<1>3. d * n \in Nat /\ q * n \in Nat
  BY <1>1
<1>4. d <= q
  <2>1. SUFFICES ASSUME q + 1 <= d PROVE FALSE
    BY <1>1
  <2>2. (q + 1) * n <= d * n
    BY <1>1, <2>1, TimesMonotone
  <2>3. QED
    BY <1>1, <1>2, <1>3, <2>2
<1>5. q <= d
  <2>1. SUFFICES ASSUME d + 1 <= q PROVE FALSE
    BY <1>1
  <2>2. (d + 1) * n <= q * n
    BY <1>1, <2>1, TimesMonotone
  <2>3. QED
    BY <1>1, <1>2, <1>3, <2>2
<1>6. d = q
  BY <1>1, <1>4, <1>5
<1>7. QED
  BY <1>6 DEF d

\* What is below a multiple of n is in an earlier group.
LEMMA DivBelow ==
  ASSUME NEW q \in Nat, NEW n \in Nat \ {0}, NEW x \in Nat, x \div n = q
  PROVE  q * n <= x
OBVIOUS

-----------------------------------------------------------------------------
(* The lines of the file, their ranks and their groups.                    *)

LEMMA LinesAre ==
  ASSUME TypeOK
  PROVE  /\ Len(lines) \in Nat /\ Len(lines) <= MaxLines /\ MaxLines \in Nat
         /\ DOMAIN lines = 1 .. Len(lines) /\ Records \subseteq 1 .. Len(lines)
         /\ cursor \in Nat \ {0} /\ cursor <= Len(lines) + 1 /\ jobs \in Nat
<1>1. lines \in Seq(Line) /\ Len(lines) <= MaxLines /\ MaxLines \in Nat /\ jobs \in Nat
  BY ToolsAssumption DEF TypeOK
<1>2. Len(lines) \in Nat /\ DOMAIN lines = 1 .. Len(lines)
  BY <1>1
<1>3. QED
  BY <1>1, <1>2 DEF TypeOK, Records

LEMMA BatchIs ==
  ASSUME TypeOK
  PROVE  /\ Len(batch) \in Nat /\ DOMAIN batch = 1 .. Len(batch)
         /\ \A k \in DOMAIN batch : batch[k] \in Records
BY DEF TypeOK

LEMMA RankIs ==
  ASSUME TypeOK, NEW i
  PROVE  IsFiniteSet({j \in Records : j < i}) /\ Rank(i) \in Nat
<1>1. IsFiniteSet(1 .. Len(lines))
  BY LinesAre, FS_Interval
<1>2. {j \in Records : j < i} \subseteq 1 .. Len(lines)
  BY LinesAre
<1>3. IsFiniteSet({j \in Records : j < i})
  BY <1>1, <1>2, FS_Subset
<1>4. QED
  BY <1>3, FS_CardinalityType DEF Rank

LEMMA RankOfFirst ==
  ASSUME TypeOK
  PROVE  Rank(1) = 0
<1>1. {j \in Records : j < 1} = {}
  BY LinesAre
<1>2. QED
  BY <1>1, FS_EmptySet DEF Rank

\* A record raises the rank of the line after it by one.
LEMMA RankOfNext ==
  ASSUME TypeOK, NEW i \in Nat
  PROVE  Rank(i + 1) = IF i \in Records THEN Rank(i) + 1 ELSE Rank(i)
<1> DEFINE below == {j \in Records : j < i}
           upTo == {j \in Records : j < i + 1}
<1>1. Records \subseteq Nat
  BY LinesAre
<1>2. IsFiniteSet(below) /\ i \notin below
  BY RankIs
<1>3. \A j \in Records : j < i + 1 <=> j < i \/ j = i
  BY <1>1
<1>4. CASE i \in Records
  <2>1. upTo = below \cup {i}
    BY <1>3, <1>4, Zenon
  <2> HIDE DEF below, upTo
  <2>2. Cardinality(upTo) = Cardinality(below) + 1
    BY <1>2, <2>1, FS_AddElement
  <2>3. QED
    BY <1>4, <2>2 DEF Rank, below, upTo
<1>5. CASE i \notin Records
  <2>1. upTo = below
    BY <1>3, <1>5
  <2>2. QED
    BY <1>5, <2>1 DEF Rank
<1>6. QED
  BY <1>4, <1>5

LEMMA RankMonotone ==
  ASSUME TypeOK, NEW i \in Nat, NEW j \in Nat, i <= j
  PROVE  Rank(i) <= Rank(j)
<1> DEFINE below == {k \in Records : k < i}
           upTo == {k \in Records : k < j}
<1>1. below \subseteq upTo
  BY LinesAre
<1>2. IsFiniteSet(upTo)
  BY RankIs
<1> HIDE DEF below, upTo
<1>3. Cardinality(below) <= Cardinality(upTo)
  BY <1>1, <1>2, FS_Subset
<1>4. QED
  BY <1>3 DEF Rank, below, upTo

LEMMA RankOfLater ==
  ASSUME TypeOK, NEW i \in Records, NEW j \in Nat, i < j
  PROVE  Rank(i) < Rank(j)
<1>1. i \in Nat
  BY LinesAre
<1>2. Rank(i + 1) = Rank(i) + 1
  BY <1>1, RankOfNext
<1>3. Rank(i + 1) <= Rank(j)
  BY <1>1, RankMonotone
<1>4. Rank(i) \in Nat /\ Rank(j) \in Nat
  BY RankIs
<1>5. QED
  BY <1>2, <1>3, <1>4

\* Records are in the order of their ranks.
LEMMA RankOrders ==
  ASSUME TypeOK, NEW i \in Records, NEW j \in Records
  PROVE  /\ Rank(i) = Rank(j) => i = j
         /\ Rank(i) < Rank(j) => i < j
<1>1. i \in Nat /\ j \in Nat
  BY LinesAre
<1>2. Rank(i) \in Nat /\ Rank(j) \in Nat
  BY RankIs
<1>3. ASSUME i < j PROVE Rank(i) < Rank(j)
  BY <1>1, <1>3, RankOfLater
<1>4. ASSUME j < i PROVE Rank(j) < Rank(i)
  BY <1>1, <1>4, RankOfLater
<1>5. QED
  BY <1>1, <1>2, <1>3, <1>4

\* A step within the file changes neither the records nor what is to be said of them.
LEMMA SameFile ==
  ASSUME UNCHANGED fileVars
  PROVE  /\ Records' = Records
         /\ Rank(cursor)' = Rank(cursor')
         /\ \A i \in Records : Rank(i)' = Rank(i) /\ Answered(i)' = Answered(i)
<1>1. lines' = lines /\ jobs' = jobs
  BY DEF fileVars
<1>2. Records' = Records
  BY <1>1 DEF Records
<1>3. QED
  BY <1>1, <1>2 DEF Rank, Answered, Group

\* Each record behind, from rank BatchStart on, is in the batch.
LEMMA BatchHasRanks ==
  ASSUME TypeOK, BatchInv, jobs > 1, NEW i \in Records, i < cursor, BatchStart <= Rank(i)
  PROVE  \E k \in DOMAIN batch : batch[k] = i
<1>1. cursor \in Nat /\ Rank(i) < Rank(cursor)
  BY LinesAre, RankOfLater
<1>2. Rank(i) \in Nat /\ Rank(cursor) \in Nat /\ Len(batch) \in Nat
  BY RankIs, BatchIs
<1> DEFINE k == Rank(i) - BatchStart + 1
<1>3. k \in 1 .. Len(batch) /\ BatchStart + k - 1 = Rank(i)
  BY <1>1, <1>2 DEF BatchStart
<1> HIDE DEF k
<1>4. k \in DOMAIN batch
  BY <1>3, BatchIs
<1>5. Rank(batch[k]) = Rank(i) /\ batch[k] \in Records
  BY <1>3, <1>4, BatchIs DEF BatchInv
<1>6. batch[k] = i
  BY <1>5, RankOrders
<1>7. QED
  BY <1>4, <1>6

\* A batch lies within one group, and has all that is of the group up to any of its records.
LEMMA BatchIsGroup ==
  ASSUME TypeOK, BatchInv, jobs > 1, batch # <<>>, Len(batch) <= jobs
  PROVE  /\ \A k, m \in DOMAIN batch : Group(batch[k]) = Group(batch[m])
         /\ \A k \in DOMAIN batch, j \in Records :
              j < batch[k] /\ Group(j) = Group(batch[k]) =>
                \E m \in DOMAIN batch : m < k /\ batch[m] = j
<1>1. jobs \in Nat \ {0} /\ cursor \in Nat /\ Len(batch) \in Nat \ {0}
      /\ DOMAIN batch = 1 .. Len(batch) /\ Records \subseteq Nat
  BY LinesAre, BatchIs
<1>2. BatchStart \in Nat
  BY <1>1, RankIs DEF BatchInv, BatchStart
<1>3. PICK q \in Nat : BatchStart = q * jobs
  <2>1. batch # <<>>
    OBVIOUS
  <2>2. \E q \in 0 .. BatchStart : BatchStart = q * jobs
    BY <2>1 DEF BatchInv
  <2>3. QED
    BY <2>2
<1>4. ASSUME NEW k \in DOMAIN batch
      PROVE  /\ batch[k] \in Records /\ batch[k] < cursor
             /\ Rank(batch[k]) = BatchStart + k - 1 /\ Group(batch[k]) = q
  <2>1. batch[k] \in Records /\ batch[k] < cursor /\ Rank(batch[k]) = BatchStart + k - 1
    BY BatchIs DEF BatchInv
  <2>2. k \in Nat /\ 1 <= k /\ k <= jobs
    BY <1>1
  <2> DEFINE x == Rank(batch[k])
  <2>3. x \in Nat /\ BatchStart <= x /\ x < BatchStart + jobs
    BY <1>1, <1>2, <2>1, <2>2, RankIs
  <2> HIDE DEF x
  <2>4. x \div jobs = q
    BY <1>1, <1>3, <2>3, DivIs
  <2>5. QED
    BY <2>1, <2>4 DEF Group, x
<1>5. ASSUME NEW k \in DOMAIN batch, NEW j \in Records, j < batch[k],
             Group(j) = Group(batch[k])
      PROVE  \E m \in DOMAIN batch : m < k /\ batch[m] = j
  <2>1. j \in Nat /\ j < cursor
    <3>1. batch[k] \in Nat /\ batch[k] < cursor /\ j \in Nat
      BY <1>1, <1>4
    <3>2. QED
      BY <1>1, <1>5, <3>1
  <2> DEFINE x == Rank(j)
  <2>2. x \in Nat /\ x \div jobs = q
    BY <1>4, <1>5, RankIs DEF Group
  <2> HIDE DEF x
  <2>3. BatchStart <= x
    BY <1>1, <1>3, <2>2, DivBelow
  <2>4. PICK m \in DOMAIN batch : batch[m] = j
    BY <2>1, <2>3, BatchHasRanks DEF x
  <2>5. m < k
    <3>1. SUFFICES ASSUME k <= m PROVE FALSE
      BY <1>1
    <3>2. Rank(batch[k]) <= Rank(batch[m])
      BY <1>1, <1>2, <1>4, <3>1
    <3>3. Rank(j) < Rank(batch[k])
      BY <1>1, <1>4, <1>5, RankOfLater
    <3>4. Rank(j) \in Nat /\ Rank(batch[k]) \in Nat
      BY RankIs
    <3>5. QED
      BY <2>4, <3>2, <3>3, <3>4
  <2>6. QED
    BY <2>4, <2>5
<1>6. QED
  BY <1>4, <1>5

-----------------------------------------------------------------------------
(* What the workers return.                                                *)

LEMMA ReturnedIs ==
  ASSUME NEW statuses
  PROVE  Returned(statuses) \subseteq {"raise", "result"}
BY DEF Returned

\* Nothing is returned for an empty PDF, and for nothing else.
LEMMA ProcessIs ==
  ASSUME NEW line, NEW r \in Process(line)
  PROVE  r \in {"none", "result", "raise"} /\ (r = "none" <=> line = "empty")
<1>1. CASE line = "empty"
  BY <1>1 DEF Process, ProcessBlob
<1>2. CASE line = "blob"
  BY <1>2, ReturnedIs DEF Process, ProcessBlob
<1>3. CASE line \notin {"blob", "empty"}
  <2>1. r \in ProcessRecord(line)
    BY <1>3 DEF Process
  <2>2. r \in Returned(FetchBlob(line) \ {"blob"})
        \/ r \in Returned(ProcessFulltext \cup ProcessPdf)
    BY <2>1 DEF ProcessRecord
  <2>3. r \in {"raise", "result"}
    BY <2>2, ReturnedIs
  <2>4. QED
    BY <1>3, <2>3
<1>4. QED
  BY <1>1, <1>2, <1>3

LEMMA ResultsAreDistinct ==
  ASSUME NEW i \in Int, NEW j \in Int
  PROVE  /\ ResultOf(i) = ResultOf(j) <=> i = j
         /\ ResultOf(i) # ImageOf(j) /\ ResultOf(i)[2] = "result" /\ ImageOf(j)[2] = "image"
<1>1. ResultOf(i)[1][2] = i - 1 /\ ResultOf(j)[1][2] = j - 1
  BY DEF ResultOf
<1>2. ResultOf(i) = ResultOf(j) => i - 1 = j - 1
  BY <1>1
<1>3. ResultOf(i)[2] = "result" /\ ImageOf(j)[2] = "image"
  BY DEF ResultOf, ImageOf
<1>4. QED
  BY <1>2, <1>3

LEMMA OutputOf ==
  ASSUME TypeOK, NEW i \in Records
  PROVE  ResultOf(i) \in Output /\ ImageOf(i) \in Output
<1>1. i - 1 \in 0 .. MaxLines - 1
  BY LinesAre
<1>2. QED
  BY <1>1 DEF ResultOf, ImageOf, Output

-----------------------------------------------------------------------------
(* The producers.                                                          *)

SinkOK ==
  /\ inflight \in [{"results", "images"} -> SUBSET Output]
  /\ failed \in [{"results", "images"} -> SUBSET Output]
  /\ \A r \in inflight["images"] \cup failed["images"] : r[2] = "image"

\* A result that is produced is pushed, and nothing else.
LEMMA ProduceResult ==
  ASSUME TypeOK, NEW i \in Records, Sink!Produce("results", {ResultOf(i)})
  PROVE  SinkOK' /\ Pushed' = Pushed \cup {ResultOf(i)}
<1>1. inflight' = [inflight EXCEPT !["results"] = inflight["results"] \cup {ResultOf(i)}]
      /\ UNCHANGED <<failed, delivered>>
  BY DEF Sink!Produce, Sink!QueuedAfter
<1>2. ResultOf(i) \in Output
  BY OutputOf
<1>3. inflight \in [{"results", "images"} -> SUBSET Output]
  BY DEF TypeOK
<1>4. inflight'["results"] = inflight["results"] \cup {ResultOf(i)}
      /\ inflight'["images"] = inflight["images"]
      /\ inflight' \in [{"results", "images"} -> SUBSET Output]
  BY <1>1, <1>2, <1>3
<1>5. SinkOK'
  BY <1>1, <1>4 DEF TypeOK, SinkOK
<1>6. QED
  BY <1>1, <1>4, <1>5 DEF Pushed

LEMMA ProduceImage ==
  ASSUME TypeOK, NEW i \in Records, Sink!Produce("images", {ImageOf(i)})
  PROVE  SinkOK' /\ Pushed' = Pushed
<1>1. inflight' = [inflight EXCEPT !["images"] = inflight["images"] \cup {ImageOf(i)}]
      /\ UNCHANGED <<failed, delivered>>
  BY DEF Sink!Produce, Sink!QueuedAfter
<1>2. ImageOf(i) \in Output /\ ImageOf(i)[2] = "image"
  BY OutputOf DEF ImageOf
<1>3. inflight \in [{"results", "images"} -> SUBSET Output]
  BY DEF TypeOK
<1>4. inflight'["images"] = inflight["images"] \cup {ImageOf(i)}
      /\ inflight'["results"] = inflight["results"]
      /\ inflight' \in [{"results", "images"} -> SUBSET Output]
  BY <1>1, <1>2, <1>3
<1>5. SinkOK'
  BY <1>1, <1>2, <1>4 DEF TypeOK, SinkOK
<1>6. QED
  BY <1>1, <1>4, <1>5 DEF Pushed

\* Whatever becomes of a queued message, a pushed result stays pushed, and no other comes up.
LEMMA BrokerKeeps ==
  ASSUME TypeOK, NEW w \in {"results", "images"}, Sink!Deliver(w) \/ Sink!DeliveryError(w)
  PROVE  SinkOK' /\ \A i \in Records : ResultOf(i) \in Pushed' <=> ResultOf(i) \in Pushed
<1>1. PICK r \in inflight[w] :
        /\ inflight' = [inflight EXCEPT ![w] = inflight[w] \ {r}]
        /\ \/ delivered' = delivered \cup {r} /\ failed' = failed
           \/ delivered' = delivered /\ failed' = [failed EXCEPT ![w] = failed[w] \cup {r}]
  BY DEF Sink!Deliver, Sink!DeliveryError
<1>2. SinkOK
  BY DEF TypeOK, SinkOK
<1>3. r \in Output /\ (w = "images" => r[2] = "image")
  BY <1>1, <1>2 DEF SinkOK
<1>4. inflight'[w] = inflight[w] \ {r}
      /\ inflight' \in [{"results", "images"} -> SUBSET Output]
      /\ \A v \in {"results", "images"} : v # w => inflight'[v] = inflight[v]
  BY <1>1, <1>2 DEF SinkOK
<1>5. failed' \in [{"results", "images"} -> SUBSET Output]
      /\ \A v \in {"results", "images"} : v # w => failed'[v] = failed[v]
  BY <1>1, <1>2, <1>3 DEF SinkOK
<1>6. \/ delivered' = delivered \cup {r} /\ failed'[w] = failed[w]
      \/ delivered' = delivered /\ failed'[w] = failed[w] \cup {r}
  BY <1>1, <1>2 DEF SinkOK
<1>7. SinkOK'
  BY <1>2, <1>3, <1>4, <1>5, <1>6 DEF SinkOK
<1>8. CASE w = "results"
  BY <1>1, <1>4, <1>6, <1>7, <1>8 DEF Pushed
<1>9. CASE w = "images"
  <2>1. Pushed' = Pushed \/ Pushed' = Pushed \cup {r}
    BY <1>4, <1>5, <1>6, <1>9 DEF Pushed
  <2>2. \A i \in Records : ResultOf(i) # r
    BY <1>3, <1>9 DEF ResultOf
  <2>3. QED
    BY <1>7, <2>1, <2>2
<1>10. QED
  BY <1>8, <1>9

-----------------------------------------------------------------------------
(* The parts of the invariant that a step leaves alone.                    *)

LEMMA FileStays ==
  ASSUME UNCHANGED fileVars
  PROVE  lines' = lines /\ jobs' = jobs
BY DEF fileVars

LEMMA TypeStays ==
  ASSUME TypeOK, UNCHANGED <<fileVars, batch>>, cursor' \in 1 .. Len(lines) + 1,
         sent' \in Nat, SinkOK'
  PROVE  TypeOK'
<1>1. lines' = lines /\ jobs' = jobs /\ batch' = batch /\ Records' = Records
  BY SameFile DEF fileVars
<1>2. QED
  BY <1>1 DEF TypeOK, SinkOK

LEMMA SinkStays ==
  ASSUME TypeOK, UNCHANGED sinkVars
  PROVE  SinkOK' /\ Pushed' = Pushed
BY DEF TypeOK, SinkOK, Pushed, sinkVars

LEMMA BatchStays ==
  ASSUME BatchInv, UNCHANGED <<fileVars, batch, cursor>>
  PROVE  BatchInv' /\ Tasks' = Tasks
BY DEF BatchInv, BatchStart, Rank, Records, Tasks, fileVars

LEMMA PoolStays ==
  ASSUME PoolInv, UNCHANGED <<fileVars, results, batch, sent, pc>>
  PROVE  PoolInv'
BY DEF PoolInv, Tasks, fileVars

LEMMA PushedStays ==
  ASSUME PushedInv, UNCHANGED <<fileVars, cursor, batch, sent, pc>>,
         \A i \in Records : ResultOf(i) \in Pushed' <=> ResultOf(i) \in Pushed
  PROVE  PushedInv'
<1>1. Records' = Records /\ Tasks' = Tasks
      /\ \A i \in Records : Answered(i)' = Answered(i) /\ ResultOf(i)' = ResultOf(i)
  BY SameFile DEF Tasks, ResultOf
<1>2. QED
  BY <1>1 DEF PushedInv

\* The next line, with the batch as it is: it is skipped, or there are no batches.
LEMMA NextLine ==
  ASSUME TypeOK, BatchInv, UNCHANGED <<fileVars, batch>>, cursor <= Len(lines),
         cursor' = cursor + 1, cursor \notin Records \/ jobs <= 1
  PROVE  cursor' \in 1 .. Len(lines) + 1 /\ BatchInv' /\ Tasks' = Tasks
<1>1. cursor \in Nat /\ cursor >= 1 /\ Len(lines) \in Nat /\ jobs \in Nat
  BY LinesAre
<1>2. lines' = lines /\ jobs' = jobs /\ Tasks' = Tasks
  BY DEF fileVars, Tasks
<1>3. ASSUME jobs > 1 PROVE BatchInv'
  <2>1. Rank(cursor)' = Rank(cursor)
    BY <1>1, <1>3, RankOfNext, SameFile
  <2>2. BatchStart' = BatchStart
    BY <2>1 DEF BatchStart
  <2>3. \A k \in DOMAIN batch : batch[k] \in Records /\ Rank(batch[k])' = Rank(batch[k])
    BY BatchIs, SameFile
  <2>4. \A k \in DOMAIN batch : batch[k] < cursor'
    BY <1>1, <1>3, LinesAre, BatchIs DEF BatchInv
  <2>5. \A k \in DOMAIN batch' : batch'[k] < cursor' /\ Rank(batch[k])' = BatchStart' + k - 1
    BY <1>3, <2>2, <2>3, <2>4 DEF BatchInv
  <2>6. 0 <= BatchStart' /\ \E q \in 0 .. BatchStart' : BatchStart' = q * jobs'
    BY <1>1, <1>2, <1>3, <2>2 DEF BatchInv
  <2>7. QED
    BY <2>5, <2>6 DEF BatchInv
<1>4. QED
  BY <1>1, <1>2, <1>3 DEF BatchInv

-----------------------------------------------------------------------------
(* The steps.                                                              *)

LEMMA DiesKeeps ==
  ASSUME IInv, Dies
  PROVE  IInv'
<1>1. pc' = "dead" /\ lines' = lines /\ jobs' = jobs
      /\ UNCHANGED <<cursor, batch, started, results, lost, sent, delivered>>
      /\ inflight' = [w \in {"results", "images"} |-> {}] /\ failed' = inflight'
  BY DEF Dies, fileVars, poolVars
<1>2. SinkOK'
  BY <1>1 DEF SinkOK
<1>3. TypeOK'
  BY <1>1, <1>2, TypeStays DEF IInv, TypeOK, fileVars
<1>4. LoopInv'
  BY <1>1 DEF IInv, LoopInv
<1>5. BatchInv' /\ Tasks' = Tasks
  BY <1>1, BatchStays DEF IInv, fileVars
<1>6. PoolInv' /\ PushedInv'
  BY <1>1 DEF IInv, PoolInv, PushedInv
<1>7. QED
  BY <1>3, <1>4, <1>5, <1>6 DEF IInv

LEMMA SkipLineKeeps ==
  ASSUME IInv, SkipLine
  PROVE  IInv'
<1>1. pc = "read" /\ pc' = "read" /\ cursor <= Len(lines) /\ cursor' = cursor + 1
      /\ UNCHANGED <<fileVars, batch, results, sent, sinkVars>> /\ TypeOK
  BY DEF SkipLine, IInv, poolVars
<1>2. cursor \notin Records
  BY DEF SkipLine, Records
<1>3. cursor' \in 1 .. Len(lines) + 1 /\ BatchInv' /\ Tasks' = Tasks
  BY <1>1, <1>2, NextLine DEF IInv
<1>4. TypeOK'
  BY <1>1, <1>3, TypeStays, SinkStays DEF TypeOK
<1>5. LoopInv'
  BY <1>1, FileStays DEF IInv, LoopInv
<1>6. PoolInv'
  BY <1>1, PoolStays DEF IInv
<1>7. PushedInv'
  <2>1. \A i \in Records : i < cursor' <=> i < cursor
    BY <1>1, <1>2, LinesAre
  <2>2. \A i \in Records : ResultOf(i) \in Pushed <=> i < cursor /\ i \notin Tasks /\ Answered(i)
    BY <1>1 DEF IInv, PushedInv
  <2>3. Records' = Records /\ Pushed' = Pushed
        /\ \A i \in Records : Answered(i)' = Answered(i) /\ ResultOf(i)' = ResultOf(i)
    BY <1>1, SameFile, SinkStays DEF ResultOf
  <2>4. QED
    BY <1>1, <1>3, <2>1, <2>2, <2>3 DEF PushedInv
<1>8. QED
  BY <1>3, <1>4, <1>5, <1>6, <1>7 DEF IInv

LEMMA AddToBatchKeeps ==
  ASSUME IInv, AddToBatch
  PROVE  IInv'
<1>1. pc = "read" /\ pc' = (IF Len(batch') >= jobs THEN "map" ELSE "read")
      /\ cursor <= Len(lines) /\ cursor' = cursor + 1 /\ jobs > 1
      /\ batch' = Append(batch, cursor)
      /\ UNCHANGED <<fileVars, results, sent, sinkVars>> /\ TypeOK
  BY DEF AddToBatch, AtRecord, IInv, poolVars
<1>2. cursor \in Records /\ cursor \in Nat /\ cursor >= 1 /\ Len(lines) \in Nat
      /\ jobs \in Nat /\ Records \subseteq Nat
  BY LinesAre DEF AddToBatch, AtRecord, IInv, Records
<1>3. lines' = lines /\ jobs' = jobs /\ Records' = Records /\ SinkOK' /\ Pushed' = Pushed
      /\ \A i \in Records : Answered(i)' = Answered(i) /\ ResultOf(i)' = ResultOf(i)
  BY <1>1, FileStays, SameFile, SinkStays DEF ResultOf
<1>4. batch \in Seq(Records) /\ batch' \in Seq(Records) /\ Len(batch') = Len(batch) + 1
      /\ Len(batch) \in Nat /\ batch'[Len(batch) + 1] = cursor
      /\ DOMAIN batch' = 1 .. Len(batch) + 1 /\ DOMAIN batch = 1 .. Len(batch)
      /\ \A k \in DOMAIN batch : batch'[k] = batch[k]
  BY <1>1, <1>2 DEF TypeOK
<1>5. TypeOK'
  <2>1. cursor' \in 1 .. Len(lines) + 1
    BY <1>1, <1>2
  <2>2. QED
    BY <1>1, <1>3, <1>4, <2>1 DEF TypeOK, SinkOK
<1>6. LoopInv'
  <2>1. Len(batch) < jobs
    BY <1>1 DEF IInv, LoopInv
  <2>2. QED
    BY <1>1, <1>2, <1>3, <1>4, <2>1 DEF LoopInv
<1>7. BatchInv'
  <2>1. Rank(cursor)' = Rank(cursor) + 1
    BY <1>1, <1>2, RankOfNext, SameFile
  <2>2. Rank(cursor) \in Nat
    BY <1>1, RankIs
  <2>3. BatchStart' = BatchStart
    BY <1>4, <2>1, <2>2 DEF BatchStart
  <2>4. 0 <= BatchStart' /\ \E q \in 0 .. BatchStart' : BatchStart' = q * jobs'
    BY <1>1, <1>2, <1>3, <2>3 DEF IInv, BatchInv
  <2>5. ASSUME NEW k \in DOMAIN batch'
        PROVE  batch'[k] < cursor' /\ Rank(batch[k])' = BatchStart' + k - 1
    <3>1. CASE k \in DOMAIN batch
      <4>1. batch[k] \in Records /\ batch[k] < cursor /\ Rank(batch[k]) = BatchStart + k - 1
        BY <1>1, <3>1, BatchIs DEF IInv, BatchInv
      <4>2. PICK i \in Records : batch'[k] = i /\ i < cursor /\ Rank(i) = BatchStart + k - 1
        BY <1>4, <3>1, <4>1
      <4>3. Rank(batch[k])' = Rank(i)
        BY <1>1, <4>2, SameFile DEF Rank
      <4>4. batch'[k] < cursor'
        BY <1>1, <1>2, <4>2
      <4>5. QED
        BY <2>3, <4>2, <4>3, <4>4
    <3>2. CASE k = Len(batch) + 1
      <4>1. PICK i \in Records : batch'[k] = i /\ i = cursor
        BY <1>2, <1>4, <3>2
      <4>2. Rank(batch[k])' = Rank(cursor)
        BY <1>1, <4>1, SameFile DEF Rank
      <4>3. QED
        BY <1>1, <1>2, <1>4, <2>2, <2>3, <3>2, <4>1, <4>2 DEF BatchStart
    <3>3. QED
      BY <1>4, <3>1, <3>2
  <2>6. QED
    BY <2>4, <2>5 DEF BatchInv
<1>8. PoolInv'
  BY <1>1, <1>3 DEF IInv, PoolInv
<1>9. PushedInv'
  <2>1. Tasks' = Tasks \cup {cursor}
    BY <1>4 DEF Tasks
  <2>2. \A i \in Records : i < cursor' <=> i < cursor \/ i = cursor
    BY <1>1, <1>2
  <2>3. \A i \in Records : ResultOf(i) \in Pushed <=> i < cursor /\ i \notin Tasks /\ Answered(i)
    BY <1>1 DEF IInv, PushedInv
  <2>4. cursor \notin Tasks => ~(cursor < cursor)
    BY <1>2
  <2>5. pc' # "push"
    BY <1>1
  <2>6. QED
    BY <1>2, <1>3, <2>1, <2>2, <2>3, <2>4, <2>5 DEF PushedInv
<1>10. QED
  BY <1>5, <1>6, <1>7, <1>8, <1>9 DEF IInv

LEMMA NoMoreLinesKeeps ==
  ASSUME IInv, NoMoreLines
  PROVE  IInv'
<1>1. pc = "read" /\ pc' = (IF batch # <<>> THEN "map" ELSE "close")
      /\ cursor > Len(lines)
      /\ UNCHANGED <<fileVars, cursor, batch, results, sent, sinkVars>> /\ TypeOK
  BY DEF NoMoreLines, EndOfFile, IInv, poolVars
<1>2. SinkOK' /\ Pushed' = Pushed
  BY <1>1, SinkStays
<1>3. TypeOK'
  BY <1>1, <1>2, TypeStays DEF TypeOK
<1>4. LoopInv'
  <2>1. Len(batch) \in Nat /\ (batch # <<>> => 0 < Len(batch)) /\ jobs \in Nat
    BY <1>1, LinesAre DEF TypeOK
  <2>2. (jobs <= 1 => batch = <<>>) /\ (jobs > 1 => Len(batch) < jobs)
    BY <1>1 DEF IInv, LoopInv
  <2>3. QED
    BY <1>1, <2>1, <2>2, FileStays DEF LoopInv
<1>5. BatchInv' /\ Tasks' = Tasks
  BY <1>1, BatchStays DEF IInv
<1>6. PoolInv'
  BY <1>1, FileStays DEF IInv, PoolInv
<1>7. PushedInv'
  BY <1>1, <1>2, <1>5, SameFile DEF IInv, PushedInv, ResultOf
<1>8. QED
  BY <1>3, <1>4, <1>5, <1>6, <1>7 DEF IInv

\* Without batches, what is pushed is what is behind.
LEMMA PushedSoFar ==
  ASSUME IInv, jobs <= 1, pc \in {"read", "result"}, NEW i \in Records
  PROVE  Tasks = {} /\ (ResultOf(i) \in Pushed <=> i < cursor /\ Answered(i))
<1>1. Tasks = {}
  BY DEF IInv, LoopInv, Tasks
<1>2. QED
  BY <1>1 DEF IInv, PushedInv

LEMMA PushImageKeeps ==
  ASSUME IInv, PushImage
  PROVE  IInv'
<1>1. pc = "read" /\ pc' = "result" /\ jobs <= 1 /\ cursor \in 1 .. Len(lines)
      /\ lines[cursor] # "skipped" /\ "result" \in Process(lines[cursor])
      /\ Sink!Produce("images", {ImageOf(cursor)})
      /\ UNCHANGED <<fileVars, cursor, batch, poolVars, sent>> /\ TypeOK
  BY LinesAre DEF PushImage, AtRecord, IInv
<1>2. cursor \in Records /\ lines[cursor] # "empty"
  BY <1>1, LinesAre, ProcessIs DEF Records
<1>3. SinkOK' /\ Pushed' = Pushed
  BY <1>1, <1>2, ProduceImage
<1>4. TypeOK'
  BY <1>1, <1>3, TypeStays DEF TypeOK
<1>5. LoopInv'
  BY <1>1, <1>2, FileStays, SameFile DEF IInv, LoopInv
<1>6. BatchInv' /\ Tasks' = Tasks
  BY <1>1, BatchStays DEF IInv
<1>7. PoolInv'
  BY <1>1, FileStays DEF IInv, PoolInv, poolVars
<1>8. PushedInv'
  BY <1>1, <1>3, <1>6, PushedSoFar, SameFile DEF PushedInv, ResultOf
<1>9. QED
  BY <1>4, <1>5, <1>6, <1>7, <1>8 DEF IInv

LEMMA PushRecordKeeps ==
  ASSUME IInv, PushRecord
  PROVE  IInv'
<1>1. pc \in {"read", "result"} /\ pc' = "read" /\ jobs <= 1 /\ cursor' = cursor + 1
      /\ UNCHANGED <<fileVars, batch, poolVars, sent>> /\ TypeOK
  BY DEF PushRecord, AtRecord, IInv
<1>2. cursor \in Records
  <2>1. CASE pc = "result"
    BY <2>1 DEF IInv, LoopInv
  <2>2. CASE AtRecord
    BY <1>1, <2>2, LinesAre DEF AtRecord, Records
  <2>3. QED
    BY <2>1, <2>2 DEF PushRecord
<1>3. cursor \in Nat /\ cursor <= Len(lines) /\ Records \subseteq Nat /\ jobs \in Nat
  BY <1>1, <1>2, LinesAre
<1>4. SinkOK' /\ Pushed' = IF Answered(cursor) THEN Pushed \cup {ResultOf(cursor)} ELSE Pushed
  <2>1. Answered(cursor) <=> lines[cursor] # "empty"
    BY <1>1, <1>3 DEF Answered
  <2>2. CASE pc = "read" /\ "none" \in Process(lines[cursor])
    <3>1. UNCHANGED sinkVars
      BY <2>2 DEF PushRecord
    <3>2. lines[cursor] = "empty"
      BY <2>2, ProcessIs
    <3>3. QED
      BY <1>1, <2>1, <3>1, <3>2, SinkStays
  <2>3. CASE ~(pc = "read" /\ "none" \in Process(lines[cursor]))
    <3>1. "result" \in Process(lines[cursor]) /\ Sink!Produce("results", {ResultOf(cursor)})
      BY <2>3 DEF PushRecord
    <3>2. lines[cursor] # "empty"
      BY <3>1, ProcessIs
    <3>3. SinkOK' /\ Pushed' = Pushed \cup {ResultOf(cursor)}
      BY <1>1, <1>2, <3>1, ProduceResult
    <3>4. QED
      BY <2>1, <3>2, <3>3
  <2>4. QED
    BY <2>2, <2>3
<1>5. cursor' \in 1 .. Len(lines) + 1 /\ BatchInv' /\ Tasks' = Tasks
  BY <1>1, <1>3, NextLine DEF IInv
<1>6. TypeOK'
  BY <1>1, <1>4, <1>5, TypeStays DEF TypeOK
<1>7. LoopInv'
  BY <1>1, <1>3, FileStays DEF IInv, LoopInv
<1>8. PoolInv'
  BY <1>1, FileStays DEF IInv, PoolInv, poolVars
<1>9. PushedInv'
  <2>1. SUFFICES ASSUME NEW i \in Records
                 PROVE  ResultOf(i) \in Pushed' <=> i < cursor' /\ Answered(i)
    <3>1. Records' = Records /\ Tasks' = {}
          /\ \A i \in Records : Answered(i)' = Answered(i) /\ ResultOf(i)' = ResultOf(i)
      BY <1>1, <1>2, <1>5, PushedSoFar, SameFile DEF ResultOf
    <3>2. QED
      BY <1>1, <2>1, <3>1 DEF PushedInv
  <2>2. ResultOf(i) \in Pushed <=> i < cursor /\ Answered(i)
    BY <1>1, PushedSoFar
  <2>3. ResultOf(i) = ResultOf(cursor) <=> i = cursor
    BY <1>3, ResultsAreDistinct
  <2>4. i < cursor' <=> i < cursor \/ i = cursor
    BY <1>1, <1>3
  <2>5. QED
    BY <1>3, <1>4, <2>2, <2>3, <2>4
<1>10. QED
  BY <1>5, <1>6, <1>7, <1>8, <1>9 DEF IInv

\* The processes of the pool only change what the pool says.
LEMMA PoolKeeps ==
  ASSUME IInv, PoolInv', UNCHANGED <<fileVars, pc, cursor, batch, sent, sinkVars>>
  PROVE  IInv'
<1>1. SinkOK' /\ Pushed' = Pushed /\ TypeOK
  BY SinkStays DEF IInv
<1>2. TypeOK'
  BY <1>1, TypeStays DEF TypeOK
<1>3. LoopInv'
  BY FileStays, SameFile DEF IInv, LoopInv, sinkVars
<1>4. BatchInv' /\ PushedInv'
  BY <1>1, BatchStays, PushedStays DEF IInv
<1>5. QED
  BY <1>2, <1>3, <1>4 DEF IInv

LEMMA TaskKeeps ==
  ASSUME IInv, NEW i, TakeTask(i) \/ FinishTask(i) \/ ProcessDies(i)
  PROVE  IInv'
<1>1. UNCHANGED <<fileVars, pc, cursor, batch, sent, sinkVars>>
  BY DEF TakeTask, FinishTask, ProcessDies
<1>2. PoolInv'
  <2>1. CASE results' = results
    BY <1>1, <2>1, PoolStays DEF IInv
  <2>2. CASE FinishTask(i)
    <3>1. PICK r \in Process(lines[i]) :
            results' = [j \in DOMAIN results \cup {i} |-> IF j = i THEN r ELSE results[j]]
      BY <2>2 DEF FinishTask
    <3>2. pc' = "map" /\ lines' = lines
      BY <1>1, <2>2, FileStays DEF FinishTask
    <3>3. \A j \in DOMAIN results' : results'[j] \in Process(lines[j])
      BY <3>1 DEF IInv, PoolInv
    <3>4. QED
      BY <3>2, <3>3 DEF PoolInv
  <2>3. QED
    BY <2>1, <2>2 DEF TakeTask, ProcessDies
<1>3. QED
  BY <1>1, <1>2, PoolKeeps

LEMMA MapReturnsKeeps ==
  ASSUME IInv, MapReturns
  PROVE  IInv'
<1>1. pc = "map" /\ pc' = "push" /\ sent' = 0
      /\ UNCHANGED <<fileVars, cursor, batch, poolVars, sinkVars>> /\ TypeOK
  BY DEF MapReturns, IInv
<1>2. SinkOK' /\ Pushed' = Pushed
  BY <1>1, SinkStays
<1>3. TypeOK'
  BY <1>1, <1>2, TypeStays DEF TypeOK
<1>4. LoopInv'
  BY <1>1, FileStays DEF IInv, LoopInv
<1>5. BatchInv' /\ Tasks' = Tasks
  BY <1>1, BatchStays DEF IInv
<1>6. PoolInv'
  <2>1. Tasks = DOMAIN results /\ \A i \in Tasks : results[i] # "raise"
    BY DEF MapReturns
  <2>2. Len(batch) \in Nat
    BY <1>1, BatchIs
  <2>3. QED
    BY <1>1, <1>5, <2>1, <2>2, FileStays DEF IInv, PoolInv, poolVars
<1>7. PushedInv'
  <2>1. \A i \in Records : ResultOf(i) \in Pushed <=> i < cursor /\ i \notin Tasks /\ Answered(i)
    BY <1>1 DEF IInv, PushedInv
  <2>2. 1 .. sent' = {}
    BY <1>1
  <2>3. Records' = Records
        /\ \A i \in Records : Answered(i)' = Answered(i) /\ ResultOf(i)' = ResultOf(i)
    BY <1>1, SameFile DEF ResultOf
  <2>4. QED
    BY <1>1, <1>2, <1>5, <2>1, <2>2, <2>3 DEF PushedInv
<1>8. QED
  BY <1>3, <1>4, <1>5, <1>6, <1>7 DEF IInv

LEMMA PushResultKeeps ==
  ASSUME IInv, PushResult
  PROVE  IInv'
<1>1. pc = "push" /\ pc' = "push" /\ sent < Len(batch) /\ sent' = sent + 1
      /\ results[batch[sent + 1]] = "result"
      /\ Sink!Produce("results", {ResultOf(batch[sent + 1])})
      /\ UNCHANGED <<fileVars, cursor, batch, poolVars>> /\ TypeOK
  BY DEF PushResult, IInv
<1>2. sent \in Nat /\ sent' \in Nat /\ sent + 1 \in DOMAIN batch /\ Len(batch) \in Nat
      /\ batch[sent + 1] \in Records /\ Records \subseteq Nat
      /\ \A k \in 1 .. sent + 1 : k \in 1 .. sent \/ k = sent + 1
  BY <1>1, BatchIs, LinesAre DEF TypeOK
<1>3. SinkOK' /\ Pushed' = Pushed \cup {ResultOf(batch[sent + 1])}
  BY <1>1, <1>2, ProduceResult
<1>4. TypeOK'
  BY <1>1, <1>2, <1>3, TypeStays DEF TypeOK
<1>5. LoopInv'
  BY <1>1, FileStays DEF IInv, LoopInv
<1>6. BatchInv' /\ Tasks' = Tasks
  BY <1>1, BatchStays DEF IInv
<1>7. PoolInv'
  <2>1. results' = results /\ batch' = batch /\ lines' = lines /\ sent' <= Len(batch)
    BY <1>1, <1>2, FileStays DEF poolVars
  <2>2. \A k \in 1 .. sent' : results[batch[k]] = "result"
    <3>1. \A k \in 1 .. sent : results[batch[k]] = "result"
      BY <1>1 DEF IInv, PoolInv
    <3>2. QED
      BY <1>1, <1>2, <3>1
  <2>3. QED
    BY <1>1, <1>6, <2>1, <2>2 DEF IInv, PoolInv
<1>8. PushedInv'
  <2>1. SUFFICES ASSUME NEW i \in Records
                 PROVE  ResultOf(i) \in Pushed' <=>
                          IF i < cursor /\ i \notin Tasks THEN Answered(i)
                          ELSE \E k \in 1 .. sent + 1 : batch[k] = i
    BY <1>1, <1>6, SameFile DEF PushedInv, ResultOf
  <2>2. ResultOf(i) \in Pushed <=>
          IF i < cursor /\ i \notin Tasks THEN Answered(i)
          ELSE \E k \in 1 .. sent : batch[k] = i
    BY <1>1 DEF IInv, PushedInv
  <2>3. ResultOf(i) \in Pushed' <=> ResultOf(i) \in Pushed \/ batch[sent + 1] = i
    <3>1. PICK j \in Records : batch[sent + 1] = j
      BY <1>2
    <3>2. i \in Int /\ j \in Int
      BY <1>2
    <3>3. ResultOf(i) = ResultOf(j) <=> i = j
      BY <3>1, <3>2, ResultsAreDistinct
    <3>4. QED
      BY <1>3, <3>1, <3>3
  <2>4. batch[sent + 1] \in Tasks
    BY <1>2 DEF Tasks
  <2>5. (\E k \in 1 .. sent + 1 : batch[k] = i)
          <=> (\E k \in 1 .. sent : batch[k] = i) \/ batch[sent + 1] = i
    BY <1>2
  <2>6. QED
    BY <2>2, <2>3, <2>4, <2>5
<1>9. QED
  BY <1>4, <1>5, <1>6, <1>7, <1>8 DEF IInv

\* Of a batch, what has been pushed when push_batch ends are the records that are answered.
LEMMA BatchAnswered ==
  ASSUME IInv, pc = "push", sent < Len(batch) => results[batch[sent + 1]] = "none",
         NEW i \in Tasks
  PROVE  Answered(i) <=> \E k \in 1 .. sent : batch[k] = i
<1>1. TypeOK /\ BatchInv /\ jobs > 1 /\ batch # <<>> /\ Len(batch) <= jobs /\ sent <= Len(batch)
      /\ \A k \in 1 .. sent : results[batch[k]] = "result"
  BY BatchIs, LinesAre DEF IInv, LoopInv, PoolInv
<1>2. sent \in Nat /\ Len(batch) \in Nat /\ DOMAIN batch = 1 .. Len(batch)
      /\ \A k \in DOMAIN batch : batch[k] \in Records
  BY <1>1, BatchIs DEF TypeOK
<1>3. \A k \in DOMAIN batch : results[batch[k]] \in Process(lines[batch[k]])
  BY DEF IInv, PoolInv, Tasks
<1>4. /\ \A k, m \in DOMAIN batch : Group(batch[k]) = Group(batch[m])
      /\ \A k \in DOMAIN batch, j \in Records :
           j < batch[k] /\ Group(j) = Group(batch[k]) =>
             \E m \in DOMAIN batch : m < k /\ batch[m] = j
  BY <1>1, BatchIsGroup
<1>5. \A k \in 1 .. sent : k \in DOMAIN batch /\ lines[batch[k]] # "empty"
  BY <1>1, <1>2, <1>3, ProcessIs
<1>6. ASSUME NEW k \in 1 .. sent, batch[k] = i PROVE Answered(i)
  <2>1. ASSUME NEW j \in Records, j < i, Group(j) = Group(i) PROVE lines[j] # "empty"
    <3>1. PICK m \in DOMAIN batch : m < k /\ batch[m] = j
      BY <1>4, <1>5, <1>6, <2>1
    <3>2. m \in 1 .. sent
      BY <1>2, <3>1
    <3>3. QED
      BY <1>5, <3>1, <3>2
  <2>2. lines[i] # "empty"
    BY <1>5, <1>6
  <2>3. QED
    BY <2>1, <2>2 DEF Answered
<1>7. ASSUME ~ \E k \in 1 .. sent : batch[k] = i PROVE ~Answered(i)
  <2>1. PICK k \in DOMAIN batch : batch[k] = i
    BY DEF Tasks
  <2>2. sent < k /\ sent + 1 \in DOMAIN batch /\ sent < Len(batch)
    BY <1>2, <1>7, <2>1
  <2>3. lines[batch[sent + 1]] = "empty"
    BY <1>3, <2>2, ProcessIs
  <2>4. CASE k = sent + 1
    BY <2>1, <2>3, <2>4 DEF Answered
  <2>5. CASE sent + 1 < k
    <3>1. Rank(batch[sent + 1]) = BatchStart + (sent + 1) - 1
          /\ Rank(batch[k]) = BatchStart + k - 1
      BY <1>1, <2>2 DEF BatchInv
    <3>2. BatchStart \in Int
      <4>1. Rank(cursor) \in Nat
        BY <1>1, RankIs
      <4>2. QED
        BY <1>2, <4>1 DEF BatchStart
    <3>3. Rank(batch[sent + 1]) < Rank(batch[k])
      BY <1>2, <2>5, <3>1, <3>2
    <3>4. batch[sent + 1] < batch[k]
      BY <1>1, <1>2, <2>2, <3>3, RankOrders
    <3>5. QED
      BY <1>1, <1>2, <1>4, <2>1, <2>2, <2>3, <3>4 DEF Answered
  <2>6. QED
    BY <1>2, <2>2, <2>4, <2>5
<1>8. QED
  BY <1>6, <1>7

\* The next batch starts behind the last one, which was full or the last of the file.
LEMMA EndBatchCuts ==
  ASSUME IInv, EndBatch
  PROVE  BatchInv'
<1>1. pc = "push" /\ batch' = <<>> /\ UNCHANGED <<fileVars, cursor>> /\ TypeOK /\ BatchInv
  BY DEF EndBatch, BatchDone, IInv
<1>2. jobs \in Nat /\ jobs > 1 /\ Len(batch) \in Nat \ {0} /\ batch # <<>>
      /\ (Len(batch) = jobs \/ cursor > Len(lines))
  BY <1>1, BatchIs, LinesAre DEF IInv, LoopInv
<1>3. Rank(cursor) \in Nat /\ BatchStart' = Rank(cursor) /\ Rank(cursor) = BatchStart + Len(batch)
      /\ BatchStart \in Nat
  <2>1. Rank(cursor)' = Rank(cursor) /\ Len(batch') = 0
    BY <1>1, SameFile
  <2>2. Rank(cursor) \in Nat
    BY <1>1, RankIs
  <2>3. QED
    BY <1>1, <1>2, <2>1, <2>2 DEF BatchStart, BatchInv
<1>4. CASE Len(batch) = jobs
  <2>1. PICK q \in 0 .. BatchStart : BatchStart = q * jobs
    BY <1>1, <1>2 DEF BatchInv
  <2>2. q \in Nat /\ q + 1 \in 0 .. BatchStart' /\ (q + 1) * jobs = q * jobs + jobs
    BY <1>2, <1>3, <1>4, <2>1
  <2>3. BatchStart' = (q + 1) * jobs'
    BY <1>1, <1>3, <1>4, <2>1, <2>2, FileStays
  <2>4. QED
    BY <1>1, <1>3, <2>2, <2>3 DEF BatchInv
<1>5. CASE cursor > Len(lines)
  BY <1>1, <1>3, <1>5, FileStays DEF BatchInv
<1>6. QED
  BY <1>2, <1>4, <1>5

LEMMA EndBatchKeeps ==
  ASSUME IInv, EndBatch
  PROVE  IInv'
<1>1. pc = "push" /\ pc' = "read" /\ batch' = <<>> /\ results' = NoResults /\ sent' = 0
      /\ (sent < Len(batch) => results[batch[sent + 1]] = "none")
      /\ UNCHANGED <<fileVars, cursor, sinkVars>> /\ TypeOK /\ jobs > 1
  BY LinesAre DEF EndBatch, BatchDone, IInv, LoopInv
<1>2. lines' = lines /\ jobs' = jobs /\ Records' = Records /\ SinkOK' /\ Pushed' = Pushed
  BY <1>1, FileStays, SameFile, SinkStays
<1>3. TypeOK'
  BY <1>1, <1>2 DEF TypeOK, SinkOK
<1>4. LoopInv'
  BY <1>1, <1>2, LinesAre DEF LoopInv
<1>5. PoolInv'
  BY <1>1 DEF PoolInv, NoResults
<1>6. PushedInv'
  <2>1. SUFFICES ASSUME NEW i \in Records
                 PROVE  ResultOf(i) \in Pushed <=> i < cursor /\ Answered(i)
    <3>1. Tasks' = {}
      BY <1>1 DEF Tasks
    <3>2. \A i \in Records : Answered(i)' = Answered(i) /\ ResultOf(i)' = ResultOf(i)
      BY <1>1, SameFile DEF ResultOf
    <3>3. QED
      BY <1>1, <1>2, <2>1, <3>1, <3>2 DEF PushedInv
  <2>2. ResultOf(i) \in Pushed <=>
          IF i < cursor /\ i \notin Tasks THEN Answered(i)
          ELSE \E k \in 1 .. sent : batch[k] = i
    BY <1>1 DEF IInv, PushedInv
  <2>3. CASE i \in Tasks
    <3>1. i < cursor
      BY <1>1, <2>3 DEF IInv, BatchInv, Tasks
    <3>2. Answered(i) <=> \E k \in 1 .. sent : batch[k] = i
      BY <1>1, <2>3, BatchAnswered
    <3>3. QED
      BY <2>2, <2>3, <3>1, <3>2
  <2>4. CASE i \notin Tasks
    <3>1. \A k \in 1 .. sent : k \in DOMAIN batch
      BY <1>1, BatchIs DEF IInv, PoolInv, TypeOK
    <3>2. ~ \E k \in 1 .. sent : batch[k] = i
      BY <2>4, <3>1 DEF Tasks
    <3>3. QED
      BY <2>2, <2>4, <3>2
  <2>5. QED
    BY <2>3, <2>4
<1>7. QED
  BY <1>3, <1>4, <1>5, <1>6, EndBatchCuts DEF IInv

LEMMA FinishKeeps ==
  ASSUME IInv, Finish
  PROVE  IInv'
<1>1. pc = "close" /\ pc' = "done" /\ inflight["results"] = {} /\ failed["results"] = {}
      /\ inflight' = [inflight EXCEPT !["images"] = {}]
      /\ failed' = [failed EXCEPT !["images"] = {}] /\ delivered' = delivered
      /\ UNCHANGED <<fileVars, cursor, batch, poolVars, sent>> /\ TypeOK
  BY DEF Finish, Sink!Lose, IInv
<1>2. inflight \in [{"results", "images"} -> SUBSET Output]
      /\ failed \in [{"results", "images"} -> SUBSET Output]
  BY <1>1 DEF TypeOK
<1>3. inflight' \in [{"results", "images"} -> SUBSET Output]
      /\ failed' \in [{"results", "images"} -> SUBSET Output]
      /\ inflight'["results"] = {} /\ failed'["results"] = {}
      /\ inflight'["images"] = {} /\ failed'["images"] = {}
  BY <1>1, <1>2
<1>4. SinkOK' /\ Pushed' = Pushed
  BY <1>1, <1>3 DEF SinkOK, Pushed
<1>5. TypeOK'
  BY <1>1, <1>4, TypeStays DEF TypeOK
<1>6. LoopInv'
  BY <1>1, <1>3, FileStays DEF IInv, LoopInv
<1>7. BatchInv' /\ Tasks' = Tasks
  BY <1>1, BatchStays DEF IInv
<1>8. PoolInv'
  BY <1>1, FileStays DEF IInv, PoolInv, poolVars
<1>9. PushedInv'
  BY <1>1, <1>4, <1>7, SameFile DEF IInv, PushedInv, ResultOf
<1>10. QED
  BY <1>5, <1>6, <1>7, <1>8, <1>9 DEF IInv

LEMMA BrokerStepKeeps ==
  ASSUME IInv, NEW w \in {"results", "images"}, Broker(w)
  PROVE  IInv'
<1>1. pc \notin {"done", "dead"} /\ TypeOK
      /\ UNCHANGED <<fileVars, pc, cursor, batch, poolVars, sent>>
      /\ (Sink!Deliver(w) \/ Sink!DeliveryError(w))
  BY DEF Broker, IInv
<1>2. SinkOK' /\ \A i \in Records : ResultOf(i) \in Pushed' <=> ResultOf(i) \in Pushed
  BY <1>1, BrokerKeeps
<1>3. TypeOK'
  BY <1>1, <1>2, TypeStays DEF TypeOK
<1>4. LoopInv'
  BY <1>1, FileStays, SameFile DEF IInv, LoopInv
<1>5. BatchInv' /\ PoolInv' /\ PushedInv'
  BY <1>1, <1>2, BatchStays, PoolStays, PushedStays DEF IInv, poolVars
<1>6. QED
  BY <1>3, <1>4, <1>5 DEF IInv

-----------------------------------------------------------------------------
(* The invariant, and what a normal end says.                              *)

LEMMA InitIInv ==
  ASSUME Init
  PROVE  IInv
<1>1. lines \in Inputs /\ jobs \in Jobs /\ pc = "read" /\ cursor = 1 /\ batch = <<>> /\ sent = 0
      /\ results = NoResults /\ lines \in Seq(Line) /\ jobs \in Nat
      /\ inflight = [w \in {"results", "images"} |-> {}]
      /\ failed = [w \in {"results", "images"} |-> {}] /\ delivered = {}
  BY ToolsAssumption DEF Init, Sink!SinkInit
<1>2. TypeOK
  <2>1. Len(lines) \in Nat /\ cursor \in 1 .. Len(lines) + 1
    BY <1>1
  <2>2. QED
    BY <1>1, <2>1 DEF TypeOK
<1>3. LoopInv
  BY <1>1 DEF LoopInv
<1>4. BatchInv
  <2>1. BatchStart = 0
    BY <1>1, <1>2, RankOfFirst DEF BatchStart
  <2>2. 0 = 0 * jobs
    BY <1>1
  <2>3. QED
    BY <1>1, <2>1, <2>2 DEF BatchInv
<1>5. PoolInv
  BY <1>1 DEF PoolInv, NoResults
<1>6. PushedInv
  <2>1. \A i \in Records : ~(i < cursor)
    BY <1>1, <1>2, LinesAre
  <2>2. Pushed = {}
    BY <1>1 DEF Pushed
  <2>3. QED
    BY <1>1, <2>1, <2>2 DEF PushedInv
<1>7. QED
  BY <1>2, <1>3, <1>4, <1>5, <1>6 DEF IInv

LEMMA NextKeeps ==
  ASSUME IInv, [Next]_vars
  PROVE  IInv'
<1>1. CASE Main
  <2>1. CASE Dies
    BY <2>1, DiesKeeps
  <2>2. CASE ~Dies
    BY <1>1, <2>2, SkipLineKeeps, AddToBatchKeeps, NoMoreLinesKeeps, PushImageKeeps,
       PushRecordKeeps, MapReturnsKeeps, PushResultKeeps, EndBatchKeeps, FinishKeeps
       DEF Main, ProcessRaises, MapRaises, BailOut
  <2>3. QED
    BY <2>1, <2>2
<1>2. CASE Pool \/ \E i \in 1 .. MaxLines : ProcessDies(i)
  BY <1>2, TaskKeeps DEF Pool
<1>3. CASE \E w \in {"results", "images"} : Broker(w)
  BY <1>3, BrokerStepKeeps
<1>4. CASE UNCHANGED vars
  <2>1. PoolInv' /\ UNCHANGED <<fileVars, pc, cursor, batch, sent, sinkVars>>
    BY <1>4, PoolStays DEF IInv, vars, poolVars
  <2>2. QED
    BY <2>1, PoolKeeps
<1>5. QED
  BY <1>1, <1>2, <1>3, <1>4 DEF Next

\* The state of a run is always what IInv says: where the file, the batch, the pool and the
\* producer stand to each other between the calls of push_record, push_batch and finish().
THEOREM Inductive == Spec => []IInv
<1>1. Init => IInv
  BY InitIInv
<1>2. IInv /\ [Next]_vars => IInv'
  BY NextKeeps
<1>3. QED
  BY <1>1, <1>2, PTL DEF Spec

\* grobid_tool.py and pdfextract_tool.py: when finish() returns, the result of each record of
\* the file is in the topic, but for those MultiprocessWrapper.push_batch drops behind an empty
\* PDF of the same batch; for every file, --jobs, pool and order of the pool's answers.
THEOREM DoneMeansDelivered == Spec => []DoneIsDelivered
<1>1. ASSUME IInv, pc = "done", NEW i \in Records
      PROVE  ResultOf(i) \in delivered <=> Answered(i)
  <2>1. TypeOK /\ batch = <<>> /\ cursor > Len(lines)
        /\ inflight["results"] = {} /\ failed["results"] = {}
    BY <1>1 DEF IInv, LoopInv
  <2>2. i < cursor /\ Tasks = {} /\ Pushed = delivered
    BY <2>1, LinesAre DEF Tasks, Pushed
  <2>3. QED
    BY <1>1, <2>2 DEF IInv, PushedInv
<1>2. IInv => DoneIsDelivered
  BY <1>1 DEF DoneIsDelivered
<1>3. QED
  BY <1>2, Inductive, PTL
=============================================================================
