----------------------------- MODULE ShopProofs -----------------------------
(***************************************************************************)
(* Proofs about the web shop as a whole, MCShop, for every value of the     *)
(* constants: what each area keeps true it keeps true beside the others.   *)
(* Most areas have their proofs in PagesProofs, CardsProofs and             *)
(* ServicesProofs; those of the ranking, of the notifications and of the   *)
(* search on the start page are here.                                      *)
(***************************************************************************)
EXTENDS MCShop, PagesProofs, CardsProofs, ServicesProofs, TLAPS

-----------------------------------------------------------------------------
(* The ranking.  Nothing shows, caches or pushes more than was recorded.   *)

RankingPage == [open : BOOLEAN, connected : BOOLEAN, rankings : Rankings, asked : BOOLEAN]
RankingTask == [step : {"idle", "calculate", "cache", "push", "answer"}, ranking : Rankings]

NotAhead ==
  /\ rkCache # NotCached => rkCache <= rkRecords
  /\ \A t \in Tasks : rkTask[t].ranking <= rkRecords
  /\ \A ranking \in rkWire : ranking <= rkRecords
  /\ rkPage.rankings <= rkRecords

RankingInv == RankingTypeOK /\ NotAhead

LEMMA RankingFacts ==
  /\ 0 \in Rankings /\ NoTask \in RankingTask /\ NoTask.ranking = 0 /\ NotCached \notin Rankings
  /\ NoPage \in RankingPage /\ NoPage.rankings = 0
  /\ \A r \in Rankings : r \in Nat /\ r <= MaxRecords
<1>1. 0 \in Rankings
  BY RecordsAssumption DEF Rankings
<1>2. \A r \in Rankings : r \in Nat /\ r <= MaxRecords
  BY RecordsAssumption DEF Rankings
<1> QED
  BY <1>1, <1>2, NotCachedAssumption DEF NoTask, NoPage, RankingTask, RankingPage

LEMMA RankingInitInv == ASSUME RankingInit PROVE RankingInv
<1>1. /\ rkRecords = 0 /\ rkCache = NotCached /\ rkWire = {} /\ rkPage = NoPage
      /\ \A t \in Tasks : rkTask[t] = NoTask
  BY DEF RankingInit
<1>2. rkTask \in [Tasks -> RankingTask]
  BY RankingFacts DEF RankingInit
<1>3. rkOpens \in 0..MaxOpens /\ rkFailures \in 0..MaxFailures
  BY RecordsAssumption DEF RankingInit
<1>4. RankingTypeOK
  BY <1>1, <1>2, <1>3, RankingFacts DEF RankingTypeOK, RankingTask, RankingPage
<1>5. NotAhead
  <2>1. rkPage.rankings = 0 /\ \A t \in Tasks : rkTask[t].ranking = 0
    BY <1>1, RankingFacts
  <2> QED
    BY <1>1, <2>1 DEF NotAhead
<1> QED
  BY <1>4, <1>5 DEF RankingInv

(* A task goes on with a ranking that is not ahead. *)
LEMMA TaskKeeps ==
  ASSUME RankingInv, NEW t \in Tasks, NEW task \in RankingTask, task.ranking <= rkRecords,
         rkTask' = [rkTask EXCEPT ![t] = task],
         UNCHANGED <<rkRecords, rkOpens>>,
         rkFailures' \in 0..MaxFailures,
         rkPage' \in RankingPage, (rkPage').rankings <= rkRecords,
         rkCache' \in Rankings \cup {NotCached}, rkCache' # NotCached => rkCache' <= rkRecords,
         rkWire' \subseteq Rankings, \A ranking \in rkWire' : ranking <= rkRecords
  PROVE  RankingInv'
<1>1. rkTask' \in [Tasks -> RankingTask]
  BY DEF RankingInv, RankingTypeOK, RankingTask
<1>2. RankingTypeOK'
  BY <1>1 DEF RankingInv, RankingTypeOK, RankingTask, RankingPage
<1>3. \A u \in Tasks : rkTask'[u].ranking <= rkRecords
  <2> TAKE u \in Tasks
  <2>1. rkTask'[u] = IF u = t THEN task ELSE rkTask[u]
    BY DEF RankingInv, RankingTypeOK
  <2>2. rkTask[u].ranking <= rkRecords
    BY DEF RankingInv, NotAhead
  <2> QED
    BY <2>1, <2>2
<1> QED
  BY <1>2, <1>3 DEF RankingInv, NotAhead

LEMMA TaskGoes ==
  ASSUME RankingInv, NEW t \in Tasks, NEW step \in {"idle", "calculate", "cache", "push", "answer"}, Goes(t, step)
  PROVE  \E task \in RankingTask : task.ranking = rkTask[t].ranking /\ rkTask' = [rkTask EXCEPT ![t] = task]
<1> DEFINE task == [rkTask[t] EXCEPT !.step = step]
<1>1. rkTask[t] \in RankingTask
  BY DEF RankingInv, RankingTypeOK, RankingTask
<1>2. task \in RankingTask /\ task.ranking = rkTask[t].ranking
  BY <1>1 DEF RankingTask
<1>3. rkTask' = [rkTask EXCEPT ![t] = task]
  BY <1>1 DEF Goes, RankingInv, RankingTypeOK
<1> QED
  BY <1>2, <1>3

LEMMA RankingStep == ASSUME RankingInv, [RankingNext]_rkVars PROVE RankingInv'
<1>1. /\ rkPage \in RankingPage /\ rkPage.rankings <= rkRecords
      /\ rkCache \in Rankings \cup {NotCached} /\ (rkCache # NotCached => rkCache <= rkRecords)
      /\ rkWire \subseteq Rankings /\ \A ranking \in rkWire : ranking <= rkRecords
      /\ rkFailures \in 0..MaxFailures /\ rkRecords \in Rankings /\ rkRecords <= rkRecords
      /\ \A t \in Tasks : rkTask[t] \in RankingTask /\ rkTask[t].ranking <= rkRecords
  BY RankingFacts DEF RankingInv, RankingTypeOK, NotAhead, RankingPage, RankingTask
<1>2. ASSUME NEW t \in Tasks, SaveRecord(t) PROVE RankingInv'
  <2>1. PICK task \in RankingTask : task.ranking = rkTask[t].ranking /\ rkTask' = [rkTask EXCEPT ![t] = task]
    BY <1>2, TaskGoes DEF SaveRecord
  <2>2. rkRecords' \in Rankings /\ rkRecords' = rkRecords + 1
    BY <1>1, <1>2, RecordsAssumption DEF SaveRecord, Rankings
  <2>3. UNCHANGED <<rkCache, rkWire, rkPage, rkOpens, rkFailures>>
    BY <1>2 DEF SaveRecord
  <2>4. rkTask' \in [Tasks -> RankingTask] /\ \A u \in Tasks : rkTask'[u].ranking = rkTask[u].ranking
    BY <2>1 DEF RankingInv, RankingTypeOK, RankingTask
  <2>5. RankingTypeOK'
    BY <2>2, <2>3, <2>4 DEF RankingInv, RankingTypeOK, RankingTask
  <2>6. \A r \in Rankings : r <= rkRecords => r <= rkRecords + 1
    BY <1>1, RankingFacts
  <2>7. \A u \in Tasks : rkTask[u].ranking \in Rankings
    BY <1>1 DEF RankingTask
  <2>8. rkPage.rankings \in Rankings
    BY <1>1 DEF RankingPage
  <2> QED
    BY <1>1, <2>2, <2>3, <2>4, <2>5, <2>6, <2>7, <2>8 DEF RankingInv, NotAhead
<1>3. CASE BroadcastRankings
  <2>1. PICK task \in RankingTask :
          task.ranking = rkTask["scheduler"].ranking /\ rkTask' = [rkTask EXCEPT !["scheduler"] = task]
    BY <1>3, TaskGoes DEF BroadcastRankings, Tasks
  <2>2. UNCHANGED <<rkRecords, rkCache, rkWire, rkPage, rkOpens, rkFailures>> /\ "scheduler" \in Tasks
    BY <1>3 DEF BroadcastRankings, Tasks
  <2> QED
    BY <1>1, <2>1, <2>2, TaskKeeps
<1>4. CASE GetRankings
  <2> DEFINE task == IF rkCache # NotCached THEN [step |-> "answer", ranking |-> rkCache]
                     ELSE [step |-> "calculate", ranking |-> 0]
  <2>1. task \in RankingTask /\ task.ranking <= rkRecords
    BY <1>1, RankingFacts DEF RankingTask
  <2>2. rkTask' = [rkTask EXCEPT !["get"] = task]
    BY <1>4 DEF GetRankings
  <2>3. UNCHANGED <<rkRecords, rkCache, rkWire, rkPage, rkOpens, rkFailures>> /\ "get" \in Tasks
    BY <1>4 DEF GetRankings, Tasks
  <2> HIDE DEF task
  <2> QED
    BY <1>1, <2>1, <2>2, <2>3, TaskKeeps
<1>5. ASSUME NEW t \in Tasks, CalculateRankings(t) PROVE RankingInv'
  <2> DEFINE task == [step |-> "cache", ranking |-> rkRecords]
  <2>1. task \in RankingTask /\ task.ranking <= rkRecords
    BY <1>1 DEF RankingTask
  <2>2. rkTask' = [rkTask EXCEPT ![t] = task]
    BY <1>5 DEF CalculateRankings
  <2>3. UNCHANGED <<rkRecords, rkCache, rkWire, rkPage, rkOpens, rkFailures>>
    BY <1>5 DEF CalculateRankings
  <2> HIDE DEF task
  <2> QED
    BY <1>1, <2>1, <2>2, <2>3, TaskKeeps
<1>6. ASSUME NEW t \in Tasks, CacheRankings(t) PROVE RankingInv'
  <2>1. PICK task \in RankingTask : task.ranking = rkTask[t].ranking /\ rkTask' = [rkTask EXCEPT ![t] = task]
    BY <1>6, TaskGoes DEF CacheRankings
  <2>2. rkCache' = rkTask[t].ranking /\ rkTask[t].ranking \in Rankings
    BY <1>1, <1>6 DEF CacheRankings, RankingTask
  <2>3. UNCHANGED <<rkRecords, rkWire, rkPage, rkOpens, rkFailures>>
    BY <1>6 DEF CacheRankings
  <2> QED
    BY <1>1, <2>1, <2>2, <2>3, TaskKeeps
<1>7. ASSUME NEW t \in Tasks, PushRankings(t) PROVE RankingInv'
  <2>1. rkTask' = [rkTask EXCEPT ![t] = NoTask] /\ UNCHANGED <<rkRecords, rkCache, rkPage, rkOpens, rkFailures>>
    BY <1>7 DEF PushRankings
  <2>2. rkTask[t].ranking \in Rankings /\ rkTask[t].ranking <= rkRecords
    BY <1>1 DEF RankingTask
  <2>3. rkWire' \subseteq Rankings /\ \A ranking \in rkWire' : ranking <= rkRecords
    BY <1>1, <1>7, <2>2 DEF PushRankings
  <2>4. NoTask.ranking <= rkRecords
    BY <1>1, RankingFacts
  <2> QED
    BY <1>1, <2>1, <2>3, <2>4, RankingFacts, TaskKeeps
<1>8. ASSUME NEW t \in Tasks, CalculationFails(t) PROVE RankingInv'
  <2>1. rkTask' = [rkTask EXCEPT ![t] = NoTask] /\ UNCHANGED <<rkRecords, rkCache, rkWire, rkOpens>>
    BY <1>8 DEF CalculationFails
  <2>2. rkFailures' \in 0..MaxFailures
    BY <1>1, <1>8, RecordsAssumption DEF CalculationFails, Failure
  <2>3. rkPage' \in RankingPage /\ (rkPage').rankings = rkPage.rankings
    BY <1>1, <1>8 DEF CalculationFails, RankingPage
  <2>4. NoTask.ranking <= rkRecords
    BY <1>1, RankingFacts
  <2> QED
    BY <1>1, <2>1, <2>2, <2>3, <2>4, RankingFacts, TaskKeeps
<1>9. CASE RankingAnswered
  <2>1. rkTask' = [rkTask EXCEPT !["get"] = NoTask] /\ UNCHANGED <<rkRecords, rkCache, rkWire, rkOpens, rkFailures>>
    BY <1>9 DEF RankingAnswered
  <2>2. "get" \in Tasks /\ rkTask["get"].ranking \in Rankings /\ rkTask["get"].ranking <= rkRecords
    BY <1>1 DEF Tasks, RankingTask
  <2>3. rkPage' \in RankingPage /\ (rkPage').rankings <= rkRecords
    BY <1>1, <1>9, <2>2 DEF RankingAnswered, RankingPage
  <2>4. NoTask.ranking <= rkRecords
    BY <1>1, RankingFacts
  <2> QED
    BY <1>1, <2>1, <2>2, <2>3, <2>4, RankingFacts, TaskKeeps
<1>10. ASSUME UNCHANGED <<rkRecords, rkTask>>, rkOpens' \in 0..MaxOpens, rkFailures' \in 0..MaxFailures,
              rkPage' \in RankingPage, (rkPage').rankings <= rkRecords,
              rkCache' = rkCache \/ rkCache' = NotCached, rkWire' \subseteq rkWire
       PROVE  RankingInv'
  BY <1>1, <1>10 DEF RankingInv, RankingTypeOK, NotAhead, RankingPage
<1>11. rkOpens \in 0..MaxOpens /\ NoPage.rankings <= rkRecords
  BY <1>1, RankingFacts DEF RankingInv, RankingTypeOK
<1>12. CASE RankingExpires
  BY <1>1, <1>10, <1>11, <1>12 DEF RankingExpires
<1>13. CASE RealTimeRanking
  <2>1. rkOpens' \in 0..MaxOpens
    BY <1>11, <1>13, RecordsAssumption DEF RealTimeRanking
  <2>2. rkPage' \in RankingPage /\ (rkPage').rankings = NoPage.rankings
    BY <1>13, RankingFacts DEF RealTimeRanking, RankingPage
  <2> QED
    BY <1>1, <1>10, <1>11, <1>13, <2>1, <2>2 DEF RealTimeRanking
<1>14. CASE ClosePage
  BY <1>1, <1>10, <1>11, <1>14, RankingFacts DEF ClosePage
<1>15. CASE OnConnect
  <2>1. rkPage' \in RankingPage /\ (rkPage').rankings = rkPage.rankings
    BY <1>1, <1>15 DEF OnConnect, RankingPage
  <2> QED
    BY <1>1, <1>10, <1>11, <1>15, <2>1 DEF OnConnect
<1>16. CASE OnDisconnect
  <2>1. rkPage' \in RankingPage /\ (rkPage').rankings = rkPage.rankings
    BY <1>1, <1>16 DEF OnDisconnect, RankingPage
  <2>2. rkFailures' \in 0..MaxFailures
    BY <1>1, <1>16, RecordsAssumption DEF OnDisconnect, Failure
  <2> QED
    BY <1>1, <1>10, <1>11, <1>16, <2>1, <2>2 DEF OnDisconnect
<1>17. ASSUME NEW ranking \in Rankings, RankingPushed(ranking) PROVE RankingInv'
  <2>1. rkPage' \in RankingPage /\ (rkPage').rankings = ranking
    BY <1>1, <1>17 DEF RankingPushed, RankingPage
  <2> QED
    BY <1>1, <1>10, <1>11, <1>17, <2>1 DEF RankingPushed
<1>18. CASE UNCHANGED rkVars
  BY <1>1, <1>10, <1>11, <1>18 DEF rkVars
<1> QED
  BY <1>2, <1>3, <1>4, <1>5, <1>6, <1>7, <1>8, <1>9, <1>12, <1>13, <1>14, <1>15, <1>16, <1>17, <1>18
     DEF RankingNext, GoOn

(* Types; and a page never shows a ranking of more than was recorded, in   *)
(* whatever order rankings are computed, cached, pushed, answered or lost  *)
(* (RankingService, RealTimeRanking.js).                                   *)
THEOREM RankingNotAhead == RankingSpec => [](RankingTypeOK /\ rkPage.rankings <= rkRecords)
<1>1. RankingInit => RankingInv
  BY RankingInitInv
<1>2. RankingInv /\ [RankingNext]_rkVars => RankingInv'
  BY RankingStep
<1>3. RankingInv => RankingTypeOK /\ rkPage.rankings <= rkRecords
  BY DEF RankingInv, NotAhead
<1> QED
  BY <1>1, <1>2, <1>3, PTL DEF RankingSpec

-----------------------------------------------------------------------------
(* The notifications.  Each that is shown has a timer that will remove it. *)

(* Induction up to n: a smallest 0..i whose end is missing would have a    *)
(* smaller one.                                                            *)
LEMMA UpTo ==
  ASSUME NEW n \in Nat, NEW S, 0 \in S, \A i \in 0..n : i # n /\ i \in S => i + 1 \in S
  PROVE  \A i \in 0..n : i \in S
<1> SUFFICES ASSUME NEW i \in 0..n, i \notin S PROVE FALSE
  OBVIOUS
<1> DEFINE All == 0..n
           Missing == {T \in SUBSET All : \E k \in All : T = 0..k /\ k \notin S}
<1>1. IsFiniteSet(All)
  BY 0 \in Int, n \in Int, FS_Interval
<1>2. IsWellFoundedOn(StrictSubsetOrdering(All), SUBSET All)
  <2> HIDE DEF All
  <2> QED
    BY <1>1, FS_StrictSubsetOrderingWellFounded, FS_FiniteSubsetsOfFinite
<1>3. Missing \subseteq SUBSET All /\ Missing # {}
  <2>1. 0..i \in Missing
    OBVIOUS
  <2> QED
    BY <2>1
<1>4. PICK T \in Missing : \A U \in Missing : <<U, T>> \notin StrictSubsetOrdering(All)
  <2> HIDE DEF Missing, All
  <2> QED
    BY <1>2, <1>3, WFMin
<1>5. PICK k \in All : T = 0..k /\ k \notin S
  BY <1>4
<1>6. k - 1 \in All /\ (k - 1) + 1 = k /\ k - 1 # n
  BY <1>5
<1>7. k - 1 \notin S
  BY <1>5, <1>6
<1>8. 0..(k - 1) \in Missing /\ 0..(k - 1) \subseteq T /\ 0..(k - 1) # T
  <2>1. 0..(k - 1) \in SUBSET All /\ 0..(k - 1) \subseteq T
    BY <1>5, <1>6
  <2>2. k \in T /\ k \notin 0..(k - 1)
    BY <1>5
  <2> QED
    BY <1>6, <1>7, <2>1, <2>2
<1>9. <<0..(k - 1), T>> \in StrictSubsetOrdering(All)
  <2>1. T \in SUBSET All /\ 0..(k - 1) \in SUBSET All
    BY <1>4, <1>8
  <2> DEFINE U == 0..(k - 1)
  <2> HIDE DEF U, All
  <2> QED
    BY <1>8, <2>1 DEF StrictSubsetOrdering, U
<1> QED
  BY <1>4, <1>8, <1>9

OnScreen(list) == {list[i] : i \in 1..Len(list)}

(* What the filter keeps of the first i, as its recursion has it. *)
Keeps(list, orderId, kept, n) ==
  kept = [i \in 0..n |-> IF i = 0 THEN <<>>
                         ELSE IF list[i] = orderId THEN kept[i - 1]
                         ELSE Append(kept[i - 1], list[i])]

LEMMA KeptIs ==
  ASSUME NEW list, NEW orderId
  PROVE  OfOtherOrders(list, orderId) = (CHOOSE kept : Keeps(list, orderId, kept, Len(list)))[Len(list)]
  BY DEF OfOtherOrders, Keeps

LEMMA KeepsSomething ==
  ASSUME NEW T, NEW list \in Seq(T), NEW orderId
  PROVE  \E kept : Keeps(list, orderId, kept, Len(list))
<1> DEFINE n == Len(list)
           S == {m \in 0..n : \E kept : Keeps(list, orderId, kept, m)}
<1>1. n \in Nat
  OBVIOUS
<1>2. 0 \in S
  <2>1. Keeps(list, orderId, [i \in 0..0 |-> <<>>], 0)
    BY DEF Keeps
  <2> QED
    BY <1>1, <2>1
<1>3. ASSUME NEW m \in 0..n, m # n, m \in S PROVE m + 1 \in S
  <2>1. PICK kept : Keeps(list, orderId, kept, m)
    BY <1>3
  <2> DEFINE next == [i \in 0..(m + 1) |-> IF i = 0 THEN <<>>
                                          ELSE IF list[i] = orderId THEN kept[i - 1]
                                          ELSE Append(kept[i - 1], list[i])]
  <2>2. \A i \in 0..m : next[i] = kept[i]
    <3> TAKE i \in 0..m
    <3>1. i \in 0..(m + 1)
      OBVIOUS
    <3> QED
      BY <2>1, <3>1 DEF Keeps
  <2>3. \A i \in 0..(m + 1) : i # 0 => next[i - 1] = kept[i - 1]
    <3> TAKE i \in 0..(m + 1)
    <3>1. i # 0 => i - 1 \in 0..m
      OBVIOUS
    <3> HIDE DEF next
    <3> QED
      BY <2>2, <3>1
  <2>4. Keeps(list, orderId, next, m + 1)
    <3>1. \A i \in 0..(m + 1) : next[i] = IF i = 0 THEN <<>> ELSE IF list[i] = orderId THEN next[i - 1]
                                          ELSE Append(next[i - 1], list[i])
      BY <2>3
    <3> HIDE DEF next
    <3>2. next = [i \in 0..(m + 1) |-> next[i]]
      BY DEF next
    <3> QED
      BY <3>1, <3>2 DEF Keeps
  <2>5. m + 1 \in 0..n
    BY <1>1, <1>3
  <2> HIDE DEF next
  <2> QED
    BY <2>4, <2>5
<1>4. \A i \in 0..n : i \in S
  <2> HIDE DEF S, n
  <2> QED
    BY <1>1, <1>2, <1>3, UpTo
<1> QED
  BY <1>1, <1>4

(* What is kept of a list is of it, of other orders, and not longer. *)
LEMMA OfOtherOrdersFacts ==
  ASSUME NEW T, NEW list \in Seq(T), NEW orderId
  PROVE  /\ OfOtherOrders(list, orderId) \in Seq(OnScreen(list) \ {orderId})
         /\ Len(OfOtherOrders(list, orderId)) <= Len(list)
<1> DEFINE n == Len(list)
           rest == OnScreen(list) \ {orderId}
           f == CHOOSE kept : Keeps(list, orderId, kept, n)
           S == {m \in 0..n : f[m] \in Seq(rest) /\ Len(f[m]) <= m}
<1>1. n \in Nat
  OBVIOUS
<1>2. Keeps(list, orderId, f, n)
  BY KeepsSomething
<1> HIDE DEF f
<1>3. \A i \in 0..n : f[i] = IF i = 0 THEN <<>> ELSE IF list[i] = orderId THEN f[i - 1]
                             ELSE Append(f[i - 1], list[i])
  BY <1>2 DEF Keeps
<1>4. 0 \in S
  <2>1. 0 \in 0..n /\ f[0] = <<>>
    BY <1>1, <1>3
  <2> HIDE DEF rest
  <2>2. f[0] \in Seq(rest) /\ Len(f[0]) = 0
    BY <2>1
  <2>3. Len(f[0]) <= 0
    BY <2>2
  <2> DEFINE zero == 0
  <2> HIDE DEF zero
  <2>4. zero \in 0..n /\ f[zero] \in Seq(rest) /\ Len(f[zero]) <= zero
    BY <2>1, <2>2, <2>3 DEF zero
  <2>5. zero \in S
    BY <2>4
  <2> QED
    BY <2>5 DEF zero
<1>5. ASSUME NEW m \in 0..n, m # n, m \in S PROVE m + 1 \in S
  <2>1. m + 1 \in 1..n /\ (m + 1) - 1 = m /\ m + 1 # 0 /\ m \in Nat
    BY <1>1, <1>5
  <2>2. f[m + 1] = IF list[m + 1] = orderId THEN f[m] ELSE Append(f[m], list[m + 1])
    BY <1>3, <2>1
  <2>3. list[m + 1] # orderId => list[m + 1] \in rest
    BY <2>1 DEF OnScreen
  <2> HIDE DEF rest
  <2>4. f[m] \in Seq(rest) /\ Len(f[m]) <= m /\ Len(f[m]) \in Nat
    BY <1>5
  <2>5. CASE list[m + 1] = orderId
    BY <2>1, <2>2, <2>4, <2>5
  <2>6. CASE list[m + 1] # orderId
    <3>1. f[m + 1] = Append(f[m], list[m + 1])
      BY <2>2, <2>6
    <3>2. f[m + 1] \in Seq(rest) /\ Len(f[m + 1]) = Len(f[m]) + 1
      BY <2>3, <2>4, <2>6, <3>1
    <3> QED
      BY <2>1, <2>4, <3>2
  <2> QED
    BY <2>5, <2>6
<1>6. \A i \in 0..n : i \in S
  <2> HIDE DEF S, n
  <2> QED
    BY <1>1, <1>4, <1>5, UpTo
<1>7. n \in S
  BY <1>1, <1>6
<1>8. OfOtherOrders(list, orderId) = f[n]
  BY KeptIs DEF f
<1> QED
  BY <1>7, <1>8

TimerOrders == {timer.orderId : timer \in ntTimers}
NotificationInv == OrderNotificationTypeOK /\ OnScreen(ntNotifications) \subseteq TimerOrders

LEMMA NotificationInitInv == ASSUME OrderNotificationInit PROVE NotificationInv
<1>1. ntNotifications \in Seq(Notified) /\ Len(ntNotifications) = 0
  BY DEF OrderNotificationInit
<1>2. ntMessages \in 0..MaxMessages /\ 0 <= MaxNotifications
  BY NotificationsAssumption DEF OrderNotificationInit
<1>3. OnScreen(ntNotifications) = {}
  BY <1>1 DEF OnScreen
<1> QED
  BY <1>1, <1>2, <1>3 DEF OrderNotificationInit, NotificationInv, OrderNotificationTypeOK

LEMMA NotificationStep == ASSUME NotificationInv, [OrderNotificationNext]_ntVars PROVE NotificationInv'
<1>1. /\ ntMounted \in BOOLEAN /\ ntNotifications \in Seq(Notified) /\ Len(ntNotifications) \in Nat
      /\ Len(ntNotifications) <= MaxNotifications
      /\ ntTimers \subseteq NotificationTimers /\ ntMessages \in 0..MaxMessages
      /\ \A i \in 1..Len(ntNotifications) : ntNotifications[i] \in TimerOrders
  BY DEF NotificationInv, OrderNotificationTypeOK, OnScreen
<1>2. ASSUME NEW orderId \in Notified, Notification(orderId) PROVE NotificationInv'
  <2> DEFINE list == <<orderId>> \o ntNotifications
             length == IF Len(list) < MaxNotifications THEN Len(list) ELSE MaxNotifications
             timer == [orderId |-> orderId, message |-> ntMessages]
  <2>1. /\ list \in Seq(Notified) /\ Len(list) \in Nat
        /\ \A i \in 1..Len(list) : list[i] \in TimerOrders \cup {orderId}
    BY <1>1
  <2>2. length \in Nat /\ length <= Len(list) /\ length <= MaxNotifications
    BY <2>1, NotificationsAssumption
  <2>3. ntNotifications' = SubSeq(list, 1, length)
    BY <1>2 DEF Notification, Newest
  <2>4. ntMounted' = ntMounted /\ ntMessages' = ntMessages + 1 /\ ntMessages < MaxMessages /\ ntTimers' = ntTimers \cup {timer}
    BY <1>2 DEF Notification
  <2>5. timer \in NotificationTimers /\ timer.orderId = orderId
    BY <1>1 DEF NotificationTimers
  <2> HIDE DEF list, length, timer
  <2>6. /\ ntNotifications' \in Seq(Notified) /\ Len(ntNotifications') = length
        /\ \A i \in 1..length : (ntNotifications')[i] = list[i]
    BY <2>1, <2>2, <2>3
  <2>7. ntMessages' \in 0..MaxMessages
    BY <1>1, <2>4, NotificationsAssumption
  <2>8. OrderNotificationTypeOK'
    BY <1>1, <2>2, <2>4, <2>5, <2>6, <2>7 DEF OrderNotificationTypeOK, NotificationTimers
  <2>9. TimerOrders \cup {orderId} \subseteq TimerOrders'
    BY <2>4, <2>5 DEF TimerOrders
  <2>10. \A i \in 1..length : i \in 1..Len(list)
    BY <2>1, <2>2
  <2>11. \A i \in 1..length : (ntNotifications')[i] \in TimerOrders'
    BY <2>1, <2>6, <2>9, <2>10
  <2> QED
    BY <2>6, <2>8, <2>11 DEF NotificationInv, OnScreen
<1>3. ASSUME NEW timer \in NotificationTimers, TimeOut(timer) PROVE NotificationInv'
  <2> DEFINE kept == OfOtherOrders(ntNotifications, timer.orderId)
  <2>1. kept \in Seq(OnScreen(ntNotifications) \ {timer.orderId}) /\ Len(kept) <= Len(ntNotifications)
    BY <1>1, OfOtherOrdersFacts
  <2>2. ntNotifications' = kept /\ ntTimers' = ntTimers \ {timer} /\ UNCHANGED <<ntMounted, ntMessages>>
    BY <1>3 DEF TimeOut
  <2> HIDE DEF kept
  <2>3. Len(kept) \in Nat /\ \A i \in 1..Len(kept) : kept[i] \in OnScreen(ntNotifications) /\ kept[i] # timer.orderId
    BY <2>1
  <2>4. \A i \in 1..Len(kept) : kept[i] \in TimerOrders /\ kept[i] \in Notified /\ kept[i] # timer.orderId
    BY <1>1, <2>3 DEF OnScreen
  <2>5. kept \in Seq(Notified)
    BY <2>1, <2>4
  <2>6. \A i \in 1..Len(kept) : kept[i] \in TimerOrders'
    BY <2>2, <2>4 DEF TimerOrders
  <2>7. Len(kept) <= MaxNotifications
    BY <1>1, <2>1, <2>3, NotificationsAssumption
  <2>8. OrderNotificationTypeOK'
    BY <1>1, <2>2, <2>5, <2>7 DEF OrderNotificationTypeOK, NotificationTimers
  <2> QED
    BY <2>2, <2>6, <2>8 DEF NotificationInv, OnScreen
<1>4. CASE DeactivateClient
  <2>1. /\ ntNotifications' = <<>> /\ ntMounted' = FALSE /\ UNCHANGED <<ntTimers, ntMessages>>
    BY <1>4 DEF DeactivateClient
  <2>2. ntNotifications' \in Seq(Notified) /\ Len(ntNotifications') = 0 /\ 0 <= MaxNotifications
    BY <2>1, NotificationsAssumption
  <2>3. OnScreen(ntNotifications)' = {}
    BY <2>2 DEF OnScreen
  <2>4. OrderNotificationTypeOK'
    BY <1>1, <2>1, <2>2 DEF OrderNotificationTypeOK, NotificationTimers
  <2> QED
    BY <2>3, <2>4 DEF NotificationInv
<1>5. CASE UNCHANGED ntVars
  BY <1>5 DEF ntVars, NotificationInv, OrderNotificationTypeOK, NotificationTimers, OnScreen, TimerOrders
<1> QED
  BY <1>2, <1>3, <1>4, <1>5 DEF OrderNotificationNext

LEMMA NotificationInvEnough ==
  NotificationInv => OrderNotificationTypeOK /\ (ntTimers = {} => NotificationsGone)
<1> SUFFICES ASSUME NotificationInv, ntTimers = {} PROVE NotificationsGone
  BY DEF NotificationInv
<1>1. ntNotifications \in Seq(Notified) /\ TimerOrders = {}
  BY DEF NotificationInv, OrderNotificationTypeOK, TimerOrders
<1>2. Len(ntNotifications) = 0
  <2>1. Len(ntNotifications) \in Nat
    BY <1>1
  <2>2. ASSUME Len(ntNotifications) # 0 PROVE FALSE
    <3>1. 1 \in 1..Len(ntNotifications)
      BY <2>1, <2>2
    <3>2. ntNotifications[1] \in OnScreen(ntNotifications)
      BY <3>1 DEF OnScreen
    <3> QED
      BY <1>1, <3>2 DEF NotificationInv
  <2> QED
    BY <2>2
<1> QED
  BY <1>1, <1>2 DEF NotificationsGone

(* Types; and when all timers have fired no notification is left, although *)
(* a timer removes all of its order and old ones are cut off: that the     *)
(* screen is empty in the end needs only that timers fire                  *)
(* (OrderNotification.js, subscribe and setTimeout).                       *)
THEOREM TimersClear == OrderNotificationSpec => [](OrderNotificationTypeOK /\ (ntTimers = {} => NotificationsGone))
<1>1. OrderNotificationInit => NotificationInv
  BY NotificationInitInv
<1>2. NotificationInv /\ [OrderNotificationNext]_ntVars => NotificationInv'
  BY NotificationStep
<1> QED
  BY <1>1, <1>2, NotificationInvEnough, PTL DEF OrderNotificationSpec

-----------------------------------------------------------------------------
(* The search on the start page.  Until the user acts while a call is      *)
(* under way, there is one call at most, for what the field has, and it    *)
(* answers what is still missing.                                          *)

SearchCall == [path : {"suggest", "search", "click"}, keyword : Keywords, at : 0..MaxTyped]

SearchFollows ==
  ~sbRaced =>
    /\ \A a, b \in sbCalls : a = b
    /\ \A call \in sbCalls :
         /\ sbKeyword # NothingTyped
         /\ call.path = "suggest" => sbResults = sbWanted
         /\ call.path # "suggest" => sbWanted = call.keyword
    /\ sbCalls = {} => sbResults = sbWanted
    /\ sbKeyword = NothingTyped => ~sbShown /\ sbSuggestions = NothingTyped

SearchInv == SearchBoxTypeOK /\ SearchFollows

LEMMA SearchInitInv == ASSUME SearchBoxInit PROVE SearchInv
<1>1. sbTyped \in 0..MaxTyped
  BY TypingAssumption DEF SearchBoxInit
<1> QED
  BY <1>1 DEF SearchBoxInit, SearchInv, SearchBoxTypeOK, SearchFollows

(* What a user's action does to the calls. *)
LEMMA ActionFacts ==
  ASSUME SearchInv, NEW calls, calls \subseteq {[path |-> p, keyword |-> k, at |-> sbTyped] :
                                                  p \in {"suggest", "search", "click"}, k \in Keywords},
         UserActs(calls)
  PROVE  /\ sbTyped' \in 0..MaxTyped /\ sbCalls' \subseteq SearchCall /\ sbRaced' \in BOOLEAN
         /\ ~sbRaced' => ~sbRaced /\ sbCalls = {} /\ sbCalls' = calls
<1>1. sbTyped < MaxTyped /\ sbTyped' = sbTyped + 1 /\ sbCalls' = sbCalls \cup calls /\ sbRaced' = (sbRaced \/ sbCalls # {})
  BY DEF UserActs
<1>2. sbTyped \in 0..MaxTyped /\ sbCalls \subseteq SearchCall /\ sbRaced \in BOOLEAN
  BY DEF SearchInv, SearchBoxTypeOK, SearchCall
<1>3. calls \subseteq SearchCall
  BY <1>2 DEF SearchCall
<1>4. sbTyped' \in 0..MaxTyped
  BY <1>1, <1>2, TypingAssumption
<1> QED
  BY <1>1, <1>2, <1>3, <1>4

LEMMA SearchStep == ASSUME SearchInv, [SearchBoxNext]_sbVars PROVE SearchInv'
<1>1. /\ sbKeyword \in Keywords \cup {NothingTyped} /\ sbSuggestions \in Found \cup {NothingTyped}
      /\ sbShown \in BOOLEAN
      /\ sbResults \in Keywords \cup {NoResults} /\ sbWanted \in Keywords \cup {NoResults}
      /\ sbCalls \subseteq SearchCall /\ sbTyped \in 0..MaxTyped /\ sbRaced \in BOOLEAN
      /\ SearchFollows
  BY DEF SearchInv, SearchBoxTypeOK, SearchCall
<1>2. NothingTyped \notin Keywords /\ NoResults \notin Keywords /\ Found \subseteq Keywords
  BY KeywordsAssumption
<1>3. ASSUME NEW value \in Keywords \cup {NothingTyped}, HandleChange(value) PROVE SearchInv'
  <2>1. sbKeyword' = value /\ UNCHANGED <<sbResults, sbWanted>>
    BY <1>3 DEF HandleChange
  <2>2. CASE value # NothingTyped
    <3> DEFINE call == [path |-> "suggest", keyword |-> value, at |-> sbTyped]
    <3>1. UserActs({call}) /\ UNCHANGED <<sbSuggestions, sbShown>>
      BY <1>3, <2>2 DEF HandleChange, Call
    <3>2. {call} \subseteq {[path |-> p, keyword |-> k, at |-> sbTyped] : p \in {"suggest", "search", "click"}, k \in Keywords}
      BY <2>2
    <3>3. call.path = "suggest"
      OBVIOUS
    <3> HIDE DEF call
    <3>4. /\ sbTyped' \in 0..MaxTyped /\ sbCalls' \subseteq SearchCall /\ sbRaced' \in BOOLEAN
          /\ ~sbRaced' => ~sbRaced /\ sbCalls = {} /\ sbCalls' = {call}
      BY <3>1, <3>2, ActionFacts
    <3>5. SearchBoxTypeOK'
      BY <1>1, <2>1, <3>1, <3>4 DEF SearchBoxTypeOK, SearchCall
    <3>6. SearchFollows'
      BY <1>1, <2>1, <2>2, <3>1, <3>3, <3>4 DEF SearchFollows
    <3> QED
      BY <3>5, <3>6 DEF SearchInv
  <2>3. CASE value = NothingTyped
    <3>1. UserActs({}) /\ sbSuggestions' = NothingTyped /\ sbShown' = FALSE
      BY <1>3, <2>3 DEF HandleChange
    <3>2. /\ sbTyped' \in 0..MaxTyped /\ sbCalls' \subseteq SearchCall /\ sbRaced' \in BOOLEAN
          /\ ~sbRaced' => ~sbRaced /\ sbCalls = {} /\ sbCalls' = {}
      BY <3>1, ActionFacts
    <3>3. SearchBoxTypeOK'
      BY <1>1, <2>1, <3>1, <3>2 DEF SearchBoxTypeOK, SearchCall
    <3>4. SearchFollows'
      BY <1>1, <2>1, <3>1, <3>2 DEF SearchFollows
    <3> QED
      BY <3>3, <3>4 DEF SearchInv
  <2> QED
    BY <2>2, <2>3
<1>4. ASSUME NEW path \in {"search", "click"}, NEW title \in Keywords,
             UserActs({[path |-> path, keyword |-> title, at |-> sbTyped]}),
             sbKeyword' = title, sbWanted' = title, sbShown' \in BOOLEAN, UNCHANGED <<sbSuggestions, sbResults>>
      PROVE  SearchInv'
  <2> DEFINE call == [path |-> path, keyword |-> title, at |-> sbTyped]
  <2>1. {call} \subseteq {[path |-> p, keyword |-> k, at |-> sbTyped] : p \in {"suggest", "search", "click"}, k \in Keywords}
    OBVIOUS
  <2>2. call.path # "suggest" /\ call.keyword = title /\ UserActs({call})
    BY <1>4
  <2> HIDE DEF call
  <2>3. /\ sbTyped' \in 0..MaxTyped /\ sbCalls' \subseteq SearchCall /\ sbRaced' \in BOOLEAN
        /\ ~sbRaced' => ~sbRaced /\ sbCalls = {} /\ sbCalls' = {call}
    BY <2>1, <2>2, ActionFacts
  <2>4. SearchBoxTypeOK'
    BY <1>1, <1>4, <2>3 DEF SearchBoxTypeOK, SearchCall
  <2>5. SearchFollows'
    BY <1>2, <1>4, <2>2, <2>3 DEF SearchFollows
  <2> QED
    BY <2>4, <2>5 DEF SearchInv
<1>5. CASE HandleSearch
  <2>1. sbKeyword \in Keywords
    BY <1>1, <1>5 DEF HandleSearch
  <2> QED
    BY <1>1, <1>4, <1>5, <2>1 DEF HandleSearch, Call
<1>6. ASSUME NEW title \in Keywords, HandleSuggestionClick(title) PROVE SearchInv'
  BY <1>4, <1>6 DEF HandleSuggestionClick, Call
<1>7. CASE FocusOrBlur
  <2>1. UNCHANGED <<sbKeyword, sbSuggestions, sbResults, sbCalls, sbTyped, sbWanted, sbRaced>> /\ sbShown' \in BOOLEAN
    BY <1>7 DEF FocusOrBlur
  <2>2. sbSuggestions = NothingTyped => ~sbShown'
    BY <1>7 DEF FocusOrBlur
  <2>3. SearchBoxTypeOK'
    BY <1>1, <2>1 DEF SearchBoxTypeOK, SearchCall
  <2>4. SearchFollows'
    BY <1>1, <2>1, <2>2 DEF SearchFollows
  <2> QED
    BY <2>3, <2>4 DEF SearchInv
<1>8. CASE ClearSearch
  <2>1. UserActs({}) /\ sbResults' = NoResults /\ sbWanted' = NoResults /\ UNCHANGED <<sbKeyword, sbSuggestions, sbShown>>
    BY <1>8 DEF ClearSearch
  <2>2. /\ sbTyped' \in 0..MaxTyped /\ sbCalls' \subseteq SearchCall /\ sbRaced' \in BOOLEAN
        /\ ~sbRaced' => ~sbRaced /\ sbCalls = {} /\ sbCalls' = {}
    BY <2>1, ActionFacts
  <2>3. SearchBoxTypeOK'
    BY <1>1, <2>1, <2>2 DEF SearchBoxTypeOK, SearchCall
  <2>4. SearchFollows'
    BY <1>1, <2>1, <2>2 DEF SearchFollows
  <2> QED
    BY <2>3, <2>4 DEF SearchInv
<1>9. ASSUME NEW call \in sbCalls, SuggestAnswered(call) PROVE SearchInv'
  <2>1. /\ call.path = "suggest" /\ sbCalls' = sbCalls \ {call} /\ sbShown' \in BOOLEAN
        /\ UNCHANGED <<sbKeyword, sbResults, sbTyped, sbWanted, sbRaced>>
    BY <1>9 DEF SuggestAnswered
  <2>2. sbSuggestions' \in Found \cup {NothingTyped}
    BY <1>9 DEF SuggestAnswered, LocalSearch
  <2>3. SearchBoxTypeOK'
    BY <1>1, <2>1, <2>2 DEF SearchBoxTypeOK, SearchCall
  <2>4. ~sbRaced => sbKeyword # NothingTyped /\ sbResults = sbWanted /\ sbCalls' = {}
    BY <1>1, <2>1 DEF SearchFollows
  <2>5. SearchFollows'
    BY <2>1, <2>4 DEF SearchFollows
  <2> QED
    BY <2>3, <2>5 DEF SearchInv
<1>10. ASSUME NEW call \in sbCalls, SearchAnswered(call) PROVE SearchInv'
  <2>1. /\ call.path # "suggest" /\ sbCalls' = sbCalls \ {call} /\ sbShown' \in BOOLEAN /\ sbResults' = call.keyword
        /\ UNCHANGED <<sbKeyword, sbSuggestions, sbTyped, sbWanted, sbRaced>>
    BY <1>1, <1>10 DEF SearchAnswered
  <2>2. call.keyword \in Keywords
    BY <1>1 DEF SearchCall
  <2>3. SearchBoxTypeOK'
    BY <1>1, <2>1, <2>2 DEF SearchBoxTypeOK, SearchCall
  <2>4. ~sbRaced => sbKeyword # NothingTyped /\ sbWanted = call.keyword /\ sbCalls' = {}
    BY <1>1, <2>1 DEF SearchFollows
  <2>5. SearchFollows'
    BY <2>1, <2>4 DEF SearchFollows
  <2> QED
    BY <2>3, <2>5 DEF SearchInv
<1>11. CASE UNCHANGED sbVars
  BY <1>11 DEF sbVars, SearchInv, SearchBoxTypeOK, SearchFollows
<1> QED
  BY <1>3, <1>5, <1>6, <1>7, <1>8, <1>9, <1>10, <1>11 DEF SearchBoxNext, SearchForm, SearchCallAnswered

LEMMA SearchInvEnough == SearchInv => SearchBoxTypeOK /\ (sbCalls = {} => SearchSettled)
  BY DEF SearchInv, SearchFollows, SearchSettled

(* Types; and as soon as no call is under way the results are those of the *)
(* last search and an empty field has no suggestions, unless the user acted *)
(* during a call: that a search settles needs only that calls are answered  *)
(* (SearchBar.js handleChange, handleSearch).                              *)
THEOREM AnswersSettle == SearchBoxSpec => [](SearchBoxTypeOK /\ (sbCalls = {} => SearchSettled))
<1>1. SearchBoxInit => SearchInv
  BY SearchInitInv
<1>2. SearchInv /\ [SearchBoxNext]_sbVars => SearchInv'
  BY SearchStep
<1> QED
  BY <1>1, <1>2, SearchInvEnough, PTL DEF SearchBoxSpec

-----------------------------------------------------------------------------
(* The shop.  Every area keeps its own invariant, whichever of them goes   *)
(* on; the cards are those of two areas, of which only one has the page.   *)

CardsShown ==
  /\ Inv
  /\ area = "my page" => MyPageInv
  /\ area # "my page" => mpPage = Unopened

ShopInv ==
  /\ area \in Areas
  /\ PageInv /\ ListsInv /\ FormInv /\ CardsShown
  /\ OrderEventsInv /\ RankingInv /\ NotificationInv /\ SearchInv /\ CatalogueInv /\ MembersInv

LEMMA ShopInitInv == ASSUME MCInit PROVE ShopInv
<1>1. /\ area \in Areas
      /\ ProductPageInit /\ ProductListsInit /\ ProductFormInit /\ MyPageInit /\ OrderEventsInit /\ RankingInit
      /\ OrderNotificationInit /\ SearchBoxInit /\ CatalogueInit /\ MembersInit
  BY DEF MCInit
<1>2. CardsInit /\ mpPage = Unopened
  BY <1>1 DEF MyPageInit
<1>3. CardsShown
  BY <1>1, <1>2, InvInit, MyPageInitInv DEF CardsShown
<1> QED
  BY <1>1, <1>3, PageInitially, ListsInitially, FormInitially, OrderEventsInitInv, RankingInitInv,
     NotificationInitInv, SearchInitInv, CatalogueInitInv, MembersInitInv DEF ShopInv

(* A step of the shop is one of an area, and each area goes on or rests. *)
LEMMA EachGoesOnOrRests ==
  ASSUME [MCNext]_mcVars
  PROVE  /\ area' = area
         /\ [ProductPageNext]_ppVars /\ [ProductListsNext]_plVars /\ [ProductFormNext]_pfVars
         /\ [OrderEventsNext]_oeVars /\ [RankingNext]_rkVars /\ [OrderNotificationNext]_ntVars
         /\ [SearchBoxNext]_sbVars /\ [CatalogueNext]_caVars /\ [MembersNext]_mbVars
<1>1. CASE UNCHANGED mcVars
  BY <1>1 DEF mcVars
<1>2. CASE MCNext
  BY <1>2 DEF MCNext, OnlyPages, OnlyRest, OrderEventsArea, RankingArea, NotificationsArea, SearchBoxArea
<1> QED
  BY <1>1, <1>2

LEMMA CardsGoOnOrRest ==
  ASSUME [MCNext]_mcVars
  PROVE  /\ area = "my page" => [MyPageNext]_<<mpVars, cdVars>>
         /\ area # "my page" => [CardsNext]_cdVars /\ UNCHANGED mpVars
<1>1. CASE UNCHANGED mcVars
  BY <1>1 DEF mcVars
<1>2. CASE MCNext
  <2>1. area = "my page" => MyPageNext \/ UNCHANGED <<mpVars, cdVars>>
    BY <1>2 DEF MCNext, OnlyRest, OrderEventsArea, RankingArea, NotificationsArea, SearchBoxArea
  <2>2. area # "my page" => (CardsNext \/ UNCHANGED cdVars) /\ UNCHANGED mpVars
    BY <1>2 DEF MCNext, OnlyRest, OrderEventsArea, RankingArea, NotificationsArea, SearchBoxArea
  <2> QED
    BY <2>1, <2>2
<1> QED
  BY <1>1, <1>2

LEMMA ShopStep == ASSUME ShopInv, [MCNext]_mcVars PROVE ShopInv'
<1>1. area' = area /\ area \in Areas
  BY EachGoesOnOrRests DEF ShopInv
<1>2. PageInv' /\ ListsInv' /\ FormInv'
  BY EachGoesOnOrRests, PageKept, ListsKept, FormKept DEF ShopInv
<1>3. OrderEventsInv' /\ CatalogueInv' /\ MembersInv'
  BY EachGoesOnOrRests, OrderEventsStep, CatalogueStep, MembersStep DEF ShopInv
<1>4. RankingInv' /\ NotificationInv' /\ SearchInv'
  BY EachGoesOnOrRests, RankingStep, NotificationStep, SearchStep DEF ShopInv
<1>5. CASE area = "my page"
  <2>1. MyPageInv'
    BY <1>5, CardsGoOnOrRest, MyPageStep DEF ShopInv, CardsShown
  <2>2. Inv'
    BY <2>1 DEF MyPageInv
  <2> QED
    BY <1>1, <1>2, <1>3, <1>4, <1>5, <2>1, <2>2 DEF ShopInv, CardsShown
<1>6. CASE area # "my page"
  <2>1. Inv'
    BY <1>6, CardsGoOnOrRest, InvStep DEF ShopInv, CardsShown
  <2>2. mpPage' = Unopened
    <3>1. mpPage' = mpPage
      BY <1>6, CardsGoOnOrRest DEF mpVars
    <3> QED
      BY <1>6, <3>1 DEF ShopInv, CardsShown, Unopened, NotServed
  <2> QED
    BY <1>1, <1>2, <1>3, <1>4, <1>6, <2>1, <2>2 DEF ShopInv, CardsShown
<1> QED
  BY <1>5, <1>6

(* The invariants of all areas hold together, whichever of them goes on.   *)
THEOREM ShopInductive == MCSpec => []ShopInv
<1>1. MCInit => ShopInv
  BY ShopInitInv
<1>2. ShopInv /\ [MCNext]_mcVars => ShopInv'
  BY ShopStep
<1> QED
  BY <1>1, <1>2, PTL DEF MCSpec

(* The state of the area a behaviour is about has its types. *)
THEOREM ShopTypeCorrect == MCSpec => []ShopTypeOK
<1>1. ASSUME ShopInv PROVE ShopTypeOK
  <2>1. ProductPageTypeOK /\ ProductListsTypeOK /\ ProductFormTypeOK
    BY <1>1, PageInvEnough, ListsInvEnough, FormInvEnough DEF ShopInv
  <2>2. CardsTypeOK /\ (area = "my page" => MyPageTypeOK)
    BY <1>1, InvEnough, MyPageInvEnough DEF ShopInv, CardsShown
  <2>3. OrderEventsTypeOK /\ CatalogueTypeOK /\ MembersTypeOK
    BY <1>1, OrderEventsInvEnough, CatalogueInvEnough, MembersInvEnough DEF ShopInv
  <2>4. RankingTypeOK /\ OrderNotificationTypeOK /\ SearchBoxTypeOK
    BY <1>1 DEF ShopInv, RankingInv, NotificationInv, SearchInv
  <2>5. area \in Areas
    BY <1>1 DEF ShopInv
  <2> QED
    BY <2>1, <2>2, <2>3, <2>4, <2>5 DEF ShopTypeOK, Areas
<1> QED
  BY <1>1, ShopInductive, PTL

(* Neither products nor members are there twice, nor welcomed twice, and   *)
(* their copies follow them, as long as no calls overlap and nothing fails *)
(* (SellController, ProductEventConsumer, MemberController).               *)
THEOREM ShopDocumentsAgree == MCSpec => []DocumentsAgree
<1>1. ShopInv => DocumentsAgree
  BY CatalogueInvEnough, MembersInvEnough DEF ShopInv, DocumentsAgree
<1> QED
  BY <1>1, ShopInductive, PTL

(* What the pages show agrees with what the services have, also beside     *)
(* everything else that goes on in the shop.                               *)
THEOREM ShopPagesAgree ==
  MCSpec => [](ProductPageAgrees /\ PagesShowTheProducts /\ FormKeepsWhatWasMeant /\ MyPageListsTheCards)
<1>1. ASSUME ShopInv PROVE ProductPageAgrees /\ PagesShowTheProducts /\ FormKeepsWhatWasMeant /\ MyPageListsTheCards
  <2>1. ProductPageAgrees /\ PagesShowTheProducts /\ FormKeepsWhatWasMeant
    BY <1>1, PageInvEnough, ListsInvEnough, FormInvEnough DEF ShopInv
  <2>2. CASE area = "my page"
    BY <1>1, <2>1, <2>2, MyPageInvEnough DEF ShopInv, CardsShown
  <2>3. CASE area # "my page"
    <3>1. ~mpPage.open
      BY <1>1, <2>3, UnopenedPage DEF ShopInv, CardsShown
    <3> QED
      BY <2>1, <3>1 DEF MyPageListsTheCards
  <2> QED
    BY <2>2, <2>3
<1> QED
  BY <1>1, ShopInductive, PTL

(* The cards stay within their limits and agree with what was done with    *)
(* them, and what was earned is there, whichever part of the shop goes on. *)
THEOREM ShopServicesAgree == MCSpec => [](CardsWithinLimit /\ CardsAgree /\ EarnedByDeliveries)
<1>1. ShopInv => CardsWithinLimit /\ CardsAgree /\ EarnedByDeliveries
  BY InvEnough, OrderEventsInvEnough DEF ShopInv, CardsShown
<1> QED
  BY <1>1, ShopInductive, PTL

(* The safety half of ShopSettles: once the timers have fired and the      *)
(* calls are answered, the notifications are gone and the search settled.  *)
THEOREM ShopComesToRest ==
  MCSpec => []((ntTimers = {} => NotificationsGone) /\ (sbCalls = {} => SearchSettled))
<1>1. ShopInv => (ntTimers = {} => NotificationsGone) /\ (sbCalls = {} => SearchSettled)
  BY NotificationInvEnough, SearchInvEnough DEF ShopInv
<1> QED
  BY <1>1, ShopInductive, PTL
=============================================================================
