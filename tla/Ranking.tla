------------------------------ MODULE Ranking ------------------------------
(***************************************************************************)
(* The ranking of searches: search-service computes it from the searches   *)
(* and orders of the last hour, caches it in Redis and pushes it to every   *)
(* connected page (components/RealTimeRanking.js), which has also asked     *)
(* for it once.  A listener, searches, the scheduler and pages compute it   *)
(* beside each other, so that an older ranking may be cached or shown       *)
(* after a newer one; the scheduler computes it again every minute.         *)
(*                                                                         *)
(* A ranking is the number of records it was computed from.  That records   *)
(* leave the last hour is left out.                                         *)
(***************************************************************************)
EXTENDS Integers

CONSTANTS MaxRecords,  \* bound: searches and orders recorded
          MaxOpens,    \* bound: pages opened
          MaxFailures, \* bound: computations and connections that fail
          NotCached    \* no ranking in Redis

ASSUME RecordsAssumption == MaxRecords \in Nat /\ MaxOpens \in Nat /\ MaxFailures \in Nat
Rankings == 0..MaxRecords
ASSUME NotCachedAssumption == NotCached \notin Rankings

(* What computes a ranking: handleOrderEvent, searchAndLog, broadcastRankings and a  *)
(* page's GET /search/ranking.                                                       *)
Tasks == {"listener", "search", "scheduler", "get"}

VARIABLES
  rkRecords,  \* search logs and order records
  rkCache,    \* search:rankings
  rkTask,     \* per task: how far it is, the ranking it has
  rkWire,     \* rankings pushed to the page and not yet there
  rkPage,     \* the page
  rkOpens,    \* pages opened so far
  rkFailures  \* failures so far

rkVars == <<rkRecords, rkCache, rkTask, rkWire, rkPage, rkOpens, rkFailures>>

NoTask == [step |-> "idle", ranking |-> 0]
NoPage == [open |-> FALSE, connected |-> FALSE, rankings |-> 0, asked |-> FALSE]

RankingInit ==
  /\ rkRecords = 0
  /\ rkCache = NotCached
  /\ rkTask = [t \in Tasks |-> NoTask]
  /\ rkWire = {} /\ rkPage = NoPage
  /\ rkOpens = 0 /\ rkFailures = 0

Goes(t, step) == rkTask' = [rkTask EXCEPT ![t].step = step]
Turn(t, from) == rkTask[t].step = from

(* recordOrder and the search log are saved before the ranking is computed. *)
SaveRecord(t) ==
  /\ t \in {"listener", "search"}
  /\ Turn(t, "idle") /\ rkRecords < MaxRecords
  /\ rkRecords' = rkRecords + 1
  /\ Goes(t, "calculate")
  /\ UNCHANGED <<rkCache, rkWire, rkPage, rkOpens, rkFailures>>

BroadcastRankings ==
  /\ Turn("scheduler", "idle")
  /\ Goes("scheduler", "calculate")
  /\ UNCHANGED <<rkRecords, rkCache, rkWire, rkPage, rkOpens, rkFailures>>

(* getCachedOrCalculateRankings *)
GetRankings ==
  /\ rkPage.asked /\ Turn("get", "idle")
  /\ rkTask' = [rkTask EXCEPT !["get"] = IF rkCache # NotCached THEN [step |-> "answer", ranking |-> rkCache]
                                         ELSE [step |-> "calculate", ranking |-> 0]]
  /\ UNCHANGED <<rkRecords, rkCache, rkWire, rkPage, rkOpens, rkFailures>>

(* calculateRankings: both reads, then the cache. *)
CalculateRankings(t) ==
  /\ Turn(t, "calculate")
  /\ rkTask' = [rkTask EXCEPT ![t] = [step |-> "cache", ranking |-> rkRecords]]
  /\ UNCHANGED <<rkRecords, rkCache, rkWire, rkPage, rkOpens, rkFailures>>

CacheRankings(t) ==
  /\ Turn(t, "cache")
  /\ rkCache' = rkTask[t].ranking
  /\ Goes(t, IF t = "get" THEN "answer" ELSE "push")
  /\ UNCHANGED <<rkRecords, rkWire, rkPage, rkOpens, rkFailures>>

PushNothing(t) ==   \* computed and cached, but not sent, for mutation
  /\ Turn(t, "push")
  /\ rkTask' = [rkTask EXCEPT ![t] = NoTask]
  /\ UNCHANGED <<rkRecords, rkCache, rkWire, rkPage, rkOpens, rkFailures>>

(* convertAndSend: to the page only while it is connected. *)
PushRankings(t) ==
  /\ Turn(t, "push")
  /\ rkWire' = IF rkPage.connected THEN rkWire \cup {rkTask[t].ranking} ELSE rkWire
  /\ rkTask' = [rkTask EXCEPT ![t] = NoTask]
  /\ UNCHANGED <<rkRecords, rkCache, rkPage, rkOpens, rkFailures>>

(* The entry's 60 seconds are over. *)
RankingExpires ==
  /\ rkCache # NotCached /\ rkCache' = NotCached
  /\ UNCHANGED <<rkRecords, rkTask, rkWire, rkPage, rkOpens, rkFailures>>

Failure == rkFailures < MaxFailures /\ rkFailures' = rkFailures + 1

(* An exception before the push is caught; the page's request gets no answer. *)
CalculationFails(t) ==
  /\ rkTask[t].step \in {"calculate", "cache"}
  /\ Failure
  /\ rkTask' = [rkTask EXCEPT ![t] = NoTask]
  /\ rkPage' = IF t = "get" THEN [rkPage EXCEPT !.asked = FALSE] ELSE rkPage
  /\ UNCHANGED <<rkRecords, rkCache, rkWire, rkOpens>>

-----------------------------------------------------------------------------
(* RealTimeRanking.js *)

(* Its effect asks for the ranking and starts to connect. *)
RealTimeRanking ==
  /\ ~rkPage.open /\ rkOpens < MaxOpens
  /\ Turn("get", "idle")   \* bound: one page's request at a time
  /\ rkPage' = [NoPage EXCEPT !.open = TRUE, !.asked = TRUE]
  /\ rkOpens' = rkOpens + 1
  /\ UNCHANGED <<rkRecords, rkCache, rkTask, rkWire, rkFailures>>

ClosePage ==
  /\ rkPage.open
  /\ rkPage' = NoPage /\ rkWire' = {}
  /\ UNCHANGED <<rkRecords, rkCache, rkTask, rkOpens, rkFailures>>

OnConnect ==
  /\ rkPage.open /\ ~rkPage.connected
  /\ rkPage' = [rkPage EXCEPT !.connected = TRUE]
  /\ UNCHANGED <<rkRecords, rkCache, rkTask, rkWire, rkOpens, rkFailures>>

(* The connection is lost; the client connects again after 5 seconds. *)
OnDisconnect ==
  /\ rkPage.connected /\ Failure
  /\ rkPage' = [rkPage EXCEPT !.connected = FALSE] /\ rkWire' = {}
  /\ UNCHANGED <<rkRecords, rkCache, rkTask, rkOpens>>

(* Pushes of several tasks may overtake each other. *)
RankingPushed(ranking) ==
  /\ ranking \in rkWire
  /\ rkWire' = rkWire \ {ranking}
  /\ rkPage' = [rkPage EXCEPT !.rankings = ranking]
  /\ UNCHANGED <<rkRecords, rkCache, rkTask, rkOpens, rkFailures>>

(* A page that was left does not notice. *)
RankingAnswered ==
  /\ Turn("get", "answer")
  /\ rkPage' = IF rkPage.open THEN [rkPage EXCEPT !.rankings = rkTask["get"].ranking, !.asked = FALSE] ELSE rkPage
  /\ rkTask' = [rkTask EXCEPT !["get"] = NoTask]
  /\ UNCHANGED <<rkRecords, rkCache, rkWire, rkOpens, rkFailures>>

GoOn(t) == CalculateRankings(t) \/ CacheRankings(t) \/ PushRankings(t)

RankingNext ==
  \/ \E t \in Tasks : SaveRecord(t) \/ GoOn(t) \/ CalculationFails(t)
  \/ BroadcastRankings \/ GetRankings \/ RankingExpires
  \/ RealTimeRanking \/ ClosePage \/ OnConnect \/ OnDisconnect
  \/ \E ranking \in Rankings : RankingPushed(ranking)
  \/ RankingAnswered

(* What has begun goes on and is delivered; a page that is open connects.  The page's *)
(* own request may stay without an answer.                                            *)
RankingProgress ==
  /\ WF_rkVars(\E t \in Tasks : GoOn(t))
  /\ WF_rkVars(OnConnect)
  /\ WF_rkVars(\E ranking \in Rankings : RankingPushed(ranking))

(* The scheduler comes round every minute. *)
RankingFairness == WF_rkVars(BroadcastRankings) /\ RankingProgress

RankingSpec == RankingInit /\ [][RankingNext]_rkVars /\ RankingFairness

-----------------------------------------------------------------------------
(* Properties *)

RankingTypeOK ==
  /\ rkRecords \in Rankings /\ rkCache \in Rankings \cup {NotCached}
  /\ rkTask \in [Tasks -> [step : {"idle", "calculate", "cache", "push", "answer"}, ranking : Rankings]]
  /\ rkWire \subseteq Rankings
  /\ rkPage \in [open : BOOLEAN, connected : BOOLEAN, rankings : Rankings, asked : BOOLEAN]
  /\ rkOpens \in 0..MaxOpens /\ rkFailures \in 0..MaxFailures

(* When searches and orders pause, a page that stays open comes to show the ranking *)
(* of all of them, whatever was computed, cached, pushed, answered or lost in which *)
(* order before (RankingScheduler.broadcastRankings).                               *)
RankingShown == rkPage.open => rkPage.rankings = rkRecords
RankingCatchesUp == <>[]RankingShown
=============================================================================
