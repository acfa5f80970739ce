--------------------------- MODULE BackgroundParts ---------------------------
(***************************************************************************)
(* The parts of the server that go on behind the requests: the catalog's   *)
(* cache, the IGDB client under it, the jobs that keep the catalog, the    *)
(* matching of imported titles with it and the shelves made from it; the   *)
(* job runner, alerts and what they send, play time from Steam and from    *)
(* the timer; and the process they run in.  They share no state, and each  *)
(* behaviour is of one of them: `part` says which, and v1 to v13 are its   *)
(* variables.  What a part does not need stays as it is.                   *)
(***************************************************************************)
EXTENDS Integers, FiniteSets

CONSTANTS
  Parts,                                          \* the parts to check
  Queries, Searches, Workers, Slots,              \* Catalog
  Callers, Background,                            \* Limiter
  Requests, Max429Retries, MaxTokens, MaxLosses,  \* Igdb
  Games,                                          \* Delta and Backfill
  PageSize, MaxPages, MaxSecond, MaxChanges,      \* Delta
  BackfillBatch, Numeric, MaxRuns,                \* Backfill
  FewGames,                                       \* Enrich and Matching
  Views, DetailsBatch, Scores, MaxRankings,       \* Enrich
  Apps, Shown, MaxTable, MaxMatches,              \* Matching
  ShelfGames, Readers, TTL, Slow, MaxClock,       \* Discover
  Interval, Jitter, FirstRun,                     \* Jobs
  MaxJobClock, MaxJobStarts,
  Keys, Endpoints,                                \* Alerts
  MaxFailures, PushRows, MailRows, MaxNotes, MaxStops,
  Profiles, Tabs, MaxMinutes, MaxRow, MaxTimers,  \* Playtime
  Latest, Failing, Keep, MaxServes                \* Process

ASSUME PartsConstants ==
  Parts \subseteq {"catalog", "limiter", "igdb", "delta", "enrich", "backfill", "matching", "discover",
                   "jobs", "alerts", "steam", "timer", "process"}

\* Goroutines are as many as needed: one for each query that can be asked.
ASSUME CatalogConstants ==
  /\ IsFiniteSet(Queries) /\ IsFiniteSet(Workers) /\ Cardinality(Queries) <= Cardinality(Workers)
  /\ Slots \in Nat

ASSUME LimiterConstants == IsFiniteSet(Callers)

ASSUME IgdbConstants == MaxTokens \in Nat /\ MaxLosses \in Nat /\ Max429Retries \in Nat

ASSUME GamesConstants == Games \subseteq Nat \ {0} /\ \E last \in Games : \A g \in Games : g <= last

ASSUME DeltaConstants == PageSize \in Nat \ {0} /\ MaxPages \in Nat /\ MaxSecond \in Nat \ {0}

ASSUME BackfillConstants == BackfillBatch \in Nat /\ MaxRuns \in Nat /\ Numeric \subseteq Games

\* 0 is no game.
ASSUME MatchingConstants == FewGames \subseteq Nat \ {0} /\ Shown \in Nat

ASSUME DiscoverConstants == TTL \in Nat \ {0} /\ Slow \in Nat /\ MaxClock \in Nat \ {0}

ASSUME JobsConstants ==
  Interval \in Nat /\ Jitter \in Nat /\ FirstRun \in Nat /\ MaxJobClock \in Nat /\ MaxJobStarts \in Nat

ASSUME AlertsConstants ==
  "none" \notin Keys /\ MaxFailures \in Nat \ {0} /\ PushRows \in Nat /\ MailRows \in Nat /\ MaxNotes \in Nat /\ MaxStops \in Nat

ASSUME PlaytimeConstants ==
  /\ IsFiniteSet(Profiles) /\ Profiles # {} /\ "none" \notin Profiles
  /\ MaxMinutes \in Nat \ {0} /\ MaxRow \in Nat /\ MaxMinutes <= MaxRow /\ MaxTimers \in Nat

ASSUME ProcessConstants == Latest \in Nat \ {0} /\ Keep \in Nat /\ MaxServes \in Nat

VARIABLES part, v1, v2, v3, v4, v5, v6, v7, v8, v9, v10, v11, v12, v13

pool == <<v1, v2, v3, v4, v5, v6, v7, v8, v9, v10, v11, v12, v13>>

C == INSTANCE Catalog
  WITH cache <- v1, asking <- v2, refreshing <- v3, slots <- v4, workers <- v5, sweep <- v6,
       details <- v7, stopping <- v8, stopped <- v9, hush <- v10
L == INSTANCE Limiter
  WITH queues <- v1, open <- v2, waiting <- v3, timer <- v4, woken <- v5, cancelled <- v6, alike <- v7
I == INSTANCE Igdb
  WITH accessToken <- v1, expiring <- v2, issued <- v3, accepted <- v4, calls <- v5, losses <- v6
D == INSTANCE Delta
  WITH second <- v1, updated <- v2, version <- v3, stored <- v4, deltaSince <- v5, run <- v6,
       edges <- v7, shifted <- v8
E == INSTANCE Enrich
  WITH Games <- FewGames, BatchSize <- DetailsBatch,
       known <- v1, owned <- v2, stamp <- v3, times <- v4, tasks <- v5, ranking <- v6, score <- v7,
       pop <- v8, rankings <- v9, taken <- v10, cut <- v11
B == INSTANCE Backfill
  WITH BatchSize <- BackfillBatch,
       upstream <- v1, marked <- v2, guessed <- v3, spec <- v4, run <- v5, runs <- v6, seen <- v7,
       failed <- v8, settled <- v9
M == INSTANCE Matching
  WITH Games <- FewGames,
       known <- v1, links <- v2, table <- v3, mine <- v4, row <- v5, results <- v6, match <- v7,
       moves <- v8, imported <- v9, said <- v10, dropped <- v11
W == INSTANCE Discover
  WITH Games <- ShelfGames, Requests <- Readers,
       clock <- v1, catalog <- v2, mine <- v3, cache <- v4, lock <- v5, asked <- v6, refresh <- v7
J == INSTANCE Jobs
  WITH MaxClock <- MaxJobClock, MaxStarts <- MaxJobStarts,
       now <- v1, stored <- v2, loop <- v3, next <- v4, wake <- v5, stopping <- v6, starts <- v7,
       asked <- v8, due <- v9, cut <- v10
N == INSTANCE Alerts
  WITH recorded <- v1, notes <- v2, subs <- v3, alert <- v4, deliver <- v5, digest <- v6,
       pushes <- v7, mails <- v8, stops <- v9, owed <- v10, unsent <- v11
Time == INSTANCE Playtime
  WITH MaxStarts <- MaxTimers,
       total <- v1, link <- v2, syncOn <- v3, base <- v4, row <- v5, preview <- v6, writing <- v7,
       sync <- v8, timer <- v9, started <- v10, stop <- v11, logged <- v12, slips <- v13
Proc == INSTANCE Process
  WITH MaxStarts <- MaxServes,
       schema <- v1, binary <- v2, snapshots <- v3, pc <- v4, running <- v5, open <- v6,
       starts <- v7, before <- v8, tries <- v9, late <- v10, bare <- v11
----------------------------------------------------------------------------
\* The variables after the k-th, which belong to no one.
Spare11 == <<v12, v13>>
Spare10 == <<v11, Spare11>>
Spare9  == <<v10, Spare10>>
Spare8  == <<v9, Spare9>>
Spare7  == <<v8, Spare8>>
Spare6  == <<v7, Spare7>>

Unused11 == v12 = 0 /\ v13 = 0
Unused10 == v11 = 0 /\ Unused11
Unused9  == v10 = 0 /\ Unused10
Unused8  == v9 = 0 /\ Unused9
Unused7  == v8 = 0 /\ Unused8
Unused6  == v7 = 0 /\ Unused7

BackgroundInit ==
  /\ part \in Parts
  /\ CASE part = "catalog"  -> C!CatalogInit /\ Unused10
       [] part = "limiter"  -> L!LimiterInit /\ Unused7
       [] part = "igdb"     -> I!IgdbInit /\ Unused6
       [] part = "delta"    -> D!DeltaInit /\ Unused8
       [] part = "enrich"   -> E!EnrichInit /\ Unused11
       [] part = "backfill" -> B!BackfillInit /\ Unused9
       [] part = "matching" -> M!MatchingInit /\ Unused11
       [] part = "discover" -> W!DiscoverInit /\ Unused7
       [] part = "jobs"     -> J!JobsInit /\ Unused10
       [] part = "alerts"   -> N!AlertsInit /\ Unused11
       [] part \in {"steam", "timer"} -> Time!PlaytimeInit
       [] part = "process"  -> Proc!ProcessInit /\ Unused11

\* A step of this part.
Of(p) == part = p /\ UNCHANGED part

BackgroundNext ==
  \/ Of("catalog") /\ C!CatalogNext /\ UNCHANGED Spare10
  \/ Of("limiter") /\ L!LimiterNext /\ UNCHANGED Spare7
  \/ Of("igdb") /\ I!IgdbNext /\ UNCHANGED Spare6
  \/ Of("delta") /\ D!DeltaNext /\ UNCHANGED Spare8
  \/ Of("enrich") /\ E!EnrichNext /\ UNCHANGED Spare11
  \/ Of("backfill") /\ B!BackfillNext /\ UNCHANGED Spare9
  \/ Of("matching") /\ M!MatchingNext /\ UNCHANGED Spare11
  \/ Of("discover") /\ W!DiscoverNext /\ UNCHANGED Spare7
  \/ Of("jobs") /\ J!JobsNext /\ UNCHANGED Spare10
  \/ Of("alerts") /\ N!AlertsNext /\ UNCHANGED Spare11
  \/ Of("steam") /\ Time!SteamNext
  \/ Of("timer") /\ Time!TimerNext
  \/ Of("process") /\ Proc!ProcessNext /\ UNCHANGED Spare11

BackgroundSpec == BackgroundInit /\ [][BackgroundNext]_<<part, pool>>
----------------------------------------------------------------------------
(* Properties: each part's own, of its behaviours.                         *)

\* Every part's variables hold values of their own shape.
TypesOK ==
  /\ part = "catalog" => C!CatalogTypeOK
  /\ part = "limiter" => L!LimiterTypeOK
  /\ part = "igdb" => I!IgdbTypeOK
  /\ part = "delta" => D!DeltaTypeOK
  /\ part = "enrich" => E!EnrichTypeOK
  /\ part = "backfill" => B!BackfillTypeOK
  /\ part = "matching" => M!MatchingTypeOK
  /\ part = "discover" => W!DiscoverTypeOK
  /\ part = "jobs" => J!JobsTypeOK
  /\ part = "alerts" => N!AlertsTypeOK
  /\ part \in {"steam", "timer"} => Time!PlaytimeTypeOK
  /\ part = "process" => Proc!ProcessTypeOK

\* IGDB is shared: no refresh, slot or waiting caller is lost, a failure is
\* backed off, and calls that run at once do not throw away each other's token.
IgdbIsShared ==
  /\ part = "catalog" => C!CatalogSettles /\ C!FailureBacksOff
  /\ part = "limiter" => L!NoLostWakeup
  /\ part = "igdb" => I!TokensAreShared

\* The jobs leave no game behind: what changed at IGDB is stored once a run
\* has passed it, a refreshed game has its times, and a marked row is settled.
\* A run asks again only for rows whose request or write failed in it: a row
\* that fails every time does hold `cato backfill-popularity`, and a stamp that
\* cannot be stored the weekly run, for as long as it goes on failing.
CatalogIsComplete ==
  /\ part = "delta" => D!DeltaComplete
  /\ part = "enrich" => E!TakenOnce /\ E!TimesFollowDetails
  /\ part = "backfill" => B!MarkedIsSettled /\ B!QueueAdvances /\ B!PagesOnce

\* The right game is found: an imported title is matched by name only when
\* that is clear, and an app that was matched once is remembered.
GamesAreFound == part = "matching" => M!NameIsClear /\ M!AppIsRemembered

\* Discover: the shelves a request takes are at most so old, and those of an
\* empty catalog are not kept.
ShelvesHold == part = "discover" => W!ShelvesHold

\* Playtime: Steam's minutes, and a timer's, are counted once.
MinutesCountOnce == part \in {"steam", "timer"} => Time!MinutesCountOnce

\* Jobs: a run asked for, or due, is not forgotten.  What they record, push or
\* mail is lost, or repeated, only where a stop, a mark that failed, the push
\* service or the person's setting did it.
JobsHold ==
  /\ part = "jobs" => J!NothingForgotten
  /\ part = "alerts" => N!DeliveredOnce

\* What was written survives a failed upgrade, and a shutdown with requests
\* under way.
DataSurvives == part = "process" => Proc!SnapshotSurvives /\ Proc!ClosedLast

\* Imports: the daily sync logs what is played of every imported game.
SyncLogsImported == part = "matching" => M!SyncLogsImported
----------------------------------------------------------------------------
(* What the steps preserve.                                                *)

PartsInv ==
  /\ part \in Parts
  /\ part = "catalog" => C!CatalogInv
  /\ part = "limiter" => L!LimiterInv
  /\ part = "igdb" => I!IgdbInv
  /\ part = "delta" => D!DeltaInv
  /\ part = "enrich" => E!EnrichInv
  /\ part = "backfill" => B!BackfillInv
  /\ part = "matching" => M!MatchingInv
  /\ part = "discover" => W!DiscoverInv
  /\ part = "jobs" => J!JobsInv
  /\ part = "alerts" => N!AlertsInv
  /\ part \in {"steam", "timer"} => Time!PlaytimeInv
  /\ part = "process" => Proc!ProcessInv
=============================================================================
