-------------------------------- MODULE Enrich --------------------------------
(***************************************************************************)
(* Rich data of a game: what a page view or the weekly job fetches from    *)
(* IGDB (details first, times to beat after), and the daily popularity     *)
(* rankings.  A request to IGDB fails, a page view's wait ends and the     *)
(* process stops at any point; what was stored stays.                      *)
(***************************************************************************)
EXTENDS Integers, Sequences, FiniteSets

CONSTANTS
  Games,       \* IGDB games, some in the catalog from the start
  Views,       \* page views that refresh a game, in a request or behind it
  BatchSize,   \* 500
  Scores,      \* PopScore values above 0
  MaxRankings  \* bound: rankings read

VARIABLES
  known,       \* rows of games
  owned,       \* games in somebody's library
  stamp,       \* game -> details_fetched_at: never, old (14 days), week (7 days) or fresh
  times,       \* game -> its times to beat were asked for since the stamp
  tasks,       \* a page view or the job -> its refresh
  ranking,     \* popularity type -> game -> score, 0: not ranked
  score,       \* game -> games.igdb_popularity
  pop,         \* the popularity job
  rankings,    \* bound: see MaxRankings
  taken,       \* history: games the weekly run has taken, but for failed stamps
  cut          \* history: games whose refresh ended between details and times

detailVars == <<stamp, times, tasks, taken, cut>>
rankVars == <<ranking, score, pop, rankings>>
enrichVars == <<known, owned, detailVars, rankVars>>

Job == "job"
Tasks == Views \cup {Job}
Resting == [pc |-> "idle"]
Kinds == <<"visits", "playing">>   \* three kinds in the code, in this order

\* UpsertIGDBGame: every column of a full record, igdb_popularity with it,
\* which igdbFields does not ask for and so is 0.  Rich data stays.
Upserted(gs) ==
  /\ known' = known \cup gs
  /\ score' = [g \in Games |-> IF g \in gs THEN 0 ELSE score[g]]
----------------------------------------------------------------------------
(* Details.                                                                *)

Begin(t, ids) == tasks' = [tasks EXCEPT ![t] = [pc |-> "details", ids |-> ids, todo |-> ids, got |-> {}]]

\* EnsureDetails: a game page, when details are missing or 14 days old.
EnsureDetails(v, g) ==
  /\ tasks[v] = Resting /\ g \in known /\ stamp[g] \in {"never", "old"}
  /\ Begin(v, {g})
  /\ UNCHANGED <<known, owned, stamp, times, rankVars, taken, cut>>

\* StaleDetails: library games whose details are over a week old, oldest first.
Stale == {g \in owned : stamp[g] # "fresh"}
Oldest(ids) == \A g \in ids, h \in Stale \ ids : ~(stamp[h] = "never" /\ stamp[g] # "never") /\ ~(stamp[h] = "old" /\ stamp[g] = "week")
\* The first half of RefreshLibraryDetails' loop: a batch, and the core rows
\* of it, whose failure is passed over.
NextBatch(ids, full) ==
  /\ tasks[Job] = Resting \/ tasks[Job].pc = "next"
  /\ ids \subseteq Stale /\ Oldest(ids)
  /\ Cardinality(ids) = IF Cardinality(Stale) < BatchSize THEN Cardinality(Stale) ELSE BatchSize
  /\ full \subseteq ids /\ Upserted(full)
  /\ IF ids = {} THEN tasks' = [tasks EXCEPT ![Job] = Resting]
     ELSE Begin(Job, ids)
  /\ taken' = IF ids = {} THEN {} ELSE taken \cup ids
  /\ UNCHANGED <<owned, stamp, times, ranking, pop, rankings, cut>>

\* RefreshDetails: IGDB's answer; ids it does not return are stamped as well.
GotDetails(t, returned) ==
  /\ tasks[t].pc = "details" /\ returned \subseteq tasks[t].ids
  /\ tasks' = [tasks EXCEPT ![t].pc = "save", ![t].got = returned]
  /\ UNCHANGED <<known, owned, stamp, times, rankVars, taken, cut>>

SaveStep(t, g) ==
  /\ tasks[t].pc = "save" /\ g \in tasks[t].todo
  /\ tasks' = [tasks EXCEPT ![t].todo = @ \ {g}, ![t].pc = IF tasks[t].todo = {g} THEN "times" ELSE "save"]

\* Slip: only what IGDB returned is stamped.
SaveReturned(t, g, stored) ==
  /\ SaveStep(t, g) /\ stored
  /\ stamp' = IF g \in tasks[t].got THEN [stamp EXCEPT ![g] = "fresh"] ELSE stamp
  /\ times' = [times EXCEPT ![g] = FALSE]
  /\ UNCHANGED <<known, owned, rankVars, taken, cut>>

\* What IGDB returned first (SaveDetails: the game's rich data and its stamp in
\* one transaction), then the stamp of what it did not: an UPDATE that may
\* store nothing, as its error is ignored and the refresh goes on.
SaveDetails(t, g, stored) ==
  /\ SaveStep(t, g)
  /\ IF g \in tasks[t].got THEN stored ELSE tasks[t].todo \cap tasks[t].got = {}
  /\ stamp' = IF stored THEN [stamp EXCEPT ![g] = "fresh"] ELSE stamp
  /\ times' = IF stored THEN [times EXCEPT ![g] = FALSE] ELSE times
  /\ taken' = IF t = Job /\ ~stored THEN taken \ {g} ELSE taken
  /\ UNCHANGED <<known, owned, rankVars, cut>>

After(t) == IF t = Job THEN [pc |-> "next", ids |-> {}, todo |-> {}, got |-> {}] ELSE Resting

\* Slip: the times are asked for what IGDB returned only.
SaveTimesOfReturned(t) ==
  /\ tasks[t].pc = "times"
  /\ times' = [g \in Games |-> times[g] \/ g \in tasks[t].got]
  /\ cut' = cut \ tasks[t].ids
  /\ tasks' = [tasks EXCEPT ![t] = After(t)]
  /\ UNCHANGED <<known, owned, stamp, rankVars, taken>>

\* RefreshDetails' second request, for all of the batch.
SaveTimesToBeat(t) ==
  /\ tasks[t].pc = "times"
  /\ times' = [g \in Games |-> times[g] \/ g \in tasks[t].ids]
  /\ cut' = cut \ tasks[t].ids
  /\ tasks' = [tasks EXCEPT ![t] = After(t)]
  /\ UNCHANGED <<known, owned, stamp, rankVars, taken>>

\* A request or a statement fails, the wait is over, or the process stops.
GiveUp(t) ==
  /\ tasks[t] # Resting
  /\ tasks' = [tasks EXCEPT ![t] = Resting]
  /\ cut' = IF tasks[t].pc = "times" THEN cut \cup tasks[t].ids
            ELSE IF tasks[t].pc = "save" THEN cut \cup (tasks[t].ids \ tasks[t].todo) ELSE cut
  /\ taken' = IF t = Job THEN {} ELSE taken
  /\ UNCHANGED <<known, owned, stamp, times, rankVars>>
----------------------------------------------------------------------------
(* SyncPopularity.                                                         *)

\* GetPopular and MissingGames.
GetPopular(list) ==
  /\ pop = Resting \/ pop.pc = "next"
  /\ rankings < MaxRankings
  /\ rankings' = rankings + 1
  /\ pop' = [pc |-> "list", kind |-> IF pop = Resting THEN 1 ELSE pop.kind, list |-> list]
  /\ UNCHANGED <<known, owned, detailVars, ranking, score>>

\* The games it names that are not in the catalog yet, and the ranking.
\* SavePopularity replaces the ranking in one transaction.
SavePopularity(found) ==
  LET kind == Kinds[pop.kind]
      named == {g \in Games : pop.list[g] > 0}
  IN  /\ pop.pc = "list" /\ found \subseteq named \ known
      /\ known' = known \cup found
      /\ ranking' = [ranking EXCEPT ![kind] = pop.list]
      /\ score' = IF kind = "visits" THEN [g \in Games |-> IF g \in named \cap known' THEN pop.list[g] ELSE score[g]] ELSE score
      /\ pop' = IF pop.kind = Len(Kinds) THEN Resting ELSE [pc |-> "next", kind |-> pop.kind + 1, list |-> pop.list]
      /\ UNCHANGED <<owned, detailVars, rankings>>

PopularityFails ==
  /\ pop # Resting
  /\ pop' = Resting
  /\ UNCHANGED <<known, owned, detailVars, ranking, score, rankings>>
----------------------------------------------------------------------------
(* The rest of the catalog, IGDB and time.                                 *)

\* A search refresh, the delta sync or an import stores a full record.
UpsertElsewhere(g) ==
  /\ Upserted({g})
  /\ UNCHANGED <<owned, detailVars, ranking, pop, rankings>>

Own(g) ==
  /\ g \in known \ owned
  /\ owned' = owned \cup {g}
  /\ UNCHANGED <<known, detailVars, rankVars>>

\* A week passes for a game; no run lasts that long.
Age(g) ==
  /\ stamp[g] \in {"fresh", "week"} /\ \A t \in Tasks : tasks[t] = Resting
  /\ stamp' = [stamp EXCEPT ![g] = IF @ = "fresh" THEN "week" ELSE "old"]
  /\ UNCHANGED <<known, owned, times, tasks, rankVars, taken, cut>>

EnrichInit ==
  /\ \E g \in Games : known = {g}
  /\ owned = {}
  /\ stamp = [g \in Games |-> "never"] /\ times = [g \in Games |-> FALSE]
  /\ tasks = [t \in Tasks |-> Resting]
  /\ ranking = [k \in {"visits", "playing"} |-> [g \in Games |-> 0]] /\ score = [g \in Games |-> 0]
  /\ pop = Resting /\ rankings = 0 /\ taken = {} /\ cut = {}

EnrichNext ==
  \/ \E v \in Views, g \in Games : EnsureDetails(v, g)
  \/ \E ids, full \in SUBSET Games : NextBatch(ids, full)
  \/ \E t \in Tasks : SaveTimesToBeat(t) \/ GiveUp(t)
  \/ \E t \in Tasks, returned \in SUBSET Games : GotDetails(t, returned)
  \/ \E t \in Tasks, g \in Games, stored \in BOOLEAN : SaveDetails(t, g, stored)
  \/ \E list \in [Games -> Scores \cup {0}] : GetPopular(list)
  \/ \E found \in SUBSET Games : SavePopularity(found)
  \/ PopularityFails
  \/ \E g \in Games : UpsertElsewhere(g) \/ Own(g) \/ Age(g)
----------------------------------------------------------------------------
(* Properties.                                                             *)

EnrichTypeOK ==
  /\ owned \subseteq known /\ known \subseteq Games
  /\ stamp \in [Games -> {"never", "old", "week", "fresh"}]
  /\ \A g \in Games : times[g] \in BOOLEAN /\ score[g] \in Scores \cup {0}
  /\ \A t \in Tasks : tasks[t].pc \in {"idle", "details", "save", "times", "next"}
  /\ taken \cup cut \subseteq Games

\* The weekly run's loop moves on: it takes a stale game once, also one IGDB does
\* not return, and asks again only for a game whose stamp could not be stored.
\* (A stamp that fails every time makes it ask for that game for ever.)
TakenOnce ==
  tasks[Job].pc = "next" => \A g \in taken : stamp[g] = "fresh"

\* A game that counts as fetched, and so is left alone for one or two weeks,
\* has had its times to beat fetched as well, unless a refresh is on or ended
\* between the two requests.
TimesFollowDetails ==
  \A g \in Games : stamp[g] # "never" =>
     times[g] \/ g \in cut \/ \E t \in Tasks : tasks[t] # Resting /\ g \in tasks[t].ids
----------------------------------------------------------------------------
(* What the steps preserve.                                                *)

Rankings  == [Games -> Scores \cup {0}]
Refreshes == [pc : {"details", "save", "times", "next"},
              ids : SUBSET Games, todo : SUBSET Games, got : SUBSET Games]

\* What a refresh may hold, the games it has stamped, and the ones to come.
WellFormed(r) ==
  r # Resting =>
    /\ r.todo \subseteq r.ids
    /\ r.pc = "details" => r.todo = r.ids
    /\ r.pc \in {"times", "next"} => r.todo = {}
    /\ r.pc = "next" => r.ids = {}
Saved(r) == IF r = Resting THEN {} ELSE r.ids \ r.todo
ToCome(r) == IF r = Resting THEN {} ELSE r.todo

RankInv ==
  /\ owned \subseteq known /\ known \subseteq Games
  /\ score \in Rankings
  /\ pop # Resting => pop.list \in Rankings

\* A game whose stamp is newer than its times is in a refresh, or one was cut.
DetailInv ==
  /\ stamp \in [Games -> {"never", "old", "week", "fresh"}] /\ times \in [Games -> BOOLEAN]
  /\ tasks \in [Tasks -> {Resting} \cup Refreshes] /\ \A t \in Tasks : WellFormed(tasks[t])
  /\ taken \subseteq Games /\ cut \subseteq Games
  /\ tasks[Job] = Resting => taken = {}
  /\ \A g \in taken : stamp[g] = "fresh" \/ g \in ToCome(tasks[Job])
  /\ \A g \in Games : stamp[g] # "never" => times[g] \/ g \in cut \/ \E t \in Tasks : g \in Saved(tasks[t])

EnrichInv == RankInv /\ DetailInv
=============================================================================
