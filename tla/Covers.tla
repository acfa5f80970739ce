------------------------------- MODULE Covers -------------------------------
(***************************************************************************)
(* The cover queue: cover_jobs, the worker that downloads from it          *)
(* (internal/covers/covers.go), and what queues, re-queues and drops jobs  *)
(* while it runs: library writes, catalog refreshes, the cover repair and  *)
(* the daily prune.  Every SQL statement that no transaction holds         *)
(* together with the next is a step of its own.                            *)
(***************************************************************************)
EXTENDS Integers, FiniteSets, Functions

CONSTANTS
  Games,        \* games of the catalog
  Urls,         \* cover addresses
  Dead,         \* the ones that never answer with an image
  Slots,        \* the semaphore of downloads (maxConcurrentDownloads)
  MaxAttempts,  \* a job that failed so often is left alone (5)
  MaxWrites,    \* bound: library writes
  MaxRefreshes, \* bound: catalog refreshes and repairs begun
  MaxRestarts   \* bound: times the process starts again

NoUrl == "none"

ASSUME UrlsAssumption == NoUrl \notin Urls /\ Dead \subseteq Urls
ASSUME BoundsAssumption ==
  {MaxAttempts, MaxWrites, MaxRefreshes, MaxRestarts} \subseteq Nat /\ MaxAttempts > 0
ASSUME SlotsAssumption == IsFiniteSet(Slots)

VARIABLES
  games,      \* game -> cover_url, and whether local_cover_path is set
  library,    \* game -> whether it is in someone's library, or was removed
  jobs,       \* cover_jobs: game -> source_url, attempts, next_attempt_at
  files,      \* game -> the address its file on disk came from
  phase,      \* of the process and its worker's context
  coord,      \* the coordinator: where it is and the job it selected
  slots,      \* slot -> the download in it
  refreshes,  \* refreshes and repairs of the catalog under way
  history,    \* what the properties remember, per game
  spent       \* how much of each bound is used

tables == <<games, library, jobs>>
worker == <<coord, slots>>
vars == <<tables, files, phase, worker, refreshes, history, spent>>

Free == [at |-> "free"]
NoJob == [game |-> "none"]
At(place) == [at |-> place, job |-> NoJob]

InLibrary(g) == library[g] = "in"
Exhausted(g) == g \in DOMAIN jobs /\ jobs[g].attempts >= MaxAttempts
Busy == {s \in Slots : slots[s] # Free}
Live(g) == {s \in Busy : slots[s].game = g /\ slots[s].at # "end"}
Cancelled == phase = "stopping"
Working == phase \in {"up", "stopping"}

Spend(what) == spent' = [spent EXCEPT ![what] = @ + 1]
Without(f, S) == Restrict(f, DOMAIN f \ S)

Init ==
  /\ games \in [Games -> [url : Urls \cup {NoUrl}, cached : {FALSE}]]
  /\ library = [g \in Games |-> "never"]
  /\ jobs = <<>>
  /\ files = [g \in Games |-> NoUrl]
  /\ phase = "up" /\ coord = At("clean") /\ slots = [s \in Slots |-> Free]
  /\ refreshes = {}
  /\ history = [g \in Games |-> [queued |-> 0, tried |-> 0, orphan |-> FALSE]]
  /\ spent = [writes |-> 0, refreshes |-> 0, restarts |-> 0]

----------------------------------------------------------------------------
(* The queue.                                                              *)

Fresh(u) == [url |-> u, attempts |-> 0, next |-> "due"]
WithJob(g, u) == [h \in DOMAIN jobs \cup {g} |-> IF h = g THEN Fresh(u) ELSE jobs[h]]

\* n + 1, as far as it matters to the properties.
UpTo(limit, n) == IF n < limit THEN n + 1 ELSE n

\* A job was put in the queue, or put back under another address.
Queued(g) ==
  history' = [history EXCEPT ![g].queued = UpTo(Cardinality(Slots), @), ![g].tried = 0]

\* EnqueueCoverJob: for a game in a library, a new job, or the old one revived
\* under a new address.
EnqueueCoverJob(g, u) ==
  LET wanted == InLibrary(g) /\ (g \in DOMAIN jobs => Exhausted(g) \/ jobs[g].url # u)
  IN  IF wanted THEN jobs' = WithJob(g, u) /\ Queued(g)
      ELSE UNCHANGED <<jobs, history>>

\* A job's backoff or reservation runs out.  A reservation (30 minutes)
\* outlasts every download (two requests of 30 seconds at most).
Expire(g) ==
  /\ g \in DOMAIN jobs
  /\ jobs[g].next # "due"
  /\ jobs[g].next = "reserved" => \A s \in Busy : slots[s].game # g
  /\ jobs' = [jobs EXCEPT ![g].next = "due"]
  /\ UNCHANGED <<games, library, files, phase, worker, refreshes, history, spent>>

\* PruneJobs.
Prune ==
  /\ Working
  /\ \E g \in DOMAIN jobs : ~InLibrary(g)
  /\ jobs' = Restrict(jobs, {g \in DOMAIN jobs : InLibrary(g)})
  /\ UNCHANGED <<games, library, files, phase, worker, refreshes, history, spent>>

----------------------------------------------------------------------------
(* People.                                                                 *)

\* A library write (applyChange) adds the game or changes it, queues its
\* cover if none is cached.  It also wakes an idle worker, which looks by
\* itself every 30 seconds: only sooner.
Write(g) ==
  /\ Working /\ spent.writes < MaxWrites /\ Spend("writes")
  /\ library' = [library EXCEPT ![g] = "in"]
  /\ IF games[g].url # NoUrl /\ ~games[g].cached /\ g \notin DOMAIN jobs
     THEN jobs' = WithJob(g, games[g].url) /\ Queued(g)
     ELSE UNCHANGED <<jobs, history>>
  /\ UNCHANGED <<games, files, phase, worker, refreshes>>

Remove(g) ==
  /\ Working /\ InLibrary(g)
  /\ library' = [library EXCEPT ![g] = "removed"]
  /\ UNCHANGED <<games, jobs, files, phase, worker, refreshes, history, spent>>

\* The undo of a removal (restoreItem) queues nothing.
Restore(g) ==
  /\ Working /\ spent.writes < MaxWrites /\ Spend("writes")
  /\ library[g] = "removed"
  /\ library' = [library EXCEPT ![g] = "in"]
  /\ UNCHANGED <<games, jobs, files, phase, worker, refreshes, history>>

----------------------------------------------------------------------------
(* The catalog.                                                            *)

\* A refresh stores what the catalog's source says (UpsertIGDBGame) ...
Refresh(g, u) ==
  /\ Working /\ spent.refreshes < MaxRefreshes /\ Spend("refreshes")
  /\ games' = [games EXCEPT ![g].url = u]
  /\ refreshes' = refreshes \cup {[game |-> g, at |-> "stored", url |-> u, repair |-> FALSE]}
  /\ UNCHANGED <<library, jobs, files, phase, worker, history>>

\* ... the repair lists exhausted jobs first, and asks about each later.
List(g) ==
  /\ Working /\ spent.refreshes < MaxRefreshes /\ Spend("refreshes")
  /\ Exhausted(g)
  /\ refreshes' = refreshes \cup {[game |-> g, at |-> "listed", url |-> NoUrl, repair |-> TRUE]}
  /\ UNCHANGED <<tables, files, phase, worker, history>>

RepairStores(r, u) ==
  /\ r.at = "listed"
  /\ games' = [games EXCEPT ![r.game].url = u]
  /\ refreshes' = (refreshes \ {r}) \cup {[r EXCEPT !.at = "stored", !.url = u]}
  /\ UNCHANGED <<library, jobs, files, phase, worker, history, spent>>

RepairFindsNothing(r) ==
  /\ r.at = "listed"
  /\ jobs' = Without(jobs, {r.game})
  /\ refreshes' = refreshes \ {r}
  /\ UNCHANGED <<games, library, files, phase, worker, history, spent>>

\* ... and then queues the cover.
RefreshQueues(r) ==
  /\ r.at = "stored"
  /\ refreshes' = refreshes \ {r}
  /\ IF r.url # NoUrl THEN EnqueueCoverJob(r.game, r.url)
     ELSE /\ jobs' = IF r.repair THEN Without(jobs, {r.game}) ELSE jobs
          /\ UNCHANGED history
  /\ UNCHANGED <<games, library, files, phase, worker, spent>>

----------------------------------------------------------------------------
(* The coordinator (Start).                                                *)

Coord(place) == coord' = At(place)

\* A slip: only games without an address are looked at.
StalePathWithoutUrl(g) == games[g].cached /\ games[g].url = NoUrl /\ files[g] = NoUrl

StalePath(g) == games[g].cached /\ files[g] = NoUrl

\* CleanStaleLocalPaths.
Clean ==
  /\ phase = "up" /\ coord.at = "clean"
  /\ games' = [g \in Games |-> IF StalePath(g) THEN [games[g] EXCEPT !.cached = FALSE]
                               ELSE games[g]]
  /\ Coord("select")
  /\ UNCHANGED <<library, jobs, files, phase, slots, refreshes, history, spent>>

\* A slip: exhausted jobs are tried again.
ClaimableForEver(g) == InLibrary(g) /\ jobs[g].next = "due"

Claimable(g) == InLibrary(g) /\ jobs[g].next = "due" /\ jobs[g].attempts < MaxAttempts

\* A slot is taken, then nextJob runs its SELECT.  created_at counts seconds,
\* so any job may be the oldest.
Select ==
  /\ phase = "up" /\ coord.at = "select" /\ Busy # Slots
  /\ \/ \E g \in DOMAIN jobs :
          /\ Claimable(g)
          /\ coord' = [at |-> "claim", job |-> [game |-> g, url |-> jobs[g].url,
                                                attempts |-> jobs[g].attempts]]
     \/ /\ \A g \in DOMAIN jobs : ~Claimable(g)
        /\ Coord("idle")
  /\ UNCHANGED <<tables, files, phase, slots, refreshes, history, spent>>

\* A download, with the job it was given.
Started(job) ==
  [at |-> "stat", game |-> job.game, url |-> job.url, attempts |-> job.attempts]

\* A slip: the job is not reserved.
UnreservedJobs(g) == jobs

ReservedJobs(g) == IF g \in DOMAIN jobs THEN [jobs EXCEPT ![g].next = "reserved"] ELSE jobs

\* nextJob, the UPDATE, and the download it starts with what was selected.
Claim ==
  LET job == coord.job
      g   == job.game
  IN  /\ phase = "up" /\ coord.at = "claim"
      /\ jobs' = ReservedJobs(g)
      /\ history' = IF g \in DOMAIN jobs /\ jobs[g].url = job.url
                    THEN [history EXCEPT ![g].tried = UpTo(MaxAttempts, @)] ELSE history
      /\ slots' = [slots EXCEPT ![CHOOSE s \in Slots : s \notin Busy] = Started(job)]
      /\ Coord("select")
      /\ UNCHANGED <<games, library, files, phase, refreshes, spent>>

\* Without a job it waits, for a wake or a while.
WaitIdle ==
  /\ phase = "up" /\ coord.at = "idle"
  /\ Coord("select")
  /\ UNCHANGED <<tables, files, phase, slots, refreshes, history, spent>>

\* Wherever it is, a cancelled context ends it.
Leave ==
  /\ Cancelled /\ coord.at # "done"
  /\ Coord("done")
  /\ UNCHANGED <<tables, files, phase, slots, refreshes, history, spent>>

----------------------------------------------------------------------------
(* A download (downloadAndSave).                                           *)

To(s, place) == slots' = [slots EXCEPT ![s].at = place]

\* A file already on disk completes the job.
Stat(s) ==
  /\ slots[s].at = "stat"
  /\ IF Cancelled THEN To(s, "end")
     ELSE To(s, IF files[slots[s].game] # NoUrl THEN "complete" ELSE "fetch")
  /\ UNCHANGED <<tables, files, phase, coord, refreshes, history, spent>>

\* The request, and saveAtomically; both may fail.  The 2x variant
\* (fetchHiDPI) is left out.
Fetch(s) ==
  /\ slots[s].at = "fetch"
  /\ \/ /\ To(s, IF Cancelled THEN "end" ELSE "fail")
        /\ UNCHANGED files
     \/ /\ slots[s].url \notin Dead /\ ~Cancelled
        /\ files' = [files EXCEPT ![slots[s].game] = slots[s].url]
        /\ To(s, "complete")
  /\ UNCHANGED <<tables, phase, coord, refreshes, history, spent>>

\* completeJob, in one transaction; it may fail, and does when cancelled.
Complete(s) ==
  LET g == slots[s].game
  IN  /\ slots[s].at = "complete"
      /\ \/ /\ ~Cancelled
            /\ games' = [games EXCEPT ![g].cached = TRUE]
            /\ jobs' = Without(jobs, {g})
            /\ To(s, "end")
         \/ To(s, IF Cancelled THEN "end" ELSE "fail") /\ UNCHANGED <<games, jobs>>
      /\ UNCHANGED <<library, files, phase, coord, refreshes, history, spent>>

\* recordFailure: the attempts it counts are those of the job it was given.
Fail(s) ==
  LET g == slots[s].game
      n == slots[s].attempts + 1
  IN  /\ slots[s].at = "fail"
      /\ jobs' = IF g \in DOMAIN jobs /\ ~Cancelled
                 THEN [jobs EXCEPT ![g].attempts = n,
                                   ![g].next = IF n >= MaxAttempts THEN "due" ELSE "backoff"]
                 ELSE jobs
      /\ To(s, "end")
      /\ UNCHANGED <<games, library, files, phase, coord, refreshes, history, spent>>

\* Slips: a cancelled download keeps its reservation; a download that ends
\* does not give its slot back.
ReleasedNothing(g) == jobs
SlotKept(s) == slots

Released(g) ==
  IF Cancelled /\ g \in DOMAIN jobs THEN [jobs EXCEPT ![g].next = "due"] ELSE jobs
SlotFreed(s) == [slots EXCEPT ![s] = Free]

\* The deferred release of a cancelled download's reservation, and its slot.
End(s) ==
  /\ slots[s].at = "end"
  /\ jobs' = Released(slots[s].game)
  /\ slots' = SlotFreed(s)
  /\ UNCHANGED <<games, library, files, phase, coord, refreshes, history, spent>>

Download(s) == Stat(s) \/ Fetch(s) \/ Complete(s) \/ Fail(s) \/ End(s)

----------------------------------------------------------------------------
(* The process.                                                            *)

\* Shutdown cancels the worker's context and waits for it to finish.
Shutdown ==
  /\ phase = "up"
  /\ phase' = "stopping"
  /\ UNCHANGED <<tables, files, worker, refreshes, history, spent>>

Stopped ==
  /\ phase = "stopping" /\ coord.at = "done" /\ Busy = {}
  /\ phase' = "stopped"
  /\ UNCHANGED <<tables, files, worker, refreshes, history, spent>>

\* A crash at any point, or a shutdown that ran out of time.
Crash ==
  /\ Working
  /\ phase' = "down"
  /\ history' = [g \in Games |-> IF g \in DOMAIN jobs /\ jobs[g].next = "reserved"
                                 THEN [history[g] EXCEPT !.orphan = TRUE] ELSE history[g]]
  /\ coord' = At("clean") /\ slots' = [s \in Slots |-> Free]
  /\ refreshes' = {}
  /\ UNCHANGED <<tables, files, spent>>

\* The process starts again, perhaps on a database restored without its files.
Restart ==
  /\ phase \in {"stopped", "down"}
  /\ spent.restarts < MaxRestarts /\ Spend("restarts")
  /\ phase' = "up"
  /\ coord' = At("clean") /\ slots' = [s \in Slots |-> Free]
  /\ refreshes' = {}
  /\ files' \in {files, [g \in Games |-> NoUrl]}
  /\ UNCHANGED <<tables, history>>

Coordinate == Clean \/ Select \/ Claim \/ WaitIdle \/ Leave

Catalog ==
  \/ \E g \in Games : List(g) \/ \E u \in Urls \cup {NoUrl} : Refresh(g, u)
  \/ \E r \in refreshes :
       RefreshQueues(r) \/ RepairFindsNothing(r) \/ \E u \in Urls \cup {NoUrl} : RepairStores(r, u)

Next ==
  \/ Coordinate \/ \E s \in Slots : Download(s)
  \/ Catalog \/ Prune
  \/ \E g \in Games : Write(g) \/ Remove(g) \/ Restore(g) \/ Expire(g)
  \/ Shutdown \/ Stopped \/ Crash \/ Restart

Spec == Init /\ [][Next]_vars

\* The worker's goroutines run, requests and statements end, and time passes.
\* Nobody has to write, refresh, prune or stop anything.
FairSpec ==
  /\ Spec
  /\ WF_vars(Coordinate)
  /\ \A s \in Slots : WF_vars(Download(s))
  /\ \A g \in Games : WF_vars(Expire(g))

----------------------------------------------------------------------------
(* Properties.                                                             *)

JobType == [url : Urls, attempts : 0..MaxAttempts, next : {"due", "backoff", "reserved"}]
SelectedType == [game : Games, url : Urls, attempts : 0..(MaxAttempts - 1)]
DownloadType == [at : {"stat", "fetch", "complete", "fail", "end"},
                 game : Games, url : Urls, attempts : 0..(MaxAttempts - 1)]
RefreshType ==
  [game : Games, at : {"listed", "stored"}, url : Urls \cup {NoUrl}, repair : BOOLEAN]
HistoryType == [queued : 0..Cardinality(Slots), tried : 0..MaxAttempts, orphan : BOOLEAN]

\* Every variable holds values of its own shape; a job is exhausted at most,
\* and an exhausted one is never downloaded.
TypeOK ==
  /\ games \in [Games -> [url : Urls \cup {NoUrl}, cached : BOOLEAN]]
  /\ library \in [Games -> {"never", "in", "removed"}]
  /\ DOMAIN jobs \subseteq Games /\ jobs \in [DOMAIN jobs -> JobType]
  /\ files \in [Games -> Urls \cup {NoUrl}]
  /\ phase \in {"up", "stopping", "stopped", "down"}
  /\ coord.at \in {"clean", "select", "claim", "idle", "done"}
  /\ coord.at = "claim" => coord.job \in SelectedType
  /\ slots \in [Slots -> DownloadType \cup {Free}]
  /\ refreshes \subseteq RefreshType
  /\ history \in [Games -> HistoryType]
  /\ spent \in [{"writes", "refreshes", "restarts"} -> Nat]

\* What the pages link to is there: from the worker's first sweep on, a game
\* whose local_cover_path is set has its file on disk.
PathHasFile ==
  phase = "up" /\ coord.at # "clean" => \A g \in Games : games[g].cached => files[g] # NoUrl

\* "A canceled download did not fail; release its reservation for restart": a
\* job is only ever reserved while a download of its game holds it, or because
\* a crash orphaned it; a worker that stopped leaves none behind.  "This
\* prevents the coordinator loop from re-selecting the same job": a game is
\* downloaded by no more downloads at once than it was queued times.
ReservationHasOwner ==
  /\ \A g \in DOMAIN jobs :
       jobs[g].next = "reserved" => history[g].orphan \/ \E s \in Busy : slots[s].game = g
  /\ \A g \in Games : Cardinality(Live(g)) <= history[g].queued

\* Every job of a library game is settled while the process runs: its cover is
\* there, its attempts are used up, or nobody wants it any more.
Waiting(g) == g \in DOMAIN jobs /\ ~Exhausted(g) /\ InLibrary(g) /\ phase = "up"
JobSettles == \A g \in Games : Waiting(g) ~> ~Waiting(g)

\* "Based on the actual attempt number" (recordFailure): a job has not failed
\* more often than its address was tried since it was queued under it.
AttemptsAreActual == \A g \in DOMAIN jobs : jobs[g].attempts <= history[g].tried
=============================================================================
