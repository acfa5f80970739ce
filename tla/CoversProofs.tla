---------------------------- MODULE CoversProofs ----------------------------
(***************************************************************************)
(* The cover queue keeps its promises for any set of games, addresses and  *)
(* slots: cached covers have their files, reservations have their owners.  *)
(***************************************************************************)
EXTENDS Covers, FiniteSetTheorems, TLAPS

\* What a cached path rests on: a download that completes has stored its file.
PathInv ==
  /\ PathHasFile
  /\ \A s \in Slots : slots[s].at = "complete" => files[slots[s].game] # NoUrl

\* While the worker runs a reservation is a live download's; once it is told to
\* stop, of any download still there to release it; afterwards, a crash's.
OwnerInv ==
  /\ phase \in {"stopped", "down"} => Busy = {}
  /\ \A g \in DOMAIN jobs : jobs[g].next = "reserved" =>
       \/ history[g].orphan
       \/ phase = "up" /\ Live(g) # {}
       \/ phase = "stopping" /\ \E s \in Busy : slots[s].game = g

\* The coordinator holds the slot it took, and selected a job.
SlotInv == coord.at = "claim" => Busy # Slots

Selected(g) == coord.at = "claim" /\ coord.job.game = g
Unreserved(g) == g \in DOMAIN jobs /\ jobs[g].next # "reserved"

\* A job that may be or is about to be claimed has room for one more download.
QueuedInv ==
  \A g \in Games : history[g].queued # Cardinality(Slots) =>
    /\ Cardinality(Live(g)) <= history[g].queued
    /\ g \in DOMAIN jobs => history[g].queued > 0
    /\ phase = "up" /\ (Selected(g) \/ Unreserved(g)) =>
         Cardinality(Live(g)) < history[g].queued


\* What putting, changing and dropping a job does to the table.
LEMMA PutJob ==
  ASSUME TypeOK, NEW g \in Games, NEW u \in Urls, NEW J, J = WithJob(g, u)
  PROVE  /\ DOMAIN J = DOMAIN jobs \cup {g}
         /\ J[g] = Fresh(u)
         /\ \A h \in DOMAIN jobs \ {g} : J[h] = jobs[h]
         /\ DOMAIN J \subseteq Games /\ J \in [DOMAIN J -> JobType]
  <1>1. Fresh(u) \in JobType
    BY BoundsAssumption DEF Fresh, JobType
  <1>. QED  BY <1>1 DEF TypeOK, WithJob

LEMMA DropJob ==
  ASSUME TypeOK, NEW S, NEW J, J = Restrict(jobs, S), S \subseteq DOMAIN jobs
  PROVE  /\ DOMAIN J = S
         /\ \A h \in S : J[h] = jobs[h]
         /\ DOMAIN J \subseteq Games /\ J \in [DOMAIN J -> JobType]
  BY DEF Restrict, TypeOK

\* The slot of a claim is free.
LEMMA FreeSlot ==
  ASSUME Busy # Slots
  PROVE  (CHOOSE s \in Slots : s \notin Busy) \in Slots \ Busy
  BY DEF Busy

\* Queueing counts, up to the number of slots.
LEMMA QueuedType ==
  ASSUME TypeOK, NEW g \in Games, Queued(g)
  PROVE  /\ history' \in [Games -> HistoryType]
         /\ \A h \in Games \ {g} : history'[h] = history[h]
         /\ history'[g].orphan = history[g].orphan
         /\ \/ history'[g].queued = Cardinality(Slots)
            \/ history'[g].queued = history[g].queued + 1
  <1>1. Cardinality(Slots) \in Nat
    BY SlotsAssumption, FS_CardinalityType
  <1>2. history[g] \in HistoryType /\ history \in [Games -> HistoryType]
    BY DEF TypeOK
  <1>3. UpTo(Cardinality(Slots), history[g].queued) \in 0..Cardinality(Slots)
    BY <1>1, <1>2 DEF UpTo, HistoryType
  <1> DEFINE n == UpTo(Cardinality(Slots), history[g].queued)
             row == [history[g] EXCEPT !.queued = n, !.tried = 0]
  <1>4. history' = [history EXCEPT ![g] = row]
    BY <1>2 DEF Queued, HistoryType
  <1>5. row \in HistoryType /\ row.orphan = history[g].orphan /\ row.queued = n
    <2>1. ASSUME NEW h \in HistoryType, NEW k \in 0..Cardinality(Slots)
          PROVE  /\ [h EXCEPT !.queued = k, !.tried = 0] \in HistoryType
                 /\ [h EXCEPT !.queued = k, !.tried = 0].orphan = h.orphan
                 /\ [h EXCEPT !.queued = k, !.tried = 0].queued = k
      <3>1. 0 \in 0..MaxAttempts
        BY BoundsAssumption
      <3>. QED  BY <3>1 DEF HistoryType
    <2>. QED  BY <1>2, <1>3, <2>1
  <1>6. n = Cardinality(Slots) \/ n = history[g].queued + 1
    BY <1>1, <1>2 DEF UpTo, HistoryType
  <1>. QED  BY <1>2, <1>4, <1>5, <1>6

\* What queueing a cover changes.
LEMMA Enqueue ==
  ASSUME TypeOK, NEW g \in Games, NEW u \in Urls, EnqueueCoverJob(g, u)
  PROVE  \/ UNCHANGED <<jobs, history>>
         \/ jobs' = WithJob(g, u) /\ Queued(g)
  BY DEF EnqueueCoverJob

\* Using up a bound.
LEMMA SpendType ==
  ASSUME TypeOK, NEW what \in {"writes", "refreshes", "restarts"}, Spend(what)
  PROVE  spent' \in [{"writes", "refreshes", "restarts"} -> Nat]
  BY DEF TypeOK, Spend

LEMMA TypeInit == Init => TypeOK
  <1>. SUFFICES ASSUME Init PROVE TypeOK
    OBVIOUS
  <1>1. Cardinality(Slots) \in Nat
    BY SlotsAssumption, FS_CardinalityType
  <1>2. jobs \in [DOMAIN jobs -> JobType] /\ DOMAIN jobs = {}
    BY DEF Init
  <1>3. history \in [Games -> HistoryType]
    BY <1>1, BoundsAssumption DEF Init, HistoryType
  <1>4. games \in [Games -> [url : Urls \cup {NoUrl}, cached : BOOLEAN]]
    BY DEF Init
  <1>5. spent \in [{"writes", "refreshes", "restarts"} -> Nat]
    BY DEF Init
  <1>. QED  BY <1>2, <1>3, <1>4, <1>5 DEF Init, TypeOK, At

LEMMA TypeStep == TypeOK /\ [Next]_vars => TypeOK'
  <1>. SUFFICES ASSUME TypeOK, [Next]_vars PROVE TypeOK'
    OBVIOUS
  <1>. USE BoundsAssumption DEF tables, worker
  <1>1. CASE UNCHANGED vars
    BY <1>1 DEF TypeOK, vars
  <1>2. CASE Clean
    BY <1>2 DEF TypeOK, Clean, StalePath, Coord, At
  <1>3. CASE Select
    <2>1. ASSUME NEW g \in DOMAIN jobs, Claimable(g)
          PROVE  [game |-> g, url |-> jobs[g].url, attempts |-> jobs[g].attempts] \in SelectedType
      BY <2>1 DEF TypeOK, Claimable, JobType, SelectedType
    <2>. QED  BY <1>3, <2>1 DEF TypeOK, Select, Coord, At
  <1>4. CASE Claim
    <2> DEFINE free == CHOOSE s \in Slots : s \notin Busy
    <2>1. coord.job \in SelectedType
      BY <1>4 DEF Claim, TypeOK
    <2>2. Started(coord.job) \in DownloadType
      BY <2>1 DEF Started, SelectedType, DownloadType
    <2>3. slots' \in [Slots -> DownloadType \cup {Free}]
      <3>1. slots' = [slots EXCEPT ![free] = Started(coord.job)]
        BY <1>4 DEF Claim
      <3>. QED  BY <2>2, <3>1 DEF TypeOK
    <2>4. DOMAIN jobs' = DOMAIN jobs /\ jobs' \in [DOMAIN jobs -> JobType]
      BY <1>4 DEF Claim, ReservedJobs, TypeOK, JobType
    <2>5. history' \in [Games -> HistoryType]
      <3> DEFINE g == coord.job.game
      <3>1. history[g] \in HistoryType /\ g \in Games
        BY <2>1 DEF TypeOK, SelectedType
      <3>2. UpTo(MaxAttempts, history[g].tried) \in 0..MaxAttempts
        BY <3>1 DEF UpTo, HistoryType
      <3>3. \/ UNCHANGED history
            \/ history' = [history EXCEPT ![g].tried = UpTo(MaxAttempts, @)]
        BY <1>4 DEF Claim
      <3>4. [history[g] EXCEPT !.tried = UpTo(MaxAttempts, history[g].tried)] \in HistoryType
        BY <3>1, <3>2 DEF HistoryType
      <3>. QED  BY <3>1, <3>3, <3>4 DEF TypeOK
    <2>. QED  BY <1>4, <2>3, <2>4, <2>5 DEF TypeOK, Claim, Coord, At
  <1>5. CASE WaitIdle
    BY <1>5 DEF TypeOK, WaitIdle, Coord, At
  <1>6. CASE Leave
    BY <1>6 DEF TypeOK, Leave, Coord, At
  <1>7. ASSUME NEW s \in Slots, Download(s) PROVE TypeOK'
    <2>1. slots[s] # Free => slots[s] \in DownloadType
      BY DEF TypeOK
    <2>2. slots[s].at # "free" => slots[s] # Free
      BY DEF Free
    <2>3. ASSUME NEW p \in {"stat", "fetch", "complete", "fail", "end"}, To(s, p), slots[s].at # "free"
          PROVE  slots' \in [Slots -> DownloadType \cup {Free}]
      BY <2>1, <2>2, <2>3 DEF TypeOK, To, DownloadType
    <2>4. CASE Stat(s)
      BY <2>3, <2>4 DEF TypeOK, Stat
    <2>5. CASE Fetch(s)
      <3>1. slots[s].url \in Urls
        BY <2>1, <2>2, <2>5 DEF Fetch, DownloadType
      <3>2. slots' \in [Slots -> DownloadType \cup {Free}]
        BY <2>3, <2>5 DEF Fetch
      <3>. QED  BY <2>5, <3>1, <3>2 DEF TypeOK, Fetch
    <2>6. CASE Complete(s)
      <3>1. slots' \in [Slots -> DownloadType \cup {Free}]
        BY <2>3, <2>6 DEF Complete
      <3>2. games' \in [Games -> [url : Urls \cup {NoUrl}, cached : BOOLEAN]]
        <4>1. \/ UNCHANGED games
              \/ games' = [games EXCEPT ![slots[s].game].cached = TRUE]
          BY <2>6 DEF Complete
        <4>2. slots[s].game \in Games
          BY <2>1, <2>2, <2>6 DEF Complete, DownloadType
        <4>3. [games[slots[s].game] EXCEPT !.cached = TRUE] \in [url : Urls \cup {NoUrl}, cached : BOOLEAN]
          <5>1. games[slots[s].game] \in [url : Urls \cup {NoUrl}, cached : BOOLEAN]
            BY <4>2 DEF TypeOK
          <5>. QED  BY <5>1
        <4>. QED  BY <4>1, <4>2, <4>3 DEF TypeOK
      <3>3. DOMAIN jobs' \subseteq Games /\ jobs' \in [DOMAIN jobs' -> JobType]
        BY <2>6, DropJob DEF Complete, TypeOK, Without
      <3>. QED  BY <2>6, <3>1, <3>2, <3>3 DEF TypeOK, Complete
    <2>7. CASE Fail(s)
      <3>1. slots' \in [Slots -> DownloadType \cup {Free}]
        BY <2>3, <2>7 DEF Fail
      <3>2. slots[s].attempts + 1 \in 0..MaxAttempts
        BY <2>1, <2>2, <2>7 DEF Fail, DownloadType
      <3>3. DOMAIN jobs' \subseteq Games /\ jobs' \in [DOMAIN jobs' -> JobType]
        BY <2>7, <3>2 DEF Fail, TypeOK, JobType
      <3>. QED  BY <2>7, <3>1, <3>3 DEF TypeOK, Fail
    <2>8. CASE End(s)
      BY <2>8 DEF TypeOK, End, SlotFreed, Released, JobType
    <2>. QED  BY <1>7, <2>4, <2>5, <2>6, <2>7, <2>8 DEF Download
  <1>8. ASSUME NEW g \in Games, List(g) PROVE TypeOK'
    <2>1. refreshes' \subseteq RefreshType
      <3>1. [game |-> g, at |-> "listed", url |-> NoUrl, repair |-> TRUE] \in RefreshType
        BY DEF RefreshType
      <3>. QED  BY <1>8, <3>1 DEF TypeOK, List
    <2>. QED  BY <1>8, <2>1, SpendType DEF TypeOK, List
  <1>9. ASSUME NEW g \in Games, NEW u \in Urls \cup {NoUrl}, Refresh(g, u) PROVE TypeOK'
    <2>1. refreshes' \subseteq RefreshType
      <3>1. [game |-> g, at |-> "stored", url |-> u, repair |-> FALSE] \in RefreshType
        BY DEF RefreshType
      <3>. QED  BY <1>9, <3>1 DEF TypeOK, Refresh
    <2>2. games' \in [Games -> [url : Urls \cup {NoUrl}, cached : BOOLEAN]]
      BY <1>9 DEF TypeOK, Refresh
    <2>. QED  BY <1>9, <2>1, <2>2, SpendType DEF TypeOK, Refresh
  <1>10. ASSUME NEW r \in refreshes, RefreshQueues(r) PROVE TypeOK'
    <2>1. r.game \in Games /\ r.url \in Urls \cup {NoUrl}
      BY DEF TypeOK, RefreshType
    <2>2. CASE r.url # NoUrl
      <3>1. r.url \in Urls /\ EnqueueCoverJob(r.game, r.url)
        BY <1>10, <2>1, <2>2 DEF RefreshQueues
      <3>2. CASE UNCHANGED <<jobs, history>>
        BY <1>10, <3>2 DEF TypeOK, RefreshQueues
      <3>3. CASE jobs' = WithJob(r.game, r.url) /\ Queued(r.game)
        <4>1. history' \in [Games -> HistoryType]
          BY <2>1, <3>3, QueuedType
        <4>2. DOMAIN jobs' \subseteq Games /\ jobs' \in [DOMAIN jobs' -> JobType]
          BY <2>1, <3>1, <3>3, PutJob
        <4>. QED  BY <1>10, <4>1, <4>2 DEF TypeOK, RefreshQueues
      <3>. QED  BY <2>1, <3>1, <3>2, <3>3, Enqueue
    <2>3. CASE r.url = NoUrl
      <3>1. DOMAIN jobs' \subseteq Games /\ jobs' \in [DOMAIN jobs' -> JobType]
        BY <1>10, <2>3, DropJob DEF RefreshQueues, TypeOK, Without
      <3>. QED  BY <1>10, <2>3, <3>1 DEF TypeOK, RefreshQueues
    <2>. QED  BY <2>2, <2>3
  <1>11. ASSUME NEW r \in refreshes, RepairFindsNothing(r) PROVE TypeOK'
    <2>1. DOMAIN jobs' \subseteq Games /\ jobs' \in [DOMAIN jobs' -> JobType]
      BY <1>11, DropJob DEF RepairFindsNothing, TypeOK, Without
    <2>. QED  BY <1>11, <2>1 DEF TypeOK, RepairFindsNothing
  <1>12. ASSUME NEW r \in refreshes, NEW u \in Urls \cup {NoUrl}, RepairStores(r, u) PROVE TypeOK'
    BY <1>12 DEF TypeOK, RepairStores, RefreshType
  <1>13. CASE Prune
    <2>1. DOMAIN jobs' \subseteq Games /\ jobs' \in [DOMAIN jobs' -> JobType]
      <3> DEFINE S == {g \in DOMAIN jobs : InLibrary(g)}
      <3>1. jobs' = Restrict(jobs, S) /\ S \subseteq DOMAIN jobs
        BY <1>13 DEF Prune
      <3>. QED  BY <3>1, DropJob
    <2>. QED  BY <1>13, <2>1 DEF TypeOK, Prune
  <1>14. ASSUME NEW g \in Games, Write(g) PROVE TypeOK'
    <2>1. CASE UNCHANGED <<jobs, history>>
      BY <1>14, <2>1, SpendType DEF TypeOK, Write
    <2>2. CASE games[g].url # NoUrl /\ jobs' = WithJob(g, games[g].url) /\ Queued(g)
      <3>1. games[g].url \in Urls
        BY <2>2 DEF TypeOK
      <3>2. DOMAIN jobs' \subseteq Games /\ jobs' \in [DOMAIN jobs' -> JobType]
        BY <2>2, <3>1, PutJob
      <3>3. history' \in [Games -> HistoryType]
        BY <2>2, QueuedType
      <3>. QED  BY <1>14, <3>2, <3>3, SpendType DEF TypeOK, Write
    <2>. QED  BY <1>14, <2>1, <2>2 DEF Write
  <1>15. ASSUME NEW g \in Games, Remove(g) PROVE TypeOK'
    BY <1>15 DEF TypeOK, Remove
  <1>16. ASSUME NEW g \in Games, Restore(g) PROVE TypeOK'
    <2>1. library' \in [Games -> {"never", "in", "removed"}]
      BY <1>16 DEF TypeOK, Restore
    <2>. QED  BY <1>16, <2>1, SpendType DEF TypeOK, Restore
  <1>17. ASSUME NEW g \in Games, Expire(g) PROVE TypeOK'
    BY <1>17 DEF TypeOK, Expire, JobType
  <1>18. CASE Shutdown
    BY <1>18 DEF TypeOK, Shutdown
  <1>19. CASE Stopped
    BY <1>19 DEF TypeOK, Stopped
  <1>20. CASE Crash
    BY <1>20 DEF TypeOK, Crash, At, HistoryType
  <1>21. CASE Restart
    <2>1. files' \in [Games -> Urls \cup {NoUrl}]
      BY <1>21 DEF TypeOK, Restart
    <2>2. slots' \in [Slots -> DownloadType \cup {Free}] /\ refreshes' \subseteq RefreshType
      BY <1>21 DEF Restart
    <2>. QED  BY <1>21, <2>1, <2>2, SpendType DEF TypeOK, Restart, At
  <1>. QED  BY <1>1, <1>2, <1>3, <1>4, <1>5, <1>6, <1>7, <1>8, <1>9, <1>10, <1>11, <1>12,
               <1>13, <1>14, <1>15, <1>16, <1>17, <1>18, <1>19, <1>20, <1>21
            DEF Next, Coordinate, Catalog

\* Every variable of the cover queue keeps its shape, and an exhausted job is
\* never downloaded, for any games, addresses, slots and number of attempts.
THEOREM TypeCorrect == Spec => []TypeOK
  BY TypeInit, TypeStep, PTL DEF Spec

----------------------------------------------------------------------------
(* Cached paths.                                                           *)

LEMMA PathInit == Init => PathInv
  BY DEF Init, PathInv, PathHasFile, At, Free

\* One step: downloads and the sweep are what matters to the files.
LEMMA PathStep == TypeOK /\ PathInv /\ [Next]_vars => PathInv'
  <1>. SUFFICES ASSUME TypeOK, PathInv, [Next]_vars PROVE PathInv'
    OBVIOUS
  <1>. USE DEF PathInv, PathHasFile, tables, worker
  <1>1. CASE UNCHANGED <<games, files, phase, worker>>
    BY <1>1
  <1>2. CASE Clean
    BY <1>2 DEF TypeOK, Clean, StalePath, Coord, At
  <1>3. CASE Select \/ WaitIdle \/ Leave
    BY <1>3 DEF Select, WaitIdle, Leave, Cancelled, Coord, At
  <1>4. CASE Claim
    <2>1. \A s \in Slots : slots'[s] = slots[s] \/ slots'[s].at = "stat"
      BY <1>4 DEF Claim, TypeOK, Started
    <2>. QED  BY <1>4, <2>1 DEF Claim, Coord, At
  <1>5. ASSUME NEW s \in Slots, Download(s) PROVE PathInv'
    <2>1. slots[s].at # "free" => slots[s] \in DownloadType
      BY DEF TypeOK, Free
    <2>2. CASE Stat(s)
      <3>1. \A t \in Slots : slots'[t] = slots[t] \/ (t = s /\ slots'[t].game = slots[t].game)
        BY <2>1, <2>2 DEF Stat, To, TypeOK, DownloadType
      <3>2. slots'[s].at = "complete" => files[slots[s].game] # NoUrl
        BY <2>1, <2>2 DEF Stat, To, TypeOK, DownloadType
      <3>. QED  BY <2>2, <3>1, <3>2 DEF Stat
    <2>3. CASE Fetch(s)
      <3>1. slots[s].url \in Urls /\ slots[s].url # NoUrl /\ slots[s].game \in Games
        BY <2>1, <2>3, UrlsAssumption DEF Fetch, DownloadType
      <3>2. \A t \in Slots : slots'[t].game = slots[t].game /\ (t # s => slots'[t].at = slots[t].at)
        BY <2>1, <2>3 DEF Fetch, To, TypeOK, DownloadType
      <3>3. CASE UNCHANGED files /\ slots'[s].at # "complete"
        BY <2>3, <3>2, <3>3 DEF Fetch
      <3>4. CASE files' = [files EXCEPT ![slots[s].game] = slots[s].url]
        <4>1. \A g \in Games : files[g] # NoUrl => files'[g] # NoUrl
          BY <3>1, <3>4 DEF TypeOK
        <4>2. files'[slots[s].game] # NoUrl
          BY <3>1, <3>4 DEF TypeOK
        <4>3. \A t \in Slots : slots[t].at = "complete" => slots[t].game \in Games
          BY DEF TypeOK, Free, DownloadType
        <4>. QED  BY <2>3, <3>2, <4>1, <4>2, <4>3 DEF Fetch
      <3>. QED  BY <2>1, <2>3, <3>3, <3>4 DEF Fetch, To, TypeOK, DownloadType
    <2>4. CASE Complete(s)
      <3>1. files[slots[s].game] # NoUrl
        BY <2>4 DEF Complete
      <3>2. \A t \in Slots : slots'[t].at = "complete" => slots[t].at = "complete" /\ slots'[t].game = slots[t].game
        BY <2>1, <2>4 DEF Complete, To, TypeOK, DownloadType
      <3>3. \A g \in Games : games'[g].cached => games[g].cached \/ g = slots[s].game
        BY <2>4 DEF Complete, TypeOK
      <3>. QED  BY <2>4, <3>1, <3>2, <3>3 DEF Complete
    <2>5. CASE Fail(s)
      BY <2>1, <2>5 DEF Fail, To, TypeOK, DownloadType
    <2>6. CASE End(s)
      BY <2>6 DEF End, SlotFreed, Free, TypeOK
    <2>. QED  BY <1>5, <2>2, <2>3, <2>4, <2>5, <2>6 DEF Download
  <1>6. ASSUME NEW g \in Games, NEW u \in Urls \cup {NoUrl}, games' = [games EXCEPT ![g].url = u],
               UNCHANGED <<files, phase, worker>>
        PROVE  PathInv'
    <2>1. games[g] \in [url : Urls \cup {NoUrl}, cached : BOOLEAN]
      BY DEF TypeOK
    <2>2. [games[g] EXCEPT !.url = u].cached = games[g].cached
      BY <2>1
    <2>3. \A h \in Games : games'[h].cached = games[h].cached
      BY <1>6, <2>2 DEF TypeOK
    <2>. QED  BY <1>6, <2>3
  <1>7. CASE Shutdown \/ Stopped
    BY <1>7 DEF Shutdown, Stopped
  <1>8. CASE Crash \/ Restart
    BY <1>8 DEF Crash, Restart, At, Free
  <1>9. ASSUME NEW g \in Games, List(g) \/ Write(g) \/ Remove(g) \/ Restore(g) \/ Expire(g) PROVE PathInv'
    BY <1>1, <1>9 DEF List, Write, Remove, Restore, Expire
  <1>10. ASSUME NEW r \in refreshes, RefreshQueues(r) \/ RepairFindsNothing(r) PROVE PathInv'
    BY <1>1, <1>10 DEF RefreshQueues, RepairFindsNothing
  <1>11. CASE Prune
    BY <1>1, <1>11 DEF Prune
  <1>12. ASSUME NEW r \in refreshes, NEW u \in Urls \cup {NoUrl}, RepairStores(r, u) PROVE PathInv'
    BY <1>6, <1>12 DEF RepairStores, TypeOK, RefreshType
  <1>13. ASSUME NEW g \in Games, NEW u \in Urls \cup {NoUrl}, Refresh(g, u) PROVE PathInv'
    BY <1>6, <1>13 DEF Refresh
  <1>. QED  BY <1>1, <1>2, <1>3, <1>4, <1>5, <1>6, <1>7, <1>8, <1>9, <1>10, <1>11, <1>12, <1>13
            DEF Next, Coordinate, Catalog, vars

\* From the worker's first sweep on, a cover the pages link to is on disk,
\* whatever downloads, crashes, restores and refreshes interleave.
THEOREM PathsHaveFiles == Spec => []PathHasFile
  <1>1. Init => TypeOK /\ PathInv
    BY TypeInit, PathInit
  <1>2. TypeOK /\ PathInv /\ [Next]_vars => (TypeOK /\ PathInv)'
    BY TypeStep, PathStep
  <1>3. PathInv => PathHasFile
    BY DEF PathInv
  <1>. QED  BY <1>1, <1>2, <1>3, PTL DEF Spec

----------------------------------------------------------------------------
(* Reservations and the number of downloads.                               *)

LEMMA LiveType ==
  ASSUME NEW g
  PROVE  /\ Live(g) \subseteq Busy /\ Busy \subseteq Slots
         /\ IsFiniteSet(Live(g)) /\ Cardinality(Live(g)) \in Nat
         /\ Cardinality(Live(g)) <= Cardinality(Slots)
         /\ Cardinality(Slots) \in Nat
  <1>1. Live(g) \subseteq Busy /\ Busy \subseteq Slots
    BY DEF Live, Busy
  <1>. QED  BY <1>1, SlotsAssumption, FS_Subset, FS_CardinalityType

\* Fewer downloads are no more.
LEMMA LiveShrinks ==
  ASSUME NEW g, Live(g)' \subseteq Live(g)
  PROVE  /\ Cardinality(Live(g)') <= Cardinality(Live(g))
         /\ Cardinality(Live(g)') \in Nat
         /\ \A s \in Live(g) \ Live(g)' : Cardinality(Live(g)') < Cardinality(Live(g))
  <1>1. Cardinality(Live(g)') <= Cardinality(Live(g)) /\ Cardinality(Live(g)') \in Nat
    BY LiveType, FS_Subset, FS_CardinalityType
  <1>2. ASSUME NEW s \in Live(g) \ Live(g)'
        PROVE  Cardinality(Live(g)') < Cardinality(Live(g))
    <2>1. Live(g)' \subseteq Live(g) \ {s}
      BY <1>2
    <2>2. /\ IsFiniteSet(Live(g) \ {s})
          /\ Cardinality(Live(g) \ {s}) = Cardinality(Live(g)) - 1
      BY <1>2, LiveType, FS_RemoveElement
    <2>3. Cardinality(Live(g)') <= Cardinality(Live(g) \ {s})
      BY <2>1, <2>2, FS_Subset
    <2>. QED  BY <1>1, <2>2, <2>3, LiveType
  <1>. QED  BY <1>1, <1>2

\* A step of a download keeps its game; its last one but the release of its
\* slot ends its life.
LEMMA Moved ==
  ASSUME TypeOK, NEW s \in Slots, slots[s].at \notin {"free", "end"},
         NEW p \in {"stat", "fetch", "complete", "fail", "end"}, To(s, p)
  PROVE  /\ s \in Busy /\ slots[s].game \in Games /\ Busy' = Busy
         /\ s \in Live(slots[s].game)
         /\ \A t \in Busy : slots'[t].game = slots[t].game
         /\ \A g : Live(g)' = IF p = "end" THEN Live(g) \ {s} ELSE Live(g)
  <1>1. slots[s] \in DownloadType /\ slots[s] # Free
    BY DEF TypeOK, Free
  <1>2. /\ slots'[s].at = p /\ slots'[s].game = slots[s].game
        /\ \A t \in Slots \ {s} : slots'[t] = slots[t]
    BY <1>1 DEF To, TypeOK, DownloadType
  <1>3. slots'[s] # Free
    BY <1>2 DEF Free
  <1>4. Busy' = Busy /\ s \in Busy
    BY <1>1, <1>2, <1>3 DEF Busy
  <1>5. ASSUME NEW g PROVE Live(g)' = IF p = "end" THEN Live(g) \ {s} ELSE Live(g)
    BY <1>2, <1>4 DEF Live, Busy
  <1>6. s \in Live(slots[s].game)
    BY <1>4 DEF Live
  <1>7. slots[s].game \in Games /\ \A t \in Busy : slots'[t].game = slots[t].game
    BY <1>1, <1>2 DEF Busy, DownloadType
  <1>. QED  BY <1>4, <1>5, <1>6, <1>7

LEMMA QueueInit == Init => OwnerInv /\ SlotInv /\ QueuedInv
  <1>. SUFFICES ASSUME Init PROVE OwnerInv /\ SlotInv /\ QueuedInv
    OBVIOUS
  <1>1. Busy = {} /\ (\A g : Live(g) = {}) /\ DOMAIN jobs = {} /\ coord.at = "clean" /\ phase = "up"
    BY DEF Init, Busy, Live, Free, At
  <1>2. Cardinality({}) = 0
    BY FS_EmptySet
  <1>3. \A g \in Games : history[g].queued = 0
    BY DEF Init
  <1>4. OwnerInv /\ SlotInv
    BY <1>1 DEF OwnerInv, SlotInv
  <1>5. QueuedInv
    <2>1. \A g : Cardinality(Live(g)) = 0
      BY <1>1, <1>2, Zenon
    <2>2. \A g \in Games : ~Selected(g) /\ ~Unreserved(g) /\ g \notin DOMAIN jobs
      BY <1>1 DEF Selected, Unreserved
    <2>. QED  BY <1>3, <2>1, <2>2 DEF QueuedInv
  <1>. QED  BY <1>4, <1>5

\* Steps that touch neither the downloads nor the process: each job is as it
\* was, released or dropped, and only queueing adds one.
LEMMA JobsStep ==
  ASSUME TypeOK, OwnerInv, SlotInv, QueuedInv,
         UNCHANGED <<phase, slots, history>>, coord'.at # "claim" \/ UNCHANGED coord,
         DOMAIN jobs' \subseteq DOMAIN jobs,
         \A g \in DOMAIN jobs' : jobs'[g].next = "reserved" => jobs[g].next = "reserved",
         \A g \in DOMAIN jobs' : jobs[g].next = "reserved" /\ jobs'[g].next # "reserved" => Live(g) = {}
  PROVE  OwnerInv' /\ SlotInv' /\ QueuedInv'
  <1>1. Busy' = Busy /\ \A g : Live(g)' = Live(g)
    BY DEF Live, Busy
  <1>2. Cardinality({}) = 0
    BY FS_EmptySet
  <1>3. \A g \in Games : history[g].queued \in Nat
    BY DEF TypeOK, HistoryType
  <1>4. OwnerInv'
    BY <1>1 DEF OwnerInv
  <1>5. SlotInv'
    BY <1>1 DEF SlotInv
  <1>6. ASSUME NEW g \in Games, history[g].queued # Cardinality(Slots)
        PROVE  /\ Cardinality(Live(g)) <= history[g].queued
               /\ g \in DOMAIN jobs' => history[g].queued > 0
               /\ phase = "up" /\ (Selected(g)' \/ Unreserved(g)') => Cardinality(Live(g)) < history[g].queued
    <2>1. Selected(g)' => Selected(g)
      BY DEF Selected
    <2>2. Unreserved(g)' => Unreserved(g) \/ (Live(g) = {} /\ g \in DOMAIN jobs)
      BY DEF Unreserved
    <2>. QED  BY <1>2, <1>3, <1>6, <2>1, <2>2 DEF QueuedInv
  <1>7. QueuedInv'
    BY <1>1, <1>6 DEF QueuedInv
  <1>. QED  BY <1>4, <1>5, <1>7

LEMMA QueueingStep ==
  ASSUME TypeOK, TypeOK', OwnerInv, SlotInv, QueuedInv, UNCHANGED <<phase, worker>>,
         NEW g \in Games, NEW u \in Urls, jobs' = WithJob(g, u), Queued(g)
  PROVE  OwnerInv' /\ SlotInv' /\ QueuedInv'
  <1>1. Busy' = Busy /\ \A h : Live(h)' = Live(h)
    BY DEF Live, Busy, worker
  <1>2. /\ DOMAIN jobs' = DOMAIN jobs \cup {g} /\ jobs'[g].next = "due"
        /\ \A h \in DOMAIN jobs \ {g} : jobs'[h] = jobs[h]
    <2>1. Fresh(u).next = "due"
      BY DEF Fresh
    <2>. QED  BY <2>1, PutJob
  <1>3. /\ \A h \in Games \ {g} : history'[h] = history[h]
        /\ history'[g].orphan = history[g].orphan
        /\ history'[g].queued = Cardinality(Slots) \/ history'[g].queued = history[g].queued + 1
    BY QueuedType
  <1>4. OwnerInv'
    <2>1. \A h \in DOMAIN jobs' : jobs'[h].next = "reserved" =>
            h \in DOMAIN jobs /\ jobs[h].next = "reserved" /\ history'[h].orphan = history[h].orphan
      BY <1>2, <1>3 DEF TypeOK
    <2>. QED  BY <1>1, <2>1 DEF OwnerInv, worker
  <1>5. SlotInv'
    BY <1>1 DEF SlotInv, worker
  <1>6. ASSUME NEW h \in Games, history'[h].queued # Cardinality(Slots)
        PROVE  /\ Cardinality(Live(h)) <= history'[h].queued
               /\ h \in DOMAIN jobs' => history'[h].queued > 0
               /\ phase = "up" /\ (Selected(h)' \/ Unreserved(h)') => Cardinality(Live(h)) < history'[h].queued
    <2>1. history[h].queued \in 0..Cardinality(Slots) /\ history'[h].queued \in 0..Cardinality(Slots)
      BY DEF TypeOK, HistoryType
    <2>2. Cardinality(Live(h)) \in Nat /\ Cardinality(Slots) \in Nat
      BY LiveType
    <2>3. CASE h = g
      <3>1. history'[g].queued = history[g].queued + 1 /\ history[g].queued # Cardinality(Slots)
        BY <1>3, <1>6, <2>1, <2>2, <2>3
      <3>2. Cardinality(Live(g)) <= history[g].queued
        BY <3>1 DEF QueuedInv
      <3>. QED  BY <2>1, <2>2, <2>3, <3>1, <3>2
    <2>4. CASE h # g
      <3>1. Selected(h)' = Selected(h) /\ Unreserved(h)' = Unreserved(h) /\ (h \in DOMAIN jobs' <=> h \in DOMAIN jobs)
        BY <1>2, <2>4 DEF Selected, Unreserved, worker
      <3>. QED  BY <1>3, <1>6, <2>4, <3>1 DEF QueuedInv
    <2>. QED  BY <2>3, <2>4
  <1>7. QueuedInv'
    BY <1>1, <1>6 DEF QueuedInv, worker
  <1>. QED  BY <1>4, <1>5, <1>7

LEMMA DownloadStep ==
  ASSUME TypeOK, OwnerInv, SlotInv, QueuedInv, NEW s \in Slots, Download(s)
  PROVE  OwnerInv' /\ SlotInv' /\ QueuedInv'
  <1>1. UNCHANGED <<phase, coord, history>>
    BY DEF Download, Stat, Fetch, Complete, Fail, End, tables
  <1>2. s \in Busy
    BY DEF Download, Stat, Fetch, Complete, Fail, End, Busy, Free
  <1>3. phase \in {"up", "stopping"} /\ slots[s] \in DownloadType
    BY <1>2 DEF OwnerInv, TypeOK, Busy
  <1>g. PICK g \in Games : g = slots[s].game
    BY <1>3 DEF DownloadType
  <1>4. \A h \in Games \ {g} : s \notin Live(h)
    BY <1>g DEF Live
  \* It is enough to know what the step leaves of the job and the download.
  <1>5. SUFFICES
          /\ Busy' \subseteq Busy /\ \A t \in Busy' : slots'[t].game = slots[t].game
          /\ \A h \in Games : Live(h)' \subseteq Live(h)
          /\ \A h \in Games \ {g} : Live(h)' = Live(h)
          /\ Busy' = Busy \/ Busy' = Busy \ {s}
          /\ DOMAIN jobs' \subseteq DOMAIN jobs
          /\ \A h \in DOMAIN jobs' \ {g} : jobs'[h] = jobs[h]
          /\ g \in DOMAIN jobs' =>
               \/ /\ jobs'[g].next # "reserved"
                  /\ phase = "up" => s \notin Live(g)' /\ s \in Live(g)
               \/ /\ jobs'[g] = jobs[g]
                  /\ phase = "up" => Live(g)' = Live(g)
                  /\ phase = "stopping" => Busy' = Busy
    PROOF
    <2>1. OwnerInv'
      <3>1. phase \in {"stopped", "down"} => Busy' = {}
        BY <1>3
      <3>2. ASSUME NEW h \in DOMAIN jobs', jobs'[h].next = "reserved"
            PROVE  /\ jobs[h].next = "reserved"
                   /\ phase = "up" => Live(h)' = Live(h)
                   /\ phase = "stopping" => \A t \in Busy : slots[t].game = h => t \in Busy'
        <4>1. h \in Games
          BY <1>5 DEF TypeOK
        <4>2. CASE h = g
          BY <1>5, <3>2, <4>2
        <4>3. CASE h # g
          BY <1>5, <1>g, <3>2, <4>1, <4>3
        <4>. QED  BY <4>2, <4>3
      <3>. QED  BY <1>1, <1>3, <1>5, <3>2 DEF OwnerInv
    <2>2. SlotInv'
      BY <1>1, <1>5 DEF SlotInv, Busy
    <2>3. QueuedInv'
      <3>1. ASSUME NEW h \in Games, history[h].queued # Cardinality(Slots)
            PROVE  /\ Cardinality(Live(h)') <= history[h].queued
                   /\ h \in DOMAIN jobs' => history[h].queued > 0
                   /\ phase = "up" /\ (Selected(h)' \/ Unreserved(h)') => Cardinality(Live(h)') < history[h].queued
        <4>1. /\ Cardinality(Live(h)') <= Cardinality(Live(h))
              /\ Cardinality(Live(h)') \in Nat /\ Cardinality(Live(h)) \in Nat
              /\ \A t \in Live(h) \ Live(h)' : Cardinality(Live(h)') < Cardinality(Live(h))
          BY <1>5, LiveShrinks, LiveType
        <4>2. history[h].queued \in Nat
          BY DEF TypeOK, HistoryType
        <4>3. Selected(h)' = Selected(h)
          BY <1>1 DEF Selected
        <4>4. phase = "up" /\ Unreserved(h)' => Unreserved(h) \/ s \in Live(h) \ Live(h)'
          <5>1. CASE h = g
            BY <1>5, <5>1 DEF Unreserved
          <5>2. CASE h # g
            BY <1>5, <5>2 DEF Unreserved
          <5>. QED  BY <5>1, <5>2
        <4>. QED  BY <1>5, <3>1, <4>1, <4>2, <4>3, <4>4 DEF QueuedInv
      <3>. QED  BY <1>1, <3>1 DEF QueuedInv
    <2>. QED  BY <2>1, <2>2, <2>3
  <1>6. ASSUME NEW p \in {"stat", "fetch", "complete", "fail", "end"}, To(s, p),
               slots[s].at \notin {"free", "end"}
        PROVE  /\ Busy' = Busy /\ \A t \in Busy : slots'[t].game = slots[t].game
               /\ \A h \in Games : Live(h)' \subseteq Live(h)
               /\ \A h \in Games \ {g} : Live(h)' = Live(h)
               /\ s \in Live(g) /\ (p # "end" => Live(g)' = Live(g))
               /\ p = "end" => s \notin Live(g)'
    <2>1. /\ Busy' = Busy /\ \A t \in Busy : slots'[t].game = slots[t].game
          /\ s \in Live(g)
          /\ \A h : Live(h)' = IF p = "end" THEN Live(h) \ {s} ELSE Live(h)
      BY <1>6, <1>g, Moved
    <2>. QED  BY <1>3, <1>4, <2>1
  <1>7. CASE Stat(s) \/ Fetch(s)
    <2>1. PICK p \in {"stat", "fetch", "complete", "fail", "end"} :
            To(s, p) /\ (phase = "up" => p # "end")
      BY <1>7 DEF Stat, Fetch, Cancelled
    <2>2. UNCHANGED jobs /\ slots[s].at \notin {"free", "end"}
      BY <1>7 DEF Stat, Fetch, tables
    <2>. QED  BY <1>6, <2>1, <2>2
  <1>8. CASE Complete(s)
    <2>1. slots[s].at \notin {"free", "end"}
      BY <1>8 DEF Complete
    <2>2. CASE ~Cancelled /\ jobs' = Without(jobs, {g}) /\ To(s, "end")
      <3>1. DOMAIN jobs' = DOMAIN jobs \ {g} /\ \A h \in DOMAIN jobs' : jobs'[h] = jobs[h]
        BY <2>2, DropJob DEF Without
      <3>. QED  BY <1>6, <2>1, <2>2, <3>1
    <2>3. CASE To(s, IF Cancelled THEN "end" ELSE "fail") /\ UNCHANGED jobs
      <3>1. PICK p \in {"fail", "end"} : To(s, p) /\ (phase = "up" => p # "end")
        BY <2>3 DEF Cancelled
      <3>. QED  BY <1>6, <2>1, <2>3, <3>1
    <2>. QED  BY <1>8, <1>g, <2>2, <2>3 DEF Complete
  <1>9. CASE Fail(s)
    <2>1. slots[s].at \notin {"free", "end"} /\ To(s, "end")
      BY <1>9 DEF Fail
    <2>2. CASE g \in DOMAIN jobs /\ ~Cancelled
      <3>1. DOMAIN jobs' = DOMAIN jobs /\ jobs'[g].next # "reserved" /\ \A h \in DOMAIN jobs \ {g} : jobs'[h] = jobs[h]
        BY <1>9, <1>g, <2>2 DEF Fail, TypeOK, JobType
      <3>. QED  BY <1>6, <2>1, <3>1
    <2>3. CASE ~(g \in DOMAIN jobs /\ ~Cancelled)
      <3>1. UNCHANGED jobs
        BY <1>9, <1>g, <2>3 DEF Fail
      <3>. QED  BY <1>6, <2>1, <2>3, <3>1 DEF Cancelled
    <2>. QED  BY <2>2, <2>3
  <1>10. CASE End(s)
    <2>1. Busy' = Busy \ {s} /\ \A t \in Busy' : slots'[t] = slots[t]
      BY <1>10 DEF End, SlotFreed, Busy, TypeOK
    <2>2. \A h \in Games : Live(h)' = Live(h)
      BY <1>10, <2>1 DEF Live, End
    <2>3. CASE phase = "up"
      <3>1. UNCHANGED jobs
        BY <1>10, <2>3 DEF End, Released, Cancelled
      <3>. QED  BY <1>3, <2>1, <2>2, <2>3, <3>1
    <2>4. CASE phase = "stopping"
      <3>1. DOMAIN jobs' = DOMAIN jobs /\ (g \in DOMAIN jobs => jobs'[g].next = "due")
            /\ \A h \in DOMAIN jobs \ {g} : jobs'[h] = jobs[h]
        BY <1>10, <1>g, <2>4 DEF End, Released, Cancelled, TypeOK, JobType
      <3>. QED  BY <1>3, <2>1, <2>2, <2>4, <3>1
    <2>. QED  BY <1>3, <2>3, <2>4
  <1>. QED  BY <1>7, <1>8, <1>9, <1>10 DEF Download

LEMMA ClaimStep ==
  ASSUME TypeOK, OwnerInv, SlotInv, QueuedInv, Claim
  PROVE  OwnerInv' /\ SlotInv' /\ QueuedInv'
  <1>1. PICK g \in Games : g = coord.job.game
    BY DEF Claim, TypeOK, SelectedType
  <1>2. PICK free \in Slots \ Busy : slots' = [slots EXCEPT ![free] = Started(coord.job)]
    BY FreeSlot DEF Claim, SlotInv
  <1>3. phase = "up" /\ phase' = "up" /\ coord.at = "claim" /\ coord'.at = "select"
    BY DEF Claim, Coord, At
  <1>4. /\ DOMAIN jobs' = DOMAIN jobs
        /\ g \in DOMAIN jobs => jobs'[g].next = "reserved"
        /\ \A h \in DOMAIN jobs \ {g} : jobs'[h] = jobs[h]
    BY <1>1 DEF Claim, ReservedJobs, TypeOK, JobType
  <1>5. \A h \in Games : history'[h].queued = history[h].queued /\ history'[h].orphan = history[h].orphan
    <2>1. UNCHANGED history \/ history' = [history EXCEPT ![g].tried = UpTo(MaxAttempts, @)]
      BY <1>1 DEF Claim
    <2>2. history[g] \in HistoryType /\ history \in [Games -> HistoryType]
      BY DEF TypeOK
    <2>3. \A x : [history[g] EXCEPT !.tried = x].queued = history[g].queued
                /\ [history[g] EXCEPT !.tried = x].orphan = history[g].orphan
      BY <2>2 DEF HistoryType
    <2>. QED  BY <2>1, <2>2, <2>3
  <1>6. slots'[free].game = g /\ slots'[free].at = "stat" /\ \A t \in Slots \ {free} : slots'[t] = slots[t]
    BY <1>1, <1>2 DEF Started, TypeOK
  <1>7. slots'[free] # Free
    BY <1>6 DEF Free
  <1>8. Busy' = Busy \cup {free}
    BY <1>6, <1>7 DEF Busy
  <1>9. Live(g)' = Live(g) \cup {free} /\ free \notin Live(g)
    BY <1>2, <1>6, <1>8 DEF Live
  <1>10. \A h \in Games \ {g} : Live(h)' = Live(h)
    BY <1>2, <1>6, <1>8 DEF Live
  <1>11. OwnerInv'
    <2>1. ASSUME NEW h \in DOMAIN jobs', jobs'[h].next = "reserved"
          PROVE  history'[h].orphan \/ Live(h)' # {}
      <3>1. h \in Games
        BY <1>4 DEF TypeOK
      <3>2. CASE h = g
        BY <1>9, <3>2
      <3>3. CASE h # g
        BY <1>3, <1>4, <1>5, <1>10, <2>1, <3>1, <3>3 DEF OwnerInv
      <3>. QED  BY <3>2, <3>3
    <2>. QED  BY <1>3, <2>1 DEF OwnerInv
  <1>12. SlotInv'
    BY <1>3 DEF SlotInv
  <1>13. QueuedInv'
    <2>1. ASSUME NEW h \in Games, history[h].queued # Cardinality(Slots)
          PROVE  /\ Cardinality(Live(h)') <= history[h].queued
                 /\ h \in DOMAIN jobs' => history[h].queued > 0
                 /\ phase' = "up" /\ (Selected(h)' \/ Unreserved(h)') => Cardinality(Live(h)') < history[h].queued
      <3>1. ~Selected(h)' /\ history[h].queued \in Nat
        BY <1>3 DEF Selected, TypeOK, HistoryType
      <3>2. CASE h = g
        <4>1. Cardinality(Live(g)) < history[g].queued
          BY <1>1, <1>3, <2>1, <3>2 DEF QueuedInv, Selected
        <4>2. Cardinality(Live(g)') = Cardinality(Live(g)) + 1 /\ Cardinality(Live(g)) \in Nat
          BY <1>9, LiveType, FS_AddElement
        <4>3. ~Unreserved(g)'
          BY <1>4 DEF Unreserved
        <4>. QED  BY <2>1, <3>1, <3>2, <4>1, <4>2, <4>3, <1>4 DEF QueuedInv
      <3>3. CASE h # g
        <4>1. Unreserved(h)' = Unreserved(h) /\ Live(h)' = Live(h)
          BY <1>4, <1>10, <3>3 DEF Unreserved
        <4>. QED  BY <1>3, <1>4, <2>1, <3>1, <4>1 DEF QueuedInv
      <3>. QED  BY <3>2, <3>3
    <2>. QED  BY <1>5, <2>1 DEF QueuedInv
  <1>. QED  BY <1>11, <1>12, <1>13

LEMMA ProcessStep ==
  ASSUME TypeOK, TypeOK', OwnerInv, SlotInv, QueuedInv, Shutdown \/ Stopped \/ Crash \/ Restart
  PROVE  OwnerInv' /\ SlotInv' /\ QueuedInv'
  <1>. USE DEF tables, worker
  <1>0. \A g \in Games : history'[g].queued = history[g].queued
    BY DEF Shutdown, Stopped, Crash, Restart, TypeOK, HistoryType
  <1>1. CASE Shutdown \/ Stopped
    <2>1. Busy' = Busy /\ \A g : Live(g)' = Live(g)
      BY <1>1 DEF Shutdown, Stopped, Busy, Live
    <2>2. \A g : Live(g) # {} => \E s \in Busy : slots[s].game = g
      BY DEF Live
    <2>3. OwnerInv'
      BY <1>1, <2>1, <2>2 DEF Shutdown, Stopped, OwnerInv
    <2>4. SlotInv' /\ QueuedInv'
      BY <1>1, <2>1 DEF Shutdown, Stopped, SlotInv, QueuedInv, Selected, Unreserved
    <2>. QED  BY <2>3, <2>4
  <1>2. CASE Crash \/ Restart
    <2>1. slots' = [s \in Slots |-> Free] /\ coord'.at = "clean" /\ UNCHANGED jobs
      BY <1>2 DEF Crash, Restart, At
    <2>2. Busy' = {} /\ \A g : Live(g)' = {}
      BY <2>1 DEF Busy, Live
    <2>3. \A g \in DOMAIN jobs : jobs[g].next = "reserved" => history'[g].orphan
      <3>1. CASE Crash
        BY <3>1 DEF Crash, TypeOK, HistoryType
      <3>2. CASE Restart
        <4>1. Busy = {} /\ \A g : Live(g) = {}
          BY <3>2 DEF Restart, OwnerInv, Live
        <4>. QED  BY <3>2, <4>1 DEF Restart, OwnerInv
      <3>. QED  BY <1>2, <3>1, <3>2
    <2>4. \A g : Cardinality(Live(g)') = 0
      BY <2>2, FS_EmptySet, Zenon
    <2>5. \A g \in Games : history'[g].queued \in Nat /\ ~Selected(g)'
      BY <2>1 DEF TypeOK, HistoryType, Selected
    <2>6. OwnerInv' /\ SlotInv'
      BY <2>1, <2>2, <2>3 DEF OwnerInv, SlotInv
    <2>7. QueuedInv'
      BY <1>0, <2>1, <2>4, <2>5 DEF QueuedInv, Unreserved
    <2>. QED  BY <2>6, <2>7
  <1>. QED  BY <1>1, <1>2

LEMMA SelectStep ==
  ASSUME TypeOK, OwnerInv, SlotInv, QueuedInv, Select
  PROVE  OwnerInv' /\ SlotInv' /\ QueuedInv'
  <1>1. Busy' = Busy /\ \A g : Live(g)' = Live(g)
    BY DEF Select, Busy, Live
  <1>2. Busy # Slots /\ UNCHANGED <<jobs, history, phase>>
    BY DEF Select, tables
  <1>3. \A g : Selected(g)' => Unreserved(g)
    BY DEF Select, Selected, Unreserved, Claimable, Coord, At
  <1>4. OwnerInv' /\ SlotInv'
    BY <1>1, <1>2 DEF OwnerInv, SlotInv, Select
  <1>5. QueuedInv'
    BY <1>1, <1>2, <1>3 DEF QueuedInv, Unreserved
  <1>. QED  BY <1>4, <1>5

LEMMA QueueStep ==
  TypeOK /\ TypeOK' /\ OwnerInv /\ SlotInv /\ QueuedInv /\ [Next]_vars
    => OwnerInv' /\ SlotInv' /\ QueuedInv'
  <1>. SUFFICES ASSUME TypeOK, TypeOK', OwnerInv, SlotInv, QueuedInv, [Next]_vars
                PROVE  OwnerInv' /\ SlotInv' /\ QueuedInv'
    OBVIOUS
  <1>. USE DEF tables, worker
  <1>1. CASE UNCHANGED <<jobs, phase, worker, history>>
    BY <1>1, JobsStep
  <1>2. CASE Clean \/ WaitIdle \/ Leave
    <2>1. UNCHANGED <<jobs, phase, slots, history>> /\ coord'.at # "claim"
      BY <1>2 DEF Clean, WaitIdle, Leave, Coord, At
    <2>. QED  BY <2>1, JobsStep
  <1>3. ASSUME NEW S, jobs' = Restrict(jobs, S), S \subseteq DOMAIN jobs,
               UNCHANGED <<phase, worker, history>>
        PROVE  OwnerInv' /\ SlotInv' /\ QueuedInv'
    <2>1. DOMAIN jobs' = S /\ \A h \in S : jobs'[h] = jobs[h]
      BY <1>3, DropJob
    <2>. QED  BY <1>3, <2>1, JobsStep
  <1>4. CASE Prune
    <2> DEFINE S == {g \in DOMAIN jobs : InLibrary(g)}
    <2>1. jobs' = Restrict(jobs, S) /\ S \subseteq DOMAIN jobs /\ UNCHANGED <<phase, worker, history>>
      BY <1>4 DEF Prune
    <2>. QED  BY <1>3, <2>1
  <1>5. ASSUME NEW r \in refreshes, RepairFindsNothing(r) PROVE OwnerInv' /\ SlotInv' /\ QueuedInv'
    BY <1>3, <1>5 DEF RepairFindsNothing, Without
  <1>6. ASSUME NEW r \in refreshes, RefreshQueues(r) PROVE OwnerInv' /\ SlotInv' /\ QueuedInv'
    <2>1. r.game \in Games /\ r.url \in Urls \cup {NoUrl} /\ UNCHANGED <<phase, worker>>
      BY <1>6 DEF TypeOK, RefreshType, RefreshQueues
    <2>2. CASE r.url # NoUrl
      <3>1. r.url \in Urls /\ EnqueueCoverJob(r.game, r.url)
        BY <1>6, <2>1, <2>2 DEF RefreshQueues
      <3>. QED  BY <1>1, <2>1, <3>1, Enqueue, QueueingStep
    <2>3. CASE r.url = NoUrl
      <3>1. UNCHANGED history /\ (UNCHANGED jobs \/ jobs' = Without(jobs, {r.game}))
        BY <1>6, <2>3 DEF RefreshQueues
      <3>. QED  BY <1>1, <1>3, <2>1, <3>1 DEF Without
    <2>. QED  BY <2>2, <2>3
  <1>7. ASSUME NEW g \in Games, Write(g) PROVE OwnerInv' /\ SlotInv' /\ QueuedInv'
    <2>1. CASE UNCHANGED <<jobs, history>>
      BY <1>1, <1>7, <2>1 DEF Write
    <2>2. CASE games[g].url # NoUrl /\ jobs' = WithJob(g, games[g].url) /\ Queued(g)
      <3>1. games[g].url \in Urls /\ UNCHANGED <<phase, worker>>
        BY <1>7, <2>2 DEF Write, TypeOK
      <3>. QED  BY <2>2, <3>1, QueueingStep
    <2>. QED  BY <1>7, <2>1, <2>2 DEF Write
  <1>8. ASSUME NEW g \in Games, Expire(g) PROVE OwnerInv' /\ SlotInv' /\ QueuedInv'
    <2>1. /\ DOMAIN jobs' = DOMAIN jobs /\ g \in DOMAIN jobs /\ jobs'[g].next = "due"
          /\ \A h \in DOMAIN jobs \ {g} : jobs'[h] = jobs[h]
      BY <1>8 DEF Expire, TypeOK, JobType
    <2>2. jobs[g].next = "reserved" => Live(g) = {}
      BY <1>8 DEF Expire, Live
    <2>3. UNCHANGED <<phase, worker, history>>
      BY <1>8 DEF Expire
    <2>. QED  BY <2>1, <2>2, <2>3, JobsStep
  <1>9. ASSUME NEW g \in Games, Remove(g) \/ Restore(g) \/ List(g) \/ \E u \in Urls \cup {NoUrl} : Refresh(g, u)
        PROVE  OwnerInv' /\ SlotInv' /\ QueuedInv'
    BY <1>1, <1>9 DEF Remove, Restore, List, Refresh
  <1>10. ASSUME NEW r \in refreshes, NEW u \in Urls \cup {NoUrl}, RepairStores(r, u)
         PROVE  OwnerInv' /\ SlotInv' /\ QueuedInv'
    BY <1>1, <1>10 DEF RepairStores
  <1>11. CASE UNCHANGED vars
    BY <1>1, <1>11 DEF vars
  <1>. QED  BY <1>2, <1>4, <1>5, <1>6, <1>7, <1>8, <1>9, <1>10, <1>11,
               SelectStep, ClaimStep, DownloadStep, ProcessStep
            DEF Next, Coordinate, Catalog

\* A reserved job always has a download that will release it, unless a crash
\* took it, and no game is downloaded more often at once than it was queued.
THEOREM ReservationsHaveOwners == Spec => []ReservationHasOwner
  <1>1. Init => TypeOK /\ OwnerInv /\ SlotInv /\ QueuedInv
    BY TypeInit, QueueInit
  <1>2. TypeOK /\ OwnerInv /\ SlotInv /\ QueuedInv /\ [Next]_vars
          => (TypeOK /\ OwnerInv /\ SlotInv /\ QueuedInv)'
    BY TypeStep, QueueStep
  <1>3. TypeOK /\ OwnerInv /\ QueuedInv => ReservationHasOwner
    <2>. SUFFICES ASSUME TypeOK, OwnerInv, QueuedInv PROVE ReservationHasOwner
      OBVIOUS
    <2>1. \A g : Live(g) # {} => \E s \in Busy : slots[s].game = g
      BY DEF Live
    <2>2. \A g \in Games : Cardinality(Live(g)) <= history[g].queued
      BY LiveType DEF QueuedInv
    <2>. QED  BY <2>1, <2>2 DEF OwnerInv, ReservationHasOwner
  <1>. QED  BY <1>1, <1>2, <1>3, PTL DEF Spec
=============================================================================
