------------------------------- MODULE Catalog -------------------------------
(***************************************************************************)
(* The catalog's search cache: a search answers from the local catalog and *)
(* asks IGDB in the background when the query's cache row has expired; a   *)
(* daily job refreshes expired rows; a shutdown waits for the workers.     *)
(*                                                                         *)
(* A query and whether editions are included is one key.                   *)
(***************************************************************************)
EXTENDS Integers, FiniteSets

CONSTANTS
  Queries,     \* cache keys
  Searches,    \* HTTP requests that search
  Workers,     \* goroutines a refresh can run in
  Slots        \* refreshes at once (2)

VARIABLES
  cache,       \* igdb_query_cache: none, fresh or expired
  asking,      \* search -> the query it is about to refresh, or None
  refreshing,  \* s.refreshing
  slots,       \* s.refreshSlots: slots taken
  workers,     \* worker -> where it is
  sweep,       \* the query-cache job: the keys left, or Resting
  details,     \* EnsureDetails' background fetch is on
  stopping,    \* s.stopping
  stopped,     \* s.stopped is closed: Shutdown returned, the database closes
  hush         \* history: queries whose last request failed, in time, less than an hour ago

catalogVars == <<cache, asking, refreshing, slots, workers, sweep, details, stopping, stopped, hush>>

None == "none"
Resting == [pc |-> "idle"]
Busy == {w \in Workers : workers[w] # Resting}
Idle == CHOOSE w \in Workers : w \notin Busy
----------------------------------------------------------------------------
(* A search.                                                               *)

\* shouldAskIGDB: no fresh row, whatever refresh is on.
Search(s, q) ==
  /\ ~stopped /\ asking[s] = None /\ cache[q] # "fresh"
  /\ asking' = [asking EXCEPT ![s] = q]
  /\ UNCHANGED <<cache, refreshing, slots, workers, sweep, details, stopping, stopped, hush>>

\* Slip: a refresh that finds no slot leaves its key reserved.
StartLeaky(s) ==
  LET q == asking[s]
  IN  /\ q # None
      /\ asking' = [asking EXCEPT ![s] = None]
      /\ IF stopping \/ q \in refreshing THEN UNCHANGED <<refreshing, slots, workers>>
         ELSE /\ refreshing' = refreshing \cup {q}
              /\ IF slots = Slots THEN UNCHANGED <<slots, workers>>
                 ELSE /\ slots' = slots + 1
                      /\ workers' = [workers EXCEPT ![Idle] = [pc |-> "fetch", key |-> q, late |-> FALSE]]
      /\ UNCHANGED <<cache, sweep, details, stopping, stopped, hush>>

\* startAsyncRefresh, admitted under lifecycleMu: the key is reserved, and
\* given back when both slots are taken.
StartAsyncRefresh(s) ==
  LET q == asking[s]
  IN  /\ q # None
      /\ asking' = [asking EXCEPT ![s] = None]
      /\ IF stopping \/ q \in refreshing \/ slots = Slots THEN UNCHANGED <<refreshing, slots, workers>>
         ELSE /\ refreshing' = refreshing \cup {q}
              /\ slots' = slots + 1
              /\ workers' = [workers EXCEPT ![Idle] = [pc |-> "fetch", key |-> q, late |-> FALSE]]
      /\ UNCHANGED <<cache, sweep, details, stopping, stopped, hush>>
----------------------------------------------------------------------------
(* refreshFromIGDB, in a worker (with a deadline) or in the job.           *)

\* The worker's 15 seconds are over.
Deadline(w) ==
  /\ workers[w].pc \in {"fetch", "failed", "found"} /\ ~workers[w].late
  /\ workers' = [workers EXCEPT ![w].late = TRUE]
  /\ UNCHANGED <<cache, asking, refreshing, slots, sweep, details, stopping, stopped, hush>>

\* IGDB's answer: a cancelled request fails.
Fetched(w, answer) ==
  /\ workers[w].pc = "fetch"
  /\ workers[w].late \/ stopping => answer = "failed"
  /\ workers' = [workers EXCEPT ![w].pc = answer]
  /\ UNCHANGED <<cache, asking, refreshing, slots, sweep, details, stopping, stopped, hush>>

\* Both cacheSearchResultsDB and cacheSearchFailureBackoff write a row that is
\* fresh, in a statement under the same context as the fetch.
Cached(q, alive) == IF alive THEN [cache EXCEPT ![q] = "fresh"] ELSE cache

Hushed(q, answer, alive) == IF answer = "failed" /\ alive THEN hush \cup {q} ELSE hush \ {q}

\* Slip: only an answer is kept.
StoreFound(w) ==
  /\ workers[w].pc \in {"failed", "found"}
  /\ cache' = Cached(workers[w].key, workers[w].pc = "found" /\ ~workers[w].late /\ ~stopping)
  /\ workers' = [workers EXCEPT ![w].pc = "slot"]
  /\ hush' = Hushed(workers[w].key, workers[w].pc, ~workers[w].late /\ ~stopping)
  /\ UNCHANGED <<asking, refreshing, slots, sweep, details, stopping, stopped>>

StoreResult(w) ==
  /\ workers[w].pc \in {"failed", "found"}
  /\ cache' = Cached(workers[w].key, ~workers[w].late /\ ~stopping)
  /\ workers' = [workers EXCEPT ![w].pc = "slot"]
  /\ hush' = Hushed(workers[w].key, workers[w].pc, ~workers[w].late /\ ~stopping)
  /\ UNCHANGED <<asking, refreshing, slots, sweep, details, stopping, stopped>>

\* The deferred clean-up: the slot first, then the key and the wait group.
FreeSlot(w) ==
  /\ workers[w].pc = "slot"
  /\ slots' = slots - 1
  /\ workers' = [workers EXCEPT ![w].pc = "key"]
  /\ UNCHANGED <<cache, asking, refreshing, sweep, details, stopping, stopped, hush>>

FreeKey(w) ==
  /\ workers[w].pc = "key"
  /\ refreshing' = refreshing \ {workers[w].key}
  /\ workers' = [workers EXCEPT ![w] = Resting]
  /\ UNCHANGED <<cache, asking, slots, sweep, details, stopping, stopped, hush>>

\* refreshStaleQueries: the job takes the expired rows one after the other.
\* It reserves no key; jobs are stopped before the catalog's database closes.
StartSweep ==
  LET keys == {q \in Queries : cache[q] = "expired"}
  IN  /\ ~stopping /\ sweep = Resting /\ keys # {}
      /\ sweep' = [pc |-> "fetch", todo |-> keys]
      /\ UNCHANGED <<cache, asking, refreshing, slots, workers, details, stopping, stopped, hush>>

Sweep(q, answer) ==
  /\ sweep # Resting /\ q \in sweep.todo
  /\ sweep' = IF stopping \/ sweep.todo = {q} THEN Resting ELSE [sweep EXCEPT !.todo = @ \ {q}]
  /\ cache' = Cached(q, ~stopping)
  /\ hush' = Hushed(q, answer, ~stopping)
  /\ UNCHANGED <<asking, refreshing, slots, workers, details, stopping, stopped>>
----------------------------------------------------------------------------
(* EnsureDetails of a game whose details are stale, time, and shutdown.    *)

StartDetails ==
  /\ ~stopping /\ ~details
  /\ details' = TRUE
  /\ UNCHANGED <<cache, asking, refreshing, slots, workers, sweep, stopping, stopped, hush>>

DetailsDone ==
  /\ details
  /\ details' = FALSE
  /\ UNCHANGED <<cache, asking, refreshing, slots, workers, sweep, stopping, stopped, hush>>

\* A row expires an hour after a failure, a day after an answer.
Expire(q) ==
  /\ cache[q] = "fresh"
  /\ cache' = [cache EXCEPT ![q] = "expired"] /\ hush' = hush \ {q}
  /\ UNCHANGED <<asking, refreshing, slots, workers, sweep, details, stopping, stopped>>

\* PurgeExpiredQueryCache: a month after the row expired.
Purge(q) ==
  /\ cache[q] = "expired"
  /\ cache' = [cache EXCEPT ![q] = "none"]
  /\ UNCHANGED <<asking, refreshing, slots, workers, sweep, details, stopping, stopped, hush>>

\* Shutdown closes the door, then waits for the wait group.
Shutdown ==
  /\ ~stopping
  /\ stopping' = TRUE
  /\ UNCHANGED <<cache, asking, refreshing, slots, workers, sweep, details, stopped, hush>>

WorkersDone ==
  /\ stopping /\ ~stopped /\ Busy = {} /\ ~details
  /\ stopped' = TRUE
  /\ UNCHANGED <<cache, asking, refreshing, slots, workers, sweep, details, stopping, hush>>

CatalogInit ==
  /\ cache = [q \in Queries |-> "none"] /\ asking = [s \in Searches |-> None]
  /\ refreshing = {} /\ slots = 0 /\ workers = [w \in Workers |-> Resting]
  /\ sweep = Resting /\ details = FALSE
  /\ stopping = FALSE /\ stopped = FALSE /\ hush = {}

CatalogNext ==
  \/ \E s \in Searches : StartAsyncRefresh(s) \/ \E q \in Queries : Search(s, q)
  \/ \E w \in Workers : Deadline(w) \/ StoreResult(w) \/ FreeSlot(w) \/ FreeKey(w)
  \/ \E w \in Workers, answer \in {"found", "failed"} : Fetched(w, answer)
  \/ StartSweep \/ \E q \in Queries, answer \in {"found", "failed"} : Sweep(q, answer)
  \/ StartDetails \/ DetailsDone \/ Shutdown \/ WorkersDone
  \/ \E q \in Queries : Expire(q) \/ Purge(q)
----------------------------------------------------------------------------
(* Properties.                                                             *)

CatalogTypeOK ==
  /\ cache \in [Queries -> {"none", "fresh", "expired"}]
  /\ asking \in [Searches -> Queries \cup {None}]
  /\ refreshing \subseteq Queries /\ hush \subseteq Queries /\ slots \in 0..Slots
  /\ \A w \in Workers : workers[w].pc \in {"idle", "fetch", "failed", "found", "slot", "key"}
  /\ \A b \in {details, stopping, stopped} : b \in BOOLEAN

\* Every reserved query has exactly one worker that will give it back, so
\* that a refresh that was dropped, failed or ran out of time can be asked for
\* again; a slot is held by a worker; and once Shutdown returned none is left
\* and none starts, whatever searches came while it waited.
CatalogSettles ==
  /\ \A q \in Queries : Cardinality({w \in Busy : workers[w].key = q}) = IF q \in refreshing THEN 1 ELSE 0
  /\ slots = Cardinality({w \in Busy : workers[w].pc # "key"})
  /\ stopped => Busy = {} /\ ~details

\* "On IGDB failure ... its expiry is pushed by 1 hour to avoid hammering the
\* API" (refreshFromIGDB): no search asks for a query again within the hour,
\* whatever else stored or dropped its row meanwhile; but a request that ran
\* into the deadline is not backed off, for the statement that would do it is
\* under the same deadline.
FailureBacksOff == \A q \in hush : cache[q] = "fresh"
----------------------------------------------------------------------------
(* What the steps preserve.                                                *)

Refreshes == [pc : {"fetch", "failed", "found", "slot", "key"}, key : Queries, late : BOOLEAN]
Holding == {w \in Busy : workers[w].pc # "key"}

\* The workers at work and the reserved keys are one to one.
CatalogInv ==
  /\ CatalogTypeOK
  /\ workers \in [Workers -> {Resting} \cup Refreshes]
  /\ \A v, w \in Busy : workers[v].key = workers[w].key => v = w
  /\ refreshing = {workers[w].key : w \in Busy}
  /\ slots = Cardinality(Holding)
  /\ stopped => stopping /\ Busy = {} /\ ~details
  /\ FailureBacksOff
=============================================================================
