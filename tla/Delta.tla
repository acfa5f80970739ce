-------------------------------- MODULE Delta --------------------------------
(***************************************************************************)
(* DeltaSync: the games IGDB changed since the last run, in pages by       *)
(* offset, oldest change first, and the newest change kept as the next     *)
(* run's start.  IGDB is external: a game may change at any time, between  *)
(* two pages too, and several may change in the same second.               *)
(***************************************************************************)
EXTENDS Integers, Sequences, FiniteSets, FiniteSetsExt, Functions

CONSTANTS
  Games,      \* IGDB games, numbers: IGDB's own order among equal times
  PageSize,   \* 500
  MaxPages,   \* 20
  MaxSecond,  \* bound: seconds
  MaxChanges  \* bound: changes

VARIABLES
  second,     \* the clock
  updated,    \* game -> updated_at at IGDB
  version,    \* game -> how often it changed
  stored,     \* game -> the version in our catalog
  deltaSince, \* igdb_sync_state "delta_since"
  run,        \* the run that is on
  edges,      \* history: seconds a page was read in, and times a run ended at
  shifted     \* history: games still to come when a run's pages moved, or changed after

deltaVars == <<second, updated, version, stored, deltaSince, run, edges, shifted>>

Resting == [pc |-> "idle"]

\* where updated_at > since; sort updated_at asc
Listed(since) == {g \in Games : updated[g] > since}
Before(g, h) == updated[g] < updated[h] \/ (updated[g] = updated[h] /\ g < h)
Position(g, since) == Cardinality({h \in Listed(since) : Before(h, g)})
\* limit PageSize; offset n
GetUpdatedSince(since, n) == {g \in Listed(since) : Position(g, since) \in n..(n + PageSize - 1)}
----------------------------------------------------------------------------
StartRun ==
  /\ run = Resting
  /\ run' = [pc |-> "page", since |-> deltaSince, page |-> 0, newest |-> deltaSince, moved |-> FALSE]
  /\ UNCHANGED <<second, updated, version, stored, deltaSince, edges, shifted>>

\* One page: every game of it is upserted; a short page is the last.
Page ==
  LET games == GetUpdatedSince(run.since, run.page * PageSize)
  IN  /\ run.pc = "page"
      /\ stored' = [g \in Games |-> IF g \in games THEN version[g] ELSE stored[g]]
      /\ run' = [run EXCEPT !.newest = Max({@} \cup {updated[g] : g \in games}),
                            !.page = @ + 1,
                            !.pc = IF Cardinality(games) < PageSize \/ run.page + 1 = MaxPages THEN "save" ELSE "page"]
      /\ edges' = edges \cup {second}
      /\ UNCHANGED <<second, updated, version, deltaSince, shifted>>

\* Slip: the next run starts where this one ended, not at what it saw last.
SaveNow ==
  /\ run.pc = "save"
  /\ deltaSince' = second /\ edges' = edges \cup {second}
  /\ run' = Resting
  /\ UNCHANGED <<second, updated, version, stored, shifted>>

Save ==
  /\ run.pc = "save"
  /\ deltaSince' = run.newest /\ edges' = edges \cup {run.newest}
  /\ run' = Resting
  /\ UNCHANGED <<second, updated, version, stored, shifted>>

\* A page, an upsert or the save fails, or the process stops: what was stored
\* stays, the start does not move.
Fail(some) ==
  /\ run # Resting
  /\ some \subseteq (IF run.pc = "page" THEN GetUpdatedSince(run.since, run.page * PageSize) ELSE {})
  /\ stored' = [g \in Games |-> IF g \in some THEN version[g] ELSE stored[g]]
  /\ run' = Resting
  /\ UNCHANGED <<second, updated, version, deltaSince, edges, shifted>>

\* IGDB changes a game, which moves to the end of the list.
Change(g) ==
  /\ SumFunction(version) < MaxChanges
  /\ updated' = [updated EXCEPT ![g] = second]
  /\ version' = [version EXCEPT ![g] = @ + 1]
  /\ LET moved == run # Resting /\ (run.moved \/ g \in Listed(run.since))
     IN  /\ run' = IF moved THEN [run EXCEPT !.moved = TRUE] ELSE run
         /\ shifted' = IF moved THEN shifted \cup {g} \cup {h \in Listed(run.since) : stored[h] # version[h]} ELSE shifted
  /\ UNCHANGED <<second, stored, deltaSince, edges>>

Tick ==
  /\ second < MaxSecond
  /\ second' = second + 1
  /\ UNCHANGED <<updated, version, stored, deltaSince, run, edges, shifted>>

\* The first run starts a day back; what is older is not this job's.
DeltaInit ==
  /\ second = 1 /\ updated = [g \in Games |-> 0]
  /\ version = [g \in Games |-> 0] /\ stored = [g \in Games |-> 0]
  /\ deltaSince = 0 /\ run = Resting /\ edges = {} /\ shifted = {}

DeltaNext ==
  \/ StartRun \/ Page \/ Save \/ Tick
  \/ \E some \in SUBSET Games : Fail(some)
  \/ \E g \in Games : Change(g)
----------------------------------------------------------------------------
(* Properties.                                                             *)

DeltaTypeOK ==
  /\ second \in 1..MaxSecond /\ deltaSince \in 0..MaxSecond
  /\ edges \subseteq 0..MaxSecond /\ shifted \subseteq Games
  /\ \A g \in Games : updated[g] \in 0..second /\ version[g] \in Nat /\ stored[g] \in 0..version[g]

Missed == {g \in Games : updated[g] <= deltaSince /\ stored[g] # version[g]}

\* "DeltaSync upserts games IGDB changed since the last run".  What it leaves
\* behind the start of the next one: a change of a second in which a page was read or
\* that a run ended at, and, once a game that is on the list has changed during
\* a run and the pages behind it have moved up, whatever was still to come or
\* changes in that run.  Nothing else, however often runs fail half-way.
DeltaComplete == \A g \in Missed : updated[g] \in edges \/ g \in shifted
----------------------------------------------------------------------------
(* What the steps preserve.                                                *)

Runs == [pc : {"page", "save"}, since : Nat, page : Nat, newest : Nat, moved : BOOLEAN]

\* Stored as it is, or one of those that a run may leave behind.
Accounted(g) == stored[g] = version[g] \/ updated[g] \in edges \/ g \in shifted

\* Games a run's pages have passed are accounted for; and what joins the list
\* while they do not move joins behind them, or in a second a page was read in.
Passed ==
  /\ \A g \in Listed(deltaSince) : Position(g, deltaSince) < run.page * PageSize => Accounted(g)
  /\ \/ run.page = 0
     \/ \E t \in edges : /\ t <= second
                         /\ Cardinality({g \in Listed(deltaSince) : updated[g] <= t}) >= run.page * PageSize

DeltaInv ==
  /\ DeltaTypeOK
  /\ updated \in [Games -> Nat] /\ version \in [Games -> Nat] /\ stored \in [Games -> Nat]
  /\ run \in {Resting} \cup Runs
  /\ deltaSince <= second /\ (deltaSince = 0 \/ deltaSince \in edges)
  /\ DeltaComplete
  /\ run # Resting =>
       /\ run.since = deltaSince /\ deltaSince <= run.newest /\ run.newest <= second
       /\ run.moved => \A g \in Listed(deltaSince) : stored[g] = version[g] \/ g \in shifted
       /\ ~run.moved => \A g \in Listed(deltaSince) : updated[g] < run.newest => Accounted(g)
       /\ ~run.moved /\ run.pc = "page" => Passed
=============================================================================
