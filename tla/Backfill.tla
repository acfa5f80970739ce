------------------------------- MODULE Backfill -------------------------------
(***************************************************************************)
(* The resumable backfills of `cato backfill-...`: one loop, runBackfill,  *)
(* over a specification of what is pending, how it is fetched and when a   *)
(* row counts as done.  It runs beside the server, and again after a stop. *)
(*                                                                         *)
(* Editions work as aliases do.  Popularity's order by rating is the order *)
(* of the ids here.                                                        *)
(***************************************************************************)
EXTENDS Integers, FiniteSets, FiniteSetsExt

CONSTANTS
  Games,     \* catalog games, numbers above 0
  BatchSize, \* at most 500
  Numeric,   \* games whose true cover URL looks like a guessed one
  MaxRuns    \* bound: runs started

VARIABLES
  upstream,  \* games IGDB knows
  marked,    \* games whose marker (popularity_, aliases_ or version_parent_fetched_at) is set
  guessed,   \* games whose cover_url is the guessed one, and wrong
  spec,      \* which backfill
  run,       \* the run that is on
  runs,      \* bound: see MaxRuns
  seen,      \* history: games of the run's earlier batches
  failed,    \* history: games a request or a write failed for in this run
  settled    \* history: games stored from IGDB, or not known to it when asked

backfillVars == <<upstream, marked, guessed, spec, run, runs, seen, failed, settled>>

Specs == {"popularity", "aliases", "covers", "categories"}
Resting == [pc |-> "idle"]

\* What a specification's "next" selects from: by a marker, or by id.
Pending ==
  IF spec \in {"popularity", "aliases"} THEN Games \ marked
  ELSE IF spec = "covers" THEN guessed \cup Numeric
  ELSE Games
ByMarker == spec \in {"popularity", "aliases"}
Candidates(after) == IF ByMarker THEN Pending ELSE {g \in Pending : g > after}
First(gs) == {g \in gs : Cardinality({h \in gs : h < g}) < BatchSize}

\* The order of the ids within a batch.
Turn(g) == g = Min(run.todo)
Done(g) == run' = [run EXCEPT !.todo = @ \ {g}, !.pc = IF run.todo = {g} THEN "next" ELSE "apply"]
----------------------------------------------------------------------------
StartRun ==
  /\ run = Resting /\ runs < MaxRuns
  /\ runs' = runs + 1
  /\ run' = [pc |-> "next", after |-> 0, todo |-> {}, got |-> {}, lost |-> {}]
  /\ seen' = {} /\ failed' = {}
  /\ UNCHANGED <<upstream, marked, guessed, spec, settled>>

\* Slip: the next page goes on from this one's first row.
NextBatchOverlapping ==
  LET ids == First(Candidates(run.after))
  IN  /\ run.pc = "next"
      /\ run' = IF ids = {} THEN Resting
                ELSE [run EXCEPT !.pc = "fetch", !.todo = ids, !.after = Min(ids)]
      /\ UNCHANGED <<upstream, marked, guessed, spec, runs, seen, failed, settled>>

\* No candidates left: the run ends.
NextBatch ==
  LET ids == First(Candidates(run.after))
  IN  /\ run.pc = "next"
      /\ run' = IF ids = {} THEN Resting
                ELSE [run EXCEPT !.pc = "fetch", !.todo = ids, !.after = Max(ids)]
      /\ UNCHANGED <<upstream, marked, guessed, spec, runs, seen, failed, settled>>

\* One request for the batch; when it fails after its retries the run fails.
FetchBatch(ok) ==
  /\ run.pc = "fetch" /\ spec # "popularity"
  /\ run' = IF ok THEN [run EXCEPT !.pc = "apply", !.got = run.todo \cap upstream, !.lost = {}] ELSE Resting
  /\ seen' = seen \cup run.todo
  /\ UNCHANGED <<upstream, marked, guessed, spec, runs, failed, settled>>

\* Popularity asks for each game; the ones that fail stay pending.
FetchEach(lost) ==
  /\ run.pc = "fetch" /\ spec = "popularity" /\ lost \subseteq run.todo
  /\ run' = [run EXCEPT !.pc = "apply", !.got = (run.todo \cap upstream) \ lost, !.lost = lost]
  /\ seen' = seen \cup run.todo /\ failed' = failed \cup lost
  /\ UNCHANGED <<upstream, marked, guessed, spec, runs, settled>>

\* A game IGDB returned.  A write that fails is logged.
Apply(g, ok) ==
  /\ run.pc = "apply" /\ g \in run.got /\ Turn(g)
  /\ Done(g)
  /\ failed' = IF ok THEN failed ELSE failed \cup {g}
  /\ settled' = IF ok THEN settled \cup {g} ELSE settled
  /\ marked' = IF ok /\ ByMarker THEN marked \cup {g} ELSE marked
  /\ guessed' = IF ok /\ spec = "covers" THEN guessed \ {g} ELSE guessed
  /\ UNCHANGED <<upstream, spec, runs, seen>>

\* Slip: whatever did not come back is taken for deleted.
MissingAll(g, ok) ==
  /\ run.pc = "apply" /\ g \in run.todo \ run.got /\ Turn(g)
  /\ Done(g)
  /\ failed' = IF ok THEN failed ELSE failed \cup {g}
  /\ settled' = IF g \in run.lost THEN settled ELSE settled \cup {g}
  /\ marked' = IF ok /\ ByMarker THEN marked \cup {g} ELSE marked
  /\ UNCHANGED <<upstream, guessed, spec, runs, seen>>

\* Slip: and it is never marked, so it is pending for ever.
MissingUnmarked(g, ok) ==
  /\ run.pc = "apply" /\ g \in run.todo \ run.got /\ Turn(g)
  /\ Done(g)
  /\ failed' = IF ok THEN failed ELSE failed \cup {g}
  /\ settled' = IF g \in run.lost THEN settled ELSE settled \cup {g}
  /\ UNCHANGED <<upstream, marked, guessed, spec, runs, seen>>

\* A game IGDB did not return is marked all the same; one whose own request
\* failed is not.
Missing(g, ok) ==
  /\ run.pc = "apply" /\ g \in run.todo \ run.got /\ Turn(g)
  /\ Done(g)
  /\ failed' = IF ok THEN failed ELSE failed \cup {g}
  /\ settled' = IF g \in run.lost THEN settled ELSE settled \cup {g}
  /\ marked' = IF ok /\ ByMarker /\ g \notin run.lost THEN marked \cup {g} ELSE marked
  /\ UNCHANGED <<upstream, guessed, spec, runs, seen>>

\* A signal, between any two steps.
Stop ==
  /\ run # Resting
  /\ run' = Resting
  /\ UNCHANGED <<upstream, marked, guessed, spec, runs, seen, failed, settled>>

\* The server stores a full record: UpsertIGDBGame sets every marker.
ServerUpserts(g) ==
  /\ g \in upstream
  /\ marked' = marked \cup {g} /\ guessed' = guessed \ {g} /\ settled' = settled \cup {g}
  /\ UNCHANGED <<upstream, spec, run, runs, seen, failed>>

DeletedUpstream(g) ==
  /\ g \in upstream
  /\ upstream' = upstream \ {g}
  /\ UNCHANGED <<marked, guessed, spec, run, runs, seen, failed, settled>>

BackfillInit ==
  /\ upstream \in {Games, Games \ {Min(Games)}} /\ marked = {} /\ spec \in Specs
  /\ guessed = Games \ Numeric
  /\ run = Resting /\ runs = 0 /\ seen = {} /\ failed = {} /\ settled = {}

BackfillNext ==
  \/ StartRun \/ NextBatch \/ Stop
  \/ \E ok \in BOOLEAN : FetchBatch(ok) \/ \E g \in Games : Apply(g, ok) \/ Missing(g, ok)
  \/ \E lost \in SUBSET Games : FetchEach(lost)
  \/ \E g \in Games : ServerUpserts(g) \/ DeletedUpstream(g)
----------------------------------------------------------------------------
(* Properties.                                                             *)

BackfillTypeOK ==
  /\ spec \in Specs /\ runs \in 0..MaxRuns
  /\ \A gs \in {upstream, marked, guessed, seen, failed, settled} : gs \subseteq Games
  /\ run.pc \in {"idle", "next", "fetch", "apply"}

\* A row that no later run will look at again was stored from IGDB or is not
\* known there: no failure and no stop, wherever it came, hides a row.
MarkedIsSettled == marked \subseteq settled

\* A run asks again only for rows whose request or write failed in it; one that
\* IGDB does not know is marked, and not asked for again.  This is less than the
\* code's comments have it ("so the queue always advances", store.go:931): a row
\* that fails every time is pending every time, and a run by marker takes it
\* again and again and does not end.
QueueAdvances == run.pc = "fetch" => run.todo \cap seen \subseteq failed

\* The same of a run that pages by id, which takes no row twice.
PagesOnce == run.pc = "fetch" /\ ~ByMarker => run.todo \cap seen = {}
----------------------------------------------------------------------------
(* What the steps preserve.                                                *)

Runs == [pc : {"next", "fetch", "apply"}, after : Nat,
         todo : SUBSET Games, got : SUBSET Games, lost : SUBSET Games]

\* The rows the run has asked for: by marker each is marked, failed or still to
\* be applied, and by id none is behind the one the run goes on from.
BackfillInv ==
  /\ BackfillTypeOK
  /\ MarkedIsSettled
  /\ run \in {Resting} \cup Runs
  /\ run.pc \in {"fetch", "apply"} => run.todo # {}
  /\ run # Resting /\ ByMarker =>
       /\ seen \subseteq marked \cup failed \cup (IF run.pc = "apply" THEN run.todo ELSE {})
       /\ run.pc = "apply" => run.lost \subseteq failed
       /\ run.pc = "fetch" => run.todo \cap seen \subseteq failed
  /\ run # Resting /\ ~ByMarker =>
       /\ \A g \in seen \cup run.todo : g <= run.after
       /\ run.pc = "fetch" => run.todo \cap seen = {}
=============================================================================
