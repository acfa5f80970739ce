------------------------------- MODULE Process -------------------------------
(***************************************************************************)
(* The process: `cato serve` snapshots a database it is about to upgrade,  *)
(* migrates it version by version, starts its owners (requests, catalog    *)
(* workers, jobs, the cover worker) and stops them in that order; the      *)
(* other commands migrate too.  A supervisor restarts what failed, at once *)
(* or later; the operator installs newer binaries and, after a bad         *)
(* upgrade, restores a snapshot.                                           *)
(***************************************************************************)
EXTENDS Integers, Sequences

CONSTANTS
  Latest,     \* the newest schema there is a binary for
  Failing,    \* migrations that fail on this database
  Keep,       \* snapshots kept (5)
  MaxStarts   \* bound: processes started

Owners == {"requests", "workers", "jobs", "covers"}

VARIABLES
  schema,     \* MAX(version) of schema_migrations, 0: a new database
  binary,     \* LatestVersion() of the installed binary
  snapshots,  \* the snapshots by age: the schema each holds, 0 for one cut short
  pc,         \* where the process is
  running,    \* owners that use the database
  open,       \* the database is open
  starts,     \* bound: processes started
  before,     \* history: the schema the installed binary found first
  tries,      \* history: snapshots begun since
  late,       \* history: an owner's shutdown ran out of time
  bare        \* history: a command other than serve migrated

processVars == <<schema, binary, snapshots, pc, running, open, starts, before, tries, late, bare>>
history == <<before, tries, late, bare>>
----------------------------------------------------------------------------
(* Start.                                                                  *)

\* serve opens the database.
Start ==
  /\ pc = "down" /\ starts < MaxStarts
  /\ starts' = starts + 1
  /\ pc' = "backup" /\ open' = TRUE
  /\ late' = FALSE
  /\ UNCHANGED <<schema, binary, snapshots, running, before, tries, bare>>

NeedsSnapshot == schema # 0 /\ schema < binary

Kept(snaps) == SubSeq(snaps, IF Len(snaps) > Keep THEN Len(snaps) - Keep + 1 ELSE 1, Len(snaps))

\* Slip: the newest snapshots go first, as names sort.
SnapshotByName ==
  /\ pc = "backup"
  /\ pc' = "migrate"
  /\ snapshots' = IF NeedsSnapshot THEN SubSeq(Append(snapshots, schema), 1, IF Len(snapshots) < Keep THEN Len(snapshots) + 1 ELSE Keep) ELSE snapshots
  /\ tries' = IF NeedsSnapshot THEN tries + 1 ELSE tries
  /\ UNCHANGED <<schema, binary, running, open, starts, before, late, bare>>

\* BackupBeforeMigrate: VACUUM INTO a new file, then rotateSnapshots.
Snapshot ==
  /\ pc = "backup"
  /\ pc' = "migrate"
  /\ snapshots' = IF NeedsSnapshot THEN Kept(Append(snapshots, schema)) ELSE snapshots
  /\ tries' = IF NeedsSnapshot THEN tries + 1 ELSE tries
  /\ UNCHANGED <<schema, binary, running, open, starts, before, late, bare>>

\* It fails or is cut off half-way: the file it began stays and is one of the
\* snapshots from now on.
SnapshotCut(began) ==
  /\ pc = "backup" /\ NeedsSnapshot
  /\ snapshots' = IF began THEN Append(snapshots, 0) ELSE snapshots
  /\ tries' = tries + 1
  /\ pc' = "down" /\ open' = FALSE
  /\ UNCHANGED <<schema, binary, running, starts, before, late, bare>>

\* applyMigration: one version, one transaction.
ApplyMigration ==
  /\ pc \in {"migrate", "command"} /\ schema < binary
  /\ IF schema + 1 \in Failing
     THEN pc' = "down" /\ open' = FALSE /\ UNCHANGED <<schema, bare>>
     ELSE schema' = schema + 1 /\ bare' = (bare \/ pc = "command") /\ UNCHANGED <<pc, open>>
  /\ UNCHANGED <<binary, snapshots, running, starts, before, tries, late>>

\* An older binary on a newer schema has nothing to apply and serves it.
Serve ==
  /\ pc = "migrate" /\ schema >= binary
  /\ pc' = "serving" /\ running' = Owners
  /\ UNCHANGED <<schema, binary, snapshots, open, starts, history>>

\* import-games and backfill: db.Migrate without a snapshot, then their work.
Command ==
  /\ pc = "down" /\ starts < MaxStarts
  /\ starts' = starts + 1
  /\ pc' = "command" /\ open' = TRUE
  /\ UNCHANGED <<schema, binary, snapshots, running, history>>

CommandDone ==
  /\ pc = "command" /\ schema >= binary
  /\ pc' = "down" /\ open' = FALSE
  /\ UNCHANGED <<schema, binary, snapshots, running, starts, history>>
----------------------------------------------------------------------------
(* Shutdown.                                                               *)

\* The steps of a shutdown, and whom each waits for.
Steps == <<"requests", "workers", "jobs", "covers">>
Stopping(i) == pc = Steps[i]

\* A signal, or the server failed.
Signal ==
  /\ pc = "serving"
  /\ pc' = Steps[1]
  /\ UNCHANGED <<schema, binary, snapshots, running, open, starts, history>>

Onward(i) == IF i = Len(Steps) THEN "close" ELSE Steps[i + 1]

\* An owner's Shutdown returns when it has stopped, or when the budget is
\* spent: the owner may run on, and the next owner is stopped all the same.
OwnerStops(o) ==
  /\ pc \notin {"down", "backup", "migrate", "command", "serving"} /\ o \in running
  /\ running' = running \ {o}
  /\ UNCHANGED <<schema, binary, snapshots, pc, open, starts, history>>

Stopped(i) ==
  /\ Stopping(i) /\ Steps[i] \notin running
  /\ pc' = Onward(i)
  /\ UNCHANGED <<schema, binary, snapshots, running, open, starts, history>>

OutOfTime(i) ==
  /\ Stopping(i) /\ Steps[i] \in running
  /\ pc' = Onward(i) /\ late' = TRUE
  /\ UNCHANGED <<schema, binary, snapshots, running, open, starts, before, tries, bare>>

\* Slip: the database is closed while the last owner is still to be stopped.
CloseEarly ==
  /\ pc \in {"covers", "close"} /\ open
  /\ open' = FALSE
  /\ UNCHANGED <<schema, binary, snapshots, pc, running, starts, history>>

\* serve returns, and with it the deferred database.Close(): on the clean way
\* out and on the one that says "Don't close the database".
Close ==
  /\ pc = "close" /\ open
  /\ open' = FALSE
  /\ UNCHANGED <<schema, binary, snapshots, pc, running, starts, history>>

Exit ==
  /\ pc = "close" /\ ~open
  /\ pc' = "down" /\ running' = {}
  /\ UNCHANGED <<schema, binary, snapshots, open, starts, history>>

Crash ==
  /\ pc # "down"
  /\ pc' = "down" /\ open' = FALSE /\ running' = {}
  /\ UNCHANGED <<schema, binary, snapshots, starts, history>>
----------------------------------------------------------------------------
(* The operator.                                                           *)

Install(v) ==
  /\ pc = "down" /\ v > binary
  /\ binary' = v /\ before' = schema /\ tries' = 0 /\ bare' = FALSE
  /\ UNCHANGED <<schema, snapshots, pc, running, open, starts, late>>

\* The stopped-service restore, with the binary that goes with the snapshot.
Restore(i) ==
  /\ pc = "down" /\ snapshots[i] # 0
  /\ schema' = snapshots[i] /\ binary' = snapshots[i]
  /\ before' = snapshots[i] /\ tries' = 0 /\ bare' = FALSE
  /\ UNCHANGED <<snapshots, pc, running, open, starts, late>>

ProcessInit ==
  /\ binary = 1 /\ schema \in {0, 1} /\ before = schema
  /\ snapshots = <<>> /\ pc = "down" /\ running = {} /\ open = FALSE
  /\ starts = 0 /\ tries = 0 /\ late = FALSE /\ bare = FALSE

ProcessNext ==
  \/ Start \/ Snapshot \/ ApplyMigration \/ Serve \/ Command \/ CommandDone
  \/ \E began \in BOOLEAN : SnapshotCut(began)
  \/ Signal \/ Close \/ Exit \/ Crash
  \/ \E o \in Owners : OwnerStops(o)
  \/ \E i \in DOMAIN Steps : Stopped(i) \/ OutOfTime(i)
  \/ \E v \in 1..Latest : Install(v)
  \/ \E i \in DOMAIN snapshots : Restore(i)
----------------------------------------------------------------------------
(* Properties.                                                             *)

ProcessTypeOK ==
  /\ schema \in 0..Latest /\ binary \in 1..Latest /\ before \in 0..Latest
  /\ snapshots \in Seq(0..Latest)
  /\ running \subseteq Owners /\ starts \in 0..MaxStarts /\ tries \in Nat
  /\ \A b \in {open, late, bare} : b \in BOOLEAN

\* "so a bad migration can be undone": once the installed binary has raised
\* the schema there is a whole snapshot of the schema it found, until it has
\* begun more snapshots than are kept (a start that fails takes one each time)
\* or a command that takes none has migrated.
SnapshotSurvives ==
  before # 0 /\ schema > before /\ ~bare /\ tries <= Keep =>
    \E i \in DOMAIN snapshots : snapshots[i] = before

\* "Don't close the database while an owner may still use it" (main.go): it
\* outlives its owners, unless one of them did not stop in time.
ClosedLast == running # {} /\ ~open => late
----------------------------------------------------------------------------
(* What the steps preserve.                                                *)

\* A snapshot of this schema is among the last so many.
Held(n, last) == \E i \in 1..Len(snapshots) : snapshots[i] = n /\ Len(snapshots) - i < last

\* The schema only goes up from the one the binary found, and from there on
\* there is a snapshot of it that as many as are kept may still follow.
SnapshotInv ==
  /\ schema >= before
  /\ before # 0 /\ ~bare /\ tries <= Keep /\ (schema > before \/ (pc = "migrate" /\ schema < binary)) => Held(before, tries)

\* The database is open while somebody is to use it; each owner that is not
\* late has stopped before the next one is told to.
OpenInv ==
  /\ pc \in {"down", "backup", "migrate", "command", "serving", "close"} \cup Owners
  /\ pc \notin {"down", "close"} => open
  /\ pc \in {"down", "backup", "migrate", "command"} => running = {}
  /\ ~late => /\ "requests" \in running => pc \in {"serving", "requests"}
              /\ "workers" \in running => pc \in {"serving", "requests", "workers"}
              /\ "jobs" \in running => pc \in {"serving", "requests", "workers", "jobs"}
              /\ "covers" \in running => pc \in {"serving"} \cup Owners

ProcessInv == ProcessTypeOK /\ SnapshotInv /\ OpenInv
=============================================================================
