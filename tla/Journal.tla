------------------------------ MODULE Journal ------------------------------
(***************************************************************************)
(* internal/library: every operation of the store that changes one         *)
(* person's library.  Each runs in one IMMEDIATE transaction on the single *)
(* writer connection, so an operation on one game is one action.  The ones *)
(* that loop over games (bulk, undo, import) take a step per game on a     *)
(* working copy that only their commit publishes.                          *)
(***************************************************************************)
EXTENDS JournalDB

CONSTANTS
  Custom,       \* the games people added by hand: their ids are negative
  Changes,      \* the partial updates people send (write.go, Change)
  RunEdits,     \* the edits of a run people send (PlaythroughChange)
  Lengths,      \* the minutes people give a diary entry
  Entries,      \* the rows an import brings
  MaxWrites,    \* bound: undo ids handed out
  MaxImports    \* bound: import batches

Keep == -1      \* a nil pointer: the field is not part of the update

ChangeType ==
  [status : Statuses \cup {""}, started : MaybeDay \cup {Keep},
   completed : MaybeDay \cup {Keep}, total : Nat \cup {Keep},
   delta : Int, edition : Nat]
RunEditType == [started : MaybeDay \cup {Keep}, finished : MaybeDay \cup {Keep}]
EntryType == [status : Statuses, minutes : Nat, started : MaybeDay,
              completed : MaybeDay, sessions : Seq(Nat \ {0})]

ASSUME CustomAssumption  == Custom \subseteq Games
ASSUME ChangesAssumption == Changes \subseteq ChangeType
ASSUME RunEditsAssumption == RunEdits \subseteq RunEditType
ASSUME LengthsAssumption == Lengths \subseteq Nat \ {0}
ASSUME EntriesAssumption == \A e \in Entries : e \in EntryType
ASSUME BoundsAssumption  == MaxWrites \in Nat /\ MaxImports \in Nat

VARIABLES
  db,        \* the committed tables
  undoLog,   \* undo id -> the snapshots it restores
  activity,  \* what friends' feeds show, each row with its write's undo id
  batches,   \* import batch id -> the snapshots UndoImport restores
  issued,    \* the last undo id and import batch id handed out
  tx         \* the transaction a looping operation has open

vars == <<db, undoLog, activity, batches, issued, tx>>

NoTx == [op |-> "none"]
Idle == tx = NoTx

----------------------------------------------------------------------------
(* applyChange: one item write.                                            *)

OldRow(d, g) ==
  IF InLibrary(d, g) THEN d.items[g]
  ELSE [status |-> "", started |-> None, completed |-> None, total |-> 0, cur |-> None]

NewStatus(d, g, ch) ==
  IF ch.status # "" THEN ch.status
  ELSE IF InLibrary(d, g) THEN d.items[g].status ELSE "backlog"

\* A slip: an unspecified date is stored as it came.
NewDateUnchecked(given, old, enters, now) == IF enters THEN now ELSE given

\* An unspecified date is kept, and set only when the status moves in.
NewDate(given, old, enters, now) ==
  IF given # Keep THEN given
  ELSE IF old # None THEN old
  ELSE IF enters THEN now ELSE None

UpsertRow(d, g, ch, now) ==
  LET old == OldRow(d, g)
      st  == NewStatus(d, g, ch)
  IN  PutRow(d, g,
        [status |-> st,
         started |-> NewDate(ch.started, old.started, st = "playing" /\ old.status # "playing", now),
         completed |-> NewDate(ch.completed, old.completed,
                               st = "completed" /\ old.status # "completed", now),
         total |-> old.total, cur |-> old.cur])

\* The first run starts when the item says it did, unless that is the "now"
\* this very write set.
FirstStart(old, row, ch, day) ==
  IF (ch.started # Keep \/ old.started # None) /\ row.started # None
  THEN row.started ELSE day

\* updatePlaythroughs: a status change opens and closes runs.  `old` is the
\* row before the write and `d` the tables after it was upserted.
UpdatePlaythroughs(d, g, old, ch, day) ==
  LET row   == d.items[g]
      st    == row.status
      moved == st # old.status
      cur   == IF row.cur \in DOMAIN d.runs THEN row.cur ELSE None
      over  == cur # None /\ d.runs[cur].finished # None
      start == CASE moved /\ st = "playing" /\ over -> day
                 [] moved /\ st \in {"completed", "abandoned"} -> row.started
                 [] OTHER -> FirstStart(old, row, ch, day)
      opens == \/ moved /\ st = "playing" /\ (cur = None \/ over)
               \/ moved /\ st \in {"completed", "abandoned"} /\ cur = None
               \/ ch.edition # None /\ st \in {"playing", "completed"} /\ cur = None
      e     == IF opens THEN AddRun(d, g, start) ELSE d
      run   == IF opens THEN e.runSeq ELSE cur
      ends  == IF ch.completed # Keep /\ st = "completed" THEN row.completed
               ELSE IF moved /\ st = "completed" /\ row.completed # None THEN row.completed
               ELSE IF moved /\ st \in {"completed", "abandoned"} THEN day
               ELSE e.runs[run].finished
      was   == e.runs[run]
  IN  IF run = None THEN e
      ELSE [e EXCEPT !.runs = Update(@, run,
              [game |-> was.game, minutes |-> was.minutes, finished |-> ends,
               started |-> IF ch.started # Keep THEN row.started ELSE was.started,
               edition |-> IF ch.edition # None THEN ch.edition ELSE was.edition])]

\* The diary entry a write adds: a delta, or the way to the total asked for.
MinutesToLog(d, g, ch) ==
  LET total == d.items[g].total
  IN  IF ch.total # Keep THEN ch.total - total
      ELSE IF ch.delta < 0 /\ -ch.delta > total THEN -total ELSE ch.delta

WriteSource(ch) ==
  IF ch.delta > 0 /\ ch.delta <= MaxSession THEN "manual" ELSE "adjust"

LogMinutes(d, g, ch) ==
  LET m   == MinutesToLog(d, g, ch)
      cur == d.items[g].cur
  IN  IF m = 0 THEN d
      ELSE AddSession(d, [game |-> g, minutes |-> m, source |-> WriteSource(ch),
                          run |-> IF cur \in DOMAIN d.runs THEN cur ELSE None])

ApplyChange(d, g, ch, day, now) ==
  LogMinutes(UpdatePlaythroughs(UpsertRow(d, g, ch, now), g, OldRow(d, g), ch, day), g, ch)

\* The feed events of one item write (activity.go).
Events(d, g, ch) ==
  LET old == OldRow(d, g).status
      st  == NewStatus(d, g, ch)
  IN  (IF st = old THEN {}
       ELSE CASE st = "wishlist" -> {"wishlisted"}
              [] st = "playing" /\ old # "paused" -> {"started"}
              [] st = "completed" -> {"finished"}
              [] st = "abandoned" -> {"dropped"}
              [] st = "backlog" /\ old = "" -> {"added"}
              [] OTHER -> {})
      \cup (IF WriteSource(ch) = "manual" THEN {"logged"} ELSE {})

----------------------------------------------------------------------------
(* Operations on one game.                                                 *)

SnapshotOf(d, g) == [h \in {g} |-> Snapshot(d, g)]
Fresh(d) == [d EXCEPT !.touched = {}]   \* a new transaction

\* saveUndo, recordEvents and the commit of a write of games snapshotted in
\* `snaps`; a write that touched nothing gets no undo id.
Publish(d, snaps, events) ==
  /\ ChecksHold(d)
  /\ db' = d
  /\ UNCHANGED batches
  /\ IF DOMAIN snaps = {} THEN UNCHANGED <<undoLog, activity, issued>>
     ELSE /\ issued.undo < MaxWrites
          /\ issued' = [issued EXCEPT !.undo = @ + 1]
          /\ undoLog' = Put(undoLog, issued'.undo, snaps)
          /\ activity' = activity \cup
               {[undo |-> issued'.undo, game |-> e[1], kind |-> e[2]] : e \in events}

WriteOne(d, g, kinds) ==
  /\ Publish(d, SnapshotOf(db, g), {<<g, k>> : k \in kinds})
  /\ UNCHANGED tx

\* write: PATCH needs the item, PUT and POST create it.
Write(g, ch, day, now) ==
  /\ ~(ch.total # Keep /\ ch.delta # 0)
  /\ WriteOne(ApplyChange(Fresh(db), g, ch, day, now), g, Events(db, g, ch))

Patch(g, ch, day, now) == Idle /\ InLibrary(db, g) /\ Write(g, ch, day, now)
Upsert(g, ch, day, now) == Idle /\ Write(g, ch, day, now)

NoChange == [status |-> "", started |-> Keep, completed |-> Keep,
             total |-> Keep, delta |-> 0, edition |-> None]

\* LogSession: a diary entry of at most a day.
LogSession(g, m, day) ==
  /\ m <= MaxSession
  /\ Patch(g, [NoChange EXCEPT !.delta = m], day, day)

\* LogSynced, and the second transaction of StopTimer: an entry on the
\* current run, whatever the item's status.
LogOnRun(g, m, source) ==
  /\ Idle
  /\ InLibrary(db, g)
  /\ source = "timer" => m <= MaxSession
  /\ WriteOne(AddSession(Fresh(db), [game |-> g, run |-> db.items[g].cur,
                                     minutes |-> m, source |-> source]),
              g, {"logged"})

DeleteSession(id) ==
  /\ Idle
  /\ WriteOne(DropSession(Fresh(db), id), db.sessions[id].game, {})

UpdateSession(id, m) ==
  /\ Idle
  /\ m <= MaxSession \/ db.sessions[id].source \in {"legacy", "import", "steam"}
  /\ WriteOne(SetMinutes(Fresh(db), id, m), db.sessions[id].game, {})

EditedRun(run, edit) ==
  [run EXCEPT !.started = IF edit.started # Keep THEN edit.started ELSE @,
              !.finished = IF edit.finished # Keep THEN edit.finished ELSE @]

UpdatePlaythrough(r, edit) ==
  LET g == db.runs[r].game
      d == PutRow(Fresh(db), g, db.items[g])
  IN  /\ Idle
      /\ WriteOne([d EXCEPT !.runs = Update(@, r, EditedRun(@[r], edit))], g, {})

DeletePlaythrough(r) ==
  LET g == db.runs[r].game
      d == DropRun(Fresh(db), r)
  IN  /\ Idle
      /\ WriteOne(IF d.items[g].cur = r
                  THEN PutRow(d, g, [d.items[g] EXCEPT !.cur = None]) ELSE d,
                  g, {})

Delete(g) ==
  /\ Idle
  /\ InLibrary(db, g)
  /\ WriteOne(DeleteRow(Fresh(db), g), g, {})

----------------------------------------------------------------------------
(* Operations on several games: begin, one step per game, commit.          *)

Begin(op, arg, games) ==
  /\ Idle
  /\ tx' = [op |-> op, arg |-> arg, chosen |-> games, todo |-> games,
            work |-> Fresh(db), snaps |-> <<>>, events |-> {}]
  /\ UNCHANGED <<db, undoLog, activity, batches, issued>>

Worked(g, d, snaps, events) ==
  /\ tx' = [tx EXCEPT !.todo = @ \ {g}, !.work = d,
                      !.snaps = Over(snaps, @), !.events = @ \cup events]
  /\ UNCHANGED <<db, undoLog, activity, batches, issued>>

Skip(g) == Worked(g, tx.work, <<>>, {})

\* Bulk: a status for every selected game; dedupeIDs drops ids <= 0.
BeginBulk(S, st) == Begin("bulk", st, S) /\ S \ Custom # {}

BulkStep(g) ==
  LET ch == [NoChange EXCEPT !.status = tx.arg]
  IN  /\ tx.op = "bulk" /\ g \in tx.todo
      /\ IF g \notin Custom /\ InLibrary(tx.work, g)
         THEN \E day \in Days :
                Worked(g, ApplyChange(tx.work, g, ch, day, day), SnapshotOf(tx.work, g),
                       {<<g, k>> : k \in Events(tx.work, g, ch)})
         ELSE Skip(g)

\* Bulk with remove: deleteMany, which skips what is not there.
BeginRemove(S) == Begin("remove", "", S) /\ S \ Custom # {}

RemoveStep(g) ==
  /\ tx.op = "remove" /\ g \in tx.todo
  /\ IF g \notin Custom /\ InLibrary(tx.work, g)
     THEN Worked(g, DeleteRow(tx.work, g), SnapshotOf(tx.work, g), {})
     ELSE Skip(g)

CommitBulk ==
  /\ tx.op \in {"bulk", "remove"} /\ tx.todo = {}
  /\ Publish(tx.work, tx.snaps, tx.events)
  /\ tx' = NoTx

\* Undo and UndoImport restore every snapshot they hold.
BeginUndo(u) == Begin("undo", u, DOMAIN undoLog[u])
BeginUndoImport(b) == Begin("undoImport", b, DOMAIN batches[b])

Restoring == IF tx.op = "undo" THEN undoLog[tx.arg] ELSE batches[tx.arg]

RestoreStep(g) ==
  /\ tx.op \in {"undo", "undoImport"} /\ g \in tx.todo
  /\ Restorable(tx.work, g, Restoring[g])
  /\ Worked(g, RestoreItem(tx.work, g, Restoring[g]), <<>>, {})

CommitUndo ==
  /\ tx.op = "undo" /\ tx.todo = {}
  /\ ChecksHold(tx.work)
  /\ db' = tx.work
  /\ undoLog' = Without(undoLog, {tx.arg})
  /\ activity' = {a \in activity : a.undo # tx.arg}
  /\ tx' = NoTx
  /\ UNCHANGED <<batches, issued>>

CommitUndoImport ==
  /\ tx.op = "undoImport" /\ tx.todo = {}
  /\ ChecksHold(tx.work)
  /\ db' = tx.work
  /\ batches' = Without(batches, {tx.arg})
  /\ tx' = NoTx
  /\ UNCHANGED <<undoLog, activity, issued>>

\* A slip: an import overwrites what is there.
Overwrite(given, old) == IF given # None THEN given ELSE Keep

\* importChange: an import only fills what is missing.
Fill(given, old) == IF old = None /\ given # None THEN given ELSE Keep

ImportChange(d, g, e) ==
  LET old == OldRow(d, g)
  IN  [status |-> IF InLibrary(d, g) THEN "" ELSE e.status,
       started |-> Fill(e.started, old.started), completed |-> Fill(e.completed, old.completed),
       total |-> IF e.minutes > old.total THEN e.minutes ELSE Keep, delta |-> 0, edition |-> None]

\* addImportedSessions: the entry's own sessions, on no run, and then the
\* adjustment that stood for the total shrinks by what they account for.
AddImportedSessions(d, g, e) ==
  LET n   == Len(e.sessions)
      new == [id \in (d.sessSeq + 1)..(d.sessSeq + n) |->
                [game |-> g, run |-> None, minutes |-> e.sessions[id - d.sessSeq],
                 source |-> "import"]]
      sum == Replay(0, e.sessions)   \* clamping what only grows changes nothing
      x   == [AddMinutes(d, g, None, sum) EXCEPT
                !.sessions = Over(new, @), !.sessSeq = @ + n]
      adjusts == {s \in SessionsOf(d, g) : d.sessions[s].source = "adjust"}
      last == Max(adjusts)
      rest == d.sessions[last].minutes - sum
  IN  IF n = 0 THEN d
      ELSE IF adjusts = {} THEN x
      ELSE IF rest = 0 THEN DropSession(x, last) ELSE SetMinutes(x, last, rest)

ImportEntry(d, g, e, now) ==
  LET c == ApplyChange(d, g, ImportChange(d, g, e), now, now)
  IN  IF InLibrary(d, g) THEN c ELSE AddImportedSessions(c, g, e)

\* The row an export gives a game (export.go) and the entry it is read back
\* as (ParseCatoJSON): the total, and the diary without adjustments.
ExportEntry(d, g) ==
  LET kept == {s \in SessionsOf(d, g) : d.sessions[s].source \notin {"adjust", "legacy"}
                                         /\ d.sessions[s].minutes > 0}
      order == SetToSortSeq(kept, <)
  IN  [status |-> d.items[g].status, minutes |-> d.items[g].total,
       started |-> d.items[g].started, completed |-> d.items[g].completed,
       sessions |-> [i \in DOMAIN order |-> d.sessions[order[i]].minutes]]

BeginImport(f) == Begin("import", f, DOMAIN f) /\ issued.batch < MaxImports

ImportStep(g) ==
  /\ tx.op = "import" /\ g \in tx.todo
  /\ IF ImportChange(tx.work, g, tx.arg[g]) = NoChange THEN Skip(g)
     ELSE \E now \in Days :
            LET d == ImportEntry(tx.work, g, tx.arg[g], now)
            IN  ChecksHold(d) /\ Worked(g, d, SnapshotOf(tx.work, g), {})

CommitImport ==
  /\ tx.op = "import" /\ tx.todo = {}
  /\ db' = tx.work
  /\ tx' = NoTx
  /\ IF DOMAIN tx.snaps = {} THEN UNCHANGED <<batches, issued>>
     ELSE /\ issued' = [issued EXCEPT !.batch = @ + 1]
          /\ batches' = Put(batches, issued'.batch, tx.snaps)
  /\ UNCHANGED <<undoLog, activity>>

\* A failed statement, a cancelled request or a crash rolls it all back.
Rollback ==
  /\ ~Idle
  /\ tx' = NoTx
  /\ UNCHANGED <<db, undoLog, activity, batches, issued>>

\* Fifteen minutes pass: the oldest undo can no longer be used.
ExpireUndo ==
  /\ Idle
  /\ DOMAIN undoLog # {}
  /\ undoLog' = Without(undoLog, {Min(DOMAIN undoLog)})
  /\ UNCHANGED <<db, activity, batches, issued, tx>>

----------------------------------------------------------------------------
Init ==
  /\ db = EmptyDB
  /\ undoLog = <<>>
  /\ activity = {}
  /\ batches = <<>>
  /\ issued = [undo |-> 0, batch |-> 0]
  /\ tx = NoTx

WriteNext ==
  \E g \in Games :
    \/ \E ch \in Changes, day, now \in Days :
         Patch(g, ch, day, now) \/ Upsert(g, ch, day, now)
    \/ \E m \in Lengths, day \in Days : LogSession(g, m, day)
    \/ \E m \in Lengths, source \in {"steam", "timer"} : LogOnRun(g, m, source)
    \/ Delete(g)

DiaryNext ==
  \/ \E id \in DOMAIN db.sessions :
       DeleteSession(id) \/ \E m \in Lengths : UpdateSession(id, m)
  \/ \E r \in DOMAIN db.runs :
       DeletePlaythrough(r) \/ \E edit \in RunEdits : UpdatePlaythrough(r, edit)

LoopNext ==
  \/ \E S \in SUBSET Games :
       BeginRemove(S) \/ \E ch \in Changes : ch.status # "" /\ BeginBulk(S, ch.status)
  \/ \E S \in SUBSET Games : \E f \in [S -> Entries] : S # {} /\ BeginImport(f)
  \/ \E u \in DOMAIN undoLog : BeginUndo(u)
  \/ \E b \in DOMAIN batches : BeginUndoImport(b)
  \/ ~Idle /\ \E g \in tx.todo : BulkStep(g) \/ RemoveStep(g) \/ RestoreStep(g) \/ ImportStep(g)
  \/ CommitBulk \/ CommitUndo \/ CommitUndoImport \/ CommitImport
  \/ Rollback

Next == WriteNext \/ DiaryNext \/ LoopNext \/ ExpireUndo

Spec == Init /\ [][Next]_vars
----------------------------------------------------------------------------
(* Properties.                                                             *)

DBTypeOK(d) ==
  /\ DOMAIN d.items \subseteq Games    /\ \A g \in DOMAIN d.items : d.items[g] \in RowType
  /\ \A r \in DOMAIN d.runs : r \in 1..d.runSeq /\ d.runs[r] \in RunType
  /\ \A s \in DOMAIN d.sessions : s \in 1..d.sessSeq /\ d.sessions[s] \in SessionType
  /\ d.touched \subseteq Games

\* The current playthrough (which no foreign key protects) is a run of that
\* very game, a session's run is a run of the same game, and nothing in the
\* journal outlives its library item.
Owned(d) ==
  /\ \A g \in DOMAIN d.items : d.items[g].cur \in RunsOf(d, g) \cup {None}
  /\ \A r \in DOMAIN d.runs : InLibrary(d, d.runs[r].game)
  /\ \A s \in DOMAIN d.sessions :
       /\ InLibrary(d, d.sessions[s].game)
       /\ d.sessions[s].run \in RunsOf(d, d.sessions[s].game) \cup {None}

\* Every table holds rows of its own shape that hang together, committed or
\* being worked on.
TypeOK ==
  /\ DBTypeOK(db) /\ Owned(db)
  /\ Idle \/ (DBTypeOK(tx.work) /\ Owned(tx.work))
  /\ \A u \in DOMAIN undoLog : DOMAIN undoLog[u] \subseteq Games
  /\ \A a \in activity : a.undo \in 1..issued.undo /\ a.game \in Games
  /\ issued \in [undo : 0..MaxWrites, batch : 0..MaxImports]

\* migrate.go, "AUTOINCREMENT above keeps restored journal IDs from
\* colliding": whatever was written since, every undo and import batch still
\* on offer can be put back without breaking a key.
UndoAlwaysApplies ==
  /\ \A u \in DOMAIN undoLog : \A g \in DOMAIN undoLog[u] : Restorable(db, g, undoLog[u][g])
  /\ \A b \in DOMAIN batches : \A g \in DOMAIN batches[b] : Restorable(db, g, batches[b][g])
  /\ ~Idle /\ tx.op \in {"undo", "undoImport"} =>
       \A g \in tx.todo : Restorable(tx.work, g, Restoring[g])

\* The clamped totals never show less than the diary adds up to.
NeverUnderstates ==
  /\ \A g \in DOMAIN db.items : db.items[g].total >= SumMinutes(db, SessionsOf(db, g))
  /\ \A r \in DOMAIN db.runs : db.runs[r].minutes >= SumMinutes(db, SessionsIn(db, r))

\* As long as nobody reopens an old run by hand, the open run is the current
\* one, so at most one run of a game is open.
OpenRunIsCurrent ==
  \A r \in DOMAIN db.runs : db.runs[r].finished = None => db.items[db.runs[r].game].cur = r

\* "Running the same import twice changes nothing the second time", and "it
\* never overwrites what you already recorded" (importbatch.go): status and
\* dates stay, the total only rises, the diary keeps its entries.
ImportTwiceIsOnce ==
  Idle => \A g \in Games, e \in Entries, now \in Days :
    LET d == ImportEntry(db, g, e, now)
        old == OldRow(db, g)
    IN  ChecksHold(d) =>
          /\ ImportChange(d, g, e) = NoChange
          /\ InLibrary(db, g) =>
               /\ d.items[g].status = old.status /\ d.items[g].total >= old.total
               /\ \A date \in {"started", "completed"} : old[date] # None => d.items[g][date] = old[date]
               /\ \A s \in SessionsOf(db, g) : s \in DOMAIN d.sessions /\ d.sessions[s] = db.sessions[s]

\* "Every item with its playthroughs and sessions (including adjustments, so
\* totals re-import exactly)" (export.go): an account that imports an export
\* ends up with the totals it was taken with, and no CHECK aborts it.
ExportReimports ==
  \A g \in DOMAIN db.items : \A now \in Days :
    LET d == ImportEntry(EmptyDB, g, ExportEntry(db, g), now)
    IN  ChecksHold(d) /\ d.items[g].total = db.items[g].total

\* What undoing makes of tables e when `d` were those before the write of games
\* S: everything is back, the other games untouched, with two exceptions.  The
\* totals of S are those that the diary, replayed in order, adds up to: a total
\* that a correction had moved off its diary is not restored (undo.go:204).
\* And no run of S has an edition any more: the snapshot, "everything a write
\* can change for one game" (undo.go:19), leaves it out.
DiaryTotal(d, T) == Replay(0, MinutesOf(d, T))
GivenBack(d, e, S) ==
  /\ e.sessions = d.sessions
  /\ e.items = [g \in DOMAIN d.items |->
       IF g \notin S THEN d.items[g]
       ELSE [d.items[g] EXCEPT !.total = DiaryTotal(d, SessionsOf(d, g))]]
  /\ e.runs = [r \in DOMAIN d.runs |->
       IF d.runs[r].game \notin S THEN d.runs[r]
       ELSE [d.runs[r] EXCEPT !.minutes = DiaryTotal(d, SessionsIn(d, r)), !.edition = None]]
Undone(d, snaps) == FoldSet(LAMBDA g, e : RestoreItem(e, g, snaps[g]), d, DOMAIN snaps)

\* Undoing a write at once gives back the library and the journal as they were
\* before it, with the two exceptions, and the feed exactly: the snapshot
\* misses nothing else the write changes, no other game is touched, and every
\* feed event carries its write's undo id.
UndoRestores ==
  [][\A u \in DOMAIN undoLog' \ DOMAIN undoLog :
       /\ GivenBack(db, Undone(db', undoLog'[u]), DOMAIN undoLog'[u])
       /\ {a \in activity' : a.undo # u} = activity]_vars

\* And so does undoing an import at once: each of its games, those it added
\* too, and the exceptions are the same.
UndoImportRestores ==
  [][\A b \in DOMAIN batches' \ DOMAIN batches :
       GivenBack(db, Undone(db', batches'[b]), DOMAIN batches'[b])]_vars

\* Every change of a library row that readers can see is stamped by the
\* transaction that publishes it: what the devices' delta sync relies on.
RowOf(d, g) == IF InLibrary(d, g) THEN d.items[g] ELSE NoRow

ChangesAreStamped ==
  [][\A g \in Games : RowOf(db', g) # RowOf(db, g) => g \in db'.touched]_vars
=============================================================================
