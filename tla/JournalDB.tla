----------------------------- MODULE JournalDB -----------------------------
(***************************************************************************)
(* One person's library tables (internal/db/migrate.go, schema v18) and    *)
(* what each SQL statement of internal/library does to them, the triggers  *)
(* and the foreign-key cascades it sets off included.  A database is a     *)
(* record; a statement is an operator from a database to the next one.     *)
(*                                                                         *)
(* library_rev only ever grows and every trigger that moves it also stamps *)
(* the row, so all a transaction tells the outside is WHICH games it       *)
(* stamped: `touched`.  LibraryRev models the counter itself.              *)
(***************************************************************************)
EXTENDS Integers, FiniteSets, Sequences, SequencesExt, Functions

CONSTANTS
  Games,        \* games of the catalog
  Days,         \* calendar days: a finite set of positive numbers
  MaxSession    \* the longest diary entry (1440 minutes in the code)

ASSUME DaysAssumption == Days \subseteq Nat \ {0}
ASSUME MaxSessionAssumption == MaxSession \in Nat \ {0}

None == 0       \* SQL NULL, for dates and for ids (ids start at 1)

Statuses == {"wishlist", "backlog", "playing", "paused", "completed", "abandoned"}
Sources  == {"manual", "timer", "adjust", "legacy", "steam", "import"}
MaybeDay == Days \cup {None}

\* library_items, playthroughs and play_sessions.  Ratings, notes, tags,
\* platforms and the diary's dates are left out: no property is about them.
RowType == [status : Statuses, started : MaybeDay, completed : MaybeDay,
            total : Nat, cur : Nat]
RunType == [game : Games, started : MaybeDay, finished : MaybeDay,
            minutes : Int, edition : Nat]
SessionType == [game : Games, run : Nat, minutes : Int, source : Sources]

EmptyDB == [items |-> <<>>, runs |-> <<>>, sessions |-> <<>>,
            runSeq |-> 0, sessSeq |-> 0, touched |-> {}]

InLibrary(d, g)  == g \in DOMAIN d.items
RunsOf(d, g)     == {r \in DOMAIN d.runs : d.runs[r].game = g}
SessionsOf(d, g) == {s \in DOMAIN d.sessions : d.sessions[s].game = g}
SessionsIn(d, r) == {s \in DOMAIN d.sessions : d.sessions[s].run = r}

\* A table with one more row, or that row replaced; with that row replaced if
\* it has it; two tables in one, the first one's rows before the other's; a
\* table without the rows of S.
Put(f, x, v) == [y \in DOMAIN f \cup {x} |-> IF y = x THEN v ELSE f[y]]
Update(f, x, v) == [y \in DOMAIN f |-> IF y = x THEN v ELSE f[y]]
Over(new, old) == [y \in DOMAIN new \cup DOMAIN old |-> IF y \in DOMAIN new THEN new[y] ELSE old[y]]
Without(f, S) == Restrict(f, DOMAIN f \ S)

\* MAX(0, n)
Clamp(n) == IF n \in Nat THEN n ELSE 0

\* The minutes left after statements that each add one entry of `change`,
\* in id order, clamping at zero every time.
Replay(from, change) ==
  LET order == SetToSortSeq(DOMAIN change, <)
  IN  Clamp(FoldLeft(LAMBDA t, id : Clamp(t + change[id]), from, order))

MinutesOf(d, S) == [s \in S |-> d.sessions[s].minutes]
Negated(f) == [x \in DOMAIN f |-> -f[x]]
SumMinutes(d, S) == SumFunction(MinutesOf(d, S))

----------------------------------------------------------------------------
(* Statements.                                                             *)

\* A slip: library_rev_au does not fire.
PutRowUnstamped(d, g, row) == [d EXCEPT !.items = Put(@, g, row)]

\* INSERT/UPDATE of a library row; library_rev_ai, library_rev_au.
PutRow(d, g, row) ==
  [d EXCEPT !.items = Put(@, g, row), !.touched = @ \cup {g}]

\* A slip: foreign keys are off, so nothing cascades.
DeleteRowOnly(d, g) ==
  [d EXCEPT !.items = Without(@, {g}), !.touched = @ \cup {g}]

\* DELETE of a library row: its runs and sessions cascade; library_rev_ad.
DeleteRow(d, g) ==
  [d EXCEPT !.items = Without(@, {g}),
            !.runs = Without(@, RunsOf(d, g)),
            !.sessions = Without(@, SessionsOf(d, g)),
            !.touched = @ \cup {g}]

\* What the session triggers do to the item's total and the run's minutes.
Longer(row, m) == [row EXCEPT !.total = Clamp(@ + m)]
Played(run, m) == [run EXCEPT !.minutes = Clamp(@ + m)]

\* A slip: play_sessions_ai only feeds the run.
AddMinutesToRun(d, g, run, m) == [d EXCEPT !.runs = Update(@, run, Played(@[run], m))]

AddMinutes(d, g, run, m) ==
  [d EXCEPT !.items = Update(@, g, Longer(@[g], m)),
            !.runs = Update(@, run, Played(@[run], m)),
            !.touched = @ \cup ({g} \cap DOMAIN d.items)]

\* A slip: ids without AUTOINCREMENT are handed out again.
AddSessionReusedId(d, s) ==
  LET id == Max(DOMAIN d.sessions \cup {0}) + 1
      e  == AddMinutes(d, s.game, s.run, s.minutes)
  IN  [e EXCEPT !.sessions = Put(@, id, s), !.sessSeq = Max({id, d.sessSeq})]

\* INSERT INTO play_sessions; play_sessions_ai.
AddSession(d, s) ==
  LET id == d.sessSeq + 1
      e  == AddMinutes(d, s.game, s.run, s.minutes)
  IN  [e EXCEPT !.sessions = Put(@, id, s), !.sessSeq = id]

\* DELETE FROM play_sessions; play_sessions_ad.
DropSession(d, id) ==
  LET s == d.sessions[id]
      e == AddMinutes(d, s.game, s.run, -s.minutes)
  IN  [e EXCEPT !.sessions = Without(@, {id})]

\* UPDATE play_sessions SET minutes; play_sessions_au.  The run first loses
\* the old minutes, clamped, and then gains the new ones, unclamped.
SetMinutes(d, id, m) ==
  LET s   == d.sessions[id]
      row == d.items[s.game]
      run == d.runs[s.run]
  IN  [d EXCEPT
         !.sessions = Update(@, id, [s EXCEPT !.minutes = m]),
         !.items = Update(@, s.game, [row EXCEPT !.total = Clamp(row.total - s.minutes + m)]),
         !.runs = Update(@, s.run, [run EXCEPT !.minutes = Clamp(run.minutes - s.minutes) + m]),
         !.touched = @ \cup ({s.game} \cap DOMAIN d.items)]

NewRun(g, day) == [game |-> g, started |-> day, finished |-> None, minutes |-> 0, edition |-> None]

\* A slip: the new run is not made the current one.
AddRunAside(d, g, day) ==
  LET id == d.runSeq + 1
  IN  [d EXCEPT
         !.runs = Put(@, id, NewRun(g, day)),
         !.runSeq = id]

\* INSERT INTO playthroughs and the UPDATE that makes it current.
AddRun(d, g, day) ==
  LET id == d.runSeq + 1
      e  == PutRow(d, g, [d.items[g] EXCEPT !.cur = id])
  IN  [e EXCEPT
         !.runs = Put(@, id, NewRun(g, day)),
         !.runSeq = id]

\* DELETE FROM playthroughs: its sessions cascade one by one, each firing
\* play_sessions_ad on the item.
DropRun(d, r) ==
  LET g == d.runs[r].game
      S == SessionsIn(d, r)
      e == [d EXCEPT !.runs = Without(@, {r}), !.sessions = Without(@, S)]
      t == Replay(d.items[g].total, Negated(MinutesOf(d, S)))
  IN  IF S = {} THEN e
      ELSE [e EXCEPT !.items = Update(@, g, [d.items[g] EXCEPT !.total = t]), !.touched = @ \cup {g}]

\* The table's CHECKs; a statement that breaks one aborts its transaction.
SessionCheck(s) ==
  /\ s.minutes # 0
  /\ s.minutes > 0 \/ s.source = "adjust"
  /\ s.minutes <= MaxSession \/ s.source \in {"legacy", "adjust", "steam", "import"}
ChecksHold(d) ==
  /\ \A s \in DOMAIN d.sessions : SessionCheck(d.sessions[s])
  /\ \A r \in DOMAIN d.runs : d.runs[r].minutes >= 0

----------------------------------------------------------------------------
(* Snapshots: what an undo puts back (undo.go).                            *)

NoRow == [status |-> "none"]

\* A slip: the snapshot forgets the diary.
SnapshotWithoutDiary(d, g) ==
  IF ~InLibrary(d, g)
  THEN [row |-> NoRow, runs |-> <<>>, sessions |-> <<>>]
  ELSE [row |-> [status |-> d.items[g].status, started |-> d.items[g].started,
                 completed |-> d.items[g].completed, cur |-> d.items[g].cur],
        runs |-> [r \in RunsOf(d, g) |->
                    [started |-> d.runs[r].started, finished |-> d.runs[r].finished]],
        sessions |-> <<>>]

\* snapshotItem.
Snapshot(d, g) ==
  IF ~InLibrary(d, g)
  THEN [row |-> NoRow, runs |-> <<>>, sessions |-> <<>>]
  ELSE [row |-> [status |-> d.items[g].status, started |-> d.items[g].started,
                 completed |-> d.items[g].completed, cur |-> d.items[g].cur],
        runs |-> [r \in RunsOf(d, g) |->
                    [started |-> d.runs[r].started, finished |-> d.runs[r].finished]],
        sessions |-> Restrict(d.sessions, SessionsOf(d, g))]

\* The UNIQUE ids and foreign keys that re-inserting a snapshot relies on.
Restorable(d, g, snap) ==
  LET e == IF InLibrary(d, g) THEN DeleteRow(d, g) ELSE d
  IN  /\ DOMAIN snap.runs \cap DOMAIN e.runs = {}
      /\ DOMAIN snap.sessions \cap DOMAIN e.sessions = {}
      /\ \A s \in DOMAIN snap.sessions :
           snap.sessions[s].run \in DOMAIN snap.runs \cup DOMAIN e.runs \cup {None}

\* restoreItem: the row goes back with no minutes and the re-inserted
\* sessions rebuild the totals through play_sessions_ai.
RestoreItem(d, g, snap) ==
  LET e == IF InLibrary(d, g) THEN DeleteRow(d, g) ELSE d
      S == DOMAIN snap.sessions
      In(r) == {s \in S : snap.sessions[s].run = r}
      Change(T) == [s \in T |-> snap.sessions[s].minutes]
  IN  IF snap.row = NoRow THEN e
      ELSE [PutRow(e, g, [status |-> snap.row.status, started |-> snap.row.started,
                          completed |-> snap.row.completed, cur |-> snap.row.cur,
                          total |-> Replay(0, Change(S))])
            EXCEPT !.runs = Over([r \in DOMAIN snap.runs |->
                               [game |-> g, started |-> snap.runs[r].started,
                                finished |-> snap.runs[r].finished,
                                minutes |-> Replay(0, Change(In(r))), edition |-> None]], @),
                   !.sessions = Over(snap.sessions, @)]
=============================================================================
